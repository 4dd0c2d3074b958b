--------------------------- MODULE CommandMatch ---------------------------
(***************************************************************************)
(* How a trigger command of an "ebpf-resize" annotation is compared with    *)
(* the name of a process.  Two pieces of code meet here:                    *)
(*                                                                          *)
(*   - create_resize_bpf_map_entry (main.rs) copies the command, byte by    *)
(*     byte, into a zeroed array of BUF_SIZE bytes, the map value;          *)
(*   - podsnoop (podsnoop.bpf.c) reads the comm of the current task, which  *)
(*     the kernel keeps in TASK_COMM_LEN bytes including a NUL, into a      *)
(*     second zeroed array of BUF_SIZE bytes and walks both arrays.         *)
(*                                                                          *)
(* Buffers are functions on 0 .. BUF_SIZE - 1, as the C indices are.        *)
(***************************************************************************)
EXTENDS Naturals, Sequences

CONSTANTS
    BUF_SIZE,       \* bytes of pod_command.cmd and pod_exec_event.cgroup_cmd
    TASK_COMM_LEN,  \* bytes the kernel keeps of a task's name, NUL included
    Char,           \* the bytes a name is made of
    NUL,            \* the byte that ends a C string
    MaxLen          \* longest command and longest program name considered

ASSUME BufferAssumption ==
    /\ BUF_SIZE \in Nat /\ TASK_COMM_LEN \in Nat \ {0}
    /\ TASK_COMM_LEN <= BUF_SIZE
    /\ NUL \notin Char
    /\ MaxLen \in Nat

VARIABLES
    command,      \* the command string of the annotation
    program,      \* the name given to the task that calls execve
    val,          \* map value: struct pod_command.cmd
    cgroup_cmd,   \* struct pod_exec_event.cgroup_cmd
    i,            \* loop variable of the comparison
    is_equal,
    pc            \* "copy", "comm", "loop", "done" or "panicked"

vars == <<command, program, val, cgroup_cmd, i, is_equal, pc>>

Index  == 0 .. BUF_SIZE - 1
Byte   == Char \cup {NUL}
Buffer == [Index -> Byte]

ZeroPaddedOneTooLong(s) ==
    [k \in 0 .. BUF_SIZE |-> IF k < Len(s) THEN s[k + 1] ELSE NUL]

\* A zeroed buffer that holds the bytes of the sequence s.
ZeroPadded(s) == [k \in Index |-> IF k < Len(s) THEN s[k + 1] ELSE NUL]

SeqsUpTo(S, n) == UNION {[1 .. m -> S] : m \in 0 .. n}

\* A JSON string may hold an escaped NUL; a task's name never does.
Init ==
    /\ command \in SeqsUpTo(Byte, MaxLen)
    /\ program \in SeqsUpTo(Char, MaxLen)
    /\ val = ZeroPadded(<<>>)
    /\ cgroup_cmd = ZeroPadded(<<>>)
    /\ i = 0
    /\ is_equal = 1
    /\ pc = "copy"

CopyDropsLastByte ==
    /\ pc = "copy"
    /\ Len(command) <= BUF_SIZE
    /\ val' = ZeroPadded(SubSeq(command, 1, Len(command) - 1))
    /\ pc' = "comm"
    /\ UNCHANGED <<command, program, cgroup_cmd, i, is_equal>>

\* cmd_value[i] = cmd_bytes[i] for every byte: indexing past the array panics.
Copy ==
    /\ pc = "copy"
    /\ Len(command) <= BUF_SIZE
    /\ val' = ZeroPadded(command)
    /\ pc' = "comm"
    /\ UNCHANGED <<command, program, cgroup_cmd, i, is_equal>>

CopyPanics ==
    /\ pc = "copy"
    /\ Len(command) > BUF_SIZE
    /\ pc' = "panicked"
    /\ UNCHANGED <<command, program, val, cgroup_cmd, i, is_equal>>

\* What the kernel stores of a task's name.
CommOf(name) ==
    SubSeq(name, 1, IF Len(name) < TASK_COMM_LEN THEN Len(name) ELSE TASK_COMM_LEN - 1)

\* bpf_get_current_comm(&pxevent.cgroup_cmd, sizeof(pxevent.cgroup_cmd)).
GetCurrentComm ==
    /\ pc = "comm"
    /\ cgroup_cmd' = ZeroPadded(CommOf(program))
    /\ pc' = "loop"
    /\ UNCHANGED <<command, program, val, i, is_equal>>

CompareIgnoresNul ==
    /\ pc = "loop" /\ i < BUF_SIZE
    /\ IF cgroup_cmd[i] # val[i]
       THEN is_equal' = 0 /\ pc' = "done" /\ UNCHANGED i
       ELSE i' = i + 1 /\ UNCHANGED <<is_equal, pc>>
    /\ UNCHANGED <<command, program, val, cgroup_cmd>>

CompareStopsOnCommOnly ==
    /\ pc = "loop" /\ i < BUF_SIZE
    /\ IF cgroup_cmd[i] = NUL
       THEN is_equal' = 1 /\ pc' = "done" /\ UNCHANGED i
       ELSE IF cgroup_cmd[i] # val[i]
            THEN is_equal' = 0 /\ pc' = "done" /\ UNCHANGED i
            ELSE i' = i + 1 /\ UNCHANGED <<is_equal, pc>>
    /\ UNCHANGED <<command, program, val, cgroup_cmd>>

\* One iteration of the loop: a difference clears is_equal and leaves, the
\* end of either string leaves, otherwise the next byte is compared.
Compare ==
    /\ pc = "loop" /\ i < BUF_SIZE
    /\ \/ /\ cgroup_cmd[i] # val[i]
          /\ is_equal' = 0 /\ pc' = "done" /\ UNCHANGED i
       \/ /\ cgroup_cmd[i] = val[i]
          /\ cgroup_cmd[i] = NUL \/ val[i] = NUL
          /\ pc' = "done" /\ UNCHANGED <<i, is_equal>>
       \/ /\ cgroup_cmd[i] = val[i]
          /\ cgroup_cmd[i] # NUL /\ val[i] # NUL
          /\ i' = i + 1 /\ UNCHANGED <<is_equal, pc>>
    /\ UNCHANGED <<command, program, val, cgroup_cmd>>

Next == Copy \/ CopyPanics \/ GetCurrentComm \/ Compare

Spec == Init /\ [][Next]_vars

-----------------------------------------------------------------------------
(* Properties *)

\* Both buffers keep their BUF_SIZE bytes, the loop index its bound.
TypeOK ==
    /\ val \in Buffer
    /\ cgroup_cmd \in Buffer
    /\ i \in 0 .. BUF_SIZE
    /\ is_equal \in {0, 1}
    /\ pc \in {"copy", "comm", "loop", "done", "panicked"}

\* The two buffers hold the same C string: they agree up to and including
\* the first NUL, or on the whole buffer if there is none.
SameCString(a, b) ==
    \A k \in Index : (\A j \in 0 .. k - 1 : a[j] # NUL) => a[k] = b[k]

\* The loop of podsnoop computes C-string equality of the map value and the
\* task's comm, also for a map value that fills its buffer and has no NUL.
LoopIsCStringEquality ==
    pc = "done" => (is_equal = 1 <=> SameCString(cgroup_cmd, val))

\* Every byte the loop has passed is equal in both buffers and is not NUL, and
\* it never runs out of buffer: it always leaves through one of its breaks,
\* because the kernel ends a task's name with a NUL inside TASK_COMM_LEN bytes.
LoopStaysInsideStrings ==
    pc = "loop" =>
        /\ i < BUF_SIZE
        /\ \A k \in 0 .. i - 1 : cgroup_cmd[k] = val[k] /\ val[k] # NUL

\* The bytes of s, read as a C string, are those of t.
ReadsAs(s, t) ==
    /\ Len(t) <= Len(s)
    /\ \A k \in 1 .. Len(t) : s[k] = t[k]
    /\ Len(t) < Len(s) => s[Len(t) + 1] = NUL

\* End to end, from the annotation and the task to the verdict: an event is
\* sent exactly when the command, read as a C string, is the task's name as
\* the kernel truncates it.  So a command of TASK_COMM_LEN bytes or more can
\* never trigger, and one of TASK_COMM_LEN - 1 bytes is triggered by every
\* longer name it is a prefix of.
TriggersOnCommEquality ==
    pc = "done" => (is_equal = 1 <=> ReadsAs(command, CommOf(program)))

=============================================================================

------------------------ MODULE CommandMatchProofs ------------------------
(***************************************************************************)
(* For every BUF_SIZE, TASK_COMM_LEN and alphabet: the comparison of        *)
(* podsnoop leaves its loop inside the buffers and decides equality of the  *)
(* command, read as a C string, and the task's truncated name.              *)
(*                                                                          *)
(* The three properties are not inductive: they say nothing of what the     *)
(* buffers hold nor of why the loop was left.  Inv adds both.               *)
(***************************************************************************)
EXTENDS CommandMatch, TLAPS

Strings ==
    /\ command \in SeqsUpTo(Byte, MaxLen)
    /\ program \in SeqsUpTo(Char, MaxLen)

\* What each buffer holds once it has been filled.
Filled ==
    /\ pc \in {"comm", "loop", "done"} =>
           val = ZeroPadded(command) /\ Len(command) <= BUF_SIZE
    /\ pc \in {"loop", "done"} => cgroup_cmd = ZeroPadded(CommOf(program))

\* The bytes before i were compared and neither string has ended.
Passed == \A k \in 0 .. i - 1 : cgroup_cmd[k] = val[k] /\ val[k] # NUL

\* Why the loop is still running, or why it was left at i.
Progress ==
    /\ pc \in {"copy", "comm"} => i = 0
    /\ pc # "done" => is_equal = 1
    /\ pc = "loop" => i < BUF_SIZE /\ Passed
    /\ pc = "done" =>
           /\ i < BUF_SIZE /\ Passed
           /\ is_equal = 1 => cgroup_cmd[i] = NUL /\ val[i] = NUL
           /\ is_equal = 0 => cgroup_cmd[i] # val[i]

Inv == TypeOK /\ Strings /\ Filled /\ Progress

-----------------------------------------------------------------------------
\* A command or a name is a finite sequence over its alphabet.
LEMMA SeqsUpToIsSeq ==
    ASSUME NEW S, NEW n \in Nat, NEW s \in SeqsUpTo(S, n)
    PROVE  s \in Seq(S)
<1>1. PICK m \in 0 .. n : s \in [1 .. m -> S]
    BY DEF SeqsUpTo
<1>2. QED
    BY <1>1

\* The kernel's copy of a name is shorter than TASK_COMM_LEN, has no NUL, and
\* is the name itself as far as it goes.
LEMMA CommOfFacts ==
    ASSUME NEW s \in Seq(Char)
    PROVE  /\ CommOf(s) \in Seq(Char)
           /\ Len(CommOf(s)) < TASK_COMM_LEN
           /\ \A k \in 1 .. Len(CommOf(s)) : CommOf(s)[k] \in Char /\ CommOf(s)[k] # NUL
<1>1. Len(s) \in Nat
    OBVIOUS
<1> DEFINE n == IF Len(s) < TASK_COMM_LEN THEN Len(s) ELSE TASK_COMM_LEN - 1
<1>2. n \in Nat /\ n <= Len(s) /\ n < TASK_COMM_LEN
    BY <1>1, BufferAssumption
<1>3. CommOf(s) = SubSeq(s, 1, n)
    BY DEF CommOf
<1> HIDE DEF n
<1>4. CommOf(s) \in Seq(Char) /\ Len(CommOf(s)) = n
    BY <1>2, <1>3
<1>5. QED
    BY <1>2, <1>4, BufferAssumption

\* A zeroed buffer is a buffer.
LEMMA ZeroPaddedInBuffer ==
    ASSUME NEW s \in Seq(Byte)
    PROVE  ZeroPadded(s) \in Buffer
BY BufferAssumption DEF ZeroPadded, Buffer, Byte, Index

\* A task's name in its buffer has a NUL at its length, inside the buffer.
LEMMA CommBuffer ==
    ASSUME NEW s \in Seq(Char)
    PROVE  /\ ZeroPadded(CommOf(s)) \in Buffer
           /\ Len(CommOf(s)) \in Index
           /\ ZeroPadded(CommOf(s))[Len(CommOf(s))] = NUL
<1>1. CommOf(s) \in Seq(Byte) /\ Len(CommOf(s)) < TASK_COMM_LEN
    BY CommOfFacts DEF Byte
<1>2. Len(CommOf(s)) \in Nat
    BY <1>1
<1>3. Len(CommOf(s)) \in Index
    BY <1>1, <1>2, BufferAssumption DEF Index
<1>4. QED
    BY <1>1, <1>3, ZeroPaddedInBuffer DEF ZeroPadded

-----------------------------------------------------------------------------
\* The initial states satisfy the inductive invariant.
LEMMA InitInv == Init => Inv
<1> SUFFICES ASSUME Init PROVE Inv
    OBVIOUS
<1>1. ZeroPadded(<<>>) \in Buffer
    <2>1. <<>> \in Seq(Byte)
        OBVIOUS
    <2>2. QED
        BY <2>1, ZeroPaddedInBuffer
<1>2. TypeOK
    BY <1>1, BufferAssumption DEF Init, TypeOK
<1>3. Strings
    BY DEF Init, Strings
<1>4. Filled /\ Progress
    BY DEF Init, Filled, Progress
<1>5. QED
    BY <1>2, <1>3, <1>4 DEF Inv

\* Filling the map value from the annotation keeps the invariant.
LEMMA CopyInv == Inv /\ (Copy \/ CopyPanics) => Inv'
<1> SUFFICES ASSUME Inv, Copy \/ CopyPanics PROVE Inv'
    OBVIOUS
<1>1. command \in Seq(Byte)
    BY SeqsUpToIsSeq, BufferAssumption DEF Inv, Strings
<1>2. ZeroPadded(command) \in Buffer
    BY <1>1, ZeroPaddedInBuffer
<1>3. CASE Copy
    <2>1. TypeOK'
        BY <1>2, <1>3 DEF Inv, TypeOK, Copy
    <2>2. Strings' /\ Filled' /\ Progress'
        BY <1>3 DEF Inv, Strings, Filled, Progress, Copy
    <2>3. QED
        BY <2>1, <2>2 DEF Inv
<1>4. CASE CopyPanics
    BY <1>4 DEF Inv, TypeOK, Strings, Filled, Progress, CopyPanics
<1>5. QED
    BY <1>3, <1>4

\* Reading the task's name keeps the invariant: the loop starts at 0, and the
\* buffer is not empty.
LEMMA GetCurrentCommInv == Inv /\ GetCurrentComm => Inv'
<1> SUFFICES ASSUME Inv, GetCurrentComm PROVE Inv'
    OBVIOUS
<1>1. program \in Seq(Char)
    BY SeqsUpToIsSeq, BufferAssumption DEF Inv, Strings
<1>2. ZeroPadded(CommOf(program)) \in Buffer
    BY <1>1, CommBuffer
<1>3. TypeOK' /\ Strings' /\ Filled'
    BY <1>2 DEF Inv, TypeOK, Strings, Filled, GetCurrentComm
<1>4. i = 0 /\ is_equal = 1 /\ i' = 0 /\ is_equal' = 1 /\ pc' = "loop"
    BY DEF Inv, Progress, GetCurrentComm
<1>5. 0 < BUF_SIZE
    BY BufferAssumption
<1>6. Passed'
    BY <1>4 DEF Passed
<1>7. QED
    BY <1>3, <1>4, <1>5, <1>6 DEF Inv, Progress

\* One iteration keeps the invariant.  It may move on to i + 1 only because
\* the task's name has not ended at i, so i is below the length of that name.
LEMMA CompareInv == Inv /\ Compare => Inv'
<1> SUFFICES ASSUME Inv, Compare PROVE Inv'
    OBVIOUS
<1>1. program \in Seq(Char)
    BY SeqsUpToIsSeq, BufferAssumption DEF Inv, Strings
<1>2. /\ pc = "loop" /\ i \in Nat /\ i < BUF_SIZE /\ is_equal = 1 /\ Passed
      /\ UNCHANGED <<command, program, val, cgroup_cmd>>
    BY BufferAssumption DEF Inv, TypeOK, Progress, Compare
<1>3. i \in Index
    BY <1>2, BufferAssumption DEF Index
<1>4. Strings' /\ val' \in Buffer /\ cgroup_cmd' \in Buffer
    BY <1>2 DEF Inv, Strings, TypeOK
<1>5. Filled'
    BY <1>2 DEF Inv, Filled, Compare
<1>6. CASE i' = i
    <2>1. Passed'
        BY <1>2, <1>6 DEF Passed
    <2>2. TypeOK'
        BY <1>2, <1>4, <1>6 DEF Compare, TypeOK, Inv
    <2>3. Progress'
        BY <1>2, <1>6, <2>1 DEF Compare, Progress
    <2>4. QED
        BY <1>4, <1>5, <2>2, <2>3 DEF Inv
<1>7. CASE i' = i + 1 /\ cgroup_cmd[i] = val[i] /\ val[i] # NUL /\ UNCHANGED <<is_equal, pc>>
    <2> DEFINE n == Len(CommOf(program))
    <2>1. cgroup_cmd = ZeroPadded(CommOf(program))
        BY <1>2 DEF Inv, Filled
    <2>2. n \in Index /\ cgroup_cmd[n] = NUL
        BY <1>1, <2>1, CommBuffer
    <2> HIDE DEF n
    <2>3. n \in Nat /\ n < BUF_SIZE
        BY <2>2, BufferAssumption DEF Index
    <2>4. ~ (n < i)
        <3> SUFFICES ASSUME n < i PROVE FALSE
            OBVIOUS
        <3>1. n \in 0 .. i - 1
            BY <1>2, <2>3
        <3>2. QED
            BY <1>2, <2>2, <3>1 DEF Passed
    <2>5. n # i
        BY <1>7, <2>2
    <2>6. i + 1 < BUF_SIZE
        BY <1>2, <2>3, <2>4, <2>5, BufferAssumption
    <2>7. Passed'
        <3> SUFFICES ASSUME NEW k \in 0 .. (i + 1) - 1
                     PROVE  cgroup_cmd[k] = val[k] /\ val[k] # NUL
            BY <1>2, <1>7 DEF Passed
        <3>1. k = i \/ k \in 0 .. i - 1
            BY <1>2
        <3>2. QED
            BY <1>2, <1>7, <3>1 DEF Passed
    <2>8. TypeOK'
        BY <1>2, <1>4, <1>7, <2>6, BufferAssumption DEF TypeOK, Inv
    <2>9. Progress'
        BY <1>2, <1>7, <2>6, <2>7 DEF Progress
    <2>10. QED
        BY <1>4, <1>5, <2>8, <2>9 DEF Inv
<1>8. QED
    BY <1>6, <1>7 DEF Compare

\* Inv holds in every reachable state.
LEMMA InvHolds == Spec => []Inv
<1>1. Inv /\ UNCHANGED vars => Inv'
    BY DEF Inv, TypeOK, Strings, Filled, Progress, Passed, vars
<1>2. Inv /\ [Next]_vars => Inv'
    BY <1>1, CopyInv, GetCurrentCommInv, CompareInv DEF Next
<1>3. QED
    BY InitInv, <1>2, PTL DEF Spec

-----------------------------------------------------------------------------
\* Both buffers always have BUF_SIZE bytes and the index stays in bounds.
THEOREM TypeCorrect == Spec => []TypeOK
BY InvHolds, PTL DEF Inv

\* The loop of podsnoop never reads outside the two buffers and never runs to
\* the end of them: each pass has compared equal, non-NUL bytes.
THEOREM StaysInside == Spec => []LoopStaysInsideStrings
<1>1. Inv => LoopStaysInsideStrings
    BY DEF Inv, Progress, Passed, LoopStaysInsideStrings
<1>2. QED
    BY <1>1, InvHolds, PTL

\* is_equal, when the loop of podsnoop is left, says whether the map value and
\* the task's comm are the same C string.
THEOREM DecidesEquality == Spec => []LoopIsCStringEquality
<1>1. ASSUME Inv, pc = "done" PROVE is_equal = 1 <=> SameCString(cgroup_cmd, val)
    <2>1. i \in Index /\ Passed /\ i \in Nat
        BY <1>1, BufferAssumption DEF Inv, Progress, TypeOK, Index
    <2>2. CASE is_equal = 1
        <3>1. cgroup_cmd[i] = NUL /\ val[i] = NUL
            BY <1>1, <2>2 DEF Inv, Progress
        <3>2. ASSUME NEW k \in Index, \A j \in 0 .. k - 1 : cgroup_cmd[j] # NUL
              PROVE  cgroup_cmd[k] = val[k]
            <4>1. k \in Nat
                BY DEF Index
            <4>2. ~ (i < k)
                <5> SUFFICES ASSUME i < k PROVE FALSE
                    OBVIOUS
                <5>1. i \in 0 .. k - 1
                    BY <2>1, <4>1
                <5>2. QED
                    BY <3>1, <3>2, <5>1
            <4>3. k = i \/ k \in 0 .. i - 1
                BY <2>1, <4>1, <4>2
            <4>4. QED
                BY <2>1, <3>1, <4>3 DEF Passed
        <3>3. QED
            BY <2>2, <3>2 DEF SameCString
    <2>3. CASE is_equal = 0
        <3>1. cgroup_cmd[i] # val[i]
            BY <1>1, <2>3 DEF Inv, Progress
        <3>2. \A j \in 0 .. i - 1 : cgroup_cmd[j] # NUL
            BY <2>1 DEF Passed
        <3>3. QED
            BY <2>1, <2>3, <3>1, <3>2 DEF SameCString
    <2>4. QED
        BY <1>1, <2>2, <2>3 DEF Inv, TypeOK
<1>2. Inv => LoopIsCStringEquality
    BY <1>1 DEF LoopIsCStringEquality
<1>3. QED
    BY <1>2, InvHolds, PTL

\* An execve triggers a resize exactly when the command of the annotation,
\* read as a C string, is the task's name as the kernel truncates it.
THEOREM TriggersExactly == Spec => []TriggersOnCommEquality
<1>1. ASSUME Inv, pc = "done" PROVE is_equal = 1 <=> ReadsAs(command, CommOf(program))
    <2> DEFINE c == CommOf(program)
    <2>1. command \in Seq(Byte) /\ program \in Seq(Char)
        BY <1>1, SeqsUpToIsSeq, BufferAssumption DEF Inv, Strings
    <2>2. /\ c \in Seq(Char) /\ Len(c) < TASK_COMM_LEN
          /\ \A k \in 1 .. Len(c) : c[k] \in Char /\ c[k] # NUL
        BY <2>1, CommOfFacts
    <2> HIDE DEF c
    <2>3. Len(c) \in Nat /\ Len(command) \in Nat /\ Len(c) < BUF_SIZE
        BY <2>1, <2>2, BufferAssumption
    <2>4. /\ \A k \in Index : val[k] = IF k < Len(command) THEN command[k + 1] ELSE NUL
          /\ \A k \in Index : cgroup_cmd[k] = IF k < Len(c) THEN c[k + 1] ELSE NUL
        BY <1>1 DEF Inv, Filled, ZeroPadded, c
    <2>5. i \in Index /\ i \in Nat /\ i < BUF_SIZE /\ Passed
        BY <1>1, BufferAssumption DEF Inv, Progress, TypeOK, Index
    <2>6. i <= Len(c)
        <3> SUFFICES ASSUME Len(c) < i PROVE FALSE
            BY <2>3, <2>5
        <3>1. Len(c) \in 0 .. i - 1 /\ Len(c) \in Index
            BY <2>3, <2>5, BufferAssumption DEF Index
        <3>2. QED
            BY <2>3, <2>4, <2>5, <3>1 DEF Passed
    <2>7. \A k \in 1 .. i : k <= Len(command) /\ command[k] = c[k]
        <3> SUFFICES ASSUME NEW k \in 1 .. i
                     PROVE  k <= Len(command) /\ command[k] = c[k]
            OBVIOUS
        <3> DEFINE j == k - 1
        <3>1. j \in 0 .. i - 1 /\ j \in Index /\ j + 1 = k /\ j < Len(c)
            BY <2>5, <2>6, <2>3, BufferAssumption DEF Index
        <3> HIDE DEF j
        <3>2. cgroup_cmd[j] = val[j] /\ val[j] # NUL
            BY <2>5, <3>1 DEF Passed
        <3>3. cgroup_cmd[j] = c[k]
            BY <2>4, <3>1
        <3>4. j < Len(command) /\ val[j] = command[k]
            BY <2>4, <3>1, <3>2
        <3>5. k <= Len(command)
            BY <2>3, <3>1, <3>4
        <3>6. QED
            BY <3>2, <3>3, <3>4, <3>5
    <2>8. CASE is_equal = 1
        <3>1. cgroup_cmd[i] = NUL /\ val[i] = NUL
            BY <1>1, <2>8 DEF Inv, Progress
        <3>2. i = Len(c)
            <4> SUFFICES ASSUME i < Len(c) PROVE FALSE
                BY <2>3, <2>5, <2>6
            <4>1. cgroup_cmd[i] = c[i + 1] /\ i + 1 \in 1 .. Len(c)
                BY <2>3, <2>4, <2>5
            <4>2. QED
                BY <2>2, <3>1, <4>1
        <3>3. Len(c) <= Len(command)
            <4>1. CASE i = 0
                BY <2>3, <3>2, <4>1
            <4>2. CASE i # 0
                BY <2>5, <2>7, <3>2, <4>2
            <4>3. QED
                BY <4>1, <4>2
        <3>4. Len(c) < Len(command) => command[Len(c) + 1] = NUL
            BY <2>4, <2>5, <3>1, <3>2
        <3>5. QED
            BY <2>7, <2>8, <3>2, <3>3, <3>4 DEF ReadsAs, c
    <2>9. CASE is_equal = 0
        <3> SUFFICES ASSUME ReadsAs(command, c) PROVE FALSE
            BY <2>9 DEF c
        <3>1. cgroup_cmd[i] # val[i]
            BY <1>1, <2>9 DEF Inv, Progress
        <3>2. CASE i < Len(c)
            <4>1. i + 1 \in 1 .. Len(c) /\ i < Len(command)
                BY <2>3, <2>5, <3>2 DEF ReadsAs
            <4>2. command[i + 1] = c[i + 1]
                BY <4>1 DEF ReadsAs
            <4>3. QED
                BY <2>4, <2>5, <3>1, <3>2, <4>1, <4>2
        <3>3. CASE i = Len(c)
            <4>1. cgroup_cmd[i] = NUL
                BY <2>3, <2>4, <2>5, <3>3
            <4>2. val[i] = NUL
                BY <2>3, <2>4, <2>5, <3>3 DEF ReadsAs
            <4>3. QED
                BY <3>1, <4>1, <4>2
        <3>4. QED
            BY <2>3, <2>5, <2>6, <3>2, <3>3
    <2>10. QED
        BY <1>1, <2>8, <2>9 DEF Inv, TypeOK
<1>2. Inv => TriggersOnCommEquality
    BY <1>1 DEF TriggersOnCommEquality
<1>3. QED
    BY <1>2, InvHolds, PTL

=============================================================================

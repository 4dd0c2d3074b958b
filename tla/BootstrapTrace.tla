--------------------------- MODULE BootstrapTrace ---------------------------
(***************************************************************************)
(* libbpf-bootstrap's bootstrap example: two probes on the scheduler's exec *)
(* and exit tracepoints keep the start time of every process in a map and   *)
(* write events to a ring buffer; a program loads them, attaches them and   *)
(* prints the events until a signal comes.                                  *)
(*                                                                          *)
(* The probes run in the context of the processes, on any CPU, between each *)
(* other's steps and those of the program.  Times are ages: ticks since the *)
(* instant they stand for, that stop growing at MaxAge.                     *)
(***************************************************************************)
EXTENDS Naturals, Sequences, FiniteSets

CONSTANTS
    Pids,       \* process ids, used again once a process has been reaped
    Durations,  \* what -d may give, in ticks; 0: the option is not given
    MaxAge,     \* bound: ages stop growing here
    MapSize,    \* max_entries of exec_start
    RingSize,   \* events the ring buffer has room for
    MaxWork     \* bound: processes, threads and exec calls

ASSUME BootstrapAssumption ==
    /\ MaxAge \in Nat \ {0} /\ Durations \subseteq 0 .. MaxAge
    /\ MapSize \in Nat /\ RingSize \in Nat /\ MaxWork \in Nat

VARIABLES
    main,        \* where main() is
    exiting,     \* set by sig_handler
    failed,      \* has a call of main failed
    min_duration_ns,
    attached,    \* the probes attached
    exec_start,  \* map: pid -> age of the start recorded, or None
    rb,          \* ring buffer: events reserved or submitted, not consumed
    task,        \* pid -> state of the process's first thread
    thread,      \* pid -> has the process another thread
    probe,       \* pid -> the next step of the probe that runs in its context
    duration,    \* pid -> handle_exit's duration_ns, and the ghosts of that time
    work,        \* processes, threads and exec calls so far
    life,        \* ghost: pid -> age of its last exec seen, or None
    stale        \* ghost: pids with an entry whose process's exit no probe saw

program == <<main, exiting, failed, min_duration_ns, attached>>
processes == <<task, thread, work>>
locals == <<probe, duration>>
ghosts == <<life, stale>>
vars == <<program, exec_start, rb, processes, locals, ghosts>>

None == MaxAge + 1
Unset == [ns |-> 0, life |-> None, stale |-> FALSE]

Init ==
    /\ main = "start" /\ exiting = FALSE /\ failed = FALSE
    /\ min_duration_ns = 0 /\ attached = {}
    /\ exec_start = [p \in Pids |-> None] /\ rb = <<>>
    /\ task \in [Pids -> {"free", "run"}] /\ thread = [p \in Pids |-> FALSE]
    /\ probe = [p \in Pids |-> "none"] /\ duration = [p \in Pids |-> Unset]
    /\ work = 0
    /\ life = [p \in Pids |-> None] /\ stale = {}

-----------------------------------------------------------------------------
(* The kernel: processes, and time *)

Works == main # "over" /\ work < MaxWork /\ work' = work + 1

Fork(p) ==
    /\ Works /\ task[p] = "free" /\ task' = [task EXCEPT ![p] = "run"]
    /\ UNCHANGED <<program, exec_start, rb, thread, locals, ghosts>>

StartThread(p) ==
    /\ Works /\ task[p] = "run" /\ ~ thread[p]
    /\ thread' = [thread EXCEPT ![p] = TRUE]
    /\ UNCHANGED <<program, exec_start, rb, task, locals, ghosts>>

\* Only one thread is left when exec is traced; it may be the other one, which
\* then takes the first one's place.
Exec(p) ==
    /\ Works
    /\ \/ task[p] = "run" /\ ~ thread[p]
       \/ task[p] = "dead" /\ thread[p]
    /\ thread' = [thread EXCEPT ![p] = FALSE]
    /\ IF "handle_exec" \in attached
       THEN /\ task' = [task EXCEPT ![p] = "exec"]
            /\ probe' = [probe EXCEPT ![p] = "entry"]
       ELSE task' = [task EXCEPT ![p] = "run"] /\ UNCHANGED probe
    /\ UNCHANGED <<program, exec_start, rb, duration, ghosts>>

\* The first thread exits, its process may go on.
Exit(p) ==
    /\ main # "over" /\ task[p] = "run"
    /\ IF "handle_exit" \in attached
       THEN /\ task' = [task EXCEPT ![p] = "exit"]
            /\ probe' = [probe EXCEPT ![p] = "entry"]
            /\ UNCHANGED ghosts
       ELSE /\ task' = [task EXCEPT ![p] = "dead"]
            /\ life' = [life EXCEPT ![p] = None]
            /\ stale' = IF exec_start[p] = None THEN stale ELSE stale \cup {p}
            /\ UNCHANGED probe
    /\ UNCHANGED <<program, exec_start, rb, thread, work, duration>>

Reap(p) ==
    /\ main # "over" /\ task[p] = "dead" /\ ~ thread[p]
    /\ task' = [task EXCEPT ![p] = "free"]
    /\ UNCHANGED <<program, exec_start, rb, thread, work, locals, ghosts>>

Older(a) == IF a < MaxAge THEN a + 1 ELSE a

Tick ==
    /\ main # "over"
    /\ exec_start' = [p \in Pids |-> Older(exec_start[p])]
    /\ life' = [p \in Pids |-> Older(life[p])]
    /\ UNCHANGED <<program, rb, processes, locals, stale>>

-----------------------------------------------------------------------------
(* bootstrap.bpf.c *)

Fields == {"exit_event", "ids", "filename", "exit_code", "duration_ns"}

Reserved(p) == [pid |-> p, busy |-> TRUE, set |-> {}, exit |-> FALSE, duration |-> Unset]
MineAt(p) == CHOOSE i \in DOMAIN rb : rb[i].pid = p /\ rb[i].busy

Return(p) ==
    /\ probe' = [probe EXCEPT ![p] = "none"]
    /\ task' = [task EXCEPT ![p] = IF @ = "exec" THEN "run" ELSE "dead"]

UpdateIfNew(p) ==
    IF exec_start[p] # None \/ Cardinality({q \in Pids : exec_start[q] # None}) >= MapSize
    THEN exec_start ELSE [exec_start EXCEPT ![p] = 0]

\* BPF_ANY: an entry is replaced; a new one has no room in a full map.
Update(p) ==
    IF exec_start[p] = None /\ Cardinality({q \in Pids : exec_start[q] # None}) >= MapSize
    THEN exec_start ELSE [exec_start EXCEPT ![p] = 0]

EmitsAll == TRUE
EmitsExec == min_duration_ns = 0

\* handle_exec records the start, and goes on if no minimum is set.
handle_exec(p) ==
    /\ task[p] = "exec" /\ probe[p] = "entry"
    /\ exec_start' = Update(p)
    /\ life' = [life EXCEPT ![p] = 0] /\ stale' = stale \ {p}
    /\ IF EmitsExec THEN probe' = [probe EXCEPT ![p] = "reserve"] /\ UNCHANGED task ELSE Return(p)
    /\ UNCHANGED <<program, rb, thread, work, duration>>

\* The exit of another thread than the first: nothing is done.
handle_exit_thread(p) ==
    /\ main # "over" /\ thread[p]
    /\ thread' = [thread EXCEPT ![p] = FALSE]
    /\ UNCHANGED <<program, exec_start, rb, task, work, locals, ghosts>>

Lived(p) == IF exec_start[p] = None THEN 0 ELSE exec_start[p]
TooShort(p) == min_duration_ns # 0 /\ Lived(p) < min_duration_ns

DeleteIfEmitted(p) == [exec_start EXCEPT ![p] = IF TooShort(p) THEN @ ELSE None]
Delete(p) == [exec_start EXCEPT ![p] = None]

handle_exit(p) ==
    /\ task[p] = "exit" /\ probe[p] = "entry"
    /\ exec_start' = Delete(p) /\ stale' = stale \ {p}
    /\ duration' = [duration EXCEPT ![p] = IF TooShort(p) THEN @ ELSE
                       [ns |-> Lived(p), life |-> life[p], stale |-> p \in stale]]
    /\ life' = [life EXCEPT ![p] = None]
    /\ IF TooShort(p) THEN Return(p) ELSE probe' = [probe EXCEPT ![p] = "reserve"] /\ UNCHANGED task
    /\ UNCHANGED <<program, rb, thread, work>>

HasRoomForPart == Len(rb) <= RingSize
HasRoom == Len(rb) < RingSize

\* A full ring drops the event.
Reserve(p) ==
    /\ probe[p] = "reserve"
    /\ IF HasRoom
       THEN /\ rb' = Append(rb, Reserved(p))
            /\ probe' = [probe EXCEPT ![p] = "fill"] /\ UNCHANGED task
       ELSE Return(p) /\ UNCHANGED rb
    /\ UNCHANGED <<program, exec_start, thread, work, duration, ghosts>>

SetByHalf(p) ==
    IF task[p] = "exec" THEN {"ids", "filename"} ELSE {"exit_event", "ids", "exit_code", "duration_ns"}

\* The fields each probe sets: the others hold what was there before.
SetBy(p) ==
    IF task[p] = "exec" THEN {"exit_event", "ids", "filename"}
                        ELSE {"exit_event", "ids", "exit_code", "duration_ns"}

Fill(p) ==
    /\ probe[p] = "fill" /\ probe' = [probe EXCEPT ![p] = "submit"]
    /\ rb' = [rb EXCEPT ![MineAt(p)].set = SetBy(p),
                        ![MineAt(p)].exit = (task[p] = "exit"),
                        ![MineAt(p)].duration = duration[p]]
    /\ duration' = [duration EXCEPT ![p] = Unset]
    /\ UNCHANGED <<program, exec_start, processes, ghosts>>

Submit(p) ==
    /\ probe[p] = "submit"
    /\ rb' = [rb EXCEPT ![MineAt(p)].busy = FALSE]
    /\ Return(p)
    /\ UNCHANGED <<program, exec_start, thread, work, duration, ghosts>>

Probe(p) == handle_exec(p) \/ handle_exit(p) \/ Reserve(p) \/ Fill(p) \/ Submit(p)

-----------------------------------------------------------------------------
(* bootstrap.c *)

kernel == <<exec_start, rb, processes, locals, ghosts>>

\* The usage is printed, and that is all.
parse_arg ==
    /\ main = "start" /\ main' = "over" /\ failed' = TRUE
    /\ UNCHANGED <<exiting, min_duration_ns, attached, kernel>>

\* The skeleton is opened and given the minimum, or there is none.
open ==
    /\ main = "start"
    /\ \/ main' = "load" /\ min_duration_ns' \in Durations /\ UNCHANGED failed
       \/ main' = "over" /\ failed' = TRUE /\ UNCHANGED min_duration_ns
    /\ UNCHANGED <<exiting, attached, kernel>>

Fails == main' = "cleanup" /\ failed' = TRUE

load ==
    /\ main = "load"
    /\ (main' = "attach_exec" /\ UNCHANGED failed) \/ Fails
    /\ UNCHANGED <<exiting, min_duration_ns, attached, kernel>>

\* The probes are attached one after the other.
attach ==
    /\ \/ /\ main = "attach_exec" /\ main' = "attach_exit"
          /\ attached' = {"handle_exec"} /\ UNCHANGED failed
       \/ /\ main = "attach_exit" /\ main' = "ring_buffer__new"
          /\ attached' = {"handle_exec", "handle_exit"} /\ UNCHANGED failed
       \/ main \in {"attach_exec", "attach_exit"} /\ Fails /\ UNCHANGED attached
    /\ UNCHANGED <<exiting, min_duration_ns, kernel>>

ring_buffer__new ==
    /\ main = "ring_buffer__new"
    /\ (main' = "loop" /\ UNCHANGED failed) \/ Fails
    /\ UNCHANGED <<exiting, min_duration_ns, attached, kernel>>

Goes(from, to) ==
    /\ main = from /\ main' = to
    /\ UNCHANGED <<exiting, failed, min_duration_ns, attached, kernel>>

CheckExiting == Goes("loop", IF exiting THEN "cleanup" ELSE "poll")
EnterWait == Goes("poll", "wait")
Ready == rb # <<>> /\ Goes("wait", "consume")
NoTimeout == FALSE
TimeoutStops == rb = <<>> /\ Goes("wait", "cleanup")
Timeout == rb = <<>> /\ Goes("wait", "loop")
Submitted == rb # <<>> /\ ~ rb[1].busy
Consumed == ~ Submitted /\ Goes("consume", "loop")

PollFails ==
    /\ main = "wait" /\ Fails
    /\ UNCHANGED <<exiting, min_duration_ns, attached, kernel>>

\* The ring is read in the order of reservation, up to an event not submitted.
handle_event ==
    /\ main = "consume" /\ Submitted
    /\ rb' = Tail(rb)
    /\ UNCHANGED <<program, exec_start, processes, locals, ghosts>>

\* A signal ends a wait with EINTR, and nothing else.
sig_handler ==
    /\ main \notin {"start", "over"} /\ ~ exiting /\ exiting' = TRUE
    /\ main' = IF main = "wait" THEN "cleanup" ELSE main
    /\ UNCHANGED <<failed, min_duration_ns, attached, kernel>>

\* The probes are detached and the maps freed.  What goes on in the kernel is
\* not followed any further.
cleanup ==
    /\ main = "cleanup" /\ main' = "over"
    /\ attached' = {} /\ rb' = <<>>
    /\ exec_start' = [p \in Pids |-> None] /\ stale' = {} /\ life' = exec_start'
    /\ task' = [p \in Pids |-> "free"] /\ thread' = [p \in Pids |-> FALSE] /\ work' = 0
    /\ probe' = [p \in Pids |-> "none"] /\ duration' = [p \in Pids |-> Unset]
    /\ UNCHANGED <<exiting, failed, min_duration_ns>>

Main ==
    \/ parse_arg \/ open \/ load \/ attach \/ ring_buffer__new
    \/ CheckExiting \/ EnterWait \/ Ready \/ Timeout
    \/ handle_event \/ Consumed \/ cleanup

Next ==
    \/ Main \/ PollFails \/ sig_handler \/ Tick
    \/ \E p \in Pids :
          \/ Fork(p) \/ StartThread(p) \/ Exec(p) \/ Exit(p) \/ Reap(p)
          \/ handle_exit_thread(p) \/ Probe(p)

Spec == Init /\ [][Next]_vars

\* The scheduler runs the program, and a probe runs to its end.
FairSpec == Spec /\ WF_vars(Main) /\ \A p \in Pids : WF_vars(Probe(p))

-----------------------------------------------------------------------------
(* Properties *)

Ages == 0 .. None
Lengths == [ns : 0 .. MaxAge, life : Ages, stale : BOOLEAN]

\* The ring holds no more than it has room for, each probe that has reserved
\* an event has exactly one there, and main's stages have their probes.
TypeOK ==
    /\ exec_start \in [Pids -> Ages] /\ life \in [Pids -> Ages]
    /\ task \in [Pids -> {"free", "run", "exec", "exit", "dead"}]
    /\ probe \in [Pids -> {"none", "entry", "reserve", "fill", "submit"}]
    /\ duration \in [Pids -> Lengths]
    /\ Len(rb) <= RingSize /\ \A i \in DOMAIN rb : rb[i].set \subseteq Fields
    /\ \A p \in Pids :
          /\ (probe[p] # "none") = (task[p] \in {"exec", "exit"})
          /\ Cardinality({i \in DOMAIN rb : rb[i].pid = p /\ rb[i].busy})
                = IF probe[p] \in {"fill", "submit"} THEN 1 ELSE 0
    /\ main \in {"loop", "poll", "wait", "consume"} => attached = {"handle_exec", "handle_exit"}

\* The start map does not leak: an entry belongs to a process whose first thread
\* has not exited, unless it exited before handle_exit was attached.
EntriesOfLive ==
    \A p \in Pids : exec_start[p] # None => p \in stale \/ task[p] \in {"run", "exec", "exit"}

\* A duration that is reported is the time since the process's own last exec,
\* although pids are used again and a process may call exec many times.
DurationIsOwn ==
    \A i \in DOMAIN rb : LET d == rb[i].duration
                         IN  d.ns # 0 => d.stale \/ d.ns = d.life

\* With a minimum duration, the program is told only of processes that ended
\* and lived that long since their exec.
ShortOnesHidden ==
    min_duration_ns # 0 =>
        \A i \in DOMAIN rb : ~ rb[i].busy =>
            LET d == rb[i].duration
            IN  rb[i].exit /\ (d.stale \/ d.life \in min_duration_ns .. MaxAge)

ReadFields(e) ==
    {"exit_event", "ids"} \cup IF e.exit THEN {"exit_code", "duration_ns"} ELSE {"filename"}

\* handle_event reads no field that the probe of that event has not set: the
\* memory of the ring holds older events.
ReadsOnlyWhatIsSet == [][handle_event => ReadFields(rb[1]) \subseteq rb[1].set]_vars

\* The program reads all events of the ring in the end, also behind an event
\* that was submitted late, unless it was told to end or a call failed.
EventsAreHandled == rb # <<>> ~> (rb = <<>> /\ main # "over") \/ exiting \/ failed

\* A signal ends the program, also one that comes between the look at exiting
\* and the wait.
SignalEnds == exiting ~> main = "over"

=============================================================================

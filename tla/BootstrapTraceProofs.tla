------------------------ MODULE BootstrapTraceProofs ------------------------
(***************************************************************************)
(* For any set of pids, any size of the map and of the ring, and any choice *)
(* of the minimum duration: the start map does not leak, a duration that is *)
(* reported is the process's own, the minimum hides what it should, and     *)
(* handle_event reads nothing that was left in the ring by an older event.  *)
(*                                                                          *)
(* The events of the ring say what is true of them once they are submitted; *)
(* what makes that inductive is what is known of a probe between its look   *)
(* at the map and bpf_ringbuf_submit, while other probes and the program    *)
(* work on the same map and the same ring.                                  *)
(***************************************************************************)
EXTENDS BootstrapTrace, FiniteSetTheorems, TLAPS

Event == [pid : Pids, busy : BOOLEAN, set : SUBSET Fields, exit : BOOLEAN, duration : Lengths]

Mine(p, i) == rb[i].pid = p /\ rb[i].busy

\* The ring holds one event of each probe that has reserved one, and no other
\* that is not submitted.
RingOK ==
    /\ rb \in Seq(Event) /\ Len(rb) <= RingSize
    /\ \A i, j \in DOMAIN rb : rb[i].busy /\ rb[j].busy /\ rb[i].pid = rb[j].pid => i = j
    /\ \A p \in Pids : probe[p] \in {"fill", "submit"} <=> \E i \in DOMAIN rb : Mine(p, i)

\* Types, and a probe runs where a tracepoint was hit.
ProbesOK ==
    /\ exec_start \in [Pids -> Ages] /\ life \in [Pids -> Ages]
    /\ task \in [Pids -> {"free", "run", "exec", "exit", "dead"}]
    /\ probe \in [Pids -> {"none", "entry", "reserve", "fill", "submit"}]
    /\ duration \in [Pids -> Lengths]
    /\ \A p \in Pids : probe[p] # "none" <=> task[p] \in {"exec", "exit"}

\* Nothing is traced before the skeleton is open; the loop has both probes.
StagesOK ==
    /\ min_duration_ns \in Durations \cup {0}
    /\ main = "start" => attached = {} /\ rb = <<>> /\ \A p \in Pids : probe[p] = "none"
    /\ main \in {"ring_buffer__new", "loop", "poll", "wait", "consume"} =>
          attached = {"handle_exec", "handle_exit"}

\* An entry is as old as the process's last exec, unless it is another's.
StartIsOwn == \A p \in Pids : exec_start[p] # None => p \in stale \/ exec_start[p] = life[p]

\* Behind its entry, handle_exit has deleted the start.
ExitDeletes ==
    \A p \in Pids : task[p] = "exit" /\ probe[p] \in {"reserve", "fill", "submit"}
        => exec_start[p] = None

Own(d) == d.ns # 0 => d.stale \/ d.ns = d.life
LongEnough(d) == d.stale \/ d.life \in min_duration_ns .. MaxAge

\* With a minimum, only handle_exit goes on, and only for a long life.
OnlyLongGoOn ==
    min_duration_ns # 0 =>
        \A p \in Pids : probe[p] \in {"reserve", "fill", "submit"} =>
            task[p] = "exit" /\ (probe[p] # "submit" => LongEnough(duration[p]))

Filled(e) ==
    /\ ReadFields(e) \subseteq e.set
    /\ min_duration_ns # 0 => e.exit /\ LongEnough(e.duration)

\* An event is whole once its probe has filled it.
FilledInTime ==
    \A i \in DOMAIN rb : ~ rb[i].busy \/ probe[rb[i].pid] = "submit" => Filled(rb[i])

Inv ==
    /\ RingOK /\ ProbesOK /\ StagesOK
    /\ StartIsOwn /\ ExitDeletes /\ EntriesOfLive
    /\ \A p \in Pids : Own(duration[p])
    /\ DurationIsOwn /\ OnlyLongGoOn /\ FilledInTime

-----------------------------------------------------------------------------
(* Types *)

\* What an event of the ring is.
LEMMA EventType ==
    ASSUME RingOK, NEW i \in DOMAIN rb
    PROVE  /\ rb[i] \in Event
           /\ rb[i].pid \in Pids /\ rb[i].busy \in BOOLEAN /\ rb[i].set \subseteq Fields
           /\ rb[i].exit \in BOOLEAN /\ rb[i].duration \in Lengths
<1>1. rb[i] \in Event
    BY DEF RingOK
<1> QED  BY <1>1 DEF Event

LEMMA UnsetType == Unset \in Lengths /\ Own(Unset) /\ None \in Ages
BY BootstrapAssumption DEF Unset, Lengths, Ages, None, Own

\* Ages grow, and stay ages; what is not there does not appear.
LEMMA OlderAge ==
    ASSUME NEW a \in Ages
    PROVE  Older(a) \in Ages /\ (Older(a) = None <=> a = None)
BY BootstrapAssumption DEF Older, Ages, None

\* The type invariant that the run checks follows.
LEMMA InvType == Inv => TypeOK
<1> SUFFICES ASSUME Inv  PROVE TypeOK
    OBVIOUS
<1>1. rb \in Seq(Event)
    BY DEF Inv, RingOK
<1>2. \A i \in DOMAIN rb : rb[i].set \subseteq Fields
    BY EventType DEF Inv
<1>3. ASSUME NEW p \in Pids
      PROVE  Cardinality({i \in DOMAIN rb : rb[i].pid = p /\ rb[i].busy})
                = IF probe[p] \in {"fill", "submit"} THEN 1 ELSE 0
    <2> DEFINE S == {i \in DOMAIN rb : rb[i].pid = p /\ rb[i].busy}
    <2>1. CASE probe[p] \in {"fill", "submit"}
        <3>1. PICK i \in DOMAIN rb : Mine(p, i)
            BY <2>1 DEF Inv, RingOK
        <3>2. \A j \in S : j = i
            BY <3>1 DEF Inv, RingOK, Mine
        <3>3. S = {i}
            BY <3>1, <3>2 DEF Mine
        <3> QED  BY <2>1, <3>3, FS_Singleton
    <2>2. CASE probe[p] \notin {"fill", "submit"}
        <3>1. S = {}
            BY <2>2 DEF Inv, RingOK, Mine
        <3> QED  BY <2>2, <3>1, FS_EmptySet
    <2> QED  BY <2>1, <2>2
<1>4. \A p \in Pids : (probe[p] # "none") = (task[p] \in {"exec", "exit"})
    BY DEF Inv, ProbesOK
<1> QED  BY <1>2, <1>3, <1>4 DEF Inv, TypeOK, RingOK, ProbesOK, StagesOK

-----------------------------------------------------------------------------
(* The program *)

LEMMA InitInv == Init => Inv
<1> SUFFICES ASSUME Init  PROVE Inv
    OBVIOUS
<1>1. RingOK
    BY BootstrapAssumption DEF Init, RingOK
<1>2. ProbesOK
    BY UnsetType DEF Init, ProbesOK
<1>3. StagesOK
    BY DEF Init, StagesOK
<1>4. StartIsOwn /\ ExitDeletes /\ EntriesOfLive /\ OnlyLongGoOn
    BY DEF Init, StartIsOwn, ExitDeletes, EntriesOfLive, OnlyLongGoOn
<1>5. DurationIsOwn /\ FilledInTime /\ \A p \in Pids : Own(duration[p])
    BY UnsetType DEF Init, DurationIsOwn, FilledInTime
<1> QED  BY <1>1, <1>2, <1>3, <1>4, <1>5 DEF Inv

\* Steps of the program that leave the kernel's state alone.
LEMMA ProgramStep ==
    ASSUME Inv, UNCHANGED kernel, StagesOK',
           UNCHANGED min_duration_ns \/ main = "start"
    PROVE  Inv'
<1> USE DEF kernel, processes, locals, ghosts
<1>1. (RingOK /\ ProbesOK /\ StartIsOwn /\ ExitDeletes /\ EntriesOfLive)'
    BY DEF Inv, RingOK, ProbesOK, StartIsOwn, ExitDeletes, EntriesOfLive, Mine
<1>2. DurationIsOwn' /\ \A p \in Pids : Own(duration'[p])
    BY DEF Inv, DurationIsOwn
<1>3. (OnlyLongGoOn /\ FilledInTime)'
    <2>1. CASE UNCHANGED min_duration_ns
        BY <2>1 DEF Inv, OnlyLongGoOn, FilledInTime, Filled, LongEnough
    <2>2. CASE main = "start"
        BY <2>2 DEF Inv, StagesOK, OnlyLongGoOn, FilledInTime
    <2> QED  BY <2>1, <2>2
<1> QED  BY <1>1, <1>2, <1>3 DEF Inv

LEMMA MainInv ==
    ASSUME Inv,
           \/ parse_arg \/ open \/ load \/ attach \/ ring_buffer__new
           \/ CheckExiting \/ EnterWait \/ Ready \/ Timeout \/ Consumed
           \/ PollFails \/ sig_handler
    PROVE  Inv'
<1>1. UNCHANGED kernel
    BY DEF parse_arg, open, load, attach, ring_buffer__new, CheckExiting, EnterWait, Ready,
           Timeout, Consumed, PollFails, sig_handler, Goes
<1>2. UNCHANGED min_duration_ns \/ (main = "start" /\ min_duration_ns' \in Durations)
    BY DEF parse_arg, open, load, attach, ring_buffer__new, CheckExiting, EnterWait, Ready,
           Timeout, Consumed, PollFails, sig_handler, Goes
<1>3. StagesOK'
    <2>1. min_duration_ns' \in Durations \cup {0}
        BY <1>2 DEF Inv, StagesOK
    <2>2. CASE parse_arg \/ open \/ load \/ ring_buffer__new \/ PollFails \/ sig_handler
        BY <1>1, <2>1, <2>2
           DEF parse_arg, open, load, ring_buffer__new, PollFails, sig_handler, Fails, Inv,
               StagesOK, kernel, locals
    <2>3. CASE attach
        BY <1>1, <2>1, <2>3 DEF attach, Fails, Inv, StagesOK
    <2>4. CASE CheckExiting \/ EnterWait \/ Ready \/ Timeout \/ Consumed
        BY <1>1, <2>1, <2>4
           DEF CheckExiting, EnterWait, Ready, Timeout, Consumed, Goes, Inv, StagesOK
    <2> QED  BY <2>2, <2>3, <2>4
<1> QED  BY <1>1, <1>2, <1>3, ProgramStep

LEMMA StutterInv == Inv /\ UNCHANGED vars => Inv'
<1> SUFFICES ASSUME Inv, UNCHANGED vars  PROVE Inv'
    OBVIOUS
<1>1. UNCHANGED <<kernel, program>>
    BY DEF vars, kernel
<1>2. StagesOK'
    BY <1>1 DEF Inv, StagesOK, program, kernel, locals
<1> QED  BY <1>1, <1>2, ProgramStep DEF program

\* Ring and map are freed, and the probes are detached.
LEMMA CleanupInv == Inv /\ cleanup => Inv'
<1> SUFFICES ASSUME Inv, cleanup  PROVE Inv'
    OBVIOUS
<1>1. RingOK'
    BY BootstrapAssumption DEF cleanup, RingOK
<1>2. ProbesOK'
    BY UnsetType DEF cleanup, ProbesOK
<1>3. StagesOK'
    BY DEF cleanup, Inv, StagesOK
<1>4. (StartIsOwn /\ ExitDeletes /\ EntriesOfLive /\ OnlyLongGoOn)'
    BY DEF cleanup, StartIsOwn, ExitDeletes, EntriesOfLive, OnlyLongGoOn
<1>5. DurationIsOwn' /\ FilledInTime' /\ \A p \in Pids : Own(duration'[p])
    BY UnsetType DEF cleanup, DurationIsOwn, FilledInTime
<1> QED  BY <1>1, <1>2, <1>3, <1>4, <1>5 DEF Inv

\* The program takes the oldest event, which no probe holds.
LEMMA HandleEventInv == Inv /\ handle_event => Inv'
<1> SUFFICES ASSUME Inv, handle_event  PROVE Inv'
    OBVIOUS
<1>1. /\ rb # <<>> /\ ~ rb[1].busy /\ rb' = Tail(rb)
      /\ UNCHANGED <<program, exec_start, processes, locals, ghosts>>
    BY DEF handle_event, Submitted
<1>2. /\ rb \in Seq(Event) /\ rb' \in Seq(Event)
      /\ DOMAIN rb = 1 .. Len(rb) /\ DOMAIN rb' = 1 .. Len(rb) - 1
      /\ Len(rb) \in Nat \ {0} /\ Len(rb') = Len(rb) - 1 /\ Len(rb') <= RingSize
      /\ \A i \in 1 .. Len(rb) - 1 : rb'[i] = rb[i + 1]
    BY <1>1, BootstrapAssumption DEF Inv, RingOK
<1>3. RingOK'
    <2>1. \A i, j \in DOMAIN rb' : rb'[i].busy /\ rb'[j].busy /\ rb'[i].pid = rb'[j].pid => i = j
        <3>1. SUFFICES ASSUME NEW i \in DOMAIN rb', NEW j \in DOMAIN rb', rb'[i].busy,
                              rb'[j].busy, rb'[i].pid = rb'[j].pid
                       PROVE  i = j
            OBVIOUS
        <3>2. /\ i + 1 \in DOMAIN rb /\ j + 1 \in DOMAIN rb /\ i \in Nat /\ j \in Nat
              /\ rb'[i] = rb[i + 1] /\ rb'[j] = rb[j + 1]
            BY <1>2
        <3>3. i + 1 = j + 1
            BY <3>1, <3>2 DEF Inv, RingOK
        <3> QED  BY <3>2, <3>3
    <2>2. ASSUME NEW p \in Pids
          PROVE  (\E i \in DOMAIN rb' : Mine(p, i)') <=> \E i \in DOMAIN rb : Mine(p, i)
        <3>1. ASSUME NEW i \in DOMAIN rb, Mine(p, i)  PROVE \E j \in DOMAIN rb' : Mine(p, j)'
            <4>1. i # 1 /\ i - 1 \in DOMAIN rb' /\ rb'[i - 1] = rb[i]
                BY <1>1, <1>2, <3>1 DEF Mine
            <4> QED  BY <3>1, <4>1 DEF Mine
        <3>2. ASSUME NEW i \in DOMAIN rb', Mine(p, i)'  PROVE \E j \in DOMAIN rb : Mine(p, j)
            <4>1. i + 1 \in DOMAIN rb /\ rb[i + 1] = rb'[i]
                BY <1>2
            <4> QED  BY <3>2, <4>1 DEF Mine
        <3> QED  BY <3>1, <3>2
    <2>3. UNCHANGED probe
        BY <1>1 DEF locals
    <2> QED  BY <1>2, <2>1, <2>2, <2>3 DEF Inv, RingOK
<1>4. (ProbesOK /\ StartIsOwn /\ ExitDeletes /\ EntriesOfLive /\ OnlyLongGoOn)'
    BY <1>1 DEF Inv, ProbesOK, StartIsOwn, ExitDeletes, EntriesOfLive, OnlyLongGoOn,
                LongEnough, program, processes, locals, ghosts
<1>5. StagesOK'
    BY <1>1 DEF handle_event, Inv, StagesOK, program, locals
<1>6. DurationIsOwn' /\ \A p \in Pids : Own(duration'[p])
    BY <1>1, <1>2 DEF Inv, DurationIsOwn, locals
<1>7. FilledInTime'
    BY <1>1, <1>2 DEF Inv, FilledInTime, Filled, LongEnough, program, locals
<1> QED  BY <1>3, <1>4, <1>5, <1>6, <1>7 DEF Inv

-----------------------------------------------------------------------------
(* Processes, and time *)

\* The ring and the events it holds, when no probe steps into or out of it.
LEMMA RingStays ==
    ASSUME Inv, UNCHANGED <<rb, min_duration_ns>>,
           \A p \in Pids : probe'[p] = probe[p]
              \/ {probe[p], probe'[p]} \cap {"fill", "submit"} = {}
    PROVE  (RingOK /\ DurationIsOwn /\ FilledInTime)'
<1>1. RingOK'
    BY DEF Inv, RingOK, Mine
<1>2. DurationIsOwn'
    BY DEF Inv, DurationIsOwn
<1>3. ASSUME NEW i \in DOMAIN rb, ~ rb[i].busy \/ probe'[rb[i].pid] = "submit"
      PROVE  Filled(rb[i])'
    <2>1. rb[i].pid \in Pids
        BY EventType DEF Inv
    <2>2. ~ rb[i].busy \/ probe[rb[i].pid] = "submit"
        BY <1>3, <2>1
    <2> QED  BY <2>2 DEF Inv, FilledInTime, Filled, LongEnough
<1>4. FilledInTime'
    BY <1>3 DEF FilledInTime
<1> QED  BY <1>1, <1>2, <1>4

\* Steps of a process in which no probe runs.
LEMMA ProcessInv ==
    ASSUME Inv, NEW p \in Pids,
           Fork(p) \/ StartThread(p) \/ Reap(p) \/ handle_exit_thread(p)
    PROVE  Inv'
<1>1. UNCHANGED <<program, exec_start, rb, locals, ghosts>>
    BY DEF Fork, StartThread, Reap, handle_exit_thread
<1>2. \/ UNCHANGED task
      \/ task[p] = "free" /\ task' = [task EXCEPT ![p] = "run"]
      \/ task[p] = "dead" /\ task' = [task EXCEPT ![p] = "free"]
    BY DEF Fork, StartThread, Reap, handle_exit_thread
<1>3. ProbesOK'
    BY <1>1, <1>2 DEF Inv, ProbesOK, locals, ghosts
<1>4. (StartIsOwn /\ ExitDeletes /\ EntriesOfLive)'
    BY <1>1, <1>2 DEF Inv, ProbesOK, StartIsOwn, ExitDeletes, EntriesOfLive, locals, ghosts
<1>5. (StagesOK /\ OnlyLongGoOn)' /\ \A q \in Pids : Own(duration'[q])
    BY <1>1, <1>2 DEF Inv, ProbesOK, StagesOK, OnlyLongGoOn, LongEnough, program, locals
<1>6. (RingOK /\ DurationIsOwn /\ FilledInTime)'
    BY <1>1, RingStays DEF program, locals
<1> QED  BY <1>3, <1>4, <1>5, <1>6 DEF Inv

LEMMA ExecInv ==
    ASSUME Inv, NEW p \in Pids, Exec(p)
    PROVE  Inv'
<1>1. /\ UNCHANGED <<program, exec_start, rb, duration, ghosts>>
      /\ task[p] \in {"run", "dead"}
      /\ \/ /\ task' = [task EXCEPT ![p] = "exec"] /\ probe' = [probe EXCEPT ![p] = "entry"]
            /\ main # "start"
         \/ task' = [task EXCEPT ![p] = "run"] /\ UNCHANGED probe
    BY DEF Exec, Inv, StagesOK
<1>2. probe[p] = "none"
    BY <1>1 DEF Inv, ProbesOK
<1>3. ProbesOK'
    BY <1>1, <1>2 DEF Inv, ProbesOK, ghosts
<1>4. (StartIsOwn /\ ExitDeletes /\ EntriesOfLive)'
    BY <1>1 DEF Inv, ProbesOK, StartIsOwn, ExitDeletes, EntriesOfLive, ghosts
<1>5. (StagesOK /\ OnlyLongGoOn)' /\ \A q \in Pids : Own(duration'[q])
    BY <1>1, <1>2 DEF Inv, ProbesOK, StagesOK, OnlyLongGoOn, LongEnough, program
<1>6. (RingOK /\ DurationIsOwn /\ FilledInTime)'
    <2>1. \A q \in Pids : probe'[q] = probe[q]
              \/ {probe[q], probe'[q]} \cap {"fill", "submit"} = {}
        BY <1>1, <1>2 DEF Inv, ProbesOK
    <2> QED  BY <1>1, <2>1, RingStays DEF program
<1> QED  BY <1>3, <1>4, <1>5, <1>6 DEF Inv

LEMMA ExitInv ==
    ASSUME Inv, NEW p \in Pids, Exit(p)
    PROVE  Inv'
<1>1. /\ UNCHANGED <<program, exec_start, rb, duration>> /\ task[p] = "run"
      /\ \/ /\ task' = [task EXCEPT ![p] = "exit"] /\ probe' = [probe EXCEPT ![p] = "entry"]
            /\ main # "start" /\ UNCHANGED ghosts
         \/ /\ task' = [task EXCEPT ![p] = "dead"] /\ UNCHANGED probe
            /\ life' = [life EXCEPT ![p] = None]
            /\ stale' = IF exec_start[p] = None THEN stale ELSE stale \cup {p}
    BY DEF Exit, Inv, StagesOK
<1>2. probe[p] = "none"
    BY <1>1 DEF Inv, ProbesOK
<1>3. ProbesOK'
    BY <1>1, <1>2, UnsetType DEF Inv, ProbesOK, ghosts
<1>4. (StartIsOwn /\ ExitDeletes /\ EntriesOfLive)'
    BY <1>1, <1>2 DEF Inv, ProbesOK, StartIsOwn, ExitDeletes, EntriesOfLive, ghosts
<1>5. (StagesOK /\ OnlyLongGoOn)' /\ \A q \in Pids : Own(duration'[q])
    BY <1>1, <1>2 DEF Inv, ProbesOK, StagesOK, OnlyLongGoOn, LongEnough, program
<1>6. (RingOK /\ DurationIsOwn /\ FilledInTime)'
    <2>1. \A q \in Pids : probe'[q] = probe[q]
              \/ {probe[q], probe'[q]} \cap {"fill", "submit"} = {}
        BY <1>1, <1>2 DEF Inv, ProbesOK
    <2> QED  BY <1>1, <2>1, RingStays DEF program
<1> QED  BY <1>3, <1>4, <1>5, <1>6 DEF Inv

LEMMA TickInv == Inv /\ Tick => Inv'
<1> SUFFICES ASSUME Inv, Tick  PROVE Inv'
    OBVIOUS
<1>1. /\ exec_start' = [p \in Pids |-> Older(exec_start[p])]
      /\ life' = [p \in Pids |-> Older(life[p])]
      /\ UNCHANGED <<program, rb, processes, locals, stale>>
    BY DEF Tick
<1>2. \A p \in Pids :
          /\ exec_start[p] \in Ages /\ exec_start'[p] \in Ages /\ life'[p] \in Ages
          /\ exec_start'[p] = None <=> exec_start[p] = None
          /\ exec_start[p] = life[p] => exec_start'[p] = life'[p]
    BY <1>1, OlderAge DEF Inv, ProbesOK
<1>3. ProbesOK'
    BY <1>1, <1>2 DEF Inv, ProbesOK, locals, processes
<1>4. (StartIsOwn /\ ExitDeletes /\ EntriesOfLive)'
    BY <1>1, <1>2 DEF Inv, StartIsOwn, ExitDeletes, EntriesOfLive, locals, processes
<1>5. (StagesOK /\ OnlyLongGoOn)' /\ \A q \in Pids : Own(duration'[q])
    BY <1>1 DEF Inv, StagesOK, OnlyLongGoOn, LongEnough, program, locals, processes
<1>6. (RingOK /\ DurationIsOwn /\ FilledInTime)'
    BY <1>1, RingStays DEF program, locals
<1> QED  BY <1>3, <1>4, <1>5, <1>6 DEF Inv

-----------------------------------------------------------------------------
(* The probes *)

\* A probe returns to the process it interrupted.
LEMMA ReturnProbes ==
    ASSUME Inv, NEW p \in Pids, Return(p), probe[p] # "none"
    PROVE  /\ probe' \in [Pids -> {"none", "entry", "reserve", "fill", "submit"}]
           /\ task' \in [Pids -> {"free", "run", "exec", "exit", "dead"}]
           /\ probe'[p] = "none" /\ task'[p] = (IF task[p] = "exec" THEN "run" ELSE "dead")
           /\ \A q \in Pids \ {p} : probe'[q] = probe[q] /\ task'[q] = task[q]
BY DEF Inv, ProbesOK, Return

LEMMA HandleExecInv ==
    ASSUME Inv, NEW p \in Pids, handle_exec(p)
    PROVE  Inv'
<1>1. /\ task[p] = "exec" /\ probe[p] = "entry"
      /\ UNCHANGED <<program, rb, duration>>
      /\ life' = [life EXCEPT ![p] = 0] /\ stale' = stale \ {p}
    BY DEF handle_exec
<1>2. /\ exec_start' \in [Pids -> Ages] /\ exec_start'[p] \in {0, None}
      /\ \A q \in Pids \ {p} : exec_start'[q] = exec_start[q]
    <2>1. \/ exec_start[p] = None /\ exec_start' = exec_start
          \/ exec_start' = [exec_start EXCEPT ![p] = 0]
        BY DEF handle_exec, Update
    <2>2. 0 \in Ages /\ exec_start \in [Pids -> Ages]
        BY BootstrapAssumption DEF Inv, ProbesOK, Ages, None
    <2> QED  BY <2>1, <2>2
<1>3. /\ probe' \in [Pids -> {"none", "entry", "reserve", "fill", "submit"}]
      /\ task' \in [Pids -> {"free", "run", "exec", "exit", "dead"}]
      /\ \/ probe'[p] = "reserve" /\ task'[p] = "exec" /\ min_duration_ns = 0
         \/ probe'[p] = "none" /\ task'[p] = "run"
      /\ \A q \in Pids \ {p} : probe'[q] = probe[q] /\ task'[q] = task[q]
    <2>1. CASE EmitsExec
        BY <1>1, <2>1 DEF handle_exec, EmitsExec, Inv, ProbesOK
    <2>2. CASE ~ EmitsExec
        BY <1>1, <2>2, ReturnProbes DEF handle_exec
    <2> QED  BY <2>1, <2>2
<1>4. ProbesOK'
    <2>1. life' \in [Pids -> Ages] /\ life'[p] = 0
        BY <1>1, BootstrapAssumption DEF Inv, ProbesOK, Ages, None
    <2> QED  BY <1>1, <1>2, <1>3, <2>1 DEF Inv, ProbesOK
<1>5. (StartIsOwn /\ ExitDeletes /\ EntriesOfLive)'
    BY <1>1, <1>2, <1>3 DEF Inv, ProbesOK, StartIsOwn, ExitDeletes, EntriesOfLive
<1>6. main # "start"
    BY <1>1 DEF Inv, StagesOK
<1>7. (StagesOK /\ OnlyLongGoOn)' /\ \A q \in Pids : Own(duration'[q])
    BY <1>1, <1>3, <1>6 DEF Inv, StagesOK, OnlyLongGoOn, LongEnough, program
<1>8. (RingOK /\ DurationIsOwn /\ FilledInTime)'
    <2>1. \A q \in Pids : probe'[q] = probe[q]
              \/ {probe[q], probe'[q]} \cap {"fill", "submit"} = {}
        BY <1>1, <1>3
    <2> QED  BY <1>1, <2>1, RingStays DEF program
<1> QED  BY <1>4, <1>5, <1>7, <1>8 DEF Inv

\* What handle_exit has found out when it goes on.
LEMMA DurationFound ==
    ASSUME Inv, NEW p \in Pids, ~ TooShort(p)
    PROVE  LET d == [ns |-> Lived(p), life |-> life[p], stale |-> p \in stale]
           IN  d \in Lengths /\ Own(d) /\ (min_duration_ns # 0 => LongEnough(d))
<1> DEFINE d == [ns |-> Lived(p), life |-> life[p], stale |-> p \in stale]
<1>1. exec_start[p] \in 0 .. MaxAge + 1 /\ life[p] \in Ages /\ MaxAge \in Nat
    BY BootstrapAssumption DEF Inv, ProbesOK, Ages, None
<1>2. Lived(p) \in 0 .. MaxAge
    BY <1>1 DEF Lived, None
<1>3. Lived(p) # 0 => exec_start[p] # None /\ Lived(p) = exec_start[p]
    BY DEF Lived
<1>4. Lived(p) # 0 => p \in stale \/ Lived(p) = life[p]
    BY <1>3 DEF Inv, StartIsOwn
<1>5. d \in Lengths
    BY <1>1, <1>2 DEF Lengths
<1>6. Own(d)
    BY <1>4 DEF Own
<1>7. ASSUME min_duration_ns # 0  PROVE LongEnough(d)
    <2>1. min_duration_ns \in 1 .. MaxAge
        BY <1>7, BootstrapAssumption DEF Inv, StagesOK
    <2>2. Lived(p) \in min_duration_ns .. MaxAge /\ Lived(p) # 0
        BY <1>2, <1>7, <2>1 DEF TooShort
    <2> QED  BY <1>4, <2>2 DEF LongEnough
<1> QED  BY <1>5, <1>6, <1>7

LEMMA HandleExitInv ==
    ASSUME Inv, NEW p \in Pids, handle_exit(p)
    PROVE  Inv'
<1> DEFINE d == [ns |-> Lived(p), life |-> life[p], stale |-> p \in stale]
<1>1. /\ task[p] = "exit" /\ probe[p] = "entry"
      /\ UNCHANGED <<program, rb>>
      /\ exec_start' = [exec_start EXCEPT ![p] = None]
      /\ life' = [life EXCEPT ![p] = None] /\ stale' = stale \ {p}
      /\ duration' = [duration EXCEPT ![p] = IF TooShort(p) THEN @ ELSE d]
    BY DEF handle_exit, Delete
<1>2. /\ probe' \in [Pids -> {"none", "entry", "reserve", "fill", "submit"}]
      /\ task' \in [Pids -> {"free", "run", "exec", "exit", "dead"}]
      /\ \/ probe'[p] = "reserve" /\ task'[p] = "exit" /\ ~ TooShort(p)
         \/ probe'[p] = "none" /\ task'[p] = "dead"
      /\ \A q \in Pids \ {p} : probe'[q] = probe[q] /\ task'[q] = task[q]
    <2>1. CASE ~ TooShort(p)
        BY <1>1, <2>1 DEF handle_exit, Inv, ProbesOK
    <2>2. CASE TooShort(p)
        BY <1>1, <2>2, ReturnProbes DEF handle_exit
    <2> QED  BY <2>1, <2>2
<1>3. ~ TooShort(p) => d \in Lengths /\ Own(d) /\ (min_duration_ns # 0 => LongEnough(d))
    BY DurationFound
<1> HIDE DEF d
<1>4. /\ duration' \in [Pids -> Lengths] /\ \A q \in Pids : Own(duration'[q])
      /\ ~ TooShort(p) => duration'[p] = d
      /\ \A q \in Pids \ {p} : duration'[q] = duration[q]
    BY <1>1, <1>3 DEF Inv, ProbesOK
<1>5. ProbesOK'
    BY <1>1, <1>2, <1>4, UnsetType DEF Inv, ProbesOK
<1>6. (StartIsOwn /\ ExitDeletes /\ EntriesOfLive)'
    BY <1>1, <1>2 DEF Inv, ProbesOK, StartIsOwn, ExitDeletes, EntriesOfLive
<1>7. StagesOK'
    BY <1>1 DEF Inv, StagesOK, program
<1>8. OnlyLongGoOn'
    BY <1>1, <1>2, <1>3, <1>4 DEF Inv, OnlyLongGoOn, LongEnough, program
<1>9. (RingOK /\ DurationIsOwn /\ FilledInTime)'
    <2>1. \A q \in Pids : probe'[q] = probe[q]
              \/ {probe[q], probe'[q]} \cap {"fill", "submit"} = {}
        BY <1>1, <1>2
    <2> QED  BY <1>1, <2>1, RingStays DEF program
<1> QED  BY <1>4, <1>5, <1>6, <1>7, <1>8, <1>9 DEF Inv

\* What a probe leaves alone while it works on its event.
LEMMA BesideTheRing ==
    ASSUME Inv, NEW p \in Pids,
           probe[p] \in {"reserve", "fill", "submit"},
           UNCHANGED <<program, exec_start, ghosts>>,
           duration' \in [Pids -> Lengths], \A q \in Pids : Own(duration'[q]),
           probe' \in [Pids -> {"none", "entry", "reserve", "fill", "submit"}],
           task' \in [Pids -> {"free", "run", "exec", "exit", "dead"}],
           \A q \in Pids \ {p} :
              probe'[q] = probe[q] /\ task'[q] = task[q] /\ duration'[q] = duration[q],
           \/ probe'[p] \in {"fill", "submit"} /\ task'[p] = task[p]
           \/ probe'[p] = "none" /\ task'[p] = (IF task[p] = "exec" THEN "run" ELSE "dead"),
           probe'[p] = "fill" => probe[p] = "reserve" /\ duration'[p] = duration[p]
    PROVE  /\ (ProbesOK /\ StagesOK /\ StartIsOwn /\ ExitDeletes /\ EntriesOfLive)'
           /\ OnlyLongGoOn' /\ \A q \in Pids : Own(duration'[q])
<1>1. task[p] \in {"exec", "exit"} /\ main # "start"
    BY DEF Inv, ProbesOK, StagesOK
<1>2. ProbesOK'
    BY <1>1 DEF Inv, ProbesOK, ghosts
<1>3. StagesOK'
    BY <1>1 DEF Inv, StagesOK, program
<1>4. (StartIsOwn /\ ExitDeletes)'
    BY <1>1 DEF Inv, StartIsOwn, ExitDeletes, ghosts
<1>5. EntriesOfLive'
    BY <1>1 DEF Inv, ExitDeletes, EntriesOfLive, ghosts
<1>6. OnlyLongGoOn'
    BY <1>1 DEF Inv, OnlyLongGoOn, LongEnough, program
<1> QED  BY <1>2, <1>3, <1>4, <1>5, <1>6

LEMMA ReserveInv ==
    ASSUME Inv, NEW p \in Pids, Reserve(p)
    PROVE  Inv'
<1>1. /\ probe[p] = "reserve" /\ UNCHANGED <<program, exec_start, thread, work, duration, ghosts>>
      /\ duration' \in [Pids -> Lengths] /\ \A q \in Pids : Own(duration'[q])
    BY DEF Reserve, Inv, ProbesOK
<1>2. CASE ~ HasRoom
    <2>1. Return(p) /\ UNCHANGED rb
        BY <1>2 DEF Reserve
    <2>2. /\ probe' \in [Pids -> {"none", "entry", "reserve", "fill", "submit"}]
          /\ task' \in [Pids -> {"free", "run", "exec", "exit", "dead"}]
          /\ probe'[p] = "none" /\ task'[p] = (IF task[p] = "exec" THEN "run" ELSE "dead")
          /\ \A q \in Pids \ {p} : probe'[q] = probe[q] /\ task'[q] = task[q]
        BY <1>1, <2>1, ReturnProbes
    <2>3. (RingOK /\ DurationIsOwn /\ FilledInTime)'
        <3>1. \A q \in Pids : probe'[q] = probe[q]
                  \/ {probe[q], probe'[q]} \cap {"fill", "submit"} = {}
            BY <1>1, <2>2
        <3> QED  BY <1>1, <2>1, <3>1, RingStays DEF program
    <2> QED  BY <1>1, <2>2, <2>3, BesideTheRing DEF Inv
<1>3. CASE HasRoom
    <2>1. /\ rb' = Append(rb, Reserved(p)) /\ UNCHANGED task
          /\ probe' = [probe EXCEPT ![p] = "fill"]
        BY <1>3 DEF Reserve
    <2>2. /\ probe' \in [Pids -> {"none", "entry", "reserve", "fill", "submit"}]
          /\ task' \in [Pids -> {"free", "run", "exec", "exit", "dead"}]
          /\ probe'[p] = "fill" /\ task'[p] = task[p]
          /\ \A q \in Pids \ {p} : probe'[q] = probe[q] /\ task'[q] = task[q]
        BY <2>1 DEF Inv, ProbesOK
    <2>3. /\ Reserved(p) \in Event /\ Reserved(p).pid = p /\ Reserved(p).busy
          /\ Reserved(p).duration = Unset
        BY UnsetType DEF Reserved, Event
    <2>4. /\ rb' \in Seq(Event) /\ Len(rb) \in Nat /\ DOMAIN rb = 1 .. Len(rb)
          /\ Len(rb') = Len(rb) + 1 /\ DOMAIN rb' = 1 .. Len(rb) + 1
          /\ \A i \in 1 .. Len(rb) : rb'[i] = rb[i]
          /\ rb'[Len(rb) + 1] = Reserved(p)
        BY <2>1, <2>3 DEF Inv, RingOK
    <2>5. \A i \in DOMAIN rb : ~ Mine(p, i)
        BY <1>1 DEF Inv, RingOK
    <2>6. RingOK'
        <3>1. Len(rb') <= RingSize
            BY <1>3, <2>4, BootstrapAssumption DEF HasRoom
        <3>2. \A i, j \in DOMAIN rb' :
                  rb'[i].busy /\ rb'[j].busy /\ rb'[i].pid = rb'[j].pid => i = j
            BY <2>3, <2>4, <2>5 DEF Inv, RingOK, Mine
        <3>3. ASSUME NEW q \in Pids
              PROVE  probe'[q] \in {"fill", "submit"} <=> \E i \in DOMAIN rb' : Mine(q, i)'
            <4>1. CASE q = p
                <5>1. PICK i \in DOMAIN rb' : rb'[i] = Reserved(p)
                    BY <2>4
                <5>2. Mine(q, i)'
                    BY <2>3, <4>1, <5>1 DEF Mine
                <5> QED  BY <2>2, <4>1, <5>1, <5>2
            <4>2. CASE q # p
                <5>1. (\E i \in DOMAIN rb' : Mine(q, i)') <=> \E i \in DOMAIN rb : Mine(q, i)
                    BY <2>3, <2>4, <4>2 DEF Mine
                <5> QED  BY <2>2, <4>2, <5>1 DEF Inv, RingOK
            <4> QED  BY <4>1, <4>2
        <3> QED  BY <2>4, <3>1, <3>2, <3>3 DEF RingOK
    <2>7. DurationIsOwn'
        BY <2>3, <2>4, UnsetType DEF Inv, DurationIsOwn, Own
    <2>8. FilledInTime'
        <3>1. SUFFICES ASSUME NEW i \in DOMAIN rb',
                              ~ rb'[i].busy \/ probe'[rb'[i].pid] = "submit"
                       PROVE  Filled(rb[i])'
            BY DEF FilledInTime
        <3>2. i \in DOMAIN rb /\ rb'[i] = rb[i]
            BY <2>2, <2>3, <2>4, <3>1
        <3>3. rb[i].pid \in Pids
            BY <3>2, EventType DEF Inv
        <3>4. ~ rb[i].busy \/ probe[rb[i].pid] = "submit"
            BY <2>2, <3>1, <3>2, <3>3
        <3> QED  BY <1>1, <3>2, <3>4 DEF Inv, FilledInTime, Filled, LongEnough, program
    <2> QED  BY <1>1, <2>2, <2>6, <2>7, <2>8, BesideTheRing DEF Inv
<1> QED  BY <1>2, <1>3

\* The event of a probe that has reserved one.
LEMMA MineIsOne ==
    ASSUME Inv, NEW p \in Pids, probe[p] \in {"fill", "submit"}
    PROVE  /\ MineAt(p) \in DOMAIN rb /\ Mine(p, MineAt(p))
           /\ \A i \in DOMAIN rb : Mine(p, i) => i = MineAt(p)
<1>1. \E i \in DOMAIN rb : rb[i].pid = p /\ rb[i].busy
    BY DEF Inv, RingOK, Mine
<1>2. MineAt(p) \in DOMAIN rb /\ rb[MineAt(p)].pid = p /\ rb[MineAt(p)].busy
    BY <1>1 DEF MineAt
<1> QED  BY <1>2 DEF Inv, RingOK, Mine

LEMMA FillInv ==
    ASSUME Inv, NEW p \in Pids, Fill(p)
    PROVE  Inv'
<1> DEFINE m == MineAt(p)
           e == [pid |-> p, busy |-> TRUE, set |-> SetBy(p), exit |-> task[p] = "exit",
                 duration |-> duration[p]]
<1>1. /\ probe[p] = "fill" /\ probe' = [probe EXCEPT ![p] = "submit"]
      /\ duration' = [duration EXCEPT ![p] = Unset]
      /\ UNCHANGED <<program, exec_start, processes, ghosts>>
    BY DEF Fill
<1>2. /\ m \in DOMAIN rb /\ rb[m].pid = p /\ rb[m].busy = TRUE
      /\ \A i \in DOMAIN rb : Mine(p, i) => i = m
    BY <1>1, MineIsOne, EventType DEF Mine, Inv
<1>3. task[p] \in {"exec", "exit"} /\ SetBy(p) \subseteq Fields /\ duration[p] \in Lengths
    BY <1>1 DEF Inv, ProbesOK, SetBy, Fields
<1>4. /\ DOMAIN rb' = DOMAIN rb /\ \A i \in DOMAIN rb \ {m} : rb'[i] = rb[i]
      /\ rb'[m] = e
    <2>1. rb[m] \in Event
        BY <1>2, EventType DEF Inv
    <2>2. rb[m] = [pid |-> p, busy |-> TRUE, set |-> rb[m].set, exit |-> rb[m].exit,
                   duration |-> rb[m].duration]
        BY <1>2, <2>1 DEF Event
    <2>3. rb' = [rb EXCEPT ![m].set = SetBy(p), ![m].exit = (task[p] = "exit"),
                           ![m].duration = duration[p]]
        BY DEF Fill
    <2> HIDE DEF m
    <2> QED  BY <1>2, <2>2, <2>3
<1>5. e \in Event
    BY <1>3 DEF Event
<1>6. /\ rb' \in Seq(Event) /\ Len(rb') = Len(rb)
    <2>1. rb' \in [1 .. Len(rb) -> Event] /\ Len(rb) \in Nat
        <3> HIDE DEF e, m
        <3>1. rb \in Seq(Event)
            BY DEF Inv, RingOK
        <3> QED  BY <1>2, <1>4, <1>5, <3>1 DEF Fill, m
    <2> QED  BY <2>1
<1>7. /\ e.pid = p /\ e.busy /\ e.set = SetBy(p) /\ e.exit = (task[p] = "exit")
      /\ e.duration = duration[p]
    OBVIOUS
<1> HIDE DEF e, m
<1>8. /\ probe' \in [Pids -> {"none", "entry", "reserve", "fill", "submit"}]
      /\ task' \in [Pids -> {"free", "run", "exec", "exit", "dead"}]
      /\ duration' \in [Pids -> Lengths] /\ \A q \in Pids : Own(duration'[q])
      /\ probe'[p] = "submit" /\ task' = task
      /\ \A q \in Pids \ {p} : probe'[q] = probe[q] /\ duration'[q] = duration[q]
    BY <1>1, UnsetType DEF Inv, ProbesOK, processes
<1>9. RingOK'
    <2>1. \A i \in DOMAIN rb : rb'[i].pid = rb[i].pid /\ rb'[i].busy = rb[i].busy
        BY <1>2, <1>4, <1>7, <1>5 DEF Event
    <2>2. \A q \in Pids, i \in DOMAIN rb : Mine(q, i)' <=> Mine(q, i)
        BY <2>1 DEF Mine
    <2>3. \A q \in Pids : probe'[q] \in {"fill", "submit"} <=> probe[q] \in {"fill", "submit"}
        BY <1>1, <1>8
    <2>4. \A i, j \in DOMAIN rb' :
              rb'[i].busy /\ rb'[j].busy /\ rb'[i].pid = rb'[j].pid => i = j
        BY <1>4, <2>1 DEF Inv, RingOK
    <2>5. \A q \in Pids : probe'[q] \in {"fill", "submit"} <=> \E i \in DOMAIN rb' : Mine(q, i)'
        BY <1>4, <2>2, <2>3 DEF Inv, RingOK
    <2> QED  BY <1>6, <2>4, <2>5 DEF Inv, RingOK
<1>10. DurationIsOwn'
    BY <1>4, <1>7 DEF Inv, DurationIsOwn, Own
<1>11. FilledInTime'
    <2>1. SUFFICES ASSUME NEW i \in DOMAIN rb, ~ rb'[i].busy \/ probe'[rb'[i].pid] = "submit"
                   PROVE  Filled(rb[i])'
        BY <1>4 DEF FilledInTime
    <2>2. CASE i = m
        <3>1. ReadFields(e) \subseteq e.set
            BY <1>3, <1>7 DEF ReadFields, SetBy
        <3>2. min_duration_ns # 0 => e.exit /\ LongEnough(e.duration)
            BY <1>1, <1>7 DEF Inv, OnlyLongGoOn
        <3> QED  BY <1>1, <1>4, <2>2, <3>1, <3>2 DEF Filled, LongEnough, program
    <2>3. CASE i # m
        <3>1. rb'[i] = rb[i] /\ rb[i].pid \in Pids /\ (rb[i].busy => rb[i].pid # p)
            BY <1>2, <1>4, <2>3, EventType DEF Inv, Mine
        <3>2. ~ rb[i].busy \/ probe[rb[i].pid] = "submit"
            BY <1>8, <2>1, <3>1
        <3> QED  BY <1>1, <3>1, <3>2 DEF Inv, FilledInTime, Filled, LongEnough, program
    <2> QED  BY <2>2, <2>3
<1> QED  BY <1>1, <1>8, <1>9, <1>10, <1>11, BesideTheRing DEF Inv

LEMMA SubmitInv ==
    ASSUME Inv, NEW p \in Pids, Submit(p)
    PROVE  Inv'
<1> DEFINE m == MineAt(p)
<1>1. /\ probe[p] = "submit" /\ Return(p)
      /\ UNCHANGED <<program, exec_start, duration, ghosts>>
    BY DEF Submit
<1>2. /\ m \in DOMAIN rb /\ rb[m] \in Event /\ rb[m].pid = p
      /\ \A i \in DOMAIN rb : Mine(p, i) => i = m
    BY <1>1, MineIsOne, EventType DEF Mine, Inv
<1>3. rb' = [rb EXCEPT ![m].busy = FALSE]
    BY DEF Submit
<1> HIDE DEF m
<1>4. /\ DOMAIN rb' = DOMAIN rb /\ \A i \in DOMAIN rb \ {m} : rb'[i] = rb[i]
      /\ rb'[m] = [rb[m] EXCEPT !.busy = FALSE]
    BY <1>2, <1>3
<1>5. /\ rb'[m] \in Event /\ rb'[m].pid = p /\ rb'[m].busy = FALSE
      /\ rb'[m].set = rb[m].set /\ rb'[m].exit = rb[m].exit
      /\ rb'[m].duration = rb[m].duration
    BY <1>2, <1>4 DEF Event
<1>6. rb' \in Seq(Event) /\ Len(rb') = Len(rb)
    <2>1. rb \in Seq(Event)
        BY DEF Inv, RingOK
    <2>2. rb' \in [1 .. Len(rb) -> Event] /\ Len(rb) \in Nat
        BY <1>2, <1>3, <1>4, <1>5, <2>1
    <2> QED  BY <2>2
<1>7. /\ probe' \in [Pids -> {"none", "entry", "reserve", "fill", "submit"}]
      /\ task' \in [Pids -> {"free", "run", "exec", "exit", "dead"}]
      /\ probe'[p] = "none" /\ task'[p] = (IF task[p] = "exec" THEN "run" ELSE "dead")
      /\ \A q \in Pids \ {p} : probe'[q] = probe[q] /\ task'[q] = task[q]
    BY <1>1, ReturnProbes
<1>8. RingOK'
    <2>1. \A i \in DOMAIN rb : rb'[i].pid = rb[i].pid /\ (rb'[i].busy => rb[i].busy /\ i # m)
        BY <1>2, <1>4, <1>5
    <2>2. \A i \in DOMAIN rb : i # m => rb'[i] = rb[i]
        BY <1>4
    <2>3. ASSUME NEW q \in Pids
          PROVE  probe'[q] \in {"fill", "submit"} <=> \E i \in DOMAIN rb' : Mine(q, i)'
        <3>1. CASE q = p
            BY <1>2, <1>4, <1>7, <2>1, <3>1 DEF Mine
        <3>2. CASE q # p
            <4>1. \A i \in DOMAIN rb : Mine(q, i)' <=> Mine(q, i)
                BY <1>2, <1>5, <2>2, <3>2 DEF Mine
            <4> QED  BY <1>4, <1>7, <3>2, <4>1 DEF Inv, RingOK
        <3> QED  BY <3>1, <3>2
    <2> QED  BY <1>4, <1>6, <2>1, <2>3 DEF Inv, RingOK
<1>9. DurationIsOwn'
    BY <1>2, <1>4, <1>5 DEF Inv, DurationIsOwn
<1>10. FilledInTime'
    <2>1. SUFFICES ASSUME NEW i \in DOMAIN rb, ~ rb'[i].busy \/ probe'[rb'[i].pid] = "submit"
                   PROVE  Filled(rb[i])'
        BY <1>4 DEF FilledInTime
    <2>2. CASE i = m
        <3>1. Filled(rb[m])
            BY <1>1, <1>2 DEF Inv, FilledInTime
        <3> QED  BY <1>1, <1>5, <2>2, <3>1 DEF Filled, LongEnough, ReadFields, program
    <2>3. CASE i # m
        <3>1. rb'[i] = rb[i] /\ rb[i].pid \in Pids
            BY <1>4, <2>3, EventType DEF Inv
        <3>2. ~ rb[i].busy \/ probe[rb[i].pid] = "submit"
            BY <1>7, <2>1, <3>1
        <3> QED  BY <1>1, <3>1, <3>2 DEF Inv, FilledInTime, Filled, LongEnough, program
    <2> QED  BY <2>2, <2>3
<1>11. duration' \in [Pids -> Lengths] /\ \A q \in Pids : Own(duration'[q])
    BY <1>1 DEF Inv, ProbesOK
<1> QED  BY <1>1, <1>7, <1>8, <1>9, <1>10, <1>11, BesideTheRing DEF Inv

-----------------------------------------------------------------------------

LEMMA NextInv == Inv /\ [Next]_vars => Inv'
<1> SUFFICES ASSUME Inv, [Next]_vars  PROVE Inv'
    OBVIOUS
<1>1. CASE Main \/ PollFails \/ sig_handler
    BY <1>1, MainInv, HandleEventInv, CleanupInv DEF Main
<1>2. CASE Tick
    BY <1>2, TickInv
<1>3. ASSUME NEW p \in Pids,
             \/ Fork(p) \/ StartThread(p) \/ Exec(p) \/ Exit(p) \/ Reap(p)
             \/ handle_exit_thread(p)
      PROVE  Inv'
    BY <1>3, ProcessInv, ExecInv, ExitInv
<1>4. ASSUME NEW p \in Pids, Probe(p)  PROVE Inv'
    BY <1>4, HandleExecInv, HandleExitInv, ReserveInv, FillInv, SubmitInv DEF Probe
<1>5. CASE UNCHANGED vars
    BY <1>5, StutterInv
<1> QED  BY <1>1, <1>2, <1>3, <1>4, <1>5 DEF Next

LEMMA Invariance == Spec => []Inv
BY InitInv, NextInv, PTL DEF Spec

\* The ring is never over-full, and every probe between bpf_ringbuf_reserve and
\* bpf_ringbuf_submit has exactly one event in it.
THEOREM TypeCorrect == Spec => []TypeOK
BY Invariance, InvType, PTL

\* exec_start does not leak: handle_exit deletes what handle_exec recorded,
\* also of a process it does not report.
THEOREM MapDoesNotLeak == Spec => []EntriesOfLive
<1>1. Inv => EntriesOfLive
    BY DEF Inv
<1> QED  BY <1>1, Invariance, PTL

\* A reported duration is the process's own, whoever had the pid before.
THEOREM DurationsAreOwn == Spec => []DurationIsOwn
<1>1. Inv => DurationIsOwn
    BY DEF Inv
<1> QED  BY <1>1, Invariance, PTL

\* With -d, no event of a shorter process and no exec event is submitted.
THEOREM MinimumHides == Spec => []ShortOnesHidden
<1>1. Inv => ShortOnesHidden
    BY DEF Inv, FilledInTime, Filled, LongEnough, ShortOnesHidden
<1> QED  BY <1>1, Invariance, PTL

\* handle_event reads only fields that the event's probe has set.
THEOREM NothingUnsetIsRead == Spec => ReadsOnlyWhatIsSet
<1>1. Inv /\ [Next]_vars => [handle_event => ReadFields(rb[1]) \subseteq rb[1].set]_vars
    <2>1. SUFFICES ASSUME Inv, handle_event  PROVE ReadFields(rb[1]) \subseteq rb[1].set
        OBVIOUS
    <2>2. 1 \in DOMAIN rb /\ ~ rb[1].busy
        BY <2>1 DEF handle_event, Submitted, Inv, RingOK
    <2> QED  BY <2>1, <2>2 DEF Inv, FilledInTime, Filled
<1> QED  BY <1>1, Invariance, PTL DEF Spec, ReadsOnlyWhatIsSet

=============================================================================

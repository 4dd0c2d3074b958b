------------------------ MODULE PodsnoopAgentProofs ------------------------
(***************************************************************************)
(* For any set of pods, annotations and process ids, and any sizes of map   *)
(* and ring: what is in the map was asked for by the pod it is about, what  *)
(* should be there is there when the main thread has caught up, and a pod   *)
(* is resized for its own trigger and to its own annotation.                *)
(*                                                                          *)
(* The agent works on copies: objects in the stream, a job, events in the   *)
(* ring, the event at hand.  The invariant says of each copy what it has in *)
(* common with the cluster, which has moved on: that its annotation was the *)
(* pod's at some time, that its cgroup is that of its pod and container,    *)
(* and, of the stream, that the last object of a pod is the pod as it is.   *)
(***************************************************************************)
EXTENDS PodsnoopAgent, ClusterProofs

ObjT   == [pod : Pods, ann : Anns \cup {NoAnn}, cs : [Ctrs -> Nat]]
JobT   == [cgroup_id : Nat, cmds : Seq(Commands)]
EventT == [cgroup_id : Nat, cgroup_pid : Pids, cgroup_cmd : Commands]

\* An annotation of the cgroup's pod listed the command for its container.
AskedFor(n, cmd) ==
    \E a \in hist[ctrs[n].pod] : a.cname = ctrs[n].ctr /\ cmd \in ToSet(a.commands)

StagesOK ==
    /\ main \in {"down", "loaded", "watching"}
    /\ perf \in {"none", "starting", "polling", "dead"}
    /\ main = "down" <=> perf = "none"
    /\ main = "down" => Unloaded /\ event = NoEvent
    /\ main # "watching" => stream = <<>> /\ job = NoJob
    /\ opened <=> perf = "polling"

StreamOK ==
    /\ stream \in Seq(ObjT)
    /\ \A k \in DOMAIN stream :
          /\ stream[k].ann \in hist[stream[k].pod] \cup {NoAnn}
          /\ \A c \in Ctrs : Of(stream[k].pod, c, stream[k].cs[c])

JobOK ==
    job # NoJob =>
        /\ job \in JobT /\ job.cmds # <<>>
        /\ job.cgroup_id \in Cgs /\ ctrs[job.cgroup_id].pod \in Local
        /\ \A cmd \in ToSet(job.cmds) : AskedFor(job.cgroup_id, cmd)

MapOK ==
    /\ IsFiniteSet(Registered) /\ Registered \subseteq Cgs
    /\ Cardinality(Registered) <= MAX_NUM_CONTAINERS
    /\ \A n \in Registered :
          ctrs[n].pod \in Local /\ AskedFor(n, resize_containers_map[n])

\* If ids are not used again, the pid of an event is that of its task or of none.
RingOK ==
    /\ pod_exec_events \in Seq(EventT) /\ Len(pod_exec_events) <= PerfCap
    /\ \A k \in DOMAIN pod_exec_events : LET e == pod_exec_events[k] IN
          /\ e.cgroup_id \in Cgs /\ AskedFor(e.cgroup_id, e.cgroup_cmd)
          /\ ~ ReusePids => e.cgroup_pid \in used /\ task[e.cgroup_pid] \in {0, e.cgroup_id}

EventOK ==
    /\ event.stage \in {"none", "get", "patch"}
    /\ event.stage # "none" =>
          /\ event.pod \in Pods /\ event.cgroup_id \in Cgs
          /\ event.ctr = ctrs[event.cgroup_id].ctr
          /\ AskedFor(event.cgroup_id, event.cmd)
          /\ ~ ReusePids => ctrs[event.cgroup_id].pod = event.pod
    /\ event.stage = "patch" => event.ann \in hist[event.pod]

InStream(p) == \E k \in DOMAIN stream : stream[k].pod = p

\* The last object of a pod in the stream is the pod as it is now.
LastIsCurrent ==
    \A k \in DOMAIN stream :
        /\ Exists(stream[k].pod)
        /\ \A l \in DOMAIN stream : l > k => stream[l].pod # stream[k].pod
        => stream[k] = Object(stream[k].pod)

\* A pod the stream says nothing more of is entered, or by the job at hand.
Covered ==
    main = "watching" =>
        \A p \in Pods, c \in Ctrs : Wanted(p, c) /\ ~ InStream(p) =>
            IF job.cgroup_id = pods[p].cs[c]
            THEN Last(job.cmds) = Last(pods[p].ann.commands)
            ELSE RegisteredAs(p, c) \/ MapFull

Inv ==
    /\ ClusterInv /\ StagesOK /\ StreamOK /\ JobOK /\ MapOK /\ RingOK /\ EventOK
    /\ ResourcesFromOwnAnnotation /\ LastIsCurrent /\ Covered

-----------------------------------------------------------------------------
(* Types *)

LEMMA AnnType ==
    ASSUME NEW a \in Anns
    PROVE  /\ a # NoAnn /\ a.cname \in Ctrs \cup {Missing}
           /\ a.commands \in Seq(Commands) /\ a.resize \in Res
           /\ ToSet(a.commands) \subseteq Commands
BY ClusterAssumption, AgentAssumption DEF Res, ToSet

LEMMA ObjType ==
    ASSUME stream \in Seq(ObjT), NEW k \in DOMAIN stream
    PROVE  /\ stream[k] \in ObjT /\ stream[k].pod \in Pods
           /\ stream[k].ann \in Anns \cup {NoAnn} /\ stream[k].cs \in [Ctrs -> Nat]
<1>1. stream[k] \in ObjT
    OBVIOUS
<1> QED  BY <1>1 DEF ObjT

LEMMA EventType ==
    ASSUME pod_exec_events \in Seq(EventT), NEW k \in DOMAIN pod_exec_events
    PROVE  LET e == pod_exec_events[k]
           IN  e \in EventT /\ e.cgroup_id \in Nat /\ e.cgroup_pid \in Pids /\ e.cgroup_cmd \in Commands
<1>1. pod_exec_events[k] \in EventT
    OBVIOUS
<1> QED  BY <1>1 DEF EventT

\* A map with one entry more, or another one for a key.
LEMMA PutEntry ==
    ASSUME NEW n, NEW cmd
    PROVE  /\ DOMAIN Put(n, cmd) = Registered \cup {n} /\ Put(n, cmd)[n] = cmd
           /\ \A k \in Registered \ {n} : Put(n, cmd)[k] = resize_containers_map[k]
BY DEF Put, Registered

-----------------------------------------------------------------------------
(* What is known of a copy stays known: nothing of the past is taken back *)

LEMMA AskedForStays ==
    ASSUME ClusterInv, Grows
    PROVE  \A cmd : \A n \in Cgs : AskedFor(n, cmd) => AskedFor(n, cmd)'
<1> SUFFICES ASSUME NEW n \in Cgs, NEW cmd, AskedFor(n, cmd)  PROVE AskedFor(n, cmd)'
    OBVIOUS
<1>1. ctrs'[n] = ctrs[n] /\ ctrs[n].pod \in Pods
    BY CtrType DEF Grows, ClusterInv
<1>2. hist[ctrs[n].pod] \subseteq hist'[ctrs'[n].pod]
    BY <1>1 DEF Grows
<1> QED  BY <1>1, <1>2 DEF AskedFor

LEMMA CopiesStay ==
    ASSUME Inv, Grows
    PROVE  /\ UNCHANGED job => JobOK'
           /\ UNCHANGED resize_containers_map => MapOK'
           /\ UNCHANGED event => EventOK'
           /\ UNCHANGED stream => StreamOK'
<1>1. ClusterInv
    BY DEF Inv
<1>2. /\ Cgs \subseteq Cgs' /\ \A n \in Cgs : ctrs'[n] = ctrs[n]
      /\ \A p, c, n : Of(p, c, n) => Of(p, c, n)'
      /\ \A cmd : \A n \in Cgs : AskedFor(n, cmd) => AskedFor(n, cmd)'
      /\ \A p \in Pods : hist[p] \subseteq hist'[p]
    BY <1>1, GrowsKeeps, AskedForStays DEF Grows
<1>3. ASSUME UNCHANGED job  PROVE JobOK'
    BY <1>2, <1>3 DEF Inv, JobOK
<1>4. ASSUME UNCHANGED resize_containers_map  PROVE MapOK'
    BY <1>2, <1>4 DEF Inv, MapOK, Registered
<1>5. ASSUME UNCHANGED event  PROVE EventOK'
    BY <1>2, <1>5 DEF Inv, EventOK
<1>6. ASSUME UNCHANGED stream  PROVE StreamOK'
    BY <1>2, <1>6, ObjType DEF Inv, StreamOK
<1> QED  BY <1>3, <1>4, <1>5, <1>6

LEMMA RingStays ==
    ASSUME Inv, Grows, UNCHANGED pod_exec_events, used \subseteq used',
           \A i \in Pids : task'[i] \in {0, task[i]} \/ (i \notin used /\ ~ ReusePids) \/ ReusePids
    PROVE  RingOK'
<1>1. ClusterInv
    BY DEF Inv
<1>2. /\ Cgs \subseteq Cgs'
      /\ \A cmd : \A n \in Cgs : AskedFor(n, cmd) => AskedFor(n, cmd)'
    BY <1>1, GrowsKeeps, AskedForStays
<1>3. SUFFICES ASSUME NEW k \in DOMAIN pod_exec_events
               PROVE  LET e == pod_exec_events[k] IN
                      /\ e.cgroup_id \in Cgs' /\ AskedFor(e.cgroup_id, e.cgroup_cmd)'
                      /\ ~ ReusePids => e.cgroup_pid \in used' /\ task'[e.cgroup_pid] \in {0, e.cgroup_id}
    BY DEF Inv, RingOK
<1> DEFINE e == pod_exec_events[k]
<1>4. /\ e.cgroup_id \in Cgs /\ AskedFor(e.cgroup_id, e.cgroup_cmd) /\ e.cgroup_pid \in Pids
      /\ ~ ReusePids => e.cgroup_pid \in used /\ task[e.cgroup_pid] \in {0, e.cgroup_id}
    BY EventType DEF Inv, RingOK
<1> QED  BY <1>2, <1>4

\* A step of the cluster that gives no resources.
LEMMA ResourcesUntouched ==
    ASSUME Inv, Grows, ResourcesKept
    PROVE  ResourcesFromOwnAnnotation'
<1> SUFFICES ASSUME NEW p \in Pods, Exists(p)', NEW c \in Ctrs
             PROVE  pods'[p].res[c] \in {DefaultRes} \cup {a.resize : a \in hist'[p]}
    BY DEF ResourcesFromOwnAnnotation
<1>1. CASE Exists(p)
    BY <1>1 DEF Inv, ResourcesFromOwnAnnotation, ResourcesKept, Grows
<1>2. CASE ~ Exists(p)
    BY <1>2 DEF ResourcesKept
<1> QED  BY <1>1, <1>2

-----------------------------------------------------------------------------
(* The stream *)

\* A pod whose object is as it was, and that is wanted now, was wanted before:
\* no container of it has come to run in between.
LEMMA WantedBefore ==
    ASSUME Inv, ClusterInv', NEW p \in Pods, NEW c \in Ctrs, pods'[p] = pods[p],
           alive' \cap Cgs \subseteq alive, Wanted(p, c)'
    PROVE  Wanted(p, c) /\ pods[p].cs[c] \in Cgs /\ pods[p].cs[c] # 0
<1>1. pods[p].cs[c] \in alive' /\ alive' \subseteq Cgs' /\ 0 \notin Cgs'
    BY DEF Wanted, ClusterInv, Cgs
<1>2. Of(p, c, pods[p].cs[c])
    BY DEF Inv, ClusterInv
<1>3. pods[p].cs[c] # 0 /\ pods[p].cs[c] \in Cgs
    BY <1>1, <1>2 DEF Of
<1>4. pods[p].cs[c] \in alive
    BY <1>1, <1>3
<1> QED  BY <1>3, <1>4 DEF Wanted, Exists

LEMMA StreamUntouched ==
    ASSUME Inv, ClusterInv', UNCHANGED <<stream, main, job, resize_containers_map>>,
           \A q \in Pods : Exists(q)' =>
               Exists(q) /\ pods'[q].ann = pods[q].ann /\ pods'[q].cs = pods[q].cs,
           alive' \cap Cgs \subseteq alive
    PROVE  LastIsCurrent' /\ Covered'
<1>1. LastIsCurrent'
    BY ObjType DEF Inv, StreamOK, LastIsCurrent, Object
<1>2. SUFFICES ASSUME main = "watching", NEW p \in Pods, NEW c \in Ctrs, Wanted(p, c)', ~ InStream(p)'
               PROVE  (IF job.cgroup_id = pods[p].cs[c]
                       THEN Last(job.cmds) = Last(pods[p].ann.commands)
                       ELSE RegisteredAs(p, c) \/ MapFull)'
    BY <1>1 DEF Covered
<1>3. pods'[p].ann = pods[p].ann /\ pods'[p].cs = pods[p].cs /\ Exists(p)
    BY <1>2 DEF Wanted
<1>4. pods[p].cs[c] \in alive' /\ alive' \subseteq Cgs' /\ 0 \notin Cgs'
    BY <1>2, <1>3 DEF Wanted, ClusterInv, Cgs
<1>5. pods[p].cs[c] \in alive
    <2>1. Of(p, c, pods[p].cs[c])
        BY DEF Inv, ClusterInv
    <2> QED  BY <1>4, <2>1 DEF Of
<1>6. Wanted(p, c) /\ ~ InStream(p)
    BY <1>2, <1>3, <1>5 DEF Wanted, InStream
<1> QED  BY <1>2, <1>3, <1>6 DEF Inv, Covered, RegisteredAs, MapFull, Registered

LEMMA EmitStep ==
    ASSUME Inv, ClusterInv', Grows, NEW p \in Pods, Emit(p),
           UNCHANGED <<main, job, resize_containers_map>>,
           \A q \in Pods \ {p} : pods'[q] = pods[q], alive' \cap Cgs \subseteq alive
    PROVE  StreamOK' /\ LastIsCurrent' /\ Covered'
<1>1. CASE main # "watching"
    <2>1. stream' = <<>>
        BY <1>1 DEF Emit, Inv, StagesOK
    <2> QED  BY <1>1, <2>1 DEF StreamOK, LastIsCurrent, Covered
<1>2. CASE main = "watching"
    <2> DEFINE o == [pod |-> p, ann |-> pods'[p].ann, cs |-> pods'[p].cs]
               n == Len(stream) + 1
    <2>1. stream' = Append(stream, o) /\ stream \in Seq(ObjT)
        BY <1>2 DEF Emit, Object, Inv, StreamOK
    <2>2. /\ o \in ObjT /\ o.pod = p /\ o.ann = pods'[p].ann /\ o.cs = pods'[p].cs
        BY PodType DEF ClusterInv, PodT, ObjT
    <2>3. o.ann \in hist'[p] \cup {NoAnn} /\ \A c \in Ctrs : Of(p, c, pods[p].cs[c])'
        BY <2>2 DEF ClusterInv
    <2>4. o = Object(p)'
        BY DEF Object
    <2> HIDE DEF o
    <2>5. /\ stream' \in Seq(ObjT) /\ Len(stream) \in Nat /\ DOMAIN stream = 1 .. Len(stream)
          /\ DOMAIN stream' = 1 .. n /\ stream'[n] = o /\ \A k \in DOMAIN stream : stream'[k] = stream[k]
        BY <2>1, <2>2
    <2>6. /\ DOMAIN stream' = DOMAIN stream \cup {n} /\ n \in DOMAIN stream'
          /\ \A k \in DOMAIN stream : n > k
        BY <2>5
    <2> HIDE DEF n
    <2>7. \A q, c, m : Of(q, c, m) => Of(q, c, m)'
        BY GrowsKeeps DEF Inv
    <2>8. StreamOK'
        <3>1. SUFFICES ASSUME NEW k \in DOMAIN stream'
                       PROVE  /\ stream'[k].ann \in hist'[stream'[k].pod] \cup {NoAnn}
                              /\ \A c \in Ctrs : Of(stream[k].pod, c, stream[k].cs[c])'
            BY <2>5 DEF StreamOK
        <3>2. CASE k = n
            <4>1. stream'[k].pod = p /\ stream'[k].ann = o.ann /\ stream'[k].cs = pods'[p].cs
                BY <2>2, <2>5, <3>2
            <4> QED  BY <2>3, <4>1
        <3>3. CASE k \in DOMAIN stream
            <4>1. stream'[k] = stream[k] /\ stream[k].pod \in Pods
                BY <2>1, <2>5, <3>3, ObjType
            <4> QED  BY <2>7, <3>3, <4>1 DEF Inv, StreamOK, Grows
        <3> QED  BY <2>6, <3>2, <3>3
    <2>9. LastIsCurrent'
        <3>1. SUFFICES ASSUME NEW k \in DOMAIN stream', Exists(stream[k].pod)',
                              \A l \in DOMAIN stream' : l > k => stream'[l].pod # stream'[k].pod
                       PROVE  stream'[k] = Object(stream[k].pod)'
            BY DEF LastIsCurrent
        <3>2. CASE k = n
            BY <2>2, <2>5, <3>2 DEF Object, o
        <3>3. CASE k \in DOMAIN stream
            <4>1. /\ stream'[k] = stream[k] /\ stream[k].pod \in Pods /\ stream[k].pod # p
                BY <2>1, <2>2, <2>5, <2>6, <3>1, <3>3, ObjType
            <4>2. pods'[stream[k].pod] = pods[stream[k].pod]
                BY <4>1
            <4>3. Exists(stream[k].pod) /\ \A l \in DOMAIN stream : l > k => stream[l].pod # stream[k].pod
                BY <2>5, <2>6, <3>1, <4>1, <4>2 DEF Exists
            <4>4. stream[k] = Object(stream[k].pod)
                BY <3>3, <4>3 DEF Inv, LastIsCurrent
            <4> QED  BY <4>1, <4>2, <4>4 DEF Object
        <3> QED  BY <2>6, <3>2, <3>3
    <2>10. Covered'
        <3>1. SUFFICES ASSUME NEW q \in Pods, NEW c \in Ctrs, Wanted(q, c)', ~ InStream(q)'
                       PROVE  (IF job.cgroup_id = pods[q].cs[c]
                               THEN Last(job.cmds) = Last(pods[q].ann.commands)
                               ELSE RegisteredAs(q, c) \/ MapFull)'
            BY DEF Covered
        <3>2. q # p /\ ~ InStream(q)
            BY <2>2, <2>5, <2>6, <3>1 DEF InStream
        <3>3. pods'[q] = pods[q]
            BY <3>2
        <3>4. Wanted(q, c)
            BY <3>1, <3>3, WantedBefore
        <3> QED  BY <1>2, <3>2, <3>3, <3>4 DEF Inv, Covered, RegisteredAs, MapFull, Registered
    <2> QED  BY <2>8, <2>9, <2>10
<1> QED  BY <1>1, <1>2

\* The first object is taken: what the stream still says, and what it said last.
LEMMA TailOfStream ==
    ASSUME Inv, stream # <<>>, stream' = Tail(stream), UNCHANGED cluster
    PROVE  /\ StreamOK' /\ LastIsCurrent'
           /\ LET o == Head(stream) IN
              /\ o \in ObjT /\ o.pod \in Pods /\ o.ann \in hist[o.pod] \cup {NoAnn}
              /\ o.cs \in [Ctrs -> Nat] /\ InStream(o.pod)
              /\ \A c \in Ctrs : Of(o.pod, c, o.cs[c])
              /\ \A p \in Pods : InStream(p) /\ ~ InStream(p)' /\ Exists(p) => o = Object(p)
<1>1. /\ stream \in Seq(ObjT) /\ Len(stream) \in Nat /\ Len(stream) # 0
      /\ DOMAIN stream = 1 .. Len(stream) /\ 1 \in DOMAIN stream /\ Head(stream) = stream[1]
    BY DEF Inv, StreamOK
<1>2. /\ stream' \in Seq(ObjT) /\ DOMAIN stream' = 1 .. (Len(stream) - 1)
      /\ \A k \in DOMAIN stream' : stream'[k] = stream[k + 1]
    BY <1>1
<1>3. \A k \in DOMAIN stream' : k + 1 \in DOMAIN stream /\ k \in Nat
    BY <1>1, <1>2
<1>4. \A k \in DOMAIN stream : k = 1 \/ (k - 1 \in DOMAIN stream' /\ stream'[k - 1] = stream[k])
    BY <1>1, <1>2
<1>5. \A p, c, n : Of(p, c, n)' <=> Of(p, c, n)
    BY DEF cluster, Of, Cgs
<1>6. StreamOK'
    <2>1. SUFFICES ASSUME NEW k \in DOMAIN stream'
                   PROVE  /\ stream'[k].ann \in hist[stream'[k].pod] \cup {NoAnn}
                          /\ \A c \in Ctrs : Of(stream[k].pod, c, stream[k].cs[c])'
        BY <1>2 DEF StreamOK, cluster
    <2>2. stream'[k] = stream[k + 1] /\ k + 1 \in DOMAIN stream
        BY <1>2, <1>3
    <2> QED  BY <1>5, <2>2 DEF Inv, StreamOK
<1>7. LastIsCurrent'
    <2>1. SUFFICES ASSUME NEW k \in DOMAIN stream', Exists(stream[k].pod)',
                          \A l \in DOMAIN stream' : l > k => stream'[l].pod # stream'[k].pod
                   PROVE  stream'[k] = Object(stream[k].pod)'
        BY DEF LastIsCurrent
    <2>2. stream'[k] = stream[k + 1] /\ k + 1 \in DOMAIN stream /\ k \in Nat
        BY <1>2, <1>3
    <2>3. Exists(stream[k + 1].pod)
        BY <2>1, <2>2 DEF Exists, cluster
    <2>4. ASSUME NEW l \in DOMAIN stream, l > k + 1  PROVE stream[l].pod # stream[k + 1].pod
        <3>1. l \in Nat /\ l # 1 /\ l - 1 > k
            BY <1>1, <2>2, <2>4
        <3>2. l - 1 \in DOMAIN stream' /\ stream'[l - 1] = stream[l]
            BY <1>4, <3>1
        <3> QED  BY <2>1, <2>2, <3>1, <3>2
    <2>5. stream[k + 1] = Object(stream[k + 1].pod)
        BY <2>2, <2>3, <2>4 DEF Inv, LastIsCurrent
    <2> QED  BY <2>2, <2>5 DEF Object, cluster
<1>8. ASSUME NEW p \in Pods, InStream(p), ~ InStream(p)', Exists(p)  PROVE stream[1] = Object(p)
    <2>1. ASSUME NEW l \in DOMAIN stream, l > 1  PROVE stream[l].pod # p
        <3>1. l # 1
            BY <1>1, <2>1
        <3>2. l - 1 \in DOMAIN stream' /\ stream'[l - 1] = stream[l]
            BY <1>4, <3>1
        <3> QED  BY <1>8, <3>2 DEF InStream
    <2>2. stream[1].pod = p
        BY <1>1, <1>8, <2>1 DEF InStream
    <2> QED  BY <1>1, <1>8, <2>1, <2>2 DEF Inv, LastIsCurrent
<1>9. /\ stream[1] \in ObjT /\ stream[1].pod \in Pods /\ stream[1].cs \in [Ctrs -> Nat]
      /\ stream[1].ann \in hist[stream[1].pod] \cup {NoAnn} /\ InStream(stream[1].pod)
      /\ \A c \in Ctrs : Of(stream[1].pod, c, stream[1].cs[c])
    BY <1>1, ObjType DEF Inv, StreamOK, InStream
<1> QED  BY <1>1, <1>6, <1>7, <1>8, <1>9

\* What a step of the agent that leaves the cluster alone need not look at.
LEMMA ClusterUntouched ==
    ASSUME Inv, UNCHANGED cluster
    PROVE  /\ ClusterInv' /\ Grows /\ ResourcesFromOwnAnnotation'
           /\ UNCHANGED job => JobOK'
           /\ UNCHANGED resize_containers_map => MapOK'
           /\ UNCHANGED event => EventOK'
           /\ UNCHANGED pod_exec_events => RingOK'
           /\ \A p \in Pods, c \in Ctrs : Wanted(p, c)' <=> Wanted(p, c)
<1>1. ClusterInv /\ UNCHANGED <<pods, ctrs, alive, task, used, edits, hist>>
    BY DEF Inv, cluster
<1>2. Cgs' = Cgs /\ \A p, c, n : Of(p, c, n)' <=> Of(p, c, n)
    BY <1>1 DEF Cgs, Of
<1>3. ClusterInv' /\ Grows
    BY <1>1, <1>2, NothingStartedGrows DEF ClusterInv
<1>4. ResourcesFromOwnAnnotation'
    BY <1>1 DEF Inv, ResourcesFromOwnAnnotation, Exists
<1>5. UNCHANGED pod_exec_events => RingOK'
    BY <1>1, <1>3, RingStays
<1>6. \A p \in Pods, c \in Ctrs : Wanted(p, c)' <=> Wanted(p, c)
    BY <1>1 DEF Wanted, Exists
<1> QED  BY <1>3, <1>4, <1>5, <1>6, CopiesStay

LEMMA WantedRuns ==
    ASSUME ClusterInv, NEW p \in Pods, NEW c \in Ctrs, Wanted(p, c)
    PROVE  LET n == pods[p].cs[c]
           IN  n \in Cgs /\ n # 0 /\ ctrs[n] = [pod |-> p, ctr |-> c]
<1>1. Of(p, c, pods[p].cs[c]) /\ alive \subseteq Cgs
    BY DEF ClusterInv
<1>2. pods[p].cs[c] \in alive /\ 0 \notin Cgs
    BY DEF Wanted, Cgs
<1> QED  BY <1>1, <1>2 DEF Of

-----------------------------------------------------------------------------
(* The process *)

LEMMA InitInv == Init => Inv
<1> SUFFICES ASSUME Init  PROVE Inv
    OBVIOUS
<1>1. /\ main = "down" /\ stream = <<>> /\ job = NoJob /\ perf = "none" /\ event = NoEvent
      /\ Unloaded /\ ClusterInit
    BY DEF Init
<1>3. ClusterInv /\ \A p \in Pods : ~ Exists(p)
    BY <1>1, ClusterInitInv
<1>4. ResourcesFromOwnAnnotation
    BY <1>3 DEF ResourcesFromOwnAnnotation
<1>5. StagesOK /\ StreamOK /\ JobOK /\ LastIsCurrent /\ Covered
    BY <1>1 DEF StagesOK, StreamOK, JobOK, LastIsCurrent, Covered, Unloaded
<1>6. MapOK
    <2>1. Registered = {}
        BY <1>1 DEF Unloaded, Registered
    <2> QED  BY <2>1, FS_EmptySet, ProbeAssumption DEF MapOK
<1>7. RingOK /\ EventOK
    BY <1>1, ProbeAssumption DEF RingOK, EventOK, Unloaded, NoEvent
<1> QED  BY <1>3, <1>4, <1>5, <1>6, <1>7 DEF Inv

LEMMA DownInv ==
    ASSUME Inv, Down, UNCHANGED cluster
    PROVE  Inv'
<1>1. ClusterInv' /\ ResourcesFromOwnAnnotation'
    BY ClusterUntouched
<1>2. /\ main' = "down" /\ stream' = <<>> /\ job' = NoJob /\ perf' = "none" /\ event' = NoEvent
      /\ Unloaded'
    BY DEF Down, Unload, Unloaded
<1>3. StagesOK' /\ StreamOK' /\ JobOK' /\ LastIsCurrent' /\ Covered'
    BY <1>2 DEF StagesOK, StreamOK, JobOK, LastIsCurrent, Covered, Unloaded, NoJob
<1>4. MapOK'
    <2>1. Registered' = {}
        BY <1>2 DEF Unloaded, Registered
    <2> QED  BY <2>1, FS_EmptySet, ProbeAssumption DEF MapOK
<1>5. RingOK' /\ EventOK'
    BY <1>2, ProbeAssumption DEF RingOK, EventOK, Unloaded, NoEvent
<1> QED  BY <1>1, <1>3, <1>4, <1>5 DEF Inv

LEMMA LoadInv ==
    ASSUME Inv, Load
    PROVE  Inv'
<1>1. /\ main = "down" /\ main' = "loaded" /\ perf' = "starting" /\ perf = "none"
      /\ stream' = <<>> /\ job' = NoJob /\ event' = event /\ opened' = opened
      /\ UNCHANGED <<resize_containers_map, pod_exec_events, job, event>> /\ UNCHANGED cluster
    BY DEF Load, Inv, StagesOK
<1>2. /\ ClusterInv' /\ ResourcesFromOwnAnnotation' /\ JobOK' /\ MapOK' /\ EventOK' /\ RingOK'
    BY <1>1, ClusterUntouched
<1>3. StreamOK' /\ LastIsCurrent' /\ Covered'
    BY <1>1 DEF StreamOK, LastIsCurrent, Covered
<1>4. StagesOK'
    BY <1>1 DEF Inv, StagesOK
<1> QED  BY <1>2, <1>3, <1>4 DEF Inv

\* The objects of the pods there are, each in one place of the list.
LEMMA ListOfPods ==
    ASSUME ClusterInv, NEW s \in SetToSeqs({Object(p) : p \in {q \in Pods : Exists(q)}})
    PROVE  /\ s \in Seq(ObjT)
           /\ \A k \in DOMAIN s : \E p \in Pods : Exists(p) /\ s[k] = Object(p)
           /\ \A p \in Pods : Exists(p) => \E k \in DOMAIN s : s[k] = Object(p)
<1> DEFINE L == {q \in Pods : Exists(q)}
           S == {Object(p) : p \in L}
           f == [p \in L |-> Object(p)]
<1>1. f \in [L -> S] /\ \A x \in S : \E p \in L : f[p] = x
    OBVIOUS
<1>2. PICK T, M, g : T = S /\ M = L /\ g = f
    OBVIOUS
<1>3. M \in SUBSET Pods /\ g \in [M -> T] /\ \A x \in T : \E p \in M : g[p] = x
    <2>1. L \in SUBSET Pods
        OBVIOUS
    <2> HIDE DEF L, S, f
    <2> QED  BY <1>1, <1>2, <2>1
<1>4. IsFiniteSet(T)
    BY <1>3, FiniteImage
<1>5. s \in Seq(T) /\ (\A k \in DOMAIN s : s[k] \in T) /\ \A x \in T : \E k \in DOMAIN s : s[k] = x
    <2>1. s \in SetToSeqs(T)
        BY <1>2
    <2> QED  BY <1>4, <2>1, ListOfSet
<1>6. S \subseteq ObjT
    <2>1. ASSUME NEW p \in Pods  PROVE Object(p) \in ObjT
        BY PodType DEF ClusterInv, Object, ObjT
    <2> QED  BY <2>1
<1>7. s \in Seq(ObjT)
    <2> HIDE DEF S
    <2> QED  BY <1>2, <1>5, <1>6
<1> QED  BY <1>2, <1>5, <1>7

LEMMA ListPodsInv ==
    ASSUME Inv, ListPods
    PROVE  Inv'
<1>1. /\ main = "loaded" /\ main' = "watching" /\ job = NoJob
      /\ stream' \in SetToSeqs({Object(p) : p \in {q \in Pods : Exists(q)}})
      /\ UNCHANGED <<cluster, attached, resize_containers_map, opened, pod_exec_events, job, perf, event>>
    BY DEF ListPods, Inv, StagesOK, probe
<1>2. /\ ClusterInv' /\ ResourcesFromOwnAnnotation' /\ JobOK' /\ MapOK' /\ EventOK' /\ RingOK'
    BY <1>1, ClusterUntouched
<1>3. /\ stream' \in Seq(ObjT)
      /\ \A k \in DOMAIN stream' : \E p \in Pods : Exists(p) /\ stream'[k] = Object(p)
      /\ \A p \in Pods : Exists(p) => \E k \in DOMAIN stream' : stream'[k] = Object(p)
    BY <1>1, ListOfPods DEF Inv
<1>4. pods' = pods /\ hist' = hist /\ ctrs' = ctrs
    BY <1>1 DEF cluster
<1>5. StreamOK' /\ LastIsCurrent'
    <2>1. SUFFICES ASSUME NEW k \in DOMAIN stream'
                   PROVE  /\ stream'[k].ann \in hist'[stream'[k].pod] \cup {NoAnn}
                          /\ \A c \in Ctrs : Of(stream[k].pod, c, stream[k].cs[c])'
                          /\ stream'[k] = Object(stream[k].pod)'
        BY <1>3 DEF StreamOK, LastIsCurrent
    <2>2. PICK p \in Pods : Exists(p) /\ stream'[k] = Object(p)
        BY <1>3
    <2>3. /\ stream'[k] = [pod |-> p, ann |-> pods[p].ann, cs |-> pods[p].cs]
          /\ stream'[k].pod = p /\ stream'[k].ann = pods'[p].ann /\ stream'[k].cs = pods'[p].cs
        BY <1>4, <2>2 DEF Object
    <2>4. stream'[k] = Object(stream[k].pod)'
        BY <1>4, <2>3 DEF Object
    <2>5. \A c \in Ctrs : Of(p, c, pods[p].cs[c])'
        BY <1>2 DEF ClusterInv
    <2>6. \A c \in Ctrs : Of(stream[k].pod, c, stream[k].cs[c])'
        BY <2>3, <2>5
    <2> QED  BY <1>2, <2>3, <2>4, <2>6 DEF ClusterInv
<1>6. Covered'
    <2>1. ASSUME NEW p \in Pods, Exists(p)  PROVE InStream(p)'
        <3>1. PICK k \in DOMAIN stream' : stream'[k] = Object(p)
            BY <1>3, <2>1
        <3>2. stream'[k].pod = p
            BY <3>1 DEF Object
        <3> QED  BY <3>2 DEF InStream
    <2> QED  BY <1>4, <2>1 DEF Covered, Wanted, Exists
<1>7. StagesOK'
    BY <1>1 DEF Inv, StagesOK
<1> QED  BY <1>2, <1>5, <1>6, <1>7 DEF Inv

-----------------------------------------------------------------------------
(* handle_k8s_pod *)

LEMMA SkipPodInv ==
    ASSUME Inv, SkipPod
    PROVE  Inv'
<1> DEFINE o == Head(stream)
<1>1. /\ main = "watching" /\ job = NoJob /\ stream # <<>> /\ stream' = Tail(stream)
      /\ Annotated(o) => o.ann.cname # Missing /\ ~ Candidate(o)
      /\ UNCHANGED <<cluster, attached, resize_containers_map, opened, pod_exec_events,
                     main, job, perf, event>>
    BY DEF SkipPod, Idle, probe
<1>2. /\ ClusterInv' /\ ResourcesFromOwnAnnotation' /\ JobOK' /\ MapOK' /\ EventOK' /\ RingOK'
      /\ \A p \in Pods, c \in Ctrs : Wanted(p, c)' <=> Wanted(p, c)
    BY <1>1, ClusterUntouched
<1>3. /\ StreamOK' /\ LastIsCurrent'
      /\ \A p \in Pods : InStream(p) /\ ~ InStream(p)' /\ Exists(p) => o = Object(p)
    BY <1>1, TailOfStream
<1>4. Covered'
    <2>1. SUFFICES ASSUME NEW p \in Pods, NEW c \in Ctrs, Wanted(p, c), ~ InStream(p)'
                   PROVE  (IF job.cgroup_id = pods[p].cs[c]
                           THEN Last(job.cmds) = Last(pods[p].ann.commands)
                           ELSE RegisteredAs(p, c) \/ MapFull)'
        BY <1>2 DEF Covered
    <2>2. ~ InStream(p)
        <3> SUFFICES ASSUME InStream(p)  PROVE FALSE
            OBVIOUS
        <3>1. o = [pod |-> p, ann |-> pods[p].ann, cs |-> pods[p].cs]
            BY <1>3, <2>1 DEF Wanted, Object
        <3>2. o.pod = p /\ o.ann = pods[p].ann /\ o.cs = pods[p].cs
            BY <3>1
        <3>3. pods[p].cs[c] # 0
            BY <2>1, WantedRuns DEF Inv
        <3> HIDE DEF o
        <3> QED  BY <1>1, <2>1, <3>2, <3>3 DEF Wanted, Annotated, Candidate
    <2> QED  BY <1>1, <2>1, <2>2 DEF Inv, Covered, RegisteredAs, MapFull, Registered, cluster
<1>5. StagesOK'
    BY <1>1 DEF Inv, StagesOK
<1> QED  BY <1>2, <1>3, <1>4, <1>5 DEF Inv

LEMMA HandlePodInv ==
    ASSUME Inv, HandlePod
    PROVE  Inv'
<1> DEFINE o == Head(stream)
           n == o.cs[o.ann.cname]
<1>1. /\ main = "watching" /\ job = NoJob /\ stream # <<>> /\ stream' = Tail(stream)
      /\ Candidate(o) /\ job' = Entries(o)
      /\ UNCHANGED <<cluster, attached, resize_containers_map, opened, pod_exec_events,
                     main, perf, event>>
    BY DEF HandlePod, Idle, probe
<1>2. /\ ClusterInv' /\ ResourcesFromOwnAnnotation' /\ MapOK' /\ EventOK' /\ RingOK'
      /\ \A p \in Pods, c \in Ctrs : Wanted(p, c)' <=> Wanted(p, c)
    BY <1>1, ClusterUntouched
<1>3. /\ StreamOK' /\ LastIsCurrent'
      /\ \A p \in Pods : InStream(p) /\ ~ InStream(p)' /\ Exists(p) => o = Object(p)
      /\ o \in ObjT /\ o.pod \in Pods /\ o.ann \in hist[o.pod] \cup {NoAnn}
      /\ o.cs \in [Ctrs -> Nat] /\ InStream(o.pod)
      /\ \A c \in Ctrs : Of(o.pod, c, o.cs[c])
    BY <1>1, TailOfStream
<1> HIDE DEF o
<1>4. o.ann \in Anns /\ o.ann \in hist[o.pod] /\ o.pod \in Local /\ o.ann.cname # Missing /\ n # 0
    BY <1>1, <1>3, ObjType DEF Candidate, Annotated, Inv, ClusterInv
<1>5. o.ann.cname \in Ctrs /\ o.ann.commands \in Seq(Commands)
    BY <1>4, AnnType
<1>6. n \in Nat /\ n \in Cgs /\ ctrs[n] = [pod |-> o.pod, ctr |-> o.ann.cname]
    BY <1>3, <1>4, <1>5 DEF Of
<1>7. ctrs[n].pod = o.pod /\ ctrs[n].ctr = o.ann.cname
    BY <1>6
<1> HIDE DEF n
<1>8. \/ o.ann.commands = <<>> /\ job' = NoJob
      \/ /\ o.ann.commands # <<>> /\ job' = [cgroup_id |-> n, cmds |-> o.ann.commands]
         /\ job'.cgroup_id = n /\ job'.cmds = o.ann.commands
    BY <1>1 DEF Entries, n
<1>9. JobOK'
    <2>1. CASE job' = NoJob
        BY <2>1 DEF JobOK
    <2>2. CASE o.ann.commands # <<>> /\ job' = [cgroup_id |-> n, cmds |-> o.ann.commands]
        <3>1. job' \in JobT /\ job'.cgroup_id = n /\ job'.cmds = o.ann.commands
            BY <1>5, <1>6, <2>2 DEF JobT
        <3>2. \A cmd \in ToSet(o.ann.commands) : AskedFor(n, cmd)
            BY <1>4, <1>7 DEF AskedFor
        <3>4. ctrs' = ctrs /\ hist' = hist /\ Cgs' = Cgs
            BY <1>1 DEF cluster, Cgs
        <3>6. (\A cmd \in ToSet(job.cmds) : AskedFor(job.cgroup_id, cmd))'
            BY <3>1, <3>2, <3>4 DEF AskedFor
        <3>7. (job.cgroup_id \in Cgs /\ ctrs[job.cgroup_id].pod \in Local /\ job.cmds # <<>>)'
            BY <1>4, <1>6, <1>7, <2>2, <3>1, <3>4
        <3> QED  BY <3>1, <3>6, <3>7 DEF JobOK
    <2> QED  BY <1>8, <2>1, <2>2
<1>10. Covered'
    <2>1. SUFFICES ASSUME NEW p \in Pods, NEW c \in Ctrs, Wanted(p, c), ~ InStream(p)'
                   PROVE  (IF job.cgroup_id = pods[p].cs[c]
                           THEN Last(job.cmds) = Last(pods[p].ann.commands)
                           ELSE RegisteredAs(p, c) \/ MapFull)'
        BY <1>2 DEF Covered
    <2>2. /\ pods[p].cs[c] \in Cgs /\ pods[p].cs[c] # 0
          /\ ctrs[pods[p].cs[c]] = [pod |-> p, ctr |-> c] /\ pods' = pods
          /\ ctrs[pods[p].cs[c]].pod = p
        BY <1>1, <2>1, WantedRuns DEF Inv, cluster
    <2>3. CASE InStream(p)
        <3>1. o = [pod |-> p, ann |-> pods[p].ann, cs |-> pods[p].cs]
            BY <1>3, <2>1, <2>3 DEF Wanted, Object
        <3>2. o.ann = pods[p].ann /\ o.cs = pods[p].cs
            BY <3>1
        <3>3. n = pods[p].cs[c] /\ o.ann.commands # <<>>
            BY <2>1, <3>2 DEF Wanted, n
        <3> QED  BY <1>8, <2>2, <3>2, <3>3
    <2>4. CASE ~ InStream(p)
        <3>1. p # o.pod
            BY <1>3, <2>4
        <3>2. n # pods[p].cs[c]
            BY <1>7, <2>2, <3>1
        <3>3. job'.cgroup_id # pods'[p].cs[c] /\ job.cgroup_id # pods[p].cs[c]
            BY <1>1, <1>8, <2>2, <3>2 DEF NoJob
        <3>4. RegisteredAs(p, c) \/ MapFull
            BY <1>1, <2>1, <2>4, <3>3 DEF Inv, Covered
        <3> QED  BY <1>1, <2>2, <3>3, <3>4 DEF RegisteredAs, MapFull, Registered
    <2> QED  BY <2>3, <2>4
<1>11. StagesOK'
    BY <1>1 DEF Inv, StagesOK
<1> QED  BY <1>2, <1>3, <1>9, <1>10, <1>11 DEF Inv

\* What an update leaves in the map.
LEMMA UpdateStep ==
    ASSUME MapOK, NEW n, NEW cmd, Update(n, cmd)
    PROVE  /\ IsFiniteSet(Registered)' /\ Cardinality(Registered') <= MAX_NUM_CONTAINERS
           /\ Registered \subseteq Registered' /\ Registered' \subseteq Registered \cup {n}
           /\ MapFull => MapFull'
           /\ MapFull' \/ (n \in Registered' /\ resize_containers_map'[n] = cmd)
           /\ n \in Registered' => resize_containers_map'[n] = cmd
           /\ \A k \in Registered \ {n} : resize_containers_map'[k] = resize_containers_map[k]
<1>1. /\ IsFiniteSet(Registered) /\ Cardinality(Registered) <= MAX_NUM_CONTAINERS
      /\ Cardinality(Registered) \in Nat /\ MAX_NUM_CONTAINERS \in Nat
    BY FS_CardinalityType, ProbeAssumption DEF MapOK
<1>2. CASE n \in Registered \/ ~ MapFull
    <2>1. resize_containers_map' = Put(n, cmd)
        BY <1>2 DEF Update
    <2>2. /\ Registered' = Registered \cup {n} /\ resize_containers_map'[n] = cmd
          /\ \A k \in Registered \ {n} : resize_containers_map'[k] = resize_containers_map[k]
        <3>1. /\ DOMAIN Put(n, cmd) = Registered \cup {n} /\ Put(n, cmd)[n] = cmd
              /\ \A k \in Registered \ {n} : Put(n, cmd)[k] = resize_containers_map[k]
            BY PutEntry
        <3>2. Registered' = DOMAIN resize_containers_map'
            BY DEF Registered
        <3> QED  BY <2>1, <3>1, <3>2
    <2>3. CASE n \in Registered
        <3>1. Registered' = Registered
            BY <2>2, <2>3
        <3> QED  BY <1>1, <2>2, <2>3, <3>1 DEF MapFull
    <2>4. CASE n \notin Registered
        <3>1. IsFiniteSet(Registered \cup {n})
              /\ Cardinality(Registered \cup {n}) = Cardinality(Registered) + 1
            BY <1>1, <2>4, FS_AddElement
        <3>2. Cardinality(Registered) < MAX_NUM_CONTAINERS
            BY <1>1, <1>2, <2>4 DEF MapFull
        <3>3. Cardinality(Registered') <= MAX_NUM_CONTAINERS /\ IsFiniteSet(Registered')
            BY <1>1, <2>2, <3>1, <3>2
        <3> QED  BY <1>2, <2>2, <2>4, <3>3
    <2> QED  BY <2>3, <2>4
<1>3. CASE ~ (n \in Registered \/ ~ MapFull)
    <2>1. resize_containers_map' = resize_containers_map /\ Registered' = Registered
        BY <1>3 DEF Update, Registered
    <2> QED  BY <1>1, <1>3, <2>1 DEF MapFull
<1> QED  BY <1>2, <1>3

\* The rest of a job: shorter, of the same container, and it ends in the same command.
LEMMA RestOfJob ==
    ASSUME job \in JobT, job.cmds # <<>>,
           job' = IF Len(job.cmds) = 1 THEN NoJob ELSE [job EXCEPT !.cmds = Tail(@)]
    PROVE  /\ Head(job.cmds) \in ToSet(job.cmds)
           /\ \/ job' = NoJob /\ Head(job.cmds) = Last(job.cmds)
              \/ /\ job' \in JobT /\ job'.cmds # <<>> /\ job'.cgroup_id = job.cgroup_id
                 /\ Last(job'.cmds) = Last(job.cmds) /\ ToSet(job'.cmds) \subseteq ToSet(job.cmds)
<1> DEFINE s == job.cmds
           t == Tail(s)
<1>1. s \in Seq(Commands) /\ job.cgroup_id \in Nat
    BY DEF JobT
<1>2. Len(s) \in Nat /\ Len(s) # 0 /\ DOMAIN s = 1 .. Len(s) /\ 1 \in DOMAIN s /\ Head(s) = s[1]
    BY <1>1
<1>3. Head(s) \in ToSet(s)
    BY <1>2 DEF ToSet
<1>4. CASE Len(s) = 1
    BY <1>2, <1>3, <1>4 DEF Last
<1>5. CASE Len(s) # 1
    <2>1. job' = [job EXCEPT !.cmds = t]
        BY <1>5
    <2>2. /\ t \in Seq(Commands) /\ Len(t) = Len(s) - 1 /\ DOMAIN t = 1 .. Len(t)
          /\ \A k \in DOMAIN t : t[k] = s[k + 1] /\ k + 1 \in DOMAIN s
        BY <1>1, <1>2
    <2>3. Len(t) \in DOMAIN t /\ t[Len(t)] = s[Len(s)] /\ t # <<>>
        <3> HIDE DEF s, t
        <3>1. Len(t) \in Nat /\ Len(t) >= 1 /\ Len(t) + 1 = Len(s)
            BY <1>2, <1>5, <2>2
        <3>2. Len(t) \in DOMAIN t
            BY <2>2, <3>1
        <3>3. t[Len(t)] = s[Len(s)]
            BY <2>2, <3>1, <3>2
        <3> QED  BY <3>1, <3>2, <3>3
    <2>4. ToSet(t) \subseteq ToSet(s)
        BY <2>2 DEF ToSet
    <2> HIDE DEF t
    <2>5. job' \in JobT /\ job'.cmds = t /\ job'.cgroup_id = job.cgroup_id
        BY <1>1, <2>1, <2>2 DEF JobT
    <2> QED  BY <1>3, <2>3, <2>4, <2>5 DEF Last
<1> QED  BY <1>4, <1>5

LEMMA CreateEntryInv ==
    ASSUME Inv, create_resize_bpf_map_entry
    PROVE  Inv'
<1>1. PICK n, cmd : n = job.cgroup_id /\ cmd = Head(job.cmds)
    OBVIOUS
<1>2. /\ job # NoJob /\ Update(n, cmd)
      /\ job' = IF Len(job.cmds) = 1 THEN NoJob ELSE [job EXCEPT !.cmds = Tail(@)]
      /\ UNCHANGED <<cluster, attached, opened, pod_exec_events, main, stream, perf, event>>
    BY <1>1 DEF create_resize_bpf_map_entry
<1>3. /\ job \in JobT /\ job.cmds # <<>> /\ n \in Cgs /\ n # 0 /\ ctrs[n].pod \in Local
      /\ \A d \in ToSet(job.cmds) : AskedFor(n, d)
    BY <1>1, <1>2 DEF Inv, JobOK, Cgs
<1>4. /\ cmd \in ToSet(job.cmds)
      /\ \/ job' = NoJob /\ cmd = Last(job.cmds)
         \/ /\ job' \in JobT /\ job'.cmds # <<>> /\ job'.cgroup_id = n
            /\ Last(job'.cmds) = Last(job.cmds) /\ ToSet(job'.cmds) \subseteq ToSet(job.cmds)
    BY <1>1, <1>2, <1>3, RestOfJob
<1>5. /\ IsFiniteSet(Registered)' /\ Cardinality(Registered') <= MAX_NUM_CONTAINERS
      /\ Registered \subseteq Registered' /\ Registered' \subseteq Registered \cup {n}
      /\ MapFull => MapFull'
      /\ MapFull' \/ (n \in Registered' /\ resize_containers_map'[n] = cmd)
      /\ n \in Registered' => resize_containers_map'[n] = cmd
      /\ \A k \in Registered \ {n} : resize_containers_map'[k] = resize_containers_map[k]
    BY <1>2, UpdateStep DEF Inv
<1>6. /\ ClusterInv' /\ Grows /\ ResourcesFromOwnAnnotation' /\ EventOK' /\ RingOK' /\ StreamOK'
      /\ \A p \in Pods, c \in Ctrs : Wanted(p, c)' <=> Wanted(p, c)
    BY <1>2, ClusterUntouched, CopiesStay
<1>7. UNCHANGED <<pods, ctrs, hist>> /\ Cgs' = Cgs
    BY <1>2 DEF cluster, Cgs
<1>8. main = "watching" /\ StagesOK'
    BY <1>2 DEF Inv, StagesOK
<1>9. JobOK'
    <2>1. CASE job' = NoJob
        BY <2>1 DEF JobOK
    <2>2. CASE job' \in JobT /\ job'.cmds # <<>> /\ job'.cgroup_id = n
               /\ ToSet(job'.cmds) \subseteq ToSet(job.cmds)
        <3>1. (\A d \in ToSet(job.cmds) : AskedFor(job.cgroup_id, d))'
            BY <1>3, <1>7, <2>2 DEF AskedFor
        <3> QED  BY <1>3, <1>7, <2>2, <3>1 DEF JobOK
    <2> QED  BY <1>4, <2>1, <2>2
<1>10. MapOK'
    <2>1. SUFFICES ASSUME NEW k \in Registered'
                   PROVE  k \in Cgs /\ ctrs[k].pod \in Local /\ AskedFor(k, resize_containers_map'[k])
        BY <1>5, <1>7 DEF MapOK, AskedFor
    <2>2. CASE k = n
        BY <1>3, <1>4, <1>5, <2>2
    <2>3. CASE k # n
        BY <1>5, <2>3 DEF Inv, MapOK
    <2> QED  BY <2>2, <2>3
<1>11. LastIsCurrent'
    BY <1>2, <1>7 DEF Inv, LastIsCurrent, Object, Exists
<1>12. Covered'
    <2>1. SUFFICES ASSUME NEW p \in Pods, NEW c \in Ctrs, Wanted(p, c), ~ InStream(p)
                   PROVE  (IF job.cgroup_id = pods[p].cs[c]
                           THEN Last(job.cmds) = Last(pods[p].ann.commands)
                           ELSE RegisteredAs(p, c) \/ MapFull)'
        BY <1>2, <1>6 DEF Covered, InStream
    <2>2. pods[p].cs[c] # 0
        BY <2>1, WantedRuns DEF Inv
    <2>3. CASE n = pods[p].cs[c]
        <3>1. Last(job.cmds) = Last(pods[p].ann.commands)
            BY <1>1, <1>8, <2>1, <2>3 DEF Inv, Covered
        <3>2. CASE job' = NoJob /\ cmd = Last(job.cmds)
            <4>1. job'.cgroup_id # pods'[p].cs[c]
                BY <1>7, <2>2, <3>2 DEF NoJob
            <4>2. RegisteredAs(p, c)' \/ MapFull'
                BY <1>5, <1>7, <2>3, <3>1, <3>2 DEF RegisteredAs
            <4> QED  BY <4>1, <4>2
        <3>3. CASE job'.cgroup_id = n /\ Last(job'.cmds) = Last(job.cmds)
            BY <1>7, <2>3, <3>1, <3>3
        <3> QED  BY <1>4, <3>2, <3>3
    <2>4. CASE n # pods[p].cs[c]
        <3>1. RegisteredAs(p, c) \/ MapFull
            BY <1>1, <1>8, <2>1, <2>4 DEF Inv, Covered
        <3>2. job'.cgroup_id # pods'[p].cs[c]
            BY <1>4, <1>7, <2>2, <2>4 DEF NoJob
        <3>3. RegisteredAs(p, c) => RegisteredAs(p, c)'
            BY <1>5, <1>7, <2>4 DEF RegisteredAs
        <3> QED  BY <1>5, <3>1, <3>2, <3>3
    <2> QED  BY <2>3, <2>4
<1> QED  BY <1>6, <1>8, <1>9, <1>10, <1>11, <1>12 DEF Inv

LEMMA MainThreadInv ==
    ASSUME Inv, MainThread
    PROVE  Inv'
<1>1. CASE WatchErr \/ CnamePanics \/ CommandPanics
    BY <1>1, DownInv DEF WatchErr, CnamePanics, CommandPanics
<1> QED  BY <1>1, LoadInv, ListPodsInv, SkipPodInv, HandlePodInv, CreateEntryInv DEF MainThread

-----------------------------------------------------------------------------
(* The perf thread *)

\* What a step of the perf thread that leaves the cluster alone need not look at.
LEMMA MainUntouched ==
    ASSUME Inv, UNCHANGED <<cluster, resize_containers_map, main, stream, job>>
    PROVE  /\ ClusterInv' /\ ResourcesFromOwnAnnotation' /\ StreamOK' /\ JobOK' /\ MapOK'
           /\ LastIsCurrent' /\ Covered'
           /\ UNCHANGED event => EventOK'
           /\ UNCHANGED pod_exec_events => RingOK'
<1>1. UNCHANGED cluster /\ pods' = pods /\ alive' = alive
    BY DEF cluster
<1>2. /\ ClusterInv' /\ Grows /\ ResourcesFromOwnAnnotation' /\ JobOK' /\ MapOK'
      /\ UNCHANGED event => EventOK'
      /\ UNCHANGED pod_exec_events => RingOK'
    BY ClusterUntouched
<1>3. StreamOK'
    BY <1>2, CopiesStay
<1>4. LastIsCurrent' /\ Covered'
    BY <1>1, <1>2, StreamUntouched DEF Exists
<1> QED  BY <1>2, <1>3, <1>4

LEMMA PerfBuildInv ==
    ASSUME Inv, PerfBuild
    PROVE  Inv'
<1>1. /\ perf = "starting" /\ perf' = "polling" /\ opened' = TRUE
      /\ UNCHANGED <<cluster, attached, resize_containers_map, pod_exec_events, main, stream, job, event>>
    BY DEF PerfBuild
<1>2. StagesOK'
    BY <1>1 DEF Inv, StagesOK
<1> QED  BY <1>1, <1>2, MainUntouched DEF Inv

LEMMA PerfDiesInv ==
    ASSUME Inv, PerfDies
    PROVE  Inv'
<1>1. /\ perf \in {"starting", "polling"} /\ perf' = "dead" /\ opened' = FALSE
      /\ pod_exec_events' = <<>>
      /\ UNCHANGED <<cluster, attached, resize_containers_map, main, stream, job, event>>
    BY DEF PerfDies
<1>2. StagesOK'
    BY <1>1 DEF Inv, StagesOK
<1>3. RingOK'
    BY <1>1, ProbeAssumption DEF RingOK
<1> QED  BY <1>1, <1>2, <1>3, MainUntouched DEF Inv

\* An event is taken from the ring: what it says, and what the others say.
LEMMA TailOfRing ==
    ASSUME Inv, Received, pod_exec_events' = Tail(pod_exec_events), UNCHANGED cluster
    PROVE  /\ RingOK' /\ main # "down"
           /\ LET e == Head(pod_exec_events) IN
              /\ e.cgroup_id \in Cgs /\ AskedFor(e.cgroup_id, e.cgroup_cmd) /\ e.cgroup_pid \in Pids
              /\ ~ ReusePids => task[e.cgroup_pid] \in {0, e.cgroup_id}
<1> DEFINE r == pod_exec_events
<1>1. /\ r \in Seq(EventT) /\ r # <<>> /\ Len(r) \in Nat /\ Len(r) # 0 /\ Len(r) <= PerfCap
      /\ DOMAIN r = 1 .. Len(r) /\ 1 \in DOMAIN r /\ Head(r) = r[1]
    BY DEF Inv, RingOK, Received
<1>2. /\ r' \in Seq(EventT) /\ Len(r') = Len(r) - 1 /\ DOMAIN r' = 1 .. Len(r')
      /\ \A k \in DOMAIN r' : r'[k] = r[k + 1]
    BY <1>1
<1>3. /\ \A k \in DOMAIN r' : k + 1 \in DOMAIN r
      /\ Len(r') <= PerfCap
    BY <1>1, <1>2, ProbeAssumption
<1>4. UNCHANGED <<ctrs, task, used, hist>> /\ Cgs' = Cgs
    BY DEF cluster, Cgs
<1>5. RingOK'
    <2>1. SUFFICES ASSUME NEW k \in DOMAIN r'
                   PROVE  LET e == r'[k] IN
                          /\ e.cgroup_id \in Cgs /\ AskedFor(e.cgroup_id, e.cgroup_cmd)
                          /\ ~ ReusePids => e.cgroup_pid \in used /\ task[e.cgroup_pid] \in {0, e.cgroup_id}
        BY <1>2, <1>3, <1>4 DEF RingOK, AskedFor
    <2> QED  BY <1>2, <1>3 DEF Inv, RingOK
<1>6. main # "down"
    BY DEF Received, Inv, StagesOK
<1>7. /\ r[1].cgroup_id \in Cgs /\ AskedFor(r[1].cgroup_id, r[1].cgroup_cmd)
      /\ ~ ReusePids => task[r[1].cgroup_pid] \in {0, r[1].cgroup_id}
      /\ r[1].cgroup_pid \in Pids
    BY <1>1, EventType DEF Inv, RingOK
<1> QED  BY <1>1, <1>5, <1>6, <1>7

LEMMA ResolveInv ==
    ASSUME Inv, (\E p \in Pods : ResolveTo(p)) \/ ResolveNothing
    PROVE  Inv'
<1>1. /\ Received /\ pod_exec_events' = Tail(pod_exec_events)
      /\ UNCHANGED <<cluster, attached, resize_containers_map, opened, main, stream, job, perf>>
    BY DEF ResolveTo, ResolveNothing, agent
<1>2. PICK e : e = Head(pod_exec_events)
    OBVIOUS
<1>3. /\ RingOK' /\ main # "down" /\ e.cgroup_id \in Cgs /\ AskedFor(e.cgroup_id, e.cgroup_cmd)
      /\ e.cgroup_pid \in Pids /\ (~ ReusePids => task[e.cgroup_pid] \in {0, e.cgroup_id})
    BY <1>1, <1>2, TailOfRing
<1>4. StagesOK'
    BY <1>1, <1>3 DEF Inv, StagesOK
<1>5. EventOK'
    <2>1. CASE ResolveNothing
        <3>1. UNCHANGED event
            BY <2>1 DEF ResolveNothing, agent
        <3> QED  BY <1>1, <3>1, MainUntouched
    <2>2. ASSUME NEW p \in Pods, ResolveTo(p)  PROVE EventOK'
        <3>1. /\ task[e.cgroup_pid] # 0 /\ ctrs[task[e.cgroup_pid]].pod = p
              /\ event' = [stage |-> "get", pod |-> p, ctr |-> ctrs[e.cgroup_id].ctr,
                           cgroup_id |-> e.cgroup_id, cmd |-> e.cgroup_cmd]
            BY <1>2, <2>2 DEF ResolveTo
        <3>2. /\ event'.stage = "get" /\ event'.pod = p /\ event'.ctr = ctrs[e.cgroup_id].ctr
              /\ event'.cgroup_id = e.cgroup_id /\ event'.cmd = e.cgroup_cmd
            BY <3>1
        <3>3. ~ ReusePids => ctrs[e.cgroup_id].pod = p
            BY <1>3, <3>1
        <3>4. ctrs' = ctrs /\ hist' = hist /\ Cgs' = Cgs
            BY <1>1 DEF cluster, Cgs
        <3> QED  BY <1>3, <3>2, <3>3, <3>4 DEF EventOK, AskedFor
    <2> QED  BY <2>1, <2>2
<1> QED  BY <1>1, <1>3, <1>4, <1>5, MainUntouched DEF Inv

LEMMA GetPodInv ==
    ASSUME Inv, NEW p \in Pods, GetPod(p)
    PROVE  Inv'
<1>1. /\ event.stage = "get" /\ event.pod = p /\ pods[p].ann # NoAnn
      /\ event' = [stage |-> "patch", pod |-> p, ctr |-> event.ctr, cgroup_id |-> event.cgroup_id,
                   cmd |-> event.cmd, ann |-> pods[p].ann]
      /\ UNCHANGED <<cluster, attached, resize_containers_map, opened, pod_exec_events,
                     main, stream, job, perf>>
    BY DEF GetPod, Getting, probe
<1>2. /\ event'.stage = "patch" /\ event'.pod = p /\ event'.ctr = event.ctr
      /\ event'.cgroup_id = event.cgroup_id /\ event'.cmd = event.cmd /\ event'.ann = pods[p].ann
    BY <1>1
<1>3. pods[p].ann \in hist[p]
    BY <1>1 DEF Inv, ClusterInv
<1>4. ctrs' = ctrs /\ hist' = hist /\ Cgs' = Cgs
    BY <1>1 DEF cluster, Cgs
<1>5. /\ event.cgroup_id \in Cgs /\ event.ctr = ctrs[event.cgroup_id].ctr
      /\ AskedFor(event.cgroup_id, event.cmd) /\ (~ ReusePids => ctrs[event.cgroup_id].pod = p)
    BY <1>1 DEF Inv, EventOK
<1>6. EventOK'
    BY <1>2, <1>3, <1>4, <1>5 DEF EventOK, AskedFor
<1>7. StagesOK'
    BY <1>1 DEF Inv, StagesOK, NoEvent
<1> QED  BY <1>1, <1>6, <1>7, MainUntouched DEF Inv

LEMMA GiveUpInv ==
    ASSUME Inv, GetNothing \/ PatchFails
    PROVE  Inv'
<1>1. /\ event' = NoEvent
      /\ UNCHANGED <<cluster, attached, resize_containers_map, opened, pod_exec_events,
                     main, stream, job, perf>>
    BY DEF GetNothing, PatchFails, probe
<1>2. EventOK'
    BY <1>1 DEF EventOK, NoEvent
<1>3. StagesOK'
    BY <1>1 DEF Inv, StagesOK, Unloaded
<1> QED  BY <1>1, <1>2, <1>3, MainUntouched DEF Inv

\* A step of the cluster, whatever the agent is doing meanwhile.
LEMMA ClusterStep ==
    ASSUME Inv, ClusterInv', Grows, ResourcesFromOwnAnnotation', used \subseteq used',
           \A i \in Pids : task'[i] \in {0, task[i]} \/ (i \notin used /\ ~ ReusePids) \/ ReusePids,
           StreamOK', LastIsCurrent', Covered', main # "watching" => UNCHANGED stream,
           UNCHANGED <<probe, main, job, perf>>, UNCHANGED event \/ event' = NoEvent
    PROVE  Inv'
<1>1. UNCHANGED <<attached, resize_containers_map, opened, pod_exec_events, main, job, perf>>
    BY DEF probe
<1>2. JobOK' /\ MapOK'
    BY <1>1, CopiesStay
<1>3. RingOK'
    BY <1>1, RingStays
<1>4. EventOK'
    <2>1. CASE UNCHANGED event
        BY <2>1, CopiesStay
    <2>2. CASE event' = NoEvent
        BY <2>2 DEF EventOK, NoEvent
    <2> QED  BY <2>1, <2>2
<1>5. StagesOK'
    BY <1>1 DEF Inv, StagesOK, Unloaded
<1> QED  BY <1>2, <1>3, <1>4, <1>5 DEF Inv

LEMMA PatchPodInv ==
    ASSUME Inv, NEW p \in Pods, PatchPod(p)
    PROVE  Inv'
<1>1. PICK a, c : a = event.ann /\ c = event.ctr
    OBVIOUS
<1>2. /\ event.stage = "patch" /\ event.pod = p /\ SetResources(p, c, a.resize)
      /\ (pods' # pods /\ Emit(p)) \/ (pods' = pods /\ UNCHANGED stream)
      /\ event' = NoEvent /\ UNCHANGED <<probe, main, job, perf>>
    BY <1>1 DEF PatchPod
<1>3. a \in hist[p] /\ c \in Ctrs
    BY <1>1, <1>2, CtrType DEF Inv, EventOK, ClusterInv
<1>4. /\ ClusterInv' /\ Grows /\ ResourcesFromOwnAnnotation'
      /\ \A q \in Pods \ {p} : pods'[q] = pods[q]
    <2>1. ClusterInv /\ hist[p] \subseteq Anns
        BY DEF Inv, ClusterInv
    <2>2. a.resize \in Res
        BY <1>3, <2>1, AnnType
    <2>3. /\ ClusterInv' /\ Grows /\ pods'[p].phase = pods[p].phase
          /\ pods'[p].res[c] = a.resize /\ \A d \in Ctrs \ {c} : pods'[p].res[d] = pods[p].res[d]
          /\ \A q \in Pods \ {p} : pods'[q] = pods[q]
        BY <1>2, <1>3, <2>1, <2>2, SetResourcesStep
    <2>4. ResourcesFromOwnAnnotation'
        <3> SUFFICES ASSUME NEW q \in Pods, Exists(q)', NEW d \in Ctrs
                     PROVE  pods'[q].res[d] \in {DefaultRes} \cup {b.resize : b \in hist'[q]}
            BY DEF ResourcesFromOwnAnnotation
        <3>1. hist[q] \subseteq hist'[q] /\ Exists(q)
            BY <2>3 DEF Grows, Exists
        <3>2. CASE q = p /\ d = c
            BY <1>3, <2>3, <3>1, <3>2
        <3>3. CASE q # p \/ d # c
            <4>1. pods'[q].res[d] = pods[q].res[d]
                BY <2>3, <3>3
            <4> QED  BY <3>1, <4>1 DEF Inv, ResourcesFromOwnAnnotation
        <3> QED  BY <3>2, <3>3
    <2> QED  BY <2>3, <2>4
<1>5. UNCHANGED <<ctrs, alive, task, used>> /\ UNCHANGED resize_containers_map
    BY <1>2 DEF SetResources, probe
<1>6. StreamOK' /\ LastIsCurrent' /\ Covered' /\ (main # "watching" => UNCHANGED stream)
    <2>1. CASE Emit(p)
        BY <1>2, <1>4, <1>5, <2>1, EmitStep DEF Emit
    <2>2. CASE pods' = pods /\ UNCHANGED stream
        <3>1. \A q \in Pods : Exists(q)' =>
                  Exists(q) /\ pods'[q].ann = pods[q].ann /\ pods'[q].cs = pods[q].cs
            BY <2>2 DEF Exists
        <3> QED  BY <1>2, <1>4, <1>5, <2>2, <3>1, StreamUntouched, CopiesStay
    <2> QED  BY <1>2, <2>1, <2>2
<1> QED  BY <1>2, <1>4, <1>5, <1>6, ClusterStep

LEMMA PerfThreadInv ==
    ASSUME Inv, PerfThread
    PROVE  Inv'
<1>1. ASSUME NEW p \in Pods, ResizePanics(p)  PROVE Inv'
    BY <1>1, DownInv DEF ResizePanics
<1> QED  BY <1>1, PerfBuildInv, PerfDiesInv, ResolveInv, GetPodInv, GiveUpInv, PatchPodInv DEF PerfThread

-----------------------------------------------------------------------------
(* The cluster around the agent *)

LEMMA PodChangesInv ==
    ASSUME Inv, PodChanges
    PROVE  Inv'
<1>0. ClusterInv
    BY DEF Inv
<1>1. UNCHANGED <<probe, main, job, perf, event>> /\ UNCHANGED resize_containers_map
    BY DEF PodChanges, probe
<1>2. \A p \in Pods : Emit(p) => (main # "watching" => UNCHANGED stream)
    BY DEF Emit
<1>3. alive \subseteq Cgs
    BY DEF Inv, ClusterInv
<1>4. ASSUME NEW p \in Pods, Emit(p), CreatePod(p) \/ EditAnnotation(p)  PROVE Inv'
    <2>1. /\ ClusterInv' /\ Grows /\ ResourcesFromOwnAnnotation'
          /\ \A q \in Pods \ {p} : pods'[q] = pods[q]
        BY <1>0, <1>4, CreatePodStep, EditAnnotationStep, ResourcesUntouched
    <2>2. UNCHANGED <<alive, task, used>>
        BY <1>4 DEF CreatePod, EditAnnotation
    <2>3. StreamOK' /\ LastIsCurrent' /\ Covered'
        BY <1>1, <1>4, <2>1, <2>2, EmitStep
    <2> QED  BY <1>1, <1>2, <1>4, <2>1, <2>2, <2>3, ClusterStep
<1>5. ASSUME NEW p \in Pods, Emit(p), NEW c \in Ctrs, StartContainer(p, c)  PROVE Inv'
    <2>1. /\ ClusterInv' /\ Grows /\ ResourcesFromOwnAnnotation'
          /\ \A q \in Pods \ {p} : pods'[q] = pods[q]
          /\ alive' \cap Cgs = alive
        BY <1>0, <1>5, StartContainerStep, ResourcesUntouched
    <2>2. UNCHANGED <<task, used>>
        BY <1>5 DEF StartContainer
    <2>3. StreamOK' /\ LastIsCurrent' /\ Covered'
        BY <1>1, <1>5, <2>1, EmitStep
    <2> QED  BY <1>1, <1>2, <1>5, <2>1, <2>2, <2>3, ClusterStep
<1>6. ASSUME NEW n \in alive, ExitContainer(n), Emit(ctrs[n].pod)  PROVE Inv'
    <2>1. PICK p : p = ctrs[n].pod
        OBVIOUS
    <2>2. p \in Pods
        BY <1>3, <2>1, CtrType DEF Inv, ClusterInv
    <2>3. /\ ClusterInv' /\ Grows /\ ResourcesFromOwnAnnotation'
          /\ UNCHANGED <<pods, used>> /\ alive' \subseteq alive
          /\ \A i \in Pids : task'[i] \in {0, task[i]}
        BY <1>0, <1>6, ExitContainerStep, ResourcesUntouched
    <2>4. Emit(p)
        BY <1>6, <2>1 DEF Emit, Object, ExitContainer
    <2>5. StreamOK' /\ LastIsCurrent' /\ Covered'
        BY <1>1, <2>2, <2>3, <2>4, EmitStep
    <2> QED  BY <1>1, <1>2, <2>2, <2>3, <2>4, <2>5, ClusterStep
<1> QED  BY <1>4, <1>5, <1>6 DEF PodChanges

LEMMA UnseenInv ==
    ASSUME Inv, Unseen
    PROVE  Inv'
<1>0. ClusterInv
    BY DEF Inv
<1>1. UNCHANGED <<probe, main, stream, job, perf, event>> /\ UNCHANGED resize_containers_map
    BY DEF Unseen, probe, agent
<1>2. ASSUME NEW p \in Pods, DeletePod(p)  PROVE Inv'
    <2>1. /\ ClusterInv' /\ Grows /\ ResourcesFromOwnAnnotation'
          /\ ~ Exists(p)' /\ \A q \in Pods \ {p} : pods'[q] = pods[q]
        BY <1>0, <1>2, DeletePodStep, ResourcesUntouched
    <2>2. UNCHANGED <<alive, task, used>>
        BY <1>2 DEF DeletePod
    <2>3. \A q \in Pods : Exists(q)' =>
              Exists(q) /\ pods'[q].ann = pods[q].ann /\ pods'[q].cs = pods[q].cs
        BY <2>1 DEF Exists
    <2>4. StreamOK' /\ LastIsCurrent' /\ Covered'
        BY <1>1, <2>1, <2>2, <2>3, StreamUntouched, CopiesStay
    <2> QED  BY <1>1, <2>1, <2>2, <2>4, ClusterStep
<1>3. ASSUME NEW i \in Pids, ExitTask(i) \/ \E n \in alive : Spawn(i, n)  PROVE Inv'
    <2>1. /\ ClusterInv' /\ Grows /\ ResourcesFromOwnAnnotation'
          /\ UNCHANGED <<pods, alive>> /\ used \subseteq used'
          /\ \A j \in Pids : task'[j] \in {0, task[j]} \/ (j \notin used /\ ~ ReusePids) \/ ReusePids
        BY <1>0, <1>3, ExitTaskStep, SpawnStep, ResourcesUntouched
    <2>2. \A q \in Pods : Exists(q)' =>
              Exists(q) /\ pods'[q].ann = pods[q].ann /\ pods'[q].cs = pods[q].cs
        BY <2>1 DEF Exists
    <2>3. StreamOK' /\ LastIsCurrent' /\ Covered'
        BY <1>1, <2>1, <2>2, StreamUntouched, CopiesStay
    <2> QED  BY <1>1, <2>1, <2>3, ClusterStep
<1> QED  BY <1>2, <1>3 DEF Unseen

LEMMA ExecveInv ==
    ASSUME Inv, NEW i \in Pids, NEW comm \in Commands, Execve(i, comm)
    PROVE  Inv'
<1>1. PICK n : n = task[i]
    OBVIOUS
<1> DEFINE e == [cgroup_id |-> n, cgroup_pid |-> i, cgroup_cmd |-> comm]
<1>2. /\ n # 0 /\ n \in Registered /\ resize_containers_map[n] = comm
      /\ opened /\ Len(pod_exec_events) < PerfCap
      /\ pod_exec_events' = Append(pod_exec_events, e)
      /\ UNCHANGED <<cluster, attached, resize_containers_map, opened, main, stream, job, perf, event>>
    BY <1>1 DEF Execve, podsnoop, agent
<1>3. /\ n \in Cgs /\ n \in Nat /\ AskedFor(n, comm) /\ (i \in used \/ ReusePids)
    BY <1>1, <1>2 DEF Inv, MapOK, ClusterInv, Cgs
<1>4. e \in EventT /\ e.cgroup_id = n /\ e.cgroup_pid = i /\ e.cgroup_cmd = comm
    BY <1>3 DEF EventT
<1> HIDE DEF e
<1> DEFINE r == pod_exec_events
<1>5. /\ r \in Seq(EventT) /\ Len(r) \in Nat /\ r' \in Seq(EventT) /\ Len(r') = Len(r) + 1
      /\ DOMAIN r' = DOMAIN r \cup {Len(r) + 1} /\ r'[Len(r) + 1] = e
      /\ \A k \in DOMAIN r : r'[k] = r[k]
    BY <1>2, <1>4 DEF Inv, RingOK
<1>6. UNCHANGED <<ctrs, task, used, hist>> /\ Cgs' = Cgs
    BY <1>2 DEF cluster, Cgs
<1>7. RingOK'
    <2>1. Len(r') <= PerfCap
        BY <1>2, <1>5, ProbeAssumption
    <2>2. SUFFICES ASSUME NEW k \in DOMAIN r'
                   PROVE  LET f == r'[k] IN
                          /\ f.cgroup_id \in Cgs /\ AskedFor(f.cgroup_id, f.cgroup_cmd)
                          /\ ~ ReusePids => f.cgroup_pid \in used /\ task[f.cgroup_pid] \in {0, f.cgroup_id}
        BY <1>5, <1>6, <2>1 DEF RingOK, AskedFor
    <2>3. CASE k \in DOMAIN r
        BY <1>5, <2>3 DEF Inv, RingOK
    <2>4. CASE k = Len(r) + 1
        BY <1>1, <1>3, <1>4, <1>5, <2>4
    <2> QED  BY <1>5, <2>3, <2>4
<1>8. StagesOK'
    BY <1>2 DEF Inv, StagesOK
<1> QED  BY <1>2, <1>7, <1>8, MainUntouched DEF Inv

LEMMA NextInv == Inv /\ [Next]_vars => Inv'
<1> SUFFICES ASSUME Inv, [Next]_vars  PROVE Inv'
    OBVIOUS
<1>1. CASE UNCHANGED vars
    <2>1. UNCHANGED <<cluster, attached, resize_containers_map, opened, pod_exec_events,
                      main, stream, job, perf, event>>
        BY <1>1 DEF vars, probe, agent
    <2>2. StagesOK'
        BY <2>1 DEF Inv, StagesOK, Unloaded
    <2> QED  BY <2>1, <2>2, MainUntouched DEF Inv
<1>2. CASE Next
    BY <1>2, MainThreadInv, PerfThreadInv, PodChangesInv, UnseenInv, ExecveInv DEF Next
<1> QED  BY <1>1, <1>2

LEMMA SpecInv == Spec => []Inv
BY InitInv, NextInv, PTL DEF Spec

-----------------------------------------------------------------------------
(* What the runs check, for every instance *)

\* main.rs and podsnoop.bpf.c: the types, how far each thread is, that a process
\* that is down has left nothing behind, and that map and ring keep their sizes.
THEOREM TypeCorrect == Spec => []TypeOK
<1>1. ASSUME Inv  PROVE TypeOK
    <2>2. ClusterTypeOK
        BY <1>1, ClusterTyped DEF Inv
    <2> QED  BY <1>1, <2>2 DEF Inv, StagesOK, MapOK, RingOK, EventOK, TypeOK
<1> QED  BY <1>1, SpecInv, PTL

\* handle_k8s_pod and create_resize_bpf_map_entry: in whatever order pods are
\* edited, containers exit and start again and the process dies, an entry of the
\* map is a command some annotation of its pod listed for its container.
THEOREM MapHoldsOnlyAskedFor == Spec => []MapSound
<1>1. Inv => MapSound
    BY DEF Inv, MapOK, MapSound, AskedFor
<1> QED  BY <1>1, SpecInv, PTL

\* handle_k8s_pod: an agent that has handled what it was told has registered
\* every running container an annotation names, as long as the map has room.
THEOREM NoWantedIsLost == Spec => []WantedAreRegistered
<1>1. ASSUME Inv  PROVE WantedAreRegistered
    <2>1. SUFFICES ASSUME main = "watching", stream = <<>>, job = NoJob,
                          NEW p \in Pods, NEW c \in Ctrs, Wanted(p, c)
                   PROVE  RegisteredAs(p, c) \/ MapFull
        BY DEF WantedAreRegistered
    <2>2. ~ InStream(p)
        BY <2>1 DEF InStream
    <2>3. job.cgroup_id # pods[p].cs[c]
        BY <1>1, <2>1, WantedRuns DEF Inv, NoJob
    <2> QED  BY <1>1, <2>1, <2>2, <2>3 DEF Inv, Covered
<1> QED  BY <1>1, SpecInv, PTL

\* resize_k8s_pod: whichever pod an event is taken for, what is written are
\* resources from an annotation of that same pod.
THEOREM ResourcesAreOwn == Spec => []ResourcesFromOwnAnnotation
<1>1. Inv => ResourcesFromOwnAnnotation
    BY DEF Inv
<1> QED  BY <1>1, SpecInv, PTL

\* handle_pod_snoop_event: if no process id is used again, a patch is for the pod
\* and container in which the trigger ran, and the trigger was asked for.
THEOREM ResizeIsForTrigger ==
    ASSUME ~ ReusePids
    PROVE  Spec => []ResizeFollowsTrigger
<1>1. ASSUME Inv  PROVE ResizeFollowsTrigger
    <2>1. SUFFICES ASSUME event.stage = "patch"
                   PROVE  /\ ctrs[event.cgroup_id] = [pod |-> event.pod, ctr |-> event.ctr]
                          /\ \E a \in hist[event.pod] :
                                a.cname = event.ctr /\ event.cmd \in ToSet(a.commands)
        BY DEF ResizeFollowsTrigger
    <2>2. /\ event.cgroup_id \in Cgs /\ event.ctr = ctrs[event.cgroup_id].ctr
          /\ AskedFor(event.cgroup_id, event.cmd) /\ ctrs[event.cgroup_id].pod = event.pod
        BY <1>1, <2>1 DEF Inv, EventOK
    <2>3. ctrs[event.cgroup_id] \in CtrT
        BY <1>1, <2>2, CtrType DEF Inv, ClusterInv
    <2> QED  BY <2>2, <2>3 DEF AskedFor, CtrT
<1> QED  BY <1>1, SpecInv, PTL

=============================================================================

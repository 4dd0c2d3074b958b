------------------------- MODULE PodsnoopBccProofs -------------------------
(***************************************************************************)
(* For any set of pods and annotations, and any sizes of table and pipe:    *)
(* when the watcher has caught up the map holds, of the pods whose first    *)
(* container is ready, those that should be in it and not those being       *)
(* deleted, and whatever is in map and pipe, a pod is given no resources    *)
(* but those its annotation has at that moment.                             *)
(*                                                                          *)
(* The invariant follows a pod through the watcher.  While an event of it   *)
(* is in the stream nothing is known, but that the last such event tells    *)
(* its present container; while its container is looked at, that the        *)
(* annotation read is its present one; and after that, that the map is as   *)
(* it should be.                                                            *)
(***************************************************************************)
EXTENDS PodsnoopBcc, ClusterProofs

StatusT == [type : {"ADDED", "MODIFIED", "DELETED"}, pod : Local, cg : Nat, ready : BOOLEAN]
LineT   == [cgroup : Nat, command : Commands]
GetT    == [stage : {"get"}, pod : Local, ctr : Ctrs, cmd : Commands]
PatchT  == [stage : {"patch"}, pod : Local, ctr : Ctrs, fresh : BOOLEAN]

StagesOK ==
    /\ watcher \in {"down", "up", "dead"} /\ handler \in {"down", "up", "dead"}
    /\ watcher = "down" <=> handler = "down"
    /\ watcher # "up" => stream = <<>> /\ look = NoLook
    /\ handler # "up" => event = NoEvent /\ resources = Unbound
    /\ watcher = "down" => map = <<>>

StreamOK ==
    /\ stream \in Seq(StatusT)
    /\ \A k \in DOMAIN stream : Of(stream[k].pod, First, stream[k].cg)

MapOK ==
    /\ IsFiniteSet(DOMAIN map) /\ Cardinality(DOMAIN map) <= TableSize
    /\ pipe \in Seq(LineT) /\ Len(pipe) <= PipeCap

\* As long as the body read is not out of date, it agrees with the pod.
EventOK ==
    /\ event \in {NoEvent} \cup GetT \cup PatchT /\ resources \in Res \cup {Unbound}
    /\ event.stage = "patch" => resources \in Res
    /\ event.stage = "patch" /\ event.fresh /\ Exists(event.pod) =>
          Now # NoAnn /\ Now.cname = event.ctr /\ Now.resize \in {Empty, resources}

\* Only the first container of a pod that runs is ready.
ReadyOK ==
    \A p \in ready : p \in Pods /\ Exists(p) /\ pods[p].cs[First] \in alive

InStream(p) == \E k \in DOMAIN stream : stream[k].pod = p

Ready(p) == p \in Local /\ p \in ready

\* The type that the last event of a pod has.
Told(p, type) ==
    type \in {"ADDED", "MODIFIED"} /\ (p \in deleting \ relisted => type = "MODIFIED")

\* The last event of a pod that is ready says so, and is about the container
\* that runs.
LastIsCurrent ==
    \A k \in DOMAIN stream : LET e == stream[k] IN
        Ready(e.pod) /\ (\A l \in DOMAIN stream : l > k => stream[l].pod # e.pod)
        => e.cg = pods[e.pod].cs[First] /\ e.ready /\ Told(e.pod, e.type)

LookedAt(p) == look.stage = "read" /\ look.cg = pods[p].cs[First]

\* A pod that is looked at and of which no event follows has not changed.
LookIsCurrent ==
    /\ look = NoLook \/ look.stage = "read"
    /\ \A p \in Local : Ready(p) /\ LookedAt(p) /\ ~ InStream(p) =>
          look.ann = pods[p].ann /\ look.deleted = (p \in deleting) /\ Told(p, look.type)

InMapAsItShould(p) ==
    /\ p \notin deleting => InMap(p)
    /\ p \in deleting \ relisted => Id(pods[p].cs[First]) \notin DOMAIN map

Covered ==
    watcher = "up" => \A p \in Pods :
        Annotated(p) /\ KeepsKey(p) /\ ~ InStream(p) /\ ~ LookedAt(p) => InMapAsItShould(p)

Inv ==
    /\ ClusterInv /\ ReadyOK /\ StagesOK /\ StreamOK /\ MapOK /\ EventOK
    /\ LastIsCurrent /\ LookIsCurrent /\ Covered

-----------------------------------------------------------------------------
(* Types *)

LEMMA StatusType ==
    ASSUME stream \in Seq(StatusT), NEW k \in DOMAIN stream
    PROVE  /\ stream[k] \in StatusT /\ stream[k].pod \in Local /\ stream[k].pod \in Pods
           /\ stream[k].cg \in Nat /\ stream[k].ready \in BOOLEAN
<1>1. stream[k] \in StatusT
    OBVIOUS
<1> QED  BY <1>1, ClusterAssumption DEF StatusT

LEMMA EventType ==
    ASSUME EventOK
    PROVE  /\ event.stage \in {"none", "get", "patch"}
           /\ event.stage = "none" <=> event = NoEvent
           /\ event.stage = "get" <=> event \in GetT
           /\ event.stage = "patch" <=> event \in PatchT
           /\ event.stage # "none" => event.pod \in Local /\ event.pod \in Pods /\ event.ctr \in Ctrs
           /\ event.stage = "get" => event.cmd \in Commands
BY ClusterAssumption DEF EventOK, NoEvent, GetT, PatchT

\* A container that runs is an instance, and no pod or container but its own
\* has its id.
LEMMA RunningType ==
    ASSUME ClusterInv, NEW p \in Pods, pods[p].cs[First] \in alive
    PROVE  LET n == pods[p].cs[First]
           IN  n \in Cgs /\ n \in Nat /\ n # 0 /\ ctrs[n].pod = p
<1>1. pods[p].cs[First] \in Cgs /\ Of(p, First, pods[p].cs[First])
    BY BccAssumption DEF ClusterInv
<1> QED  BY <1>1, CtrType DEF ClusterInv, Of

-----------------------------------------------------------------------------
(* A pod that a step leaves alone *)

Bystander(q) ==
    /\ pods'[q] = pods[q]
    /\ (q \in deleting' <=> q \in deleting) /\ (q \in ready' <=> q \in ready)

LEMMA BystanderKeeps ==
    ASSUME Inv, ClusterInv', Grows, UNCHANGED <<ids, look, map, relisted>>,
           NEW q \in Pods, Bystander(q)
    PROVE  /\ Ready(q)' => Ready(q)
           /\ \A type : Told(q, type)' <=> Told(q, type)
           /\ LookedAt(q)' <=> LookedAt(q)
           /\ Annotated(q)' /\ KeepsKey(q)' => Annotated(q) /\ KeepsKey(q)
           /\ InMapAsItShould(q) => InMapAsItShould(q)'
<1>1. ClusterInv /\ Cgs \subseteq Cgs'
    BY GrowsKeeps DEF Inv
<1>4. Ready(q)' => Ready(q)
    BY DEF Ready, Bystander
<1>5. \A type : Told(q, type)' <=> Told(q, type)
    BY DEF Told, Bystander
<1>6. Annotated(q)' => Annotated(q)
    BY DEF Annotated, Bystander
<1>7. KeepsKey(q)' => KeepsKey(q)
    BY <1>1 DEF KeepsKey, Key, Id, Bystander
<1>8. InMapAsItShould(q) => InMapAsItShould(q)'
    BY DEF InMapAsItShould, InMap, Id, Bystander
<1>9. LookedAt(q)' <=> LookedAt(q)
    BY DEF LookedAt, Bystander
<1> QED  BY <1>4, <1>5, <1>6, <1>7, <1>8, <1>9

\* No pod of the node changes, or the watcher does not listen.
LEMMA StreamUntouched ==
    ASSUME Inv, ClusterInv', Grows, UNCHANGED <<ids, watcher, stream, look, map, relisted>>,
           watcher = "up" => \A q \in Local : Bystander(q)
    PROVE  StreamOK' /\ LastIsCurrent' /\ LookIsCurrent' /\ Covered'
<1>1. ClusterInv /\ Local \subseteq Pods /\ stream \in Seq(StatusT)
    BY ClusterAssumption DEF Inv, StreamOK
<1>2. StreamOK'
    <2>1. \A p, c, n : Of(p, c, n) => Of(p, c, n)'
        BY <1>1, GrowsKeeps
    <2> QED  BY <2>1 DEF Inv, StreamOK
<1>3. CASE watcher # "up"
    <2>1. stream' = <<>> /\ look' = NoLook /\ watcher' # "up" /\ look'.stage # "read"
        BY <1>3 DEF Inv, StagesOK, NoLook
    <2> QED  BY <1>2, <2>1 DEF LastIsCurrent, LookIsCurrent, LookedAt, Covered
<1>4. CASE watcher = "up"
    <2>1. \A q \in Local : Bystander(q)
        BY <1>4
    <2>2. \A q \in Local :
              /\ Ready(q)' => Ready(q)
              /\ \A type : Told(q, type)' <=> Told(q, type)
              /\ LookedAt(q)' <=> LookedAt(q)
              /\ Annotated(q)' /\ KeepsKey(q)' => Annotated(q) /\ KeepsKey(q)
              /\ InMapAsItShould(q) => InMapAsItShould(q)'
        BY <1>1, <2>1, BystanderKeeps
    <2>3. LastIsCurrent'
        <3>1. SUFFICES ASSUME NEW k \in DOMAIN stream, Ready(stream[k].pod)',
                              \A l \in DOMAIN stream : l > k => stream[l].pod # stream[k].pod
                       PROVE  /\ stream[k].cg = pods'[stream[k].pod].cs[First] /\ stream[k].ready
                              /\ Told(stream[k].pod, stream[k].type)'
            BY DEF LastIsCurrent
        <3>2. PICK q \in Local : q = stream[k].pod
            BY <1>1, StatusType
        <3>3. Ready(q)'
            BY <3>1, <3>2
        <3>4. Ready(q)
            BY <2>2, <3>3
        <3>5. stream[k].cg = pods[q].cs[First] /\ stream[k].ready /\ Told(q, stream[k].type)
            BY <3>1, <3>2, <3>4 DEF Inv, LastIsCurrent
        <3>6. pods'[q] = pods[q] /\ Told(q, stream[k].type)'
            BY <2>1, <2>2, <3>5 DEF Bystander
        <3> QED  BY <3>2, <3>5, <3>6
    <2>4. LookIsCurrent'
        <3>1. SUFFICES ASSUME NEW q \in Local, Ready(q)', LookedAt(q)', ~ InStream(q)'
                       PROVE  /\ look.ann = pods'[q].ann /\ look.deleted = (q \in deleting')
                              /\ Told(q, look.type)'
            BY DEF Inv, LookIsCurrent
        <3>2. Ready(q) /\ LookedAt(q) /\ ~ InStream(q)
            BY <2>2, <3>1 DEF InStream
        <3> QED  BY <2>1, <2>2, <3>2 DEF Inv, LookIsCurrent, Bystander
    <2>5. Covered'
        <3>1. SUFFICES ASSUME NEW q \in Pods, Annotated(q)', KeepsKey(q)', ~ InStream(q)', ~ LookedAt(q)'
                       PROVE  InMapAsItShould(q)'
            BY DEF Covered
        <3>2. q \in Local
            BY <3>1 DEF Annotated
        <3>3. Annotated(q) /\ KeepsKey(q) /\ ~ InStream(q) /\ ~ LookedAt(q)
            BY <2>2, <3>1, <3>2 DEF InStream
        <3> QED  BY <1>4, <2>2, <3>2, <3>3 DEF Inv, Covered
    <2> QED  BY <1>2, <2>3, <2>4, <2>5
<1> QED  BY <1>3, <1>4


\* The watcher is told of a pod: nothing more is known of it but by its last event.
LEMMA EmitStep ==
    ASSUME Inv, ClusterInv', Grows, UNCHANGED <<ids, watcher, look, map, relisted>>,
           NEW p \in Pods, NEW type \in {"ADDED", "MODIFIED", "DELETED"},
           stream' = IF watcher = "up" /\ p \in Local THEN Append(stream, Status(type, p)') ELSE stream,
           \A q \in Pods \ {p} : Bystander(q),
           Ready(p)' => Told(p, type)'
    PROVE  StreamOK' /\ LastIsCurrent' /\ LookIsCurrent' /\ Covered'
<1>1. CASE ~ (watcher = "up" /\ p \in Local)
    <2>1. stream' = stream
        BY <1>1
    <2>2. watcher = "up" => \A q \in Local : Bystander(q)
        BY <1>1, ClusterAssumption
    <2> QED  BY <2>1, <2>2, StreamUntouched
<1>2. CASE watcher = "up" /\ p \in Local
    <2>0. PICK c \in Nat, r \in BOOLEAN : c = pods'[p].cs[First] /\ r = (p \in ready')
        <3>1. pods' \in [Pods -> PodT]
            BY DEF ClusterInv
        <3>2. pods'[p].cs[First] \in Nat
            BY <3>1, BccAssumption DEF PodT
        <3>3. (p \in ready') \in BOOLEAN
            OBVIOUS
        <3> QED  BY <3>2, <3>3, Zenon
    <2> DEFINE e == [type |-> type, pod |-> p, cg |-> c, ready |-> r]
               n == Len(stream) + 1
    <2>1. stream' = Append(stream, e) /\ stream \in Seq(StatusT) /\ ClusterInv /\ Local \subseteq Pods
        BY <1>2, <2>0, ClusterAssumption DEF Status, Inv, StreamOK
    <2>2. /\ e \in StatusT /\ e.pod = p /\ e.cg = pods'[p].cs[First] /\ e.type = type
          /\ e.ready = r /\ r = (p \in ready')
        BY <1>2, <2>0 DEF StatusT
    <2> HIDE DEF e
    <2>3. /\ stream' \in Seq(StatusT) /\ Len(stream) \in Nat /\ DOMAIN stream = 1 .. Len(stream)
          /\ DOMAIN stream' = 1 .. n /\ stream'[n] = e /\ \A k \in DOMAIN stream : stream'[k] = stream[k]
        BY <2>1, <2>2
    <2>4. /\ DOMAIN stream' = DOMAIN stream \cup {n} /\ n \in DOMAIN stream'
          /\ \A k \in DOMAIN stream : n > k
        BY <2>3
    <2> HIDE DEF n
    <2>5. \A q \in Pods \ {p} :
              /\ Ready(q)' => Ready(q)
              /\ \A t : Told(q, t)' <=> Told(q, t)
              /\ LookedAt(q)' <=> LookedAt(q)
              /\ Annotated(q)' /\ KeepsKey(q)' => Annotated(q) /\ KeepsKey(q)
              /\ InMapAsItShould(q) => InMapAsItShould(q)'
        BY BystanderKeeps
    <2>6. \A q : ~ InStream(q)' => q # p /\ ~ InStream(q)
        BY <2>2, <2>3, <2>4 DEF InStream
    <2>7. StreamOK'
        <3>1. SUFFICES ASSUME NEW k \in DOMAIN stream'  PROVE Of(stream[k].pod, First, stream[k].cg)'
            BY <2>3 DEF StreamOK
        <3>2. CASE k = n
            <4>1. stream'[k].pod = p /\ stream'[k].cg = pods'[p].cs[First]
                BY <2>2, <2>3, <3>2
            <4>2. Of(p, First, pods[p].cs[First])'
                BY BccAssumption DEF ClusterInv
            <4> QED  BY <4>1, <4>2
        <3>3. CASE k \in DOMAIN stream
            <4>1. stream'[k] = stream[k] /\ Of(stream[k].pod, First, stream[k].cg)
                BY <2>3, <3>3 DEF Inv, StreamOK
            <4>2. \A q, d, m : Of(q, d, m) => Of(q, d, m)'
                BY <2>1, GrowsKeeps
            <4> QED  BY <4>1, <4>2
        <3> QED  BY <2>4, <3>2, <3>3
    <2>8. LastIsCurrent'
        <3>1. SUFFICES ASSUME NEW k \in DOMAIN stream', Ready(stream[k].pod)',
                              \A l \in DOMAIN stream' : l > k => stream'[l].pod # stream'[k].pod
                       PROVE  /\ stream'[k].cg = pods'[stream'[k].pod].cs[First] /\ stream'[k].ready
                              /\ Told(stream[k].pod, stream[k].type)'
            BY DEF LastIsCurrent
        <3>2. CASE k = n
            <4>1. /\ stream'[k].pod = p /\ stream'[k].cg = pods'[p].cs[First] /\ stream'[k].type = type
                  /\ stream'[k].ready = (p \in ready')
                BY <2>2, <2>3, <3>2
            <4>2. Ready(p)'
                BY <3>1, <4>1
            <4>3. Told(p, type)' /\ p \in ready'
                BY <4>2 DEF Ready
            <4> QED  BY <4>1, <4>3
        <3>3. CASE k \in DOMAIN stream
            <4>1. PICK q \in Local : q = stream[k].pod
                BY <2>1, <3>3, StatusType
            <4>2. stream'[k] = stream[k] /\ q # p /\ q \in Pods
                BY <2>1, <2>2, <2>3, <2>4, <3>1, <3>3, <4>1
            <4>3. Ready(q)'
                BY <3>1, <4>1, <4>2
            <4>4. Ready(q) /\ \A l \in DOMAIN stream : l > k => stream[l].pod # q
                BY <2>3, <2>4, <2>5, <3>1, <4>1, <4>2, <4>3
            <4>5. stream[k].cg = pods[q].cs[First] /\ stream[k].ready /\ Told(q, stream[k].type)
                BY <3>3, <4>1, <4>4 DEF Inv, LastIsCurrent
            <4>6. pods'[q] = pods[q] /\ Told(q, stream[k].type)'
                BY <2>5, <4>2, <4>5 DEF Bystander
            <4> QED  BY <4>1, <4>2, <4>5, <4>6
        <3> QED  BY <2>4, <3>2, <3>3
    <2>9. LookIsCurrent'
        <3>1. SUFFICES ASSUME NEW q \in Local, Ready(q)', LookedAt(q)', ~ InStream(q)'
                       PROVE  /\ look.ann = pods'[q].ann /\ look.deleted = (q \in deleting')
                              /\ Told(q, look.type)'
            BY DEF Inv, LookIsCurrent
        <3>2. q \in Pods \ {p} /\ ~ InStream(q)
            BY <2>1, <2>6, <3>1
        <3>3. Ready(q) /\ LookedAt(q)
            BY <2>5, <3>1, <3>2
        <3>4. look.ann = pods[q].ann /\ look.deleted = (q \in deleting) /\ Told(q, look.type)
            BY <3>2, <3>3 DEF Inv, LookIsCurrent
        <3> QED  BY <2>5, <3>2, <3>4 DEF Bystander
    <2>10. Covered'
        <3>1. SUFFICES ASSUME NEW q \in Pods, Annotated(q)', KeepsKey(q)', ~ InStream(q)', ~ LookedAt(q)'
                       PROVE  InMapAsItShould(q)'
            BY DEF Covered
        <3>2. q \in Pods \ {p} /\ ~ InStream(q)
            BY <2>6, <3>1
        <3>3. Annotated(q) /\ KeepsKey(q) /\ ~ LookedAt(q)
            BY <2>5, <3>1, <3>2
        <3> QED  BY <1>2, <2>5, <3>2, <3>3 DEF Inv, Covered
    <2> QED  BY <2>7, <2>8, <2>9, <2>10
<1> QED  BY <1>1, <1>2

\* The watcher takes the first event: if it was the last of its pod, it tells
\* the container that runs.
LEMMA TailOfStream ==
    ASSUME Inv, stream # <<>>, stream' = Tail(stream), UNCHANGED <<cluster, status, relisted>>
    PROVE  /\ StreamOK' /\ LastIsCurrent'
           /\ LET e == Head(stream) IN
              /\ e.pod \in Local /\ e.pod \in Pods /\ Of(e.pod, First, e.cg)
              /\ \A p \in Pods : Ready(p) /\ InStream(p) /\ ~ InStream(p)' =>
                    e.pod = p /\ e.cg = pods[p].cs[First] /\ e.ready /\ Told(p, e.type)
<1>1. /\ stream \in Seq(StatusT) /\ Len(stream) \in Nat /\ Len(stream) # 0
      /\ DOMAIN stream = 1 .. Len(stream) /\ 1 \in DOMAIN stream /\ Head(stream) = stream[1]
    BY DEF Inv, StreamOK
<1>2. /\ stream' \in Seq(StatusT) /\ DOMAIN stream' = 1 .. (Len(stream) - 1)
      /\ \A k \in DOMAIN stream' : stream'[k] = stream[k + 1]
    BY <1>1
<1>3. \A k \in DOMAIN stream' : k + 1 \in DOMAIN stream /\ k \in Nat
    BY <1>1, <1>2
<1>4. \A k \in DOMAIN stream : k = 1 \/ (k - 1 \in DOMAIN stream' /\ stream'[k - 1] = stream[k])
    BY <1>1, <1>2
<1>5. /\ \A p, c, n : Of(p, c, n)' <=> Of(p, c, n)
      /\ \A p : Ready(p)' <=> Ready(p)
      /\ \A p, t : Told(p, t)' <=> Told(p, t)
    BY DEF cluster, status, Of, Cgs, Ready, Told
<1>6. StreamOK'
    <2>1. SUFFICES ASSUME NEW k \in DOMAIN stream'  PROVE Of(stream[k].pod, First, stream[k].cg)'
        BY <1>2 DEF StreamOK
    <2>2. stream'[k] = stream[k + 1] /\ k + 1 \in DOMAIN stream
        BY <1>2, <1>3
    <2>3. Of(stream[k + 1].pod, First, stream[k + 1].cg)
        BY <2>2 DEF Inv, StreamOK
    <2> QED  BY <1>5, <2>2, <2>3
<1>7. LastIsCurrent'
    <2>1. SUFFICES ASSUME NEW k \in DOMAIN stream', Ready(stream[k].pod)',
                          \A l \in DOMAIN stream' : l > k => stream'[l].pod # stream'[k].pod
                   PROVE  /\ stream'[k].cg = pods'[stream'[k].pod].cs[First] /\ stream'[k].ready
                          /\ Told(stream[k].pod, stream[k].type)'
        BY DEF LastIsCurrent
    <2>2. stream'[k] = stream[k + 1] /\ k + 1 \in DOMAIN stream /\ k \in Nat
        BY <1>2, <1>3
    <2>3. Ready(stream[k + 1].pod)
        BY <1>5, <2>1, <2>2
    <2>4. ASSUME NEW l \in DOMAIN stream, l > k + 1  PROVE stream[l].pod # stream[k + 1].pod
        <3>1. l \in Nat /\ l # 1 /\ l - 1 > k
            BY <1>1, <2>2, <2>4
        <3>2. l - 1 \in DOMAIN stream' /\ stream'[l - 1] = stream[l]
            BY <1>4, <3>1
        <3> QED  BY <2>1, <2>2, <3>1, <3>2
    <2>5. /\ stream[k + 1].cg = pods[stream[k + 1].pod].cs[First] /\ stream[k + 1].ready
          /\ Told(stream[k + 1].pod, stream[k + 1].type)
        BY <2>2, <2>3, <2>4 DEF Inv, LastIsCurrent
    <2>6. pods' = pods
        BY DEF cluster
    <2> QED  BY <1>5, <2>2, <2>5, <2>6
<1>8. ASSUME NEW p \in Pods, Ready(p), InStream(p), ~ InStream(p)'
      PROVE  /\ stream[1].pod = p /\ stream[1].cg = pods[p].cs[First] /\ stream[1].ready
             /\ Told(p, stream[1].type)
    <2>1. ASSUME NEW l \in DOMAIN stream, l > 1  PROVE stream[l].pod # p
        <3>1. l # 1
            BY <1>1, <2>1
        <3>2. l - 1 \in DOMAIN stream' /\ stream'[l - 1] = stream[l]
            BY <1>4, <3>1
        <3> QED  BY <1>8, <3>2 DEF InStream
    <2>2. stream[1].pod = p
        BY <1>1, <1>8, <2>1 DEF InStream
    <2> QED  BY <1>1, <1>8, <2>1, <2>2 DEF Inv, LastIsCurrent
<1>9. stream[1].pod \in Local /\ stream[1].pod \in Pods /\ Of(stream[1].pod, First, stream[1].cg)
    BY <1>1, StatusType DEF Inv, StreamOK
<1> QED  BY <1>1, <1>6, <1>7, <1>8, <1>9


-----------------------------------------------------------------------------
(* The initial states, and the processes *)

LEMMA ClusterSame ==
    ASSUME Inv, UNCHANGED <<cluster, status>>
    PROVE  ClusterInv' /\ Grows /\ ReadyOK' /\ UNCHANGED <<pods, ctrs, alive, deleting, ready>>
<1>1. ClusterInv /\ UNCHANGED <<pods, ctrs, alive, task, used, edits, hist>>
    BY DEF Inv, cluster
<1>2. Cgs' = Cgs /\ \A p, c, n : Of(p, c, n)' <=> Of(p, c, n)
    BY <1>1 DEF Cgs, Of
<1>3. ReadyOK' /\ UNCHANGED <<deleting, ready>>
    BY <1>1 DEF Inv, ReadyOK, Exists, status
<1> QED  BY <1>1, <1>2, <1>3, NothingStartedGrows DEF ClusterInv

LEMMA EventStays ==
    ASSUME Inv, UNCHANGED <<pods, event, resources>>
    PROVE  EventOK'
BY DEF Inv, EventOK, Now, Exists

LEMMA NoMap ==
    ASSUME NEW m, m = <<>>
    PROVE  IsFiniteSet(DOMAIN m) /\ Cardinality(DOMAIN m) <= TableSize
<1>1. DOMAIN m = {}
    OBVIOUS
<1> QED  BY <1>1, FS_EmptySet, BccAssumption

LEMMA InitInv ==
    ASSUME Init
    PROVE  Inv
<1>1. ClusterInv /\ ReadyOK
    <2>1. ClusterInv
        BY ClusterInitInv DEF Init
    <2> QED  BY <2>1, BccAssumption DEF Init, ReadyOK
<1>2. StagesOK /\ Covered /\ LookIsCurrent
    BY BccAssumption DEF Init, StagesOK, Covered, LookIsCurrent, LookedAt, NoLook
<1>3. StreamOK /\ LastIsCurrent
    BY DEF Init, StreamOK, LastIsCurrent
<1>4. MapOK
    <2>1. IsFiniteSet(DOMAIN map) /\ Cardinality(DOMAIN map) <= TableSize
        BY NoMap DEF Init
    <2>2. pipe \in Seq(LineT) /\ Len(pipe) <= PipeCap
        BY BccAssumption DEF Init
    <2> QED  BY <2>1, <2>2 DEF MapOK
<1>5. EventOK
    BY DEF Init, EventOK, NoEvent
<1> QED  BY <1>1, <1>2, <1>3, <1>4, <1>5 DEF Inv

\* An ADDED for every pod of the node, in some order.
LEMMA ListOfStatus ==
    ASSUME ClusterInv, NEW s \in SetToSeqs({Status("ADDED", p) : p \in OnNode})
    PROVE  /\ s \in Seq(StatusT)
           /\ \A k \in DOMAIN s : \E p \in Local : Exists(p) /\ s[k] = Status("ADDED", p)
           /\ \A p \in Local : Exists(p) => \E k \in DOMAIN s : s[k] = Status("ADDED", p)
<1> DEFINE S == {Status("ADDED", p) : p \in OnNode}
           f == [p \in OnNode |-> Status("ADDED", p)]
<1>1. f \in [OnNode -> S] /\ \A x \in S : \E p \in OnNode : f[p] = x
    OBVIOUS
<1>2. PICK T, M, g : T = S /\ M = OnNode /\ g = f
    OBVIOUS
<1>3. M \in SUBSET Pods /\ g \in [M -> T] /\ \A x \in T : \E p \in M : g[p] = x
    <2>1. OnNode \in SUBSET Pods
        BY ClusterAssumption DEF OnNode
    <2> HIDE DEF S, f
    <2> QED  BY <1>1, <1>2, <2>1
<1>4. IsFiniteSet(T)
    BY <1>3, FiniteImage
<1>5. s \in Seq(T) /\ (\A k \in DOMAIN s : s[k] \in T) /\ \A x \in T : \E k \in DOMAIN s : s[k] = x
    <2>1. s \in SetToSeqs(T)
        BY <1>2
    <2> QED  BY <1>4, <2>1, ListOfSet
<1>6. ASSUME NEW p \in OnNode  PROVE Status("ADDED", p) \in StatusT
    <2>1. pods \in [Pods -> PodT] /\ p \in Pods /\ p \in Local
        BY ClusterAssumption DEF ClusterInv, OnNode
    <2>2. pods[p].cs[First] \in Nat
        BY <2>1, PodType, BccAssumption
    <2>3. (p \in ready) \in BOOLEAN
        OBVIOUS
    <2>4. PICK c \in Nat, r \in BOOLEAN : c = pods[p].cs[First] /\ r = (p \in ready)
        BY <2>2, <2>3, Zenon
    <2>5. Status("ADDED", p) = [type |-> "ADDED", pod |-> p, cg |-> c, ready |-> r]
        BY <2>4 DEF Status
    <2> QED  BY <2>1, <2>5 DEF StatusT
<1>7. s \in Seq(StatusT)
    <2>1. S \subseteq StatusT
        BY <1>6
    <2> HIDE DEF S
    <2> QED  BY <1>2, <1>5, <2>1
<1> QED  BY <1>2, <1>5, <1>7 DEF OnNode

LEMMA StatusFields ==
    ASSUME NEW type, NEW p
    PROVE  LET e == Status(type, p)
           IN  e.pod = p /\ e.cg = pods[p].cs[First] /\ e.type = type
               /\ (p \in ready => e.ready)
BY DEF Status

LEMMA StartInv ==
    ASSUME Inv, Start, UNCHANGED ids
    PROVE  Inv'
<1>1. /\ watcher' = "up" /\ handler' = "up" /\ relisted' = deleting
      /\ stream' \in SetToSeqs({Status("ADDED", p) : p \in OnNode})
      /\ UNCHANGED <<cluster, status, look, map, pipe, event, resources>> /\ watcher = "down"
    BY DEF Start
<1>2. ClusterInv /\ ClusterInv' /\ Grows /\ ReadyOK' /\ UNCHANGED <<pods, ctrs, alive, deleting, ready>>
    BY <1>1, ClusterSame DEF Inv
<1>3. /\ stream' \in Seq(StatusT)
      /\ \A k \in DOMAIN stream' : \E p \in Local : Exists(p) /\ stream'[k] = Status("ADDED", p)
      /\ \A p \in Local : Exists(p) => \E k \in DOMAIN stream' : stream'[k] = Status("ADDED", p)
    BY <1>1, <1>2, ListOfStatus
<1>4. ASSUME NEW p \in Local, Exists(p)'  PROVE InStream(p)'
    <2>1. Exists(p)
        BY <1>2, <1>4 DEF Exists
    <2>2. PICK k \in DOMAIN stream' : stream'[k] = Status("ADDED", p)
        BY <1>3, <2>1
    <2> QED  BY <2>2, StatusFields DEF InStream
<1>5. StreamOK' /\ LastIsCurrent'
    <2>1. SUFFICES ASSUME NEW k \in DOMAIN stream'
                   PROVE  /\ Of(stream[k].pod, First, stream[k].cg)'
                          /\ Ready(stream[k].pod)' =>
                                /\ stream'[k].cg = pods'[stream'[k].pod].cs[First] /\ stream'[k].ready
                                /\ Told(stream[k].pod, stream[k].type)'
        BY <1>3 DEF StreamOK, LastIsCurrent
    <2>2. PICK p \in Local : Exists(p) /\ stream'[k] = Status("ADDED", p)
        BY <1>3
    <2>3. /\ stream'[k].pod = p /\ stream'[k].cg = pods'[p].cs[First] /\ stream'[k].type = "ADDED"
          /\ p \in ready' => stream'[k].ready
        BY <1>2, <2>2, StatusFields
    <2>4. Of(p, First, pods[p].cs[First])'
        BY <1>2, BccAssumption, ClusterAssumption DEF ClusterInv
    <2>5. Told(p, "ADDED")'
        BY <1>1, <1>2 DEF Told
    <2> QED  BY <2>3, <2>4, <2>5 DEF Ready
<1>6. LookIsCurrent' /\ Covered'
    <2>1. \A p \in ready' : Exists(p)'
        BY <1>2 DEF ReadyOK
    <2> QED  BY <1>1, <1>4, <2>1 DEF Inv, StagesOK, LookIsCurrent, LookedAt, NoLook, Covered, Annotated
<1>7. StagesOK' /\ MapOK'
    BY <1>1 DEF Inv, StagesOK, MapOK
<1>8. EventOK'
    BY <1>1, <1>2, EventStays
<1> QED  BY <1>2, <1>5, <1>6, <1>7, <1>8 DEF Inv

LEMMA ParentEndsInv ==
    ASSUME Inv, ParentEnds, UNCHANGED ids
    PROVE  Inv'
<1>1. /\ watcher = "dead" /\ handler = "dead" /\ watcher' = "down" /\ handler' = "down" /\ map' = <<>>
      /\ UNCHANGED <<cluster, status, stream, look, pipe, event, resources, relisted>>
      /\ stream = <<>> /\ look = NoLook
    BY DEF ParentEnds, Inv, StagesOK
<1>2. ClusterInv' /\ Grows /\ ReadyOK' /\ UNCHANGED <<pods, ctrs, alive, deleting, ready>>
    BY <1>1, ClusterSame
<1>3. StagesOK' /\ StreamOK' /\ LastIsCurrent' /\ LookIsCurrent' /\ Covered'
    BY <1>1 DEF Inv, StagesOK, StreamOK, LastIsCurrent, LookIsCurrent, LookedAt, NoLook, Covered
<1>4. MapOK'
    BY <1>1, NoMap DEF Inv, MapOK
<1>5. EventOK'
    BY <1>1, <1>2, EventStays
<1> QED  BY <1>2, <1>3, <1>4, <1>5 DEF Inv

LEMMA WatcherDiesInv ==
    ASSUME Inv, WatcherDies, watcher = "up", UNCHANGED ids
    PROVE  Inv'
<1>1. /\ watcher' = "dead" /\ stream' = <<>> /\ look' = NoLook
      /\ UNCHANGED <<cluster, status, handler, map, pipe, event, resources, relisted>>
    BY DEF WatcherDies
<1>2. ClusterInv' /\ Grows /\ ReadyOK' /\ UNCHANGED <<pods, ctrs, alive, deleting, ready>>
    BY <1>1, ClusterSame
<1>3. StagesOK' /\ StreamOK' /\ LastIsCurrent' /\ LookIsCurrent' /\ Covered' /\ MapOK'
    BY <1>1 DEF Inv, StagesOK, StreamOK, LastIsCurrent, LookIsCurrent, LookedAt, NoLook, Covered, MapOK
<1>4. EventOK'
    BY <1>1, <1>2, EventStays
<1> QED  BY <1>2, <1>3, <1>4 DEF Inv


-----------------------------------------------------------------------------
(* watch_k8s_pods *)

LEMMA SkipEventInv ==
    ASSUME Inv, SkipEvent, UNCHANGED ids
    PROVE  Inv'
<1>1. /\ watcher = "up" /\ look = NoLook /\ stream # <<>> /\ ~ Head(stream).ready /\ stream' = Tail(stream)
      /\ UNCHANGED <<cluster, status, watcher, handler, look, map, pipe, event, resources, relisted>>
    BY DEF SkipEvent, EventAtHand
<1>2. ClusterInv' /\ Grows /\ ReadyOK' /\ UNCHANGED <<pods, ctrs, alive, deleting, ready>>
    BY <1>1, ClusterSame
<1>3. /\ StreamOK' /\ LastIsCurrent'
      /\ \A p \in Pods : Ready(p) /\ InStream(p) /\ ~ InStream(p)' => Head(stream).ready
    BY <1>1, TailOfStream
<1>4. LookIsCurrent'
    BY <1>1 DEF LookIsCurrent, LookedAt, NoLook
<1>5. Covered'
    <2>1. SUFFICES ASSUME NEW p \in Pods, Annotated(p)', KeepsKey(p)', ~ InStream(p)', ~ LookedAt(p)'
                   PROVE  InMapAsItShould(p)'
        BY DEF Covered
    <2>2. Ready(p) /\ Annotated(p) /\ KeepsKey(p) /\ ~ LookedAt(p)
        BY <1>1, <1>2, <2>1 DEF Ready, Annotated, KeepsKey, LookedAt, Cgs, Key, Id
    <2>3. ~ InStream(p)
        BY <1>1, <1>3, <2>1, <2>2
    <2>4. InMapAsItShould(p)
        BY <1>1, <2>2, <2>3 DEF Inv, Covered
    <2> QED  BY <1>1, <1>2, <2>4 DEF InMapAsItShould, InMap, Id
<1>6. StagesOK' /\ MapOK'
    BY <1>1 DEF Inv, StagesOK, MapOK
<1>7. EventOK'
    BY <1>1, <1>2, EventStays
<1> QED  BY <1>2, <1>3, <1>4, <1>5, <1>6, <1>7 DEF Inv

LEMMA ReadPodInv ==
    ASSUME Inv, ReadPod, UNCHANGED ids
    PROVE  Inv'
<1>0. PICK e : e = Head(stream)
    OBVIOUS
<1> DEFINE L == [stage |-> "read", type |-> e.type, cg |-> e.cg,
                 ann |-> pods[e.pod].ann, deleted |-> e.pod \in deleting]
<1>4. PICK l : /\ l = L /\ l.stage = "read" /\ l.type = e.type /\ l.cg = e.cg
               /\ l.ann = pods[e.pod].ann /\ l.deleted = (e.pod \in deleting)
    <2>1. /\ L.stage = "read" /\ L.type = e.type /\ L.cg = e.cg
          /\ L.ann = pods[e.pod].ann /\ L.deleted = (e.pod \in deleting)
        OBVIOUS
    <2> HIDE DEF L
    <2> QED  BY <2>1, Zenon
<1>1. /\ watcher = "up" /\ look = NoLook /\ stream # <<>> /\ stream' = Tail(stream)
      /\ look' = IF pods[e.pod].ann = NoAnn THEN NoLook ELSE l
      /\ UNCHANGED <<cluster, status, watcher, handler, map, pipe, event, resources, relisted>>
    BY <1>0, <1>4 DEF ReadPod, EventAtHand
<1>2. ClusterInv /\ ClusterInv' /\ Grows /\ ReadyOK' /\ UNCHANGED <<pods, ctrs, alive, deleting, ready>>
    BY <1>1, ClusterSame DEF Inv
<1>3. /\ StreamOK' /\ LastIsCurrent' /\ e.pod \in Local /\ e.pod \in Pods /\ Of(e.pod, First, e.cg)
      /\ \A p \in Pods : Ready(p) /\ InStream(p) /\ ~ InStream(p)' =>
            e.pod = p /\ e.cg = pods[p].cs[First] /\ Told(p, e.type)
    BY <1>0, <1>1, TailOfStream
<1>5. \A p : (Ready(p)' <=> Ready(p)) /\ \A t : Told(p, t)' <=> Told(p, t)
    BY <1>1, <1>2 DEF Ready, Told
<1>6. \A p \in Pods : ~ InStream(p) => InMapAsItShould(p) \/ ~ (Annotated(p) /\ KeepsKey(p))
    BY <1>1 DEF Inv, Covered, LookedAt, NoLook
<1>7. LookIsCurrent'
    <2>1. CASE look' = NoLook
        BY <2>1 DEF LookIsCurrent, LookedAt, NoLook
    <2>2. CASE look' = l
        <3>1. SUFFICES ASSUME NEW p \in Local, Ready(p)', LookedAt(p)', ~ InStream(p)'
                       PROVE  l.ann = pods'[p].ann /\ l.deleted = (p \in deleting') /\ Told(p, l.type)'
            BY <1>4, <2>2 DEF LookIsCurrent
        <3>2. Ready(p) /\ p \in Pods /\ pods[p].cs[First] \in alive
            BY <1>5, <3>1, ClusterAssumption DEF Ready, Inv, ReadyOK
        <3>3. e.cg = pods[p].cs[First]
            BY <1>2, <1>4, <2>2, <3>1 DEF LookedAt
        <3>4. ctrs[e.cg].pod = p /\ e.cg # 0
            BY <1>2, <3>2, <3>3, RunningType
        <3>5. e.pod = p
            BY <1>3, <3>4 DEF Of
        <3>6. InStream(p)
            <4>1. stream \in Seq(StatusT) /\ 1 \in DOMAIN stream /\ stream[1] = e
                BY <1>0, <1>1 DEF Inv, StreamOK
            <4> QED  BY <3>5, <4>1 DEF InStream
        <3>7. Told(p, e.type)'
            BY <1>3, <1>5, <3>1, <3>2, <3>6
        <3> QED  BY <1>1, <1>2, <1>4, <3>5, <3>7
    <2> QED  BY <1>1, <2>1, <2>2
<1>8. Covered'
    <2>1. SUFFICES ASSUME NEW p \in Pods, Annotated(p)', KeepsKey(p)', ~ InStream(p)', ~ LookedAt(p)'
                   PROVE  InMapAsItShould(p)'
        BY DEF Covered
    <2>2. Ready(p) /\ Annotated(p) /\ KeepsKey(p) /\ pods[p].ann # NoAnn
        BY <1>1, <1>2, <2>1 DEF Ready, Annotated, KeepsKey, Cgs, Key, Id
    <2>3. ~ InStream(p)
        <3>1. SUFFICES ASSUME InStream(p)  PROVE FALSE
            OBVIOUS
        <3>2. e.pod = p /\ e.cg = pods[p].cs[First]
            BY <1>3, <2>1, <2>2, <3>1
        <3>3. look' = l
            BY <1>1, <2>2, <3>2
        <3> QED  BY <1>2, <1>4, <2>1, <3>2, <3>3 DEF LookedAt
    <2>4. InMapAsItShould(p)
        BY <1>6, <2>2, <2>3
    <2> QED  BY <1>1, <1>2, <2>4 DEF InMapAsItShould, InMap, Id
<1>9. StagesOK' /\ MapOK'
    BY <1>1 DEF Inv, StagesOK, MapOK
<1>10. EventOK'
    BY <1>1, <1>2, EventStays
<1> QED  BY <1>2, <1>3, <1>7, <1>8, <1>9, <1>10 DEF Inv

\* The watcher is done with what it looked at.  What is left to show is that the
\* map is as it should be for that pod, and still is for the others.
LEMMA LookDone ==
    ASSUME Inv, look.stage = "read", look' = NoLook, MapOK',
           UNCHANGED <<cluster, ids, status, watcher, handler, stream, event, resources, relisted>>,
           \A p \in Pods : Annotated(p) /\ KeepsKey(p) /\ ~ InStream(p) =>
               /\ LookedAt(p) => InMapAsItShould(p)'
               /\ ~ LookedAt(p) /\ InMapAsItShould(p) => InMapAsItShould(p)'
    PROVE  Inv'
<1>1. ClusterInv' /\ Grows /\ ReadyOK' /\ UNCHANGED <<pods, ctrs, alive, deleting, ready>>
    BY ClusterSame
<1>2. StreamOK'
    BY <1>1 DEF Inv, StreamOK, Of, Cgs
<1>3. LastIsCurrent'
    BY <1>1 DEF Inv, LastIsCurrent, Ready, Told
<1>4. watcher = "up"
    BY DEF Inv, StagesOK, NoLook
<1>5. LookIsCurrent'
    BY DEF LookIsCurrent, LookedAt, NoLook
<1>6. Covered'
    <2>1. SUFFICES ASSUME NEW p \in Pods, Annotated(p)', KeepsKey(p)', ~ InStream(p)'
                   PROVE  InMapAsItShould(p)'
        BY DEF Covered
    <2>2. Annotated(p) /\ KeepsKey(p) /\ ~ InStream(p)
        BY <1>1, <2>1 DEF Annotated, KeepsKey, Cgs, Key, Id, InStream
    <2> QED  BY <1>4, <2>2 DEF Inv, Covered
<1>7. StagesOK'
    BY <1>4 DEF Inv, StagesOK
<1>8. EventOK'
    BY <1>1, EventStays
<1> QED  BY <1>1, <1>2, <1>3, <1>5, <1>6, <1>7, <1>8 DEF Inv

\* What the watcher looks at is the pod's present container, annotation and fate.
LEMMA LookTells ==
    ASSUME Inv, NEW p \in Pods, Annotated(p), ~ InStream(p), LookedAt(p)
    PROVE  /\ look.cg \in alive /\ look.ann = pods[p].ann
           /\ look.deleted = (p \in deleting) /\ Told(p, look.type)
<1>1. Ready(p) /\ p \in Local
    BY DEF Annotated, Ready
<1> QED  BY <1>1 DEF Inv, ReadyOK, LookIsCurrent, LookedAt, Ready

LEMMA LookEndsInv ==
    ASSUME Inv, LookEnds, UNCHANGED ids
    PROVE  Inv'
<1>1. /\ look.stage = "read" /\ look' = NoLook
      /\ Found => ~ CommandsRaise /\ (look.ann.commands # <<>> => ~ Enters /\ ~ Removes)
      /\ UNCHANGED <<cluster, status, watcher, handler, stream, map, pipe, event, resources, relisted>>
    BY DEF LookEnds
<1>2. MapOK' /\ UNCHANGED <<pods, deleting>>
    BY <1>1 DEF Inv, MapOK, cluster, status
<1>3. ASSUME NEW p \in Pods, Annotated(p), ~ InStream(p), LookedAt(p)  PROVE FALSE
    <2>1. /\ look.cg \in alive /\ look.ann = pods[p].ann
          /\ look.deleted = (p \in deleting) /\ Told(p, look.type)
        BY <1>3, LookTells
    <2>2. Found /\ look.ann.commands # <<>>
        BY <1>1, <1>3, <2>1 DEF Found, Annotated
    <2>3. Enters \/ Removes
        BY <2>1 DEF Enters, Removes, Told
    <2> QED  BY <1>1, <2>2, <2>3
<1>4. \A p \in Pods : InMapAsItShould(p) => InMapAsItShould(p)'
    BY <1>1, <1>2 DEF InMapAsItShould, InMap, Id
<1> QED  BY <1>1, <1>2, <1>3, <1>4, LookDone

\* Another container has another key.
LEMMA KeyApart ==
    ASSUME Inv, NEW p \in Pods, KeepsKey(p), look.cg \in alive, look.cg # pods[p].cs[First]
    PROVE  Key(look.cg) # Id(pods[p].cs[First])
<1>1. look.cg \in Cgs
    BY DEF Inv, ClusterInv
<1> QED  BY <1>1 DEF KeepsKey

LEMMA EnterEntryInv ==
    ASSUME Inv, EnterEntry, UNCHANGED ids
    PROVE  Inv'
<1>1. /\ look.stage = "read" /\ look.cg \in alive /\ look' = NoLook
      /\ ~ CommandsRaise /\ look.ann.commands # <<>> /\ Enters
      /\ map' = Put(Key(look.cg), Head(look.ann.commands))
      /\ UNCHANGED <<cluster, status, watcher, handler, stream, pipe, event, resources, relisted>>
    BY DEF EnterEntry, Found
<1>2. PICK key : key = Key(look.cg)
    OBVIOUS
<1>3. /\ DOMAIN map' = DOMAIN map \cup {key} /\ map'[key] = Head(look.ann.commands)
      /\ \A k \in DOMAIN map \ {key} : map'[k] = map[k]
    BY <1>1, <1>2 DEF Put
<1>4. MapOK'
    <2>1. key \in DOMAIN map \/ Cardinality(DOMAIN map) # TableSize
        BY <1>1, <1>2 DEF CommandsRaise
    <2>2. IsFiniteSet(DOMAIN map) /\ Cardinality(DOMAIN map) <= TableSize
        BY DEF Inv, MapOK
    <2>3. /\ IsFiniteSet(DOMAIN map') /\ Cardinality(DOMAIN map) \in Nat
          /\ Cardinality(DOMAIN map') = IF key \in DOMAIN map THEN Cardinality(DOMAIN map)
                                        ELSE Cardinality(DOMAIN map) + 1
        BY <1>3, <2>2, FS_AddElement, FS_CardinalityType
    <2>4. Cardinality(DOMAIN map') <= TableSize
        BY <2>1, <2>2, <2>3, BccAssumption
    <2> QED  BY <1>1, <2>3, <2>4 DEF Inv, MapOK
<1>5. UNCHANGED <<pods, deleting>>
    BY <1>1 DEF cluster, status
<1>6. ASSUME NEW p \in Pods, Annotated(p), KeepsKey(p), ~ InStream(p), LookedAt(p)
      PROVE  InMapAsItShould(p)'
    <2>1. look.ann = pods[p].ann /\ look.deleted = (p \in deleting) /\ Told(p, look.type)
        BY <1>6, LookTells
    <2>2. p \notin deleting \ relisted
        BY <1>1, <2>1 DEF Enters, Told
    <2>3. key = Id(pods[p].cs[First])
        BY <1>2, <1>6 DEF KeepsKey, LookedAt
    <2>4. InMap(p)'
        BY <1>3, <1>5, <2>1, <2>3 DEF InMap, Id
    <2> QED  BY <1>1, <1>5, <2>2, <2>4 DEF InMapAsItShould
<1>7. ASSUME NEW p \in Pods, KeepsKey(p), ~ LookedAt(p), InMapAsItShould(p)
      PROVE  InMapAsItShould(p)'
    <2>1. key # Id(pods[p].cs[First])
        BY <1>1, <1>2, <1>7, KeyApart DEF LookedAt
    <2> QED  BY <1>1, <1>3, <1>5, <1>7, <2>1 DEF InMapAsItShould, InMap, Id
<1> QED  BY <1>1, <1>4, <1>6, <1>7, LookDone

LEMMA RemoveEntryInv ==
    ASSUME Inv, RemoveEntry, UNCHANGED ids
    PROVE  Inv'
<1>1. /\ look.stage = "read" /\ look.cg \in alive /\ look' = NoLook /\ Removes
      /\ map' = [k \in DOMAIN map \ {Key(look.cg)} |-> map[k]]
      /\ UNCHANGED <<cluster, status, watcher, handler, stream, pipe, event, resources, relisted>>
    BY DEF RemoveEntry, Found
<1>2. PICK key : key = Key(look.cg)
    OBVIOUS
<1>3. DOMAIN map' = DOMAIN map \ {key} /\ \A k \in DOMAIN map \ {key} : map'[k] = map[k]
    BY <1>1, <1>2
<1>4. MapOK'
    <2>1. IsFiniteSet(DOMAIN map) /\ Cardinality(DOMAIN map) <= TableSize
        BY DEF Inv, MapOK
    <2>2. /\ IsFiniteSet(DOMAIN map') /\ Cardinality(DOMAIN map') <= Cardinality(DOMAIN map)
          /\ Cardinality(DOMAIN map) \in Nat /\ Cardinality(DOMAIN map') \in Nat
        BY <1>3, <2>1, FS_Subset, FS_CardinalityType
    <2> QED  BY <1>1, <2>1, <2>2, BccAssumption DEF Inv, MapOK
<1>5. UNCHANGED <<pods, deleting>>
    BY <1>1 DEF cluster, status
<1>6. ASSUME NEW p \in Pods, Annotated(p), KeepsKey(p), ~ InStream(p), LookedAt(p)
      PROVE  InMapAsItShould(p)'
    <2>1. look.deleted = (p \in deleting) /\ Told(p, look.type)
        BY <1>6, LookTells
    <2>2. p \in deleting
        BY <1>1, <2>1 DEF Removes, Told
    <2>3. key = Id(pods[p].cs[First])
        BY <1>2, <1>6 DEF KeepsKey, LookedAt
    <2> QED  BY <1>1, <1>3, <1>5, <2>2, <2>3 DEF InMapAsItShould, Id
<1>7. ASSUME NEW p \in Pods, KeepsKey(p), ~ LookedAt(p), InMapAsItShould(p)
      PROVE  InMapAsItShould(p)'
    <2>1. key # Id(pods[p].cs[First])
        BY <1>1, <1>2, <1>7, KeyApart DEF LookedAt
    <2> QED  BY <1>1, <1>3, <1>5, <1>7, <2>1 DEF InMapAsItShould, InMap, Id
<1> QED  BY <1>1, <1>4, <1>6, <1>7, LookDone

LEMMA WatcherInv ==
    ASSUME Inv, Watcher, UNCHANGED ids
    PROVE  Inv'
<1>1. CASE ReadPodRaises
    BY <1>1, WatcherDiesInv DEF ReadPodRaises, EventAtHand
<1>2. CASE LookRaises
    <2>1. watcher = "up"
        BY <1>2 DEF LookRaises, Found, Inv, StagesOK, NoLook
    <2> QED  BY <1>2, <2>1, WatcherDiesInv DEF LookRaises
<1> QED  BY <1>1, <1>2, SkipEventInv, ReadPodInv, LookEndsInv, EnterEntryInv, RemoveEntryInv DEF Watcher


-----------------------------------------------------------------------------
(* handle_ebpf_snoop_trace *)

\* A step that only the handler notices.
LEMMA HandlerStep ==
    ASSUME Inv, UNCHANGED <<cluster, ids, status, watcher, stream, look, map, relisted>>,
           StagesOK', MapOK', EventOK'
    PROVE  Inv'
<1>1. ClusterInv' /\ Grows /\ ReadyOK' /\ UNCHANGED <<pods, ctrs, alive, deleting, ready>>
    BY ClusterSame
<1>2. \A q \in Local : Bystander(q)
    BY <1>1 DEF Bystander
<1>3. StreamOK' /\ LastIsCurrent' /\ LookIsCurrent' /\ Covered'
    BY <1>1, <1>2, StreamUntouched
<1> QED  BY <1>1, <1>3 DEF Inv

\* The oldest line goes.
LEMMA TailOfPipe ==
    ASSUME MapOK, pipe # <<>>
    PROVE  /\ Tail(pipe) \in Seq(LineT) /\ Len(Tail(pipe)) = Len(pipe) - 1 /\ Len(pipe) \in Nat
           /\ Head(pipe).command \in Commands
<1>1. pipe \in Seq(LineT) /\ Head(pipe) \in LineT
    BY DEF MapOK
<1> QED  BY <1>1 DEF LineT

LEMMA LineTaken ==
    ASSUME Inv, pipe # <<>>, pipe' = Tail(pipe), UNCHANGED map
    PROVE  MapOK'
<1>1. MapOK /\ Len(pipe) <= PipeCap
    BY DEF Inv, MapOK
<1>2. pipe' \in Seq(LineT) /\ Len(pipe') <= PipeCap
    BY <1>1, TailOfPipe, BccAssumption
<1> QED  BY <1>1, <1>2 DEF MapOK

LEMMA ResolveInv ==
    ASSUME Inv, UNCHANGED ids, ResolveNothing \/ \E p \in Pods : Resolve(p)
    PROVE  Inv'
<1>1. /\ handler = "up" /\ event = NoEvent /\ pipe # <<>> /\ pipe' = Tail(pipe)
      /\ UNCHANGED <<cluster, status, watcher, handler, stream, look, map, resources, relisted>>
    BY DEF ResolveNothing, Resolve, Line
<1>2. MapOK'
    BY <1>1, LineTaken
<1>3. StagesOK'
    BY <1>1 DEF Inv, StagesOK
<1>4. EventOK'
    <2>1. CASE UNCHANGED event
        BY <1>1, <2>1, EventStays DEF cluster
    <2>2. ASSUME NEW p \in Pods, Resolve(p)  PROVE EventOK'
        <3>1. PICK e : e = Head(pipe)
            OBVIOUS
        <3>2. /\ p \in Local /\ e.cgroup \in alive
              /\ event' = [stage |-> "get", pod |-> p, ctr |-> ctrs[e.cgroup].ctr, cmd |-> e.command]
            BY <2>2, <3>1 DEF Resolve
        <3>3. ctrs[e.cgroup].ctr \in Ctrs
            BY <3>2, CtrType DEF Inv, ClusterInv
        <3>4. e.command \in Commands
            BY <1>1, <3>1, TailOfPipe DEF Inv
        <3>5. event' \in GetT /\ event'.stage = "get"
            BY <3>2, <3>3, <3>4 DEF GetT
        <3> QED  BY <1>1, <3>5 DEF EventOK, Inv
    <2> QED  BY <2>1, <2>2 DEF ResolveNothing
<1> QED  BY <1>1, <1>2, <1>3, <1>4, HandlerStep

LEMMA HandlerDiesInv ==
    ASSUME Inv, UNCHANGED ids, GetRaises \/ PatchRaises
    PROVE  Inv'
<1>1. /\ handler' = "dead" /\ event' = NoEvent /\ resources' = Unbound /\ event.stage # "none"
      /\ UNCHANGED <<cluster, status, watcher, stream, look, map, relisted, pipe>>
    BY DEF GetRaises, PatchRaises, HandlerDies, Getting
<1>2. StagesOK'
    BY <1>1 DEF Inv, StagesOK, NoEvent
<1>3. MapOK'
    BY <1>1 DEF Inv, MapOK
<1>4. EventOK'
    BY <1>1 DEF EventOK, NoEvent
<1> QED  BY <1>1, <1>2, <1>3, <1>4, HandlerStep

LEMMA GetContinuesInv ==
    ASSUME Inv, UNCHANGED ids, GetContinues
    PROVE  Inv'
<1>1. /\ event' = NoEvent
      /\ UNCHANGED <<cluster, status, watcher, handler, stream, look, map, pipe, resources, relisted>>
    BY DEF GetContinues
<1>2. StagesOK' /\ MapOK'
    BY <1>1 DEF Inv, StagesOK, MapOK
<1>3. EventOK'
    BY <1>1 DEF Inv, EventOK, NoEvent
<1> QED  BY <1>1, <1>2, <1>3, HandlerStep

\* The annotation that is read names the container and the resources.
LEMMA GetInv ==
    ASSUME Inv, UNCHANGED ids, Get
    PROVE  Inv'
<1>1. /\ event.stage = "get" /\ Matches /\ (Now.resize = Empty => resources # Unbound)
      /\ resources' = IF Now.resize = Empty THEN resources ELSE Now.resize
      /\ event' = [stage |-> "patch", pod |-> event.pod, ctr |-> event.ctr, fresh |-> TRUE]
      /\ UNCHANGED <<cluster, status, watcher, handler, stream, look, map, pipe, relisted>>
    BY DEF Get, Getting
<1>2. event.pod \in Local /\ event.pod \in Pods /\ event.ctr \in Ctrs
    BY <1>1, EventType DEF Inv
<1>3. handler = "up"
    BY <1>1 DEF Inv, StagesOK, NoEvent
<1>4. StagesOK' /\ MapOK'
    BY <1>1, <1>3 DEF Inv, StagesOK, MapOK
<1>5. event' \in PatchT /\ event'.pod = event.pod /\ event'.ctr = event.ctr /\ event'.stage = "patch"
    BY <1>1, <1>2 DEF PatchT
<1>6. pods' = pods /\ Now' = Now
    BY <1>1, <1>5 DEF cluster, Now
<1>7. Now # NoAnn /\ Now.cname = event.ctr /\ Now \in Anns
    BY <1>1, <1>2, PodType DEF Matches, Parsed, Now, Inv, ClusterInv
<1>8. resources' \in Res /\ Now.resize \in {Empty, resources'}
    BY <1>1, <1>7 DEF Inv, EventOK, Res
<1>9. EventOK'
    BY <1>5, <1>6, <1>7, <1>8 DEF EventOK
<1> QED  BY <1>1, <1>4, <1>9, HandlerStep

\* What a patch does to the pods: the annotation at that moment says so.
LEMMA PatchStep ==
    ASSUME Inv, NEW p \in Pods, Patch(p)
    PROVE  /\ ClusterInv' /\ Grows /\ p \in Local
           /\ \A q \in Pods \ {p} : pods'[q] = pods[q]
           /\ pods'[p].phase = pods[p].phase
           /\ pods'[p].ann = pods[p].ann /\ pods'[p].cs = pods[p].cs
           /\ \A c \in Ctrs : pods'[p].res[c] # pods[p].res[c] =>
                 /\ pods[p].ann # NoAnn /\ pods[p].ann.cname = c
                 /\ pods'[p].res[c] = resources /\ pods[p].ann.resize \in {Empty, resources}
<1>1. PICK c, r : c = event.ctr /\ r = resources
    OBVIOUS
<1>2. /\ event.stage = "patch" /\ event.pod = p /\ Exists(p) /\ event.fresh /\ SetResources(p, c, r)
    BY <1>1 DEF Patch, Patched
<1>3. p \in Local /\ c \in Ctrs /\ r \in Res
    BY <1>1, <1>2, EventType DEF Inv, EventOK
<1>4. /\ ClusterInv' /\ Grows
      /\ pods'[p].res[c] = r /\ \A d \in Ctrs \ {c} : pods'[p].res[d] = pods[p].res[d]
      /\ \A q \in Pods \ {p} : pods'[q] = pods[q]
      /\ pods'[p].phase = pods[p].phase
      /\ pods'[p].ann = pods[p].ann /\ pods'[p].cs = pods[p].cs
    BY <1>2, <1>3, SetResourcesStep DEF Inv
<1>5. pods[p].ann # NoAnn /\ pods[p].ann.cname = c /\ pods[p].ann.resize \in {Empty, resources}
    BY <1>1, <1>2 DEF Inv, EventOK, Now
<1> QED  BY <1>1, <1>3, <1>4, <1>5

LEMMA PatchInv ==
    ASSUME Inv, UNCHANGED ids, NEW p \in Pods, Patch(p)
    PROVE  Inv'
<1>1. /\ event' = NoEvent /\ event.stage = "patch"
      /\ stream' = IF pods' # pods /\ watcher = "up" THEN Append(stream, Status("MODIFIED", p)') ELSE stream
      /\ UNCHANGED <<status, watcher, handler, look, map, pipe, resources, relisted>>
      /\ UNCHANGED <<ctrs, alive, deleting, ready>>
    BY DEF Patch, Patched, SetResources, status
<1>2. /\ ClusterInv' /\ Grows /\ p \in Local /\ (\A q \in Pods \ {p} : pods'[q] = pods[q])
      /\ pods'[p].phase = pods[p].phase /\ pods'[p].cs = pods[p].cs
    BY PatchStep
<1>7. ReadyOK'
    <2>1. \A q \in Pods : pods'[q].phase = pods[q].phase /\ pods'[q].cs = pods[q].cs
        BY <1>2
    <2> QED  BY <1>1, <2>1 DEF Inv, ReadyOK, Exists
<1>3. \A q \in Pods \ {p} : Bystander(q)
    BY <1>1, <1>2 DEF Bystander
<1>4. StreamOK' /\ LastIsCurrent' /\ LookIsCurrent' /\ Covered'
    <2>1. CASE pods' = pods
        <3>1. stream' = stream /\ \A q \in Local : Bystander(q)
            BY <1>1, <2>1 DEF Bystander
        <3> QED  BY <1>1, <1>2, <3>1, StreamUntouched
    <2>2. CASE pods' # pods
        <3>1. stream' = IF watcher = "up" /\ p \in Local THEN Append(stream, Status("MODIFIED", p)') ELSE stream
            BY <1>1, <1>2, <2>2
        <3>2. Told(p, "MODIFIED")'
            BY DEF Told
        <3> QED  BY <1>1, <1>2, <1>3, <3>1, <3>2, EmitStep
    <2> QED  BY <2>1, <2>2
<1>5. StagesOK'
    <2>1. handler = "up"
        BY <1>1 DEF Inv, StagesOK, NoEvent
    <2>2. watcher # "up" => stream' = stream
        BY <1>1
    <2> QED  BY <1>1, <2>1, <2>2 DEF Inv, StagesOK
<1>6. MapOK' /\ EventOK'
    BY <1>1 DEF Inv, MapOK, EventOK, NoEvent
<1> QED  BY <1>2, <1>4, <1>5, <1>6, <1>7 DEF Inv

LEMMA HandlerInv ==
    ASSUME Inv, Handler, UNCHANGED ids
    PROVE  Inv'
BY ResolveInv, HandlerDiesInv, GetContinuesInv, GetInv, PatchInv DEF Handler

-----------------------------------------------------------------------------
(* The cluster around the agent, and the probe *)

\* A pod's object changes: both processes hear of it.
LEMMA PodEmits ==
    ASSUME Inv, ClusterInv', Grows, ReadyOK',
           UNCHANGED <<ids, watcher, handler, look, map, pipe, resources, relisted>>,
           NEW p \in Pods, NEW type \in {"ADDED", "MODIFIED", "DELETED"}, Emit(type, p),
           \A q \in Pods \ {p} : Bystander(q),
           Ready(p)' => Told(p, type)'
    PROVE  Inv'
<1>1. /\ stream' = IF watcher = "up" /\ p \in Local THEN Append(stream, Status(type, p)') ELSE stream
      /\ event' = IF event.stage = "patch" /\ event.pod = p THEN [event EXCEPT !.fresh = FALSE] ELSE event
    BY DEF Emit
<1>2. StreamOK' /\ LastIsCurrent' /\ LookIsCurrent' /\ Covered'
    BY <1>1, EmitStep
<1>3. EventOK'
    <2>1. CASE event.stage = "patch" /\ event.pod = p
        <3>1. event \in PatchT /\ event' = [event EXCEPT !.fresh = FALSE]
            BY <1>1, <2>1, EventType DEF Inv
        <3>2. event' \in PatchT /\ event'.stage = "patch" /\ event'.fresh = FALSE
            BY <3>1 DEF PatchT
        <3> QED  BY <2>1, <3>2 DEF Inv, EventOK
    <2>2. CASE event.stage # "patch"
        BY <1>1, <2>2 DEF Inv, EventOK
    <2>3. CASE event.stage = "patch" /\ event.pod # p
        <3>1. event' = event /\ event.pod \in Pods
            BY <1>1, <2>3, EventType DEF Inv
        <3>2. pods'[event.pod] = pods[event.pod]
            BY <2>3, <3>1 DEF Bystander
        <3>3. Now' = Now /\ (Exists(event.pod)' <=> Exists(event.pod))
            BY <3>1, <3>2 DEF Now, Exists
        <3> QED  BY <3>1, <3>3 DEF Inv, EventOK
    <2> QED  BY <2>1, <2>2, <2>3
<1>4. StagesOK'
    <2>1. watcher # "up" => stream' = stream
        BY <1>1
    <2>2. handler # "up" => event' = event
        BY <1>1 DEF Inv, StagesOK, NoEvent
    <2> QED  BY <2>1, <2>2 DEF Inv, StagesOK
<1>5. MapOK'
    BY DEF Inv, MapOK
<1> QED  BY <1>2, <1>3, <1>4, <1>5 DEF Inv

\* Nothing starts or ends to be ready, and what is ready goes on running.
LEMMA ReadyStays ==
    ASSUME Inv, UNCHANGED status,
           \A q \in ready : Exists(q)' /\ pods'[q].cs[First] \in alive'
    PROVE  ReadyOK' /\ UNCHANGED <<deleting, ready>>
BY DEF Inv, ReadyOK, status

\* A change of a pod that is none of its annotation or its containers.
LEMMA OneMoreEdit ==
    ASSUME ClusterInv, edits < MaxEdits, edits' = edits + 1,
           UNCHANGED <<pods, ctrs, alive, task, used, hist>>
    PROVE  ClusterInv' /\ Grows
<1>1. Cgs' = Cgs /\ \A q, c, n : Of(q, c, n)' <=> Of(q, c, n)
    BY DEF Cgs, Of
<1>2. edits' \in 0 .. MaxEdits
    BY ClusterAssumption DEF ClusterInv
<1> QED  BY <1>1, <1>2, NothingStartedGrows DEF ClusterInv

LEMMA PodChangesInv ==
    ASSUME Inv, PodChanges, UNCHANGED ids
    PROVE  Inv'
<1>1. /\ UNCHANGED <<ids, watcher, handler, look, map, pipe, resources, relisted>> /\ ClusterInv
      /\ ReadyOK /\ \A q \in ready : q \in Pods /\ Exists(q) /\ pods[q].cs[First] \in alive
    BY DEF PodChanges, Inv, ReadyOK
<1>2. \A p : Told(p, "MODIFIED")'
    BY DEF Told
<1>3. ASSUME NEW p \in Pods, CreatePod(p), UNCHANGED status, Emit("ADDED", p)  PROVE Inv'
    <2>1. /\ ClusterInv' /\ Grows /\ UNCHANGED alive /\ pods'[p].cs[First] = 0
          /\ \A q \in Pods \ {p} : pods'[q] = pods[q]
        BY <1>1, <1>3, CreatePodStep, BccAssumption DEF CreatePod
    <2>2. p \notin ready
        BY <1>1, <1>3 DEF CreatePod, Exists
    <2>3. ReadyOK' /\ UNCHANGED <<deleting, ready>>
        BY <1>1, <1>3, <2>1, <2>2, ReadyStays DEF Exists
    <2>4. ~ Ready(p)' /\ \A q \in Pods \ {p} : Bystander(q)
        BY <2>1, <2>2, <2>3 DEF Bystander, Ready
    <2> QED  BY <1>1, <1>3, <2>1, <2>3, <2>4, PodEmits
<1>4. ASSUME NEW p \in Pods, EditAnnotation(p), UNCHANGED status, Emit("MODIFIED", p)  PROVE Inv'
    <2>1. ClusterInv' /\ Grows /\ UNCHANGED alive /\ \A q \in Pods \ {p} : pods'[q] = pods[q]
        BY <1>1, <1>4, EditAnnotationStep DEF EditAnnotation
    <2>2. pods'[p].phase = pods[p].phase /\ pods'[p].cs = pods[p].cs
        BY <1>1, <1>4 DEF EditAnnotation, ClusterInv, PodT
    <2>3. ReadyOK' /\ UNCHANGED <<deleting, ready>>
        BY <1>1, <1>4, <2>1, <2>2, ReadyStays DEF Exists
    <2>4. \A q \in Pods \ {p} : Bystander(q)
        BY <2>1, <2>3 DEF Bystander
    <2> QED  BY <1>1, <1>2, <1>4, <2>1, <2>3, <2>4, PodEmits
<1>5. ASSUME NEW p \in Pods, MarkDeleted(p), Emit("MODIFIED", p)  PROVE Inv'
    <2>1. /\ deleting' = deleting \cup {p} /\ edits < MaxEdits /\ edits' = edits + 1
          /\ UNCHANGED <<pods, ctrs, alive, task, used, hist, ready>>
        BY <1>5 DEF MarkDeleted
    <2>2. ClusterInv' /\ Grows
        BY <1>1, <2>1, OneMoreEdit
    <2>3. ReadyOK'
        BY <1>1, <2>1 DEF ReadyOK, Exists
    <2>4. \A q \in Pods \ {p} : Bystander(q)
        BY <2>1 DEF Bystander
    <2> QED  BY <1>1, <1>2, <1>5, <2>2, <2>3, <2>4, PodEmits
<1>6. ASSUME NEW p \in Pods, DeletePod(p), UNCHANGED status, Emit("DELETED", p)  PROVE Inv'
    <2>1. ClusterInv' /\ Grows /\ UNCHANGED alive /\ ~ Exists(p)' /\ \A q \in Pods \ {p} : pods'[q] = pods[q]
        BY <1>1, <1>6, DeletePodStep DEF DeletePod
    <2>2. p \notin ready
        <3>1. SUFFICES ASSUME p \in ready  PROVE FALSE
            OBVIOUS
        <3>2. pods[p].cs[First] \in alive
            BY <1>1, <3>1
        <3>3. pods[p].cs[First] \in Instances(p) \cap alive
            BY <1>1, <3>2, RunningType DEF Instances
        <3> QED  BY <1>6, <3>3 DEF DeletePod
    <2>3. ReadyOK' /\ UNCHANGED <<deleting, ready>>
        BY <1>1, <1>6, <2>1, <2>2, ReadyStays DEF Exists
    <2>4. ~ Ready(p)' /\ \A q \in Pods \ {p} : Bystander(q)
        BY <2>1, <2>2, <2>3 DEF Bystander, Ready
    <2> QED  BY <1>1, <1>6, <2>1, <2>3, <2>4, PodEmits
<1>7. ASSUME NEW p \in Pods, StartAny(p), Emit("MODIFIED", p)  PROVE Inv'
    <2>1. PICK c \in Ctrs : StartContainer(p, c) /\ (ready' = ready \/ (c = First /\ ready' = ready \cup {p}))
        BY <1>7 DEF StartAny
    <2>2. ClusterInv' /\ Grows /\ alive' \cap Cgs = alive /\ \A q \in Pods \ {p} : pods'[q] = pods[q]
        BY <1>1, <2>1, StartContainerStep
    <2>3. /\ alive \subseteq alive' /\ UNCHANGED deleting /\ Exists(p) /\ pods[p].cs[c] \notin alive
          /\ pods'[p].phase = pods[p].phase /\ pods'[p].cs[c] \in alive'
          /\ \A d \in Ctrs \ {c} : pods'[p].cs[d] = pods[p].cs[d]
        BY <1>1, <1>7, <2>1 DEF StartAny, StartContainer, ClusterInv, PodT
    <2>4. ASSUME NEW q \in ready'  PROVE q \in Pods /\ Exists(q)' /\ pods'[q].cs[First] \in alive'
        <3>1. CASE q # p
            BY <1>1, <2>1, <2>2, <2>3, <2>4, <3>1 DEF Exists
        <3>2. CASE q = p
            BY <1>1, <2>1, <2>3, <2>4, <3>2, BccAssumption DEF Exists
        <3> QED  BY <3>1, <3>2
    <2>5. ReadyOK'
        BY <1>1, <2>3, <2>4 DEF ReadyOK
    <2>6. \A q \in Pods \ {p} : Bystander(q)
        BY <2>1, <2>2, <2>3 DEF Bystander
    <2> QED  BY <1>1, <1>2, <1>7, <2>2, <2>5, <2>6, PodEmits
<1>8. ASSUME NEW p \in Pods, BecomesReady(p), Emit("MODIFIED", p)  PROVE Inv'
    <2>1. /\ Exists(p) /\ pods[p].cs[First] \in alive /\ ready' = ready \cup {p}
          /\ UNCHANGED <<pods, ctrs, alive, task, used, edits, hist, deleting>>
        BY <1>8 DEF BecomesReady, cluster
    <2>2. ClusterInv' /\ Grows
        <3>1. Cgs' = Cgs /\ \A q, c, n : Of(q, c, n)' <=> Of(q, c, n)
            BY <2>1 DEF Cgs, Of
        <3> QED  BY <1>1, <2>1, <3>1, NothingStartedGrows DEF ClusterInv
    <2>3. ReadyOK'
        BY <1>1, <2>1 DEF ReadyOK, Exists
    <2>4. \A q \in Pods \ {p} : Bystander(q)
        BY <2>1 DEF Bystander
    <2> QED  BY <1>1, <1>2, <1>8, <2>2, <2>3, <2>4, PodEmits
<1>9. ASSUME NEW p \in Pods, LosesReadiness(p), Emit("MODIFIED", p)  PROVE Inv'
    <2>1. /\ ready' = ready \ {p} /\ edits < MaxEdits /\ edits' = edits + 1
          /\ UNCHANGED <<pods, ctrs, alive, task, used, hist, deleting>>
        BY <1>9 DEF LosesReadiness
    <2>2. ClusterInv' /\ Grows
        BY <1>1, <2>1, OneMoreEdit
    <2>3. ReadyOK'
        BY <1>1, <2>1 DEF ReadyOK, Exists
    <2>4. \A q \in Pods \ {p} : Bystander(q)
        BY <2>1 DEF Bystander
    <2> QED  BY <1>1, <1>2, <1>9, <2>2, <2>3, <2>4, PodEmits
<1> QED  BY <1>3, <1>4, <1>5, <1>6, <1>7, <1>8, <1>9 DEF PodChanges

LEMMA ContainerExitsInv ==
    ASSUME Inv, ContainerExits, UNCHANGED ids
    PROVE  Inv'
<1>1. PICK n \in alive : /\ ExitContainer(n) /\ Emit("MODIFIED", ctrs[n].pod)
                         /\ ready' = {q \in ready : pods[q].cs[First] # n}
    BY DEF ContainerExits
<1>2. /\ UNCHANGED <<ids, deleting, watcher, handler, look, map, pipe, resources, relisted>>
      /\ ClusterInv /\ ReadyOK
    BY DEF ContainerExits, Inv
<1>3. PICK p : p = ctrs[n].pod
    OBVIOUS
<1>4. p \in Pods
    BY <1>2, <1>3, CtrType DEF ClusterInv
<1>5. ClusterInv' /\ Grows /\ UNCHANGED <<pods, ctrs>> /\ alive' = alive \ {n}
    BY <1>1, <1>2, ExitContainerStep DEF ExitContainer
<1>6. Emit("MODIFIED", p)
    BY <1>1, <1>3, <1>5 DEF Emit, Status
<1>7. \A q \in Pods \ {p} : Bystander(q)
    <2>1. ASSUME NEW q \in Pods \ {p}, q \in ready  PROVE pods[q].cs[First] # n
        <3>1. pods[q].cs[First] \in alive
            BY <1>2, <2>1 DEF ReadyOK
        <3> QED  BY <1>2, <1>3, <3>1, RunningType
    <2> QED  BY <1>1, <1>2, <1>5, <2>1 DEF Bystander
<1>8. Told(p, "MODIFIED")'
    BY DEF Told
<1>9. ReadyOK'
    BY <1>1, <1>2, <1>5 DEF ReadyOK, Exists
<1> QED  BY <1>2, <1>4, <1>5, <1>6, <1>7, <1>8, <1>9, PodEmits

LEMMA ProbeInv ==
    ASSUME Inv, UNCHANGED ids, NEW n \in alive, NEW comm \in Commands, TRACEPOINT_PROBE(n, comm)
    PROVE  Inv'
<1>1. /\ pipe' = Append(IF Len(pipe) = PipeCap THEN Tail(pipe) ELSE pipe, [cgroup |-> n, command |-> comm])
      /\ UNCHANGED <<cluster, status, watcher, handler, stream, look, map, event, resources, relisted>>
    BY DEF TRACEPOINT_PROBE
<1>2. [cgroup |-> n, command |-> comm] \in LineT
    <2>1. n \in Nat
        BY DEF Inv, ClusterInv, Cgs
    <2> QED  BY <2>1 DEF LineT
<1>3. pipe \in Seq(LineT) /\ Len(pipe) <= PipeCap /\ Len(pipe) \in Nat
    BY DEF Inv, MapOK
<1>4. pipe' \in Seq(LineT) /\ Len(pipe') <= PipeCap
    <2>1. CASE Len(pipe) = PipeCap
        <3>1. pipe # <<>>
            BY <2>1, BccAssumption
        <3>2. Tail(pipe) \in Seq(LineT) /\ Len(Tail(pipe)) = Len(pipe) - 1
            BY <3>1, TailOfPipe DEF Inv
        <3> QED  BY <1>1, <1>2, <1>3, <2>1, <3>2, BccAssumption
    <2>2. CASE Len(pipe) # PipeCap
        BY <1>1, <1>2, <1>3, <2>2, BccAssumption
    <2> QED  BY <2>1, <2>2
<1>5. MapOK' /\ StagesOK'
    BY <1>1, <1>4 DEF Inv, MapOK, StagesOK
<1>6. EventOK'
    BY <1>1, EventStays DEF cluster
<1> QED  BY <1>1, <1>5, <1>6, HandlerStep

LEMMA NextInv == Inv /\ [Next]_vars => Inv'
<1> SUFFICES ASSUME Inv, [Next]_vars  PROVE Inv'
    OBVIOUS
<1>1. CASE UNCHANGED vars
    <2>1. UNCHANGED <<cluster, ids, status, watcher, stream, look, map, relisted>>
          /\ UNCHANGED <<handler, pipe, event, resources>>
        BY <1>1 DEF vars, agent
    <2>2. StagesOK' /\ MapOK'
        BY <2>1 DEF Inv, StagesOK, MapOK
    <2>3. EventOK'
        BY <2>1, EventStays DEF cluster
    <2> QED  BY <2>1, <2>2, <2>3, HandlerStep
<1>2. CASE Next
    <2>1. UNCHANGED ids
        BY <1>2 DEF Next
    <2>2. CASE WatchFails
        BY <2>1, <2>2, WatcherDiesInv DEF WatchFails
    <2> QED  BY <1>2, <2>1, <2>2, StartInv, ParentEndsInv, WatcherInv, HandlerInv, PodChangesInv,
                ContainerExitsInv, ProbeInv DEF Next
<1> QED  BY <1>1, <1>2

LEMMA SpecInv == Spec => []Inv
BY InitInv, NextInv, PTL DEF Spec

-----------------------------------------------------------------------------
(* What the run checks, for every instance *)

\* podsnoop.py: how far the parent and its two processes are, that a process that
\* has ended has left nothing but the map and the pipe, and that these keep
\* their sizes.
THEOREM TypeCorrect == Spec => []TypeOK
<1>1. ASSUME Inv  PROVE TypeOK
    <2>1. ClusterTypeOK
        BY <1>1, ClusterTyped DEF Inv
    <2> QED  BY <1>1, <2>1 DEF Inv, ReadyOK, StagesOK, MapOK, TypeOK
<1> QED  BY <1>1, SpecInv, PTL

\* watch_k8s_pods: once the watcher has caught up, an annotated pod of the node
\* whose first container is ready is in the map with the first command of its
\* present annotation, for any number of pods, in whatever order they were edited,
\* restarted and deleted, and also if they were not ready when they were.
THEOREM CaughtUpIsEntered == Spec => []AnnotatedAreEntered
<1>1. ASSUME Inv  PROVE AnnotatedAreEntered
    <2>1. SUFFICES ASSUME Drained, NEW p \in Pods, Annotated(p), KeepsKey(p), p \notin deleting
                   PROVE  InMap(p)
        BY DEF AnnotatedAreEntered
    <2>2. watcher = "up" /\ ~ InStream(p) /\ ~ LookedAt(p)
        BY <2>1 DEF Drained, InStream, LookedAt, NoLook
    <2> QED  BY <1>1, <2>1, <2>2 DEF Inv, Covered, InMapAsItShould
<1> QED  BY <1>1, SpecInv, PTL

\* The same function: and a pod that is being deleted is out of the map while its
\* first container is ready, unless the watch began after its deletion did.
THEOREM CaughtUpIsRemoved == Spec => []DeletedAreRemoved
<1>1. ASSUME Inv  PROVE DeletedAreRemoved
    <2>1. SUFFICES ASSUME Drained, NEW p \in Pods, Annotated(p), KeepsKey(p), p \in deleting \ relisted
                   PROVE  Id(pods[p].cs[First]) \notin DOMAIN map
        BY DEF DeletedAreRemoved
    <2>2. watcher = "up" /\ ~ InStream(p) /\ ~ LookedAt(p)
        BY <2>1 DEF Drained, InStream, LookedAt, NoLook
    <2> QED  BY <1>1, <2>1, <2>2 DEF Inv, Covered, InMapAsItShould
<1> QED  BY <1>1, SpecInv, PTL

\* handle_ebpf_snoop_trace: a step gives a container other resources only if the
\* annotation its pod has at that moment names the container, and then those.
THEOREM NothingElseIsResized == Spec => ResizeOnlyAsAnnotated
<1> DEFINE A == \A p \in Pods, c \in Ctrs :
          Exists(p) /\ Exists(p)' /\ pods'[p].res[c] # pods[p].res[c] =>
              /\ pods[p].ann # NoAnn /\ pods[p].ann.cname = c
              /\ pods'[p].res[c] = pods[p].ann.resize
                 \/ (pods[p].ann.resize = Empty /\ pods'[p].res[c] = resources)
<1>1. Inv /\ [Next]_vars => [A]_vars
    <2> SUFFICES ASSUME Inv, Next  PROVE A
        OBVIOUS
    <2>1. ASSUME ResourcesKept  PROVE A
        BY <2>1 DEF ResourcesKept
    <2>2. ASSUME UNCHANGED pods  PROVE A
        BY <2>2
    <2>3. ASSUME NEW p \in Pods, Patch(p)  PROVE A
        <3>1. /\ \A q \in Pods \ {p} : pods'[q] = pods[q]
              /\ \A c \in Ctrs : pods'[p].res[c] # pods[p].res[c] =>
                    /\ pods[p].ann # NoAnn /\ pods[p].ann.cname = c
                    /\ pods'[p].res[c] = resources /\ pods[p].ann.resize \in {Empty, resources}
            BY <2>3, PatchStep
        <3> QED  BY <3>1
    <2> HIDE DEF A
    <2>4. CASE PodChanges
        <3>1. ClusterInv
            BY DEF Inv
        <3>2. ResourcesKept \/ UNCHANGED pods
            BY <2>4, <3>1, CreatePodStep, EditAnnotationStep, DeletePodStep, StartContainerStep
               DEF PodChanges, MarkDeleted, StartAny, BecomesReady, LosesReadiness, cluster
        <3> QED  BY <2>1, <2>2, <3>2
    <2>5. CASE ContainerExits
        BY <2>2, <2>5 DEF ContainerExits, ExitContainer
    <2>6. CASE Start \/ ParentEnds \/ WatchFails \/ Watcher
        <3>1. UNCHANGED cluster
            BY <2>6 DEF Start, ParentEnds, WatchFails, Watcher, SkipEvent, ReadPod, ReadPodRaises, LookEnds,
                        LookRaises, EnterEntry, RemoveEntry, WatcherDies
        <3> QED  BY <2>2, <3>1 DEF cluster
    <2>7. CASE \E n \in alive, comm \in Commands : TRACEPOINT_PROBE(n, comm)
        BY <2>2, <2>7 DEF TRACEPOINT_PROBE, cluster
    <2>8. CASE Handler
        <3>1. UNCHANGED cluster \/ \E p \in Pods : Patch(p)
            BY <2>8 DEF Handler, ResolveNothing, GetRaises, GetContinues, Get, PatchRaises, Resolve, HandlerDies
        <3> QED  BY <2>2, <2>3, <3>1 DEF cluster
    <2> QED  BY <2>4, <2>5, <2>6, <2>7, <2>8 DEF Next
<1> QED  BY <1>1, SpecInv, PTL DEF Spec, ResizeOnlyAsAnnotated


=============================================================================

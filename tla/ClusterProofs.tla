--------------------------- MODULE ClusterProofs ---------------------------
(***************************************************************************)
(* What both versions of the agent rely on, for any cluster: a container's  *)
(* id in a pod's status is that of an instance of this very container, the  *)
(* annotation of a pod is one it was given, and of the past nothing is      *)
(* taken back.  One lemma for each step of the cluster.                     *)
(***************************************************************************)
EXTENDS Cluster, SequencesExt, FiniteSetTheorems, TLAPS

Res    == {DefaultRes} \cup {a.resize : a \in Anns}
PodT   == [phase : {"new", "live", "gone"}, ann : Anns \cup {NoAnn},
           cs : [Ctrs -> Nat], res : [Ctrs -> Res]]
CtrT   == [pod : Pods, ctr : Ctrs]

\* No container, or one that was started for c of p.
Of(p, c, n) == n = 0 \/ (n \in Cgs /\ ctrs[n] = [pod |-> p, ctr |-> c])

ClusterInv ==
    /\ pods \in [Pods -> PodT] /\ ctrs \in Seq(CtrT) /\ hist \in [Pods -> SUBSET Anns]
    /\ task \in [Pids -> Nat] /\ used \subseteq Pids /\ edits \in 0 .. MaxEdits
    /\ alive \subseteq Cgs
    /\ \A i \in Pids : task[i] # 0 => task[i] \in alive /\ (i \in used \/ ReusePids)
    /\ \A p \in Pods :
          /\ pods[p].ann \in hist[p] \cup {NoAnn}
          /\ \A c \in Ctrs : Of(p, c, pods[p].cs[c])

LEMMA PodType ==
    ASSUME pods \in [Pods -> PodT], NEW p \in Pods
    PROVE  /\ pods[p].phase \in {"new", "live", "gone"} /\ pods[p].ann \in Anns \cup {NoAnn}
           /\ pods[p].cs \in [Ctrs -> Nat] /\ pods[p].res \in [Ctrs -> Res]
BY DEF PodT

LEMMA CtrType ==
    ASSUME ctrs \in Seq(CtrT), NEW n \in Cgs
    PROVE  /\ ctrs[n] \in CtrT /\ ctrs[n].pod \in Pods /\ ctrs[n].ctr \in Ctrs
           /\ n \in Nat /\ n # 0
<1>1. ctrs[n] \in CtrT /\ n \in Nat /\ n # 0
    BY DEF Cgs
<1> QED  BY <1>1 DEF CtrT

-----------------------------------------------------------------------------
(* The past *)

Grows ==
    /\ ctrs' \in Seq(CtrT) /\ hist' \in [Pods -> SUBSET Anns]
    /\ Len(ctrs') >= Len(ctrs) /\ \A n \in Cgs : ctrs'[n] = ctrs[n]
    /\ \A p \in Pods : hist[p] \subseteq hist'[p]

\* The resources of a pod are those it had, or it is new.
ResourcesKept ==
    \A p \in Pods : Exists(p)' => \A c \in Ctrs :
        IF Exists(p) THEN pods'[p].res[c] = pods[p].res[c] ELSE pods'[p].res[c] = DefaultRes

LEMMA GrowsKeeps ==
    ASSUME ClusterInv, Grows
    PROVE  Cgs \subseteq Cgs' /\ \A p, c, n : Of(p, c, n) => Of(p, c, n)'
<1>1. Len(ctrs) \in Nat /\ Len(ctrs') \in Nat /\ Cgs \subseteq Cgs'
    BY DEF ClusterInv, Grows, Cgs
<1>2. \A p, c, n : Of(p, c, n) => Of(p, c, n)'
    BY <1>1 DEF Of, Grows
<1> QED  BY <1>1, <1>2

\* What every step of the cluster leaves of the pods' past.
LEMMA NothingStartedGrows ==
    ASSUME ClusterInv, UNCHANGED <<ctrs, hist>>
    PROVE  Grows
BY DEF ClusterInv, Grows

\* A new object of a pod that has an annotation of its own.
LEMMA AnnotateGrows ==
    ASSUME ClusterInv, NEW p \in Pods, NEW a \in Anns \cup {NoAnn}, Annotate(p, a), UNCHANGED ctrs
    PROVE  Grows /\ a \in hist'[p] \cup {NoAnn} /\ edits' \in 0 .. MaxEdits
<1>1. hist' = [hist EXCEPT ![p] = @ \cup ({a} \ {NoAnn})] /\ hist \in [Pods -> SUBSET Anns]
    BY DEF Annotate, ClusterInv
<1>2. hist' \in [Pods -> SUBSET Anns] /\ a \in hist'[p] \cup {NoAnn}
    BY <1>1
<1>3. \A q \in Pods : hist[q] \subseteq hist'[q]
    BY <1>1
<1>4. edits' \in 0 .. MaxEdits
    BY ClusterAssumption DEF Annotate, ClusterInv
<1> QED  BY <1>2, <1>3, <1>4 DEF Grows, ClusterInv

\* The invariant of the cluster when one pod's object changes.
LEMMA ObjectChanges ==
    ASSUME ClusterInv, Grows, NEW p \in Pods, NEW o \in PodT,
           pods' = [pods EXCEPT ![p] = o], UNCHANGED <<ctrs, alive, task, used>>,
           o.ann \in hist'[p] \cup {NoAnn}, \A c \in Ctrs : Of(p, c, o.cs[c]),
           edits' \in 0 .. MaxEdits
    PROVE  ClusterInv'
<1>1. pods' \in [Pods -> PodT] /\ pods'[p] = o /\ \A q \in Pods \ {p} : pods'[q] = pods[q]
    BY DEF ClusterInv
<1>2. \A q, c, n : Of(q, c, n) => Of(q, c, n)'
    BY GrowsKeeps
<1>3. ASSUME NEW q \in Pods
      PROVE  /\ pods'[q].ann \in hist'[q] \cup {NoAnn}
             /\ \A c \in Ctrs : Of(q, c, pods[q].cs[c])'
    <2>1. CASE q = p
        BY <1>1, <1>2, <2>1
    <2>2. CASE q # p
        BY <1>1, <1>2, <2>2 DEF ClusterInv, Grows
    <2> QED  BY <2>1, <2>2
<1>4. alive' \subseteq Cgs' /\ Cgs' = Cgs
    BY DEF ClusterInv, Cgs
<1> QED  BY <1>1, <1>3, <1>4 DEF ClusterInv, Grows

LEMMA NewPodType ==
    ASSUME NEW phase \in {"new", "live", "gone"}, NEW a \in Anns \cup {NoAnn}
    PROVE  /\ Pod(phase, a) \in PodT /\ Pod(phase, a).phase = phase /\ Pod(phase, a).ann = a
           /\ \A c \in Ctrs : Pod(phase, a).cs[c] = 0 /\ Pod(phase, a).res[c] = DefaultRes
BY DEF Pod, PodT, Res

LEMMA ClusterInitInv ==
    ASSUME ClusterInit
    PROVE  ClusterInv /\ \A p \in Pods : ~ Exists(p)
<1>1. /\ pods = [p \in Pods |-> Pod("new", NoAnn)] /\ ctrs = <<>> /\ alive = {} /\ used = {}
      /\ task = [i \in Pids |-> 0] /\ edits = 0 /\ hist = [p \in Pods |-> {}]
    BY DEF ClusterInit
<1>2. /\ Pod("new", NoAnn) \in PodT /\ Pod("new", NoAnn).ann = NoAnn
      /\ Pod("new", NoAnn).phase = "new" /\ \A c \in Ctrs : Pod("new", NoAnn).cs[c] = 0
    BY NewPodType
<1>3. pods \in [Pods -> PodT] /\ \A p \in Pods : pods[p] = Pod("new", NoAnn)
    BY <1>1, <1>2
<1>4. \A p \in Pods : /\ pods[p].ann \in hist[p] \cup {NoAnn}
                      /\ \A c \in Ctrs : Of(p, c, pods[p].cs[c])
    BY <1>2, <1>3 DEF Of
<1>5. edits \in 0 .. MaxEdits /\ task \in [Pids -> Nat] /\ hist \in [Pods -> SUBSET Anns]
    BY <1>1, ClusterAssumption
<1>6. ClusterInv
    BY <1>1, <1>3, <1>4, <1>5 DEF ClusterInv
<1> QED  BY <1>2, <1>3, <1>6 DEF Exists

LEMMA CreatePodStep ==
    ASSUME ClusterInv, NEW p \in Pods, CreatePod(p)
    PROVE  ClusterInv' /\ Grows /\ ResourcesKept /\ (\A c \in Ctrs : pods'[p].cs[c] = 0)
           /\ \A q \in Pods \ {p} : pods'[q] = pods[q]
<1>1. PICK a \in Anns \cup {NoAnn} : pods' = [pods EXCEPT ![p] = Pod("live", a)] /\ Annotate(p, a)
    BY DEF CreatePod
<1>2. UNCHANGED <<ctrs, alive, task, used>> /\ pods \in [Pods -> PodT] /\ ClusterInv
    BY DEF CreatePod, ClusterInv
<1>3. Grows /\ a \in hist'[p] \cup {NoAnn} /\ edits' \in 0 .. MaxEdits
    BY <1>1, <1>2, AnnotateGrows
<1>4. /\ Pod("live", a) \in PodT /\ Pod("live", a).ann = a
      /\ \A c \in Ctrs : Pod("live", a).cs[c] = 0 /\ Pod("live", a).res[c] = DefaultRes
    BY NewPodType
<1>5. \A c \in Ctrs : Of(p, c, Pod("live", a).cs[c])
    BY <1>4 DEF Of
<1>6. ClusterInv'
    BY <1>1, <1>2, <1>3, <1>4, <1>5, ObjectChanges
<1>7. pods'[p] = Pod("live", a) /\ \A q \in Pods \ {p} : pods'[q] = pods[q]
    BY <1>1, <1>2
<1>8. ResourcesKept
    <2>1. ~ Exists(p)
        BY DEF CreatePod, Exists
    <2> QED  BY <1>4, <1>7, <2>1 DEF ResourcesKept, Exists
<1> QED  BY <1>3, <1>4, <1>6, <1>7, <1>8

LEMMA EditAnnotationStep ==
    ASSUME ClusterInv, NEW p \in Pods, EditAnnotation(p)
    PROVE  ClusterInv' /\ Grows /\ ResourcesKept
           /\ \A q \in Pods \ {p} : pods'[q] = pods[q]
<1>1. PICK a \in Anns \cup {NoAnn} : pods' = [pods EXCEPT ![p].ann = a] /\ Annotate(p, a)
    BY DEF EditAnnotation
<1>2. UNCHANGED <<ctrs, alive, task, used>> /\ pods \in [Pods -> PodT] /\ ClusterInv
    BY DEF EditAnnotation, ClusterInv
<1>3. Grows /\ a \in hist'[p] \cup {NoAnn} /\ edits' \in 0 .. MaxEdits
    BY <1>1, <1>2, AnnotateGrows
<1> DEFINE o == [pods[p] EXCEPT !.ann = a]
<1>4. /\ o \in PodT /\ o.ann = a /\ o.cs = pods[p].cs /\ o.res = pods[p].res
      /\ o.phase = pods[p].phase
    BY <1>2 DEF PodT
<1>5. pods' = [pods EXCEPT ![p] = o]
    BY <1>1
<1> HIDE DEF o
<1>6. \A c \in Ctrs : Of(p, c, o.cs[c])
    BY <1>2, <1>4 DEF ClusterInv
<1>7. ClusterInv'
    BY <1>2, <1>3, <1>4, <1>5, <1>6, ObjectChanges
<1>8. pods'[p] = o /\ \A q \in Pods \ {p} : pods'[q] = pods[q]
    BY <1>2, <1>5
<1>9. ResourcesKept
    BY <1>4, <1>8 DEF ResourcesKept, Exists, EditAnnotation
<1> QED  BY <1>3, <1>7, <1>8, <1>9

LEMMA DeletePodStep ==
    ASSUME ClusterInv, NEW p \in Pods, DeletePod(p)
    PROVE  ClusterInv' /\ Grows /\ ResourcesKept
           /\ ~ Exists(p)' /\ \A q \in Pods \ {p} : pods'[q] = pods[q]
<1>1. /\ pods' = [pods EXCEPT ![p] = Pod("gone", NoAnn)] /\ edits < MaxEdits /\ edits' = edits + 1
      /\ UNCHANGED <<ctrs, alive, task, used, hist>> /\ pods \in [Pods -> PodT] /\ ClusterInv
    BY DEF DeletePod, ClusterInv
<1>2. Grows
    BY <1>1, NothingStartedGrows
<1>3. /\ Pod("gone", NoAnn) \in PodT /\ Pod("gone", NoAnn).ann = NoAnn
      /\ Pod("gone", NoAnn).phase = "gone" /\ \A c \in Ctrs : Pod("gone", NoAnn).cs[c] = 0
    BY NewPodType
<1>4. \A c \in Ctrs : Of(p, c, Pod("gone", NoAnn).cs[c])
    BY <1>3 DEF Of
<1>5. edits' \in 0 .. MaxEdits
    BY <1>1, ClusterAssumption DEF ClusterInv
<1>6. ClusterInv'
    BY <1>1, <1>2, <1>3, <1>4, <1>5, ObjectChanges
<1>7. pods'[p] = Pod("gone", NoAnn) /\ \A q \in Pods \ {p} : pods'[q] = pods[q]
    BY <1>1
<1>8. ~ Exists(p)'
    BY <1>3, <1>7 DEF Exists
<1>9. ResourcesKept
    BY <1>7, <1>8 DEF ResourcesKept, Exists
<1> QED  BY <1>2, <1>6, <1>7, <1>8, <1>9

LEMMA SetResourcesStep ==
    ASSUME ClusterInv, NEW p \in Pods, NEW c \in Ctrs, NEW v \in Res, SetResources(p, c, v)
    PROVE  /\ ClusterInv' /\ Grows
           /\ pods'[p].res[c] = v /\ \A d \in Ctrs \ {c} : pods'[p].res[d] = pods[p].res[d]
           /\ \A q \in Pods \ {p} : pods'[q] = pods[q]
           /\ pods'[p].phase = pods[p].phase
           /\ pods'[p].ann = pods[p].ann /\ pods'[p].cs = pods[p].cs
<1>1. /\ pods' = [pods EXCEPT ![p].res[c] = v] /\ pods \in [Pods -> PodT] /\ ClusterInv
      /\ UNCHANGED <<ctrs, alive, task, used, edits, hist>>
    BY DEF SetResources, ClusterInv
<1>2. Grows
    BY <1>1, NothingStartedGrows
<1> DEFINE r == [pods[p].res EXCEPT ![c] = v]
           o == [pods[p] EXCEPT !.res = r]
<1>3. r \in [Ctrs -> Res] /\ r[c] = v /\ \A d \in Ctrs \ {c} : r[d] = pods[p].res[d]
    BY <1>1, PodType
<1>4. pods' = [pods EXCEPT ![p] = o]
    BY <1>1
<1> HIDE DEF r
<1>5. /\ o \in PodT /\ o.ann = pods[p].ann /\ o.cs = pods[p].cs /\ o.res = r
      /\ o.phase = pods[p].phase
    BY <1>1, <1>3 DEF PodT
<1> HIDE DEF o
<1>6. \A d \in Ctrs : Of(p, d, o.cs[d])
    BY <1>1, <1>5 DEF ClusterInv
<1>7. ClusterInv'
    BY <1>1, <1>2, <1>4, <1>5, <1>6, ObjectChanges DEF ClusterInv
<1>8. pods'[p] = o /\ \A q \in Pods \ {p} : pods'[q] = pods[q]
    BY <1>1, <1>4
<1> QED  BY <1>2, <1>3, <1>5, <1>7, <1>8

LEMMA StartContainerStep ==
    ASSUME ClusterInv, NEW p \in Pods, NEW c \in Ctrs, StartContainer(p, c)
    PROVE  /\ ClusterInv' /\ Grows /\ ResourcesKept
           /\ \A q \in Pods \ {p} : pods'[q] = pods[q]
           /\ alive' \cap Cgs = alive
<1> DEFINE n == Len(ctrs) + 1
<1>1. /\ ctrs' = Append(ctrs, [pod |-> p, ctr |-> c]) /\ alive' = alive \cup {n}
      /\ pods' = [pods EXCEPT ![p].cs[c] = n] /\ UNCHANGED <<task, used, edits, hist>>
      /\ pods \in [Pods -> PodT] /\ ctrs \in Seq(CtrT) /\ ClusterInv
    BY DEF StartContainer, ClusterInv
<1>2. [pod |-> p, ctr |-> c] \in CtrT
    BY DEF CtrT
<1>3. /\ Len(ctrs) \in Nat /\ ctrs' \in Seq(CtrT) /\ Len(ctrs') = n
      /\ ctrs'[n] = [pod |-> p, ctr |-> c] /\ \A k \in Cgs : ctrs'[k] = ctrs[k]
    BY <1>1, <1>2 DEF Cgs
<1>4. n \in Nat /\ Cgs' = Cgs \cup {n} /\ n \notin Cgs /\ n # 0
    BY <1>3 DEF Cgs
<1>5. Grows
    <2>1. Len(ctrs') >= Len(ctrs)
        BY <1>3
    <2>2. hist \in [Pods -> SUBSET Anns] /\ hist' = hist
        BY <1>1 DEF ClusterInv
    <2> HIDE DEF n
    <2> QED  BY <1>3, <2>1, <2>2 DEF Grows
<1> DEFINE s == [pods[p].cs EXCEPT ![c] = n]
           o == [pods[p] EXCEPT !.cs = s]
<1>6. s \in [Ctrs -> Nat] /\ s[c] = n /\ \A d \in Ctrs \ {c} : s[d] = pods[p].cs[d]
    <2> HIDE DEF n
    <2> QED  BY <1>1, <1>4, PodType
<1>7. pods' = [pods EXCEPT ![p] = o]
    BY <1>1
<1> HIDE DEF n, s
<1>8. /\ o \in PodT /\ o.ann = pods[p].ann /\ o.cs = s /\ o.res = pods[p].res
      /\ o.phase = pods[p].phase
    BY <1>1, <1>6 DEF PodT
<1> HIDE DEF o
<1>9. /\ pods' \in [Pods -> PodT] /\ pods'[p] = o /\ \A q \in Pods \ {p} : pods'[q] = pods[q]
    BY <1>1, <1>7, <1>8
<1>10. ASSUME NEW q \in Pods, NEW d \in Ctrs  PROVE Of(q, d, pods[q].cs[d])'
    <2>1. CASE q = p /\ d = c
        BY <1>3, <1>4, <1>6, <1>8, <1>9, <2>1 DEF Of
    <2>2. CASE ~ (q = p /\ d = c)
        <3>1. pods'[q].cs[d] = pods[q].cs[d]
            BY <1>6, <1>8, <1>9, <2>2
        <3>2. Of(q, d, pods[q].cs[d])
            BY <1>1 DEF ClusterInv
        <3> QED  BY <1>3, <1>4, <3>1, <3>2 DEF Of
    <2> QED  BY <2>1, <2>2
<1>11. \A q \in Pods : pods'[q].ann \in hist'[q] \cup {NoAnn}
    BY <1>1, <1>8, <1>9 DEF ClusterInv
<1>12. alive' \cap Cgs = alive /\ alive \subseteq alive' /\ alive' \subseteq Cgs'
    BY <1>1, <1>4 DEF ClusterInv
<1>13. ClusterInv'
    BY <1>1, <1>3, <1>9, <1>10, <1>11, <1>12 DEF ClusterInv
<1>14. ResourcesKept
    BY <1>8, <1>9 DEF ResourcesKept, Exists, StartContainer
<1> QED  BY <1>5, <1>9, <1>12, <1>13, <1>14

\* Steps that change tasks and which containers run, and no object.
LEMMA TasksChange ==
    ASSUME ClusterInv, UNCHANGED <<pods, ctrs, edits, hist>>,
           task' \in [Pids -> Nat], used' \subseteq Pids, alive' \subseteq alive,
           \A i \in Pids : task'[i] # 0 => task'[i] \in alive' /\ (i \in used' \/ ReusePids)
    PROVE  ClusterInv' /\ Grows /\ ResourcesKept
<1>1. Cgs' = Cgs /\ \A p, c, n : Of(p, c, n)' <=> Of(p, c, n)
    BY DEF Cgs, Of
<1>2. ClusterInv'
    BY <1>1 DEF ClusterInv
<1>3. ResourcesKept
    BY DEF ResourcesKept, Exists
<1> QED  BY <1>2, <1>3, NothingStartedGrows

LEMMA ExitContainerStep ==
    ASSUME ClusterInv, NEW n \in alive, ExitContainer(n)
    PROVE  /\ ClusterInv' /\ Grows /\ ResourcesKept
           /\ UNCHANGED <<pods, used>> /\ alive' \subseteq alive
           /\ \A i \in Pids : task'[i] \in {0, task[i]}
<1>1. /\ UNCHANGED <<pods, ctrs, used, edits, hist>> /\ alive' = alive \ {n}
      /\ task' = [i \in Pids |-> IF task[i] = n THEN 0 ELSE task[i]] /\ task \in [Pids -> Nat]
    BY DEF ExitContainer, ClusterInv
<1>2. \A i \in Pids : task'[i] # 0 => task'[i] \in alive' /\ (i \in used' \/ ReusePids)
    BY <1>1 DEF ClusterInv
<1>3. task' \in [Pids -> Nat] /\ used' \subseteq Pids
    BY <1>1 DEF ClusterInv
<1> QED  BY <1>1, <1>2, <1>3, TasksChange

LEMMA ExitTaskStep ==
    ASSUME ClusterInv, NEW i \in Pids, ExitTask(i)
    PROVE  /\ ClusterInv' /\ Grows /\ ResourcesKept
           /\ UNCHANGED <<pods, used, alive>>
           /\ \A j \in Pids : task'[j] \in {0, task[j]}
<1>1. /\ UNCHANGED <<pods, ctrs, alive, used, edits, hist>>
      /\ task' = [task EXCEPT ![i] = 0] /\ task \in [Pids -> Nat]
    BY DEF ExitTask, ClusterInv
<1>2. \A j \in Pids : task'[j] # 0 => task'[j] \in alive' /\ (j \in used' \/ ReusePids)
    BY <1>1 DEF ClusterInv
<1>3. task' \in [Pids -> Nat] /\ used' \subseteq Pids
    BY <1>1 DEF ClusterInv
<1> QED  BY <1>1, <1>2, <1>3, TasksChange

LEMMA SpawnStep ==
    ASSUME ClusterInv, NEW i \in Pids, NEW n \in alive, Spawn(i, n)
    PROVE  /\ ClusterInv' /\ Grows /\ ResourcesKept
           /\ UNCHANGED <<pods, alive>> /\ used \subseteq used'
           /\ \A j \in Pids : task'[j] \in {0, task[j]} \/ (j \notin used /\ ~ ReusePids) \/ ReusePids
<1>1. /\ UNCHANGED <<pods, ctrs, alive, edits, hist>> /\ (i \in used => ReusePids)
      /\ task' = [task EXCEPT ![i] = n] /\ task \in [Pids -> Nat]
      /\ used' = IF ReusePids THEN used ELSE used \cup {i}
    BY DEF Spawn, ClusterInv
<1>2. n \in Nat
    BY DEF ClusterInv, Cgs
<1>3. \A j \in Pids : task'[j] # 0 => task'[j] \in alive' /\ (j \in used' \/ ReusePids)
    BY <1>1 DEF ClusterInv
<1>4. task' \in [Pids -> Nat] /\ used' \subseteq Pids /\ used \subseteq used'
    BY <1>1, <1>2 DEF ClusterInv
<1>5. \A j \in Pids : task'[j] = task[j] \/ (j \notin used /\ ~ ReusePids) \/ ReusePids
    BY <1>1
<1> QED  BY <1>1, <1>3, <1>4, <1>5, TasksChange

-----------------------------------------------------------------------------
(* Lists *)

\* Each element of a finite set, in one place of the list.
LEMMA ListOfSet ==
    ASSUME NEW S, IsFiniteSet(S), NEW s \in SetToSeqs(S)
    PROVE  s \in Seq(S) /\ (\A k \in DOMAIN s : s[k] \in S) /\ \A x \in S : \E k \in DOMAIN s : s[k] = x
<1> DEFINE D == 1 .. Cardinality(S)
<1>1. Cardinality(S) \in Nat
    BY FS_CardinalityType
<1>2. s \in [D -> S] /\ \A m, n \in D : m # n => s[m] # s[n]
    BY DEF SetToSeqs
<1>3. s \in Injection(D, S)
    BY <1>2 DEF Injection, IsInjective
<1>4. Cardinality(D) = Cardinality(S)
    BY <1>1, FS_Interval
<1>5. s \in Surjection(D, S)
    <2> HIDE DEF D
    <2> QED  BY <1>3, <1>4, FS_Injection
<1>6. \A x \in S : \E k \in D : s[k] = x
    <2> HIDE DEF D
    <2> QED  BY <1>5 DEF Surjection
<1>7. DOMAIN s = D /\ s \in Seq(S)
    BY <1>1, <1>2
<1> QED  BY <1>2, <1>6, <1>7

\* Of what there is at most one for each pod of a set, there are finitely many.
LEMMA FiniteImage ==
    ASSUME NEW L \in SUBSET Pods, NEW S, NEW f \in [L -> S], \A x \in S : \E p \in L : f[p] = x
    PROVE  IsFiniteSet(S)
<1>1. IsFiniteSet(L)
    BY ClusterAssumption, FS_Subset
<1>2. f \in Surjection(L, S)
    BY DEF Surjection
<1> QED  BY <1>1, <1>2, FS_Surjection

LEMMA ClusterTyped ==
    ASSUME ClusterInv
    PROVE  ClusterTypeOK
<1>1. ASSUME NEW p \in Pods
      PROVE  pods[p].ann \in Anns \cup {NoAnn} /\ pods[p].cs \in [Ctrs -> 0 .. Len(ctrs)]
    <2>1. pods[p].cs \in [Ctrs -> Nat] /\ pods[p].ann \in Anns \cup {NoAnn}
        BY PodType DEF ClusterInv
    <2>2. ASSUME NEW c \in Ctrs  PROVE pods[p].cs[c] \in 0 .. Len(ctrs)
        <3>1. Of(p, c, pods[p].cs[c]) /\ Len(ctrs) \in Nat
            BY DEF ClusterInv
        <3> QED  BY <3>1 DEF Of, Cgs
    <2> QED  BY <2>1, <2>2
<1> QED  BY <1>1 DEF ClusterInv, ClusterTypeOK


=============================================================================

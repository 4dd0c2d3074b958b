------------------------------ MODULE Cluster ------------------------------
(***************************************************************************)
(* What the pod-resize agent lives in, modelled from how it looks at it:    *)
(* the API server's pods with their "ebpf-resize" annotations and container *)
(* statuses, the containers and cgroups of a node, and the tasks in them.   *)
(* The whole module is external to the repository's code.                   *)
(*                                                                          *)
(* A container instance and its cgroup are one number, the cgroup id, never *)
(* used again; 0 is "none".  Pods are in one namespace and a pod's name is  *)
(* not used twice.                                                          *)
(***************************************************************************)
EXTENDS Naturals, Sequences, FiniteSets

CONSTANTS
    Pods, Ctrs,    \* names of pods and of containers in a pod
    Local,         \* the pods scheduled on the agent's node
    Anns,          \* annotations a user writes, see AnnFields
    NoAnn,         \* a pod without the annotation
    Missing,       \* a JSON field that is not there, or not of the wanted type
    DefaultRes,    \* the resources a container is created with
    Pids,          \* process ids
    Exits,         \* do containers and tasks exit
    ReusePids,     \* is the id of a task that has exited used again
    MaxCg,         \* bound: container instances
    MaxEdits       \* bound: creations, annotation edits and deletions of pods

\* Of an annotation: does the text parse, "cname", is "commands" an array and
\* which, and "resize".
AnnFields == {"json", "cname", "array", "commands", "resize"}

ASSUME ClusterAssumption ==
    /\ IsFiniteSet(Pods) /\ Local \subseteq Pods
    /\ \A a \in Anns :
          /\ DOMAIN a = AnnFields /\ a.json \in BOOLEAN /\ a.array \in BOOLEAN
          /\ a.cname \in Ctrs \cup {Missing}
    /\ NoAnn \notin Anns
    /\ Exits \in BOOLEAN /\ ReusePids \in BOOLEAN
    /\ MaxCg \in Nat /\ MaxEdits \in Nat

VARIABLES
    pods,     \* API server: pod -> [phase, ann, cs, res]
    ctrs,     \* instance n is ctrs[n] = [pod, ctr]
    alive,    \* instances that run: those whose cgroup directory exists
    task,     \* pid -> cgroup of the task that has it, 0 if none
    used,     \* pids that have been given to a task, unless they are used again
    edits,    \* number of edits so far
    hist      \* ghost: every annotation a pod has had

cluster == <<pods, ctrs, alive, task, used, edits, hist>>

Cgs == 1 .. Len(ctrs)
Exists(p) == pods[p].phase = "live"
Instances(p) == {n \in Cgs : ctrs[n].pod = p}

\* The object the API server sends of a pod.
Object(p) == [pod |-> p, ann |-> pods[p].ann, cs |-> pods[p].cs]

\* A pod as it is created, and, with other phases, one before and after.
Pod(phase, a) ==
    [phase |-> phase, ann |-> a, cs |-> [c \in Ctrs |-> 0], res |-> [c \in Ctrs |-> DefaultRes]]

ClusterInit ==
    /\ pods = [p \in Pods |-> Pod("new", NoAnn)]
    /\ ctrs = <<>> /\ alive = {}
    /\ task = [i \in Pids |-> 0] /\ used = {}
    /\ edits = 0
    /\ hist = [p \in Pods |-> {}]

Annotate(p, a) ==
    /\ edits < MaxEdits /\ edits' = edits + 1
    /\ hist' = [hist EXCEPT ![p] = @ \cup ({a} \ {NoAnn})]

CreatePod(p) ==
    /\ pods[p].phase = "new"
    /\ \E a \in Anns \cup {NoAnn} :
          /\ pods' = [pods EXCEPT ![p] = Pod("live", a)]
          /\ Annotate(p, a)
    /\ UNCHANGED <<ctrs, alive, task, used>>

EditAnnotation(p) ==
    /\ Exists(p)
    /\ \E a \in Anns \cup {NoAnn} :
          /\ a # pods[p].ann
          /\ pods' = [pods EXCEPT ![p].ann = a]
          /\ Annotate(p, a)
    /\ UNCHANGED <<ctrs, alive, task, used>>

\* The kubelet stops the containers before the object goes.
DeletePod(p) ==
    /\ Exists(p) /\ Instances(p) \cap alive = {}
    /\ edits < MaxEdits /\ edits' = edits + 1
    /\ pods' = [pods EXCEPT ![p] = Pod("gone", NoAnn)]
    /\ UNCHANGED <<ctrs, alive, task, used, hist>>

\* The kubelet starts a container, or starts it again, and reports its id.
StartContainer(p, c) ==
    /\ Exists(p) /\ Len(ctrs) < MaxCg /\ pods[p].cs[c] \notin alive
    /\ ctrs' = Append(ctrs, [pod |-> p, ctr |-> c])
    /\ alive' = alive \cup {Len(ctrs) + 1}
    /\ pods' = [pods EXCEPT ![p].cs[c] = Len(ctrs) + 1]
    /\ UNCHANGED <<task, used, edits, hist>>

\* A container ends: its tasks and its cgroup directory go, while the pod's
\* status keeps its id.
ExitContainer(n) ==
    /\ Exits /\ n \in alive
    /\ alive' = alive \ {n}
    /\ task' = [i \in Pids |-> IF task[i] = n THEN 0 ELSE task[i]]
    /\ UNCHANGED <<pods, ctrs, used, edits, hist>>

Spawn(i, n) ==
    /\ task[i] = 0 /\ (i \in used => ReusePids)
    /\ n \in alive /\ ctrs[n].pod \in Local
    /\ task' = [task EXCEPT ![i] = n]
    /\ used' = IF ReusePids THEN used ELSE used \cup {i}
    /\ UNCHANGED <<pods, ctrs, alive, edits, hist>>

ExitTask(i) ==
    /\ Exits /\ task[i] # 0
    /\ task' = [task EXCEPT ![i] = 0]
    /\ UNCHANGED <<pods, ctrs, alive, used, edits, hist>>

\* A strategic merge patch of one container's resources.
SetResources(p, c, r) ==
    /\ pods' = [pods EXCEPT ![p].res[c] = r]
    /\ UNCHANGED <<ctrs, alive, task, used, edits, hist>>

ClusterTypeOK ==
    /\ \A p \in Pods :
          Exists(p) => pods[p].ann \in Anns \cup {NoAnn} /\ pods[p].cs \in [Ctrs -> 0 .. Len(ctrs)]
    /\ alive \subseteq Cgs
    /\ \A i \in Pids : task[i] = 0 \/ task[i] \in alive
    /\ used \subseteq Pids /\ edits \in 0 .. MaxEdits

=============================================================================

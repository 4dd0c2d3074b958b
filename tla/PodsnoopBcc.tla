---------------------------- MODULE PodsnoopBcc ----------------------------
(***************************************************************************)
(* The first version of the pod-resize agent (podsnoop.py): a parent that   *)
(* loads the probe and forks two processes,                                 *)
(*                                                                          *)
(*   - the watcher, which enters the first command of annotated pods in the *)
(*     map, and takes entries out when a pod is being deleted;              *)
(*   - the handler, which reads the kernel's trace pipe, reads the pod an   *)
(*     event came from and patches it if its annotation says so.            *)
(*                                                                          *)
(* An exception ends one of the two and the parent, which joins both, goes  *)
(* on waiting.  Only when both are dead does the container end, and is the  *)
(* agent started again.                                                     *)
(***************************************************************************)
EXTENDS Cluster, SequencesExt

CONSTANTS
    First,        \* the container whose status is container_statuses[0]
    Empty,        \* a "resize" that is JSON and falsy, such as "{}"
    Garbled,      \* a "resize" that is no JSON
    TooLong,      \* commands of more than BUF_SIZE bytes
    KeyMod,       \* number of values of a c_int
    IdMaps,       \* inode numbers the kernel may give the cgroups 1 .. MaxCg
    TableSize,    \* entries of a BPF_HASH
    PipeCap,      \* lines the trace buffer holds
    MaxBehind     \* bound: events the watcher is behind when the cluster goes on

ASSUME BccAssumption ==
    /\ First \in Ctrs
    /\ \A f \in IdMaps : f \in [1 .. MaxCg -> Nat] /\ IsInjective(f)
    /\ KeyMod \in Nat \ {0} /\ TableSize \in Nat \ {0} /\ PipeCap \in Nat \ {0}
    /\ MaxBehind \in Nat

VARIABLES
    ids,       \* the kernel's id of the cgroup of instance n is ids[n]
    ready,     \* pods whose first container's status is ready and started
    deleting,  \* pods with a deletion timestamp
    watcher,   \* process pod_watcher: "down", "up" or "dead"
    handler,   \* process snoop_handler: the same
    stream,    \* events of w.stream not yet handled: [type, pod, cg, ready]
    look,      \* watcher: the event at hand and the pod as read again
    map,       \* resize_containers_map: key -> command
    pipe,      \* the trace pipe: lines [cgroup, command]
    event,     \* handler: what it knows of the line at hand
    resources, \* handler: req and lim, which outlive the line that set them
    relisted   \* ghost: pods that were being deleted when the agent started

agent == <<watcher, handler, stream, look, map, pipe, event, resources, relisted>>
status == <<deleting, ready>>
vars  == <<cluster, ids, status, agent>>

NoLook  == [stage |-> "none"]
NoEvent == [stage |-> "none"]
Unbound == Missing

Id(n) == ids[n]

\* c_int(int(cgroup_id)), extended to the eight bytes of a key.
Key(n) == Id(n) % KeyMod

Commands == UNION {ToSet(a.commands) : a \in Anns}

Init ==
    /\ ClusterInit /\ ids \in IdMaps
    /\ deleting = {} /\ ready = {}
    /\ watcher = "down" /\ handler = "down"
    /\ stream = <<>> /\ look = NoLook
    /\ map = <<>> /\ pipe = <<>>
    /\ event = NoEvent /\ resources = Unbound
    /\ relisted = {}

-----------------------------------------------------------------------------
(* The processes *)

\* What an event says of a pod: the status of its first container, which may
\* run and not be ready.
Status(type, p) ==
    [type |-> type, pod |-> p, cg |-> pods[p].cs[First], ready |-> p \in ready]

OnNode == {p \in Local : Exists(p)}

\* Load and attach the probe, fork both processes; the watch begins with an
\* ADDED for every pod of the node.
Start ==
    /\ watcher = "down"
    /\ watcher' = "up" /\ handler' = "up"
    /\ stream' \in SetToSeqs({Status("ADDED", p) : p \in OnNode})
    /\ relisted' = deleting
    /\ UNCHANGED <<cluster, status, look, map, pipe, event, resources>>

ParentEndsEarly ==
    /\ watcher # "down" /\ handler = "dead"
    /\ watcher' = "down" /\ handler' = "down"
    /\ map' = <<>>
    /\ UNCHANGED <<cluster, status, stream, look, pipe, event, resources, relisted>>

\* join() returns twice: probe and map go, lines in the trace pipe stay.
ParentEnds ==
    /\ watcher = "dead" /\ handler = "dead"
    /\ watcher' = "down" /\ handler' = "down"
    /\ map' = <<>>
    /\ UNCHANGED <<cluster, status, stream, look, pipe, event, resources, relisted>>

WatcherDies ==
    /\ watcher' = "dead" /\ stream' = <<>> /\ look' = NoLook
    /\ UNCHANGED <<cluster, status, handler, map, pipe, event, resources, relisted>>

HandlerDies ==
    /\ handler' = "dead" /\ event' = NoEvent /\ resources' = Unbound
    /\ UNCHANGED <<cluster, status, watcher, stream, look, map, relisted>>

-----------------------------------------------------------------------------
(* watch_k8s_pods *)

WatchFails ==
    /\ watcher = "up" /\ look = NoLook
    /\ WatcherDies

EventAtHand == watcher = "up" /\ look = NoLook /\ stream # <<>>

\* No status, or the first container is not ready.
SkipEvent ==
    /\ EventAtHand /\ ~ Head(stream).ready
    /\ stream' = Tail(stream)
    /\ UNCHANGED <<cluster, status, watcher, handler, look, map, pipe, event, resources, relisted>>

\* read_namespaced_pod, and the annotation of the pod as it is now.  A pod
\* without any annotation is passed over.
ReadPod ==
    LET e == Head(stream) IN
    /\ EventAtHand /\ e.ready /\ Exists(e.pod)
    /\ stream' = Tail(stream)
    /\ look' = IF pods[e.pod].ann = NoAnn THEN NoLook
               ELSE [stage |-> "read", type |-> e.type, cg |-> e.cg,
                     ann |-> pods[e.pod].ann, deleted |-> e.pod \in deleting]
    /\ UNCHANGED <<cluster, status, watcher, handler, map, pipe, event, resources, relisted>>

\* The pod is gone: ApiException 404.  Annotations, and no "ebpf-resize" among
\* them: KeyError.
ReadPodRaises ==
    LET p == Head(stream).pod IN
    /\ EventAtHand /\ Head(stream).ready
    /\ ~ Exists(p) \/ pods[p].ann = NoAnn
    /\ WatcherDies

\* find and ls yield the container's cgroup.
Found == look.stage = "read" /\ look.cg \in alive

\* Which branch the type of the event and the deletion timestamp lead to.  The
\* API has no event of type "REMOVED".
Enters  == look.type = "ADDED" \/ (look.type = "MODIFIED" /\ ~ look.deleted)
Removes == look.type = "REMOVED" \/ (look.type = "MODIFIED" /\ look.deleted)

\* json.loads, "commands", str.encode and the length of cmd may raise.
CommandsRaise ==
    \/ ~ look.ann.json \/ ~ look.ann.array
    \/ /\ look.ann.commands # <<>> /\ Enters
       /\ \/ Head(look.ann.commands) \in TooLong
          \/ Key(look.cg) \notin DOMAIN map /\ Cardinality(DOMAIN map) = TableSize

\* The cgroup is gone, the list of commands is empty, or the type is another.
LookEnds ==
    /\ look.stage = "read"
    /\ Found => ~ CommandsRaise /\ (look.ann.commands # <<>> => ~ Enters /\ ~ Removes)
    /\ look' = NoLook
    /\ UNCHANGED <<cluster, status, watcher, handler, stream, map, pipe, event, resources, relisted>>

LookRaises ==
    /\ Found /\ CommandsRaise
    /\ WatcherDies

\* The map with one entry more, or another one for a key.
Put(key, cmd) == [k \in DOMAIN map \cup {key} |-> IF k = key THEN cmd ELSE map[k]]

EnterEntryLast ==
    /\ Found /\ ~ CommandsRaise /\ look.ann.commands # <<>> /\ Enters
    /\ map' = Put(Key(look.cg), Last(look.ann.commands))
    /\ look' = NoLook
    /\ UNCHANGED <<cluster, status, watcher, handler, stream, pipe, event, resources, relisted>>

EnterEntry ==
    /\ Found /\ ~ CommandsRaise /\ look.ann.commands # <<>> /\ Enters
    /\ map' = Put(Key(look.cg), Head(look.ann.commands))
    /\ look' = NoLook
    /\ UNCHANGED <<cluster, status, watcher, handler, stream, pipe, event, resources, relisted>>

RemoveEntryFails ==
    /\ Found /\ ~ CommandsRaise /\ look.ann.commands # <<>> /\ Removes
    /\ look' = NoLook
    /\ UNCHANGED <<cluster, status, watcher, handler, stream, map, pipe, event, resources, relisted>>

\* del, and a KeyError is passed over.
RemoveEntry ==
    /\ Found /\ ~ CommandsRaise /\ look.ann.commands # <<>> /\ Removes
    /\ map' = [k \in DOMAIN map \ {Key(look.cg)} |-> map[k]]
    /\ look' = NoLook
    /\ UNCHANGED <<cluster, status, watcher, handler, stream, pipe, event, resources, relisted>>

-----------------------------------------------------------------------------
(* handle_ebpf_snoop_trace *)

Line == handler = "up" /\ event = NoEvent /\ pipe # <<>>

\* The host name that the line's pid has now is that of the pod that ran the
\* command or, if the id has been used again, of any other with a running
\* container.  The container is that of the line's cgroup.
Resolve(p) ==
    LET e == Head(pipe) IN
    /\ Line
    /\ p \in Local /\ Instances(p) \cap alive # {}
    /\ e.cgroup \in alive
    /\ event' = [stage |-> "get", pod |-> p, ctr |-> ctrs[e.cgroup].ctr, cmd |-> e.command]
    /\ pipe' = Tail(pipe)
    /\ UNCHANGED <<cluster, status, watcher, handler, stream, look, map, resources, relisted>>

\* Task or cgroup are gone, crictl prints nothing, or the line is no JSON.
ResolveNothing ==
    /\ Line
    /\ pipe' = Tail(pipe)
    /\ UNCHANGED <<cluster, status, watcher, handler, stream, look, map, event, resources, relisted>>

Getting == event.stage = "get"
Now == pods[event.pod].ann

Parsed == Exists(event.pod) /\ Now # NoAnn /\ Now.json

\* The line is from the container and the command that the annotation names.
Matches == Parsed /\ Now.cname = event.ctr /\ Now.array /\ event.cmd \in ToSet(Now.commands)

\* The pod is gone or has no annotation; a field is not there when its turn
\* comes; req and lim are used and have never been set.
GetRaises ==
    /\ Getting
    /\ \/ ~ Exists(event.pod) \/ Now = NoAnn
       \/ Parsed /\ Now.cname = Missing
       \/ Parsed /\ Now.cname = event.ctr /\ ~ Now.array
       \/ Matches /\ Now.resize = Missing
       \/ Matches /\ Now.resize = Empty /\ resources = Unbound
    /\ HandlerDies /\ UNCHANGED pipe

\* ValueError, or the comparison fails.
GetContinues ==
    /\ Getting /\ Exists(event.pod) /\ Now # NoAnn
    /\ \/ ~ Now.json
       \/ Now.cname \notin {Missing, event.ctr}
       \/ Now.cname = event.ctr /\ Now.array /\ event.cmd \notin ToSet(Now.commands)
       \/ Matches /\ Now.resize = Garbled
    /\ event' = NoEvent
    /\ UNCHANGED <<cluster, status, watcher, handler, stream, look, map, pipe, resources, relisted>>

\* req and lim are set unless "resize" is falsy, and then as they were.
Get ==
    /\ Getting /\ Matches /\ Now.resize \notin {Missing, Garbled}
    /\ (Now.resize = Empty => resources # Unbound)
    /\ resources' = IF Now.resize = Empty THEN resources ELSE Now.resize
    /\ event' = [stage |-> "patch", pod |-> event.pod, ctr |-> event.ctr, fresh |-> TRUE]
    /\ UNCHANGED <<cluster, status, watcher, handler, stream, look, map, pipe, relisted>>

\* A pod's object changes: the watch tells of it, and a body read before is out
\* of date.
Emit(type, p) ==
    /\ Len(stream) < MaxBehind
    /\ stream' = IF watcher = "up" /\ p \in Local THEN Append(stream, Status(type, p)') ELSE stream
    /\ event' = IF event.stage = "patch" /\ event.pod = p THEN [event EXCEPT !.fresh = FALSE] ELSE event

Patched(p) ==
    /\ SetResources(p, event.ctr, resources) /\ UNCHANGED status
    /\ event' = NoEvent
    /\ stream' = IF pods' # pods /\ watcher = "up" THEN Append(stream, Status("MODIFIED", p)') ELSE stream
    /\ UNCHANGED <<watcher, handler, look, map, pipe, resources, relisted>>

PatchStale(p) ==
    /\ event.stage = "patch" /\ event.pod = p /\ Exists(p)
    /\ Patched(p)

\* The body is the pod as read, with its resource version: the server takes
\* it only if the pod has not changed since.
Patch(p) ==
    /\ event.stage = "patch" /\ event.pod = p /\ Exists(p) /\ event.fresh
    /\ Patched(p)

\* Conflict, not found, or any other failure: ApiException.
PatchRaises ==
    /\ event.stage = "patch"
    /\ HandlerDies /\ UNCHANGED pipe

-----------------------------------------------------------------------------
(* The cluster around the agent *)

\* A user deletes a pod: a deletion timestamp first, the object goes when its
\* containers have ended.
MarkDeleted(p) ==
    /\ Exists(p) /\ p \notin deleting /\ deleting' = deleting \cup {p}
    /\ edits < MaxEdits /\ edits' = edits + 1
    /\ UNCHANGED <<pods, ctrs, alive, task, used, hist, ready>>

\* The kubelet's probes find the first container ready.
BecomesReady(p) ==
    /\ Exists(p) /\ pods[p].cs[First] \in alive /\ p \notin ready
    /\ ready' = ready \cup {p}
    /\ UNCHANGED <<cluster, deleting>>

\* They find that it is ready no longer, which counts as one of the edits.
LosesReadiness(p) ==
    /\ p \in ready /\ ready' = ready \ {p}
    /\ edits < MaxEdits /\ edits' = edits + 1
    /\ UNCHANGED <<pods, ctrs, alive, task, used, hist, deleting>>

\* A container without probes is ready as soon as it runs.
StartAny(p) ==
    /\ p \notin deleting
    /\ \E c \in Ctrs :
          /\ StartContainer(p, c)
          /\ ready' = ready \/ (c = First /\ ready' = ready \cup {p})
    /\ UNCHANGED deleting

PodChanges ==
    /\ \E p \in Pods :
          \/ CreatePod(p) /\ UNCHANGED status /\ Emit("ADDED", p)
          \/ EditAnnotation(p) /\ UNCHANGED status /\ Emit("MODIFIED", p)
          \/ (MarkDeleted(p) \/ StartAny(p) \/ BecomesReady(p) \/ LosesReadiness(p)) /\ Emit("MODIFIED", p)
          \/ p \in deleting /\ DeletePod(p) /\ UNCHANGED status /\ Emit("DELETED", p)
    /\ UNCHANGED <<watcher, handler, look, map, pipe, resources, relisted>>

ContainerExits ==
    /\ \E n \in alive :
          /\ ExitContainer(n)
          /\ ready' = {p \in ready : pods[p].cs[First] # n}
          /\ Emit("MODIFIED", ctrs[n].pod)
    /\ UNCHANGED <<deleting, watcher, handler, look, map, pipe, resources, relisted>>

\* The probe: a line for the trace pipe, over the oldest one if it is full.
TRACEPOINT_PROBE(n, comm) ==
    /\ watcher # "down" /\ n \in alive /\ ctrs[n].pod \in Local
    /\ Id(n) \in DOMAIN map /\ map[Id(n)] = comm
    /\ LET kept == IF Len(pipe) = PipeCap THEN Tail(pipe) ELSE pipe
       IN  pipe' = Append(kept, [cgroup |-> n, command |-> comm])
    /\ UNCHANGED <<cluster, status, watcher, handler, stream, look, map, event, resources, relisted>>

Watcher ==
    \/ SkipEvent \/ ReadPod \/ ReadPodRaises
    \/ LookEnds \/ LookRaises \/ EnterEntry \/ RemoveEntry

Handler ==
    \/ ResolveNothing \/ GetRaises \/ GetContinues \/ Get \/ PatchRaises
    \/ \E p \in Pods : Resolve(p) \/ Patch(p)

Next ==
    /\ UNCHANGED ids
    /\ \/ Start \/ ParentEnds \/ WatchFails
       \/ Watcher \/ Handler
       \/ PodChanges \/ ContainerExits
       \/ \E n \in alive, comm \in Commands : TRACEPOINT_PROBE(n, comm)

Spec == Init /\ [][Next]_vars

-----------------------------------------------------------------------------
(* Properties *)

\* Processes and what they hold.
TypeOK ==
    /\ ClusterTypeOK
    /\ \A p \in ready : p \in Pods /\ Exists(p) /\ pods[p].cs[First] \in alive
    /\ watcher \in {"down", "up", "dead"} /\ handler \in {"down", "up", "dead"}
    /\ watcher = "down" <=> handler = "down"
    /\ watcher # "up" => stream = <<>> /\ look = NoLook
    /\ handler # "up" => event = NoEvent /\ resources = Unbound
    /\ watcher = "down" => map = <<>>
    /\ Cardinality(DOMAIN map) <= TableSize /\ Len(pipe) <= PipeCap

\* However late the line, stale the map entry or cut its key: resources of a
\* container change only when the annotation its pod has at that moment names
\* this container, and to what that annotation says, or for a falsy "resize"
\* to what the handler used last.
ResizeOnlyAsAnnotated ==
    [][\A p \in Pods, c \in Ctrs :
          Exists(p) /\ Exists(p)' /\ pods'[p].res[c] # pods[p].res[c] =>
              /\ pods[p].ann # NoAnn /\ pods[p].ann.cname = c
              /\ pods'[p].res[c] = pods[p].ann.resize
                 \/ (pods[p].ann.resize = Empty /\ pods'[p].res[c] = resources)]_vars

Drained == watcher = "up" /\ stream = <<>> /\ look = NoLook

\* An annotated pod of this node whose first container is ready.
Annotated(p) ==
    /\ p \in Local /\ p \in ready
    /\ LET a == pods[p].ann IN a # NoAnn /\ a.json /\ a.array /\ a.commands # <<>>

\* The cut to c_int leaves its id alone, and gives no other the same key.
KeepsKey(p) ==
    LET n == pods[p].cs[First] IN Key(n) = Id(n) /\ \A m \in Cgs \ {n} : Key(m) # Key(n)

InMap(p) ==
    LET id == Id(pods[p].cs[First])
    IN  id \in DOMAIN map /\ map[id] = Head(pods[p].ann.commands)

\* When the watcher has caught up, the first container of every annotated pod
\* is in the map with the first command as long as it is ready, whatever was
\* edited, restarted or deleted while the watcher was behind or passed over
\* the events because the container was not ready.
AnnotatedAreEntered ==
    Drained => \A p \in Pods : Annotated(p) /\ KeepsKey(p) /\ p \notin deleting => InMap(p)

\* And a pod that is being deleted is out of the map as long as its container
\* is ready, even if the deletion began while it was not, unless an ADDED of a
\* restarted watch brought it back.  Of a container that runs and is not ready
\* nothing is claimed: its entry stays as it was.
DeletedAreRemoved ==
    Drained => \A p \in Pods :
        Annotated(p) /\ KeepsKey(p) /\ p \in deleting \ relisted =>
            Id(pods[p].cs[First]) \notin DOMAIN map

=============================================================================

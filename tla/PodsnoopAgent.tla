--------------------------- MODULE PodsnoopAgent ---------------------------
(***************************************************************************)
(* The pod-resize agent (main.rs), with the probe it loads and the cluster  *)
(* it runs in.  Two threads share the process:                              *)
(*                                                                          *)
(*   - the main thread loads and attaches the probe, follows the pods and   *)
(*     enters the trigger commands of annotated ones in the map;            *)
(*   - the perf thread polls the ring, finds out which pod and container an *)
(*     event came from, reads the pod again and patches its resources.      *)
(*                                                                          *)
(* A panic of the main thread, an error of the watch, or a panic inside the *)
(* ring's C callback ends the process; the DaemonSet starts it again.       *)
(*                                                                          *)
(* The stream of pods is the one KubeWatcher shows: a list, then every      *)
(* later state in order, deletions left out.                                *)
(***************************************************************************)
EXTENDS Cluster, PodsnoopProbe, SequencesExt

CONSTANTS
    PanicCommands,  \* entries of "commands" that are no string of at most 32 bytes
    PollMayFail,    \* can building or polling the perf buffer fail
    MaxFaults       \* bound: errors of the watch

Commands == UNION {ToSet(a.commands) : a \in Anns}

ASSUME AgentAssumption ==
    /\ \A a \in Anns : a.commands \in Seq(Commands)
    /\ PollMayFail \in BOOLEAN /\ MaxFaults \in Nat

VARIABLES
    main,    \* main thread: "down", "loaded" or "watching"
    stream,  \* objects of podstream not yet handled
    job,     \* handle_k8s_pod: [cgroup_id, cmds] still to enter in the map
    perf,    \* perf thread: "none", "starting", "polling" or "dead"
    event,   \* handle_pod_snoop_event: what it knows of the event at hand
    faults   \* errors of the watch so far

agent == <<main, stream, job, perf, event, faults>>
vars  == <<cluster, probe, agent>>

NoJob   == [cgroup_id |-> 0, cmds |-> <<>>]
NoEvent == [stage |-> "none"]

Init ==
    /\ ClusterInit /\ Unloaded
    /\ main = "down" /\ stream = <<>> /\ job = NoJob
    /\ perf = "none" /\ event = NoEvent
    /\ faults = 0

-----------------------------------------------------------------------------
(* The process *)

DownLeavesMap ==
    /\ attached' = FALSE /\ opened' = FALSE /\ pod_exec_events' = <<>>
    /\ UNCHANGED resize_containers_map
    /\ main' = "down" /\ stream' = <<>> /\ job' = NoJob
    /\ perf' = "none" /\ event' = NoEvent

\* The process is gone, and with it map, links and perf buffer.
Down ==
    /\ Unload
    /\ main' = "down" /\ stream' = <<>> /\ job' = NoJob
    /\ perf' = "none" /\ event' = NoEvent

\* Open, load and attach the skeleton, then spawn the perf thread.
Load ==
    /\ main = "down" /\ main' = "loaded"
    /\ attached' = TRUE /\ perf' = "starting"
    /\ UNCHANGED <<cluster, resize_containers_map, opened, pod_exec_events,
                   stream, job, event, faults>>

ListPodsFromNow ==
    /\ main = "loaded" /\ main' = "watching"
    /\ stream' = <<>>
    /\ UNCHANGED <<cluster, probe, job, perf, event, faults>>

\* The first poll of podstream: Restarted, flattened.
ListPods ==
    /\ main = "loaded" /\ main' = "watching"
    /\ stream' \in SetToSeqs({Object(p) : p \in {q \in Pods : Exists(q)}})
    /\ UNCHANGED <<cluster, probe, job, perf, event, faults>>

\* podstream.try_next().await? returns the error; main ignores it and ends.
WatchErr ==
    /\ main # "down" /\ job = NoJob
    /\ faults < MaxFaults /\ faults' = faults + 1
    /\ Down
    /\ UNCHANGED cluster

-----------------------------------------------------------------------------
(* handle_k8s_pod *)

Idle == main = "watching" /\ job = NoJob

\* A pod of this node with an annotation that parses.
Annotated(o) == o.pod \in Local /\ o.ann # NoAnn /\ o.ann.json

\* Its container has an id, and "commands" is an array.
Candidate(o) ==
    /\ Annotated(o) /\ o.ann.cname # Missing
    /\ o.cs[o.ann.cname] # 0 /\ o.ann.array

\* The early returns and continues.
SkipPod ==
    /\ Idle /\ stream # <<>>
    /\ Annotated(Head(stream)) =>
           Head(stream).ann.cname # Missing /\ ~ Candidate(Head(stream))
    /\ stream' = Tail(stream)
    /\ UNCHANGED <<cluster, probe, main, job, perf, event, faults>>

\* resize_json["cname"].as_str().unwrap()
CnamePanics ==
    /\ Idle /\ stream # <<>>
    /\ Annotated(Head(stream)) /\ Head(stream).ann.cname = Missing
    /\ Down
    /\ UNCHANGED <<cluster, faults>>

Entries(o) ==
    IF o.ann.commands = <<>> THEN NoJob
    ELSE [cgroup_id |-> o.cs[o.ann.cname], cmds |-> o.ann.commands]

HandlePodAnyContainer ==
    /\ Idle /\ stream # <<>> /\ Candidate(Head(stream))
    /\ \E c \in Ctrs :
          /\ Head(stream).cs[c] # 0
          /\ job' = Entries([Head(stream) EXCEPT !.ann.cname = c])
    /\ stream' = Tail(stream)
    /\ UNCHANGED <<cluster, probe, main, perf, event, faults>>

\* The commands of a pod are to be entered, one after the other.
HandlePod ==
    /\ Idle /\ stream # <<>> /\ Candidate(Head(stream))
    /\ job' = Entries(Head(stream))
    /\ stream' = Tail(stream)
    /\ UNCHANGED <<cluster, probe, main, perf, event, faults>>

\* The cgroup directory is there, on this node, for find and ls; the command is
\* a string and fits.
Registrable ==
    /\ job.cgroup_id \in alive /\ ctrs[job.cgroup_id].pod \in Local
    /\ Head(job.cmds) \notin PanicCommands

\* An update that fails, because the map is full, is printed and forgotten.
create_resize_bpf_map_entry ==
    /\ job # NoJob /\ Registrable
    /\ Update(job.cgroup_id, Head(job.cmds))
    /\ job' = IF Len(job.cmds) = 1 THEN NoJob ELSE [job EXCEPT !.cmds = Tail(@)]
    /\ UNCHANGED <<cluster, attached, opened, pod_exec_events, main, stream, perf, event, faults>>

\* No directory: ls prints nothing and u64::from_str("").unwrap() panics; no
\* string: as_str().unwrap(); more than 32 bytes: index out of bounds.
CommandPanics ==
    /\ job # NoJob /\ ~ Registrable
    /\ Down
    /\ UNCHANGED <<cluster, faults>>

-----------------------------------------------------------------------------
(* The perf thread *)

PerfBuildWrongMap ==
    /\ perf = "starting"
    /\ perf' = "polling" /\ opened' = FALSE
    /\ UNCHANGED <<cluster, attached, resize_containers_map, pod_exec_events,
                   main, stream, job, event, faults>>

\* The perf buffer is built: the probe's output has somewhere to go.
PerfBuild ==
    /\ perf = "starting"
    /\ perf' = "polling" /\ opened' = TRUE
    /\ UNCHANGED <<cluster, attached, resize_containers_map, pod_exec_events,
                   main, stream, job, event, faults>>

\* build()? or poll()? returns: the thread ends and drops the perf buffer,
\* nobody looks at its result.
PerfDies ==
    /\ PollMayFail /\ perf \in {"starting", "polling"} /\ event = NoEvent
    /\ perf' = "dead" /\ opened' = FALSE /\ pod_exec_events' = <<>>
    /\ UNCHANGED <<cluster, attached, resize_containers_map, main, stream, job, event, faults>>

Received == perf = "polling" /\ event = NoEvent /\ pod_exec_events # <<>>

\* get-podns-podname-ctrname.sh: the pod's name is the host name the event's
\* pid has now, the container's name is that of the event's cgroup.
ResolveTo(p) ==
    /\ Received
    /\ LET e == Head(pod_exec_events) IN
       /\ task[e.cgroup_pid] # 0 /\ ctrs[task[e.cgroup_pid]].pod = p
       /\ e.cgroup_id \in alive
       /\ event' = [stage |-> "get", pod |-> p, ctr |-> ctrs[e.cgroup_id].ctr,
                    cgroup_id |-> e.cgroup_id, cmd |-> e.cgroup_cmd]
    /\ pod_exec_events' = Tail(pod_exec_events)
    /\ UNCHANGED <<cluster, attached, resize_containers_map, opened,
                   main, stream, job, perf, faults>>

\* The script prints nothing: the task or the cgroup is gone, or crictl fails.
ResolveNothing ==
    /\ Received
    /\ pod_exec_events' = Tail(pod_exec_events)
    /\ UNCHANGED <<cluster, attached, resize_containers_map, opened, agent>>

Getting(p) == event.stage = "get" /\ event.pod = p

GetPodOfCgroup(p) ==
    LET a == pods[ctrs[event.cgroup_id].pod].ann IN
    /\ Getting(p) /\ Exists(p)
    /\ a # NoAnn /\ a.json /\ a.resize # Missing
    /\ event' = [stage |-> "patch", pod |-> p, ctr |-> event.ctr, cgroup_id |-> event.cgroup_id,
                 cmd |-> event.cmd, ann |-> a]
    /\ UNCHANGED <<cluster, probe, main, stream, job, perf, faults>>

\* resize_k8s_pod gets the pod again and reads the annotation it has now.
GetPod(p) ==
    /\ Getting(p) /\ Exists(p)
    /\ pods[p].ann # NoAnn /\ pods[p].ann.json /\ pods[p].ann.resize # Missing
    /\ event' = [stage |-> "patch", pod |-> p, ctr |-> event.ctr, cgroup_id |-> event.cgroup_id,
                 cmd |-> event.cmd, ann |-> pods[p].ann]
    /\ UNCHANGED <<cluster, probe, main, stream, job, perf, faults>>

\* The request fails, no annotation, or it does not parse.
GetNothing ==
    /\ event.stage = "get"
    /\ event' = NoEvent
    /\ UNCHANGED <<cluster, probe, main, stream, job, perf, faults>>

\* resize_json["resize"].as_str().unwrap() in the C callback aborts.
ResizePanics(p) ==
    /\ Getting(p) /\ Exists(p)
    /\ pods[p].ann # NoAnn /\ pods[p].ann.json /\ pods[p].ann.resize = Missing
    /\ Down
    /\ UNCHANGED <<cluster, faults>>

Emit(p) ==
    stream' = IF main = "watching" THEN Append(stream, Object(p)') ELSE stream

\* patch-pod-resources.sh: a patch that changes something comes back as an event.
PatchPod(p) ==
    /\ event.stage = "patch" /\ event.pod = p /\ Exists(p)
    /\ SetResources(p, event.ctr, event.ann.resize)
    /\ IF pods' # pods THEN Emit(p) ELSE UNCHANGED stream
    /\ event' = NoEvent
    /\ UNCHANGED <<probe, main, job, perf, faults>>

\* kubectl fails; its output is printed and the script exits 0.
PatchFails ==
    /\ event.stage = "patch"
    /\ event' = NoEvent
    /\ UNCHANGED <<cluster, probe, main, stream, job, perf, faults>>

-----------------------------------------------------------------------------
(* The cluster around the agent *)

\* Changes of a pod's object reach the agent's stream.
PodChanges ==
    /\ \/ \E p \in Pods :
             /\ CreatePod(p) \/ EditAnnotation(p) \/ \E c \in Ctrs : StartContainer(p, c)
             /\ Emit(p)
       \/ \E n \in alive : ExitContainer(n) /\ Emit(ctrs[n].pod)
    /\ UNCHANGED <<probe, main, job, perf, event, faults>>

\* applied_objects() leaves deletions out; tasks are not API objects.
Unseen ==
    /\ \/ \E p \in Pods : DeletePod(p)
       \/ \E i \in Pids : ExitTask(i) \/ \E n \in alive : Spawn(i, n)
    /\ UNCHANGED <<probe, agent>>

Execve(i, comm) ==
    /\ task[i] # 0 /\ podsnoop(task[i], i, comm)
    /\ UNCHANGED <<cluster, agent>>

MainThread ==
    \/ Load \/ ListPods \/ WatchErr
    \/ SkipPod \/ CnamePanics \/ HandlePod
    \/ create_resize_bpf_map_entry \/ CommandPanics

PerfThread ==
    \/ PerfBuild \/ PerfDies
    \/ ResolveNothing \/ GetNothing \/ PatchFails
    \/ \E p \in Pods : ResolveTo(p) \/ GetPod(p) \/ ResizePanics(p) \/ PatchPod(p)

Next ==
    \/ MainThread \/ PerfThread
    \/ PodChanges \/ Unseen
    \/ \E i \in Pids, comm \in Commands : Execve(i, comm)

Spec == Init /\ [][Next]_vars

\* The threads run, the DaemonSet restarts the process, and requests that can
\* succeed again and again do.
Fairness ==
    /\ WF_vars(Load) /\ WF_vars(ListPods)
    /\ WF_vars(SkipPod) /\ WF_vars(HandlePod) /\ WF_vars(CnamePanics)
    /\ WF_vars(create_resize_bpf_map_entry) /\ WF_vars(CommandPanics)
    /\ WF_vars(PerfBuild) /\ WF_vars(ResolveNothing) /\ WF_vars(GetNothing) /\ WF_vars(PatchFails)
    /\ \A p \in Pods : SF_vars(ResolveTo(p)) /\ SF_vars(GetPod(p)) /\ SF_vars(PatchPod(p))

\* A task keeps executing programs under its name.
BusyTasks == \A i \in Pids, comm \in Commands : SF_vars(Execve(i, comm))

FairSpec == Spec /\ Fairness

-----------------------------------------------------------------------------
(* Properties *)

\* The ring is open only while the perf thread polls; nothing of the agent is
\* left in the kernel while it is down.
TypeOK ==
    /\ ClusterTypeOK
    /\ main \in {"down", "loaded", "watching"}
    /\ perf \in {"none", "starting", "polling", "dead"}
    /\ main = "down" <=> perf = "none"
    /\ main = "down" => Unloaded /\ job = NoJob /\ event = NoEvent
    /\ opened <=> perf = "polling"
    /\ Cardinality(Registered) <= MAX_NUM_CONTAINERS
    /\ Len(pod_exec_events) <= PerfCap
    /\ event.stage \in {"none", "get", "patch"}

\* Whatever edits, exits and restarts came between: a command in the map is one
\* that an annotation of the cgroup's pod listed for the cgroup's container,
\* and the pod is on this node.
MapSound ==
    \A n \in Registered :
        /\ ctrs[n].pod \in Local
        /\ \E a \in hist[ctrs[n].pod] :
              a.cname = ctrs[n].ctr /\ resize_containers_map[n] \in ToSet(a.commands)

\* A running container that its pod's annotation names.
Wanted(p, c) ==
    /\ p \in Local /\ Exists(p) /\ pods[p].cs[c] \in alive
    /\ LET a == pods[p].ann IN
       a # NoAnn /\ a.json /\ a.array /\ a.cname = c /\ a.commands # <<>>

RegisteredAs(p, c) ==
    LET n == pods[p].cs[c] IN
    n \in Registered /\ resize_containers_map[n] = Last(pods[p].ann.commands)

\* When the main thread has nothing left to handle, every running container
\* an annotation names is in the map with the last command listed, unless the
\* map is full: no order of starts, edits and restarts loses one.
WantedAreRegistered ==
    main = "watching" /\ stream = <<>> /\ job = NoJob =>
        \A p \in Pods, c \in Ctrs : Wanted(p, c) => RegisteredAs(p, c) \/ MapFull

\* A patch is about to be made only for the pod and container in which the trigger
\* was executed, and only for a command that pod's user had asked for.
ResizeFollowsTrigger ==
    event.stage = "patch" =>
        /\ ctrs[event.cgroup_id] = [pod |-> event.pod, ctr |-> event.ctr]
        /\ \E a \in hist[event.pod] : a.cname = event.ctr /\ event.cmd \in ToSet(a.commands)

\* Also when the pid of an event has been used again and the event of one pod is
\* taken for another's: the resources of a container are the ones it had or ones
\* an annotation of its own pod gave, never those of the pod that ran the trigger.
ResourcesFromOwnAnnotation ==
    \A p \in Pods : Exists(p) =>
        \A c \in Ctrs : pods[p].res[c] \in {DefaultRes} \cup {a.resize : a \in hist[p]}

\* "based on user specified conditions": a resize applies an annotation to
\* the container and the command that this annotation names.
ResizeMatchesAnnotation ==
    event.stage = "patch" =>
        event.ann.cname = event.ctr /\ event.cmd \in ToSet(event.ann.commands)

\* Once users and kubelet are done, the containers that annotations name are
\* registered and stay so.
WantedEventuallyRegistered ==
    \A p \in Pods, c \in Ctrs : <>[](Wanted(p, c) => RegisteredAs(p, c) \/ MapFull)

\* A registered container whose tasks keep running the trigger is resized,
\* although single events are lost and patches fail.
BusyEventuallyResized ==
    BusyTasks => \A p \in Pods, c \in Ctrs :
        <>[](/\ Wanted(p, c) /\ RegisteredAs(p, c)
             /\ \E i \in Pids : task[i] = pods[p].cs[c]
             => pods[p].res[c] = pods[p].ann.resize)

=============================================================================

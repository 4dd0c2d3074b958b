# TLA+ models of ebpf-playground

The repository collects eBPF experiments for Kubernetes nodes. This directory
specifies the parts that carry state and run concurrently with a cluster, checks
them with TLC on small instances, and proves with TLAPS every safety property that
the passing runs check, for all instances.

Paths are abbreviated: CORE is
`src/ebpf-pod-resize-libbpf-rs-CO-RE/ebpf-pod-resize-libbpf-co-re/src`, KUBE is
`src/ebpf-pod-resize-libbpf-rs-CO-RE/kube`, NET is `src/ebpf-pod-network-stats`,
BOOT is `src/ebpf-pod-resize-libbpf-rs-CO-RE/libbpf-bootstrap/examples/c`.

## 1. Inventory

| Component | State | Operations | Interaction |
|---|---|---|---|
| CO-RE agent, main thread (CORE/main.rs) | stream of pods, the pod at hand | load and attach, list and watch pods, enter commands in the map | reads the API server; `find` and `ls` on /sys/fs/cgroup; writes the BPF map |
| CO-RE agent, perf thread (CORE/main.rs, two scripts) | event at hand | poll the ring, resolve pid and cgroup to a pod and container, get the pod, patch it | reads the ring; /proc, crictl, API server |
| Probe (CORE/bpf/podsnoop.bpf.c) | map of cgroup id to command, perf event array | on every execve: look up, compare, emit | shared map and ring |
| watcher, reflector, EventFlatten (KUBE/kube-runtime) | resource version, connection, store, queue | list, watch, recover | feeds the main thread |
| Statistics attachment (NET) | tc qdiscs and filters of the node's interfaces | list, check, add qdisc, add filter | fired by bpftrace on containerd's setupPodNetwork |
| BCC agent (src/ebpf-pod-resize/podsnoop.py) | map of cgroup id to command, trace pipe, `req` and `lim` of the last resize | as the CO-RE agent, in two processes; also takes entries out | a parent that joins both; API server, trace pipe |
| applier (KUBE/kube-runtime scheduler.rs, controller/, utils/mod.rs) | timers, held messages, slots of running reconciliations, wakers | take a request, merge, hold, start, finish, reschedule, end | one task, woken by its queue, its timer and its reconciliations |
| bootstrap (BOOT/bootstrap.bpf.c, bootstrap.c) | start time per pid, ring buffer | record an exec, report exec and exit, print | probes in the context of any process; ring buffer; signals |
| Statistics program (NET/ebpf-netstats-program) | none | one trace line per packet | |
| Host process identities (src/cilium-host-process-identities-poc-demo) | one pinned map | script writes an entry, data path reads it | |
| tc versus XDP (src/tc-vs-xdp-perf) | none | | |
| Rest of the vendored kube, libbpf-rs, libbpf-bootstrap | | | used by the CO-RE agent, or examples |

What is hard about it:

- the agent acts on a picture of the cluster that is late: the map lags behind
  annotations and containers, an event lags behind the process that caused it,
  and the pod is read a second time before it is patched;
- the process dies on every watch error and on many odd inputs, and rebuilds its
  state from a list;
- events are dropped when the ring is not open or full, when bpftrace's buffer
  is full, and when a watch event does not deserialize;
- the attach scripts check and act with separate commands while interfaces
  come and go;
- the applier is polled only when something has woken it, and each of its layers
  (select, split stream, scheduler, slots) must leave a waker behind for what it
  leaves undone;
- bootstrap's probes run on several CPUs between each other's steps, on processes
  whose ids are used again, and its program must notice a signal at any point.

What makes each part correct: the map holds every container an annotation asks
for and nothing nobody asked for; a resize reaches the container that executed
the trigger, with resources its own pod's annotation gave; the consumer of a
watch misses no object and is never set back; every interface gets the
statistics filter, once; every request to reconcile is followed by a run; a
reported duration is that of the process reported. `PROJECT.json` lists the hazards line by line with the
properties that cover them.

## 2. Modules

| Module | Models | Extends |
|---|---|---|
| `CommandMatch` | copying a command into the map value, and the byte loop of the probe | |
| `CommandMatchProofs` | theorems on it | `CommandMatch` |
| `KubeWatcher` | `step_trampolined`, `request_events`, `apply_watcher_event`, `EventFlatten`, against a server with a log, compaction and broken connections | |
| `KubeWatcherProofs` | theorems on it | `KubeWatcher` |
| `ObjectMirror` | what a watch promises, without lists, connections and versions on the wire | |
| `Cluster` | environment of the agent: pods, annotations, statuses, containers, tasks (external) | |
| `ClusterProofs` | lemmas on it, one for each of its steps, for both agents | `Cluster` |
| `PodsnoopProbe` | map, tracepoint program, ring | |
| `PodsnoopAgent` | both threads of main.rs and their scripts, composed with the two modules above | `Cluster`, `PodsnoopProbe` |
| `PodsnoopAgentProofs` | theorems on it | `PodsnoopAgent`, `ClusterProofs` |
| `PodsnoopBcc` | podsnoop.py: watcher, handler, parent, probe and trace pipe | `Cluster` |
| `PodsnoopBccProofs` | theorems on it | `PodsnoopBcc`, `ClusterProofs` |
| `Applier` | applier(), Scheduler, Runner, FutureHashMap, SplitCase | |
| `ApplierProofs` | theorems on it | `Applier` |
| `BootstrapTrace` | both probes of bootstrap.bpf.c and main() of bootstrap.c | |
| `BootstrapTraceProofs` | theorems on it | `BootstrapTrace` |
| `NetstatsAttach` | the three attach scripts and bpftrace's queue | |
| `NetstatsAttachProofs` | theorems on it | `NetstatsAttach` |
| `MC...` | constants for TLC, and the symmetries that `MCPodsnoopAgent.cfg`, `MCPodsnoopAgentBad.cfg` and `MCPodsnoopBcc.cfg` use | |

Operators that sit in front of a definition as a variant of it
(`ListOkFromCache` before `ListOk`, `NoWake` before `wake_by_ref`) are faulty on
purpose; no specification uses them. They exist to show that each property can fail.

### CommandMatch

State: the annotation's command, the task's program name, both 32-byte buffers,
the loop index and verdict. `Copy` and `CopyPanics` are the loop of
`create_resize_bpf_map_entry`, `GetCurrentComm` and `Compare` the probe. A buffer
is a function from index to byte, NUL a byte of its own. The kernel's truncation of a
name to `TASK_COMM_LEN - 1` bytes is external. `TriggersOnCommEquality` says, end
to end, which commands trigger on which programs; a consequence worth knowing is
that a command of 16 bytes or more never triggers.

### KubeWatcher

An object is its write's version. The server's log records for each write the key,
whether the object deserializes as the watched type, and the collection after it.
`state`, `rv` and the connection (`pos`, `mode`) are the watcher's `State`. One
action stands for one pass through `step_trampolined`. The store is
updated in the same step, as `inspect_ok` does; `Pop` hands out the objects of a
`Restarted` event. `RecvErr` covers every error that keeps the stream. `missed` is
a history variable: keys whose last event was dropped as undecodable since the last
list.

### ObjectMirror

The abstract promise: a replica is the collection at some version up to now, except for
keys it lags behind on, and moves forward only (`Sync`); a consumer is
handed the current state of the keys it is owed (`Hand`); what cannot be read is lost,
and named (`Lose`). `KubeWatcher` implements it (`ImplementsMirror`): the history is
the server's log, the replica the store, the version the one a watch resumes from,
what is owed the queue of `EventFlatten`.

### PodsnoopAgent

`stream` holds the objects the watcher has yet to hand over (what it is, `KubeWatcher`
shows: a list, then every later state in order, no deletions). `job` is the rest of
the loop over commands in `handle_k8s_pod`, one map update at a time. `event` goes
through the stages of `handle_pod_snoop_event`: resolved by the script
(`ResolveTo`), pod read (`GetPod`), patched (`PatchPod`); between any two, cluster
and main thread move on. `Down` is the end of the process, from a watch error, a
panic on the main thread, or a panic in the C callback, which aborts; `Load` is the
DaemonSet's restart. A panic happens at: a missing `cname`, a command that is no string
or too long, a container without cgroup directory, a missing `resize`.
Annotations are records of what the code tells apart: does it parse, `cname`,
is `commands` an array and of what, `resize`.

Cgroup ids are not reused in the model, and a pod's name is not used twice.
The hostname of a pod's process is the pod's name.

### PodsnoopBcc

`stream` holds the watch's events, `look` the event at hand and the pod as read
again (podsnoop.py:68), `pipe` the trace pipe, `event` the handler's line at its
stages: resolved, pod read, patched. An exception ends one process
(`WatcherDies`, `HandlerDies`); the parent joins both, so the agent is started again
only when both are dead (`ParentEnds`). `ready` is what podsnoop.py:65 asks of the
first container's status, `ready` and `started` in one bit: a container may run and not be
ready, at its start or later (`StartAny`, `BecomesReady`, `LosesReadiness`), each change is a MODIFIED
event, and events of a container that is not ready are skipped. `Key` is the cut of the
cgroup id to a `c_int`, and `ids` the numbers the kernel gives: with `KeyMod = 4` and the
ids 1 and 5 one id is cut, and the two containers share a key. The pid of a line is
abstracted: `Resolve` may yield any pod of the node with a running container, which
is what a reused pid amounts to. A patch carries the resource version of the
read, so the server refuses it after a change (`event.fresh`), and the refusal
ends the handler.

### Applier

One task. `pc` is where a poll is: in the split stream's case for errors, in the slots of
the Runner, in the requests of the scheduler, in its queue; between two stages,
senders, reconciliations and clock go on. `woken`, `armed` and `alarm` are the wakers:
whether the task is to be polled, whether the input will wake it, and when the
timer will. `peeked` is the item a `Peekable` holds; one peeked at by the wrong case is
Pending without a waker (utils/mod.rs:87). `slots` distinguishes a future never polled
(`fresh`), which has no waker yet. Time is relative: ticks until an instant.
`shutdown` is the end of the queue, which closes the channel of rescheduled requests, at
once or in the next poll, whichever of the two inputs was looked at first.
`wanted` is a history variable: messages requested since their last run began.
The channel of rescheduled requests never blocks, since each reconciliation has a
sender of its own, and is a set with the earliest instant per object, as the
scheduler merges them anyway. Reconciliations of objects that are not in the store
are runs that end at once.

### BootstrapTrace

Each process has a first thread (`task`) and may have another one (`thread`); exec and
the first thread's exit run a probe, step by step (`probe`): map, reserve, fill,
submit. Events sit in `rb` in the order of reservation, with the set of fields written
so far. Times are ages that stop growing at `MaxAge`. `main` is where main() is, with
the look at `exiting` and the wait as separate steps. `life` and `stale` are
history variables: the time since a process's own last exec, and pids whose start
was left in the map by a process that ended before `handle_exit` was attached.
Such a start is later taken for that of the next process with that pid, unless it
calls exec; `DurationIsOwn` and `ShortOnesHidden` exempt it. The exit of
the first thread is reported while other threads of the process may go on; their exits
are ignored (`handle_exit_thread`). The kernel's ring and map and libbpf's
`ring_buffer__poll` are external: the ring is read in order up to the first event
that is not submitted, and a wait ends at once when the ring has events.

### NetstatsAttach

`up`, `clsact` and `filters` are the kernel's state, `queue` bpftrace's buffer,
`pc`, `todo` and `targets` the running script. bpftrace's `system()` waits for the
script, so at most one runs. `script`, chosen from
`Scripts` at the start, says which one: the shell script
ignores errors and continues; the Python programs die on the first failing tc
command, because the error message's `format` raises. `owed` and `listed` are history
variables: the interfaces that were there when a run was asked for, and those the
last whole run has listed. tc commands fail only for an interface that is gone.
`section` is `eBPF_SECTION_NAME`, which only the Python programs read: they attach the
section it names and look for the default one (`SeenOn`). They are called if setupPodNetwork returned 0
(for the image's program this is the call that is commented out in
attach_ebpf_netstats_prog.sh), the shell script always (`Launches`).

## 3. Runs

| Run | Bounds | Shows |
|---|---|---|
| `command_match` | buffer 4, comm 3, two characters and NUL, strings up to 5 | which commands trigger; truncation, embedded NUL and full buffers all occur at this size, as only the order of the three lengths matters |
| `kube_watcher` | 2 objects, 3 writes, expiry as an ERROR event with code 410 | safety of store and consumer, catching up once writes stop, and the refinement of `ObjectMirror`. Three writes allow: create, lose the connection, delete and re-create behind its back, expire |
| `kube_watcher_refused` | 1 object, 2 writes | violation: expiry by HTTP status is never recovered from |
| `podsnoop_agent` | 2 local pods, 1 container name, 2 processes, 2 container instances, 2 edits, 1 watch error, ring of 1 | registration is complete, a resize follows its trigger |
| `podsnoop_agent_bad` | 2 local pods and 1 remote, 2 container names, 7 annotations, 6 of them odd, with different resizes, 1 pid for all, failing perf thread, map of 1 | map and resources are sound. With one pid that both local pods use in turn, an event of one is taken for the other's, whose annotation has another resize |
| `podsnoop_agent_live` | 2 local pods, 1 process, 2 edits, 1 watch error, no exits | every wanted container is registered, and resized if its task keeps executing the trigger |
| `podsnoop_agent_moved` | 1 pod with 2 containers, annotation moves between them | violation |
| `podsnoop_bcc` | 2 local pods, 1 container name, 2 container instances, 3 edits, deletions or losses of readiness, 2 events behind, map of 2, pipe of 1, keys of 4 values, ids 1 and 2 or 1 and 5 | the map follows annotations and deletions of ready containers once the watcher has caught up; resources change only as the annotation of that moment says. The bounds allow: entered, ready no longer, edited or deleted while it is not, ready again; ids 1 and 5 share a key |
| `applier` | 2 objects, 3 items of the queue, requeue after 2 ticks | no wakeup and no request is lost, the end waits for what runs. Three items allow: start a run, request it again while it runs, and an error between |
| `bootstrap_trace` | 2 pids, 3 forks, threads or execs, map of 1, ring of 2, ages up to 1, minimum 0 or 1 | durations, filter, ring and shutdown. Ages 0 and 1 tell a process's own exec from an earlier one |
| `netstats_attach` | any of the 3 scripts, the default section or another, 3 interfaces, 3 set-ups, buffer of 1, 1 restart | the default section never twice; a whole run attaches to everything it listed; the shell script attaches to everything |
| `netstats_attach_aborts` | 2 interfaces, the Python program of systemd_version | violation: one vanished interface stops the run |

With two container instances the map of `podsnoop_bcc` is never full; that the update
then raises (`CommandsRaise`) is only in the proofs, which hold for any `TableSize`.

Runs with `CHECK_DEADLOCK FALSE` are bounded by counters (edits, set-ups, writes) or,
for `CommandMatch`, end: with nothing more to do the system rests.

Two facts the runs bring out are not obvious from the code. A lost bpftrace event
loses no interface: the buffer was full, so a later run lists everything
(`ShellAttachesOwed` with a buffer of 1). And a lost perf event is harmless only if
the trigger is executed again (`BusyEventuallyResized` needs `BusyTasks`).

### What the violations mean

1. *Expired version, HTTP status* (KUBE/kube-runtime/src/watcher.rs:191).
   `request_events` does not look at the status of the response. A rejected watch is
   a stream whose one line is an error; the watcher keeps the stream, sees it end,
   and asks for the same version again. Its documentation promises a fresh list.
2. *Moved annotation* (CORE/main.rs:55). Map entries outlive annotations and the
   second look at the annotation compares neither container nor command, as
   podsnoop.py:123 does.
3. *Python attach aborts* (NET/systemd_version/attach_ebpf_stats_prog.py:60). The
   message about a failed tc command has two placeholders and one argument, so
   the program ends there; interfaces later in the list get no filter until the
   next pod is set up.

More limits are built into the passing properties rather than shown by a run of
their own.

A container that has ended keeps its id in the pod's status, but its cgroup
directory is gone, and the `unwrap` of CORE/main.rs:166 panics on it, after every
restart again; podsnoop.py:77 skips such a container. `WantedEventuallyRegistered` is
therefore claimed only where containers do not exit (`podsnoop_agent_live`): with
`Exits = TRUE` TLC finds it violated.

podsnoop.py: of a container that runs and is not ready nothing is claimed, since all its
events are skipped (podsnoop.py:65). It is not entered; an entry it has from before is
not changed by an edit and not removed by a deletion, and still triggers. The next event
that says it is ready puts that right, which `AnnotatedAreEntered` and
`DeletedAreRemoved` show; if the container ends before, the entry stays until the
agent is started again. With a falsy "resize" the resources of the line before are used, also of
another pod (podsnoop.py:124-127), which `ResizeOnlyAsAnnotated` allows. A pod that
is being deleted when the agent starts comes as ADDED and is entered again
(`relisted`). A container whose cgroup id does not fit a `c_int`, or shares
its lower half with another, is exempt (`KeepsKey`). When one process is dead and
the other is not, nobody starts it again: `AnnotatedAreEntered` speaks of a watcher
that is up.

Applier: an error of the queue that the scheduler's side meets first is left
without a waker, with everything behind it, until a timer or a running
reconciliation wakes the task; `NoLostWakeup` shows that one of them always will. At the end of the
queue messages that wait are dropped, and futures put in a slot in that very poll too
(`EndAbandonsOnlyFresh`).

An event that does not deserialize (watcher.rs:191) is reported, dropped and
passed over by the next event's version; its object is in `missed`, and exempt,
until its next event or a list.

A pid that is used again before its event
is resolved (get-podns-podname-ctrname.sh:6) sends the resize to another pod;
`ResizeFollowsTrigger` is checked with `ReusePids = FALSE`, and with reuse only
`ResourcesFromOwnAnnotation` is claimed: the other pod is given what its own
annotation says, not what that of the trigger's pod says.

A map that is full leaves a container out (CORE/main.rs:173), which
`WantedAreRegistered` exempts.

The Python programs search for the default
section name and attach the one of the environment (attach_ebpf_stats_prog.py:41 and
77). With another name every run attaches the filter once more, so `OneFilterEach` is
claimed for the default, which is what the launching scripts leave in place;
`WholeRunAttaches` holds for any.

### Fairness

- `KubeWatcher`: requests and reads that can succeed again and again do succeed
  (strong fairness, for the read of each version on its own: the network may fail any finite number of times in between, and
  nothing in the watcher itself favours failure); a failed connection ends and the
  queue is drained (weak fairness: the consumer polls in a loop, main.rs:249).
- `PodsnoopAgent`: both threads keep running and the DaemonSet restarts the process
  (weak fairness); resolving, reading and patching succeed if they can again and again
  (strong). `BusyTasks`, that a task keeps executing programs, is an assumption on
  the workload: it is the antecedent of `BusyEventuallyResized`, not part of
  `FairSpec`.
- `NetstatsAttach`: bpftrace and the running script go on (weak fairness of
  `Daemon`). Nothing is assumed of containerd.
- `Applier`: the runtime polls a task that was woken and a poll goes on, time passes,
  and reconciliations end (weak fairness; the last is an assumption on the
  reconciler that is handed in). Nothing is assumed of the queue.
- `BootstrapTrace`: the program is scheduled, and a probe runs to its end, which the
  verifier guarantees (weak fairness). Nothing is assumed of processes and signals.

## 4. Proofs

Each proof module states one inductive invariant `Inv`, shows that `Init` implies it
and that every action keeps it (one lemma for each action, or for each kind of step),
and draws the theorems from it. TLC checked each `Inv` as an invariant of the
component's run before it was proved.

| Module | Theorems |
|---|---|
| `CommandMatchProofs` | `TypeCorrect`, `StaysInside`, `DecidesEquality`, `TriggersExactly` |
| `KubeWatcherProofs` | `TypeCorrect`, `StoreCorrect`, `ConsumerCorrect`, `ConsumerMonotone` (an action property), `MirrorImplemented` (the refinement) |
| `PodsnoopAgentProofs` | `TypeCorrect`, `MapHoldsOnlyAskedFor`, `NoWantedIsLost`, `ResourcesAreOwn`, `ResizeIsForTrigger` |
| `PodsnoopBccProofs` | `TypeCorrect`, `CaughtUpIsEntered`, `CaughtUpIsRemoved`, `NothingElseIsResized` (an action property) |
| `ApplierProofs` | `TypeCorrect`, `NeverSleepsOnWork`, `EndDropsNoneBegun` |
| `BootstrapTraceProofs` | `TypeCorrect`, `MapDoesNotLeak`, `DurationsAreOwn`, `MinimumHides`, `NothingUnsetIsRead` (an action property) |
| `NetstatsAttachProofs` | `TypeCorrect`, `NeverAttachedTwice`, `WholeRunIsComplete`, `ShellOwesNobody` |

`CommandMatchProofs`, for every `BUF_SIZE`, `TASK_COMM_LEN <= BUF_SIZE`, alphabet
and length: `TypeCorrect`, `StaysInside`, `DecidesEquality`, `TriggersExactly`.
The inductive invariant adds to the type invariant what each buffer holds after
each stage, that all bytes before `i` are equal and not NUL, and that the verdict
`0` comes with a difference at `i`. `StaysInside` rests on the NUL the kernel
leaves inside `TASK_COMM_LEN` bytes: the loop always leaves by a break.

`KubeWatcherProofs`, for any set of objects and any `MaxRV`: `TypeCorrect`,
`StoreCorrect`, `ConsumerCorrect`, `ConsumerMonotone`. The inductive invariant `Inv`
has seven parts:

- `TypeOK`;
- `LogInv`: a write changes no other key (`LogStable`) and gives its own key its
  version or none (`LogWrites`), no snapshot holds an object of the future (`LogPast`),
  versions of a key only grow unless it is deleted (`LogOrder`);
- `StoreIsSnapshot`: the store against the collection at `rv`;
- `StoreIsSnapshotAtPos`: the same at `pos`, the position of the connection, which
  bookmarks and dropped events move ahead of `rv`. Without it the next event
  could not be shown to be the only one missing;
- `ConsumerHasStore`: what the consumer has is what is in the store, or still queued;
- `QueueIsListed`: queued keys are in the store, and nothing has moved since the list;
- `AppliedSeen`: what the consumer was handed is part of some snapshot up to `rv`, hence
  `ConsumerMonotone`, an action property.

`MirrorImplemented`, in the same module, is the refinement: the initial states map
to an initial state of `ObjectMirror`, a write appends to its history
(`ServerIsMirror`, from `AppendIsChange`), and a step of the watcher is a `Sync`, a `Hand`,
a `Lose` or a stutter (`MovesAreMirror`). It needs `Inv` on both sides of a step:
that the replica after a step is the collection at the new version is
`StoreIsSnapshot`, and that what is handed out is current is `QueueIsListed`.

`ClusterProofs` has no theorem of its own. `ClusterInv` says that the id in a pod's
status is that of an instance of this very container (`Of`), that a pod's annotation
is in its history, and that a task's cgroup is alive; `Grows`, that a step of the
cluster takes nothing of the past back. Both agents work on copies of the cluster,
and what their invariants say of a copy is kept by every step that `Grows`.

`PodsnoopAgentProofs`, for any finite set of pods, any annotations, containers and
process ids, and any sizes of map and ring. Of every copy `Inv` says what it has in
common with the cluster: objects of the stream, the job, map entries, events in
the ring and the event at hand name a cgroup and a command that an annotation of the
cgroup's own pod listed for its container (`AskedFor`). Two more parts carry
`NoWantedIsLost`: the last object of a pod in the stream is the pod as it is
(`LastIsCurrent`), and a wanted container of which the stream says nothing more is in
the map, or the job at hand will leave its last command there, or the map is full
(`Covered`). `ResizeIsForTrigger` has `~ ReusePids` as a hypothesis, the case in which
the run checks it: `RingOK` says under it that the pid of an event is that of a task
of its cgroup, or of none. The other four theorems hold with reuse as well.

`PodsnoopBccProofs`, for the same clusters, any ids and any sizes of table and pipe. `Inv`
follows a pod whose first container is ready through the watcher (what is ready exists
and runs, `ReadyOK`, and stays so in every step that does not say otherwise,
`ReadyStays`): its last event tells that container and that it is ready, and
is a MODIFIED if the deletion began while the agent watched (`LastIsCurrent`, `Told`);
while its container is looked at and no event of it follows, annotation and deletion
timestamp as read are the present ones (`LookIsCurrent`); after that the map is as it
should be (`Covered`). That the entry of another container is left alone is
`KeepsKey` (`KeyApart`). For `NothingElseIsResized`, `EventOK` says that a body that is
not out of date agrees with the pod; every change of the pod makes it out of date.

`ApplierProofs`, for any set of messages and any delays. Between two stages of a
poll everything else goes on, so `Inv` says for each stage what the stages before have
settled, unless a wakeup has come since: the slots have wakers (`SlotsSeen`), the
input has one or an error is next (`RequestsSeen`, `ErrsSeen`), and, if the Runner's
side was polled first, the timer is set too (`ViaSeen`). `NoLostWakeup` and
`EndAbandonsOnlyFresh` are parts of `Inv`.

`BootstrapTraceProofs`, for any set of pids, any sizes of map and ring, and any
minimum. `Inv` says what is known of a probe between its look at the map and its
submit: that the start is the process's own or stale, that behind its entry
`handle_exit` has deleted it, that with a minimum only long lives go on; and of an
event of the ring, that one not submitted belongs to one running probe, and one
submitted has all fields set that `handle_event` reads.

`NetstatsAttachProofs`, for any finite set of interfaces, any buffer, any number of
pods and restarts. `Inv` says what the loops of a script promise of their lists: no
interface is in them twice, those picked have no filter yet if the section is the
default one (`PickedAreBare`), those
listed and still there have one or are in a list (`ListedAreCovered`), and, if no
event waits, the shell script's list has everyone owed (`OwedAreListed`).

Only model-checked: the liveness properties `EventuallySynced`,
`WantedEventuallyRegistered`, `BusyEventuallyResized`, `EventuallyAttached`,
`NoRequestLost`, `GracefulEnd`, `EventsAreHandled` and `SignalEnds`. Fairness and
ENABLED are outside the prover's reach. The three properties of the violation runs
do not hold, and are not theorems.

Assumptions are the named `ASSUME`s of the modules; each holds in every run. Beyond
types they say: there are finitely many pods and interfaces (a list of
all is a sequence); `TASK_COMM_LEN <= BUF_SIZE`; the commands of an annotation are a
list; the agents' maps, ring and pipe and bpftrace's buffer have room for one entry; and the values
`Err`, `"none"` and `"queue"` of `Applier` are no messages.

## 5. Plan

Done, in this order: `CommandMatch` with proofs, `KubeWatcher` with proofs, `Cluster`,
`PodsnoopProbe` and `PodsnoopAgent`, `NetstatsAttach`, `ObjectMirror` and its
refinement, `PodsnoopBcc`, `Applier`, `BootstrapTrace`; then the proofs of
`NetstatsAttach`, `BootstrapTrace`, `PodsnoopAgent`, `Applier` and `PodsnoopBcc`.

Next: step lemmas towards the liveness arguments (what a step of the watcher or of
the main thread can only bring closer), as far as they are safety; for the
applier, that a request is never forgotten without a run (the safety half of
`NoRequestLost`).

## 6. Not modelled

- Packet programs (bpf_network_stats.c, tc_ingress.c, xdp_ingress.c): stateless.
- Reading and printing of names, JSON and command output: only whether they succeed
  and what they yield. `get-podns-podname-ctrname.sh` yields a pod's host name and
  the container of a cgroup, or nothing.
- The skeleton's open, load and attach are one step and succeed; their failure ends
  the process before anything happened.
- Reuse of cgroup ids (inode numbers, get-podns-podname-ctrname.sh:11) and of pod names
  (StatefulSets).
- kube-client's configuration, TLS, authentication and discovery, kube-derive and
  libbpf-cargo: I/O, formatting and code generation.
- Vendored code that the agent does not reach: the Controller builder, backoff, wait
  and finalizer of kube-runtime, libbpf-rs beyond map and perf buffer, the other
  examples of libbpf-bootstrap and libbpf-rs (one call, one line of output, no state
  that outlives it).
- The vmlinux headers: 546432 of the 548935 lines of C in the repository are type
  declarations generated from a kernel. They have no behaviour, and the share of C
  lines the models cover has to be read against the other 2500.
- The host process demo: a patch for Cilium, whose code is not here, and one write
  to a map by hand.
- `-d` of bootstrap wraps at 2^64 nanoseconds; the model's durations are ticks.
- tc commands that fail although the interface is there.
- Demos' manifests, Dockerfiles and build scripts.

## 7. Running

    tlc -workers 2 -config MCPodsnoopAgent.cfg MCPodsnoopAgent
    tlapm KubeWatcherProofs.tla

Every run takes about three minutes or less on two cores, the proofs together about
six.

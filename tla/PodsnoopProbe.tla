--------------------------- MODULE PodsnoopProbe ---------------------------
(***************************************************************************)
(* The kernel side of the pod-resize agent (podsnoop.bpf.c): the hash map    *)
(* resize_containers_map, from cgroup id to trigger command, the program on *)
(* the sys_enter_execve tracepoint, and the perf event array it writes to.  *)
(* That the program's byte loop is equality of command and comm is the      *)
(* subject of module CommandMatch.                                          *)
(***************************************************************************)
EXTENDS Naturals, Sequences, FiniteSets

CONSTANTS
    MAX_NUM_CONTAINERS,  \* max_entries of the map
    PerfCap              \* events a perf ring holds

ASSUME ProbeAssumption ==
    MAX_NUM_CONTAINERS \in Nat \ {0} /\ PerfCap \in Nat \ {0}

VARIABLES
    attached,               \* is the program on its tracepoint
    resize_containers_map,  \* cgroup id -> command
    opened,                 \* has a perf buffer been built on the array
    pod_exec_events         \* the ring: sequence of [cgroup_id, cgroup_pid, cgroup_cmd]

probe == <<attached, resize_containers_map, opened, pod_exec_events>>

Registered == DOMAIN resize_containers_map

MapFull == Cardinality(Registered) = MAX_NUM_CONTAINERS

\* Nothing of the program is left in the kernel.
Unloaded ==
    /\ attached = FALSE /\ resize_containers_map = <<>>
    /\ opened = FALSE /\ pod_exec_events = <<>>

Unload ==
    /\ attached' = FALSE /\ resize_containers_map' = <<>>
    /\ opened' = FALSE /\ pod_exec_events' = <<>>

\* The map with this value for this key.
Put(cgroup_id, cmd) ==
    [n \in Registered \cup {cgroup_id} |->
        IF n = cgroup_id THEN cmd ELSE resize_containers_map[n]]

UpdateOnlyNew(cgroup_id, cmd) ==
    IF ~ MapFull /\ cgroup_id \notin Registered
    THEN resize_containers_map' = Put(cgroup_id, cmd)
    ELSE UNCHANGED resize_containers_map

\* bpf_map_update_elem with BPF_ANY: a full map takes no new key.
Update(cgroup_id, cmd) ==
    IF cgroup_id \in Registered \/ ~ MapFull
    THEN resize_containers_map' = Put(cgroup_id, cmd)
    ELSE UNCHANGED resize_containers_map

podsnoopAnyCommand(cgroup_id, pid, comm) ==
    /\ attached
    /\ cgroup_id \in Registered
    /\ opened /\ Len(pod_exec_events) < PerfCap
    /\ pod_exec_events' = Append(pod_exec_events,
           [cgroup_id |-> cgroup_id, cgroup_pid |-> pid, cgroup_cmd |-> comm])
    /\ UNCHANGED <<attached, resize_containers_map, opened>>

\* A task enters execve; comm is its name at that moment.  bpf_perf_event_output
\* fails while no perf buffer is open, and when the ring is full.
podsnoop(cgroup_id, pid, comm) ==
    /\ attached
    /\ cgroup_id \in Registered /\ resize_containers_map[cgroup_id] = comm
    /\ opened /\ Len(pod_exec_events) < PerfCap
    /\ pod_exec_events' = Append(pod_exec_events,
           [cgroup_id |-> cgroup_id, cgroup_pid |-> pid, cgroup_cmd |-> comm])
    /\ UNCHANGED <<attached, resize_containers_map, opened>>

=============================================================================

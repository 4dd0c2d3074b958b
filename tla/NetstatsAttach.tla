--------------------------- MODULE NetstatsAttach ---------------------------
(***************************************************************************)
(* The daemon that attaches the network statistics program to the veth of   *)
(* every pod.  bpftrace fires when containerd's setupPodNetwork returns and  *)
(* runs one attach script after the other; each lists the interfaces,        *)
(* looks for those without the filter and adds it with tc.  Pods come and go *)
(* between any two commands.                                                 *)
(*                                                                           *)
(* Three scripts do the same work differently: the shell script of the       *)
(* image, the Python program it replaced, and the one of systemd_version.    *)
(***************************************************************************)
EXTENDS Naturals, Sequences, FiniteSets, SequencesExt

CONSTANTS
    Ifs,            \* names of veth interfaces
    Scripts,        \* the scripts in use: of "sh", "image_py" and "systemd_py"
    Sections,       \* eBPF_SECTION_NAME: the "default" name or an "other"
    QueueCap,       \* events bpftrace buffers before it loses one
    MaxSetups,      \* bound: pod networks set up
    MaxRestarts     \* bound: restarts of the daemon

ASSUME AttachAssumption ==
    /\ IsFiniteSet(Ifs) /\ Scripts \subseteq {"sh", "image_py", "systemd_py"}
    /\ "default" \in Sections /\ Sections \subseteq {"default", "other"}
    /\ QueueCap \in Nat \ {0} /\ MaxSetups \in Nat /\ MaxRestarts \in Nat

VARIABLES
    script,    \* the one this daemon runs
    section,   \* section of the program that it attaches
    up,        \* cni veth interfaces that are there
    clsact,    \* those with the clsact qdisc
    filters,   \* [Ifs -> Nat]: filters with the program on each
    setting,   \* interfaces whose setupPodNetwork has not returned yet
    queue,     \* events of bpftrace: did setupPodNetwork return 0
    pc,        \* command the running script is at, "idle" if none runs
    todo,      \* interfaces its loop has still to visit
    targets,   \* interfaces its loop has picked for the next one
    setups, restarts,
    owed,      \* history: up when a run was asked for, and ever since
    listed     \* history: listed by the last run that was not cut short, up ever since

net    == <<up, clsact, filters, setting, setups>>
daemon == <<script, queue, pc, todo, targets, restarts>>
vars   == <<net, daemon, section, owed, listed>>

Init ==
    /\ script \in Scripts
    /\ section \in IF script = "sh" THEN {"default"} ELSE Sections
    /\ up \in SUBSET Ifs /\ clsact = {} /\ filters = [i \in Ifs |-> 0]
    /\ setting = {} /\ setups = 0
    /\ queue = <<>> /\ pc = "idle" /\ todo = <<>> /\ targets = <<>> /\ restarts = 0
    /\ owed = {} /\ listed = {}

-----------------------------------------------------------------------------
(* containerd and the kernel *)

\* The CNI plugin has made the interface of a new pod.
AddVeth(i) ==
    /\ i \notin up /\ setups < MaxSetups
    /\ up' = up \cup {i} /\ setting' = setting \cup {i} /\ setups' = setups + 1
    /\ UNCHANGED <<clsact, filters, daemon, owed, listed>>

Gone(i) ==
    /\ up' = up \ {i} /\ clsact' = clsact \ {i} /\ filters' = [filters EXCEPT ![i] = 0]
    /\ setting' = setting \ {i} /\ listed' = listed \ {i}

\* Does this retval make the script look for interfaces?  The Python programs
\* are called for 0 only.
Launches(ok) == script # "sh" => ok

\* The uretprobe fires; an event that finds the buffer full is lost.
Fire(ok) ==
    queue' = IF Len(queue) < QueueCap THEN Append(queue, ok) ELSE queue

SetupReturns(i) ==
    /\ i \in setting
    /\ setting' = setting \ {i}
    /\ Fire(TRUE) /\ owed' = up
    /\ UNCHANGED <<up, clsact, filters, setups, pc, todo, targets, script, restarts, listed>>

\* The set-up fails: the interface goes, and an error is returned.
SetupFails(i) ==
    /\ i \in setting
    /\ Gone(i)
    /\ Fire(FALSE) /\ owed' = (IF Launches(FALSE) THEN up ELSE owed) \ {i}
    /\ UNCHANGED <<setups, pc, todo, targets, script, restarts>>

\* A pod ends, and with its interface qdisc and filters.
TearDown(i) ==
    /\ i \in up \ setting
    /\ Gone(i) /\ owed' = owed \ {i}
    /\ UNCHANGED <<setups, daemon>>

-----------------------------------------------------------------------------
(* Every script *)

\* system(): bpftrace waits for the script before it looks at the next event.
Start ==
    /\ pc = "idle" /\ queue # <<>>
    /\ queue' = Tail(queue)
    /\ pc' = IF Launches(Head(queue)) THEN "list" ELSE "idle"
    /\ UNCHANGED <<net, todo, targets, script, restarts, owed, listed>>

\* ip link show, or the dump of NDB.
List ==
    /\ pc = "list"
    /\ todo' \in SetToSeqs(up) /\ targets' = <<>>
    /\ pc' = IF script = "sh" THEN "check" ELSE "netns"
    /\ listed' = up
    /\ UNCHANGED <<net, queue, script, restarts, owed>>

\* The daemon's container is killed and started again.
Restart ==
    /\ restarts < MaxRestarts /\ restarts' = restarts + 1
    /\ queue' = <<>> /\ pc' = "idle" /\ todo' = <<>> /\ targets' = <<>>
    /\ owed' = {} /\ listed' = {}
    /\ UNCHANGED <<net, script>>

i0      == Head(todo)
At(s)   == pc = s /\ todo # <<>>
Next_i  == todo' = Tail(todo)

\* tc filter show | grep.  Every script looks for the default name, the one the
\* shell script attaches; the Python programs attach eBPF_SECTION_NAME.
SeenOn(i) == filters[i] > 0 /\ section = "default"

AddClsact == clsact' = clsact \cup ({i0} \cap up)

\* tc filter add needs the interface and its clsact qdisc; without a
\* preference it adds one more filter every time.
CanAttach == i0 \in up \cap clsact
AddFilter ==
    filters' = IF CanAttach THEN [filters EXCEPT ![i0] = @ + 1] ELSE filters

-----------------------------------------------------------------------------
(* do_attach_ebpf_netstats_prog.sh: errors are printed, and the loop goes on *)

\* tc filter show | grep; nothing is found on an interface that is gone.
ShCheck ==
    /\ script = "sh" /\ At("check")
    /\ IF SeenOn(i0) THEN Next_i /\ UNCHANGED pc
                     ELSE pc' = "qdisc" /\ UNCHANGED todo
    /\ UNCHANGED <<net, queue, targets, script, restarts, owed, listed>>

ShQdiscAdd ==
    /\ script = "sh" /\ At("qdisc")
    /\ AddClsact
    /\ pc' = "filter"
    /\ UNCHANGED <<up, filters, setting, setups, queue, todo, targets, script, restarts, owed, listed>>

ShFilterAddStops ==
    /\ script = "sh" /\ At("filter")
    /\ AddFilter
    /\ todo' = (IF CanAttach THEN Tail(todo) ELSE <<>>) /\ pc' = "check"
    /\ UNCHANGED <<up, clsact, setting, setups, queue, targets, script, restarts, owed, listed>>

ShFilterAddRetries ==
    /\ script = "sh" /\ At("filter")
    /\ AddFilter
    /\ todo' = (IF CanAttach THEN Tail(todo) ELSE todo) /\ pc' = "check"
    /\ UNCHANGED <<up, clsact, setting, setups, queue, targets, script, restarts, owed, listed>>

ShFilterAdd ==
    /\ script = "sh" /\ At("filter")
    /\ AddFilter
    /\ Next_i /\ pc' = "check"
    /\ UNCHANGED <<up, clsact, setting, setups, queue, targets, script, restarts, owed, listed>>

ShDoneEarly ==
    /\ script = "sh" /\ pc = "check"
    /\ pc' = "idle"
    /\ UNCHANGED <<net, queue, todo, targets, script, restarts, owed, listed>>

ShDone ==
    /\ script = "sh" /\ pc = "check" /\ todo = <<>>
    /\ pc' = "idle"
    /\ UNCHANGED <<net, queue, todo, targets, script, restarts, owed, listed>>

-----------------------------------------------------------------------------
(* The Python programs *)

Py == script # "sh"

\* The run ends before its lists are done.
Abort ==
    /\ pc' = "idle" /\ todo' = <<>> /\ targets' = <<>> /\ listed' = {}
    /\ UNCHANGED <<queue, script, restarts, owed>>

\* ip netns list-id does not print the name of an interface that is gone.
PyNetns ==
    /\ Py /\ At("netns")
    /\ targets' = IF i0 \in up THEN Append(targets, i0) ELSE targets
    /\ Next_i
    /\ UNCHANGED <<net, queue, pc, script, restarts, owed, listed>>

\* It may also fail for one; the image's program then returns None.
PyNetnsFails ==
    /\ script = "image_py" /\ At("netns") /\ i0 \notin up
    /\ Abort
    /\ UNCHANGED net

PyCheckNothing ==
    /\ Py /\ At("check")
    /\ targets' = Append(targets, i0)
    /\ Next_i
    /\ UNCHANGED <<net, queue, pc, script, restarts, owed, listed>>

\* get_ebpf_stats_target_interfaces: an interface that is gone is a target too.
PyCheck ==
    /\ Py /\ At("check")
    /\ targets' = IF SeenOn(i0) THEN targets ELSE Append(targets, i0)
    /\ Next_i
    /\ UNCHANGED <<net, queue, pc, script, restarts, owed, listed>>

\* One list is done; the next loop goes over what it picked.
PyNextLoop ==
    /\ Py /\ pc \in {"netns", "check"} /\ todo = <<>>
    /\ pc' = IF pc = "netns" THEN "check" ELSE "show"
    /\ todo' = targets /\ targets' = <<>>
    /\ UNCHANGED <<net, queue, script, restarts, owed, listed>>

PyQdiscShowSkips ==
    /\ Py /\ At("show") /\ i0 \in up
    /\ IF i0 \in clsact THEN Next_i /\ UNCHANGED pc
                        ELSE pc' = "qdisc" /\ UNCHANGED todo
    /\ UNCHANGED <<net, queue, targets, script, restarts, owed, listed>>

PyQdiscShow ==
    /\ Py /\ At("show") /\ i0 \in up
    /\ pc' = IF i0 \in clsact THEN "filter" ELSE "qdisc"
    /\ UNCHANGED <<net, queue, todo, targets, script, restarts, owed, listed>>

PyQdiscAdd ==
    /\ Py /\ At("qdisc") /\ i0 \in up \ clsact
    /\ AddClsact
    /\ pc' = "filter"
    /\ UNCHANGED <<up, filters, setting, setups, queue, todo, targets, script, restarts, owed, listed>>

PyFilterAdd ==
    /\ Py /\ At("filter") /\ CanAttach
    /\ AddFilter
    /\ Next_i /\ pc' = "show"
    /\ UNCHANGED <<up, clsact, setting, setups, queue, targets, script, restarts, owed, listed>>

\* Any of the three tc commands fails.  Printing that raises IndexError (two
\* placeholders, one argument), and so the program ends.
PyTcFails ==
    /\ Py
    /\ \/ At("show") /\ i0 \notin up
       \/ At("qdisc") /\ i0 \notin up \ clsact
       \/ At("filter") /\ ~ CanAttach
    /\ Abort
    /\ UNCHANGED net

PyDone ==
    /\ Py /\ pc = "show" /\ todo = <<>>
    /\ pc' = "idle"
    /\ UNCHANGED <<net, queue, todo, targets, script, restarts, owed, listed>>

-----------------------------------------------------------------------------

Daemon ==
    /\ UNCHANGED section
    /\ \/ Start \/ List
       \/ ShCheck \/ ShQdiscAdd \/ ShFilterAdd \/ ShDone
       \/ PyNetns \/ PyNetnsFails \/ PyCheck \/ PyNextLoop
       \/ PyQdiscShow \/ PyQdiscAdd \/ PyFilterAdd \/ PyTcFails \/ PyDone

Environment ==
    /\ UNCHANGED section
    /\ \/ \E i \in Ifs : AddVeth(i) \/ SetupReturns(i) \/ SetupFails(i) \/ TearDown(i)
       \/ Restart

Next == Environment \/ Daemon

Spec == Init /\ [][Next]_vars

\* bpftrace and its scripts keep running.
FairSpec == Spec /\ WF_vars(Daemon)

-----------------------------------------------------------------------------
(* Properties *)

TypeOK ==
    /\ up \subseteq Ifs /\ clsact \subseteq up /\ setting \subseteq up
    /\ filters \in [Ifs -> Nat]
    /\ \A i \in Ifs : filters[i] > 0 => i \in clsact
    /\ script \in Scripts /\ section \in Sections /\ (script = "sh" => section = "default")
    /\ Len(queue) <= QueueCap
    /\ pc \in {"idle", "list", "netns", "check", "show", "qdisc", "filter"}
    /\ pc = "idle" => todo = <<>> /\ targets = <<>>
    /\ owed \subseteq up /\ listed \subseteq up

\* With nothing left to do, every interface that was there when a run was asked
\* for has the filter.
OwedAreAttached ==
    pc = "idle" /\ queue = <<>> => \A i \in owed : filters[i] > 0

\* The shell script of the image achieves it: also if an interface's own event
\* was lost, if the run met interfaces that had gone, or if an earlier run was
\* killed half-way.
ShellAttachesOwed == script = "sh" => OwedAreAttached

\* No interface gets the filter twice, whatever ran before, if what is attached
\* has the name that is looked for.  With another eBPF_SECTION_NAME every run
\* adds one more.
OneFilterEach == section = "default" => \A i \in Ifs : filters[i] <= 1

\* A run that reaches the end of its lists leaves the filter on everything it
\* listed that is still there.
WholeRunAttaches == pc = "idle" => \A i \in listed : filters[i] > 0

\* An interface that stays gets its filter from the shell script in the end.
EventuallyAttached ==
    \A i \in Ifs : <>[](script = "sh" /\ i \in owed => filters[i] > 0)

=============================================================================

------------------------ MODULE NetstatsAttachProofs ------------------------
(***************************************************************************)
(* For any finite set of interfaces, any length of bpftrace's buffer and    *)
(* any number of pods and restarts: no interface gets the filter twice, a   *)
(* run that is not cut short attaches all it listed, and the shell script   *)
(* owes nobody a filter once it has nothing left to do.                     *)
(*                                                                          *)
(* What makes these inductive is what the loops of a script have promised   *)
(* about the interfaces in their lists: that none is in them twice, that    *)
(* those picked had no filter and have none yet, and that those listed and  *)
(* still without one are in a list.                                         *)
(***************************************************************************)
EXTENDS NetstatsAttach, FiniteSetTheorems, TLAPS

ToVisit == Range(todo)
Picked  == Range(targets)

\* Lists and events have their types, and no interface is listed twice.
ListsOK ==
    /\ queue \in Seq(BOOLEAN)
    /\ todo \in Seq(Ifs) /\ targets \in Seq(Ifs)
    /\ IsInjective(todo) /\ IsInjective(targets)
    /\ ToVisit \cap Picked = {}

\* Which list is in use where.
StagesOK ==
    /\ pc = "list" => todo = <<>>
    /\ pc \in {"qdisc", "filter"} => todo # <<>>
    /\ pc \notin {"netns", "check"} => targets = <<>>
    /\ script = "sh" => pc \notin {"netns", "show"} /\ targets = <<>>

\* What a loop will attach to had no filter when it was looked at, and still
\* has none: nobody else adds one, and an interface that came back is new.
PickedAreBare ==
    section = "default" =>
    /\ script = "sh" /\ pc \in {"qdisc", "filter"} => filters[i0] = 0
    /\ script # "sh" /\ pc = "check" => \A i \in Picked : filters[i] = 0
    /\ script # "sh" /\ pc \in {"show", "qdisc", "filter"} =>
          \A i \in ToVisit : filters[i] = 0

\* What was listed and is still there has its filter or its turn will come.
ListedAreCovered == \A i \in listed : filters[i] > 0 \/ i \in ToVisit \cup Picked

\* An interface that was there throughout has got its qdisc.
QdiscFirst == pc = "filter" /\ i0 \in listed => i0 \in clsact

\* If no event waits, the list of the shell script has everyone owed.
OwedAreListed == script = "sh" /\ queue = <<>> /\ pc # "list" => owed \subseteq listed

Inv ==
    /\ TypeOK /\ ListsOK /\ StagesOK
    /\ OneFilterEach /\ PickedAreBare
    /\ ListedAreCovered /\ QdiscFirst /\ OwedAreListed

-----------------------------------------------------------------------------
(* Lists without repetition *)

LEMMA EmptyList ==
    /\ <<>> \in Seq(Ifs) /\ IsInjective(<<>>) /\ Range(<<>>) = {}
BY DEF IsInjective, Range

\* The head of a list leaves it with one step of the loop.
LEMMA TailOfList ==
    ASSUME NEW s \in Seq(Ifs), s # <<>>, IsInjective(s)
    PROVE  /\ Head(s) \in Range(s) /\ Head(s) \in Ifs
           /\ Tail(s) \in Seq(Ifs) /\ IsInjective(Tail(s))
           /\ Range(Tail(s)) = Range(s) \ {Head(s)}
<1>1. /\ Len(s) \in Nat \ {0} /\ DOMAIN s = 1 .. Len(s)
      /\ Head(s) = s[1] /\ Tail(s) \in Seq(Ifs)
      /\ Len(Tail(s)) = Len(s) - 1 /\ DOMAIN Tail(s) = 1 .. Len(s) - 1
      /\ \A n \in 1 .. Len(s) - 1 : Tail(s)[n] = s[n + 1]
    OBVIOUS
<1>2. \A m, n \in 1 .. Len(s) : s[m] = s[n] => m = n
    BY <1>1 DEF IsInjective
<1>3. IsInjective(Tail(s))
    BY <1>1, <1>2 DEF IsInjective
<1>4. Range(Tail(s)) \subseteq Range(s) \ {Head(s)}
    BY <1>1, <1>2 DEF Range
<1>5. Range(s) \ {Head(s)} \subseteq Range(Tail(s))
    <2>1. SUFFICES ASSUME NEW n \in 1 .. Len(s), s[n] # s[1]
                   PROVE  s[n] \in Range(Tail(s))
        BY <1>1 DEF Range
    <2>2. n - 1 \in 1 .. Len(s) - 1 /\ Tail(s)[n - 1] = s[n]
        BY <1>1, <2>1
    <2>3. QED
        BY <1>1, <2>2 DEF Range
<1>6. Head(s) \in Range(s) /\ Head(s) \in Ifs
    BY <1>1 DEF Range
<1>7. QED
    BY <1>1, <1>3, <1>4, <1>5, <1>6

\* An interface that is picked joins the others.
LEMMA AppendToList ==
    ASSUME NEW s \in Seq(Ifs), NEW i \in Ifs, IsInjective(s), i \notin Range(s)
    PROVE  /\ Append(s, i) \in Seq(Ifs) /\ IsInjective(Append(s, i))
           /\ Range(Append(s, i)) = Range(s) \cup {i}
<1>1. /\ Len(s) \in Nat /\ DOMAIN s = 1 .. Len(s)
      /\ Append(s, i) \in Seq(Ifs)
      /\ Len(Append(s, i)) = Len(s) + 1
      /\ DOMAIN Append(s, i) = 1 .. Len(s) + 1
      /\ \A n \in 1 .. Len(s) : Append(s, i)[n] = s[n]
      /\ Append(s, i)[Len(s) + 1] = i
    OBVIOUS
<1>2. /\ \A m, n \in 1 .. Len(s) : s[m] = s[n] => m = n
      /\ \A n \in 1 .. Len(s) : s[n] # i
    BY <1>1 DEF IsInjective, Range
<1>3. IsInjective(Append(s, i))
    BY <1>1, <1>2 DEF IsInjective
<1>4. Range(Append(s, i)) = Range(s) \cup {i}
    BY <1>1 DEF Range
<1>5. QED
    BY <1>1, <1>3, <1>4

\* ip link show names every interface once, in some order.
LEMMA ListOfSet ==
    ASSUME NEW S \in SUBSET Ifs, NEW s \in SetToSeqs(S)
    PROVE  s \in Seq(Ifs) /\ IsInjective(s) /\ Range(s) = S
<1>1. IsFiniteSet(S)
    BY AttachAssumption, FS_Subset
<1>2. Cardinality(S) \in Nat
    BY <1>1, FS_CardinalityType
<1> DEFINE D == 1 .. Cardinality(S)
<1>3. s \in [D -> S] /\ \A m, n \in D : m # n => s[m] # s[n]
    BY DEF SetToSeqs
<1>4. s \in Injection(D, S)
    BY <1>3 DEF Injection, IsInjective
<1>5. Cardinality(D) = Cardinality(S)
    BY <1>2, FS_Interval
<1>6. s \in Surjection(D, S)
    <2> HIDE DEF D
    <2> QED  BY <1>1, <1>4, <1>5, FS_Injection
<1>7. Range(s) = S
    BY <1>3, <1>6 DEF Surjection, Range
<1>8. s \in Seq(Ifs)
    BY <1>2, <1>3
<1>9. QED
    BY <1>4, <1>7, <1>8 DEF Injection

-----------------------------------------------------------------------------
(* The invariant *)

LEMMA InitInv == Init => Inv
<1> SUFFICES ASSUME Init  PROVE Inv
    OBVIOUS
<1>1. TypeOK
    BY AttachAssumption DEF Init, TypeOK
<1>2. ListsOK
    BY EmptyList DEF Init, ListsOK, ToVisit, Picked
<1>3. StagesOK /\ OneFilterEach /\ PickedAreBare /\ QdiscFirst
    BY DEF Init, StagesOK, OneFilterEach, PickedAreBare, QdiscFirst
<1>4. ListedAreCovered /\ OwedAreListed
    BY DEF Init, ListedAreCovered, OwedAreListed
<1> QED  BY <1>1, <1>2, <1>3, <1>4 DEF Inv

LEMMA StutterInv == Inv /\ UNCHANGED vars => Inv'
BY DEF Inv, vars, net, daemon, TypeOK, ListsOK, StagesOK, OneFilterEach, PickedAreBare,
       ListedAreCovered, QdiscFirst, OwedAreListed, OwedAreListed, ToVisit, Picked, i0

LEMMA AddVethInv ==
    ASSUME Inv, UNCHANGED section, NEW i \in Ifs, AddVeth(i)
    PROVE  Inv'
<1>1. UNCHANGED <<clsact, filters, daemon, owed, listed>>
    BY DEF AddVeth
<1>2. TypeOK'
    BY <1>1 DEF Inv, TypeOK, AddVeth, daemon
<1>3. (ListsOK /\ StagesOK /\ OneFilterEach /\ PickedAreBare /\ ListedAreCovered
         /\ QdiscFirst /\ OwedAreListed)'
    BY <1>1 DEF Inv, daemon, ListsOK, StagesOK, OneFilterEach, PickedAreBare,
                ListedAreCovered, QdiscFirst, OwedAreListed, ToVisit, Picked, i0
<1> QED  BY <1>2, <1>3 DEF Inv

\* The buffer keeps its bound, and after an event it is not empty.
LEMMA FireQueue ==
    ASSUME TypeOK, ListsOK, NEW ok \in BOOLEAN, Fire(ok)
    PROVE  queue' \in Seq(BOOLEAN) /\ Len(queue') <= QueueCap /\ queue' # <<>>
<1>1. queue \in Seq(BOOLEAN) /\ Len(queue) <= QueueCap /\ QueueCap \in Nat \ {0}
    BY AttachAssumption DEF TypeOK, ListsOK
<1>2. CASE Len(queue) < QueueCap
    <2>1. queue' = Append(queue, ok)
        BY <1>2 DEF Fire
    <2> QED  BY <1>1, <1>2, <2>1
<1>3. CASE ~ Len(queue) < QueueCap
    <2>1. queue' = queue
        BY <1>3 DEF Fire
    <2>2. Len(queue) # 0
        BY <1>1, <1>3
    <2> QED  BY <1>1, <2>1, <2>2
<1> QED  BY <1>2, <1>3

LEMMA SetupReturnsInv ==
    ASSUME Inv, UNCHANGED section, NEW i \in Ifs, SetupReturns(i)
    PROVE  Inv'
<1>1. /\ UNCHANGED <<up, clsact, filters, pc, todo, targets, script, listed>>
      /\ setting' = setting \ {i} /\ owed' = up
    BY DEF SetupReturns
<1>2. queue' \in Seq(BOOLEAN) /\ Len(queue') <= QueueCap /\ queue' # <<>>
    BY FireQueue DEF SetupReturns, Inv
<1>3. TypeOK'
    BY <1>1, <1>2 DEF Inv, TypeOK
<1>4. (ListsOK /\ StagesOK /\ OneFilterEach /\ PickedAreBare /\ ListedAreCovered
         /\ QdiscFirst /\ OwedAreListed)'
    BY <1>1, <1>2 DEF Inv, ListsOK, StagesOK, OneFilterEach, PickedAreBare,
                ListedAreCovered, QdiscFirst, OwedAreListed, ToVisit, Picked, i0
<1> QED  BY <1>3, <1>4 DEF Inv

\* An interface that goes takes its filters along, and leaves the ghosts.
LEMMA GoneInv ==
    ASSUME Inv, UNCHANGED section, NEW i \in Ifs, Gone(i), UNCHANGED <<pc, todo, targets, script>>
    PROVE  (StagesOK /\ OneFilterEach /\ PickedAreBare /\ ListedAreCovered /\ QdiscFirst)'
<1>1. /\ filters \in [Ifs -> Nat] /\ filters' \in [Ifs -> Nat] /\ filters'[i] = 0
      /\ \A j \in Ifs \ {i} : filters'[j] = filters[j]
    BY DEF Inv, TypeOK, Gone
<1>2. i0 \in Ifs \/ pc \notin {"qdisc", "filter"}
    BY TailOfList DEF Inv, ListsOK, StagesOK, i0
<1>3. ToVisit \subseteq Ifs /\ Picked \subseteq Ifs /\ listed \subseteq Ifs
    BY DEF Inv, ListsOK, TypeOK, ToVisit, Picked, Range
<1>4. StagesOK'
    BY DEF Inv, StagesOK
<1>5. OneFilterEach'
    BY <1>1 DEF Inv, OneFilterEach
<1>6. PickedAreBare'
    BY <1>1, <1>2, <1>3 DEF Inv, PickedAreBare, ToVisit, Picked, i0
<1>7. ListedAreCovered'
    BY <1>1, <1>3 DEF Inv, ListedAreCovered, ToVisit, Picked, Gone
<1>8. QdiscFirst'
    BY DEF Inv, QdiscFirst, Gone, i0
<1> QED  BY <1>4, <1>5, <1>6, <1>7, <1>8

LEMMA GoneType ==
    ASSUME TypeOK, NEW i \in Ifs, Gone(i)
    PROVE  /\ up' \subseteq Ifs /\ clsact' \subseteq up' /\ setting' \subseteq up'
           /\ filters' \in [Ifs -> Nat]
           /\ \A j \in Ifs : filters'[j] > 0 => j \in clsact'
           /\ listed' \subseteq up'
<1>1. /\ filters' \in [Ifs -> Nat] /\ filters'[i] = 0
      /\ \A j \in Ifs \ {i} : filters'[j] = filters[j]
    BY DEF TypeOK, Gone
<1> QED  BY <1>1 DEF TypeOK, Gone

LEMMA SetupFailsInv ==
    ASSUME Inv, UNCHANGED section, NEW i \in Ifs, SetupFails(i)
    PROVE  Inv'
<1>1. /\ UNCHANGED <<pc, todo, targets, script>> /\ Gone(i)
      /\ owed' \subseteq (up \cup owed) \ {i}
    BY DEF SetupFails
<1>2. queue' \in Seq(BOOLEAN) /\ Len(queue') <= QueueCap /\ queue' # <<>>
    BY FireQueue DEF SetupFails, Inv
<1>3. TypeOK'
    <2>1. owed' \subseteq up'
        BY <1>1 DEF Inv, TypeOK, Gone
    <2> QED  BY <1>1, <1>2, <2>1, GoneType DEF Inv, TypeOK
<1>4. (ListsOK /\ OwedAreListed)'
    BY <1>1, <1>2 DEF Inv, ListsOK, OwedAreListed, ToVisit, Picked
<1> QED  BY <1>1, <1>3, <1>4, GoneInv DEF Inv

LEMMA TearDownInv ==
    ASSUME Inv, UNCHANGED section, NEW i \in Ifs, TearDown(i)
    PROVE  Inv'
<1>1. UNCHANGED <<pc, todo, targets, script, queue>> /\ Gone(i) /\ owed' = owed \ {i}
    BY DEF TearDown, daemon
<1>2. TypeOK'
    <2>1. owed' \subseteq up'
        BY <1>1 DEF Inv, TypeOK, Gone
    <2> QED  BY <1>1, <2>1, GoneType DEF Inv, TypeOK
<1>3. (ListsOK /\ OwedAreListed)'
    BY <1>1 DEF Inv, ListsOK, OwedAreListed, ToVisit, Picked, Gone
<1> QED  BY <1>1, <1>2, <1>3, GoneInv DEF Inv

LEMMA StartInv == Inv /\ UNCHANGED section /\ Start => Inv'
<1> SUFFICES ASSUME Inv, UNCHANGED section, Start  PROVE Inv'
    OBVIOUS
<1>1. /\ UNCHANGED <<net, todo, targets, script, owed, listed>>
      /\ pc = "idle" /\ pc' \in {"idle", "list"} /\ queue # <<>> /\ queue' = Tail(queue)
    BY DEF Start
<1>2. todo = <<>> /\ targets = <<>>
    BY <1>1 DEF Inv, TypeOK
<1>3. queue' \in Seq(BOOLEAN) /\ Len(queue') <= QueueCap
    <2>1. queue \in Seq(BOOLEAN) /\ Len(queue) <= QueueCap /\ QueueCap \in Nat
        BY AttachAssumption DEF Inv, ListsOK, TypeOK
    <2> QED  BY <1>1, <2>1
<1>4. script = "sh" => pc' = "list"
    BY DEF Start, Launches
<1>5. TypeOK'
    BY <1>1, <1>2, <1>3 DEF Inv, TypeOK, net
<1>6. (ListsOK /\ StagesOK /\ OneFilterEach /\ PickedAreBare)'
    BY <1>1, <1>2, <1>3 DEF Inv, ListsOK, StagesOK, OneFilterEach, PickedAreBare,
                            ToVisit, Picked, net
<1>7. (ListedAreCovered /\ QdiscFirst /\ OwedAreListed)'
    BY <1>1, <1>4 DEF Inv, ListedAreCovered, QdiscFirst, OwedAreListed, ToVisit, Picked, net
<1> QED  BY <1>5, <1>6, <1>7 DEF Inv

LEMMA ListInv == Inv /\ UNCHANGED section /\ List => Inv'
<1> SUFFICES ASSUME Inv, UNCHANGED section, List  PROVE Inv'
    OBVIOUS
<1>1. /\ UNCHANGED <<net, queue, script, owed>>
      /\ pc' = (IF script = "sh" THEN "check" ELSE "netns")
      /\ targets' = <<>> /\ listed' = up /\ todo' \in SetToSeqs(up)
    BY DEF List
<1>2. todo' \in Seq(Ifs) /\ IsInjective(todo') /\ Range(todo') = up
    <2>1. up \in SUBSET Ifs
        BY DEF Inv, TypeOK
    <2> QED  BY <1>1, <2>1, ListOfSet
<1>3. TypeOK'
    BY <1>1, <1>2 DEF Inv, TypeOK, net
<1>4. (ListsOK /\ StagesOK)'
    BY <1>1, <1>2, EmptyList DEF Inv, ListsOK, StagesOK, ToVisit, Picked
<1>5. (OneFilterEach /\ PickedAreBare /\ QdiscFirst)'
    BY <1>1, EmptyList DEF Inv, OneFilterEach, PickedAreBare, QdiscFirst, Picked, net
<1>6. (ListedAreCovered /\ OwedAreListed)'
    BY <1>1, <1>2 DEF Inv, TypeOK, ListedAreCovered, OwedAreListed, ToVisit, Picked, net
<1> QED  BY <1>3, <1>4, <1>5, <1>6 DEF Inv

\* The run is over or was cut short, and nothing is listed any more.
LEMMA CutShort ==
    ASSUME Inv, UNCHANGED <<section, net, script>>,
           pc' = "idle", todo' = <<>>, targets' = <<>>, listed' = {},
           queue' = queue \/ queue' = <<>>, owed' = owed \/ owed' = {},
           script = "sh" => owed' = {}
    PROVE  Inv'
<1>1. queue' \in Seq(BOOLEAN) /\ Len(queue') <= QueueCap
    <2>1. queue \in Seq(BOOLEAN) /\ Len(queue) <= QueueCap /\ QueueCap \in Nat
        BY AttachAssumption DEF Inv, ListsOK, TypeOK
    <2>2. CASE queue' = <<>>
        BY <2>1, <2>2
    <2> QED  BY <2>1, <2>2
<1>2. TypeOK'
    BY <1>1 DEF Inv, TypeOK, net
<1>3. (ListsOK /\ StagesOK)'
    BY <1>1, EmptyList DEF Inv, ListsOK, StagesOK, ToVisit, Picked
<1>4. (OneFilterEach /\ PickedAreBare /\ ListedAreCovered /\ QdiscFirst /\ OwedAreListed)'
    BY DEF Inv, OneFilterEach, PickedAreBare, ListedAreCovered, QdiscFirst, OwedAreListed, net
<1> QED  BY <1>2, <1>3, <1>4 DEF Inv

LEMMA RestartInv == Inv /\ UNCHANGED section /\ Restart => Inv'
BY CutShort DEF Restart

LEMMA AbortInv == Inv /\ UNCHANGED section /\ (PyNetnsFails \/ PyTcFails) => Inv'
BY CutShort DEF PyNetnsFails, PyTcFails, Abort, Py

LEMMA DoneInv == Inv /\ UNCHANGED section /\ (ShDone \/ PyDone) => Inv'
<1> SUFFICES ASSUME Inv, UNCHANGED section, ShDone \/ PyDone  PROVE Inv'
    OBVIOUS
<1>1. /\ UNCHANGED <<net, queue, todo, targets, script, owed, listed>>
      /\ pc' = "idle" /\ todo = <<>> /\ pc \in {"check", "show"}
    BY DEF ShDone, PyDone
<1>2. targets = <<>>
    BY DEF Inv, StagesOK, ShDone, PyDone
<1>3. (TypeOK /\ ListsOK)'
    BY <1>1, <1>2 DEF Inv, TypeOK, ListsOK, ToVisit, Picked, net
<1>4. (StagesOK /\ OneFilterEach /\ PickedAreBare)'
    BY <1>1, <1>2 DEF Inv, StagesOK, OneFilterEach, PickedAreBare, net
<1>5. (ListedAreCovered /\ QdiscFirst /\ OwedAreListed)'
    BY <1>1 DEF Inv, ListedAreCovered, QdiscFirst, OwedAreListed, ToVisit, Picked, net
<1> QED  BY <1>3, <1>4, <1>5 DEF Inv

-----------------------------------------------------------------------------
(* The loops *)

\* A loop that is not done has an interface of its own at the front.
LEMMA FrontOfLoop ==
    ASSUME Inv, todo # <<>>
    PROVE  /\ i0 \in Ifs /\ i0 \in ToVisit /\ i0 \notin Picked
           /\ Tail(todo) \in Seq(Ifs) /\ IsInjective(Tail(todo))
           /\ Range(Tail(todo)) = ToVisit \ {i0}
           /\ ToVisit \subseteq Ifs /\ Picked \subseteq Ifs
<1>1. ToVisit \subseteq Ifs /\ Picked \subseteq Ifs
    BY DEF Inv, ListsOK, ToVisit, Picked, Range
<1> QED  BY <1>1, TailOfList DEF Inv, ListsOK, ToVisit, Picked, i0

\* The step from one command to the next about the same interface.
LEMMA SameInterfaceInv ==
    ASSUME Inv, UNCHANGED section, todo # <<>>, pc' \in {"qdisc", "filter"},
           UNCHANGED <<up, filters, setting, queue, todo, targets, script, owed, listed>>,
           targets = <<>>,
           pc \in {"check", "show", "qdisc"},
           script = "sh" => filters[i0] = 0,
           script # "sh" => pc # "check",
           clsact \subseteq clsact', clsact' \subseteq up,
           pc' = "filter" /\ i0 \in up => i0 \in clsact'
    PROVE  Inv'
<1>1. (TypeOK /\ ListsOK)'
    BY DEF Inv, TypeOK, ListsOK, ToVisit, Picked
<1>2. (StagesOK /\ OneFilterEach)'
    BY DEF Inv, StagesOK, OneFilterEach
<1>3. PickedAreBare'
    BY DEF Inv, PickedAreBare, ToVisit, Picked, i0
<1>4. (ListedAreCovered /\ OwedAreListed)'
    BY DEF Inv, ListedAreCovered, OwedAreListed, ToVisit, Picked, StagesOK
<1>5. QdiscFirst'
    BY DEF Inv, TypeOK, QdiscFirst, i0
<1> QED  BY <1>1, <1>2, <1>3, <1>4, <1>5 DEF Inv

\* A step of a loop that takes its first interface from the list, after it got
\* its filter or was picked for the next loop.
LEMMA NextInterfaceInv ==
    ASSUME Inv, UNCHANGED section, todo # <<>>, Next_i,
           UNCHANGED <<up, clsact, setting, queue, script, owed, listed>>,
           filters' = filters
              \/ /\ filters' = [filters EXCEPT ![i0] = @ + 1]
                 /\ section = "default" => filters[i0] = 0
                 /\ i0 \in clsact /\ targets = <<>>,
           targets' = targets \/ targets' = Append(targets, i0),
           pc' \notin {"netns", "check"} => targets' = <<>>,
           script = "sh" => targets' = targets /\ pc' = "check",
           script # "sh" => pc' \in {"netns", "check", "show"},
           pc \in {"netns", "check", "filter"},
           script # "sh" /\ pc' = "show" => pc = "filter",
           script # "sh" /\ pc' = "check" => pc = "check",
           section = "default" /\ pc = "check" /\ targets' # targets => filters'[i0] = 0,
           pc' = "check" => filters' = filters \/ script = "sh",
           i0 \in listed => filters'[i0] > 0 \/ targets' = Append(targets, i0)
    PROVE  Inv'
<1>1. /\ i0 \in Ifs /\ i0 \in ToVisit /\ i0 \notin Picked
      /\ todo' \in Seq(Ifs) /\ IsInjective(todo') /\ ToVisit' = ToVisit \ {i0}
      /\ ToVisit \subseteq Ifs /\ Picked \subseteq Ifs
    BY FrontOfLoop DEF Next_i, ToVisit
<1>2. /\ targets' \in Seq(Ifs) /\ IsInjective(targets')
      /\ Picked' = IF targets' = targets THEN Picked ELSE Picked \cup {i0}
      /\ targets' = Append(targets, i0) => i0 \in Picked'
    <2>1. /\ targets \in Seq(Ifs) /\ IsInjective(targets)
          /\ Append(targets, i0) \in Seq(Ifs) /\ IsInjective(Append(targets, i0))
          /\ Range(Append(targets, i0)) = Range(targets) \cup {i0}
        BY <1>1, AppendToList DEF Inv, ListsOK, Picked
    <2>2. CASE targets' = targets /\ targets' # Append(targets, i0)
        BY <2>1, <2>2 DEF Picked
    <2>3. CASE targets' = Append(targets, i0)
        BY <2>1, <2>3 DEF Picked
    <2> QED  BY <2>2, <2>3
<1>3. /\ filters' \in [Ifs -> Nat]
      /\ \A i \in Ifs : (section = "default" => filters'[i] <= 1) /\ filters'[i] >= filters[i]
      /\ \A i \in Ifs \ {i0} : filters'[i] = filters[i]
      /\ \A i \in Ifs : filters'[i] > 0 => i \in clsact
    BY <1>1 DEF Inv, TypeOK, OneFilterEach
<1>4. TypeOK'
    BY <1>3 DEF Inv, TypeOK
<1>5. ListsOK'
    BY <1>1, <1>2 DEF Inv, ListsOK
<1>6. StagesOK'
    BY DEF Inv, StagesOK
<1>7. OneFilterEach'
    BY <1>3 DEF OneFilterEach
<1>8. PickedAreBare'
    BY <1>1, <1>2, <1>3 DEF Inv, PickedAreBare
<1>9. ListedAreCovered'
    <2>1. SUFFICES ASSUME NEW i \in listed
                   PROVE  filters'[i] > 0 \/ i \in ToVisit' \cup Picked'
        BY DEF ListedAreCovered
    <2>2. i \in Ifs /\ filters[i] \in Nat /\ filters'[i] \in Nat /\ filters'[i] >= filters[i]
        BY <1>3 DEF Inv, TypeOK
    <2>3. filters[i] > 0 \/ i \in ToVisit \cup Picked
        BY DEF Inv, ListedAreCovered
    <2>4. CASE filters[i] > 0
        BY <2>2, <2>4
    <2>5. CASE i \in ToVisit \cup Picked
        BY <1>1, <1>2, <2>5
    <2> QED  BY <2>3, <2>4, <2>5
<1>10. (QdiscFirst /\ OwedAreListed)'
    BY DEF Inv, QdiscFirst, OwedAreListed, StagesOK
<1> QED  BY <1>4, <1>5, <1>6, <1>7, <1>8, <1>9, <1>10 DEF Inv

LEMMA ShCheckInv == Inv /\ UNCHANGED section /\ ShCheck => Inv'
<1> SUFFICES ASSUME Inv, UNCHANGED section, ShCheck  PROVE Inv'
    OBVIOUS
<1>1. /\ script = "sh" /\ pc = "check" /\ todo # <<>> /\ targets = <<>>
      /\ UNCHANGED <<up, clsact, filters, setting, queue, targets, script, owed, listed>>
    BY DEF ShCheck, At, net, Inv, StagesOK
<1>2. filters[i0] \in Nat
    BY <1>1, FrontOfLoop DEF Inv, TypeOK
<1>3. CASE SeenOn(i0)
    <2>1. Next_i /\ pc' = "check" /\ filters[i0] > 0
        BY <1>1, <1>3 DEF ShCheck, SeenOn
    <2> QED  BY <1>1, <2>1, NextInterfaceInv
<1>4. CASE ~ SeenOn(i0)
    <2>1. UNCHANGED todo /\ pc' = "qdisc" /\ filters[i0] = 0
        BY <1>1, <1>2, <1>4 DEF ShCheck, SeenOn, Inv, TypeOK
    <2> QED  BY <1>1, <2>1, SameInterfaceInv DEF Inv, TypeOK
<1> QED  BY <1>3, <1>4

LEMMA ShQdiscAddInv == Inv /\ UNCHANGED section /\ ShQdiscAdd => Inv'
<1> SUFFICES ASSUME Inv, UNCHANGED section, ShQdiscAdd  PROVE Inv'
    OBVIOUS
<1>1. /\ script = "sh" /\ pc = "qdisc" /\ todo # <<>> /\ targets = <<>> /\ pc' = "filter"
      /\ UNCHANGED <<up, filters, setting, queue, todo, targets, script, owed, listed>>
      /\ filters[i0] = 0
    BY DEF ShQdiscAdd, At, Inv, TypeOK, StagesOK, PickedAreBare
<1>2. clsact \subseteq clsact' /\ clsact' \subseteq up /\ (i0 \in up => i0 \in clsact')
    BY DEF ShQdiscAdd, AddClsact, Inv, TypeOK
<1> QED  BY <1>1, <1>2, SameInterfaceInv

LEMMA ShFilterAddInv == Inv /\ UNCHANGED section /\ ShFilterAdd => Inv'
<1> SUFFICES ASSUME Inv, UNCHANGED section, ShFilterAdd  PROVE Inv'
    OBVIOUS
<1>1. /\ script = "sh" /\ pc = "filter" /\ todo # <<>> /\ targets = <<>> /\ pc' = "check"
      /\ UNCHANGED <<up, clsact, setting, queue, targets, script, owed, listed>>
      /\ filters[i0] = 0 /\ Next_i
    BY DEF ShFilterAdd, At, Inv, TypeOK, StagesOK, PickedAreBare
<1>2. CASE CanAttach
    <2>1. filters' = [filters EXCEPT ![i0] = @ + 1] /\ i0 \in clsact
        BY <1>2 DEF ShFilterAdd, AddFilter, CanAttach
    <2>2. filters'[i0] > 0
        BY <1>1, <2>1, FrontOfLoop DEF Inv, TypeOK
    <2> QED  BY <1>1, <2>1, <2>2, NextInterfaceInv
<1>3. CASE ~ CanAttach
    <2>1. filters' = filters
        BY <1>3 DEF ShFilterAdd, AddFilter
    <2>2. i0 \notin listed
        BY <1>1, <1>3 DEF Inv, QdiscFirst, TypeOK, CanAttach
    <2> QED  BY <1>1, <2>1, <2>2, NextInterfaceInv
<1> QED  BY <1>2, <1>3

LEMMA PyNetnsInv == Inv /\ UNCHANGED section /\ PyNetns => Inv'
<1> SUFFICES ASSUME Inv, UNCHANGED section, PyNetns  PROVE Inv'
    OBVIOUS
<1>1. /\ script # "sh" /\ pc = "netns" /\ todo # <<>> /\ pc' = "netns" /\ Next_i
      /\ UNCHANGED <<up, clsact, filters, setting, queue, script, owed, listed>>
      /\ targets' = IF i0 \in up THEN Append(targets, i0) ELSE targets
    BY DEF PyNetns, Py, At, net
<1>2. i0 \in listed => i0 \in up
    BY DEF Inv, TypeOK
<1> QED  BY <1>1, <1>2, NextInterfaceInv

LEMMA PyCheckInv == Inv /\ UNCHANGED section /\ PyCheck => Inv'
<1> SUFFICES ASSUME Inv, UNCHANGED section, PyCheck  PROVE Inv'
    OBVIOUS
<1>1. /\ script # "sh" /\ pc = "check" /\ todo # <<>> /\ pc' = "check" /\ Next_i
      /\ UNCHANGED <<up, clsact, filters, setting, queue, script, owed, listed>>
      /\ targets' = IF filters[i0] > 0 /\ section = "default" THEN targets ELSE Append(targets, i0)
    BY DEF PyCheck, Py, At, net, SeenOn
<1>2. filters[i0] \in Nat
    BY <1>1, FrontOfLoop DEF Inv, TypeOK
<1>3. /\ section = "default" /\ targets' # targets => filters'[i0] = 0
      /\ filters'[i0] > 0 \/ targets' = Append(targets, i0)
    BY <1>1, <1>2
<1> QED  BY <1>1, <1>3, NextInterfaceInv

LEMMA PyNextLoopInv == Inv /\ UNCHANGED section /\ PyNextLoop => Inv'
<1> SUFFICES ASSUME Inv, UNCHANGED section, PyNextLoop  PROVE Inv'
    OBVIOUS
<1>1. /\ script # "sh" /\ pc \in {"netns", "check"} /\ todo = <<>>
      /\ pc' = (IF pc = "netns" THEN "check" ELSE "show")
      /\ todo' = targets /\ targets' = <<>>
      /\ UNCHANGED <<up, clsact, filters, setting, queue, script, owed, listed>>
    BY DEF PyNextLoop, Py, net
<1>2. ToVisit = {} /\ Picked' = {} /\ ToVisit' = Picked
    BY <1>1, EmptyList DEF ToVisit, Picked
<1>3. (TypeOK /\ OneFilterEach)'
    BY <1>1 DEF Inv, TypeOK, OneFilterEach
<1>4. ListsOK'
    BY <1>1, <1>2, EmptyList DEF Inv, ListsOK
<1>5. StagesOK'
    BY <1>1 DEF Inv, StagesOK
<1>6. (PickedAreBare /\ ListedAreCovered)'
    BY <1>1, <1>2 DEF Inv, PickedAreBare, ListedAreCovered
<1>7. (QdiscFirst /\ OwedAreListed)'
    BY <1>1 DEF Inv, QdiscFirst, OwedAreListed
<1> QED  BY <1>3, <1>4, <1>5, <1>6, <1>7 DEF Inv

LEMMA PyQdiscShowInv == Inv /\ UNCHANGED section /\ PyQdiscShow => Inv'
<1> SUFFICES ASSUME Inv, UNCHANGED section, PyQdiscShow  PROVE Inv'
    OBVIOUS
<1>1. /\ script # "sh" /\ pc = "show" /\ todo # <<>> /\ targets = <<>>
      /\ pc' = IF i0 \in clsact THEN "filter" ELSE "qdisc"
      /\ UNCHANGED <<up, clsact, filters, setting, queue, todo, targets, script, owed, listed>>
    BY DEF PyQdiscShow, Py, At, net, Inv, StagesOK
<1>2. clsact \subseteq up
    BY DEF Inv, TypeOK
<1> QED  BY <1>1, <1>2, SameInterfaceInv

LEMMA PyQdiscAddInv == Inv /\ UNCHANGED section /\ PyQdiscAdd => Inv'
<1> SUFFICES ASSUME Inv, UNCHANGED section, PyQdiscAdd  PROVE Inv'
    OBVIOUS
<1>1. /\ script # "sh" /\ pc = "qdisc" /\ todo # <<>> /\ targets = <<>> /\ pc' = "filter"
      /\ UNCHANGED <<up, filters, setting, queue, todo, targets, script, owed, listed>>
    BY DEF PyQdiscAdd, Py, At, Inv, StagesOK
<1>2. clsact \subseteq clsact' /\ clsact' \subseteq up /\ i0 \in clsact'
    BY DEF PyQdiscAdd, AddClsact, Inv, TypeOK
<1> QED  BY <1>1, <1>2, SameInterfaceInv

LEMMA PyFilterAddInv == Inv /\ UNCHANGED section /\ PyFilterAdd => Inv'
<1> SUFFICES ASSUME Inv, UNCHANGED section, PyFilterAdd  PROVE Inv'
    OBVIOUS
<1>1. /\ script # "sh" /\ pc = "filter" /\ todo # <<>> /\ targets = <<>> /\ pc' = "show"
      /\ UNCHANGED <<up, clsact, setting, queue, targets, script, owed, listed>>
      /\ Next_i /\ i0 \in clsact
      /\ filters' = [filters EXCEPT ![i0] = @ + 1]
    BY DEF PyFilterAdd, Py, At, Inv, StagesOK, CanAttach, AddFilter
<1>2. i0 \in Ifs /\ i0 \in ToVisit /\ filters \in [Ifs -> Nat]
    BY <1>1, FrontOfLoop DEF Inv, TypeOK
<1>3. (section = "default" => filters[i0] = 0) /\ filters'[i0] > 0
    BY <1>1, <1>2 DEF Inv, PickedAreBare
<1> QED  BY <1>1, <1>3, NextInterfaceInv

-----------------------------------------------------------------------------

LEMMA NextInv == Inv /\ [Next]_vars => Inv'
<1> SUFFICES ASSUME Inv, [Next]_vars  PROVE Inv'
    OBVIOUS
<1>1. CASE UNCHANGED vars
    BY <1>1, StutterInv
<1>2. CASE Next
    <2>1. UNCHANGED section
        BY <1>2 DEF Next, Environment, Daemon
    <2>2. CASE \E i \in Ifs : AddVeth(i) \/ SetupReturns(i) \/ SetupFails(i) \/ TearDown(i)
        BY <2>1, <2>2, AddVethInv, SetupReturnsInv, SetupFailsInv, TearDownInv
    <2>3. CASE Start \/ List \/ Restart
        BY <2>1, <2>3, StartInv, ListInv, RestartInv
    <2>4. CASE ShCheck \/ ShQdiscAdd \/ ShFilterAdd \/ ShDone
        BY <2>1, <2>4, ShCheckInv, ShQdiscAddInv, ShFilterAddInv, DoneInv
    <2>5. CASE PyNetns \/ PyNetnsFails \/ PyCheck \/ PyNextLoop
        BY <2>1, <2>5, PyNetnsInv, AbortInv, PyCheckInv, PyNextLoopInv
    <2>6. CASE PyQdiscShow \/ PyQdiscAdd \/ PyFilterAdd \/ PyTcFails \/ PyDone
        BY <2>1, <2>6, PyQdiscShowInv, PyQdiscAddInv, PyFilterAddInv, AbortInv, DoneInv
    <2> QED  BY <1>2, <2>2, <2>3, <2>4, <2>5, <2>6 DEF Next, Environment, Daemon
<1> QED  BY <1>1, <1>2

LEMMA Invariance == Spec => []Inv
BY InitInv, NextInv, PTL DEF Spec

\* Interfaces, qdiscs, filters and the place of a script keep their types: a
\* filter needs its qdisc and a qdisc its interface.
THEOREM TypeCorrect == Spec => []TypeOK
<1>1. Inv => TypeOK
    BY DEF Inv
<1> QED  BY <1>1, Invariance, PTL

\* None of the three scripts, started any number of times and killed anywhere,
\* adds a filter with the default section name to an interface that has it, although the look and the tc
\* command that follows it are far apart.
THEOREM NeverAttachedTwice == Spec => []OneFilterEach
<1>1. Inv => OneFilterEach
    BY DEF Inv
<1> QED  BY <1>1, Invariance, PTL

\* A script that got to the end of its lists has attached the program to all
\* it listed that is still there.
THEOREM WholeRunIsComplete == Spec => []WholeRunAttaches
<1>1. Inv => WholeRunAttaches
    BY EmptyList DEF Inv, TypeOK, ListedAreCovered, WholeRunAttaches, ToVisit, Picked
<1> QED  BY <1>1, Invariance, PTL

\* When the shell script has nothing left to do, nobody is owed a filter: a
\* lost event is made up for by the run that one still in the buffer starts.
THEOREM ShellOwesNobody == Spec => []ShellAttachesOwed
<1>1. Inv => ShellAttachesOwed
    BY EmptyList DEF Inv, TypeOK, ListedAreCovered, OwedAreListed, ShellAttachesOwed,
                     OwedAreAttached, ToVisit, Picked
<1> QED  BY <1>1, Invariance, PTL

=============================================================================

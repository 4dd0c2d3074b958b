--------------------------- MODULE ApplierProofs ---------------------------
(***************************************************************************)
(* For any set of objects and delays: the task of the applier never sleeps  *)
(* on work, and its end drops no reconciliation that has begun.             *)
(*                                                                          *)
(* A poll asks several sources one after the other, while each of them goes *)
(* on.  What was asked before must not be left with work by what is asked   *)
(* after it.  The invariant says, for each stage of the poll, what the      *)
(* stages before it have settled, unless a wakeup has come since.           *)
(***************************************************************************)
EXTENDS Applier, WellFoundedInduction, NaturalsInduction, TLAPS

Types ==
    /\ input \in Seq(Msgs \cup {Err}) /\ ended \in BOOLEAN
    /\ scheduled \in [Msgs -> 0 .. Never] /\ resched \in [Msgs -> 0 .. Never]
    /\ slots \in [Msgs -> SlotStates]
    /\ armed \in BOOLEAN /\ woken \in BOOLEAN /\ rest \in BOOLEAN /\ active \in BOOLEAN
    /\ first \in {"errs", "via"} /\ shutdown \in {"no", "sent", "over"}

\* The input has the waker only while there is nothing in it.
ArmedIsEmpty ==
    armed => input = <<>> /\ peeked = "none" /\ ~ ended /\ \A m \in Msgs : resched[m] = Never

\* Every future has the task's waker.
Settled == \A m \in Msgs : slots[m] = "free" \/ Runs(m)

\* A message is in the scheduler.
Waits(m) == scheduled[m] # Never \/ m \in pending

\* The error at the head of the input is the next item.
ErrIsNext == HeadIsErr /\ peeked = "queue"

\* Between the look at the slots and the end of Runner::poll_next.
SlotsSeen ==
    pc \in {"requests", "pop"} =>
        /\ woken \/ Settled
        /\ active => \E m \in Msgs : slots[m] # "free"
        /\ ~ active => \A m \in Msgs : slots[m] \in {"free", "fresh"}

\* The input has been asked for requests: it has the waker, or an error is next,
\* which the other branch will take, or had no chance to since its own look.
RequestsSeen ==
    pc = "pop" =>
        /\ shutdown # "over"
        /\ woken \/ armed \/ (ErrIsNext /\ (rest \/ \E m \in Msgs : Waits(m)))

\* The branch of errors was polled first and left an item to the other one.
ErrsSeen ==
    pc \in {"slots", "requests"} /\ ~ rest /\ shutdown # "over" =>
        woken \/ armed \/ (peeked # "none" /\ ~ ErrIsNext) \/ \E m \in Msgs : Waits(m)

AlarmSet == \A m \in Msgs : scheduled[m] # Never => alarm <= scheduled[m]

\* The branch of the Runner was polled first.
ViaSeen ==
    pc = "errs" /\ ~ rest /\ ~ woken =>
        /\ Settled
        /\ shutdown = "over" => \E m \in Msgs : Runs(m)
        /\ shutdown # "over" => Takeable = {} /\ AlarmSet /\ (armed \/ ErrIsNext)

Inv ==
    /\ Types /\ TypeOK /\ ArmedIsEmpty /\ SlotsSeen /\ RequestsSeen /\ ErrsSeen /\ ViaSeen
    /\ NoLostWakeup /\ EndAbandonsOnlyFresh

-----------------------------------------------------------------------------
(* Operators *)

\* What Min returns for a set of natural numbers.
LEMMA MinOfNaturals ==
    ASSUME NEW S \in SUBSET Nat, S # {}
    PROVE  Min(S) \in S /\ \A x \in S : Min(S) <= x
<1> DEFINE R == OpToRel(<, Nat)
<1>1. IsWellFoundedOn(R, Nat)
    BY NatLessThanWellFounded
<1>2. PICK x \in S : \A y \in S : ~ (<<y, x>> \in R)
    <2> HIDE DEF R
    <2> QED  BY <1>1, WFMin
<1>3. \A y \in S : ~ (y < x)
    BY <1>2 DEF OpToRel
<1>4. \A y \in S : x <= y
    BY <1>3
<1> QED  BY <1>4 DEF Min

\* The instants of a message, and what a tick makes of one.
LEMMA EarlierInstant ==
    ASSUME NEW t \in 0 .. Never
    PROVE  /\ Earlier(t) \in 0 .. Never /\ Earlier(t) <= t
           /\ Earlier(t) = Never <=> t = Never
           /\ t # Never /\ t # 0 => Earlier(t) = t - 1
           /\ t = 0 => Earlier(t) = 0
BY ApplierAssumption DEF Earlier, Never

LEMMA Instants ==
    /\ Never \in 0 .. Never /\ Never \in 1 .. Never /\ Never \in Nat
    /\ 0 # Never /\ 1 # Never /\ 1 \in 0 .. Never
    /\ Delays \subseteq 0 .. Never /\ Never \notin Delays
BY ApplierAssumption DEF Never

\* No item is to be had: nothing was looked at, and nothing is there.
LEMMA NothingToPeek ==
    ASSUME Types, TypeOK, NoItem
    PROVE  /\ peeked = "none" /\ input = <<>>
           /\ shutdown = "no" => \A m \in Msgs : resched[m] = Never
BY ApplierAssumption DEF Types, TypeOK, NoItem, CanPeek

-----------------------------------------------------------------------------
(* Outside the task *)

LEMMA InitInv == Init => Inv
<1> SUFFICES ASSUME Init  PROVE Inv
    OBVIOUS
<1>1. Types
    <2>1. scheduled \in [Msgs -> 0 .. Never] /\ resched \in [Msgs -> 0 .. Never]
        BY Instants DEF Init
    <2>2. slots \in [Msgs -> SlotStates] /\ input \in Seq(Msgs \cup {Err})
        BY DEF Init, SlotStates
    <2> QED  BY <2>1, <2>2 DEF Init, Types
<1>2. TypeOK
    BY Instants, ApplierAssumption DEF Init, TypeOK, SlotStates
<1> QED  BY <1>1, <1>2 DEF Init, Inv, ArmedIsEmpty, SlotsSeen, RequestsSeen, ErrsSeen, ViaSeen,
                    NoLostWakeup, Asleep, EndAbandonsOnlyFresh

LEMMA PushInv ==
    ASSUME Inv, NEW x \in Msgs \cup {Err}, Push(x)
    PROVE  Inv'
<1>1. /\ ~ ended /\ input' = Append(input, x) /\ wanted' = wanted \cup ({x} \ {Err})
      /\ woken' = (woken \/ armed) /\ armed' = FALSE
      /\ UNCHANGED <<ended, resched, scheduled, pending, slots, alarm, pc, rest, first, active,
                     peeked, shutdown>>
    BY DEF Push, NotifyInput, sched, poll
<1>2. /\ input \in Seq(Msgs \cup {Err}) /\ input' \in Seq(Msgs \cup {Err}) /\ input' # <<>>
      /\ HeadIsErr => HeadIsErr'
      /\ input # <<>> => Head(input') = Head(input)
    BY <1>1 DEF Inv, Types, HeadIsErr
<1>3. shutdown = "no"
    BY <1>1 DEF Inv, TypeOK, Types
<1>4. ErrIsNext => ErrIsNext'
    BY <1>1, <1>2 DEF ErrIsNext
<1>5. peeked # "none" /\ ~ ErrIsNext => ~ ErrIsNext'
    BY <1>1, <1>2 DEF ErrIsNext, HeadIsErr, Inv, TypeOK
<1>6. Types' /\ TypeOK'
    BY <1>1, <1>2, <1>3, ApplierAssumption DEF Inv, Types, TypeOK
<1>7. ArmedIsEmpty' /\ EndAbandonsOnlyFresh'
    BY <1>1 DEF Inv, ArmedIsEmpty, EndAbandonsOnlyFresh
<1>8. SlotsSeen' /\ RequestsSeen'
    BY <1>1, <1>4 DEF Inv, Types, SlotsSeen, RequestsSeen, Settled, Runs, Waits
<1>9. ErrsSeen'
    BY <1>1, <1>5 DEF Inv, Types, ErrsSeen, Waits
<1>10. ViaSeen'
    BY <1>1, <1>4 DEF Inv, Types, ViaSeen, Settled, Runs, Takeable, AlarmSet
<1>11. NoLostWakeup'
    BY <1>1, <1>2 DEF Inv, Types, NoLostWakeup, Asleep, Runs, Takeable
<1> QED  BY <1>6, <1>7, <1>8, <1>9, <1>10, <1>11 DEF Inv

LEMMA EndQueueInv ==
    ASSUME Inv, EndQueue
    PROVE  Inv'
<1>1. /\ ~ ended /\ ended' = TRUE /\ woken' = (woken \/ armed) /\ armed' = FALSE
      /\ UNCHANGED <<input, resched, scheduled, pending, slots, alarm, pc, rest, first, active,
                     peeked, shutdown, wanted>>
    BY DEF EndQueue, NotifyInput, sched, poll
<1>2. shutdown = "no"
    BY <1>1 DEF Inv, TypeOK, Types
<1>3. HeadIsErr' = HeadIsErr /\ ErrIsNext' = ErrIsNext
    BY <1>1 DEF HeadIsErr, ErrIsNext
<1>4. Types' /\ TypeOK'
    BY <1>1, <1>2 DEF Inv, Types, TypeOK
<1>5. ArmedIsEmpty' /\ EndAbandonsOnlyFresh'
    BY <1>1 DEF Inv, ArmedIsEmpty, EndAbandonsOnlyFresh
<1>6. SlotsSeen' /\ RequestsSeen'
    BY <1>1, <1>3 DEF Inv, Types, SlotsSeen, RequestsSeen, Settled, Runs, Waits
<1>7. ErrsSeen'
    BY <1>1, <1>3 DEF Inv, Types, ErrsSeen, Waits
<1>8. ViaSeen'
    BY <1>1, <1>3 DEF Inv, Types, ViaSeen, Settled, Runs, Takeable, AlarmSet
<1>9. NoLostWakeup'
    BY <1>1, <1>3 DEF Inv, Types, NoLostWakeup, Asleep, Runs, Takeable
<1> QED  BY <1>4, <1>5, <1>6, <1>7, <1>8, <1>9 DEF Inv

LEMMA FinishInv ==
    ASSUME Inv, NEW m \in Msgs, Finish(m)
    PROVE  Inv'
<1>1. /\ slots[m] = "running" /\ slots' = [slots EXCEPT ![m] = "finished"] /\ woken' = TRUE
      /\ UNCHANGED <<input, ended, resched, scheduled, pending, alarm, armed, pc, rest, first,
                     active, peeked, shutdown, wanted>>
    BY DEF Finish, source, poll
<1>2. /\ slots' \in [Msgs -> SlotStates] /\ slots'[m] = "finished"
      /\ \A o \in Msgs \ {m} : slots'[o] = slots[o]
    BY <1>1 DEF Inv, Types, SlotStates
<1>3. Types'
    BY <1>1, <1>2 DEF Inv, Types
<1>4. TypeOK' /\ ArmedIsEmpty'
    BY <1>1, <1>2 DEF Inv, TypeOK, ArmedIsEmpty
<1>5. EndAbandonsOnlyFresh' /\ SlotsSeen'
    BY <1>1, <1>2 DEF Inv, Types, EndAbandonsOnlyFresh, SlotsSeen
<1>6. RequestsSeen' /\ ErrsSeen' /\ ViaSeen' /\ NoLostWakeup'
    BY <1>1 DEF Inv, Types, RequestsSeen, ErrsSeen, ViaSeen, NoLostWakeup, Asleep
<1> QED  BY <1>3, <1>4, <1>5, <1>6 DEF Inv

LEMMA TickInv ==
    ASSUME Inv, Tick
    PROVE  Inv'
<1>1. /\ scheduled' = [m \in Msgs |-> Earlier(scheduled[m])]
      /\ resched' = [m \in Msgs |-> Earlier(resched[m])]
      /\ alarm' = IF alarm = 1 THEN Never ELSE Earlier(alarm)
      /\ woken' = (woken \/ alarm = 1)
      /\ UNCHANGED <<input, ended, pending, slots, armed, pc, rest, first, active, peeked,
                     shutdown, wanted>>
    BY DEF Tick, source, poll
<1>2. \A m \in Msgs : /\ scheduled[m] \in 0 .. Never /\ resched[m] \in 0 .. Never
                      /\ scheduled'[m] = Earlier(scheduled[m]) /\ resched'[m] = Earlier(resched[m])
    BY <1>1 DEF Inv, Types
<1>3. \A m \in Msgs : /\ scheduled'[m] \in 0 .. Never /\ resched'[m] \in 0 .. Never
                      /\ scheduled'[m] = Never <=> scheduled[m] = Never
                      /\ resched'[m] = Never <=> resched[m] = Never
    BY <1>2, EarlierInstant
<1>4. scheduled' \in [Msgs -> 0 .. Never] /\ resched' \in [Msgs -> 0 .. Never]
    BY <1>1, <1>3
<1>5. alarm \in 1 .. Never /\ alarm \in 0 .. Never
    BY Instants DEF Inv, TypeOK
<1>6. alarm' \in 1 .. Never /\ (alarm' # Never <=> alarm # Never /\ alarm # 1)
    BY <1>1, <1>5, Instants, EarlierInstant
<1>7. alarm # 1 /\ AlarmSet => AlarmSet'
    <2>1. SUFFICES ASSUME alarm # 1, AlarmSet, NEW m \in Msgs, scheduled'[m] # Never
                   PROVE  alarm' <= scheduled'[m]
        BY DEF AlarmSet
    <2>2. /\ scheduled[m] # Never /\ scheduled[m] \in 0 .. Never /\ alarm <= scheduled[m]
          /\ scheduled'[m] = Earlier(scheduled[m])
        BY <1>2, <1>3, <2>1 DEF AlarmSet
    <2>3. alarm # Never /\ scheduled[m] # 0
        BY <1>5, <2>2, Instants
    <2>4. alarm' = alarm - 1 /\ scheduled'[m] = scheduled[m] - 1
        BY <1>1, <1>5, <2>1, <2>2, <2>3, EarlierInstant
    <2> QED  BY <1>5, <2>2, <2>4, Instants
<1>8. /\ HeadIsErr' = HeadIsErr /\ ErrIsNext' = ErrIsNext /\ Settled' = Settled
      /\ Takeable' = Takeable /\ \A m \in Msgs : (Waits(m)' <=> Waits(m)) /\ (Runs(m)' <=> Runs(m))
    BY <1>1, <1>3 DEF HeadIsErr, ErrIsNext, Settled, Takeable, Waits, Runs
<1>9. Types' /\ TypeOK'
    BY <1>1, <1>3, <1>4, <1>6 DEF Inv, Types, TypeOK
<1>10. ArmedIsEmpty' /\ EndAbandonsOnlyFresh'
    BY <1>1, <1>3 DEF Inv, ArmedIsEmpty, EndAbandonsOnlyFresh
<1>11. woken => woken'
    BY <1>1
<1>12. SlotsSeen' /\ RequestsSeen' /\ ErrsSeen'
    BY <1>1, <1>8, <1>11 DEF Inv, SlotsSeen, RequestsSeen, ErrsSeen
<1>13. ViaSeen'
    BY <1>1, <1>7, <1>8, <1>11 DEF Inv, ViaSeen
<1>14. NoLostWakeup'
    <2>1. SUFFICES ASSUME pc = "idle", ~ woken'  PROVE NoLostWakeup'
        BY <1>1 DEF NoLostWakeup, Asleep
    <2>2. ~ woken /\ alarm # 1
        BY <1>1, <2>1
    <2>3. alarm # Never => alarm' # Never
        BY <1>6, <2>2
    <2>4. AlarmSet => AlarmSet'
        BY <1>7, <2>2
    <2> QED  BY <1>1, <1>3, <1>8, <2>1, <2>2, <2>3, <2>4 DEF Inv, NoLostWakeup, Asleep, AlarmSet
<1> QED  BY <1>9, <1>10, <1>12, <1>13, <1>14 DEF Inv

-----------------------------------------------------------------------------
(* The select *)

\* A poll that begins, or goes on after an item, has settled nothing yet.
LEMMA PollFromInv ==
    ASSUME TypeOK', Types', ArmedIsEmpty', PollFrom(Other(first))
    PROVE  Inv'
<1>1. pc' \in {"errs", "slots"} /\ rest' = TRUE
    BY DEF PollFrom, Stage
<1> QED  BY <1>1 DEF Inv, SlotsSeen, RequestsSeen, ErrsSeen, ViaSeen, NoLostWakeup, Asleep,
                    EndAbandonsOnlyFresh

LEMMA PollFromType ==
    ASSUME PollFrom(Other(first))
    PROVE  first' \in {"errs", "via"} /\ pc' \in {"errs", "slots"} /\ rest' \in BOOLEAN
BY DEF PollFrom, Stage, Other

LEMMA BeginPollInv ==
    ASSUME Inv, BeginPoll
    PROVE  Inv'
<1>1. /\ woken' = FALSE /\ PollFrom(Other(first))
      /\ UNCHANGED <<input, ended, resched, scheduled, pending, slots, alarm, armed, active,
                     peeked, shutdown, wanted>>
    BY DEF BeginPoll, source, sched
<1>2. Types'
    BY <1>1, PollFromType DEF Inv, Types
<1>3. TypeOK' /\ ArmedIsEmpty'
    BY <1>1, PollFromType DEF Inv, TypeOK, ArmedIsEmpty
<1> QED  BY <1>1, <1>2, <1>3, PollFromInv

LEMMA TakeErrInv ==
    ASSUME Inv, TakeErr
    PROVE  Inv'
<1>1. /\ HeadIsErr /\ input' = Tail(input) /\ peeked' = "none" /\ PollFrom(Other(first))
      /\ UNCHANGED <<ended, resched, scheduled, pending, slots, alarm, armed, woken, active,
                     shutdown, wanted>>
    BY DEF TakeErr, Item, sched, wakers
<1>2. input # <<>> /\ input' \in Seq(Msgs \cup {Err})
    BY <1>1 DEF HeadIsErr, Inv, Types
<1>3. ~ armed /\ shutdown = "no"
    BY <1>2 DEF Inv, ArmedIsEmpty, TypeOK
<1>4. Types'
    BY <1>1, <1>2, PollFromType DEF Inv, Types
<1>5. TypeOK' /\ ArmedIsEmpty'
    BY <1>1, <1>3, PollFromType, ApplierAssumption DEF Inv, TypeOK, ArmedIsEmpty
<1> QED  BY <1>1, <1>4, <1>5, PollFromInv

\* What looking at the input without taking from it leaves: types, and what it
\* says of waker and shutdown.
LEMMA InputPendingStep ==
    ASSUME Types, TypeOK, InputPending
    PROVE  /\ peeked = "none" /\ input = <<>> /\ armed' \in BOOLEAN
           /\ \/ ~ ended /\ armed' = TRUE /\ UNCHANGED <<woken, shutdown>> /\ shutdown = "no"
                 /\ \A m \in Msgs : resched[m] = Never
              \/ ended /\ woken' = TRUE /\ UNCHANGED armed /\ shutdown = "no" /\ shutdown' = "sent"
<1>1. peeked = "none" /\ input = <<>> /\ (shutdown = "no" => \A m \in Msgs : resched[m] = Never)
    BY NothingToPeek DEF InputPending
<1>2. CASE ~ ended /\ armed' = TRUE /\ UNCHANGED <<woken, shutdown>>
    BY <1>1, <1>2 DEF TypeOK
<1>3. CASE ended /\ shutdown = "no" /\ shutdown' = "sent" /\ woken' = TRUE /\ UNCHANGED armed
    BY <1>1, <1>3 DEF Types
<1> QED  BY <1>2, <1>3 DEF InputPending

\* Nothing is taken: the branch of errors is left, for the other or for the end
\* of the poll.
LEMMA NoErrInv ==
    ASSUME Inv, NoErr
    PROVE  Inv'
<1>1. /\ pc = "errs" /\ rest' = FALSE /\ pc' = IF rest THEN "slots" ELSE "idle"
      /\ UNCHANGED <<input, ended, resched, scheduled, pending, slots, alarm, active, wanted, first>>
    BY DEF NoErr, BranchPending, Stage, Other, source, sched
<1>2. HeadIsErr' = HeadIsErr /\ Takeable' = Takeable
      /\ \A m \in Msgs : (Runs(m)' <=> Runs(m)) /\ (Waits(m)' <=> Waits(m))
    BY <1>1 DEF HeadIsErr, Takeable, Runs, Waits
<1>3. \/ /\ peeked' \in {"queue"} \cup Msgs /\ CanPeek(peeked') /\ ~ (peeked' = "queue" /\ HeadIsErr)
         /\ UNCHANGED <<armed, woken, shutdown>>
      \/ InputPending /\ UNCHANGED peeked
      \/ InputEnds /\ UNCHANGED <<peeked, armed, woken>>
    BY DEF NoErr
<1>4. Types' /\ TypeOK' /\ ArmedIsEmpty'
    <2>1. ASSUME peeked' \in {"queue"} \cup Msgs, CanPeek(peeked'), UNCHANGED <<armed, woken, shutdown>>
          PROVE  Types' /\ TypeOK' /\ ArmedIsEmpty'
        <3>1. /\ peeked' = "queue" => input # <<>>
              /\ peeked' \in Msgs => resched[peeked'] # Never
              /\ ~ armed
            BY <2>1, ApplierAssumption DEF CanPeek, Inv, TypeOK, ArmedIsEmpty
        <3> QED  BY <1>1, <2>1, <3>1 DEF Inv, Types, TypeOK, ArmedIsEmpty
    <2>2. CASE InputPending /\ UNCHANGED peeked
        <3>1. /\ peeked = "none" /\ input = <<>> /\ armed' \in BOOLEAN
              /\ \/ ~ ended /\ armed' = TRUE /\ UNCHANGED <<woken, shutdown>> /\ shutdown = "no"
                    /\ \A m \in Msgs : resched[m] = Never
                 \/ ended /\ woken' = TRUE /\ UNCHANGED armed /\ shutdown = "no" /\ shutdown' = "sent"
            BY <2>2, InputPendingStep DEF Inv
        <3>2. Types'
            BY <1>1, <3>1 DEF Inv, Types
        <3> QED  BY <1>1, <2>2, <3>1, <3>2 DEF Inv, TypeOK, ArmedIsEmpty
    <2>3. CASE InputEnds /\ UNCHANGED <<peeked, armed, woken>>
        BY <1>1, <2>3 DEF Inv, Types, TypeOK, ArmedIsEmpty, InputEnds
    <2> QED  BY <1>3, <2>1, <2>2, <2>3
<1>5. SlotsSeen' /\ RequestsSeen' /\ ViaSeen' /\ EndAbandonsOnlyFresh'
    BY <1>1 DEF SlotsSeen, RequestsSeen, ViaSeen, EndAbandonsOnlyFresh
<1>6. shutdown' # "over" =>
          woken' \/ armed' \/ (peeked' \in {"queue"} \cup Msgs /\ ~ (peeked' = "queue" /\ HeadIsErr))
    BY <1>3, InputPendingStep DEF Inv, InputEnds
<1>7. ErrsSeen'
    BY <1>1, <1>2, <1>6, ApplierAssumption DEF ErrsSeen, ErrIsNext
<1>8. NoLostWakeup'
    <2>1. SUFFICES ASSUME ~ rest, ~ woken'  PROVE NoLostWakeup'
        BY <1>1 DEF NoLostWakeup, Asleep
    <2>2. ~ woken
        BY <1>3, <2>1, InputPendingStep DEF Inv
    <2>3. /\ Settled
          /\ shutdown = "over" => \E m \in Msgs : Runs(m)
          /\ shutdown # "over" => Takeable = {} /\ AlarmSet /\ (armed \/ ErrIsNext)
        BY <1>1, <2>1, <2>2 DEF Inv, ViaSeen
    <2>4. shutdown # "over" => armed' /\ shutdown' # "over"
        <3>1. SUFFICES ASSUME shutdown # "over"  PROVE armed' /\ shutdown' # "over"
            OBVIOUS
        <3>2. CASE armed
            <4>1. input = <<>> /\ peeked = "none" /\ ~ ended /\ \A m \in Msgs : resched[m] = Never
                BY <3>2 DEF Inv, ArmedIsEmpty
            <4>2. InputPending
                BY <1>3, <4>1, ApplierAssumption DEF CanPeek, InputEnds
            <4> QED  BY <3>1, <4>1, <4>2, InputPendingStep DEF Inv
        <3>3. CASE ErrIsNext
            <4>1. peeked = "queue" /\ HeadIsErr /\ input # <<>>
                BY <3>3 DEF ErrIsNext, HeadIsErr
            <4>2. ~ InputEnds /\ ~ InputPending
                BY <4>1, InputPendingStep DEF InputEnds, Inv
            <4>3. CanPeek(peeked') /\ ~ (peeked' = "queue" /\ HeadIsErr)
                BY <1>3, <4>2
            <4> QED  BY <4>1, <4>3 DEF CanPeek
        <3> QED  BY <2>3, <3>1, <3>2, <3>3
    <2>5. Settled' /\ (AlarmSet => AlarmSet') /\ (shutdown = "over" => shutdown' = "over")
        <3>1. shutdown = "over" => shutdown' = "over"
            BY <1>3, InputPendingStep DEF Inv, InputEnds
        <3> QED  BY <1>1, <2>3, <3>1 DEF Settled, AlarmSet, Runs
    <2>6. armed' => (input = <<>> /\ ~ ended /\ \A m \in Msgs : resched[m] = Never)'
        BY <1>4 DEF ArmedIsEmpty
    <2> QED  BY <1>2, <2>3, <2>4, <2>5, <2>6 DEF NoLostWakeup, Settled, AlarmSet
<1> QED  BY <1>4, <1>5, <1>7, <1>8 DEF Inv

-----------------------------------------------------------------------------
(* Runner::poll_next *)

LEMMA SlotReadyInv ==
    ASSUME Inv, NEW m \in Msgs, SlotReady(m)
    PROVE  Inv'
<1>1. /\ PollFrom(Other(first))
      /\ UNCHANGED <<input, ended, scheduled, pending, alarm, active, peeked, shutdown>>
    BY DEF SlotReady, Item, source
<1>2. PICK before \in SUBSET (Msgs \ {m}) :
          slots' = [o \in Msgs |-> IF o = m THEN "free"
                                   ELSE IF o \in before THEN Polled(slots[o]) ELSE slots[o]]
    BY DEF SlotReady
<1>3. slots' \in [Msgs -> SlotStates]
    BY <1>2 DEF Polled, SlotStates, Inv, Types
<1>4. CASE UNCHANGED <<resched, wanted, armed, woken>>
    <2>1. Types'
        BY <1>1, <1>3, <1>4, PollFromType DEF Inv, Types
    <2>2. TypeOK' /\ ArmedIsEmpty'
        BY <1>1, <1>3, <1>4, PollFromType DEF Inv, TypeOK, ArmedIsEmpty
    <2> QED  BY <1>1, <2>1, <2>2, PollFromInv
<1>5. ASSUME NEW d \in Delays, resched' = [resched EXCEPT ![m] = Min({@, d})],
             wanted' = wanted \cup {m}, NotifyInput
      PROVE  Inv'
    <2>1. resched[m] \in 0 .. Never /\ d \in 0 .. Never /\ d # Never /\ resched \in [Msgs -> 0 .. Never]
        BY Instants DEF Inv, Types
    <2>2. Min({resched[m], d}) \in {resched[m], d} /\ Min({resched[m], d}) <= d
        BY <2>1, MinOfNaturals
    <2>3. Min({resched[m], d}) \in 0 .. Never /\ Min({resched[m], d}) # Never
        BY <2>1, <2>2, Instants
    <2>4. /\ resched' \in [Msgs -> 0 .. Never] /\ resched'[m] # Never
          /\ \A o \in Msgs \ {m} : resched'[o] = resched[o]
        BY <1>5, <2>1, <2>3
    <2>5. woken' \in BOOLEAN /\ armed' = FALSE
        BY <1>5 DEF NotifyInput
    <2>6. Types'
        BY <1>1, <1>3, <2>4, <2>5, PollFromType DEF Inv, Types
    <2>7. TypeOK'
        <3>1. \A o \in Msgs : resched'[o] \in 0 .. Never
            BY <2>4
        <3> QED  BY <1>1, <1>3, <1>5, <2>4, <3>1, PollFromType DEF Inv, TypeOK
    <2> QED  BY <1>1, <2>5, <2>6, <2>7, PollFromInv DEF ArmedIsEmpty
<1> QED  BY <1>4, <1>5 DEF SlotReady

LEMMA SlotsPendingInv ==
    ASSUME Inv, SlotsPending
    PROVE  Inv'
<1>1. /\ pc = "slots" /\ pc' = "requests" /\ \A m \in Msgs : slots[m] # "finished"
      /\ slots' = [m \in Msgs |-> Polled(slots[m])] /\ active' = has_active_slots
      /\ UNCHANGED <<input, ended, resched, scheduled, pending, alarm, armed, woken, rest, first,
                     peeked, shutdown, wanted>>
    BY DEF SlotsPending, source, wakers
<1>2. \A m \in Msgs : slots[m] \in SlotStates /\ slots[m] # "finished" /\ slots'[m] = Polled(slots[m])
    BY <1>1 DEF Inv, Types
<1>3. \A m \in Msgs : /\ slots'[m] \in {"free", "running"}
                      /\ slots'[m] = "free" <=> slots[m] = "free"
    BY <1>2 DEF SlotStates, Polled
<1>4. slots' \in [Msgs -> SlotStates] /\ active' \in BOOLEAN
    BY <1>1, <1>3 DEF SlotStates, has_active_slots
<1>5. Types'
    BY <1>1, <1>4 DEF Inv, Types
<1>6. TypeOK' /\ ArmedIsEmpty'
    BY <1>1, <1>4 DEF Inv, TypeOK, ArmedIsEmpty
<1>7. SlotsSeen'
    BY <1>1, <1>3 DEF SlotsSeen, Settled, Runs, has_active_slots
<1>8. ErrsSeen'
    BY <1>1 DEF Inv, ErrsSeen, ErrIsNext, HeadIsErr, Waits
<1>9. RequestsSeen' /\ ViaSeen' /\ NoLostWakeup' /\ EndAbandonsOnlyFresh'
    BY <1>1 DEF RequestsSeen, ViaSeen, NoLostWakeup, Asleep, EndAbandonsOnlyFresh
<1> QED  BY <1>5, <1>6, <1>7, <1>8, <1>9 DEF Inv

-----------------------------------------------------------------------------
(* HoldUnless::poll_next *)

\* A message that is scheduled is in the scheduler, and no other is moved.
LEMMA ScheduleStep ==
    ASSUME Types, TypeOK, NEW m \in Msgs, NEW t \in 0 .. Never, t # Never, schedule_message(m, t)
    PROVE  /\ scheduled' \in [Msgs -> 0 .. Never]
           /\ scheduled'[m] # Never \/ m \in pending
           /\ m \in pending => UNCHANGED scheduled
           /\ \A o \in Msgs \ {m} : scheduled'[o] = scheduled[o]
<1>1. scheduled \in [Msgs -> 0 .. Never] /\ scheduled[m] \in 0 .. Never
    BY DEF Types
<1>2. CASE m \in pending \/ scheduled[m] < t
    BY <1>1, <1>2, Instants DEF schedule_message
<1>3. CASE ~ (m \in pending \/ scheduled[m] < t)
    BY <1>1, <1>3 DEF schedule_message
<1> QED  BY <1>2, <1>3

LEMMA TakeRequestInv ==
    ASSUME Inv, NEW m \in Msgs, TakeRequest(m)
    PROVE  Inv'
<1>1. /\ pc = "requests" /\ peeked' = "none"
      /\ UNCHANGED <<ended, pending, slots, alarm, armed, woken, pc, rest, first, active,
                     shutdown, wanted>>
    BY DEF TakeRequest, wakers, poll
<1>2. /\ input' \in Seq(Msgs \cup {Err}) /\ resched' \in [Msgs -> 0 .. Never]
      /\ scheduled' \in [Msgs -> 0 .. Never]
      /\ scheduled'[m] # Never \/ m \in pending
      /\ m \in pending => UNCHANGED scheduled
      /\ \A o \in Msgs \ {m} : scheduled'[o] = scheduled[o]
      /\ ~ armed /\ (shutdown # "no" => ended /\ input' = <<>>)
    <2>1. CASE CanPeek("queue") /\ Head(input) = m /\ input' = Tail(input)
               /\ schedule_message(m, 1) /\ UNCHANGED resched
        <3>1. input # <<>>
            BY <2>1, ApplierAssumption DEF CanPeek, Inv, TypeOK
        <3>2. input' \in Seq(Msgs \cup {Err}) /\ resched' \in [Msgs -> 0 .. Never]
            BY <2>1, <3>1 DEF Inv, Types
        <3>3. ~ armed /\ shutdown = "no"
            BY <3>1 DEF Inv, ArmedIsEmpty, TypeOK
        <3> QED  BY <2>1, <3>2, <3>3, ScheduleStep, Instants DEF Inv
    <2>2. CASE CanPeek(m) /\ resched' = [resched EXCEPT ![m] = Never]
               /\ schedule_message(m, resched[m]) /\ UNCHANGED input
        <3>1. resched[m] # Never /\ resched[m] \in 0 .. Never /\ ~ armed
            BY <2>2, ApplierAssumption DEF CanPeek, Inv, Types, TypeOK, ArmedIsEmpty
        <3>2. input' \in Seq(Msgs \cup {Err}) /\ resched' \in [Msgs -> 0 .. Never]
            BY <2>2, Instants DEF Inv, Types
        <3>3. shutdown # "no" => ended /\ input' = <<>>
            BY <2>2 DEF Inv, TypeOK
        <3> QED  BY <2>2, <3>1, <3>2, <3>3, ScheduleStep DEF Inv
    <2> QED  BY <2>1, <2>2 DEF TakeRequest
<1>3. Types'
    BY <1>1, <1>2 DEF Inv, Types
<1>4. TypeOK'
    <2>1. \A o \in Msgs : /\ scheduled'[o] \in 0 .. Never /\ resched'[o] \in 0 .. Never
                          /\ slots'[o] \in SlotStates /\ o \in pending' => scheduled'[o] = Never
        BY <1>1, <1>2 DEF Inv, TypeOK
    <2> QED  BY <1>1, <1>2, <2>1, ApplierAssumption DEF Inv, TypeOK
<1>5. Waits(m)'
    BY <1>1, <1>2 DEF Waits
<1>6. ArmedIsEmpty'
    BY <1>1, <1>2 DEF ArmedIsEmpty
<1>7. SlotsSeen'
    BY <1>1 DEF Inv, SlotsSeen, Settled, Runs
<1>8. ErrsSeen'
    BY <1>5 DEF ErrsSeen
<1>9. RequestsSeen' /\ ViaSeen' /\ NoLostWakeup' /\ EndAbandonsOnlyFresh'
    BY <1>1 DEF RequestsSeen, ViaSeen, NoLostWakeup, Asleep, EndAbandonsOnlyFresh
<1> QED  BY <1>3, <1>4, <1>6, <1>7, <1>8, <1>9 DEF Inv

LEMMA RequestsBlockedInv ==
    ASSUME Inv, RequestsBlocked
    PROVE  Inv'
<1>1. /\ pc = "requests" /\ pc' = "pop" /\ CanPeek("queue") /\ HeadIsErr /\ peeked' = "queue"
      /\ UNCHANGED <<input, ended, resched, scheduled, pending, slots, alarm, armed, woken, rest,
                     first, active, shutdown, wanted>>
    BY DEF RequestsBlocked, source, sched, wakers
<1>2. input # <<>> /\ HeadIsErr' /\ ErrIsNext'
    BY <1>1 DEF HeadIsErr, ErrIsNext
<1>3. ~ armed /\ shutdown = "no"
    BY <1>2 DEF Inv, ArmedIsEmpty, TypeOK
<1>4. Types'
    BY <1>1 DEF Inv, Types
<1>5. TypeOK' /\ ArmedIsEmpty'
    BY <1>1, <1>2, <1>3, ApplierAssumption DEF Inv, TypeOK, ArmedIsEmpty
<1>6. SlotsSeen'
    BY <1>1 DEF Inv, SlotsSeen, Settled, Runs
<1>7. RequestsSeen'
    <2>1. SUFFICES ASSUME ~ woken, ~ rest  PROVE \E m \in Msgs : Waits(m)
        BY <1>1, <1>2, <1>3 DEF RequestsSeen, Waits
    <2>2. peeked = "none" \/ ErrIsNext
        BY <1>1, ApplierAssumption DEF CanPeek, ErrIsNext
    <2> QED  BY <1>1, <1>3, <2>1, <2>2 DEF Inv, ErrsSeen
<1>8. ErrsSeen' /\ ViaSeen' /\ NoLostWakeup' /\ EndAbandonsOnlyFresh'
    BY <1>1 DEF ErrsSeen, ViaSeen, NoLostWakeup, Asleep, EndAbandonsOnlyFresh
<1> QED  BY <1>4, <1>5, <1>6, <1>7, <1>8 DEF Inv

LEMMA RequestsPendingInv ==
    ASSUME Inv, RequestsPending
    PROVE  Inv'
<1>1. /\ pc = "requests" /\ pc' = "pop" /\ InputPending
      /\ UNCHANGED <<input, ended, resched, scheduled, pending, slots, alarm, rest,
                     first, active, peeked, wanted>>
    BY DEF RequestsPending, source, sched
<1>2. /\ peeked = "none" /\ input = <<>> /\ armed' \in BOOLEAN
      /\ \/ ~ ended /\ armed' = TRUE /\ UNCHANGED <<woken, shutdown>> /\ shutdown = "no"
            /\ \A m \in Msgs : resched[m] = Never
         \/ ended /\ woken' = TRUE /\ UNCHANGED armed /\ shutdown = "no" /\ shutdown' = "sent"
    BY <1>1, InputPendingStep DEF Inv
<1>3. Types'
    BY <1>1, <1>2 DEF Inv, Types
<1>4. TypeOK' /\ ArmedIsEmpty'
    BY <1>1, <1>2 DEF Inv, TypeOK, ArmedIsEmpty
<1>5. SlotsSeen'
    BY <1>1, <1>2 DEF Inv, SlotsSeen, Settled, Runs
<1>6. RequestsSeen'
    BY <1>1, <1>2 DEF RequestsSeen
<1>7. ErrsSeen' /\ ViaSeen' /\ NoLostWakeup' /\ EndAbandonsOnlyFresh'
    BY <1>1 DEF ErrsSeen, ViaSeen, NoLostWakeup, Asleep, EndAbandonsOnlyFresh
<1> QED  BY <1>3, <1>4, <1>5, <1>6, <1>7 DEF Inv

LEMMA RequestsEndInv ==
    ASSUME Inv, RequestsEnd
    PROVE  Inv'
<1>1. /\ pc = "requests" /\ ended /\ input = <<>> /\ peeked = "none" /\ shutdown' = "over"
      /\ UNCHANGED <<input, ended, resched, scheduled, pending, slots, alarm, armed, woken, first,
                     active, peeked, wanted>>
    BY DEF RequestsEnd, InputEnds, BranchPending, source, sched, wakers
<1>2. \/ active /\ pc' \in {"errs", "idle"} /\ rest' = FALSE
      \/ ~ active /\ pc' = "over" /\ UNCHANGED rest
    BY DEF RequestsEnd, BranchPending, Stage, Other
<1>3. Types'
    BY <1>1, <1>2 DEF Inv, Types
<1>4. TypeOK' /\ ArmedIsEmpty'
    BY <1>1, <1>2 DEF Inv, TypeOK, ArmedIsEmpty
<1>5. EndAbandonsOnlyFresh'
    BY <1>1, <1>2 DEF Inv, SlotsSeen, EndAbandonsOnlyFresh
<1>6. active /\ ~ woken => Settled /\ \E m \in Msgs : Runs(m)
    BY <1>1 DEF Inv, SlotsSeen, Settled
<1>7. SlotsSeen' /\ RequestsSeen' /\ ErrsSeen'
    BY <1>1, <1>2 DEF SlotsSeen, RequestsSeen, ErrsSeen
<1>8. ViaSeen' /\ NoLostWakeup'
    BY <1>1, <1>2, <1>6 DEF ViaSeen, NoLostWakeup, Asleep, Settled, Runs
<1> QED  BY <1>3, <1>4, <1>5, <1>7, <1>8 DEF Inv

-----------------------------------------------------------------------------
(* poll_pop_queue_message *)

\* A future is put in a slot: the task will be polled again.
LEMMA StartInv ==
    ASSUME Inv, NEW m \in Msgs, pc = "pop", slots[m] = "free", Start(m),
           scheduled' \in [Msgs -> 0 .. Never], pending' \subseteq pending,
           \A o \in pending' : scheduled'[o] = Never,
           UNCHANGED <<input, ended, resched, alarm, armed, rest, first, active, peeked, shutdown>>
    PROVE  Inv'
<1>1. /\ slots' = [slots EXCEPT ![m] = "fresh"] /\ woken' = TRUE /\ pc' = "requests"
      /\ wanted' = wanted \ {m}
    BY DEF Start, wake_by_ref
<1>2. /\ slots' \in [Msgs -> SlotStates] /\ slots'[m] = "fresh"
      /\ \A o \in Msgs \ {m} : slots'[o] = slots[o]
    BY <1>1 DEF Inv, Types, SlotStates
<1>3. Types'
    BY <1>1, <1>2 DEF Inv, Types
<1>4. TypeOK' /\ ArmedIsEmpty'
    BY <1>1, <1>2 DEF Inv, TypeOK, ArmedIsEmpty
<1>5. SlotsSeen'
    BY <1>1, <1>2 DEF Inv, SlotsSeen
<1>6. RequestsSeen' /\ ErrsSeen' /\ ViaSeen' /\ NoLostWakeup' /\ EndAbandonsOnlyFresh'
    BY <1>1 DEF RequestsSeen, ErrsSeen, ViaSeen, NoLostWakeup, Asleep, EndAbandonsOnlyFresh
<1> QED  BY <1>3, <1>4, <1>5, <1>6 DEF Inv

LEMMA PopPendingInv ==
    ASSUME Inv, NEW m \in Msgs, PopPending(m)
    PROVE  Inv'
<1>1. /\ pc = "pop" /\ slots[m] = "free" /\ pending' = pending \ {m} /\ Start(m)
      /\ UNCHANGED <<input, ended, resched, scheduled, alarm, armed, rest, first, active, peeked, shutdown>>
    BY DEF PopPending, Takeable, source
<1>2. scheduled' \in [Msgs -> 0 .. Never] /\ \A o \in pending' : scheduled'[o] = Never
    BY <1>1 DEF Inv, Types, TypeOK
<1> QED  BY <1>1, <1>2, StartInv

LEMMA PopExpiredInv ==
    ASSUME Inv, NEW m \in Msgs, PopExpired(m)
    PROVE  Inv'
<1>1. /\ pc = "pop" /\ scheduled' = [scheduled EXCEPT ![m] = Never]
      /\ UNCHANGED <<input, ended, resched, alarm, armed, rest, first, active, peeked, shutdown>>
    BY DEF PopExpired, source
<1>2. /\ scheduled' \in [Msgs -> 0 .. Never] /\ scheduled'[m] = Never
      /\ \A o \in Msgs \ {m} : scheduled'[o] = scheduled[o]
    BY <1>1, Instants DEF Inv, Types
<1>3. CASE slots[m] = "free" /\ Start(m) /\ UNCHANGED pending
    <2>1. \A o \in pending' : scheduled'[o] = Never
        BY <1>2, <1>3 DEF Inv, TypeOK
    <2> QED  BY <1>1, <1>2, <1>3, <2>1, StartInv
<1>4. CASE pending' = pending \cup {m} /\ UNCHANGED <<slots, woken, pc, wanted>>
    <2>1. Types'
        BY <1>1, <1>2, <1>4 DEF Inv, Types
    <2>2. TypeOK' /\ ArmedIsEmpty'
        BY <1>1, <1>2, <1>4 DEF Inv, TypeOK, ArmedIsEmpty
    <2>3. SlotsSeen'
        BY <1>1, <1>4 DEF Inv, SlotsSeen, Settled, Runs
    <2>4. Waits(m)' /\ ErrIsNext' = ErrIsNext
        BY <1>1, <1>4 DEF Waits, ErrIsNext, HeadIsErr
    <2>5. RequestsSeen'
        BY <1>1, <1>4, <2>4 DEF Inv, RequestsSeen
    <2>6. ErrsSeen' /\ ViaSeen' /\ NoLostWakeup' /\ EndAbandonsOnlyFresh'
        BY <1>1, <1>4 DEF ErrsSeen, ViaSeen, NoLostWakeup, Asleep, EndAbandonsOnlyFresh
    <2> QED  BY <2>1, <2>2, <2>3, <2>5, <2>6 DEF Inv
<1> QED  BY <1>3, <1>4 DEF PopExpired, Hold

LEMMA PopNothingInv ==
    ASSUME Inv, PopNothing
    PROVE  Inv'
<1> DEFINE S == {Never} \cup {scheduled[m] : m \in Msgs}
<1>1. /\ pc = "pop" /\ Takeable = {} /\ Expired = {} /\ alarm' = Min(S)
      /\ rest' = FALSE /\ pc' = IF rest THEN "errs" ELSE "idle"
      /\ UNCHANGED <<input, ended, resched, scheduled, pending, slots, armed, woken, first, active,
                     peeked, shutdown, wanted>>
    BY DEF PopNothing, BranchPending, Stage, Other, source, sched
<1>2. \A m \in Msgs : scheduled[m] \in 0 .. Never /\ scheduled[m] # 0
    BY <1>1 DEF Inv, Types, Expired
<1>3. S \subseteq 1 .. Never /\ S \in SUBSET Nat /\ S # {} /\ \A m \in Msgs : scheduled[m] \in S
    BY <1>2, Instants
<1> HIDE DEF S
<1>4. alarm' \in 1 .. Never /\ \A m \in Msgs : alarm' <= scheduled[m]
    BY <1>1, <1>3, MinOfNaturals
<1>5. /\ Takeable' = {} /\ AlarmSet' /\ HeadIsErr' = HeadIsErr /\ ErrIsNext' = ErrIsNext
      /\ Settled' = Settled /\ \A m \in Msgs : Runs(m)' <=> Runs(m)
    BY <1>1, <1>4 DEF Takeable, AlarmSet, HeadIsErr, ErrIsNext, Settled, Runs
<1>6. Types'
    BY <1>1 DEF Inv, Types
<1>7. TypeOK' /\ ArmedIsEmpty'
    BY <1>1, <1>4 DEF Inv, TypeOK, ArmedIsEmpty
<1>8. /\ shutdown # "over" /\ (woken \/ Settled)
      /\ woken \/ armed \/ (ErrIsNext /\ (rest \/ \E m \in Msgs : Waits(m)))
    BY <1>1 DEF Inv, SlotsSeen, RequestsSeen
<1>9. ViaSeen'
    BY <1>1, <1>5, <1>8 DEF ViaSeen
<1>10. NoLostWakeup'
    <2>1. SUFFICES ASSUME ~ woken, ~ rest  PROVE NoLostWakeup'
        BY <1>1 DEF NoLostWakeup, Asleep
    <2>2. Settled /\ (armed \/ (ErrIsNext /\ \E m \in Msgs : Waits(m)))
        BY <1>8, <2>1
    <2>3. ASSUME NEW m \in Msgs, Waits(m)  PROVE alarm' # Never \/ Runs(m)
        <3>1. CASE scheduled[m] # Never
            BY <1>2, <1>4, <3>1, Instants
        <3>2. CASE m \in pending
            BY <1>1, <2>2, <3>2 DEF Takeable, Settled
        <3> QED  BY <2>3, <3>1, <3>2 DEF Waits
    <2>4. armed' => (input = <<>> /\ ~ ended /\ \A m \in Msgs : resched[m] = Never)'
        BY <1>7 DEF ArmedIsEmpty
    <2>5. \/ armed'
          \/ HeadIsErr' /\ (alarm' # Never \/ \E m \in Msgs : Runs(m)')
        BY <1>1, <1>5, <2>2, <2>3 DEF ErrIsNext
    <2> QED  BY <1>1, <1>5, <1>8, <2>2, <2>4, <2>5 DEF NoLostWakeup, Settled, AlarmSet
<1>11. SlotsSeen' /\ RequestsSeen' /\ ErrsSeen' /\ EndAbandonsOnlyFresh'
    BY <1>1 DEF SlotsSeen, RequestsSeen, ErrsSeen, EndAbandonsOnlyFresh
<1> QED  BY <1>6, <1>7, <1>9, <1>10, <1>11 DEF Inv

-----------------------------------------------------------------------------
(* What the run checks, for every instance *)

LEMMA NextInv == Inv /\ [Next]_vars => Inv'
<1> SUFFICES ASSUME Inv, [Next]_vars  PROVE Inv'
    OBVIOUS
<1>1. CASE UNCHANGED vars
    <2>1. UNCHANGED <<input, ended, resched, scheduled, pending, slots, alarm, armed, woken,
                      pc, rest, first, active, peeked, shutdown, wanted>>
        BY <1>1 DEF vars, source, sched, wakers, poll
    <2>2. Types' /\ TypeOK' /\ ArmedIsEmpty'
        BY <2>1 DEF Inv, Types, TypeOK, ArmedIsEmpty
    <2>3. SlotsSeen' /\ RequestsSeen' /\ ErrsSeen' /\ EndAbandonsOnlyFresh'
        BY <2>1 DEF Inv, SlotsSeen, RequestsSeen, ErrsSeen, EndAbandonsOnlyFresh, Settled, Runs,
                    Waits, ErrIsNext, HeadIsErr
    <2>4. ViaSeen' /\ NoLostWakeup'
        BY <2>1 DEF Inv, ViaSeen, NoLostWakeup, Asleep, Settled, Runs, Takeable, AlarmSet,
                    ErrIsNext, HeadIsErr
    <2> QED  BY <2>2, <2>3, <2>4 DEF Inv
<1>2. CASE Poll
    BY <1>2, BeginPollInv, TakeErrInv, NoErrInv, SlotsPendingInv, RequestsBlockedInv,
       RequestsPendingInv, RequestsEndInv, PopNothingInv, SlotReadyInv, TakeRequestInv,
       PopPendingInv, PopExpiredInv DEF Poll
<1>3. CASE Next
    BY <1>2, <1>3, TickInv, EndQueueInv, PushInv, FinishInv DEF Next
<1> QED  BY <1>1, <1>3

LEMMA SpecInv == Spec => []Inv
BY InitInv, NextInv, PTL DEF Spec

\* Scheduler, Runner and Peekable: the types, that a message waits in one place
\* only, and that what was peeked at is still there.
THEOREM TypeCorrect == Spec => []TypeOK
<1>1. Inv => TypeOK
    BY DEF Inv
<1> QED  BY <1>1, SpecInv, PTL

\* Runner::poll_next, HoldUnless, SplitCase: in whatever order requests, errors,
\* ends of reconciliations, ticks and the end of the queue come between the
\* stages of a poll, the task does not go to sleep on work nobody will wake it for.
THEOREM NeverSleepsOnWork == Spec => []NoLostWakeup
<1>1. Inv => NoLostWakeup
    BY DEF Inv
<1> QED  BY <1>1, SpecInv, PTL

\* Runner::poll_next: has_active_slots is older than the slots are when the input
\* ends; still, no reconciliation that was polled once is dropped.
THEOREM EndDropsNoneBegun == Spec => []EndAbandonsOnlyFresh
<1>1. Inv => EndAbandonsOnlyFresh
    BY DEF Inv
<1> QED  BY <1>1, SpecInv, PTL

=============================================================================

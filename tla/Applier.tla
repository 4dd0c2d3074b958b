------------------------------ MODULE Applier ------------------------------
(***************************************************************************)
(* kube-runtime's applier: requests to reconcile objects come from a queue, *)
(* or from reconciliations that ask to be run again, wait in a scheduler    *)
(* and are run by a Runner, at most one at a time for each object.          *)
(*                                                                          *)
(* All of it is one task, that the runtime polls only after something woke  *)
(* it.  A poll goes through the stages of pc while the queue's senders, the *)
(* reconciliations and the clock go on; what it leaves behind without a     *)
(* wakeup to come is lost.                                                  *)
(*                                                                          *)
(* Time is relative: an instant is the number of ticks until it is reached, *)
(* and Never stands for "not scheduled".                                    *)
(***************************************************************************)
EXTENDS Naturals, Sequences, FiniteSets, FiniteSetsExt

CONSTANTS
    Msgs,      \* the objects to reconcile: requests are equal if these are
    Err,       \* an error of the queue
    Delays,    \* what a reconciliation may ask for as requeue_after
    MaxDelay,  \* bound on delays
    MaxPush    \* bound: items of the queue

ASSUME ApplierAssumption ==
    /\ Msgs \cap {Err, "none", "queue"} = {}
    /\ MaxDelay \in Nat \ {0} /\ Delays \subseteq 0 .. MaxDelay
    /\ MaxPush \in Nat

VARIABLES
    input,      \* items of the queue not yet taken
    ended,      \* has the queue ended
    pushes,     \* items of the queue so far
    resched,    \* scheduler_tx: message -> ticks until it is to run
    scheduled,  \* Scheduler: message -> ticks until it expires
    pending,    \* Scheduler: messages held because they are running
    slots,      \* Runner: message -> state of its future
    alarm,      \* DelayQueue: ticks until it wakes the task
    armed,      \* has the task left its waker with the input
    woken,      \* is the task to be polled
    pc,         \* stage of the poll
    rest,       \* is the other branch of the select to be polled after this
    first,      \* the branch the select polls first
    active,     \* Runner::poll_next: has_active_slots
    peeked,     \* Peekable: the item looked at and not taken
    shutdown,   \* has the end of the queue been seen, and the input's end
    wanted      \* ghost: messages requested since their last run began

source == <<input, ended, pushes>>
sched  == <<scheduled, pending, slots>>
wakers == <<alarm, armed, woken>>
poll   == <<pc, rest, first, active>>
vars   == <<source, resched, sched, wakers, poll, peeked, shutdown, wanted>>

Never == MaxDelay + 1
SlotStates == {"free", "fresh", "running", "finished"}

Init ==
    /\ input = <<>> /\ ended = FALSE /\ pushes = 0
    /\ resched = [m \in Msgs |-> Never]
    /\ scheduled = [m \in Msgs |-> Never] /\ pending = {}
    /\ slots = [m \in Msgs |-> "free"]
    /\ alarm = Never /\ armed = FALSE /\ woken = TRUE
    /\ pc = "idle" /\ rest = FALSE /\ first = "errs" /\ active = FALSE
    /\ peeked = "none" /\ shutdown = "no"
    /\ wanted = {}

-----------------------------------------------------------------------------
(* What happens outside the task *)

\* An item reaches the input: whoever left a waker is woken, once.
NotifyInput == woken' = (woken \/ armed) /\ armed' = FALSE

Push(x) ==
    /\ ~ ended /\ pushes < MaxPush /\ pushes' = pushes + 1
    /\ input' = Append(input, x)
    /\ wanted' = wanted \cup ({x} \ {Err})
    /\ NotifyInput
    /\ UNCHANGED <<ended, resched, sched, alarm, poll, peeked, shutdown>>

EndQueue ==
    /\ ~ ended /\ ended' = TRUE
    /\ NotifyInput
    /\ UNCHANGED <<input, pushes, resched, sched, alarm, poll, peeked, shutdown, wanted>>

\* What a reconciliation waits for has come.
Finish(m) ==
    /\ slots[m] = "running" /\ slots' = [slots EXCEPT ![m] = "finished"]
    /\ woken' = TRUE
    /\ UNCHANGED <<source, resched, scheduled, pending, alarm, armed, poll, peeked, shutdown, wanted>>

Earlier(t) == IF t \in 1 .. MaxDelay THEN t - 1 ELSE t

Tick ==
    /\ scheduled' = [m \in Msgs |-> Earlier(scheduled[m])]
    /\ resched' = [m \in Msgs |-> Earlier(resched[m])]
    /\ alarm' = IF alarm = 1 THEN Never ELSE Earlier(alarm)
    /\ woken' = (woken \/ alarm = 1)
    /\ UNCHANGED <<source, pending, slots, armed, poll, peeked, shutdown, wanted>>

-----------------------------------------------------------------------------
(* trystream_try_via: the select of the Runner and of the errors *)

Other(b) == IF b = "errs" THEN "via" ELSE "errs"
Stage(b) == IF b = "errs" THEN "errs" ELSE "slots"

\* The select polls its branches in turns.
PollFrom(b) == first' = b /\ pc' = Stage(b) /\ rest' = TRUE

\* A branch is Pending: the other one is polled, or the task sleeps.
BranchPending(b) ==
    /\ pc' = IF rest THEN Stage(Other(b)) ELSE "idle"
    /\ rest' = FALSE /\ UNCHANGED first

BeginPoll ==
    /\ pc = "idle" /\ woken /\ woken' = FALSE
    /\ PollFrom(Other(first))
    /\ UNCHANGED <<source, resched, sched, alarm, armed, active, peeked, shutdown, wanted>>

\* An item comes out, and the consumer polls again.
Item == PollFrom(Other(first)) /\ UNCHANGED active

\* Peekable: the item is the head of the queue's items, or a request of a
\* reconciliation, until the shutdown is sent.  What was peeked at stays first.
CanPeek(p) ==
    \/ peeked # "none" /\ p = peeked
    \/ peeked = "none" /\ p = "queue" /\ input # <<>>
    \/ peeked = "none" /\ p \in Msgs /\ resched[p] # Never /\ shutdown = "no"

HeadIsErr == input # <<>> /\ Head(input) = Err
NoItem    == \A p \in {"queue"} \cup Msgs : ~ CanPeek(p)

\* There is no item.  The waker is left; or the queue has ended, which shuts the
\* other input down: the whole has ended too, unless that input was looked at
\* before, and is woken by it.
InputPending ==
    /\ NoItem
    /\ \/ ~ ended /\ armed' = TRUE /\ UNCHANGED <<woken, shutdown>>
       \/ ended /\ shutdown = "no" /\ shutdown' = "sent" /\ woken' = TRUE /\ UNCHANGED armed

InputEnds == ended /\ input = <<>> /\ peeked = "none" /\ shutdown' = "over"

\* The SplitCase of errors takes an error.
TakeErr ==
    /\ pc = "errs" /\ CanPeek("queue") /\ HeadIsErr
    /\ input' = Tail(input) /\ peeked' = "none"
    /\ Item
    /\ UNCHANGED <<ended, pushes, resched, sched, wakers, shutdown, wanted>>

\* Nothing for the SplitCase of errors: an item for the other one is left to it.
NoErr ==
    /\ pc = "errs"
    /\ \/ /\ \E p \in {"queue"} \cup Msgs :
               CanPeek(p) /\ ~ (p = "queue" /\ HeadIsErr) /\ peeked' = p
          /\ UNCHANGED <<armed, woken, shutdown>>
       \/ InputPending /\ UNCHANGED peeked
       \/ InputEnds /\ UNCHANGED <<peeked, armed, woken>>
    /\ BranchPending("errs")
    /\ UNCHANGED <<source, resched, sched, alarm, active, wanted>>

-----------------------------------------------------------------------------
(* Runner::poll_next *)

Polled(s) == IF s = "fresh" THEN "running" ELSE s

\* FutureHashMap: a future is ready, others may have been polled before it.  The
\* action that came out asks for another run, or does not; of two such requests
\* for one object the scheduler would keep the earlier.  Each reconciliation has a
\* sender of its own, for which the channel has room.
SlotReady(m) ==
    /\ pc = "slots" /\ slots[m] \in {"fresh", "finished"}
    /\ \E before \in SUBSET (Msgs \ {m}) :
          /\ \A o \in before : slots[o] = "fresh"
          /\ slots' = [o \in Msgs |-> IF o = m THEN "free"
                                      ELSE IF o \in before THEN Polled(slots[o]) ELSE slots[o]]
    /\ \/ UNCHANGED <<resched, wanted, armed, woken>>
       \/ /\ \E d \in Delays : resched' = [resched EXCEPT ![m] = Min({@, d})]
          /\ wanted' = wanted \cup {m}
          /\ NotifyInput
    /\ Item
    /\ UNCHANGED <<source, scheduled, pending, alarm, peeked, shutdown>>

ActiveNever  == FALSE
ActiveAlways == TRUE

has_active_slots == \E m \in Msgs : slots[m] # "free"

\* No future is ready: each has left the task's waker.
SlotsPending ==
    /\ pc = "slots" /\ \A m \in Msgs : slots[m] # "finished"
    /\ slots' = [m \in Msgs |-> Polled(slots[m])]
    /\ active' = has_active_slots
    /\ pc' = "requests"
    /\ UNCHANGED <<source, resched, scheduled, pending, wakers, rest, first, peeked, shutdown, wanted>>

-----------------------------------------------------------------------------
(* HoldUnless::poll_next *)

schedule_messageAnyway(m, t) ==
    scheduled' = IF scheduled[m] < t THEN scheduled ELSE [scheduled EXCEPT ![m] = t]

\* A pending message stays as it is, of two instants the earlier one counts.
schedule_message(m, t) ==
    scheduled' = IF m \in pending \/ scheduled[m] < t THEN scheduled
                 ELSE [scheduled EXCEPT ![m] = t]

TakeRequest(m) ==
    /\ pc = "requests" /\ peeked' = "none"
    /\ \/ /\ CanPeek("queue") /\ Head(input) = m /\ input' = Tail(input)
          /\ schedule_message(m, 1)
          /\ UNCHANGED resched
       \/ /\ CanPeek(m) /\ resched' = [resched EXCEPT ![m] = Never]
          /\ schedule_message(m, resched[m])
          /\ UNCHANGED input
    /\ UNCHANGED <<ended, pushes, pending, slots, wakers, poll, shutdown, wanted>>

\* The SplitCase of requests peeks at an error: Pending, and no waker is left.
RequestsBlocked ==
    /\ pc = "requests" /\ CanPeek("queue") /\ HeadIsErr /\ peeked' = "queue"
    /\ pc' = "pop"
    /\ UNCHANGED <<source, resched, sched, wakers, rest, first, active, shutdown, wanted>>

RequestsPending ==
    /\ pc = "requests" /\ InputPending
    /\ pc' = "pop"
    /\ UNCHANGED <<source, resched, sched, alarm, rest, first, active, peeked, wanted>>

\* The input has ended.  Futures that ran when the poll began are waited for;
\* messages that wait are dropped.
RequestsEnd ==
    /\ pc = "requests" /\ InputEnds
    /\ IF active THEN BranchPending("via") ELSE pc' = "over" /\ UNCHANGED <<rest, first>>
    /\ UNCHANGED <<source, resched, sched, wakers, active, peeked, wanted>>

-----------------------------------------------------------------------------
(* poll_pop_queue_message, and what Runner::poll_next does with its result *)

Takeable == {m \in pending : slots[m] = "free"}
Expired  == {m \in Msgs : scheduled[m] = 0}

NoWake == UNCHANGED woken
wake_by_ref == woken' = TRUE

\* A new future, not polled yet: the task wakes itself.
Start(m) ==
    /\ slots' = [slots EXCEPT ![m] = "fresh"]
    /\ wake_by_ref
    /\ pc' = "requests" /\ wanted' = wanted \ {m}

PopPending(m) ==
    /\ pc = "pop" /\ m \in Takeable
    /\ pending' = pending \ {m}
    /\ Start(m)
    /\ UNCHANGED <<source, resched, scheduled, alarm, armed, rest, first, active, peeked, shutdown>>

HoldDrops(m) == UNCHANGED pending
Hold(m) == pending' = pending \cup {m}

\* A message whose object is being reconciled is held.
PopExpired(m) ==
    /\ pc = "pop" /\ Takeable = {} /\ m \in Expired
    /\ scheduled' = [scheduled EXCEPT ![m] = Never]
    /\ \/ slots[m] = "free" /\ Start(m) /\ UNCHANGED pending
       \/ slots[m] # "free" /\ Hold(m) /\ UNCHANGED <<slots, woken, pc, wanted>>
    /\ UNCHANGED <<source, resched, alarm, armed, rest, first, active, peeked, shutdown>>

PopNothing ==
    /\ pc = "pop" /\ Takeable = {} /\ Expired = {}
    /\ alarm' = Min({Never} \cup {scheduled[m] : m \in Msgs})
    /\ BranchPending("via")
    /\ UNCHANGED <<source, resched, sched, armed, woken, active, peeked, shutdown, wanted>>

Poll ==
    \/ BeginPoll \/ TakeErr \/ NoErr
    \/ SlotsPending
    \/ RequestsBlocked \/ RequestsPending \/ RequestsEnd
    \/ PopNothing
    \/ \E m \in Msgs : SlotReady(m) \/ TakeRequest(m) \/ PopPending(m) \/ PopExpired(m)

Next ==
    \/ Poll \/ Tick \/ EndQueue
    \/ \E x \in Msgs \cup {Err} : Push(x)
    \/ \E m \in Msgs : Finish(m)

Spec == Init /\ [][Next]_vars

\* The runtime polls a task that was woken, time passes, reconciliations end.
FairSpec ==
    /\ Spec
    /\ WF_vars(Poll) /\ WF_vars(Tick) /\ \A m \in Msgs : WF_vars(Finish(m))

-----------------------------------------------------------------------------
(* Properties *)

\* A message waits in one place: its timer, or the set of held messages.
TypeOK ==
    /\ \A m \in Msgs :
          /\ scheduled[m] \in 0 .. Never /\ resched[m] \in 0 .. Never
          /\ slots[m] \in SlotStates
          /\ m \in pending => scheduled[m] = Never
    /\ pending \subseteq Msgs /\ wanted \subseteq Msgs
    /\ alarm \in 1 .. Never
    /\ pc \in {"idle", "errs", "slots", "requests", "pop", "over"}
    /\ peeked \in {"none", "queue"} \cup Msgs
    /\ peeked = "queue" => input # <<>>
    /\ peeked \in Msgs => resched[peeked] # Never
    /\ shutdown # "no" => ended /\ input = <<>>

Asleep == pc = "idle" /\ ~ woken
Runs(m) == slots[m] = "running"

\* A task that sleeps has left no work behind without a wakeup to come: every
\* future has its waker, the timer is set for the first message, and the input
\* is empty and has the waker.  One exception: an error at the head of the
\* input may be left, while a timer or a running future will wake the task.
NoLostWakeup ==
    Asleep =>
        /\ \A m \in Msgs : slots[m] = "free" \/ Runs(m)
        /\ shutdown = "over" => \E m \in Msgs : Runs(m)
        /\ shutdown # "over" =>
              /\ Takeable = {}
              /\ \A m \in Msgs : scheduled[m] # Never => alarm <= scheduled[m]
              /\ \/ /\ input = <<>> /\ ~ ended /\ armed
                    /\ \A m \in Msgs : resched[m] = Never
                 \/ HeadIsErr /\ (alarm # Never \/ \E m \in Msgs : Runs(m))

\* When the applier has ended, no reconciliation that had begun was dropped:
\* at most some that had just been put in a slot.
EndAbandonsOnlyFresh == pc = "over" => \A m \in Msgs : slots[m] \in {"free", "fresh"}

\* A request is followed by a run that begins after it, although requests for
\* the same object are merged, held and overtaken; unless the queue ends.
NoRequestLost == \A m \in Msgs : m \in wanted ~> (m \notin wanted \/ ended)

\* Once the queue has ended, the applier ends, when what runs has finished.
GracefulEnd == ended ~> pc = "over"

=============================================================================

---------------------------- MODULE ObjectMirror ----------------------------
(***************************************************************************)
(* What following a collection of objects promises, said without versions   *)
(* of a protocol, connections or errors.                                    *)
(*                                                                          *)
(* The collection has a history of states.  A replica moves forward through *)
(* that history and never back; at every moment it is, key by key, one      *)
(* state of it, except for keys whose last change has been lost.  A         *)
(* consumer is handed every object that comes to be in the replica, before  *)
(* the replica moves again.                                                 *)
(***************************************************************************)
EXTENDS Naturals, Sequences

CONSTANTS
    Keys,     \* names of objects
    Objects,  \* states of an object
    None      \* no object has this name

VARIABLES
    hist,     \* the states the collection has had, after the empty one
    seen,     \* how much of the history the replica has followed
    replica,  \* key -> object
    lagging,  \* keys of which a change has been lost
    owed,     \* keys of objects the consumer is still to be handed
    handed    \* the last object the consumer was handed for each key

vars == <<hist, seen, replica, lagging, owed, handed>>

Empty == [k \in Keys |-> None]
At(n) == IF n = 0 THEN Empty ELSE hist[n]

Init ==
    /\ hist = <<>> /\ seen = 0
    /\ replica = Empty /\ lagging = {}
    /\ owed = {} /\ handed = Empty

\* The collection changes, or something outside it.
Change ==
    /\ \E objs \in [Keys -> Objects] : hist' = Append(hist, objs)
    /\ UNCHANGED <<seen, replica, lagging, owed, handed>>

\* The replica moves to a later state; the keys that still lag keep what they
\* have.  Every object that is new in it is handed to the consumer, now or
\* soon; an object that is not new may be handed again.
Sync ==
    /\ owed = {}
    /\ \E n \in seen .. Len(hist), rest \in SUBSET lagging, now \in SUBSET Keys :
          /\ seen' = n /\ lagging' = rest
          /\ replica' = [k \in Keys |-> IF k \in rest THEN replica[k] ELSE At(n)[k]]
          /\ handed' = [k \in Keys |-> IF k \in now THEN replica'[k] ELSE handed[k]]
          /\ owed' \in SUBSET Keys
          /\ \A k \in now \cup owed' : replica'[k] # None
          /\ \A k \in Keys :
                replica'[k] \notin {replica[k], None} => k \in now \cup owed'
    /\ UNCHANGED hist

\* The consumer is handed an object it is owed.
Hand(k) ==
    /\ k \in owed /\ owed' = owed \ {k}
    /\ handed' = [handed EXCEPT ![k] = replica[k]]
    /\ UNCHANGED <<hist, seen, replica, lagging>>

\* A change of k is lost.
Lose(k) ==
    /\ lagging' = lagging \cup {k}
    /\ UNCHANGED <<hist, seen, replica, owed, handed>>

Next == Change \/ Sync \/ \E k \in Keys : Hand(k) \/ Lose(k)

Spec == Init /\ [][Next]_vars

=============================================================================

------------------------- MODULE KubeWatcherProofs -------------------------
(***************************************************************************)
(* For any set of objects and any number of writes, compactions, failed     *)
(* requests and broken connections: the reflector's store is a snapshot of  *)
(* the collection, the consumer has it, and never goes back in time.        *)
(*                                                                          *)
(* What makes these inductive is that they must hold at two versions: at    *)
(* rv, from which a lost connection resumes, and at pos, to which the       *)
(* current connection has advanced.  The two differ by writes outside the   *)
(* collection and by events that did not deserialize.                       *)
(***************************************************************************)
EXTENDS KubeWatcher, TLAPS

\* A key keeps its object over writes that are not about it.
LogStable ==
    \A k \in Keys : \A m, n \in 0 .. Len(log) :
        m <= n /\ (\A j \in m + 1 .. n : log[j].key # k)
            => Snapshot(m)[k] = Snapshot(n)[k]

\* A write about a key leaves the object it wrote, or none.
LogWrites ==
    \A n \in 1 .. Len(log) : \A k \in Keys :
        log[n].key = k /\ log[n].objs[k] # 0 => log[n].objs[k] = n

\* The objects of a snapshot were written by then.
LogPast == \A n \in 0 .. Len(log) : \A k \in Keys : Snapshot(n)[k] <= n

\* An object that exists is the newest its key has had.
LogOrder ==
    \A k \in Keys : \A m, n \in 0 .. Len(log) :
        m <= n /\ Snapshot(n)[k] # 0 => Snapshot(m)[k] <= Snapshot(n)[k]

LogInv == LogStable /\ LogWrites /\ LogPast /\ LogOrder

\* While a connection is open the store is also the collection at pos.
StoreIsSnapshotAtPos ==
    state = "Watching" =>
        /\ rv <= pos
        /\ \A k \in Keys \ missed : store[k] = Snapshot(pos)[k]

\* What the store holds the consumer has, or will have before the next poll.
ConsumerHasStore ==
    \A k \in Keys \ missed : store[k] # 0 => applied[k] = store[k] \/ k \in queue

\* The queue is the rest of a list no event has followed yet.
QueueIsListed ==
    queue # {} => state = "InitListed" /\ missed = {} /\ \A k \in queue : store[k] # 0

\* Everything the consumer was handed is part of an earlier snapshot.
AppliedSeen == \A k \in Keys : \E m \in 0 .. rv : applied[k] = Snapshot(m)[k]

Inv ==
    /\ TypeOK /\ LogInv
    /\ StoreIsSnapshot /\ StoreIsSnapshotAtPos
    /\ ConsumerHasStore /\ QueueIsListed /\ AppliedSeen

-----------------------------------------------------------------------------
(* The server's log *)

\* What an entry of the log is.
LEMMA EntryType ==
    ASSUME TypeOK, NEW n \in 1 .. Len(log)
    PROVE  /\ log[n].key \in Keys \cup {Other} /\ log[n].ok \in BOOLEAN
           /\ log[n].objs \in [Keys -> Versions]
<1> DEFINE R == [key : Keys \cup {Other}, ok : BOOLEAN, objs : [Keys -> Versions]]
<1>1. log \in Seq(R)
    BY DEF TypeOK
<1>2. log[n] \in R
    <2> HIDE DEF R
    <2>1. QED
        BY <1>1
<1>3. QED
    BY <1>2

\* A snapshot assigns a version to every key.
LEMMA SnapshotType ==
    ASSUME TypeOK, NEW n \in 0 .. Len(log)
    PROVE  Snapshot(n) \in [Keys -> Versions]
<1>1. 0 \in Versions
    BY WatcherAssumption DEF Versions
<1>2. CASE n = 0
    BY <1>1, <1>2 DEF Snapshot, NoObjects
<1>3. CASE n # 0
    <2>1. n \in 1 .. Len(log)
        BY <1>3 DEF TypeOK
    <2>2. QED
        BY <1>3, <2>1, EntryType DEF Snapshot
<1>4. QED
    BY <1>2, <1>3

\* Once written, a snapshot stays, and the log keeps its entries.
LEMMA AppendKeepsLog ==
    ASSUME TypeOK, NEW key, NEW ok, NEW objs, Append1(key, ok, objs)
    PROVE  /\ Len(log) \in Nat /\ Len(log') = Len(log) + 1
           /\ \A n \in 1 .. Len(log) : log'[n] = log[n]
           /\ log'[Len(log) + 1] = [key |-> key, ok |-> ok, objs |-> objs]
           /\ \A n \in 0 .. Len(log) : Snapshot(n)' = Snapshot(n)
           /\ \A n : n = Len(log) + 1 => Snapshot(n)' = objs
<1>1. /\ Len(log) \in Nat /\ Len(log') = Len(log) + 1
      /\ \A n \in 1 .. Len(log) : log'[n] = log[n]
      /\ log'[Len(log) + 1] = [key |-> key, ok |-> ok, objs |-> objs]
    BY DEF Append1, TypeOK
<1>2. \A n \in 0 .. Len(log) : Snapshot(n)' = Snapshot(n)
    BY <1>1 DEF Snapshot, NoObjects
<1>3. \A n : n = Len(log) + 1 => Snapshot(n)' = objs
    BY <1>1 DEF Snapshot
<1>4. QED
    BY <1>1, <1>2, <1>3

\* A write that changes at most the object of its own key keeps the facts
\* about the log.
LEMMA AppendLogInv ==
    ASSUME TypeOK, LogInv,
           NEW key \in Keys \cup {Other}, NEW ok \in BOOLEAN,
           NEW objs \in [Keys -> Versions],
           Append1(key, ok, objs),
           \A k \in Keys \ {key} : objs[k] = Current[k],
           key \in Keys => objs[key] \in {0, Len(log) + 1}
    PROVE  LogInv'
<1> DEFINE L == Len(log)
<1>1. /\ L \in Nat /\ Len(log') = L + 1
      /\ \A n \in 1 .. L : log'[n] = log[n]
      /\ log'[L + 1] = [key |-> key, ok |-> ok, objs |-> objs]
      /\ \A n \in 0 .. L : Snapshot(n)' = Snapshot(n)
      /\ \A n : n = L + 1 => Snapshot(n)' = objs
    BY AppendKeepsLog
<1>2. \A n \in 0 .. L : Snapshot(n) \in [Keys -> Versions]
    BY SnapshotType
<1>3. Current = Snapshot(L)
    BY DEF Current
<1>4. L \in 0 .. L
    BY <1>1
<1> HIDE DEF L
<1>5. LogStable'
    <2> SUFFICES ASSUME NEW k \in Keys, NEW m \in 0 .. L + 1, NEW n \in 0 .. L + 1,
                        m <= n, \A j \in m + 1 .. n : log'[j].key # k
                 PROVE  Snapshot(m)'[k] = Snapshot(n)'[k]
        BY <1>1 DEF LogStable
    <2>1. CASE n \in 0 .. L
        <3>1. m \in 0 .. L
            BY <1>1, <2>1
        <3>2. \A j \in m + 1 .. n : log[j].key # k
            BY <1>1, <2>1, <3>1
        <3>3. QED
            BY <1>1, <2>1, <3>1, <3>2 DEF LogInv, LogStable, L
    <2>2. CASE n = L + 1 /\ m = L + 1
        BY <2>2
    <2>3. CASE n = L + 1 /\ m \in 0 .. L
        <3>1. key # k
            BY <1>1, <2>3
        <3>2. \A j \in m + 1 .. L : log[j].key # k
            BY <1>1, <2>3
        <3>3. Snapshot(m)[k] = Snapshot(L)[k]
            BY <1>1, <1>4, <2>3, <3>2 DEF LogInv, LogStable, L
        <3>4. QED
            BY <1>1, <1>3, <2>3, <3>1, <3>3
    <2>4. QED
        BY <1>1, <2>1, <2>2, <2>3
<1>6. LogWrites'
    <2> SUFFICES ASSUME NEW n \in 1 .. L + 1, NEW k \in Keys,
                        log'[n].key = k, log'[n].objs[k] # 0
                 PROVE  log'[n].objs[k] = n
        BY <1>1 DEF LogWrites
    <2>1. CASE n \in 1 .. L
        BY <1>1, <2>1 DEF LogInv, LogWrites, L
    <2>2. CASE n = L + 1
        BY <1>1, <2>2 DEF L
    <2>3. QED
        BY <1>1, <2>1, <2>2
<1>7. \A k \in Keys : objs[k] = Snapshot(L)[k] \/ objs[k] \in {0, L + 1}
    BY <1>3 DEF L
<1>8. LogPast'
    <2> SUFFICES ASSUME NEW n \in 0 .. L + 1, NEW k \in Keys
                 PROVE  Snapshot(n)'[k] <= n
        BY <1>1 DEF LogPast
    <2>1. CASE n \in 0 .. L
        BY <1>1, <2>1 DEF LogInv, LogPast, L
    <2>2. CASE n = L + 1
        <3>1. Snapshot(L)[k] <= L /\ Snapshot(L)[k] \in Nat
            BY <1>2, <1>4 DEF LogInv, LogPast, L, Versions
        <3>2. QED
            BY <1>1, <1>7, <2>2, <3>1
    <2>3. QED
        BY <1>1, <2>1, <2>2
<1>9. LogOrder'
    <2> SUFFICES ASSUME NEW k \in Keys, NEW m \in 0 .. L + 1, NEW n \in 0 .. L + 1,
                        m <= n, Snapshot(n)'[k] # 0
                 PROVE  Snapshot(m)'[k] <= Snapshot(n)'[k]
        BY <1>1 DEF LogOrder
    <2>1. CASE n \in 0 .. L
        <3>1. m \in 0 .. L
            BY <1>1, <2>1
        <3>2. QED
            BY <1>1, <2>1, <3>1 DEF LogInv, LogOrder, L
    <2>2. CASE n = L + 1 /\ m = L + 1
        <3>1. objs[k] \in Nat
            BY DEF Versions
        <3>2. QED
            BY <1>1, <2>2, <3>1
    <2>3. CASE n = L + 1 /\ m \in 0 .. L
        <3>1. Snapshot(m)[k] \in Nat /\ Snapshot(m)[k] <= m
            BY <1>2, <2>3 DEF LogInv, LogPast, L, Versions
        <3>2. CASE objs[k] = Snapshot(L)[k]
            <4>1. Snapshot(m)[k] <= Snapshot(L)[k]
                BY <1>1, <1>4, <2>3, <3>2 DEF LogInv, LogOrder, L
            <4>2. QED
                BY <1>1, <2>3, <3>2, <4>1
        <3>3. CASE objs[k] = L + 1
            BY <1>1, <2>3, <3>1, <3>3
        <3>4. CASE objs[k] = 0
            BY <1>1, <2>3, <3>4
        <3>5. QED
            BY <1>7, <3>2, <3>3, <3>4
    <2>4. QED
        BY <1>1, <2>1, <2>2, <2>3
<1>10. QED
    BY <1>5, <1>6, <1>8, <1>9 DEF LogInv

\* A write changes the log and no snapshot the watcher has seen.
LEMMA AppendInv ==
    ASSUME Inv,
           NEW key \in Keys \cup {Other}, NEW ok \in BOOLEAN,
           NEW objs \in [Keys -> Versions],
           Append1(key, ok, objs),
           \A k \in Keys \ {key} : objs[k] = Current[k],
           key \in Keys => objs[key] \in {0, Len(log) + 1}
    PROVE  Inv'
<1>1. /\ Len(log) \in Nat /\ Len(log') = Len(log) + 1
      /\ \A n \in 0 .. Len(log) : Snapshot(n)' = Snapshot(n)
    BY AppendKeepsLog DEF Inv
<1>2. LogInv'
    BY AppendLogInv DEF Inv
<1>3. TypeOK'
    <2>1. log' \in Seq([key : Keys \cup {Other}, ok : BOOLEAN, objs : [Keys -> Versions]])
        BY DEF Inv, TypeOK, Append1
    <2>2. Len(log') <= MaxRV
        BY <1>1, WatcherAssumption DEF Append1
    <2>3. QED
        BY <1>1, <2>1, <2>2 DEF Inv, TypeOK, Append1, consumer
<1>4. rv \in 0 .. Len(log) /\ pos \in 0 .. Len(log)
    BY DEF Inv, TypeOK
<1>5. UNCHANGED <<state, rv, pos, store, queue, applied, missed>>
    BY DEF Append1, consumer
<1>6. Snapshot(rv)' = Snapshot(rv) /\ Snapshot(pos)' = Snapshot(pos)
    BY <1>1, <1>4, <1>5 DEF Snapshot
<1>7. StoreIsSnapshot' /\ StoreIsSnapshotAtPos' /\ ConsumerHasStore' /\ QueueIsListed'
    BY <1>5, <1>6 DEF Inv, StoreIsSnapshot, StoreIsSnapshotAtPos, ConsumerHasStore, QueueIsListed
<1>8. AppliedSeen'
    <2> SUFFICES ASSUME NEW k \in Keys PROVE \E m \in 0 .. rv : applied[k] = Snapshot(m)'[k]
        BY <1>5 DEF AppliedSeen
    <2>1. PICK m \in 0 .. rv : applied[k] = Snapshot(m)[k]
        BY DEF Inv, AppliedSeen
    <2>2. m \in 0 .. Len(log)
        BY <1>1, <1>4
    <2>3. QED
        BY <1>1, <2>1, <2>2
<1>9. QED
    BY <1>2, <1>3, <1>7, <1>8 DEF Inv

\* Every step of the server keeps the invariant.
LEMMA ServerInv == Inv /\ Server => Inv'
<1> SUFFICES ASSUME Inv, Server PROVE Inv'
    OBVIOUS
<1>1. Len(log) \in Nat /\ Current \in [Keys -> Versions]
    BY SnapshotType DEF Current, Inv, TypeOK
<1>2. ASSUME NEW k \in Keys, Put(k) PROVE Inv'
    <2>1. PICK ok \in Decodes : Append1(k, ok, [Current EXCEPT ![k] = Len(log) + 1])
        BY <1>2 DEF Put
    <2>2. Len(log) + 1 \in Versions
        BY <1>1, <2>1, WatcherAssumption DEF Append1, Versions
    <2>3. ok \in BOOLEAN
        BY <2>1, WatcherAssumption
    <2>4. QED
        BY <1>1, <2>1, <2>2, <2>3, AppendInv
<1>3. ASSUME NEW k \in Keys, Delete(k) PROVE Inv'
    <2>1. Append1(k, log[Current[k]].ok, [Current EXCEPT ![k] = 0]) /\ Current[k] # 0
        BY <1>3 DEF Delete
    <2>2. 0 \in Versions
        BY WatcherAssumption DEF Versions
    <2>3. Current[k] \in 1 .. Len(log)
        <3>1. Current[k] <= Len(log)
            BY <1>1 DEF Inv, LogInv, LogPast, Current
        <3>2. Current[k] \in Nat
            BY <1>1 DEF Versions
        <3>3. QED
            BY <1>1, <2>1, <3>1, <3>2
    <2>4. log[Current[k]].ok \in BOOLEAN
        BY <2>3, EntryType DEF Inv
    <2>5. QED
        BY <1>1, <2>1, <2>2, <2>4, AppendInv
<1>4. CASE OtherWrite
    BY <1>1, <1>4, AppendInv, WatcherAssumption DEF OtherWrite
<1>5. CASE Compact
    <2>1. compacted' \in 0 .. Len(log) /\ UNCHANGED <<log, state, rv, pos, mode, store, queue, applied, out, missed>>
        BY <1>1, <1>5 DEF Compact, Inv, TypeOK, consumer
    <2>2. \A n : Snapshot(n)' = Snapshot(n)
        BY <2>1 DEF Snapshot
    <2>3. TypeOK'
        BY <2>1 DEF Inv, TypeOK
    <2>4. LogInv'
        BY <2>1, <2>2 DEF Inv, LogInv, LogStable, LogWrites, LogPast, LogOrder
    <2>5. QED
        BY <2>1, <2>2, <2>3, <2>4
        DEF Inv, StoreIsSnapshot, StoreIsSnapshotAtPos, ConsumerHasStore, QueueIsListed, AppliedSeen
<1>6. QED
    BY <1>2, <1>3, <1>4, <1>5 DEF Server

-----------------------------------------------------------------------------
(* The watcher *)

\* The watcher does not touch the server's state.
LEMMA ServerUnchanged ==
    ASSUME Inv, UNCHANGED server
    PROVE  /\ LogInv' /\ log' = log /\ compacted' = compacted
           /\ \A n : Snapshot(n)' = Snapshot(n)
<1>1. log' = log /\ compacted' = compacted
    BY DEF server
<1>2. \A n : Snapshot(n)' = Snapshot(n)
    BY <1>1 DEF Snapshot
<1>3. QED
    BY <1>1, <1>2 DEF Inv, LogInv, LogStable, LogWrites, LogPast, LogOrder

\* A list replaces the store by the current snapshot.
LEMMA ListOkInv == Inv /\ ListOk => Inv'
<1> SUFFICES ASSUME Inv, ListOk PROVE Inv'
    OBVIOUS
<1>1. LogInv' /\ log' = log /\ compacted' = compacted /\ \A n : Snapshot(n)' = Snapshot(n)
    BY ServerUnchanged DEF ListOk, apply_watcher_event
<1>2. Len(log) \in Nat /\ Len(log) \in 0 .. Len(log)
    BY DEF Inv, TypeOK
<1>3. Current \in [Keys -> Versions] /\ Current = Snapshot(Len(log))
    BY <1>2, SnapshotType DEF Inv, Current
<1>4. TypeOK'
    BY <1>1, <1>2, <1>3 DEF Inv, TypeOK, ListOk, apply_watcher_event
<1>5. StoreIsSnapshot'
    BY <1>1, <1>3 DEF StoreIsSnapshot, ListOk, apply_watcher_event
<1>6. StoreIsSnapshotAtPos' /\ QueueIsListed' /\ ConsumerHasStore'
    BY DEF StoreIsSnapshotAtPos, QueueIsListed, ConsumerHasStore, ListOk, apply_watcher_event
<1>7. AppliedSeen'
    <2> SUFFICES ASSUME NEW k \in Keys
                 PROVE  \E m \in 0 .. Len(log) : applied[k] = Snapshot(m)[k]
        BY <1>1 DEF AppliedSeen, ListOk, apply_watcher_event
    <2>1. PICK m \in 0 .. rv : applied[k] = Snapshot(m)[k]
        BY DEF Inv, AppliedSeen
    <2>2. m \in 0 .. Len(log)
        BY <1>2 DEF Inv, TypeOK
    <2>3. QED
        BY <2>1, <2>2
<1>8. QED
    BY <1>1, <1>4, <1>5, <1>6, <1>7 DEF Inv

\* Steps that keep what was seen: failed requests, errors, ends of streams,
\* and a new connection, which starts again at rv.
LEMMA ConnectionInv ==
    ASSUME Inv,
           \/ ListErr \/ WatchErr \/ RecvGone \/ RecvErr
           \/ \E m \in Modes : WatchStart(m) \/ StreamEnd(m)
    PROVE  Inv'
<1>1. /\ UNCHANGED <<server, rv, store, queue, applied, missed>>
      /\ Polled
    BY DEF ListErr, WatchErr, WatchStart, RecvGone, RecvErr, StreamEnd, consumer
<1>2. LogInv' /\ log' = log /\ compacted' = compacted /\ \A n : Snapshot(n)' = Snapshot(n)
    BY <1>1, ServerUnchanged
<1>3. TypeOK'
    <2>1. CASE ListErr
        BY <1>1, <1>2, <2>1 DEF Inv, TypeOK, ListErr
    <2>2. CASE WatchErr
        BY <1>1, <1>2, <2>2 DEF Inv, TypeOK, WatchErr
    <2>3. CASE RecvGone
        BY <1>1, <1>2, <2>3 DEF Inv, TypeOK, RecvGone, Modes
    <2>4. CASE RecvErr
        BY <1>1, <1>2, <2>4 DEF Inv, TypeOK, RecvErr, Modes
    <2>5. ASSUME NEW m \in Modes, WatchStart(m) PROVE TypeOK'
        <3>1. m # "none"
            BY <2>5, WatcherAssumption DEF WatchStart
        <3>2. QED
            BY <1>1, <1>2, <2>5, <3>1 DEF Inv, TypeOK, WatchStart
    <2>6. ASSUME NEW m \in Modes, StreamEnd(m) PROVE TypeOK'
        BY <1>1, <1>2, <2>6 DEF Inv, TypeOK, StreamEnd, Modes
    <2>7. QED
        BY <2>1, <2>2, <2>3, <2>4, <2>5, <2>6
<1>4. StoreIsSnapshot' /\ ConsumerHasStore' /\ AppliedSeen'
    BY <1>1, <1>2 DEF Inv, StoreIsSnapshot, ConsumerHasStore, AppliedSeen
<1>5. QueueIsListed'
    BY <1>1 DEF QueueIsListed, Polled
<1>6. StoreIsSnapshotAtPos'
    <2>1. \/ state' # "Watching"
          \/ pos' = pos /\ state = "Watching"
          \/ pos' = rv
        BY DEF ListErr, WatchErr, WatchStart, RecvGone, RecvErr, StreamEnd
    <2>2. CASE state' # "Watching"
        BY <2>2 DEF StoreIsSnapshotAtPos
    <2>3. CASE pos' = pos /\ state = "Watching"
        BY <1>1, <1>2, <2>3 DEF Inv, StoreIsSnapshotAtPos
    <2>4. CASE pos' = rv
        <3>1. rv <= rv
            BY DEF Inv, TypeOK
        <3>2. QED
            BY <1>1, <1>2, <2>4, <3>1 DEF Inv, StoreIsSnapshot, StoreIsSnapshotAtPos
    <2>5. QED
        BY <2>1, <2>2, <2>3, <2>4
<1>7. QED
    BY <1>2, <1>3, <1>4, <1>5, <1>6 DEF Inv

\* Over a quiet stretch of the log every key keeps its object.
LEMMA QuietKeeps ==
    ASSUME TypeOK, LogInv, NEW m \in 0 .. Len(log), NEW n \in 0 .. Len(log), m <= n,
           NEW k \in Keys, \A j \in m + 1 .. n : log[j].key # k
    PROVE  Snapshot(m)[k] = Snapshot(n)[k]
BY DEF LogInv, LogStable

\* When write n arrives, only its own key differs between pos and n.
LEMMA ArrivesKeeps ==
    ASSUME Inv, NEW n, Arrives(n), NEW k \in Keys \ {log[n].key}
    PROVE  Snapshot(pos)[k] = Snapshot(n)[k]
<1>1. pos \in 0 .. Len(log) /\ Len(log) \in Nat
    BY DEF Inv, TypeOK
<1>2. n \in pos + 1 .. Len(log) /\ Quiet(pos, n - 1)
    BY DEF Arrives
<1>3. n \in 0 .. Len(log) /\ pos <= n
    BY <1>1, <1>2
<1>4. ASSUME NEW j \in pos + 1 .. n PROVE log[j].key # k
    <2>1. CASE j = n
        BY <2>1
    <2>2. CASE j \in pos + 1 .. n - 1
        BY <1>2, <2>2, WatcherAssumption DEF Quiet
    <2>3. QED
        BY <1>1, <1>2, <2>1, <2>2
<1>5. QED
    BY <1>1, <1>3, <1>4, QuietKeeps DEF Inv

\* An event that deserializes moves store, consumer and both versions to n.
LEMMA RecvInv ==
    ASSUME Inv, NEW n \in Versions, RecvApplied(n) \/ RecvDeleted(n)
    PROVE  Inv'
<1> DEFINE k == log[n].key
           v == log[n].objs[k]
<1>1. /\ Arrives(n) /\ pos' = n /\ rv' = n
      /\ UNCHANGED <<server, state, mode, queue>>
      /\ missed' = missed \ {k}
      /\ v # 0 => applied' = [applied EXCEPT ![k] = n] /\ store' = [store EXCEPT ![k] = n]
      /\ v = 0 => applied' = applied /\ store' = [store EXCEPT ![k] = 0]
      /\ out' \in {out, "ok"}
    BY DEF RecvApplied, RecvDeleted, consumer, apply_watcher_event
<1>2. LogInv' /\ log' = log /\ compacted' = compacted /\ \A m : Snapshot(m)' = Snapshot(m)
    BY <1>1, ServerUnchanged
<1>3. pos \in 0 .. Len(log) /\ Len(log) \in Nat
    BY DEF Inv, TypeOK
<1>4. n \in pos + 1 .. Len(log) /\ queue = {} /\ state = "Watching" /\ k # Other
    BY <1>1 DEF Arrives, Polled
<1>5. n \in 1 .. Len(log) /\ n \in 0 .. Len(log) /\ n \in Nat /\ n \in 0 .. n
    BY <1>3, <1>4
<1>6. k \in Keys
    BY <1>4, <1>5, EntryType DEF Inv
<1>7. Snapshot(n) = log[n].objs /\ Snapshot(n)[k] = v
    BY <1>5 DEF Snapshot
<1>8. v # 0 => v = n
    BY <1>5, <1>6 DEF Inv, LogInv, LogWrites
<1>9. \A j \in Keys \ {k} : Snapshot(pos)[j] = Snapshot(n)[j]
    BY <1>1, ArrivesKeeps
<1>10. 0 \in Versions /\ store \in [Keys -> Versions] /\ applied \in [Keys -> Versions]
    BY WatcherAssumption DEF Versions, Inv, TypeOK
<1> HIDE DEF k, v
<1>11. store' \in [Keys -> Versions] /\ store'[k] = v /\ \A j \in Keys \ {k} : store'[j] = store[j]
    BY <1>1, <1>6, <1>8, <1>10
<1>12. applied' \in [Keys -> Versions] /\ (v # 0 => applied'[k] = v)
       /\ \A j \in Keys : applied'[j] = applied[j] \/ (j = k /\ v # 0)
    BY <1>1, <1>6, <1>8, <1>10
<1>13. \A j \in Keys \ {k} : applied'[j] = applied[j]
    BY <1>12
<1>14. TypeOK'
    BY <1>1, <1>2, <1>5, <1>11, <1>12 DEF Inv, TypeOK
<1>15. \A j \in Keys \ missed' : store'[j] = Snapshot(n)[j]
    <2> SUFFICES ASSUME NEW j \in Keys \ missed' PROVE store'[j] = Snapshot(n)[j]
        OBVIOUS
    <2>1. CASE j = k
        BY <1>7, <1>11, <2>1
    <2>2. CASE j # k
        <3>1. j \in Keys \ missed
            BY <1>1, <2>2
        <3>2. store[j] = Snapshot(pos)[j]
            BY <1>4, <3>1 DEF Inv, StoreIsSnapshotAtPos
        <3>3. QED
            BY <1>9, <1>11, <2>2, <3>2
    <2>3. QED
        BY <2>1, <2>2
<1>16. StoreIsSnapshot' /\ StoreIsSnapshotAtPos'
    BY <1>1, <1>2, <1>5, <1>15 DEF StoreIsSnapshot, StoreIsSnapshotAtPos
<1>17. ConsumerHasStore'
    <2> SUFFICES ASSUME NEW j \in Keys \ missed', store'[j] # 0
                 PROVE  applied'[j] = store'[j]
        BY DEF ConsumerHasStore
    <2>1. CASE j = k
        BY <1>11, <1>12, <2>1
    <2>2. CASE j # k
        <3>1. j \in Keys \ missed
            BY <1>1, <2>2
        <3>2. QED
            BY <1>4, <1>11, <1>13, <2>2, <3>1 DEF Inv, ConsumerHasStore
    <2>3. QED
        BY <2>1, <2>2
<1>18. QueueIsListed'
    BY <1>1, <1>4 DEF QueueIsListed
<1>19. AppliedSeen'
    <2> SUFFICES ASSUME NEW j \in Keys PROVE \E m \in 0 .. n : applied'[j] = Snapshot(m)[j]
        BY <1>1, <1>2 DEF AppliedSeen
    <2>1. CASE j = k /\ v # 0
        BY <1>5, <1>7, <1>12, <2>1
    <2>2. CASE applied'[j] = applied[j]
        <3>1. PICK m \in 0 .. rv : applied[j] = Snapshot(m)[j]
            BY DEF Inv, AppliedSeen
        <3>2. m \in 0 .. n
            BY <1>3, <1>4 DEF Inv, StoreIsSnapshotAtPos, TypeOK
        <3>3. QED
            BY <2>2, <3>1, <3>2
    <2>3. QED
        BY <1>12, <2>1, <2>2
<1>20. QED
    BY <1>2, <1>14, <1>16, <1>17, <1>18, <1>19 DEF Inv

\* An event that does not deserialize puts its key among the missed ones.
LEMMA RecvUndecodableInv ==
    ASSUME Inv, NEW n \in Versions, RecvUndecodable(n)
    PROVE  Inv'
<1> DEFINE k == log[n].key
<1>1. /\ Arrives(n) /\ pos' = n /\ missed' = missed \cup {k} /\ out' = "err"
      /\ UNCHANGED <<server, state, rv, mode, store, queue, applied>>
    BY DEF RecvUndecodable, consumer
<1>2. LogInv' /\ log' = log /\ compacted' = compacted /\ \A m : Snapshot(m)' = Snapshot(m)
    BY <1>1, ServerUnchanged
<1>3. pos \in 0 .. Len(log) /\ Len(log) \in Nat /\ rv \in 0 .. Len(log)
    BY DEF Inv, TypeOK
<1>4. n \in pos + 1 .. Len(log) /\ queue = {} /\ state = "Watching" /\ k # Other
    BY <1>1 DEF Arrives, Polled
<1>5. n \in 1 .. Len(log) /\ n \in 0 .. Len(log)
    BY <1>3, <1>4
<1>6. k \in Keys
    BY <1>4, <1>5, EntryType DEF Inv
<1>7. \A j \in Keys \ {k} : Snapshot(pos)[j] = Snapshot(n)[j]
    BY <1>1, ArrivesKeeps
<1> HIDE DEF k
<1>8. TypeOK'
    BY <1>1, <1>2, <1>5, <1>6 DEF Inv, TypeOK
<1>9. StoreIsSnapshot' /\ ConsumerHasStore' /\ AppliedSeen'
    BY <1>1, <1>2 DEF Inv, StoreIsSnapshot, ConsumerHasStore, AppliedSeen
<1>10. QueueIsListed'
    BY <1>1, <1>4 DEF QueueIsListed
<1>11. StoreIsSnapshotAtPos'
    <2>1. rv <= n
        BY <1>3, <1>4 DEF Inv, StoreIsSnapshotAtPos
    <2>2. ASSUME NEW j \in Keys \ missed' PROVE store[j] = Snapshot(n)[j]
        BY <1>1, <1>4, <1>7 DEF Inv, StoreIsSnapshotAtPos
    <2>3. QED
        BY <1>1, <1>2, <2>1, <2>2 DEF StoreIsSnapshotAtPos
<1>12. QED
    BY <1>2, <1>8, <1>9, <1>10, <1>11 DEF Inv

\* A bookmark moves both versions over a quiet stretch.
LEMMA RecvBookmarkInv ==
    ASSUME Inv, NEW n \in Versions, RecvBookmark(n)
    PROVE  Inv'
<1>1. /\ pos' = n /\ rv' = n /\ queue = {} /\ state = "Watching"
      /\ n \in pos .. Len(log) /\ Quiet(pos, n)
      /\ UNCHANGED <<server, state, mode, store, queue, applied, out, missed>>
    BY DEF RecvBookmark, Polled, consumer
<1>2. LogInv' /\ log' = log /\ compacted' = compacted /\ \A m : Snapshot(m)' = Snapshot(m)
    BY <1>1, ServerUnchanged
<1>3. pos \in 0 .. Len(log) /\ Len(log) \in Nat /\ rv \in 0 .. Len(log)
    BY DEF Inv, TypeOK
<1>4. n \in 0 .. Len(log) /\ pos <= n /\ n \in Nat
    BY <1>1, <1>3
<1>5. \A j \in Keys : Snapshot(pos)[j] = Snapshot(n)[j]
    <2> SUFFICES ASSUME NEW j \in Keys PROVE Snapshot(pos)[j] = Snapshot(n)[j]
        OBVIOUS
    <2>1. \A i \in pos + 1 .. n : log[i].key # j
        BY <1>1, WatcherAssumption DEF Quiet
    <2>2. QED
        BY <1>3, <1>4, <2>1, QuietKeeps DEF Inv
<1>6. TypeOK'
    BY <1>1, <1>2, <1>4 DEF Inv, TypeOK
<1>7. \A j \in Keys \ missed : store[j] = Snapshot(n)[j]
    BY <1>1, <1>5 DEF Inv, StoreIsSnapshotAtPos
<1>8. StoreIsSnapshot' /\ StoreIsSnapshotAtPos'
    BY <1>1, <1>2, <1>4, <1>7 DEF StoreIsSnapshot, StoreIsSnapshotAtPos
<1>9. ConsumerHasStore' /\ QueueIsListed'
    BY <1>1 DEF Inv, ConsumerHasStore, QueueIsListed
<1>10. AppliedSeen'
    <2> SUFFICES ASSUME NEW j \in Keys PROVE \E m \in 0 .. n : applied[j] = Snapshot(m)[j]
        BY <1>1, <1>2 DEF AppliedSeen
    <2>1. PICK m \in 0 .. rv : applied[j] = Snapshot(m)[j]
        BY DEF Inv, AppliedSeen
    <2>2. m \in 0 .. n
        BY <1>1, <1>3, <1>4 DEF Inv, StoreIsSnapshotAtPos
    <2>3. QED
        BY <2>1, <2>2
<1>11. QED
    BY <1>2, <1>6, <1>8, <1>9, <1>10 DEF Inv

\* EventFlatten hands on one object of the list.
LEMMA PopInv ==
    ASSUME Inv, NEW k \in Keys, Pop(k)
    PROVE  Inv'
<1>1. /\ k \in queue /\ queue' = queue \ {k}
      /\ applied' = [applied EXCEPT ![k] = store[k]] /\ out' = "ok"
      /\ UNCHANGED <<server, state, rv, pos, mode, store, missed>>
    BY DEF Pop
<1>2. LogInv' /\ log' = log /\ compacted' = compacted /\ \A m : Snapshot(m)' = Snapshot(m)
    BY <1>1, ServerUnchanged
<1>3. state = "InitListed" /\ missed = {}
    BY <1>1 DEF Inv, QueueIsListed
<1>4. store \in [Keys -> Versions] /\ applied \in [Keys -> Versions]
    BY DEF Inv, TypeOK
<1>5. applied' \in [Keys -> Versions] /\ applied'[k] = store[k] /\ \A j \in Keys \ {k} : applied'[j] = applied[j]
    BY <1>1, <1>4
<1>6. TypeOK'
    BY <1>1, <1>2, <1>5 DEF Inv, TypeOK
<1>7. StoreIsSnapshot' /\ StoreIsSnapshotAtPos'
    BY <1>1, <1>2 DEF Inv, StoreIsSnapshot, StoreIsSnapshotAtPos
<1>8. ConsumerHasStore'
    BY <1>1, <1>5 DEF Inv, ConsumerHasStore
<1>9. QueueIsListed'
    BY <1>1, <1>3 DEF Inv, QueueIsListed
<1>10. AppliedSeen'
    <2> SUFFICES ASSUME NEW j \in Keys PROVE \E m \in 0 .. rv : applied'[j] = Snapshot(m)[j]
        BY <1>1, <1>2 DEF AppliedSeen
    <2>1. CASE j = k
        <3>1. store[k] = Snapshot(rv)[k]
            BY <1>3 DEF Inv, StoreIsSnapshot
        <3>2. rv \in 0 .. rv
            BY DEF Inv, TypeOK
        <3>3. QED
            BY <1>5, <2>1, <3>1, <3>2
    <2>2. CASE j # k
        BY <1>5, <2>2 DEF Inv, AppliedSeen
    <2>3. QED
        BY <2>1, <2>2
<1>11. QED
    BY <1>2, <1>6, <1>7, <1>8, <1>9, <1>10 DEF Inv

-----------------------------------------------------------------------------
(* The theorems *)

\* The watcher starts with an empty log, store and queue.
LEMMA InitInv == Init => Inv
<1> SUFFICES ASSUME Init PROVE Inv
    OBVIOUS
<1>1. Len(log) = 0 /\ 0 \in Versions
    BY WatcherAssumption DEF Init, Versions
<1>2. NoObjects \in [Keys -> Versions]
    BY <1>1 DEF NoObjects
<1>3. TypeOK
    BY <1>1, <1>2, WatcherAssumption DEF Init, TypeOK, Modes
<1>4. Snapshot(0) = NoObjects /\ \A k \in Keys : NoObjects[k] = 0
    BY DEF Snapshot, NoObjects
<1>5. LogInv
    BY <1>1, <1>4 DEF LogInv, LogStable, LogWrites, LogPast, LogOrder
<1>6. QED
    BY <1>3, <1>4, <1>5
    DEF Inv, Init, StoreIsSnapshot, StoreIsSnapshotAtPos, ConsumerHasStore, QueueIsListed, AppliedSeen

\* Each kind of step keeps the invariant.
LEMMA NextInv == Inv /\ [Next]_vars => Inv'
<1> SUFFICES ASSUME Inv, [Next]_vars PROVE Inv'
    OBVIOUS
<1>1. CASE Server
    BY <1>1, ServerInv
<1>2. CASE Watcher
    <2>1. "open" \in Modes /\ "broken" \in Modes
        BY DEF Modes
    <2>2. QED
        BY <1>2, <2>1, ListOkInv, ConnectionInv, RecvInv, RecvUndecodableInv, RecvBookmarkInv
        DEF Watcher
<1>3. CASE \E k \in Keys : Pop(k)
    BY <1>3, PopInv
<1>4. CASE UNCHANGED vars
    <2>1. UNCHANGED <<log, compacted, state, rv, pos, mode, store, queue, applied, out, missed>>
        BY <1>4 DEF vars, server, consumer
    <2>2. LogInv' /\ \A n : Snapshot(n)' = Snapshot(n)
        BY <2>1, ServerUnchanged DEF server
    <2>3. TypeOK'
        BY <2>1 DEF Inv, TypeOK
    <2>4. QED
        BY <2>1, <2>2, <2>3
        DEF Inv, StoreIsSnapshot, StoreIsSnapshotAtPos, ConsumerHasStore, QueueIsListed, AppliedSeen
<1>5. QED
    BY <1>1, <1>2, <1>3, <1>4 DEF Next

\* Inv holds in every reachable state.
LEMMA InvHolds == Spec => []Inv
BY InitInv, NextInv, PTL DEF Spec

\* The watcher's connection, versions and queue are always consistent.
THEOREM TypeCorrect == Spec => []TypeOK
BY InvHolds, PTL DEF Inv

\* The reflector's store is the collection as of version rv, off the keys
\* whose last event did not deserialize.
THEOREM StoreCorrect == Spec => []StoreIsSnapshot
BY InvHolds, PTL DEF Inv

\* The consumer of applied_objects() has, or is about to get, the state at
\* version rv of every object that exists there.
THEOREM ConsumerCorrect == Spec => []ConsumerIsCurrent
<1>1. Inv => ConsumerIsCurrent
    BY DEF Inv, StoreIsSnapshot, ConsumerHasStore, ConsumerIsCurrent
<1>2. QED
    BY <1>1, InvHolds, PTL

\* No step hands the consumer an older state of an object than it has.
THEOREM ConsumerMonotone == Spec => ConsumerNeverGoesBack
<1>1. ASSUME Inv, [Next]_vars, NEW k \in Keys PROVE applied'[k] >= applied[k]
    <2>1. applied \in [Keys -> Versions] /\ applied[k] \in Nat /\ Len(log) \in Nat
          /\ rv \in 0 .. Len(log) /\ store \in [Keys -> Versions]
        BY <1>1 DEF Inv, TypeOK, Versions
    <2>2. PICK m \in 0 .. rv : applied[k] = Snapshot(m)[k]
        BY <1>1 DEF Inv, AppliedSeen
    <2>3. m \in 0 .. Len(log) /\ m \in Nat
        BY <2>1, <2>2
    <2>4. applied[k] <= m
        BY <1>1, <2>2, <2>3 DEF Inv, LogInv, LogPast
    <2>5. CASE applied' = applied
        BY <2>1, <2>5
    <2>6. ASSUME NEW n \in Versions, RecvApplied(n) PROVE applied'[k] >= applied[k]
        <3>1. Arrives(n) /\ applied' = [applied EXCEPT ![log[n].key] = n]
            BY <2>6 DEF RecvApplied, apply_watcher_event
        <3>2. n \in pos + 1 .. Len(log) /\ state = "Watching"
            BY <3>1 DEF Arrives
        <3>3. pos \in Nat /\ rv <= pos
            BY <1>1, <3>2 DEF Inv, TypeOK, StoreIsSnapshotAtPos
        <3>4. n \in Nat /\ m <= n
            BY <2>1, <2>2, <2>3, <3>2, <3>3
        <3>5. applied[k] <= n
            BY <2>1, <2>3, <2>4, <3>4
        <3>6. applied'[k] = applied[k] \/ applied'[k] = n
            BY <2>1, <3>1
        <3>7. QED
            BY <2>1, <3>4, <3>5, <3>6
    <2>7. ASSUME NEW j \in Keys, Pop(j) PROVE applied'[k] >= applied[k]
        <3>1. applied' = [applied EXCEPT ![j] = store[j]] /\ j \in queue
            BY <2>7 DEF Pop
        <3>2. CASE j # k
            BY <2>1, <3>1, <3>2
        <3>3. CASE j = k
            <4>1. store[k] # 0 /\ store[k] = Snapshot(rv)[k]
                BY <1>1, <3>1, <3>3 DEF Inv, QueueIsListed, StoreIsSnapshot
            <4>2. Snapshot(m)[k] <= Snapshot(rv)[k]
                BY <1>1, <2>1, <2>2, <2>3, <4>1 DEF Inv, LogInv, LogOrder
            <4>3. applied'[k] = store[k] /\ store[k] \in Nat
                BY <2>1, <3>1, <3>3 DEF Versions
            <4>4. QED
                BY <2>1, <2>2, <4>1, <4>2, <4>3
        <3>4. QED
            BY <3>2, <3>3
    <2>8. \/ applied' = applied
          \/ \E n \in Versions : RecvApplied(n)
          \/ \E j \in Keys : Pop(j)
        BY <1>1
        DEF Next, Server, Watcher, Put, Delete, OtherWrite, Append1, Compact, ListOk, ListErr,
            WatchStart, WatchErr, RecvDeleted, RecvUndecodable, RecvBookmark, RecvGone, RecvErr,
            StreamEnd, vars, consumer
    <2>9. QED
        BY <2>5, <2>6, <2>7, <2>8
<1>2. Inv /\ [Next]_vars => [\A k \in Keys : applied'[k] >= applied[k]]_vars
    BY <1>1
<1>3. QED
    BY <1>2, InvHolds, PTL DEF Spec, ConsumerNeverGoesBack

-----------------------------------------------------------------------------
(* The refinement *)

\* The mirror sees the same collection at every version.
LEMMA MirrorAt ==
    ASSUME TypeOK, NEW n \in 0 .. Len(log)
    PROVE  Mirror!At(n) = Snapshot(n)
<1>1. Len(log) \in Nat
    BY DEF TypeOK
<1>2. CASE n = 0
    BY <1>2 DEF Mirror!At, Mirror!Empty, Snapshot, NoObjects
<1>3. CASE n # 0
    <2>1. n \in 1 .. Len(log)
        BY <1>1, <1>3
    <2>2. QED
        BY <1>3, <2>1 DEF Mirror!At, Snapshot
<1>4. QED
    BY <1>2, <1>3

\* A write is a change of the collection.
LEMMA AppendIsChange ==
    ASSUME TypeOK, NEW key, NEW ok, NEW objs \in [Keys -> Versions], Append1(key, ok, objs)
    PROVE  Mirror!Change
<1> DEFINE H == [i \in 1 .. Len(log) |-> log[i].objs]
           G == [i \in 1 .. Len(log') |-> log'[i].objs]
<1>1. /\ Len(log) \in Nat /\ Len(log') = Len(log) + 1
      /\ \A n \in 1 .. Len(log) : log'[n] = log[n]
      /\ log'[Len(log) + 1] = [key |-> key, ok |-> ok, objs |-> objs]
    BY AppendKeepsLog
<1>2. \A i \in 1 .. Len(log) : log[i].objs \in [Keys -> Versions]
    BY EntryType
<1>3. H \in Seq([Keys -> Versions]) /\ Len(H) = Len(log)
    BY <1>1, <1>2
<1>4. G = Append(H, objs)
    <2>1. Append(H, objs) = [i \in 1 .. Len(H) + 1 |-> IF i = Len(H) + 1 THEN objs ELSE H[i]]
        BY <1>3
    <2>2. \A i \in 1 .. Len(log) + 1 : G[i] = IF i = Len(log) + 1 THEN objs ELSE H[i]
        BY <1>1
    <2>3. QED
        BY <1>1, <1>3, <2>1, <2>2
<1>5. UNCHANGED <<rv, store, missed, queue, applied>>
    BY DEF Append1, consumer
<1>6. QED
    BY <1>4, <1>5 DEF Mirror!Change

\* What a poll of the watcher does to the mirror, for the three kinds of steps
\* that move it: now are the keys handed on at once.
LEMMA MovesAreSync ==
    ASSUME Inv, Inv', UNCHANGED server, queue = {},
           rv' \in rv .. Len(log), missed' \subseteq missed,
           \A k \in missed' : store'[k] = store[k],
           NEW now \in SUBSET Keys,
           \A k \in now : applied'[k] = store'[k] /\ store'[k] # 0,
           \A k \in Keys \ now : applied'[k] = applied[k],
           \A k \in queue' : store'[k] # 0,
           \A k \in Keys : store'[k] \notin {store[k], 0} => k \in now \cup queue'
    PROVE  Mirror!Sync
<1>1. log' = log
    BY DEF server
<1>2. TypeOK /\ TypeOK' /\ StoreIsSnapshot'
    BY DEF Inv
<1>3. /\ store' \in [Keys -> Versions] /\ applied' \in [Keys -> Versions]
      /\ missed \subseteq Keys /\ queue' \subseteq Keys
      /\ Len(log) \in Nat /\ rv \in 0 .. Len(log)
    BY <1>2 DEF TypeOK
<1>4. Mirror!At(rv') = Snapshot(rv')
    <2>1. rv' \in 0 .. Len(log)
        BY <1>3
    <2>2. QED
        BY <1>2, <2>1, MirrorAt
<1>5. Snapshot(rv)' = Snapshot(rv')
    BY <1>1 DEF Snapshot
<1>6. store' = [k \in Keys |-> IF k \in missed' THEN store[k] ELSE Mirror!At(rv')[k]]
    BY <1>2, <1>3, <1>4, <1>5 DEF StoreIsSnapshot
<1>7. applied' = [k \in Keys |-> IF k \in now THEN store'[k] ELSE applied[k]]
    BY <1>3
<1>8. [i \in 1 .. Len(log') |-> log'[i].objs] = [i \in 1 .. Len(log) |-> log[i].objs]
    BY <1>1
<1>9. Len([i \in 1 .. Len(log) |-> log[i].objs]) = Len(log)
    BY <1>3
<1>10. /\ rv' \in rv .. Len([i \in 1 .. Len(log) |-> log[i].objs])
       /\ missed' \in SUBSET missed /\ queue' \in SUBSET Keys
       /\ \A k \in now \cup queue' : store'[k] # 0
    BY <1>3, <1>9
<1>11. QED
    BY <1>6, <1>7, <1>8, <1>10, Zenon DEF Mirror!Sync

\* Steps of the server.
LEMMA ServerIsMirror == ASSUME Inv, Server PROVE [Mirror!Next]_(Mirror!vars)
<1>1. Len(log) \in Nat /\ Current \in [Keys -> Versions] /\ TypeOK
    BY SnapshotType DEF Current, Inv, TypeOK
<1>2. ASSUME NEW k \in Keys, Put(k) PROVE Mirror!Change
    <2>1. PICK ok \in Decodes : Append1(k, ok, [Current EXCEPT ![k] = Len(log) + 1])
        BY <1>2 DEF Put
    <2>2. Len(log) + 1 \in Versions
        BY <1>1, <2>1, WatcherAssumption DEF Append1, Versions
    <2>3. QED
        BY <1>1, <2>1, <2>2, AppendIsChange
<1>3. ASSUME NEW k \in Keys, Delete(k) PROVE Mirror!Change
    <2>1. 0 \in Versions
        BY WatcherAssumption DEF Versions
    <2>2. QED
        BY <1>1, <1>3, <2>1, AppendIsChange DEF Delete
<1>4. CASE OtherWrite
    BY <1>1, <1>4, AppendIsChange DEF OtherWrite, Mirror!Next
<1>5. CASE Compact
    BY <1>5 DEF Compact, Mirror!vars, consumer
<1>6. QED
    BY <1>2, <1>3, <1>4, <1>5 DEF Server, Mirror!Next

\* Polls that move the watcher to another version.
LEMMA MovesAreMirror ==
    ASSUME Inv, Inv',
           \/ ListOk
           \/ \E n \in Versions : RecvApplied(n) \/ RecvDeleted(n) \/ RecvBookmark(n)
    PROVE  Mirror!Sync
<1>1. /\ Len(log) \in Nat /\ rv \in 0 .. Len(log) /\ pos \in 0 .. Len(log)
      /\ store \in [Keys -> Versions] /\ applied \in [Keys -> Versions]
      /\ queue' \subseteq Keys
      /\ state = "Watching" => rv <= pos
    BY DEF Inv, TypeOK, StoreIsSnapshotAtPos
<1>2. CASE ListOk
    <2>1. /\ UNCHANGED server /\ queue = {} /\ rv' = Len(log) /\ missed' = {}
          /\ applied' = applied /\ store' = Current /\ queue' = {k \in Keys : Current[k] # 0}
        BY <1>2 DEF ListOk, Polled, apply_watcher_event
    <2>2. rv' \in rv .. Len(log)
        BY <1>1, <2>1
    <2>3. {} \in SUBSET Keys
        OBVIOUS
    <2>4. QED
        BY <2>1, <2>2, <2>3, MovesAreSync
<1>3. ASSUME NEW n \in Versions, RecvApplied(n) PROVE Mirror!Sync
    <2> DEFINE k == log[n].key
    <2>1. /\ Arrives(n) /\ UNCHANGED server /\ rv' = n /\ missed' = missed \ {k} /\ queue' = queue
          /\ store' = [store EXCEPT ![k] = n] /\ applied' = [applied EXCEPT ![k] = n]
        BY <1>3 DEF RecvApplied, apply_watcher_event
    <2>2. queue = {} /\ n \in pos + 1 .. Len(log) /\ k # Other /\ state = "Watching"
        BY <2>1 DEF Arrives, Polled
    <2>3. n \in 1 .. Len(log) /\ n \in rv .. Len(log) /\ n # 0
        BY <1>1, <2>2
    <2>4. k \in Keys /\ {k} \in SUBSET Keys
        BY <2>2, <2>3, EntryType DEF Inv
    <2> HIDE DEF k
    <2>5. \A j \in {k} : applied'[j] = store'[j] /\ store'[j] # 0
        BY <1>1, <2>1, <2>3, <2>4
    <2>6. \A j \in Keys \ {k} : applied'[j] = applied[j] /\ store'[j] = store[j]
        BY <1>1, <2>1
    <2>7. missed' \subseteq Keys \ {k}
        BY <2>1 DEF Inv, TypeOK
    <2>8. QED
        BY <2>1, <2>2, <2>3, <2>4, <2>5, <2>6, <2>7, MovesAreSync
<1>4. ASSUME NEW n \in Versions, RecvDeleted(n) PROVE Mirror!Sync
    <2> DEFINE k == log[n].key
    <2>1. /\ Arrives(n) /\ UNCHANGED server /\ rv' = n /\ missed' = missed \ {k}
          /\ store' = [store EXCEPT ![k] = 0] /\ applied' = applied /\ queue' = queue
        BY <1>4 DEF RecvDeleted, apply_watcher_event, consumer
    <2>2. queue = {} /\ n \in pos + 1 .. Len(log) /\ state = "Watching"
        BY <2>1 DEF Arrives, Polled
    <2>3. n \in rv .. Len(log)
        BY <1>1, <2>2
    <2>4. \A j \in Keys : store'[j] \in {store[j], 0} /\ (j # k => store'[j] = store[j])
        BY <1>1, <2>1
    <2>5. {} \in SUBSET Keys /\ missed' \subseteq Keys \ {k}
        BY <2>1 DEF Inv, TypeOK
    <2> HIDE DEF k
    <2>6. QED
        BY <2>1, <2>2, <2>3, <2>4, <2>5, MovesAreSync
<1>5. ASSUME NEW n \in Versions, RecvBookmark(n) PROVE Mirror!Sync
    <2>1. /\ UNCHANGED <<server, store, queue, applied, missed>> /\ queue = {} /\ rv' = n
          /\ n \in pos .. Len(log) /\ state = "Watching"
        BY <1>5 DEF RecvBookmark, Polled, consumer
    <2>2. n \in rv .. Len(log) /\ {} \in SUBSET Keys
        BY <1>1, <2>1
    <2>3. QED
        BY <2>1, <2>2, MovesAreSync
<1>6. QED
    BY <1>2, <1>3, <1>4, <1>5

\* The watcher, the reflector's store and applied_objects() implement the
\* mirror that ObjectMirror promises, for any number of objects and writes.
THEOREM MirrorImplemented == Spec => ImplementsMirror
<1>1. Init => Mirror!Init
    BY DEF Init, Mirror!Init, Mirror!Empty, NoObjects
<1>2. Inv /\ Inv' /\ [Next]_vars => [Mirror!Next]_(Mirror!vars)
    <2> SUFFICES ASSUME Inv, Inv', [Next]_vars PROVE [Mirror!Next]_(Mirror!vars)
        OBVIOUS
    <2>1. CASE Server
        BY <2>1, ServerIsMirror
    <2>2. ASSUME \/ ListErr \/ WatchErr \/ RecvGone \/ RecvErr
                 \/ \E m \in Modes : WatchStart(m) \/ StreamEnd(m)
          PROVE  UNCHANGED Mirror!vars
        BY <2>2 DEF ListErr, WatchErr, RecvGone, RecvErr, WatchStart, StreamEnd,
                    server, consumer, Mirror!vars
    <2>3. ASSUME \/ ListOk
                 \/ \E n \in Versions : RecvApplied(n) \/ RecvDeleted(n) \/ RecvBookmark(n)
          PROVE  Mirror!Sync
        BY <2>3, MovesAreMirror
    <2>4. ASSUME NEW n \in Versions, RecvUndecodable(n) PROVE \E k \in Keys : Mirror!Lose(k)
        <3>1. Arrives(n)
            BY <2>4 DEF RecvUndecodable
        <3>2. n \in 1 .. Len(log) /\ log[n].key # Other
            BY <3>1 DEF Arrives, Inv, TypeOK
        <3>3. log[n].key \in Keys
            BY <3>2, EntryType DEF Inv
        <3>4. Mirror!Lose(log[n].key)
            BY <2>4 DEF RecvUndecodable, Mirror!Lose, server, consumer
        <3>5. QED
            BY <3>3, <3>4
    <2>5. ASSUME NEW k \in Keys, Pop(k) PROVE Mirror!Hand(k)
        BY <2>5 DEF Pop, Mirror!Hand, server
    <2>6. CASE UNCHANGED vars
        BY <2>6 DEF vars, server, consumer, Mirror!vars
    <2>7. "open" \in Modes /\ "broken" \in Modes
        BY DEF Modes
    <2>8. QED
        BY <2>1, <2>2, <2>3, <2>4, <2>5, <2>6, <2>7 DEF Next, Watcher, Mirror!Next
<1>3. QED
    BY <1>1, <1>2, InvHolds, PTL DEF Spec, ImplementsMirror, Mirror!Spec

=============================================================================

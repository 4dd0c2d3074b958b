---------------------------- MODULE KubeWatcher ----------------------------
(***************************************************************************)
(* How a client of the Kubernetes API follows a collection of objects: the *)
(* state machine of kube-runtime's watcher, with a reflector's store and   *)
(* the applied_objects() flattening chained behind it, against a server    *)
(* that keeps a log of writes, compacts it, and breaks connections.        *)
(*                                                                         *)
(* The server is external: it is modelled from the requests watcher.rs and *)
(* request_events make and from the replies they tell apart.               *)
(*                                                                         *)
(* An object is identified with the resource version at which it was       *)
(* written: 0 stands for "no object".                                      *)
(***************************************************************************)
EXTENDS Naturals, Sequences

CONSTANTS
    Keys,       \* the names of the watched objects
    Other,      \* stands for any object outside the watched collection
    Decodes,    \* may a written object deserialize as K: a subset of BOOLEAN
    GoneForms,  \* how an expired version is rejected: a subset of
                \* {"gone" (an ERROR event, code 410), "refused" (HTTP status)}
    MaxRV       \* bound on the number of writes

ASSUME WatcherAssumption ==
    /\ Other \notin Keys
    /\ Decodes \subseteq BOOLEAN /\ Decodes # {}
    /\ GoneForms \subseteq {"gone", "refused"} /\ GoneForms # {}
    /\ MaxRV \in Nat

VARIABLES
    log,        \* server: write n is log[n]
    compacted,  \* server: a watch may start at this version or later
    state,      \* watcher: variant of State
    rv,         \* watcher: resource_version of InitListed and Watching
    pos,        \* connection: last write the server has told of
    mode,       \* connection: what it will yield next, see Modes
    store,      \* reflector: key -> object
    queue,      \* EventFlatten: objects of the last Restarted not yet emitted
    applied,    \* consumer: the last object it was handed for each key
    out,        \* result of the last poll that returned: "ok" or "err"
    missed      \* ghost: keys whose last event on this connection was dropped

server   == <<log, compacted>>
consumer == <<queue, applied>>
vars     == <<server, state, rv, pos, mode, store, consumer, out, missed>>

\* "open": events follow; "gone": an ERROR event with code 410 follows;
\* "refused": the body of an HTTP error follows; "broken": nothing follows.
Modes == {"none", "open", "gone", "refused", "broken"}

Versions == 0 .. MaxRV
NoObjects == [k \in Keys |-> 0]

\* The collection after the first n writes.
Snapshot(n) == IF n = 0 THEN NoObjects ELSE log[n].objs
Current == Snapshot(Len(log))

\* A deserialization error is about the object an event or a list carries.
Decodable(objs) == \A k \in Keys : objs[k] # 0 => log[objs[k]].ok

Init ==
    /\ log = <<>> /\ compacted = 0
    /\ state = "Empty" /\ rv = 0
    /\ pos = 0 /\ mode = "none"
    /\ store = NoObjects
    /\ queue = {} /\ applied = NoObjects
    /\ out = "ok" /\ missed = {}

-----------------------------------------------------------------------------
(* The server *)

Append1(key, ok, objs) ==
    /\ Len(log) < MaxRV
    /\ log' = Append(log, [key |-> key, ok |-> ok, objs |-> objs])
    /\ UNCHANGED <<compacted, state, rv, pos, mode, store, consumer, out, missed>>

\* An object is created or modified.
Put(k) ==
    \E ok \in Decodes : Append1(k, ok, [Current EXCEPT ![k] = Len(log) + 1])

\* An object is deleted: the event carries its last state.
Delete(k) ==
    /\ Current[k] # 0
    /\ Append1(k, log[Current[k]].ok, [Current EXCEPT ![k] = 0])

\* A write outside the collection takes a version and sends no event.
OtherWrite == Append1(Other, TRUE, Current)

Compact ==
    /\ \E n \in compacted + 1 .. Len(log) : compacted' = n
    /\ UNCHANGED <<log, state, rv, pos, mode, store, consumer, out, missed>>

-----------------------------------------------------------------------------
(* step_trampolined.  EventFlatten polls the watcher only when its queue is *)
(* empty; the reflector's inspect_ok applies an event as it goes by.        *)

PolledAlways == TRUE

Polled == queue = {}

\* Writer::apply_watcher_event: Restarted replaces the whole store under its
\* lock, Applied and Deleted one entry.
apply_watcher_event(objs) == store' = objs

ListOkFromCache ==
    /\ Polled /\ state = "Empty"
    /\ \E n \in 0 .. Len(log) :
          /\ Decodable(Snapshot(n))
          /\ state' = "InitListed" /\ rv' = n
          /\ apply_watcher_event(Snapshot(n))
          /\ queue' = {k \in Keys : Snapshot(n)[k] # 0}
    /\ out' = "ok" /\ missed' = {}
    /\ UNCHANGED <<server, pos, mode, applied>>

\* Restarted: replaces the store at once, and is flattened through the queue.
ListOk ==
    /\ Polled /\ state = "Empty"
    /\ Decodable(Current)
    /\ state' = "InitListed" /\ rv' = Len(log)
    /\ apply_watcher_event(Current)
    /\ queue' = {k \in Keys : Current[k] # 0}
    /\ out' = "ok" /\ missed' = {}
    /\ UNCHANGED <<server, pos, mode, applied>>

\* The request fails, or one object of the list does not deserialize.
ListErr ==
    /\ Polled /\ state = "Empty"
    /\ out' = "err"
    /\ UNCHANGED <<server, state, rv, pos, mode, store, consumer, missed>>

\* request_events does not look at the HTTP status: an error response is a
\* stream whose only line is not a WatchEvent.
WatchStart(m) ==
    /\ Polled /\ state = "InitListed"
    /\ m \in IF rv < compacted THEN GoneForms ELSE {"open", "refused"}
    /\ state' = "Watching" /\ pos' = rv /\ mode' = m
    /\ UNCHANGED <<server, rv, store, consumer, out, missed>>

WatchErr ==
    /\ Polled /\ state = "InitListed"
    /\ out' = "err"
    /\ UNCHANGED <<server, state, rv, pos, mode, store, consumer, missed>>

\* Between writes m and n there is nothing to tell a watch of the collection.
Quiet(m, n) == \A j \in m + 1 .. n : log[j].key = Other

\* Write n is the next the connection has to tell.
Arrives(n) ==
    /\ Polled /\ state = "Watching" /\ mode = "open"
    /\ n \in pos + 1 .. Len(log) /\ log[n].key # Other /\ Quiet(pos, n - 1)

\* Added or Modified.
RecvApplied(n) ==
    LET k == log[n].key IN
    /\ Arrives(n) /\ log[n].ok /\ log[n].objs[k] # 0
    /\ pos' = n /\ rv' = n
    /\ apply_watcher_event([store EXCEPT ![k] = n]) /\ applied' = [applied EXCEPT ![k] = n]
    /\ out' = "ok" /\ missed' = missed \ {k}
    /\ UNCHANGED <<server, state, mode, queue>>

RecvDeletedKeepsStore(n) ==
    LET k == log[n].key IN
    /\ Arrives(n) /\ log[n].ok /\ log[n].objs[k] = 0
    /\ pos' = n /\ rv' = n
    /\ missed' = missed \ {k}
    /\ UNCHANGED <<server, state, mode, store, consumer, out>>

\* Deleted: applied_objects() hands nothing on and polls again.
RecvDeleted(n) ==
    LET k == log[n].key IN
    /\ Arrives(n) /\ log[n].ok /\ log[n].objs[k] = 0
    /\ pos' = n /\ rv' = n
    /\ apply_watcher_event([store EXCEPT ![k] = 0])
    /\ missed' = missed \ {k}
    /\ UNCHANGED <<server, state, mode, consumer, out>>

\* The line is neither a WatchEvent<K> nor an ErrorResponse: an Err, and the
\* watcher goes on with the next line of the same connection.
RecvUndecodable(n) ==
    /\ Arrives(n) /\ ~ log[n].ok
    /\ pos' = n
    /\ out' = "err" /\ missed' = missed \cup {log[n].key}
    /\ UNCHANGED <<server, state, rv, mode, store, consumer>>

\* A bookmark tells a version up to which the server has sent every event.
RecvBookmark(n) ==
    /\ Polled /\ state = "Watching" /\ mode = "open"
    /\ n \in pos .. Len(log) /\ Quiet(pos, n) /\ rv # n
    /\ pos' = n /\ rv' = n
    /\ UNCHANGED <<server, state, mode, store, consumer, out, missed>>

RecvGoneIgnored ==
    /\ Polled /\ state = "Watching"
    /\ mode = "gone" \/ (mode = "open" /\ pos < compacted)
    /\ mode' = "broken" /\ out' = "err"
    /\ UNCHANGED <<server, state, rv, pos, store, consumer, missed>>

\* ERROR event with code 410: start over from a new list.
RecvGone ==
    /\ Polled /\ state = "Watching"
    /\ mode = "gone" \/ (mode = "open" /\ pos < compacted)
    /\ state' = "Empty" /\ mode' = "none" /\ out' = "err"
    /\ UNCHANGED <<server, rv, pos, store, consumer, missed>>

\* Any other ERROR event, or a failure to read: the stream is kept, whether
\* or not it has more to give.
RecvErr ==
    /\ Polled /\ state = "Watching"
    /\ \/ mode = "open" /\ mode' \in {"open", "broken"}
       \/ mode = "refused" /\ mode' = "broken"
    /\ out' = "err"
    /\ UNCHANGED <<server, state, rv, pos, store, consumer, missed>>

StreamEndKeepsStream(m) ==
    /\ Polled /\ state = "Watching" /\ mode = m
    /\ state' = "InitListed"
    /\ UNCHANGED <<server, rv, pos, mode, store, consumer, out, missed>>

\* None: the connection has ended, by a timeout or after an error.
StreamEnd(m) ==
    /\ Polled /\ state = "Watching" /\ mode = m
    /\ state' = "InitListed" /\ mode' = "none"
    /\ UNCHANGED <<server, rv, pos, store, consumer, out, missed>>

PopDropsRest(k) ==
    /\ k \in queue
    /\ queue' = {} /\ applied' = [applied EXCEPT ![k] = store[k]]
    /\ out' = "ok"
    /\ UNCHANGED <<server, state, rv, pos, mode, store, missed>>

\* EventFlatten emits the next object of the last Restarted.  The store has
\* not changed since, so its objects are the listed ones.
Pop(k) ==
    /\ k \in queue
    /\ queue' = queue \ {k} /\ applied' = [applied EXCEPT ![k] = store[k]]
    /\ out' = "ok"
    /\ UNCHANGED <<server, state, rv, pos, mode, store, missed>>

Server == (\E k \in Keys : Put(k) \/ Delete(k)) \/ OtherWrite \/ Compact

Watcher ==
    \/ ListOk \/ ListErr
    \/ (\E m \in Modes : WatchStart(m)) \/ WatchErr
    \/ (\E n \in Versions : RecvApplied(n) \/ RecvDeleted(n) \/ RecvUndecodable(n) \/ RecvBookmark(n))
    \/ RecvGone \/ RecvErr
    \/ StreamEnd("open") \/ StreamEnd("broken")

Next == Server \/ Watcher \/ \E k \in Keys : Pop(k)

Spec == Init /\ [][Next]_vars

\* Requests and reads that can succeed again and again do succeed; the queue
\* is drained; a connection that failed ends.
Fairness ==
    /\ SF_vars(ListOk) /\ SF_vars(WatchStart("open"))
    /\ SF_vars(rv < compacted /\ \E m \in GoneForms : WatchStart(m))
    /\ SF_vars(RecvGone)
    /\ \A n \in Versions : SF_vars(RecvApplied(n) \/ RecvDeleted(n) \/ RecvUndecodable(n))
    /\ WF_vars(mode = "refused" /\ RecvErr) /\ WF_vars(StreamEnd("broken"))
    /\ WF_vars(\E k \in Keys : Pop(k))

FairSpec == Spec /\ Fairness

-----------------------------------------------------------------------------
(* Properties *)

\* A connection exists exactly while the watcher is Watching; no version is
\* ahead of the server.
TypeOK ==
    /\ log \in Seq([key : Keys \cup {Other}, ok : BOOLEAN, objs : [Keys -> Versions]])
    /\ Len(log) <= MaxRV
    /\ compacted \in 0 .. Len(log)
    /\ state \in {"Empty", "InitListed", "Watching"}
    /\ rv \in 0 .. Len(log) /\ pos \in 0 .. Len(log)
    /\ mode \in Modes /\ (mode # "none" <=> state = "Watching")
    /\ store \in [Keys -> Versions] /\ applied \in [Keys -> Versions]
    /\ queue \subseteq Keys /\ missed \subseteq Keys
    /\ out \in {"ok", "err"}

\* Through every loss of a connection, expiry and re-list: the store is the
\* collection as it was at version rv, the one a new watch resumes from, but
\* for keys whose last event did not deserialize.
StoreIsSnapshot == \A k \in Keys \ missed : store[k] = Snapshot(rv)[k]

\* The consumer of applied_objects() has been handed, or is about to be, the
\* state at version rv of every object that exists there.
ConsumerIsCurrent ==
    \A k \in Keys \ missed :
        Snapshot(rv)[k] # 0 => applied[k] = Snapshot(rv)[k] \/ k \in queue

\* The consumer is never handed an older state of an object after a newer
\* one, whatever reconnections and re-lists lie between.
ConsumerNeverGoesBack == [][\A k \in Keys : applied'[k] >= applied[k]]_vars

\* Lists, events, bookmarks and all that fails in between implement the mirror
\* of the collection's history that module ObjectMirror promises: at no step
\* does the store skip back, mix two states, or take an object that the
\* consumer is not handed before the next poll.
Mirror ==
    INSTANCE ObjectMirror WITH
        Objects <- Versions, None <- 0,
        hist <- [i \in 1 .. Len(log) |-> log[i].objs],
        seen <- rv, replica <- store, lagging <- missed,
        owed <- queue, handed <- applied

ImplementsMirror == Mirror!Spec

\* Once writes stop, and if what is there deserializes, store and consumer catch
\* up and stay so.
EventuallySynced ==
    <>[](Decodable(Current) =>
            \A k \in Keys \ missed :
                /\ store[k] = Current[k]
                /\ Current[k] # 0 => applied[k] = Current[k])

=============================================================================

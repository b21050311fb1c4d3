------------------------- MODULE SyncedStreamsLoop -------------------------
(* The client's sync loop (packages/sdk/src/syncedStreamsLoop.ts) with the   *)
(* stream map it works for (syncedStreams.ts, the init and leave handlers of  *)
(* client.ts) and the node's sync session it talks to (core/node/rpc/sync).   *)
(*                                                                            *)
(* JavaScript runs one callback at a time, so an action is the code between   *)
(* two awaits.  A synchronous call of checkStartTicking, and the promise      *)
(* reactions that run before any other callback, are queued in `micro` and    *)
(* nothing else happens until `micro` is empty.                               *)
(*                                                                            *)
(* The content of a stream is a position: an update carries the events from   *)
(* position `from` to position `to`, and a sync cookie is a position.         *)
EXTENDS Integers, Sequences, FiniteSets

CONSTANTS
    Stream,          \* stream ids
    Priority,        \* priorityFromStreamId of each stream, 0 is first
    UseModifySync,   \* streamOpts.useModifySync
    SharedSyncer,    \* streamOpts.useSharedSyncer
    MinInFlight,     \* MIN_IN_FLIGHT_COOKIES
    MaxInFlight,     \* MAX_IN_FLIGHT_COOKIES and MAX_IN_FLIGHT_STREAMS_TO_DELETE
    Fault,           \* the kinds of fault that may happen
    MaxFault,        \* bound: faults in a behaviour
    MaxPos,          \* bound: events of each stream
    MaxJoin,         \* bound: joins in a behaviour
    CanStop          \* whether the application may stop the loop

ASSUME LoopAssumption ==
    /\ Priority \in [Stream -> Nat]
    /\ UseModifySync \in BOOLEAN /\ SharedSyncer \in BOOLEAN /\ CanStop \in BOOLEAN
    /\ MinInFlight \in Nat /\ MaxInFlight \in Nat \ {0}
    /\ MaxFault \in Nat /\ MaxPos \in [Stream -> Nat] /\ MaxJoin \in Nat

VARIABLES
    syncState,     \* _syncState
    syncId,        \* syncId, 0 for undefined
    loop,          \* where the syncLoop coroutine waits
    streams,       \* keys of `streams`
    cookie,        \* syncCookie of the record of a stream
    pendingSync,   \* pendingSyncCookies; its order is the sort by priority
    inFlight,      \* inFlightSyncCookies
    pendingDelete, \* pendingStreamsToDelete
    queue,         \* responsesQueue
    tick,          \* inProgressTick: idle, awaiting modifySync, or awaiting an unpack
    timer,         \* the setTimeout of checkStartTicking is pending
    waiting,       \* removeStreamFromSync calls inside waitForSyncingState
    forceStop,     \* the 5 second timer of stop is pending
    micro,         \* synchronous continuations that run before anything else
    readd,         \* syncDown: pending addStreamToSync calls and retry timers
    session,       \* number of the last syncStreams call
    conn,          \* the node's side of that session
    cancelled,     \* the node has received cancelSync
    sub,           \* sub[s]: what the session has sent of s; Unsubscribed
    owed,          \* subscribed streams whose first response is still to come
    pos,           \* events of each stream on the node
    has,           \* keys of SyncedStreams.streams
    loading,       \* client.initStreamRequests
    joined,        \* streams the user is a member of
    app,           \* app[s]: position up to which the client has applied s
    blot,          \* what has happened to a stream: see Blots
    faults,        \* faults so far
    joins          \* joins so far

serverVars == <<session, conn, cancelled, sub, owed, pos>>
clientVars == <<has, loading, joined>>
loopVars == <<syncState, syncId, loop, forceStop, waiting>>
listVars == <<streams, pendingSync, inFlight, pendingDelete>>
tickVars == <<queue, tick, timer>>
bound == <<faults, joins>>
vars == <<loopVars, listVars, cookie, tickVars, micro, readd, serverVars,
          clientVars, app, blot, bound>>

SyncStates == {"NotSyncing", "Starting", "Syncing", "Retrying", "Canceling"}

\* stateConstraints
Successors ==
    [NotSyncing |-> {"Starting"},
     Starting   |-> {"Syncing", "Retrying", "Canceling"},
     Syncing    |-> {"Canceling", "Retrying"},
     Retrying   |-> {"Starting", "Canceling", "Syncing", "Retrying"},
     Canceling  |-> {"NotSyncing"}]

Unsubscribed == -1
Idle == [at |-> "idle"]
Smaller(m, n) == IF m < n THEN m ELSE n
Elements(q) == {q[i] : i \in DOMAIN q}

\* The elements of q that are not in T, in their order.
Without(q, T) ==
    LET keep == {i \in DOMAIN q : q[i] \notin T}
        nth(k) == CHOOSE i \in keep : Cardinality({j \in keep : j <= i}) = k
    IN  [k \in 1..Cardinality(keep) |-> q[nth(k)]]

\* What may have happened to a stream that a property has to know of: an update
\* of it could not be unpacked; one was applied after its session was replaced;
\* it was added again while the session still served it; SYNC_DOWN overtook its
\* queued updates; it was re-joined while it was being removed; an add of it
\* was refused; an add of it took effect on the node and the client does not know,
\* or did not want it any more; stop threw away updates of it; two removals of it
\* waited for Syncing; a removal of it was put back after it had been added again; a
\* load of it failed.
Blots == {"dropped", "late", "kept", "overtaken", "rejoined", "refused", "unknown",
          "cleared", "twice", "restored", "unloaded"}
Blot(s, what) == blot' = [blot EXCEPT ![s] = @ \union {what}]

Quiet == micro = <<>>
CanFail(kind) == kind \in Fault /\ faults < MaxFault
Fails(kind) == CanFail(kind) /\ faults' = faults + 1
----------------------------------------------------------------------------
(* The sync loop.                                                             *)

\* One round of the outer loop of createSyncLoop, up to the first await.
NextIteration(known) ==
    /\ syncState' = "Starting"
    /\ syncId' = 0
    /\ loop' = "reading"
    /\ pendingDelete' = <<>>
    /\ pendingSync' = IF UseModifySync THEN known ELSE {}
    /\ inFlight' = IF UseModifySync THEN {} ELSE known
    /\ session' = session + 1
    /\ conn' = "opening"
    /\ cancelled' = FALSE
    /\ sub' = [s \in Stream |-> IF s \in inFlight' THEN cookie[s] ELSE Unsubscribed]
    /\ owed' = inFlight'
    /\ streams' = known

\* Mutant of Finish: the sync id outlives its session.
FinishKeepsId ==
    /\ syncState' = "NotSyncing" /\ loop' = "done" /\ streams' = {}
    /\ UNCHANGED syncId

\* The finally block of the loop, reached in Canceling.
Finish ==
    /\ syncState' = "NotSyncing"
    /\ syncId' = 0
    /\ loop' = "done"
    /\ streams' = {}

\* SyncedStreams.startSyncStreams and start, with the streams loaded so far.
Start ==
    /\ Quiet /\ loop = "none"
    /\ NextIteration(has \ loading)
    /\ UNCHANGED <<forceStop, waiting, cookie, tickVars, micro, readd, pos,
                   clientVars, app, blot, bound>>

\* SYNC_NEW: syncStarted.
SyncNew ==
    /\ Quiet /\ loop = "reading" /\ conn = "opening"
    /\ conn' = "open"
    /\ IF syncState = "Starting"
       THEN /\ syncState' = "Syncing"
            /\ syncId' = session
            /\ micro' = <<"tick", "resume">>
            /\ UNCHANGED <<loop, streams>>
       ELSE Finish /\ UNCHANGED micro
    /\ UNCHANGED <<forceStop, waiting, cookie, pendingSync, inFlight, pendingDelete,
                   tickVars, readd, session, cancelled, sub, owed, pos, clientVars,
                   app, blot, bound>>

\* SYNC_UPDATE.  The first response for a stream may be a reset.  A response may
\* be older than the stream is by the time it is read.
SyncUpdate(s) ==
    /\ Quiet /\ loop = "reading" /\ conn = "open"
    /\ sub[s] # Unsubscribed
    /\ s \in owed \/ sub[s] < pos[s]
    /\ \E to \in sub[s]..pos[s], reset \in BOOLEAN :
          /\ s \notin owed => to > sub[s] /\ ~reset
          /\ reset => to = pos[s]
          /\ queue' = Append(queue, [sid |-> session, s |-> s, from |-> sub[s], to |-> to,
                                     reset |-> reset])
          /\ sub' = [sub EXCEPT ![s] = to]
    /\ owed' = owed \ {s}
    /\ micro' = IF syncState = "Canceling" THEN <<"tick", "finish">> ELSE <<"tick">>
    /\ UNCHANGED <<loopVars, listVars, cookie, tick, timer, readd, session, conn,
                   cancelled, pos, clientVars, app, blot, bound>>

\* SYNC_CLOSE: syncClosed.  Unless it was asked for, the next round follows at once.
SyncClose ==
    /\ Quiet /\ loop = "reading" /\ conn = "open"
    /\ IF cancelled THEN UNCHANGED faults ELSE Fails("close")
    /\ IF syncState = "Canceling"
       THEN /\ Finish
            /\ conn' = "closed"
            /\ UNCHANGED <<pendingSync, inFlight, pendingDelete, session, cancelled, sub,
                           owed>>
       ELSE NextIteration(streams)
    /\ UNCHANGED <<forceStop, waiting, cookie, tickVars, micro, readd, pos, clientVars,
                   app, blot, joins>>

\* iterator.next rejects, or a failed ping calls interruptSync: attemptRetry.
ConnectionLost ==
    /\ Quiet /\ loop = "reading"
    /\ Fails("conn")
    /\ conn' = "closed"
    /\ IF syncState = "Canceling"
       THEN Finish /\ UNCHANGED <<pendingSync, inFlight, pendingDelete>>
       ELSE /\ syncState' = "Retrying"
            /\ syncId' = 0
            /\ loop' = "backoff"
            /\ inFlight' = {} /\ pendingSync' = {} /\ pendingDelete' = <<>>
            /\ UNCHANGED streams
    /\ UNCHANGED <<forceStop, waiting, cookie, tickVars, micro, readd, session, cancelled,
                   sub, owed, pos, clientVars, app, blot, joins>>

\* The back-off ends: its timer, onNetworkStatusChanged, a return to the
\* foreground, or stop (then the state is Canceling).
RetryWaitOver ==
    /\ Quiet /\ loop = "backoff"
    /\ IF syncState = "Canceling"
       THEN /\ Finish
            /\ UNCHANGED <<pendingSync, inFlight, pendingDelete, session, conn, cancelled,
                           sub, owed>>
       ELSE NextIteration(streams)
    /\ UNCHANGED <<forceStop, waiting, cookie, tickVars, micro, readd, pos, clientVars,
                   app, blot, bound>>

\* A SYNC_UPDATE that is read in Canceling is queued, and then the loop ends.
FinishAfterUpdate ==
    /\ micro # <<>> /\ Head(micro) = "finish"
    /\ micro' = Tail(micro)
    /\ Finish
    /\ UNCHANGED <<forceStop, waiting, cookie, pendingSync, inFlight, pendingDelete, tickVars,
                   readd, serverVars, clientVars, app, blot, bound>>

\* Mutant of ArmForceStop: stop relies on the node's answer to cancelSync.
ArmNothing == UNCHANGED forceStop

\* The 5 second timer of stop, set if there is a session to cancel.
ArmForceStop == forceStop' = (syncId # 0)

\* The removeStreamFromSync calls that wait for Syncing return without removing.
ReleaseWaiting ==
    /\ inFlight' = inFlight \ Elements(waiting)
    /\ has' = has \ Elements(waiting)
    /\ waiting' = <<>>

\* stop, up to its await.
Stop ==
    /\ Quiet /\ CanStop
    /\ "Canceling" \in Successors[syncState]
    /\ syncState' = "Canceling"
    /\ queue' = <<>>
    /\ ArmForceStop
    /\ ReleaseWaiting
    /\ blot' = [s \in Stream |-> IF \E i \in DOMAIN queue : queue[i].s = s
                                 THEN blot[s] \union {"cleared"} ELSE blot[s]]
    /\ UNCHANGED <<syncId, loop, streams, cookie, pendingSync, pendingDelete, tick, timer,
                   micro, readd, serverVars, loading, joined, app, bound>>

\* The node receives cancelSync; it will answer with SYNC_CLOSE.
CancelSync ==
    /\ Quiet /\ forceStop /\ conn = "open" /\ ~cancelled /\ syncId = session
    /\ cancelled' = TRUE
    /\ UNCHANGED <<loopVars, listVars, cookie, tickVars, micro, readd, session, conn, sub,
                   owed, pos, clientVars, app, blot, bound>>

\* forceStopSyncStreams, 5 seconds after stop.
ForceStop ==
    /\ Quiet /\ forceStop /\ loop = "reading"
    /\ Finish
    /\ forceStop' = FALSE
    /\ UNCHANGED <<waiting, cookie, pendingSync, inFlight, pendingDelete, tickVars, micro,
                   readd, serverVars, clientVars, app, blot, bound>>
----------------------------------------------------------------------------
(* Ticks: modifySync calls and the processing of queued updates.              *)

\* Mutant of EndTick: the next tick waits for the next update.
EndTickForGood == tick' = Idle /\ timer' = FALSE

\* The end of a tick schedules checkStartTicking.
EndTick == tick' = Idle /\ timer' = TRUE

\* Mutant of TakeResponse: the newest response is taken first.
TakeNewest(fl) ==
    LET item == queue[Len(queue)]
        taken == queue # <<>> /\ item.sid = syncId /\ item.s \in streams IN
    /\ queue' = IF queue = <<>> THEN queue ELSE SubSeq(queue, 1, Len(queue) - 1)
    /\ inFlight' = IF taken THEN fl \ {item.s} ELSE fl
    /\ IF taken THEN tick' = [at |-> "unpack", item |-> item, live |-> TRUE] /\ timer' = FALSE
                ELSE EndTick

\* The second half of tick, up to the await of unpackStream in onUpdate, with
\* the in-flight set `fl`.  The stream's record is looked up before the await.
TakeResponse(fl) ==
    LET item == Head(queue) IN
    /\ queue' = IF queue = <<>> THEN queue ELSE Tail(queue)
    /\ IF queue # <<>> /\ item.sid = syncId
       THEN /\ inFlight' = fl \ {item.s}
            /\ IF item.s \in streams
               THEN /\ tick' = [at |-> "unpack", item |-> item, live |-> TRUE]
                    /\ timer' = FALSE
               ELSE EndTick
       ELSE EndTick /\ inFlight' = fl

\* The streams that the stable sort by priority may put first.
First(set, n) ==
    {T \in SUBSET set :
        /\ Cardinality(T) = Smaller(n, Cardinality(set))
        /\ \A s \in T, u \in set \ T : Priority[s] <= Priority[u]}

\* The first half of tick, up to the await of modifySync.
SendModify(toDelete) ==
    \E add \in First(pendingSync, MaxInFlight) :
        LET del == SubSeq(toDelete, 1, Smaller(MaxInFlight, Len(toDelete))) IN
        /\ pendingSync' = pendingSync \ add
        /\ pendingDelete' = Without(toDelete, Elements(del))
        /\ inFlight' = inFlight \union add
        /\ tick' = [at |-> "modify", sid |-> syncId, add |-> add,
                    pos |-> [s \in add \intersect streams |-> cookie[s]], del |-> del]

\* checkStartTicking and tick, up to the first await.
Tick ==
    /\ LET toDelete == Without(pendingDelete, inFlight) IN
       IF tick # Idle \/ (queue = <<>> /\ pendingSync = {} /\ pendingDelete = <<>>)
       THEN timer' = FALSE /\ UNCHANGED <<pendingSync, inFlight, pendingDelete, queue, tick>>
       ELSE IF /\ syncState = "Syncing"
               /\ \/ Cardinality(inFlight) <= MinInFlight /\ pendingSync # {}
                  \/ toDelete # <<>>
            THEN SendModify(toDelete) /\ timer' = FALSE /\ UNCHANGED queue
            ELSE TakeResponse(inFlight) /\ UNCHANGED <<pendingSync, pendingDelete>>
    /\ UNCHANGED <<loopVars, streams, cookie, readd, serverVars, clientVars, app, blot, bound>>

\* A call of checkStartTicking.
CheckStartTicking ==
    /\ micro # <<>> /\ Head(micro) = "tick"
    /\ micro' = Tail(micro)
    /\ Tick

\* The setTimeout at the end of a tick.
TickTimer == Quiet /\ timer /\ Tick /\ UNCHANGED micro

\* The node serves the session a modifySync call names.
Served(sid) == sid = session /\ conn = "open"

\* ModifyRequest.Validate: no stream twice, none both added and removed.
Valid(add, del) ==
    /\ \A i, j \in DOMAIN del : del[i] = del[j] => i = j
    /\ Elements(del) \intersect add = {}

\* The effect of a request on the node.  A stream the session serves already is
\* sent again from its cookie, unless the session is of a shared syncer.
ModifyAtNode(at, refused, del) ==
    LET fills == {s \in DOMAIN at \ refused : ~SharedSyncer \/ sub[s] = Unsubscribed}
        gone == Elements(del) \union {s \in refused : sub[s] = Unsubscribed} IN
    /\ sub' = [s \in Stream |-> IF s \in fills THEN at[s]
                                ELSE IF s \in gone THEN Unsubscribed ELSE sub[s]]
    /\ owed' = (owed \union fills) \ gone

\* modifySync returns.  Streams the node could not add are only logged.
ModifyDone ==
    /\ Quiet /\ tick.at = "modify"
    /\ Valid(DOMAIN tick.pos, tick.del)
    /\ \E refused \in SUBSET DOMAIN tick.pos :
          /\ IF refused = {} THEN UNCHANGED faults ELSE Fails("refuse")
          /\ IF Served(tick.sid) THEN ModifyAtNode(tick.pos, refused, tick.del)
                                 ELSE refused = {} /\ UNCHANGED <<sub, owed>>
          /\ blot' = [s \in Stream |-> IF s \in refused THEN blot[s] \union {"refused"}
                                                        ELSE blot[s]]
    /\ TakeResponse(inFlight)
    /\ UNCHANGED <<loopVars, streams, cookie, pendingSync, pendingDelete, micro, readd,
                   session, conn, cancelled, pos, clientVars, app, joins>>

\* modifySync fails: the request is invalid, the node does not know the session,
\* or the call is lost, before or after it took effect.
ModifyFails ==
    /\ Quiet /\ tick.at = "modify"
    /\ LET received == Valid(DOMAIN tick.pos, tick.del) /\ Served(tick.sid)
           same == syncId = tick.sid /\ syncState = "Syncing"
           again == IF same THEN tick.add \intersect inFlight ELSE {}
           restored == IF same THEN Elements(tick.del) \intersect streams ELSE {} IN
       /\ IF received THEN Fails("modify") ELSE UNCHANGED faults
       /\ \E done \in IF received THEN BOOLEAN ELSE {FALSE} :
             /\ IF done THEN ModifyAtNode(tick.pos, {}, tick.del) ELSE UNCHANGED <<sub, owed>>
             /\ blot' = [s \in Stream |-> blot[s] \union
                            (IF done /\ s \in DOMAIN tick.pos THEN {"unknown"} ELSE {}) \union
                            (IF s \in restored THEN {"restored"} ELSE {})]
       /\ pendingSync' = pendingSync \union again
       /\ pendingDelete' = IF same THEN pendingDelete \o tick.del ELSE pendingDelete
       /\ TakeResponse(inFlight \ again)
    /\ UNCHANGED <<loopVars, streams, cookie, micro, readd, session, conn, cancelled, pos,
                   clientVars, app, joins>>

\* Mutant of MoveCookie: the record keeps its cookie.
MoveNoCookie(item) == UNCHANGED cookie

\* The record takes the cookie that comes with the update.
MoveCookie(item) == cookie' = [cookie EXCEPT ![item.s] = item.to]

\* The rest of onUpdate: the cookie moves and the events are applied.  A record
\* that was dropped meanwhile is a different object: nothing of it is seen again.
Apply ==
    /\ Quiet /\ tick.at = "unpack"
    /\ LET item == tick.item IN
       IF tick.live
       THEN /\ MoveCookie(item)
            /\ app' = [app EXCEPT ![item.s] = IF item.reset \/ item.to > @ THEN item.to ELSE @]
            /\ IF item.sid # syncId THEN Blot(item.s, "late") ELSE UNCHANGED blot
       ELSE UNCHANGED <<cookie, app, blot>>
    /\ EndTick
    /\ UNCHANGED <<loopVars, listVars, queue, micro, readd, serverVars, clientVars, bound>>

\* unpackStream or unpackStreamAndCookie throws: the error is logged.
ApplyFails ==
    /\ Quiet /\ tick.at = "unpack"
    /\ Fails("unpack")
    /\ IF tick.live THEN Blot(tick.item.s, "dropped") ELSE UNCHANGED blot
    /\ EndTick
    /\ UNCHANGED <<loopVars, listVars, cookie, queue, micro, readd, serverVars, clientVars,
                   app, joins>>

\* An update of s has been read and is not applied yet.
Behind(s) ==
    \/ \E i \in DOMAIN queue : queue[i].s = s /\ queue[i].sid = syncId
    \/ tick.at = "unpack" /\ tick.item.s = s

\* Mutant of CallAddStreamToSync: SYNC_DOWN is ignored.
CallNothing(s, pending) == readd' = pending /\ UNCHANGED blot

\* syncDown up to its addStreamToSync call, with the cookie of that moment.
CallAddStreamToSync(s, pending) ==
    IF syncState = "Syncing" /\ s \in streams
    THEN /\ readd' = pending \union {[s |-> s, sid |-> syncId, at |-> cookie[s], call |-> TRUE]}
         /\ IF Behind(s) THEN Blot(s, "overtaken") ELSE UNCHANGED blot
    ELSE readd' = pending /\ UNCHANGED blot

\* SYNC_DOWN: the node can no longer serve the stream.
SyncDown(s) ==
    /\ Quiet /\ loop = "reading" /\ conn = "open"
    /\ sub[s] # Unsubscribed
    /\ Fails("down")
    /\ sub' = [sub EXCEPT ![s] = Unsubscribed]
    /\ owed' = owed \ {s}
    /\ CallAddStreamToSync(s, readd)
    /\ IF syncState = "Canceling" THEN Finish ELSE UNCHANGED <<syncState, syncId, loop, streams>>
    /\ UNCHANGED <<forceStop, waiting, cookie, pendingSync, inFlight, pendingDelete, tickVars,
                   micro, session, conn, cancelled, pos, clientVars, app, joins>>

\* addStreamToSync reaches the node and returns.
AddStreamDone(r) ==
    /\ Quiet /\ r \in readd /\ r.call /\ Served(r.sid)
    /\ readd' = readd \ {r}
    /\ IF SharedSyncer /\ sub[r.s] # Unsubscribed
       THEN UNCHANGED <<sub, owed>>
       ELSE sub' = [sub EXCEPT ![r.s] = r.at] /\ owed' = owed \union {r.s}
    /\ IF r.s \in streams THEN UNCHANGED blot ELSE Blot(r.s, "unknown")
    /\ UNCHANGED <<loopVars, listVars, cookie, tickVars, micro, session, conn, cancelled, pos,
                   clientVars, app, bound>>

\* addStreamToSync fails; it is tried again after a delay.
AddStreamFails(r) ==
    /\ Quiet /\ r \in readd /\ r.call
    /\ IF Served(r.sid) THEN Fails("readd") ELSE UNCHANGED faults
    /\ readd' = (readd \ {r}) \union {[r EXCEPT !.call = FALSE]}
    /\ UNCHANGED <<loopVars, listVars, cookie, tickVars, micro, serverVars, clientVars, app,
                   blot, joins>>

\* The delay is over: syncDown with retryParams.
AddStreamAgain(r) ==
    /\ Quiet /\ r \in readd /\ ~r.call
    /\ IF r.sid = syncId
       THEN CallAddStreamToSync(r.s, readd \ {r})
       ELSE readd' = readd \ {r} /\ UNCHANGED blot
    /\ UNCHANGED <<loopVars, listVars, cookie, tickVars, micro, serverVars, clientVars, app,
                   bound>>
----------------------------------------------------------------------------
(* Adding and removing streams.                                               *)

\* Pending work on the record of s loses it.
Forget(T) ==
    tick' = IF tick.at = "unpack" /\ tick.item.s \in T THEN [tick EXCEPT !.live = FALSE] ELSE tick

\* Mutant of DropFirst: splice(indexOf(s), 1) without the test for -1.
DropFirstOrLast(q, s) ==
    IF s \in Elements(q) THEN SelectSeq(q, LAMBDA u : u # s)
    ELSE IF q = <<>> THEN q ELSE SubSeq(q, 1, Len(q) - 1)

\* The first of several equal elements goes, as with splice(indexOf(s), 1).
DropFirst(q, s) ==
    IF s \notin Elements(q) THEN q
    ELSE LET i == CHOOSE i \in DOMAIN q : q[i] = s /\ \A j \in 1..(i - 1) : q[j] # s
         IN  SubSeq(q, 1, i - 1) \o SubSeq(q, i + 1, Len(q))

\* Mutant of Join: the stream gets into the map only once it is loaded.
JoinWithoutMap(s) ==
    /\ Quiet /\ loop # "done" /\ s \notin joined /\ joins < MaxJoin
    /\ joins' = joins + 1
    /\ joined' = joined \union {s}
    /\ loading' = loading \union {s}
    /\ UNCHANGED <<loopVars, listVars, cookie, tickVars, micro, readd, serverVars, has, app, blot,
                   faults>>

\* onJoinedStream, up to the await in initStream: a load starts, unless one is
\* under way or the stream is in the map.
Join(s) ==
    /\ Quiet /\ loop # "done" /\ s \notin joined /\ joins < MaxJoin
    /\ joins' = joins + 1
    /\ joined' = joined \union {s}
    /\ IF s \in loading \union has
       THEN Blot(s, "rejoined") /\ UNCHANGED <<has, loading>>
       ELSE /\ has' = has \union {s}
            /\ loading' = loading \union {s}
            /\ UNCHANGED blot
    /\ UNCHANGED <<loopVars, listVars, cookie, tickVars, micro, readd, serverVars, app, faults>>

\* The session serves s, has been asked to, or an update of it is still queued.
Asked(s) ==
    \/ Behind(s)
    \/ sub[s] # Unsubscribed
    \/ tick.at = "modify" /\ s \in tick.add
    \/ \E r \in readd : r.s = s

\* The load is done, from the store or from the node: addStreamToSync.
Loaded(s) ==
    /\ Quiet /\ s \in loading
    /\ loading' = loading \ {s}
    /\ IF s \in has \ streams /\ loop # "done"
       THEN \E at \in 0..pos[s] :
              cookie' = [cookie EXCEPT ![s] = at] /\ app' = [app EXCEPT ![s] = at]
       ELSE UNCHANGED <<cookie, app>>
    /\ IF s \in has \ streams /\ loop \notin {"none", "done"}
       THEN /\ streams' = streams \union {s}
            /\ pendingSync' = pendingSync \union {s}
            /\ pendingDelete' = DropFirst(pendingDelete, s)
            /\ micro' = <<"tick">>
            /\ IF Asked(s) THEN Blot(s, "kept") ELSE UNCHANGED blot
       ELSE UNCHANGED <<streams, pendingSync, pendingDelete, micro, blot>>
    /\ UNCHANGED <<loopVars, inFlight, tickVars, readd, serverVars, has, joined, bound>>

\* getStream or the unpacking fails: the stream is taken out of the map.
LoadFails(s) ==
    /\ Quiet /\ s \in loading
    /\ Fails("load")
    /\ loading' = loading \ {s}
    /\ has' = has \ {s}
    /\ Blot(s, "unloaded")
    /\ UNCHANGED <<loopVars, listVars, cookie, tickVars, micro, readd, serverVars, joined, app,
                   joins>>

\* onLeftStream: removeStreamFromSync of the map and of the loop.
Leave(s) ==
    /\ Quiet /\ s \in joined
    /\ joined' = joined \ {s}
    /\ IF s \in has /\ s \in streams \ pendingSync /\ s \notin Elements(pendingDelete)
          /\ syncState \in {"Starting", "Retrying"}
       THEN /\ waiting' = Append(waiting, s)
            /\ IF s \in Elements(waiting) THEN Blot(s, "twice") ELSE UNCHANGED blot
            /\ UNCHANGED <<listVars, tick, has>>
       ELSE /\ has' = has \ {s}
            /\ IF s \notin has \/ s \notin streams
               THEN UNCHANGED <<listVars, tick>>
               ELSE IF s \in pendingSync
               THEN /\ pendingSync' = pendingSync \ {s}
                    /\ streams' = streams \ {s}
                    /\ Forget({s})
                    /\ UNCHANGED <<inFlight, pendingDelete>>
               ELSE IF s \in Elements(pendingDelete)
               THEN UNCHANGED <<listVars, tick>>
               ELSE /\ inFlight' = inFlight \ {s}
                    /\ IF syncState = "Syncing"
                       THEN /\ pendingDelete' = Append(pendingDelete, s)
                            /\ streams' = streams \ {s}
                            /\ Forget({s})
                       ELSE UNCHANGED <<pendingDelete, streams, tick>>
                    /\ UNCHANGED pendingSync
            /\ UNCHANGED <<waiting, blot>>
    /\ UNCHANGED <<syncState, syncId, loop, forceStop, cookie, queue, timer, micro, readd,
                   serverVars, loading, app, bound>>

\* removeStreamFromSync after waitForSyncingState, in Syncing.
ResumeRemovals ==
    /\ micro # <<>> /\ Head(micro) = "resume"
    /\ micro' = Tail(micro)
    /\ pendingDelete' = pendingDelete \o waiting
    /\ streams' = streams \ Elements(waiting)
    /\ inFlight' = inFlight \ Elements(waiting)
    /\ has' = has \ Elements(waiting)
    /\ Forget(Elements(waiting))
    /\ waiting' = <<>>
    /\ UNCHANGED <<syncState, syncId, loop, forceStop, cookie, pendingSync, queue, timer, readd,
                   serverVars, loading, joined, app, blot, bound>>

\* An event is added to a stream on the node.
NewEvent(s) ==
    /\ Quiet /\ loop # "done" /\ pos[s] < MaxPos[s]
    /\ pos' = [pos EXCEPT ![s] = @ + 1]
    /\ UNCHANGED <<loopVars, listVars, cookie, tickVars, micro, readd, session, conn, cancelled,
                   sub, owed, clientVars, app, blot, bound>>
----------------------------------------------------------------------------
Init ==
    /\ syncState = "NotSyncing" /\ syncId = 0 /\ loop = "none"
    /\ forceStop = FALSE /\ waiting = <<>>
    /\ streams = {} /\ pendingSync = {} /\ inFlight = {} /\ pendingDelete = <<>>
    /\ cookie = [s \in Stream |-> 0]
    /\ queue = <<>> /\ tick = Idle /\ timer = FALSE /\ micro = <<>> /\ readd = {}
    /\ session = 0 /\ conn = "closed" /\ cancelled = FALSE
    /\ sub = [s \in Stream |-> Unsubscribed] /\ owed = {}
    /\ pos = [s \in Stream |-> 0]
    /\ has = {} /\ loading = {} /\ joined = {}
    /\ app = [s \in Stream |-> 0]
    /\ blot = [s \in Stream |-> {}]
    /\ faults = 0 /\ joins = 0

LoopStep ==
    \/ Start \/ SyncNew \/ SyncClose \/ ConnectionLost \/ RetryWaitOver \/ FinishAfterUpdate
    \/ Stop \/ CancelSync \/ ForceStop
    \/ \E s \in Stream : SyncUpdate(s) \/ SyncDown(s)

TickStep ==
    \/ CheckStartTicking \/ TickTimer \/ ModifyDone \/ ModifyFails \/ Apply \/ ApplyFails
    \/ ResumeRemovals
    \/ \E r \in readd : AddStreamDone(r) \/ AddStreamFails(r) \/ AddStreamAgain(r)

MapStep ==
    \E s \in Stream : Join(s) \/ Loaded(s) \/ LoadFails(s) \/ Leave(s) \/ NewEvent(s)

Next == LoopStep \/ TickStep \/ MapStep

Spec == Init /\ [][Next]_vars

\* Callbacks and timers of the client run; the node answers the calls it gets and
\* sends what it owes.  Faults, joins and the application's stop need not happen.
Fairness ==
    /\ WF_vars(SyncNew) /\ WF_vars(RetryWaitOver) /\ WF_vars(FinishAfterUpdate)
    /\ WF_vars(ForceStop)
    /\ WF_vars(CheckStartTicking) /\ WF_vars(ResumeRemovals) /\ WF_vars(TickTimer)
    /\ WF_vars(ModifyDone \/ ModifyFails) /\ WF_vars(Apply)
    /\ \A s \in Stream : WF_vars(SyncUpdate(s)) /\ WF_vars(Loaded(s))
    /\ \A s \in Stream : WF_vars(\E r \in readd : r.s = s /\ (AddStreamDone(r) \/ AddStreamAgain(r)))

FairSpec == Spec /\ Fairness
----------------------------------------------------------------------------
\* The variables keep their types.
TypeOK ==
    /\ syncState \in SyncStates
    /\ syncId \in Nat /\ session \in Nat
    /\ loop \in {"none", "reading", "backoff", "done"}
    /\ conn \in {"opening", "open", "closed"}
    /\ {streams, pendingSync, inFlight, owed, has, loading, joined} \subseteq SUBSET Stream
    /\ Elements(pendingDelete) \union Elements(waiting) \subseteq Stream
    /\ cookie \in [Stream -> Nat] /\ app \in [Stream -> Nat]
    /\ pos \in [Stream -> Nat] /\ sub \in [Stream -> Nat \union {Unsubscribed}]
    /\ tick.at \in {"idle", "modify", "unpack"}
    /\ Elements(micro) \subseteq {"tick", "resume", "finish"}
    /\ {timer, forceStop, cancelled} \subseteq BOOLEAN
    /\ blot \in [Stream -> SUBSET Blots]

\* The comments of SyncState and of syncId: there is a sync id exactly while the
\* session it names is the current one and its SYNC_NEW has been read, so no
\* update of an earlier session passes the comparison in tick.
SyncIdMatchesState ==
    /\ syncState = "Syncing" => syncId = session /\ conn = "open"
    /\ syncState \in {"NotSyncing", "Starting", "Retrying"} => syncId = 0
    /\ syncState \in {"Starting", "Syncing"} => loop = "reading"
    /\ syncState = "Retrying" => loop = "backoff"

\* While the loop is syncing, every stream of its map is subscribed, or waits in
\* pendingSyncCookies, in a modifySync call of tick or in an addStreamToSync call of
\* syncDown to be subscribed: a stream is left out only if the node refused to add
\* it, if two removals of it waited in waitForSyncingState (addStreamToSync takes
\* back one of the two), or if a failed modifySync call put its removal back after
\* it had been added again.
NoStreamLeftOut ==
    syncState = "Syncing" /\ Quiet =>
        \A s \in streams :
            \/ s \in pendingSync
            \/ sub[s] # Unsubscribed
            \/ tick.at = "modify" /\ s \in tick.add
            \/ \E r \in readd : r.s = s /\ r.sid = syncId
            \/ blot[s] \intersect {"refused", "twice", "restored"} # {}

\* While the loop is syncing, a stream the session serves is in the map, or waits in
\* pendingStreamsToDelete or in a modifySync call to be removed: removeStreamFromSync
\* forgets a subscription only if the add of it was still under way.
NoSubscriptionForgotten ==
    syncState = "Syncing" /\ Quiet =>
        \A s \in Stream \ streams :
            \/ sub[s] = Unsubscribed
            \/ s \in Elements(pendingDelete)
            \/ tick.at = "modify" /\ s \in Elements(tick.del)
            \/ blot[s] \intersect {"unknown", "kept"} # {}

\* A stream the user is in is in SyncedStreams.streams, unless onJoinedStream came
\* while the stream was being loaded or removed (initStream then returns early), or
\* its load failed (nothing loads it again).
JoinedIsHeld == \A s \in joined : s \in has \/ blot[s] \intersect {"rejoined", "unloaded"} # {}

\* A stream the user has left is out of SyncedStreams.streams, or its
\* removeStreamFromSync call waits in waitForSyncingState.
LeftIsRemoved == \A s \in has \ joined : s \in Elements(waiting)

\* The map of the client follows the memberships of the user, however joins and
\* leaves race with loads, removals, reconnects and stop.
MapFollowsMembership == JoinedIsHeld /\ LeftIsRemoved

\* onUpdate applies an update only where the last one ended or earlier: no event is
\* skipped, unless an update could not be unpacked, the stream was added again
\* before its removal was through, or stop threw updates away.
NoSkippedEvents ==
    [][\A s \in Stream :
        Apply /\ tick.live /\ tick.item.s = s /\ ~tick.item.reset /\ tick.item.from > app[s]
            => blot[s] \intersect {"dropped", "kept", "cleared"} # {}]_vars

\* onUpdate applies events a second time only when an update was applied after its
\* session had been replaced, SYNC_DOWN overtook queued updates, a modifySync call
\* that took effect seemed to fail and was repeated, or the stream was added again
\* before its removal was through.
ReplayedOnlyByRace ==
    [][\A s \in Stream :
        Apply /\ tick.live /\ tick.item.s = s /\ ~tick.item.reset /\ tick.item.from < app[s]
            => blot[s] \intersect {"late", "overtaken", "kept", "unknown"} # {}]_vars

\* stop ends the loop, with or without an answer of the node to cancelSync.
StopCompletes == (syncState = "Canceling") ~> (syncState = "NotSyncing")

\* tick repeats requests that the node rejects as invalid.
Wedged == ~Valid(pendingSync \union (IF tick.at = "modify" THEN tick.add ELSE {}),
                 pendingDelete \o (IF tick.at = "modify" THEN tick.del ELSE <<>>))

\* Entries of inFlightSyncCookies that no response will take out.
Stranded == {s \in inFlight : "refused" \in blot[s] \/ s \notin streams}

\* What the node has of a stream of the map is applied in the end, unless it left
\* the map, the loop stops, the node refused the stream, an update of it could not be
\* unpacked, a shared syncer ignored the second add of it, or no request of tick gets
\* through: all are invalid, or refused adds fill inFlightSyncCookies.
CatchesUp ==
    \A s \in Stream :
        (s \in streams) ~>
            \/ s \notin streams \/ app[s] = pos[s] \/ Wedged
            \/ "refused" \in blot[s] \/ "dropped" \in blot[s] \/ (SharedSyncer /\ "kept" \in blot[s])
            \/ Cardinality(Stranded) > MinInFlight
            \/ syncState \in {"Canceling", "NotSyncing"}
============================================================================

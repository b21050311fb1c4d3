----------------------- MODULE SyncedStreamsExtension -----------------------
(* Loading the user's streams when the client starts                           *)
(* (packages/sdk/src/syncedStreamsExtension.ts): a queue of tasks, one task per *)
(* tick, that loads the high priority streams from the store, starts sync,      *)
(* loads the rest from the store in batches and what is left from the network,  *)
(* and reports how far it is.                                                   *)
EXTENDS Integers, Sequences, FiniteSets

CONSTANTS
    Stream,      \* the streams the user is a member of
    Other,       \* streams that may be of high priority though the user is not in them
    Priority,    \* priorityFromStreamId without the high priority ids
    BatchSize,   \* MAX_CONCURRENT_FROM_PERSISTENCE
    Fault,       \* the kinds of fault that may happen
    MaxFault,    \* bound: faults in a behaviour
    MaxSwitch,   \* bound: calls of setHighPriorityStreams
    CanStop      \* whether the application may stop the client

ASSUME ExtensionAssumption ==
    /\ IsFiniteSet(Stream)
    /\ Priority \in [Stream -> Nat]
    /\ Stream \intersect Other = {}
    /\ BatchSize \in Nat \ {0} /\ MaxFault \in Nat /\ MaxSwitch \in Nat
    /\ CanStop \in BOOLEAN

VARIABLES
    tasks,      \* tasks
    run,        \* the task of the tick in progress and what it waits for
    timeoutId,  \* timeoutId: none, set with the tick still to come, or in the tick
    recheck,    \* the setTimeout that ends a tick is pending
    requested,  \* startSyncRequested
    hp,         \* highPriorityIds
    streamIds,  \* streamIds
    rest,       \* the frozen stream ids that the step task has still to load
    count,      \* streamCountRequiringNetworkAccess
    didHp,      \* didLoadHighPriorityStreams
    didLocal,   \* didLoadStreamsFromPersistence
    status,     \* the initStatus last emitted
    stored,     \* streams that the store holds
    syncing,    \* SyncedStreams has a sync loop
    stopping,   \* Client.stop: no, waiting for the tick, done
    tried,      \* streams whose load from the network has ended
    counted,    \* counted[s]: the passes over the store that added s to count
    broken,     \* loadStreams has thrown
    faults,
    switches

progressVars == <<streamIds, count, status, tried, counted>>
tickVars == <<tasks, run, timeoutId, recheck>>
flagVars == <<didHp, didLocal>>
appVars == <<requested, hp, stopping, switches>>
vars == <<tickVars, appVars, rest, flagVars, progressVars, stored, syncing, broken, faults>>

All == Stream \union Other
NoRun == [at |-> "none"]
Smaller(m, n) == IF m < n THEN m ELSE n
Fails(kind) == kind \in Fault /\ faults < MaxFault /\ faults' = faults + 1

\* Mutant of EmitClientStatus: nothing counted yet is taken for nothing left.
EmitEarly(highPriority, local, needed) ==
    status' = [hp |-> highPriority, local |-> local, remote |-> needed = 0]

\* emitClientStatus
EmitClientStatus(highPriority, local, needed) ==
    status' = [hp |-> highPriority, local |-> local, remote |-> local /\ needed = 0]

\* Mutant of EndTick: no further tick is set up.
EndTickForGood == run' = NoRun /\ timeoutId' = "none" /\ UNCHANGED recheck

\* The end of tick: the finally block.
EndTick ==
    /\ run' = NoRun
    /\ timeoutId' = "none"
    /\ recheck' = TRUE
----------------------------------------------------------------------------
(* Ticks.                                                                      *)

\* checkStartTicking
CheckStartTicking(wanted) ==
    IF timeoutId # "none"
    THEN UNCHANGED <<timeoutId, status>>
    ELSE IF tasks = <<>> /\ ~wanted
    THEN EmitClientStatus(didHp, didLocal, count) /\ UNCHANGED timeoutId
    ELSE timeoutId' = "set" /\ UNCHANGED status

Recheck ==
    /\ recheck
    /\ recheck' = FALSE
    /\ CheckStartTicking(requested)
    /\ UNCHANGED <<tasks, run, appVars, rest, flagVars, streamIds, count, tried, counted, stored,
                   syncing, broken, faults>>

\* Timers fire in the order they were set, the one that ends a tick first.
Fires == timeoutId = "set" /\ ~recheck

\* A tick without a task.
TickIdle ==
    /\ Fires /\ tasks = <<>>
    /\ EndTick
    /\ UNCHANGED <<tasks, appVars, rest, flagVars, progressVars, stored, syncing, broken, faults>>

\* loadStreamsFromPersistence, up to loadStreams.
TickPersistence ==
    /\ Fires /\ tasks # <<>> /\ Head(tasks) = "persistence"
    /\ tasks' = Tail(tasks)
    /\ timeoutId' = "tick"
    /\ run' = [at |-> "hpRead", ids |-> hp]
    /\ UNCHANGED <<recheck, appVars, rest, flagVars, progressVars, stored, syncing, broken, faults>>

\* The streams that the sort by priority may put first.
First(set, n) ==
    LET p(s) == IF s \in hp /\ Priority[s] > 1 THEN 1 ELSE Priority[s] IN
    {T \in SUBSET set :
        /\ Cardinality(T) = Smaller(n, Cardinality(set))
        /\ \A s \in T, u \in set \ T : p(s) <= p(u)}

\* The step task, up to loadStreams.
TickStep ==
    /\ Fires /\ tasks # <<>> /\ Head(tasks) = "step"
    /\ tasks' = Tail(tasks)
    /\ IF rest = {}
       THEN EndTick /\ UNCHANGED rest
       ELSE \E batch \in First(rest, BatchSize) :
              /\ rest' = rest \ batch
              /\ run' = [at |-> "read", ids |-> batch]
              /\ timeoutId' = "tick"
              /\ UNCHANGED recheck
    /\ UNCHANGED <<appVars, flagVars, progressVars, stored, syncing, broken, faults>>

\* The task that closes the load from the store.
TickFinal ==
    /\ Fires /\ tasks # <<>> /\ Head(tasks) = "final"
    /\ tasks' = Tail(tasks)
    /\ didLocal' = TRUE
    /\ EndTick
    /\ EmitClientStatus(didHp, TRUE, count)
    /\ UNCHANGED <<didHp, streamIds, count, appVars, rest, tried, counted, stored, syncing, broken, faults>>

\* loadStreamsFromNetwork.
TickNetwork ==
    /\ Fires /\ tasks # <<>> /\ Head(tasks) = "network"
    /\ tasks' = Tail(tasks)
    /\ timeoutId' = "tick"
    /\ run' = [at |-> "network", ids |-> streamIds]
    /\ UNCHANGED <<recheck, appVars, rest, flagVars, progressVars, stored, syncing, broken, faults>>
----------------------------------------------------------------------------
(* Loads.                                                                      *)

\* loadStreams returns.  In the first task only what is stored, and still of high
\* priority, is loaded.
ReadStore ==
    /\ run.at \in {"hpRead", "read"}
    /\ run' = [at |-> IF run.at = "read" THEN "load" ELSE "hpLoad",
               ids |-> IF run.at = "read" THEN run.ids ELSE run.ids \intersect hp \intersect stored,
               allow |-> hp]
    /\ UNCHANGED <<tasks, timeoutId, recheck, appVars, rest, flagVars, progressVars, stored, syncing,
                   broken, faults>>

\* loadStreams throws, and with it the task: nothing it would have queued is queued.
ReadStoreFails ==
    /\ run.at \in {"hpRead", "read"}
    /\ Fails("store")
    /\ broken' = TRUE
    /\ run' = NoRun /\ recheck' = TRUE
    /\ timeoutId' = "none"
    /\ UNCHANGED <<tasks, appVars, rest, flagVars, progressVars, stored, syncing>>

\* loadStreamFromPersistence: initStream succeeds, with the stored data or, for a
\* stream of high priority, with getStream.
LoadStored(s) ==
    /\ run.at \in {"hpLoad", "load"} /\ s \in run.ids
    /\ s \in stored \/ s \in run.allow
    /\ run' = [run EXCEPT !.ids = @ \ {s}]
    /\ streamIds' = streamIds \ {s}
    /\ EmitClientStatus(didHp, didLocal, count)
    /\ UNCHANGED <<tasks, timeoutId, recheck, appVars, rest, flagVars, count, tried, counted, stored, syncing, broken,
                   faults>>

\* Mutant of NeedsNetwork: a stream that cannot be loaded ends the task.
NeedsNetworkThrows(s) ==
    /\ run.at \in {"hpLoad", "load"} /\ s \in run.ids
    /\ IF s \notin stored /\ s \notin run.allow THEN UNCHANGED faults ELSE Fails("init")
    /\ EndTick
    /\ UNCHANGED <<tasks, appVars, rest, flagVars, progressVars, stored, syncing, broken>>

\* There is no stored data, or initStream throws: the network will be needed.
NeedsNetwork(s) ==
    /\ run.at \in {"hpLoad", "load"} /\ s \in run.ids
    /\ IF s \notin stored /\ s \notin run.allow THEN UNCHANGED faults ELSE Fails("init")
    /\ run' = [run EXCEPT !.ids = @ \ {s}]
    /\ count' = count + 1
    /\ counted' = [counted EXCEPT ![s] = @ \union {run.at}]
    /\ EmitClientStatus(didHp, didLocal, count + 1)
    /\ UNCHANGED <<tasks, timeoutId, recheck, appVars, rest, flagVars, streamIds, tried, stored, syncing, broken>>

\* Mutant of PutFirst: push instead of unshift.
PutLast(new) == tasks' = tasks \o new

\* unshift
PutFirst(new) == tasks' = new \o tasks

\* The end of loadStreamsFromPersistence: sync starts and the next tasks are put
\* before the load from the network.
HighPriorityDone ==
    /\ run.at = "hpLoad" /\ run.ids = {}
    /\ didHp' = TRUE
    /\ EmitClientStatus(TRUE, didLocal, count)
    /\ syncing' = TRUE
    /\ PutFirst(<<"step", "final">>)
    /\ rest' = streamIds
    /\ EndTick
    /\ UNCHANGED <<appVars, didLocal, streamIds, count, tried, counted, stored, broken, faults>>

\* The end of a step: do the next few.
StepDone ==
    /\ run.at = "load" /\ run.ids = {}
    /\ PutFirst(<<"step">>)
    /\ EndTick
    /\ UNCHANGED <<appVars, rest, flagVars, progressVars, stored, syncing, broken, faults>>

\* loadStreamFromNetwork: the count goes down whether initStream succeeds or not.
LoadNetwork(s) ==
    /\ run.at = "network" /\ s \in run.ids
    /\ run' = [run EXCEPT !.ids = @ \ {s}]
    /\ \/ streamIds' = streamIds \ {s} /\ UNCHANGED faults
       \/ Fails("init") /\ UNCHANGED streamIds
    /\ tried' = tried \union {s}
    /\ count' = count - 1
    /\ EmitClientStatus(didHp, didLocal, count - 1)
    /\ UNCHANGED <<tasks, timeoutId, recheck, appVars, rest, flagVars, counted, stored, syncing, broken>>

NetworkDone ==
    /\ run.at = "network" /\ run.ids = {}
    /\ EndTick
    /\ EmitClientStatus(didHp, didLocal, count)
    /\ UNCHANGED <<tasks, appVars, rest, flagVars, count, streamIds, tried, counted, stored, syncing, broken, faults>>
----------------------------------------------------------------------------
(* The application.                                                            *)

\* Client.startSync: setStartSyncRequested(true).
StartSync ==
    /\ ~requested /\ stopping = "no"
    /\ requested' = TRUE
    /\ CheckStartTicking(TRUE)
    /\ UNCHANGED <<tasks, run, recheck, hp, stopping, switches, rest, flagVars, streamIds, count, tried,
                   counted, stored, syncing, broken, faults>>

SetHighPriorityStreams(ids) ==
    /\ switches < MaxSwitch
    /\ switches' = switches + 1
    /\ hp' = ids
    /\ UNCHANGED <<tickVars, requested, stopping, rest, flagVars, progressVars, stored, syncing, broken,
                   faults>>

\* Client.stop: stopTicking, up to the await of the tick in progress.
Stop ==
    /\ CanStop /\ stopping = "no"
    /\ stopping' = "waiting"
    /\ timeoutId' = "none"
    /\ UNCHANGED <<tasks, run, recheck, requested, hp, switches, rest, flagVars, progressVars, stored,
                   syncing, broken, faults>>

\* Mutant of StopDone: the tick in progress is not awaited.
StopAtOnce ==
    /\ stopping = "waiting"
    /\ stopping' = "done" /\ requested' = FALSE /\ syncing' = FALSE
    /\ UNCHANGED <<tickVars, hp, switches, rest, flagVars, progressVars, stored, broken, faults>>

\* The rest of Client.stop: stopSync.
StopDone ==
    /\ stopping = "waiting" /\ run = NoRun
    /\ stopping' = "done"
    /\ requested' = FALSE
    /\ syncing' = FALSE
    /\ UNCHANGED <<tickVars, hp, switches, rest, flagVars, progressVars, stored, broken, faults>>
----------------------------------------------------------------------------
\* After setStreamIds and start.
Init ==
    /\ tasks = <<"persistence", "network">>
    /\ run = NoRun /\ timeoutId = "set" /\ recheck = FALSE
    /\ requested = FALSE /\ hp \in SUBSET All
    /\ streamIds = Stream /\ rest = {} /\ count = 0
    /\ didHp = FALSE /\ didLocal = FALSE
    /\ status = [hp |-> FALSE, local |-> FALSE, remote |-> FALSE]
    /\ stored \in SUBSET All
    /\ syncing = FALSE /\ stopping = "no"
    /\ tried = {} /\ counted = [s \in All |-> {}] /\ broken = FALSE
    /\ faults = 0 /\ switches = 0

Tick == TickIdle \/ TickPersistence \/ TickStep \/ TickFinal \/ TickNetwork

Progress(s) == LoadStored(s) \/ NeedsNetwork(s) \/ LoadNetwork(s)

Next ==
    \/ Recheck \/ Tick
    \/ ReadStore \/ ReadStoreFails
    \/ \E s \in All : Progress(s)
    \/ HighPriorityDone \/ StepDone \/ NetworkDone
    \/ StartSync \/ Stop \/ StopDone
    \/ \E ids \in SUBSET All : SetHighPriorityStreams(ids)

Spec == Init /\ [][Next]_vars

\* Timers fire and loads end; faults and calls of the application need not happen.
Fairness ==
    /\ WF_vars(Recheck) /\ WF_vars(Tick) /\ WF_vars(ReadStore)
    /\ WF_vars(\E s \in All : Progress(s))
    /\ WF_vars(HighPriorityDone \/ StepDone \/ NetworkDone)
    /\ WF_vars(StopDone)

FairSpec == Spec /\ Fairness
----------------------------------------------------------------------------
\* The variables keep their types.
TypeOK ==
    /\ timeoutId \in {"none", "set", "tick"}
    /\ \A i \in DOMAIN tasks : tasks[i] \in {"persistence", "step", "final", "network"}
    /\ run.at \in {"none", "hpRead", "hpLoad", "read", "load", "network"}
    /\ streamIds \subseteq Stream /\ rest \subseteq Stream /\ hp \subseteq All
    /\ count \in Int /\ (~broken => count >= 0)
    /\ counted \in [All -> SUBSET {"hpLoad", "load"}]
    /\ {recheck, requested, didHp, didLocal, syncing, broken} \subseteq BOOLEAN

\* The load from the network begins only after every stream the store may hold has
\* been looked up there, though it was queued first.
NetworkIsLast ==
    run.at = "network" /\ ~broken => didHp /\ didLocal /\ rest = {}

\* isRemoteDataLoaded is reported only when every stream is loaded or its load from
\* the network has failed.
RemoteLoadedIsTrue ==
    status.remote /\ ~broken => streamIds \subseteq tried

\* A stream has failed in the pass over the high priority streams.  It is tried
\* again in the second pass and counted whether or not that succeeds.
FirstPassFailed == \E s \in All : "hpLoad" \in counted[s]

\* No sync loop is left after stop, wherever in the loading it came.
StopEndsSync == stopping = "done" => ~syncing

\* Sync starts, whatever cannot be loaded, unless loadStreams throws or the client
\* is stopped.
SyncStarts == <>(syncing \/ broken \/ stopping # "no")

\* isRemoteDataLoaded is reported in the end, even if streams cannot be loaded at all,
\* unless loadStreams throws, the client is stopped or a stream fails in the first
\* pass.
RemoteLoaded ==
    <>(status.remote \/ broken \/ stopping # "no" \/ FirstPassFailed)

\* "This means that we're finished. Ticking stops here."
TickingStops == <>[](timeoutId = "none" /\ ~recheck)
============================================================================

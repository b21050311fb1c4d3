-------------------------- MODULE Reconciliation ---------------------------
(***************************************************************************)
(* The scheduler of reconciliation tasks of one node                       *)
(* (stream_sync_task.go, the retry loop of stream_cache.go): requests to   *)
(* bring local streams up to their records in the registry are merged into *)
(* at most one running and one next task per stream, run by worker pools,  *)
(* and tasks that failed for lack of a peer are retried.                   *)
(*                                                                         *)
(* A stream record is abstracted to its last miniblock number, the chain   *)
(* of a local stream to its last number, -1 when it has no genesis yet.    *)
(* A worker pool runs its tasks in any order: the pools have many workers. *)
(* Two tasks in the same state have the same effect and are one element of *)
(* tasks; TasksMatchEntries shows there never are two for reconciliation.  *)
(***************************************************************************)
EXTENDS Integers, Sequences

CONSTANTS
    Stream,      \* streams local to the node
    MaxNum,      \* bound on miniblock numbers
    Errors,      \* ways tasks fail in this instance: "retry", "fatal", "registry"
    MaxFailures, \* bound on failures
    InitialPool, \* whether Start reconciles all streams (InitialWorkerPoolSize > 0)
    Shutdown     \* whether the node may be shut down

ASSUME ReconciliationAssumption ==
    /\ MaxNum \in Nat /\ MaxFailures \in Nat
    /\ Errors \subseteq {"retry", "fatal", "registry"}
    /\ InitialPool \in BOOLEAN /\ Shutdown \in BOOLEAN

VARIABLES
    record,    \* last miniblock number in the registry
    local,     \* last miniblock number in the local storage
    scheduled, \* scheduledGetRecordTasks
    entry,     \* scheduledReconciliationTasks
    tasks,     \* tasks in the worker pools, queued or running
    retry,     \* retryableReconcilationTasks, oldest first
    retrier,   \* the retry loop of onBlockWithLogs
    stopped,   \* StreamCache.stopped
    closed,    \* worker pools that were stopped
    panicked,  \* closed pools a task was submitted to
    failures,  \* number of failures so far
    wanted,    \* the greatest number a sync was requested for
    raced,     \* streams whose task failed while the retry loop had their item
    dropped    \* streams a task of which ended with an error that is not retried

vars == <<record, local, scheduled, entry, tasks, retry, retrier, stopped, closed,
          panicked, failures, wanted, raced, dropped>>

Nil == -1
Num == Nil .. MaxNum
Pool == {"initial", "online"}

NotLoaded == [inProgress |-> Nil, next |-> Nil]

Task == [kind : {"getRecord", "reconcile"}, stream : Stream, pool : Pool,
         pc : {"queued", "read", "submit", "sync", "done", "failed"}, rec : Num]

NewTask(kind, s, pool) ==
    [kind |-> kind, stream |-> s, pool |-> pool, pc |-> "queued", rec |-> Nil]

Item == [stream : Stream, num : Num, due : BOOLEAN]

Idle == [pc |-> "idle", stream |-> Nil, num |-> Nil]

Later(a, b) == IF a > b THEN a ELSE b

----------------------------------------------------------------------------
(* Mutant: tasks are submitted although the node was stopped. *)
SubmitToPoolAlways(kept, pool, ts) ==
    /\ panicked' = panicked \cup (IF ts = {} THEN {} ELSE closed \cap {pool})
    /\ tasks' = IF pool \in closed THEN kept ELSE kept \cup ts

(* submitToPool: the tasks kept and the new ones ts.  Submitting to a pool *)
(* that was stopped panics.                                                *)
SubmitToPool(kept, pool, ts) ==
    /\ panicked' = panicked \cup (IF stopped \/ ts = {} THEN {} ELSE closed \cap {pool})
    /\ tasks' = IF stopped \/ pool \in closed THEN kept ELSE kept \cup ts

(* Mutant: a newer record replaces the one in progress. *)
MergedInPlace(e, rec) ==
    CASE e = NotLoaded                              -> [e EXCEPT !.next = rec]
      [] e.inProgress # Nil /\ e.inProgress < rec   -> [e EXCEPT !.inProgress = rec]
      [] e.inProgress = Nil /\ e.next < rec         -> [e EXCEPT !.next = rec]
      [] OTHER                                      -> e

(* How a submitted record changes the entry of its stream. *)
Merged(e, rec) ==
    CASE e = NotLoaded                              -> [e EXCEPT !.next = rec]
      [] e.inProgress # Nil /\ e.inProgress >= rec  -> e
      [] e.next # Nil /\ e.next >= rec              -> e
      [] OTHER                                      -> [e EXCEPT !.next = rec]

(* submitReconciliationTask, kept being the tasks that remain *)
SubmitReconciliation(kept, s, rec, pool) ==
    /\ entry' = [entry EXCEPT ![s] = Merged(@, rec)]
    /\ SubmitToPool(kept, pool, IF entry[s] = NotLoaded
                                THEN {NewTask("reconcile", s, pool)} ELSE {})

(* retryableReconciliationTasks.Add *)
AddRetry(q, s, rec) ==
    LET item == [stream |-> s, num |-> rec, due |-> FALSE]
    IN  IF \E i \in 1 .. Len(q) : q[i].stream = s
        THEN [i \in 1 .. Len(q) |->
                 IF q[i].stream = s /\ q[i].num < rec THEN item ELSE q[i]]
        ELSE Append(q, item)

(* retryableReconciliationTasks.Remove *)
RemoveRetry(q, item) ==
    LET old == {i \in 1 .. Len(q) : q[i].stream = item.stream /\ q[i].num <= item.num}
        at == CHOOSE i \in old : TRUE
    IN  IF old = {} THEN q
        ELSE [i \in 1 .. Len(q) - 1 |-> IF i < at THEN q[i] ELSE q[i + 1]]

----------------------------------------------------------------------------
(* Start submits a task for every local stream to the initial pool. *)
Init ==
    /\ record = [s \in Stream |-> 0]
    /\ local = [s \in Stream |-> Nil]
    /\ scheduled = {}
    /\ entry = [s \in Stream |-> IF InitialPool THEN Merged(NotLoaded, 0) ELSE NotLoaded]
    /\ tasks = IF InitialPool THEN {NewTask("reconcile", s, "initial") : s \in Stream}
               ELSE {}
    /\ retry = <<>>
    /\ retrier = Idle
    /\ stopped = FALSE /\ closed = {} /\ panicked = {}
    /\ failures = 0
    /\ wanted = [s \in Stream |-> IF InitialPool THEN 0 ELSE Nil]
    /\ raced = {} /\ dropped = {}

(* Start: go initialSyncWorkerPool.StopWait().  Queued tasks still run. *)
CloseInitialPool ==
    /\ "initial" \notin closed
    /\ closed' = closed \cup {"initial"}
    /\ UNCHANGED <<record, local, scheduled, entry, tasks, retry, retrier, stopped,
                   panicked, failures, wanted, raced, dropped>>

(* The registry accepts the next miniblock of a stream. *)
Register(s) ==
    /\ record[s] < MaxNum
    /\ record' = [record EXCEPT ![s] = @ + 1]
    /\ UNCHANGED <<local, scheduled, entry, tasks, retry, retrier, stopped, closed,
                   panicked, failures, wanted, raced, dropped>>

(* A stream with its genesis advances without reconciliation (promotion). *)
Promote(s) ==
    /\ local[s] # Nil /\ local[s] < record[s]
    /\ local' = [local EXCEPT ![s] = @ + 1]
    /\ UNCHANGED <<record, scheduled, entry, tasks, retry, retrier, stopped, closed,
                   panicked, failures, wanted, raced, dropped>>

(* SubmitSyncStreamTask without a record: submitGetRecordTask.  Callers    *)
(* want at least what the registry has now.                                *)
SubmitGetRecord(s) ==
    /\ panicked = {}
    /\ wanted' = [wanted EXCEPT ![s] = record[s]]
    /\ scheduled' = scheduled \cup {s}
    /\ SubmitToPool(tasks, "online", IF s \in scheduled THEN {}
                                     ELSE {NewTask("getRecord", s, "online")})
    /\ UNCHANGED <<record, local, entry, retry, retrier, stopped, closed, failures, raced, dropped>>

(* SubmitSyncStreamTask with the record of a registry event. *)
SubmitRecord(s) ==
    /\ panicked = {}
    /\ wanted' = [wanted EXCEPT ![s] = record[s]]
    /\ SubmitReconciliation(tasks, s, record[s], "online")
    /\ UNCHANGED <<record, local, scheduled, retry, retrier, stopped, closed, failures,
                   raced, dropped>>

----------------------------------------------------------------------------
(* A task t of a pool makes a step.                                        *)

Runs(t, kind, pc) == t \in tasks /\ t.kind = kind /\ t.pc = pc /\ panicked = {}

Becomes(t, pc, rec) == tasks' = (tasks \ {t}) \cup {[t EXCEPT !.pc = pc, !.rec = rec]}

(* Mutant: the request stays marked as scheduled. *)
KeepScheduled(s) == scheduled

(* getRecordTask: a request from now on schedules another task. *)
Unscheduled(s) == scheduled \ {s}

GetRecordStart(t) ==
    /\ Runs(t, "getRecord", "queued")
    /\ scheduled' = Unscheduled(t.stream)
    /\ Becomes(t, "read", Nil)
    /\ UNCHANGED <<record, local, entry, retry, retrier, stopped, closed, panicked,
                   failures, wanted, raced, dropped>>

GetRecordRead(t) ==
    /\ Runs(t, "getRecord", "read")
    /\ Becomes(t, "submit", record[t.stream])
    /\ UNCHANGED <<record, local, scheduled, entry, retry, retrier, stopped, closed,
                   panicked, failures, wanted, raced, dropped>>

(* The registry cannot be read: the request is dropped. *)
GetRecordFails(t) ==
    /\ Runs(t, "getRecord", "read")
    /\ "registry" \in Errors /\ failures < MaxFailures
    /\ failures' = failures + 1
    /\ tasks' = tasks \ {t}
    /\ dropped' = dropped \cup {t.stream}
    /\ UNCHANGED <<record, local, scheduled, entry, retry, retrier, stopped, closed,
                   panicked, wanted, raced>>

GetRecordSubmit(t) ==
    /\ Runs(t, "getRecord", "submit")
    /\ SubmitReconciliation(tasks \ {t}, t.stream, t.rec, t.pool)
    /\ UNCHANGED <<record, local, scheduled, retry, retrier, stopped, closed, failures,
                   wanted, raced, dropped>>

(* reconciliationTask takes the next record of its entry. *)
ReconcileStart(t) ==
    LET e == entry[t.stream]
    IN  /\ Runs(t, "reconcile", "queued")
        /\ e.inProgress = Nil /\ e.next # Nil
        /\ entry' = [entry EXCEPT ![t.stream] = [inProgress |-> e.next, next |-> Nil]]
        /\ Becomes(t, "sync", e.next)
        /\ UNCHANGED <<record, local, scheduled, retry, retrier, stopped, closed,
                       panicked, failures, wanted, raced, dropped>>

(* Miniblocks up to the record are imported, if they are missing. *)
SyncedTo(num, rec) == Later(num, rec)

(* syncStreamFromPeers: the stream has, or gets, all miniblocks. *)
SyncOk(t) ==
    /\ Runs(t, "reconcile", "sync")
    /\ local' = [local EXCEPT ![t.stream] = SyncedTo(@, t.rec)]
    /\ Becomes(t, "done", t.rec)
    /\ UNCHANGED <<record, scheduled, entry, retry, retrier, stopped, closed, panicked,
                   failures, wanted, raced, dropped>>

(* syncStreamFromPeers fails after some pages.  An error that is neither   *)
(* UNAVAILABLE nor DOWNSTREAM_NETWORK_ERROR ends the task as it is.        *)
SyncFails(t, err, k) ==
    /\ Runs(t, "reconcile", "sync")
    /\ local[t.stream] < t.rec
    /\ failures < MaxFailures
    /\ failures' = failures + 1
    /\ k \in local[t.stream] .. t.rec - 1
    /\ local' = [local EXCEPT ![t.stream] = k]
    /\ err \in Errors \cap {"retry", "fatal"}
    /\ IF err = "retry" THEN Becomes(t, "failed", t.rec) ELSE tasks' = tasks \ {t}
    /\ dropped' = IF err = "retry" THEN dropped ELSE dropped \cup {t.stream}
    /\ UNCHANGED <<record, scheduled, entry, retry, retrier, stopped, closed, panicked,
                   wanted, raced>>

(* Mutant: the next record is forgotten with the entry. *)
RecordToRetryCurrent(e, rec) == rec

RecordToRetry(e, rec) == IF e.next > rec THEN e.next ELSE Later(rec, e.inProgress)

(* The entry moves to the tasks to retry. *)
RetryLater(t) ==
    LET s == t.stream
    IN  /\ Runs(t, "reconcile", "failed")
        /\ retry' = AddRetry(retry, s, RecordToRetry(entry[s], t.rec))
        /\ entry' = [entry EXCEPT ![s] = NotLoaded]
        /\ tasks' = tasks \ {t}
        /\ raced' = IF retrier.pc = "remove" /\ retrier.stream = s
                    THEN raced \cup {s} ELSE raced
        /\ UNCHANGED <<record, local, scheduled, retrier, stopped, closed, panicked,
                       failures, wanted, dropped>>

(* The entry after a successful task. *)
AfterSuccess(e) == [e EXCEPT !.inProgress = Nil]

(* reconciliationTask ends; with a next record it submits itself again to  *)
(* the same pool.                                                          *)
ReconcileDone(t) ==
    LET e == AfterSuccess(entry[t.stream])
    IN  /\ Runs(t, "reconcile", "done")
        /\ entry[t.stream].inProgress = t.rec
        /\ entry' = [entry EXCEPT ![t.stream] = e]
        /\ SubmitToPool(tasks \ {t}, t.pool,
                        IF e.next # Nil THEN {NewTask("reconcile", t.stream, t.pool)}
                        ELSE {})
        /\ UNCHANGED <<record, local, scheduled, retry, retrier, stopped, closed,
                       failures, wanted, raced, dropped>>

----------------------------------------------------------------------------
(* The retry loop of onBlockWithLogs.                                      *)

(* Time passes: the retryAfter of an item is over. *)
BecomesDue(i) ==
    /\ i \in 1 .. Len(retry) /\ ~ retry[i].due
    /\ retry' = [retry EXCEPT ![i].due = TRUE]
    /\ UNCHANGED <<record, local, scheduled, entry, tasks, retrier, stopped, closed,
                   panicked, failures, wanted, raced, dropped>>

Peek ==
    /\ panicked = {}
    /\ retrier.pc = "idle"
    /\ retry # <<>> /\ Head(retry).due
    /\ retrier' = [pc |-> "submit", stream |-> Head(retry).stream, num |-> Head(retry).num]
    /\ UNCHANGED <<record, local, scheduled, entry, tasks, retry, stopped, closed,
                   panicked, failures, wanted, raced, dropped>>

Resubmit ==
    /\ panicked = {}
    /\ retrier.pc = "submit"
    /\ retrier' = [retrier EXCEPT !.pc = "remove"]
    /\ SubmitReconciliation(tasks, retrier.stream, retrier.num, "online")
    /\ UNCHANGED <<record, local, scheduled, retry, stopped, closed, failures, wanted,
                   raced, dropped>>

Remove ==
    /\ panicked = {}
    /\ retrier.pc = "remove"
    /\ retry' = RemoveRetry(retry, retrier)
    /\ retrier' = Idle
    /\ UNCHANGED <<record, local, scheduled, entry, tasks, stopped, closed, panicked,
                   failures, wanted, raced, dropped>>

----------------------------------------------------------------------------
(* The node is shut down: stopped is set first, then the pools are stopped *)
(* and drop their queues.                                                  *)
SetStopped ==
    /\ Shutdown /\ ~ stopped
    /\ stopped' = TRUE
    /\ UNCHANGED <<record, local, scheduled, entry, tasks, retry, retrier, closed,
                   panicked, failures, wanted, raced, dropped>>

StopPools ==
    /\ stopped /\ closed # Pool
    /\ closed' = Pool
    /\ tasks' = {t \in tasks : t.pc # "queued"}
    /\ UNCHANGED <<record, local, scheduled, entry, retry, retrier, stopped, panicked,
                   failures, wanted, raced, dropped>>

TaskStep(t) ==
    \/ GetRecordStart(t) \/ GetRecordRead(t) \/ GetRecordFails(t) \/ GetRecordSubmit(t)
    \/ ReconcileStart(t) \/ SyncOk(t) \/ RetryLater(t) \/ ReconcileDone(t)
    \/ \E err \in {"retry", "fatal"}, k \in Num : SyncFails(t, err, k)

Next ==
    \/ CloseInitialPool \/ SetStopped \/ StopPools
    \/ \E s \in Stream :
          Register(s) \/ Promote(s) \/ SubmitGetRecord(s) \/ SubmitRecord(s)
    \/ \E t \in tasks : TaskStep(t)
    \/ \E i \in 1 .. Len(retry) : BecomesDue(i)
    \/ Peek \/ Resubmit \/ Remove

Spec == Init /\ [][Next]_vars

(* The pools run their tasks, chain blocks keep coming and time passes. *)
Fairness ==
    /\ \A s \in Stream :
        /\ \A pc \in {"queued", "read", "submit"} :
              WF_vars(\E t \in tasks : /\ t.stream = s /\ t.kind = "getRecord" /\ t.pc = pc
                                       /\ TaskStep(t))
        /\ WF_vars(\E t \in tasks : t.stream = s /\ t.kind = "reconcile" /\ TaskStep(t))
    /\ WF_vars(\E i \in 1 .. Len(retry) : BecomesDue(i))
    /\ WF_vars(Peek) /\ WF_vars(Resubmit) /\ WF_vars(Remove)

FairSpec == Spec /\ Fairness

----------------------------------------------------------------------------
(* Type invariant. *)
TypeOK ==
    /\ record \in [Stream -> Num] /\ local \in [Stream -> Num]
    /\ scheduled \subseteq Stream
    /\ entry \in [Stream -> [inProgress : Num, next : Num]]
    /\ tasks \subseteq Task
    /\ retry \in Seq(Item)
    /\ retrier.pc \in {"idle", "submit", "remove"}
    /\ stopped \in BOOLEAN /\ closed \subseteq Pool /\ panicked \subseteq Pool
    /\ failures \in Nat /\ wanted \in [Stream -> Num] /\ raced \subseteq Stream
    /\ dropped \subseteq Stream

(* TasksMatchEntries: a stream has at most one reconciliation task; a      *)
(* queued one finds a next record and none in progress, a running one the  *)
(* record it works on.  So reconciliationTask never logs a corrupt task    *)
(* ("double submission?") and two tasks never import into one stream.      *)
TasksMatchEntries ==
    \A s \in Stream :
        LET ts == {t \in tasks : t.kind = "reconcile" /\ t.stream = s}
        IN  /\ \A t, u \in ts : t = u
            /\ \A t \in ts :
                  IF t.pc = "queued"
                  THEN entry[s].inProgress = Nil /\ entry[s].next # Nil
                  ELSE entry[s].inProgress = t.rec /\ t.rec # Nil

(* OnlinePoolOpen: no task is submitted to the online worker pool after it *)
(* was stopped, since submitToPool reads stopped under the lock Start sets *)
(* it under; only the initial pool, which is closed while its tasks still  *)
(* schedule their successors, can be submitted to too late.                *)
OnlinePoolOpen == "online" \notin panicked

(* What is on its way to bring s to number k. *)
Underway(s, k) ==
    \/ local[s] >= k
    \/ s \in scheduled
    \/ entry[s].inProgress >= k \/ entry[s].next >= k
    \/ \E t \in tasks : t.stream = s /\ t.kind = "getRecord" /\ (t.pc = "read" \/ t.rec >= k)
    \/ \E i \in 1 .. Len(retry) : retry[i].stream = s /\ retry[i].num >= k

(* LostOnlyInRetryLoop: a request for a record is in some task, or in the  *)
(* set of tasks to retry, until it is served or its task ends with an      *)
(* error that is not retried; the one other way to lose it, but for a      *)
(* shutdown, is a task failing between the Submit and the Remove of the    *)
(* retry loop.                                                             *)
LostOnlyInRetryLoop ==
    stopped \/ panicked # {} \/ \A s \in Stream : Underway(s, wanted[s]) \/ s \in raced \cup dropped

(* CatchesUp: the local stream comes up to what was requested of it again  *)
(* and again, however requests, records and failures interleave.           *)
CatchesUp == \A s \in Stream : []<>(local[s] >= wanted[s] \/ s \in raced)

(* CatchesUpUnlessDropped: the same of a stream none of whose tasks ended  *)
(* with an error that is not retried, while the node runs.                 *)
CatchesUpUnlessDropped ==
    \A s \in Stream : []<>(\/ local[s] >= wanted[s] \/ s \in raced \cup dropped
                          \/ stopped \/ panicked # {})
============================================================================

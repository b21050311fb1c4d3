------------------------- MODULE StreamReplication -------------------------
(***************************************************************************)
(* One replicated stream of the River node (core/node/events): the nodes   *)
(* that hold a replica, the StreamRegistry contract that decides which     *)
(* miniblock comes next, and the messages between them.                    *)
(*                                                                         *)
(* Events reach the minipools of the replicas; a node that believes it is  *)
(* the leader runs an mbJob that gathers proposals, builds a candidate,    *)
(* saves it on a quorum and registers it; every replica promotes the       *)
(* registered candidate when it sees the contract event, or fetches it     *)
(* from a peer.  Calls are lost, late and repeated; nodes crash and        *)
(* restart; views are unloaded from the cache.                             *)
(*                                                                         *)
(* Minipools and miniblocks are sets of events: the order of the events    *)
(* inside a miniblock is left out.  Reading and writing the local database *)
(* is one atomic step of the stream.                                       *)
(***************************************************************************)
EXTENDS Integers, Sequences, FiniteSets, FiniteSetsExt

CONSTANTS
    Node,               \* the quorum nodes of the stream
    Event,              \* the events clients may add
    Hash,               \* the hashes candidates may get: bounds candidates
    Genesis,            \* hash of the genesis miniblock (number 0)
    NoHash,
    MinSnapshotEvents,  \* on-chain setting stream.minSnapshotEvents
    RecencyGen,         \* on-chain setting stream.recencyConstraints.generations
    Producer,           \* nodes that may find themselves leader of the stream
    CacheExpires,       \* nodes whose idle views may expire from the cache
    MaxCrash,           \* bound on restarts
    Unreliable          \* calls between nodes may be lost or time out

ASSUME ConstantsAssumption ==
    /\ IsFiniteSet(Node) /\ Cardinality(Node) > 1
    /\ Genesis \notin Hash /\ NoHash \notin Hash /\ NoHash # Genesis
    /\ MinSnapshotEvents \in Nat /\ RecencyGen \in Nat /\ MaxCrash \in Nat
    /\ Producer \subseteq Node
    /\ CacheExpires \subseteq Node /\ Unreliable \in BOOLEAN

NotLoaded == -1         \* the view of the stream is not in the cache
MaxPending == 4         \* schedulePromotionLocked refuses a fifth

VARIABLES
    mb,       \* the miniblocks ever built: hash -> header
    log,      \* the miniblocks the registry accepted, in order
    stream,   \* replica of each node: chain, pool, cand stored; first, pending cached
    seen,     \* number of registry events each node has processed
    getrec,   \* nodes with a scheduled getRecordTask
    recon,    \* miniblock number each node is reconciling up to, 0 if none
    job,      \* the mbJob of each node
    saves,    \* SaveMiniblockCandidate calls under way: <<hash, node>>
    writes,   \* saves past tryApplyCandidate that still have to store
    txs,      \* hashes in SetStreamLastMiniblockBatch transactions not mined yet
    ref,      \* miniblock each submitted event refers to, NoHash if unsubmitted
    crashes   \* restarts so far

vars == <<mb, log, stream, seen, getrec, recon, job, saves, writes, txs, ref,
          crashes>>

----------------------------------------------------------------------------
(* Quorum sizes (quorum_pool.go). *)

N == Cardinality(Node)

TotalQuorumNum(n) == (n + 1) \div 2

RemoteQuorumNum(n) == TotalQuorumNum(n + 1) - 1      \* local = true

----------------------------------------------------------------------------
(* Miniblocks and chains.  A chain is the sequence of the hashes of the    *)
(* miniblocks 1, 2, ...; the genesis miniblock is implicit, has no event   *)
(* and is a snapshot.                                                      *)

Header == [num : Nat, prev : Hash \cup {Genesis}, events : SUBSET Event,
           snap : BOOLEAN]

Num(h) == IF h = Genesis THEN 0 ELSE mb[h].num

At(chain, i) == IF i = 0 THEN Genesis ELSE chain[i]

LastHash(chain) == At(chain, Len(chain))

EventsOf(chain, from) == UNION {mb[chain[i]].events : i \in from .. Len(chain)}

Held(n) == stream[n].pool \cup EventsOf(stream[n].chain, 1)

SnapshotNums(chain) == {0} \cup {i \in 1 .. Len(chain) : mb[chain[i]].snap}

(* shouldSnapshot: events in the minipool and in the blocks after the last snapshot *)
ShouldSnapshot(chain, pool) ==
    LET since == Max(SnapshotNums(chain)) + 1 .. Len(chain)
    IN  Cardinality(pool)
          + MapThenSumSet(LAMBDA i : Cardinality(mb[chain[i]].events), since)
        >= MinSnapshotEvents

----------------------------------------------------------------------------
(* The replica of one node (stream.go, stream_view.go).                    *)

Stream == [chain : Seq(Hash), first : Nat \cup {NotLoaded},
           pool : SUBSET Event, cand : SUBSET Hash, pending : Seq(Hash)]

(* lockMuAndLoadView: the cached view, read from storage if need be *)
Loaded(s) ==
    LET recent == Max({0, Len(s.chain) - (Max({1, RecencyGen}) - 1)})
    IN  IF s.first # NotLoaded THEN s
        ELSE [s EXCEPT !.first = Min({recent, Max(SnapshotNums(s.chain))})]

(* setViewLocked: scheduled promotions the new view already has are dropped *)
DropApplied(pending, last) ==
    LET keep == {i \in 1 .. Len(pending) : Num(pending[i]) > last}
    IN  IF keep = {} THEN <<>> ELSE SubSeq(pending, Min(keep), Len(pending))

(* copyAndApplyBlock accepts the blocks hs, in this order *)
CanApply(s, hs) ==
    \A i \in 1 .. Len(hs) :
        /\ mb[hs[i]].num = Len(s.chain) + i
        /\ mb[hs[i]].prev = At(s.chain \o hs, Len(s.chain) + i - 1)

(* The minipool events the blocks do not contain stay in the minipool. *)
RemainingPool(s, hs) == s.pool \ EventsOf(hs, 1)

(* The view and the storage after the blocks hs: copyAndApplyBlock for     *)
(* each of them, one WriteMiniblocks, setViewLocked.                       *)
Apply(s, hs) ==
    LET last == Len(s.chain) + Len(hs)
        snaps == {i \in 1 .. Len(hs) : mb[hs[i]].snap}
    IN  [chain   |-> s.chain \o hs,
         first   |-> Max({s.first} \cup {mb[hs[i]].num - RecencyGen : i \in snaps}),
         pool    |-> RemainingPool(s, hs),
         cand    |-> {h \in s.cand : mb[h].num > last},
         pending |-> DropApplied(s.pending, last)]

(* applyMiniblockImplLocked, importMiniblocksLocked: a block that is       *)
(* already there is ignored, one that does not fit is an error.            *)
ApplyMiniblock(s, h) ==
    IF mb[h].num > Len(s.chain) /\ CanApply(s, <<h>>) THEN Apply(s, <<h>>) ELSE s

(* schedulePromotionLocked; the answer sync is STREAM_RECONCILIATION_REQUIRED *)
SchedulePromotion(s, h) ==
    LET next == IF s.pending = <<>> THEN Len(s.chain) + 1
                ELSE mb[s.pending[Len(s.pending)]].num + 1
    IN  IF Len(s.pending) < MaxPending /\ mb[h].num = next
        THEN [stream |-> [s EXCEPT !.pending = Append(@, h)], sync |-> FALSE]
        ELSE [stream |-> s, sync |-> TRUE]

(* promoteCandidateLocked *)
PromoteCandidate(s, h) ==
    CASE mb[h].num <= Len(s.chain) -> [stream |-> s, sync |-> FALSE]
      [] mb[h].num = Len(s.chain) + 1 /\ h \in s.cand ->
            [stream |-> ApplyMiniblock(s, h), sync |-> FALSE]
      [] OTHER -> SchedulePromotion(s, h)

(* tryApplyCandidate, h being the head of pending: it is imported and the  *)
(* promotions scheduled behind it are applied while their candidates are   *)
(* in storage.                                                             *)
ReadyPending(s) ==
    {i \in 1 .. Len(s.pending) :
        /\ \A j \in 2 .. i : s.pending[j] \in s.cand
        /\ CanApply(s, SubSeq(s.pending, 1, i))}

ApplyPending(s) == Apply(s, SubSeq(s.pending, 1, Max(ReadyPending(s))))

(* ValidateNextEvent with the recency check by time disabled *)
ValidateNextEvent(s, e) ==
    LET num == Num(ref[e])
    IN  CASE num > Len(s.chain)           -> "MINIBLOCK_TOO_NEW"
          [] num < s.first                -> "BAD_PREV_MINIBLOCK_HASH"
          [] At(s.chain, num) # ref[e]    -> "DATA_LOSS"
          [] e \in EventsOf(s.chain, num + 1) \cup s.pool -> "DUPLICATE_EVENT"
          [] OTHER                        -> "OK"

----------------------------------------------------------------------------
(* Miniblock production jobs (miniblock_job.go).                           *)

Proposal == [from : Node, events : SUBSET Event, snap : BOOLEAN]

Job == [pc : {"idle", "scheduled", "gather", "add", "save", "submit", "ok", "bad"},
        num : Nat, prev : Hash \cup {Genesis}, local : SUBSET Event,
        props : SUBSET Proposal, failed : SUBSET Node, tooOld : BOOLEAN,
        view : SUBSET Event, stale : BOOLEAN, todo : SUBSET Event,
        hash : Hash \cup {NoHash}, acks : SUBSET Node]

IdleJob == [pc |-> "idle", num |-> 0, prev |-> Genesis, local |-> {},
            props |-> {}, failed |-> {}, tooOld |-> FALSE,
            view |-> {}, stale |-> FALSE, todo |-> {},
            hash |-> NoHash, acks |-> {}]

(* Mutant: the job stays in flight. *)
JobNotDone(n) == UNCHANGED job

(* jobDone: the stream may be scheduled again. *)
JobDone(n) == job' = [job EXCEPT ![n] = IdleJob]

(* combineProposals: what a quorum of the proposals has *)
CombinedEvents(props) ==
    {e \in Event : Cardinality({p \in props : e \in p.events}) >= TotalQuorumNum(N + 1)}

CombinedSnapshot(props) ==
    Cardinality({p \in props : p.snap}) >= TotalQuorumNum(N + 1)

----------------------------------------------------------------------------
Init ==
    /\ mb = [h \in {} |-> IdleJob]
    /\ log = <<>>
    /\ stream = [n \in Node |-> [chain |-> <<>>, first |-> 0, pool |-> {},
                                 cand |-> {}, pending |-> <<>>]]
    /\ seen = [n \in Node |-> 0]
    /\ getrec = {}
    /\ recon = [n \in Node |-> 0]
    /\ job = [n \in Node |-> IdleJob]
    /\ saves = {} /\ writes = {} /\ txs = {}
    /\ ref = [e \in Event |-> NoHash]
    /\ crashes = 0

----------------------------------------------------------------------------
(* Clients and event replication (replicated_add.go, node2node.go).        *)

(* A client builds event e on the last miniblock of the view of node n. *)
SubmitEvent(n, e) ==
    /\ ref[e] = NoHash
    /\ stream[n].first # NotLoaded
    /\ ref' = [ref EXCEPT ![e] = LastHash(stream[n].chain)]
    /\ UNCHANGED <<mb, log, stream, seen, getrec, recon, job, saves, writes, txs,
                   crashes>>

(* Stream.AddEvent on node n, as a task of replicatedAddEvent or of its    *)
(* retries: it may come late, again, or never.  A node that waits too long *)
(* for the miniblock e refers to schedules a sync (ensureStreamIsUpToDate).*)
AddEvent(n, e) ==
    LET s == Loaded(stream[n])
        r == ValidateNextEvent(s, e)
    IN  /\ ref[e] # NoHash
        /\ stream' = [stream EXCEPT ![n] =
                        IF r = "OK" THEN [s EXCEPT !.pool = @ \cup {e}] ELSE s]
        /\ getrec' \in IF r = "MINIBLOCK_TOO_NEW" THEN {getrec, getrec \cup {n}}
                       ELSE {getrec}
        /\ UNCHANGED <<mb, log, seen, recon, job, saves, writes, txs, ref, crashes>>

(* Any read of the stream loads its view. *)
GetView(n) ==
    /\ stream[n].first = NotLoaded
    /\ stream' = [stream EXCEPT ![n] = Loaded(@)]
    /\ UNCHANGED <<mb, log, seen, getrec, recon, job, saves, writes, txs, ref,
                   crashes>>

(* tryCleanup: an idle view is dropped from the cache. *)
TryCleanup(n) ==
    /\ n \in CacheExpires
    /\ stream[n].first # NotLoaded
    /\ stream[n].pool = {} /\ stream[n].pending = <<>>
    /\ stream' = [stream EXCEPT ![n].first = NotLoaded]
    /\ UNCHANGED <<mb, log, seen, getrec, recon, job, saves, writes, txs, ref,
                   crashes>>

----------------------------------------------------------------------------
(* Producing a candidate.                                                  *)

(* trySchedule: the stream is eligible (canCreateMiniblock) and no job of  *)
(* this node is running.  Nodes see chain blocks at different times, so    *)
(* any of them may hold itself for the leader.                             *)
TrySchedule(n) ==
    /\ n \in Producer
    /\ job[n].pc = "idle"
    /\ stream[n].first # NotLoaded
    /\ stream[n].pool # {}
    /\ job' = [job EXCEPT ![n].pc = "scheduled"]
    /\ UNCHANGED <<mb, log, stream, seen, getrec, recon, saves, writes, txs, ref,
                   crashes>>

(* processRemoteProposals: the request is made from the current view. *)
RequestProposals(n) ==
    LET s == Loaded(stream[n])
    IN  /\ job[n].pc = "scheduled"
        /\ stream' = [stream EXCEPT ![n] = s]
        /\ job' = [job EXCEPT ![n] = [IdleJob EXCEPT
                      !.pc = "gather", !.num = Len(s.chain) + 1,
                      !.prev = LastHash(s.chain), !.local = s.pool]]
        /\ UNCHANGED <<mb, log, seen, getrec, recon, saves, writes, txs, ref, crashes>>

(* ProposeNextMiniblock on the remote m, and gatherRemoteProposals taking  *)
(* its answer.                                                             *)
ProposeMiniblock(n, m) ==
    LET j == job[n]
        s == Loaded(stream[m])
        gen == Len(s.chain) + 1
        fits == j.num = gen /\ j.prev = LastHash(s.chain)
        proposal == [from |-> m, events |-> s.pool,
                     snap |-> ShouldSnapshot(s.chain, s.pool)]
    IN  /\ j.pc = "gather"
        /\ m # n /\ m \notin j.failed /\ \A p \in j.props : p.from # m
        /\ stream' = [stream EXCEPT ![m] = s]
        /\ getrec' = IF j.num > gen THEN getrec \cup {m} ELSE getrec
        /\ job' = [job EXCEPT
              ![n].props = IF fits THEN @ \cup {proposal} ELSE @,
              ![n].failed = IF fits THEN @ ELSE @ \cup {m},
              ![n].tooOld = @ \/ j.num < gen]
        /\ UNCHANGED <<mb, log, seen, recon, saves, writes, txs, ref, crashes>>

(* The pool of gather tasks is done: every remote answered, or enough did, *)
(* or the time is up.  The view is read again and the job ends if the      *)
(* stream advanced.                                                        *)
EndGather(n) ==
    LET j == job[n]
        s == Loaded(stream[n])
        missing == UNION {p.events \ j.local : p \in j.props}
    IN  /\ j.pc = "gather"
        /\ Unreliable \/ Cardinality(j.props) + Cardinality(j.failed) = N - 1
        /\ stream' = [stream EXCEPT ![n] = s]
        /\ job' = [job EXCEPT ![n] =
                     IF Len(s.chain) + 1 # j.num THEN IdleJob
                     ELSE [j EXCEPT !.pc = "add", !.view = s.pool, !.todo = missing]]
        /\ UNCHANGED <<mb, log, seen, getrec, recon, saves, writes, txs, ref, crashes>>

(* One missing event of a proposal is added with the relaxed duplicate     *)
(* check; the job goes on with the view this returns.                      *)
AddMissingEvent(n, e) ==
    LET j == job[n]
        s == Loaded(stream[n])
        r == ValidateNextEvent(s, e)
        adds == r \in {"OK", "BAD_PREV_MINIBLOCK_HASH"} /\ e \notin s.pool
        t == IF adds THEN [s EXCEPT !.pool = @ \cup {e}] ELSE s
    IN  /\ j.pc = "add" /\ e \in j.todo
        /\ \/ /\ e \in j.view
              /\ UNCHANGED stream
              /\ job' = [job EXCEPT ![n].todo = @ \ {e}]
           \/ /\ e \notin j.view
              /\ stream' = [stream EXCEPT ![n] = t]
              /\ job' = [job EXCEPT ![n] =
                    IF adds \/ r = "DUPLICATE_EVENT"
                    THEN [j EXCEPT !.todo = @ \ {e}, !.view = t.pool,
                                   !.stale = Len(t.chain) + 1 # j.num]
                    ELSE [j EXCEPT !.todo = @ \ {e}]]
        /\ UNCHANGED <<mb, log, seen, getrec, recon, saves, writes, txs, ref, crashes>>

(* The proposals of the job with its own last. *)
LocalProposal(n) ==
    [from |-> n, events |-> job[n].view,
     snap |-> ShouldSnapshot(SubSeq(stream[n].chain, 1, job[n].num - 1), job[n].view)]

Combined(n) == job[n].props \cup {LocalProposal(n)}

(* processRemoteProposals gives the job up: the view moved on, the gather  *)
(* tasks had no quorum, or too few remotes proposed.                       *)
NoQuorum(j) == Cardinality(j.props) + 1 < TotalQuorumNum(N)

(* Mutant: the generation is not compared again after events were added. *)
GivesUpUnlessStale(j) ==
    \/ NoQuorum(j)
    \/ Cardinality(j.props) < RemoteQuorumNum(N)
    \/ Cardinality(j.props) + 1 < TotalQuorumNum(N + 1)

GivesUp(j) ==
    \/ j.stale \/ NoQuorum(j)
    \/ Cardinality(j.props) < RemoteQuorumNum(N)
    \/ Cardinality(j.props) + 1 < TotalQuorumNum(N + 1)

(* combineProposals found nothing to do, or makeMiniblockCandidate does not *)
(* find an event of the proposal in the minipool of the view.               *)
Fruitless(n) ==
    \/ CombinedEvents(Combined(n)) = {} /\ ~ CombinedSnapshot(Combined(n))
    \/ ~ CombinedEvents(Combined(n)) \subseteq job[n].view

AbandonProposal(n) ==
    LET j == job[n]
    IN  /\ j.pc = "add" /\ j.todo = {}
        /\ GivesUp(j) \/ Fruitless(n)
        /\ getrec' = IF ~ j.stale /\ NoQuorum(j) /\ j.tooOld
                     THEN getrec \cup {n} ELSE getrec
        /\ JobDone(n)
        /\ UNCHANGED <<mb, log, stream, seen, recon, saves, writes, txs, ref, crashes>>

(* makeMiniblockCandidate, and saveCandidate sending the candidate, of     *)
(* fresh hash h, to every quorum node.                                     *)
MakeCandidate(n, h) ==
    LET j == job[n]
        header == [num |-> j.num, prev |-> j.prev,
                   events |-> CombinedEvents(Combined(n)),
                   snap |-> CombinedSnapshot(Combined(n))]
    IN  /\ j.pc = "add" /\ j.todo = {}
        /\ ~ GivesUp(j) /\ ~ Fruitless(n)
        /\ h \in Hash \ DOMAIN mb
        /\ mb' = [x \in DOMAIN mb \cup {h} |-> IF x = h THEN header ELSE mb[x]]
        /\ saves' = saves \cup ({h} \X (Node \ {n}))
        /\ writes' = writes \cup {<<h, n>>}
        /\ job' = [job EXCEPT ![n] = [IdleJob EXCEPT !.pc = "save", !.hash = h]]
        /\ UNCHANGED <<log, stream, seen, getrec, recon, txs, ref, crashes>>

----------------------------------------------------------------------------
(* Saving a candidate.  The job that made h counts the nodes that saved it.*)

(* Mutant: the local save is counted twice. *)
SavedOnRemoteQuorum(acks) == Cardinality(acks) >= RemoteQuorumNum(N)

SavedOnQuorum(acks) == Cardinality(acks) >= TotalQuorumNum(N)

Acked(h, m) ==
    [n \in Node |-> IF job[n].pc = "save" /\ job[n].hash = h
                    THEN [job[n] EXCEPT !.acks = @ \cup {m}] ELSE job[n]]

(* SaveMiniblockCandidate on the remote m, under the lock of the stream:   *)
(* tryApplyCandidate.  A candidate that is not the next scheduled          *)
(* promotion is stored later, after the lock is released.                  *)
TryApplyCandidate(m, h) ==
    LET s == Loaded(stream[m])
        next == s.pending # <<>> /\ s.pending[1] = h
        applied == s.first <= mb[h].num /\ At(s.chain, mb[h].num) = h
    IN  /\ <<h, m>> \in saves
        /\ saves' = saves \ {<<h, m>>}
        /\ \/ /\ mb[h].num <= Len(s.chain)
              /\ stream' = [stream EXCEPT ![m] = s]
              /\ job' = IF applied THEN Acked(h, m) ELSE job
              /\ UNCHANGED writes
           \/ /\ mb[h].num > Len(s.chain)
              /\ next
              /\ stream' = [stream EXCEPT ![m] =
                              IF CanApply(s, <<h>>) THEN ApplyPending(s) ELSE s]
              /\ job' = IF CanApply(s, <<h>>) THEN Acked(h, m) ELSE job
              /\ UNCHANGED writes
           \/ /\ mb[h].num > Len(s.chain)
              /\ ~ next
              /\ stream' = [stream EXCEPT ![m] = s]
              /\ writes' = writes \cup {<<h, m>>}
              /\ UNCHANGED job
        /\ UNCHANGED <<mb, log, seen, getrec, recon, txs, ref, crashes>>

(* WriteMiniblockCandidate: refused when the storage has a block of that   *)
(* number.                                                                 *)
WriteCandidate(m, h) ==
    LET fresh == mb[h].num > Len(stream[m].chain)
    IN  /\ <<h, m>> \in writes
        /\ writes' = writes \ {<<h, m>>}
        /\ stream' = [stream EXCEPT ![m].cand = IF fresh THEN @ \cup {h} ELSE @]
        /\ job' = IF fresh THEN Acked(h, m) ELSE job
        /\ UNCHANGED <<mb, log, seen, getrec, recon, saves, txs, ref, crashes>>

(* saveCandidate fails: no task is left that could still complete the      *)
(* quorum, or the time is up.                                              *)
SaveFails(n) ==
    LET h == job[n].hash
    IN  /\ job[n].pc = "save"
        /\ ~ SavedOnQuorum(job[n].acks)
        /\ Unreliable \/ ({h} \X Node) \cap (saves \cup writes) = {}
        /\ JobDone(n)
        /\ UNCHANGED <<mb, log, stream, seen, getrec, recon, saves, writes, txs, ref,
                       crashes>>

----------------------------------------------------------------------------
(* Registration (miniblock_producer.go, StreamRegistry.sol).               *)

(* saveCandidate has its quorum; submitProposalBatch sends the transaction.*)
SubmitProposal(n) ==
    /\ job[n].pc = "save"
    /\ SavedOnQuorum(job[n].acks)
    /\ txs' = txs \cup {job[n].hash}
    /\ job' = [job EXCEPT ![n].pc = "submit", ![n].acks = {}]
    /\ UNCHANGED <<mb, log, stream, seen, getrec, recon, saves, writes, ref, crashes>>

(* Mutant: a miniblock with the number of the last one is accepted. *)
AcceptsSameNum(h) == mb[h].num >= Num(LastHash(log))

(* The contract compares the number with the last one, and nothing else. *)
Accepts(h) == mb[h].num > Num(LastHash(log))

(* setStreamLastMiniblockBatch; the job that waits for the receipt learns  *)
(* its event.                                                              *)
SetStreamLastMiniblock(h) ==
    LET accepted == Accepts(h)
    IN  /\ h \in txs
        /\ txs' = txs \ {h}
        /\ log' = IF accepted THEN Append(log, h) ELSE log
        /\ job' = [n \in Node |->
                     IF job[n].pc = "submit" /\ job[n].hash = h
                     THEN [job[n] EXCEPT !.pc = IF accepted THEN "ok" ELSE "bad"]
                     ELSE job[n]]
        /\ UNCHANGED <<mb, stream, seen, getrec, recon, saves, writes, ref, crashes>>

(* The transaction is not confirmed in time; it may still be mined. *)
SubmitFails(n) ==
    /\ Unreliable
    /\ job[n].pc = "submit"
    /\ JobDone(n)
    /\ UNCHANGED <<mb, log, stream, seen, getrec, recon, saves, writes, txs, ref,
                   crashes>>

(* submitProposalBatch on success: ApplyMiniblock, jobDone. *)
ApplyRegistered(n) ==
    /\ job[n].pc = "ok"
    /\ stream' = [stream EXCEPT ![n] = ApplyMiniblock(Loaded(@), job[n].hash)]
    /\ JobDone(n)
    /\ UNCHANGED <<mb, log, seen, getrec, recon, saves, writes, txs, ref, crashes>>

(* promoteConfirmedCandidates on BAD_ARG: promote the miniblock that was   *)
(* the last one, number k, when the registry was read; an answer that      *)
(* reconciliation is required is only logged.                              *)
PromoteConfirmed(n, k) ==
    /\ job[n].pc = "bad"
    /\ k \in mb[job[n].hash].num .. Len(log)
    /\ stream' = [stream EXCEPT ![n] = PromoteCandidate(Loaded(@), log[k]).stream]
    /\ JobDone(n)
    /\ UNCHANGED <<mb, log, seen, getrec, recon, saves, writes, txs, ref, crashes>>

(* onBlockWithLogs, applyStreamMiniblockUpdates: the next registry event.  *)
(* A chain block registers at most one miniblock of a stream, as the next  *)
(* candidate can only be built once this one is registered.                *)
OnMiniblockRegistered(n) ==
    LET r == PromoteCandidate(Loaded(stream[n]), log[seen[n] + 1])
    IN  /\ seen[n] < Len(log)
        /\ seen' = [seen EXCEPT ![n] = @ + 1]
        /\ stream' = [stream EXCEPT ![n] = r.stream]
        /\ getrec' = IF r.sync THEN getrec \cup {n} ELSE getrec
        /\ UNCHANGED <<mb, log, recon, job, saves, writes, txs, ref, crashes>>

----------------------------------------------------------------------------
(* Reconciliation (stream_sync_task.go).                                   *)

(* The miniblock number of the record in the registry. *)
RecordTarget == Len(log)

(* getRecordTask reads the registry and submits a reconciliation up to it. *)
GetRecordTask(n) ==
    /\ n \in getrec
    /\ getrec' = getrec \ {n}
    /\ recon' = [recon EXCEPT ![n] = Max({@, RecordTarget})]
    /\ UNCHANGED <<mb, log, stream, seen, job, saves, writes, txs, ref, crashes>>

(* syncStreamFromSinglePeer: a page of miniblocks of the peer m, up to     *)
(* number k, is imported.  A task no peer can serve is retried.            *)
SyncStreamFromPeer(n, m, k) ==
    LET s == Loaded(stream[n])
        page == SubSeq(stream[m].chain, Len(s.chain) + 1, k)
    IN  /\ m # n
        /\ k \in Len(s.chain) + 1 .. recon[n] /\ k <= Len(stream[m].chain)
        /\ CanApply(s, page)
        /\ stream' = [stream EXCEPT ![n] = Apply(s, page)]
        /\ UNCHANGED <<mb, log, seen, getrec, recon, job, saves, writes, txs, ref,
                       crashes>>

(* The replica has all the record promised; its view is not loaded by this.*)
ReconciliationDone(n) ==
    /\ recon[n] # 0
    /\ Len(stream[n].chain) >= recon[n]
    /\ recon' = [recon EXCEPT ![n] = 0]
    /\ UNCHANGED <<mb, log, stream, seen, getrec, job, saves, writes, txs, ref,
                   crashes>>

----------------------------------------------------------------------------
(* Mutants: candidates, or the minipool, are kept in memory only. *)
AfterRestartNoCandidates(s) ==
    [s EXCEPT !.first = NotLoaded, !.pending = <<>>, !.cand = {}]

AfterRestartNoPool(s) ==
    [s EXCEPT !.first = NotLoaded, !.pending = <<>>, !.pool = {}]

(* What is left of a replica: its storage. *)
AfterRestart(s) == [s EXCEPT !.first = NotLoaded, !.pending = <<>>]

(* The node stops and starts again (StreamCache.Start): jobs, views,       *)
(* scheduled promotions and tasks are gone, a sync to the current record   *)
(* is scheduled, and events of later chain blocks will be seen.  A node    *)
(* that is down takes no step, so the restart stands for the whole outage. *)
Restart(n) ==
    /\ crashes < MaxCrash
    /\ crashes' = crashes + 1
    /\ stream' = [stream EXCEPT ![n] = AfterRestart(@)]
    /\ seen' = [seen EXCEPT ![n] = Len(log)]
    /\ getrec' = getrec \ {n}
    /\ recon' = [recon EXCEPT ![n] = RecordTarget]
    /\ writes' = {w \in writes : w[2] # n}
    /\ JobDone(n)
    /\ UNCHANGED <<mb, log, saves, txs, ref>>

----------------------------------------------------------------------------
Next ==
    \E n \in Node :
        \/ \E e \in Event : SubmitEvent(n, e) \/ AddEvent(n, e) \/ AddMissingEvent(n, e)
        \/ GetView(n) \/ TryCleanup(n)
        \/ TrySchedule(n) \/ RequestProposals(n)
        \/ \E m \in Node : ProposeMiniblock(n, m)
        \/ EndGather(n) \/ AbandonProposal(n)
        \/ \E h \in Hash :
              \/ MakeCandidate(n, h) \/ TryApplyCandidate(n, h) \/ WriteCandidate(n, h)
              \/ SetStreamLastMiniblock(h)
        \/ SaveFails(n) \/ SubmitProposal(n) \/ SubmitFails(n)
        \/ ApplyRegistered(n)
        \/ \E k \in 1 .. Len(log) : PromoteConfirmed(n, k)
        \/ OnMiniblockRegistered(n) \/ GetRecordTask(n)
        \/ \E m \in Node, k \in 1 .. Len(log) : SyncStreamFromPeer(n, m, k)
        \/ ReconciliationDone(n) \/ Restart(n)

Spec == Init /\ [][Next]_vars

(* The steps of a miniblock production job, one after the other. *)
JobStep(n) ==
    \/ TrySchedule(n) \/ RequestProposals(n) \/ EndGather(n) \/ AbandonProposal(n)
    \/ \E m \in Node : ProposeMiniblock(n, m)
    \/ \E e \in Event : AddMissingEvent(n, e)
    \/ \E h \in Hash : MakeCandidate(n, h)
    \/ SaveFails(n) \/ SubmitProposal(n) \/ ApplyRegistered(n)
    \/ \E k \in 1 .. Len(log) : PromoteConfirmed(n, k)

(* Calls and transactions under way, and registry events to be seen. *)
Delivery ==
    \/ \E h \in Hash : SetStreamLastMiniblock(h)
    \/ \E n \in Node : \/ OnMiniblockRegistered(n)
                       \/ \E h \in Hash : TryApplyCandidate(n, h) \/ WriteCandidate(n, h)

(* What runs by itself: jobs, and the delivery of calls, transactions and  *)
(* events.  Clients need not come back, nothing promises that a view is    *)
(* loaded again, and no peer is promised to serve a reconciliation.        *)
Fairness == WF_vars(Delivery) /\ \A n \in Node : WF_vars(JobStep(n))

FairSpec == Spec /\ Fairness

(* Reconciliation tasks run as well and are retried. *)
ReconciliationFairness ==
    \A n \in Node :
        /\ WF_vars(GetRecordTask(n) \/ ReconciliationDone(n))
        /\ WF_vars(\E m \in Node, k \in 1 .. Len(log) : SyncStreamFromPeer(n, m, k))

FairSyncSpec == FairSpec /\ ReconciliationFairness

----------------------------------------------------------------------------
(* Type invariant. *)
TypeOK ==
    /\ DOMAIN mb \subseteq Hash /\ mb \in [DOMAIN mb -> Header]
    /\ log \in Seq(DOMAIN mb)
    /\ stream \in [Node -> Stream]
    /\ seen \in [Node -> Nat]
    /\ getrec \subseteq Node
    /\ recon \in [Node -> Nat]
    /\ job \in [Node -> Job]
    /\ saves \subseteq (DOMAIN mb) \X Node
    /\ writes \subseteq (DOMAIN mb) \X Node
    /\ txs \subseteq DOMAIN mb
    /\ ref \in [Event -> Hash \cup {Genesis, NoHash}]
    /\ crashes \in Nat

(* Agreement: every replica holds a prefix of the sequence of miniblocks   *)
(* the registry accepted, whatever calls were lost, late or repeated and   *)
(* whoever restarted.  Code: only registered candidates are applied        *)
(* (submitProposalBatch, promoteCandidateLocked, tryApplyCandidate,        *)
(* importMiniblocks).                                                      *)
Agreement ==
    \A n \in Node :
        /\ Len(stream[n].chain) <= Len(log)
        /\ \A i \in 1 .. Len(stream[n].chain) : stream[n].chain[i] = log[i]

(* RegisteredLinked: the registered miniblocks are numbered without a gap  *)
(* and each refers to the one before, although the contract checks         *)
(* neither: it only compares numbers (StreamRegistry.sol).                 *)
RegisteredLinked ==
    \A i \in 1 .. Len(log) : mb[log[i]].num = i /\ mb[log[i]].prev = At(log, i - 1)

(* PendingRegistered: the scheduled promotions of a replica are registered *)
(* miniblocks, the first one right above the replica's last miniblock and  *)
(* the others consecutive (comment on pendingCandidates in stream.go).     *)
PendingRegistered ==
    \A n \in Node :
        /\ Len(stream[n].pending) <= MaxPending
        /\ \A i \in 1 .. Len(stream[n].pending) :
              /\ Len(stream[n].chain) + i <= Len(log)
              /\ stream[n].pending[i] = log[Len(stream[n].chain) + i]

(* IndInv: the inductive invariant behind Agreement.  Every candidate ever *)
(* built, registered or not, is numbered at most one above the log and     *)
(* refers to the log's miniblock below it; so do the jobs that still have  *)
(* to build one; a job told that its candidate is registered has it in the *)
(* log.  This is why the one comparison the contract makes is enough.      *)
CandidatesLinked ==
    \A h \in DOMAIN mb : /\ mb[h].num \in 1 .. Len(log) + 1
                         /\ mb[h].prev = At(log, mb[h].num - 1)

JobsLinked ==
    \A n \in Node :
        /\ job[n].pc \in {"gather", "add"} =>
              /\ job[n].num \in 1 .. Len(log) + 1
              /\ job[n].prev = At(log, job[n].num - 1)
        /\ job[n].pc \in {"save", "submit", "ok", "bad"} => job[n].hash \in DOMAIN mb
        /\ job[n].pc = "ok" => \E i \in 1 .. Len(log) : log[i] = job[n].hash

IndInv ==
    /\ TypeOK /\ Agreement /\ RegisteredLinked /\ PendingRegistered
    /\ CandidatesLinked /\ JobsLinked
    /\ \A n \in Node : stream[n].cand \subseteq DOMAIN mb

(* CandidateAvailable: a registered miniblock is stored, as a candidate or *)
(* in the chain, by as many nodes as saveCandidate waited for, so the      *)
(* replicas that never got it can fetch it.                                *)
CandidateAvailable ==
    \A i \in 1 .. Len(log) :
        Cardinality({n \in Node : log[i] \in stream[n].cand \/ i <= Len(stream[n].chain)})
            >= TotalQuorumNum(N)

(* ProposalInView: no event of a combined proposal is missing from the     *)
(* minipool the candidate is made from, so makeMiniblockCandidate never    *)
(* fails with MINIPOOL_MISSING_EVENTS.                                     *)
ProposalInView ==
    \A n \in Node :
        job[n].pc = "add" /\ job[n].todo = {} /\ ~ GivesUp(job[n])
            => CombinedEvents(Combined(n)) \subseteq job[n].view

(* EventsKept: an event a replica has in its minipool or in a miniblock is *)
(* never dropped by it, across promotion, reconciliation and restart: the  *)
(* acknowledgement of AddEvent is kept.                                    *)
EventsKept == [][\A n \in Node : Held(n) \subseteq Held(n)']_vars

(* PromotionNotMissed: a replica never waits for a scheduled promotion     *)
(* whose candidate is in its own storage ("list of miniblocks that should  *)
(* be applied immediately when candidate is received", stream.go).         *)
PromotionNotMissed ==
    \A n \in Node : stream[n].pending # <<>>
                        => stream[n].pending[1] \notin stream[n].cand

(* NoDuplicateEvent: no minipool holds an event its replica already has in *)
(* a miniblock ("the event should not already exist in any block after the *)
(* preceding miniblock", stream_view.go).                                  *)
NoDuplicateEvent ==
    \A n \in Node : stream[n].pool \cap EventsOf(stream[n].chain, 1) = {}

(* A job needs a hash and the bound on candidates leaves none. *)
OutOfHashes == DOMAIN mb = Hash /\ \E n \in Node : job[n].pc = "add"

(* EventRegistered: once an event is stored by as many replicas as         *)
(* replicatedAddEvent waits for, it gets into a registered miniblock.      *)
EventRegistered ==
    \A e \in Event :
        Cardinality({n \in Node : e \in Held(n)}) >= TotalQuorumNum(N)
            ~> e \in EventsOf(log, 1) \/ OutOfHashes

(* SyncCatchesUp: a scheduled reconciliation brings the replica to the     *)
(* miniblock of its record ("these tasks sync up the local db with the     *)
(* latest block in the registry", stream_cache.go).                        *)
SyncCatchesUp ==
    \A n \in Node : \A k \in 1 .. Cardinality(Hash) :
        recon[n] = k ~> Len(stream[n].chain) >= k \/ OutOfHashes

(* ImplementsLog: the replicated stream implements one append-only log of  *)
(* registered miniblocks with growing prefixes at the replicas             *)
(* (RegisteredLog): no miniblock is registered twice, no replica ever      *)
(* drops, replaces or invents a miniblock.                                 *)
Abstract == INSTANCE RegisteredLog WITH replica <- [n \in Node |-> stream[n].chain]

ImplementsLog == Abstract!Spec
============================================================================

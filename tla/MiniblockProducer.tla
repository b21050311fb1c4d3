------------------------- MODULE MiniblockProducer -------------------------
(***************************************************************************)
(* The miniblock producer of one node (miniblock_producer.go): the jobs    *)
(* map that keeps a stream to one job at a time, the candidateTracker that *)
(* collects candidates into batches, and what becomes of the jobs of a     *)
(* batch once the registration has answered.                               *)
(*                                                                         *)
(* How a job builds its candidate is the subject of StreamReplication.     *)
(* Here a job ends with a candidate for the next number or without one,    *)
(* and the registry keeps the last number of a stream.  Streams with one   *)
(* quorum node register some of their numbers only, and their latest one   *)
(* at once when sync nodes are added (writeLatestKnownMiniblock).          *)
(***************************************************************************)
EXTENDS Integers, Sequences, FiniteSets, FiniteSetsExt, Functions

CONSTANTS
    Stream,         \* streams of the node
    Replicated,     \* those with more than one quorum node
    Sealed,         \* those whose registry record is sealed
    BatchSize,      \* MiniblockCandidateBatchSize
    Freq,           \* StreamMiniblockRegistrationFrequency
    MaxNum,         \* bound on the miniblock numbers of each stream
    MaxCallbacks,   \* bound on timer callbacks waiting for the lock
    HeadErrors      \* whether the chain's block number may be unavailable

ASSUME ProducerAssumption ==
    /\ Replicated \subseteq Stream /\ Sealed \subseteq Stream
    /\ {BatchSize, Freq, MaxCallbacks} \subseteq Nat \ {0}
    /\ MaxNum \in [Stream -> Nat \ {0}]
    /\ HeadErrors \in BOOLEAN

VARIABLES
    eligible,   \* streams for which canCreateMiniblock holds
    scan,       \* streams a running scheduleCandidates has yet to look at
    synced,     \* streams with sync nodes
    latest,     \* streams with a writeLatestMbToBlockchain goroutine
    local,      \* last miniblock number applied, per stream
    reg,        \* last miniblock number in the registry, per stream
    jobs,       \* the jobs map: streams that have a job
    starting,   \* streams whose job has no candidate yet
    saving,     \* jobs that built a candidate and are saving it
    candidates, \* candidateTracker.candidates
    timer,      \* candidateTracker.timer: "nil", "armed" or "expired"
    orphans,    \* armed timers the tracker no longer refers to
    callbacks,  \* callbacks of expired timers waiting for the lock
    batches,    \* batches in submitProposalBatch
    applying,   \* jobs in ApplyMiniblock; ok: the candidate is the stream's next block
    outOfSync,  \* the lists of jobs given to promoteConfirmedCandidates
    promoting,  \* jobs it goes through once it has the block number
    abandoned   \* history: streams whose job it returned without finishing

tracker == <<candidates, timer, orphans, callbacks>>
chain == <<local, reg>>
placement == <<synced, latest>>
stages == <<starting, saving, applying, outOfSync, promoting>>
vars == <<eligible, scan, placement, chain, jobs, stages, tracker, batches, abandoned>>

Job == [stream : Stream, num : Nat, register : BOOLEAN, skip : BOOLEAN]

Init ==
    /\ eligible = {} /\ scan = {} /\ synced = {} /\ latest = {}
    /\ local = [s \in Stream |-> 0] /\ reg = [s \in Stream |-> 0]
    /\ jobs = {} /\ starting = {} /\ saving = {}
    /\ candidates = <<>> /\ timer = "nil" /\ orphans = 0 /\ callbacks = 0
    /\ batches = {} /\ applying = {} /\ outOfSync = {} /\ promoting = {}
    /\ abandoned = {}

----------------------------------------------------------------------------
(* The rest of the node and of the network.                                *)

(* An event reaches the minipool of a stream. *)
AddEvent(s) ==
    /\ s \notin eligible
    /\ eligible' = eligible \cup {s}
    /\ UNCHANGED <<scan, placement, chain, jobs, stages, tracker, batches,
                   abandoned>>

(* Another quorum node registers its candidate first. *)
OtherRegisters(s) ==
    /\ s \in Replicated \ Sealed /\ reg[s] < MaxNum[s]
    /\ reg' = [reg EXCEPT ![s] = @ + 1]
    /\ UNCHANGED <<eligible, scan, placement, local, jobs, stages, tracker,
                   batches, abandoned>>

(* A registered block becomes the last one of the local view, which may    *)
(* leave events in the minipool.                                           *)
Advance(s, n) ==
    /\ local' = [local EXCEPT ![s] = n]
    /\ eligible' \in {eligible, eligible \ {s}}

(* applyStreamMiniblockUpdates: the registry's event promotes the block. *)
PromoteOnEvent(s) ==
    /\ local[s] < reg[s]
    /\ Advance(s, local[s] + 1)
    /\ UNCHANGED <<scan, placement, reg, jobs, stages, tracker, batches,
                   abandoned>>

(* onStreamPlacementUpdated of a stream with one quorum node. *)
PlacementUpdated(s) ==
    /\ s \notin Replicated /\ s \notin synced
    /\ synced' = synced \cup {s}
    /\ latest' = latest \cup {s}
    /\ UNCHANGED <<eligible, scan, chain, jobs, stages, tracker, batches,
                   abandoned>>

----------------------------------------------------------------------------
(* Scheduling.                                                             *)

(* onNewBlock: the block is passed over while the streams of an earlier    *)
(* one are still being looked at.                                          *)
OnNewBlock ==
    /\ scan = {}
    /\ scan' = eligible
    /\ UNCHANGED <<eligible, placement, chain, jobs, stages, tracker, batches,
                   abandoned>>

(* scheduleCandidates, a stream this node does not lead on the block. *)
NotLeader(s) ==
    /\ s \in scan
    /\ scan' = scan \ {s}
    /\ UNCHANGED <<eligible, placement, chain, jobs, stages, tracker, batches,
                   abandoned>>

(* scheduleCandidates, a stream it leads: trySchedule. *)
TrySchedule(s) ==
    /\ s \in scan
    /\ scan' = scan \ {s}
    /\ jobs' = jobs \cup {s}
    /\ starting' = IF s \in jobs THEN starting ELSE starting \cup {s}
    /\ UNCHANGED <<eligible, placement, chain, saving, applying, outOfSync,
                   promoting, tracker, batches, abandoned>>

(* TestMakeMiniblock, a debug call, waits until the stream has no job. *)
TestMakeMiniblock(s) ==
    /\ s \notin jobs
    /\ jobs' = jobs \cup {s}
    /\ starting' = starting \cup {s}
    /\ UNCHANGED <<eligible, scan, placement, chain, saving, applying, outOfSync,
                   promoting, tracker, batches, abandoned>>

(* jobDone of the jobs in js, which the jobs map holds. *)
Done(js) == jobs \ {j.stream : j \in js}

(* jobStart: the context ended, an error, or nothing to propose. *)
JobWithoutCandidate(s) ==
    /\ s \in starting
    /\ starting' = starting \ {s}
    /\ jobs' = jobs \ {s}
    /\ UNCHANGED <<eligible, scan, placement, chain, saving, applying,
                   outOfSync, promoting, tracker, batches, abandoned>>

(* produceCandidate builds the candidate from the view it has read. *)
MakeCandidate(s) ==
    /\ s \in starting /\ local[s] < MaxNum[s]
    /\ starting' = starting \ {s}
    /\ saving' = saving \cup {[stream |-> s, num |-> local[s] + 1, skip |-> FALSE,
                               register |-> s \in Replicated \cup synced]}
    /\ UNCHANGED <<eligible, scan, placement, chain, jobs, applying, outOfSync,
                   promoting, tracker, batches, abandoned>>

(* saveCandidate fails. *)
SaveFails(j) ==
    /\ j \in saving
    /\ saving' = saving \ {j}
    /\ jobs' = Done({j})
    /\ UNCHANGED <<eligible, scan, placement, chain, starting, applying,
                   outOfSync, promoting, tracker, batches, abandoned>>

----------------------------------------------------------------------------
(* candidateTracker.                                                       *)

(* Mutant: the timer waits for a second candidate. *)
ArmsTimerLate(q) == Len(q) = 2

ArmsTimer(q) == Len(q) = 1

Full(q) == Len(q) >= BatchSize

(* candidateTracker.add: stopping a timer that has expired does nothing,   *)
(* its callback still runs.                                                *)
Add(j) ==
    LET q == Append(candidates, j)
    IN  /\ candidates' = IF Full(q) THEN <<>> ELSE q
        /\ timer' = IF Full(q) THEN "nil" ELSE IF ArmsTimer(q) THEN "armed" ELSE timer
        /\ batches' = IF Full(q) THEN batches \cup {q} ELSE batches
        /\ UNCHANGED <<orphans, callbacks>>

(* jobStart: the candidate is saved. *)
AddCandidate(j) ==
    /\ j \in saving
    /\ saving' = saving \ {j}
    /\ Add(j)
    /\ UNCHANGED <<eligible, scan, placement, chain, jobs, starting, applying,
                   outOfSync, promoting, abandoned>>

(* writeLatestKnownMiniblock: a job that is not in the jobs map. *)
WriteLatestKnown(s) ==
    /\ s \in latest
    /\ latest' = latest \ {s}
    /\ Add([stream |-> s, num |-> local[s], register |-> TRUE, skip |-> TRUE])
    /\ UNCHANGED <<eligible, scan, synced, chain, jobs, stages, abandoned>>

(* A quarter of a block time has passed.  Timers expire in the order in    *)
(* which they were armed, and those let go were armed first.               *)
TimerExpires ==
    /\ callbacks < MaxCallbacks
    /\ callbacks' = callbacks + 1
    /\ \/ orphans > 0 /\ orphans' = orphans - 1 /\ UNCHANGED timer
       \/ orphans = 0 /\ timer = "armed" /\ timer' = "expired" /\ UNCHANGED orphans
    /\ UNCHANGED <<eligible, scan, placement, chain, jobs, stages, candidates,
                   batches, abandoned>>

(* The function given to AfterFunc, possibly of a timer replaced meanwhile. *)
TimerCallback ==
    /\ callbacks > 0
    /\ callbacks' = callbacks - 1
    /\ orphans' = IF timer = "armed" THEN orphans + 1 ELSE orphans
    /\ timer' = "nil"
    /\ candidates' = <<>>
    /\ batches' = IF candidates = <<>> THEN batches ELSE batches \cup {candidates}
    /\ UNCHANGED <<eligible, scan, placement, chain, jobs, stages, abandoned>>

----------------------------------------------------------------------------
(* submitProposalBatch.                                                    *)

(* The candidates that are registered; the others count as registered. *)
Filtered(b) ==
    {i \in 1 .. Len(b) : b[i].register \/ b[i].num % Freq = 0 \/ b[i].num = 1}

(* setStreamLastMiniblockBatch of the contract accepts a number above the  *)
(* stream's last one, the earlier entries of the batch included.           *)
Accepted(b) ==
    {i \in Filtered(b) :
        /\ b[i].stream \notin Sealed
        /\ b[i].num > reg[b[i].stream]
        /\ \A k \in Filtered(b) : k < i /\ b[k].stream = b[i].stream => b[i].num > b[k].num}

Streams(b, is) == {b[i].stream : i \in is}

(* Mutant: an error of the registration is not looked at. *)
SuccessUnchecked(b, seen) == Streams(b, 1 .. Len(b))

(* The streams the loop over the batch treats as registered. *)
Success(b, seen) ==
    Streams(b, ((1 .. Len(b)) \ Filtered(b)) \cup (IF seen THEN Accepted(b) ELSE {}))

(* BAD_ARG, the answer for a number that is not above the last one. *)
Invalid(b, seen) ==
    IF seen THEN Streams(b, Filtered(b) \ Accepted(b)) \ Sealed ELSE {}

(* The candidate of a job is the next block of its stream as far as the    *)
(* registry knows: it accepted it, or has no block of that number.         *)
Confirmed(b, j, mined) ==
    \/ \E i \in Accepted(b) : mined /\ b[i] = j
    \/ (\E i \in (1 .. Len(b)) \ Filtered(b) : b[i] = j) /\ reg[j.stream] < j.num

(* Mutant: jobs whose registration failed stay in the jobs map. *)
DoneIfApplied(mine, apply, bad) == jobs

(* Mutant: a job is done as soon as its candidate is handed over. *)
DoneAtOnce(mine, apply, bad) == Done(mine \ bad)

(* The jobs map after the loop over the batch. *)
DoneInBatch(mine, apply, bad) == Done(mine \ (apply \cup bad))

(* The transaction was mined or not, and its receipt seen or not. *)
SubmitBatch(b, mined, seen) ==
    LET mine == {j \in Range(b) : ~ j.skip}
        apply == {j \in mine : j.stream \in Success(b, seen)}
        bad == {j \in mine \ apply : j.stream \in Invalid(b, seen)}
        nums(s) == {b[i].num : i \in {i \in Accepted(b) : b[i].stream = s}}
    IN  /\ b \in batches /\ (seen => mined)
        /\ batches' = batches \ {b}
        /\ reg' = [s \in Stream |-> IF mined /\ nums(s) # {} THEN Max(nums(s)) ELSE reg[s]]
        /\ applying' = applying \cup {[job |-> j, ok |-> Confirmed(b, j, mined)] : j \in apply}
        /\ outOfSync' = IF bad = {} THEN outOfSync ELSE outOfSync \cup {bad}
        /\ jobs' = DoneInBatch(mine, apply, bad)
        /\ UNCHANGED <<eligible, scan, placement, local, starting, saving,
                       promoting, tracker, abandoned>>

(* ApplyMiniblock and jobDone: a block already applied, by the registry's  *)
(* event, is passed over.                                                  *)
ApplyMiniblock(a) ==
    /\ a \in applying
    /\ applying' = applying \ {a}
    /\ jobs' = Done({a.job})
    /\ IF a.job.num = local[a.job.stream] + 1 THEN Advance(a.job.stream, a.job.num)
                                              ELSE UNCHANGED <<local, eligible>>
    /\ UNCHANGED <<scan, placement, reg, starting, saving, outOfSync,
                   promoting, tracker, batches, abandoned>>

(* ApplyMiniblock returns an error. *)
ApplyFails(a) ==
    /\ a \in applying
    /\ applying' = applying \ {a}
    /\ jobs' = Done({a.job})
    /\ UNCHANGED <<eligible, scan, placement, chain, starting, saving,
                   outOfSync, promoting, tracker, batches, abandoned>>

(* promoteConfirmedCandidates reads the block number. *)
ReadHead(js) ==
    /\ js \in outOfSync
    /\ outOfSync' = outOfSync \ {js}
    /\ promoting' = promoting \cup js
    /\ UNCHANGED <<eligible, scan, placement, chain, jobs, starting, saving,
                   applying, tracker, batches, abandoned>>

(* It cannot: it returns, with the jobs still in the jobs map. *)
ReadHeadFails(js) ==
    /\ HeadErrors /\ js \in outOfSync
    /\ outOfSync' = outOfSync \ {js}
    /\ abandoned' = abandoned \cup {j.stream : j \in js}
    /\ UNCHANGED <<eligible, scan, placement, chain, jobs, starting, saving,
                   applying, promoting, tracker, batches>>

(* The registered block is promoted, or an error of the registry or of the *)
(* stream is logged; then jobDone.                                         *)
PromoteConfirmed(j) ==
    /\ j \in promoting
    /\ promoting' = promoting \ {j}
    /\ jobs' = Done({j})
    /\ \/ /\ local[j.stream] + 1 = reg[j.stream]
          /\ Advance(j.stream, reg[j.stream])
       \/ UNCHANGED <<local, eligible>>
    /\ UNCHANGED <<scan, placement, reg, starting, saving, applying, outOfSync,
                   tracker, batches, abandoned>>

----------------------------------------------------------------------------
Schedule == \/ OnNewBlock
            \/ \E s \in Stream : \/ NotLeader(s) \/ TrySchedule(s)
                                 \/ JobWithoutCandidate(s) \/ MakeCandidate(s)
            \/ \E j \in saving : SaveFails(j) \/ AddCandidate(j)

Register == \/ TimerExpires \/ TimerCallback
            \/ \E b \in batches : \E mined, seen \in BOOLEAN : SubmitBatch(b, mined, seen)

Finish == \/ \E a \in applying : ApplyMiniblock(a) \/ ApplyFails(a)
          \/ \E js \in outOfSync : ReadHead(js) \/ ReadHeadFails(js)
          \/ \E j \in promoting : PromoteConfirmed(j)

Environment == \E s \in Stream : \/ AddEvent(s) \/ OtherRegisters(s) \/ PromoteOnEvent(s)
                                 \/ PlacementUpdated(s) \/ WriteLatestKnown(s)
                                 \/ TestMakeMiniblock(s)

Next == Schedule \/ Register \/ Finish \/ Environment

Spec == Init /\ [][Next]_vars

(* What a job of s, of which there is one at a time, does next. *)
JobStep(s) ==
    \/ JobWithoutCandidate(s) \/ MakeCandidate(s)
    \/ \E j \in saving : j.stream = s /\ (SaveFails(j) \/ AddCandidate(j))
    \/ \E b \in batches : /\ s \in Streams(b, DOMAIN b)
                          /\ \E mined, seen \in BOOLEAN : SubmitBatch(b, mined, seen)
    \/ \E a \in applying : a.job.stream = s /\ (ApplyMiniblock(a) \/ ApplyFails(a))
    \/ \E js \in outOfSync : /\ \E j \in js : j.stream = s
                             /\ (ReadHead(js) \/ ReadHeadFails(js))
    \/ \E j \in promoting : j.stream = s /\ PromoteConfirmed(j)

(* Contexts with deadlines end every call, so each goroutine and timer     *)
(* goes on; a block comes every block time; and the leader rotates with    *)
(* the block number, so a stream looked at again and again is led again.   *)
Fairness ==
    /\ WF_vars(OnNewBlock) /\ WF_vars(TimerExpires) /\ WF_vars(TimerCallback)
    /\ \A s \in Stream :
        /\ WF_vars(NotLeader(s) \/ TrySchedule(s)) /\ SF_vars(TrySchedule(s))
        /\ WF_vars(JobStep(s))

FairSpec == Spec /\ Fairness

----------------------------------------------------------------------------
(* Properties.                                                             *)

(* Every variable has the values the code can give it. *)
TypeOK ==
    /\ eligible \subseteq Stream /\ scan \subseteq Stream /\ jobs \subseteq Stream
    /\ synced \subseteq Stream /\ latest \subseteq Stream /\ starting \subseteq Stream
    /\ \A s \in Stream : local[s] \in 0 .. MaxNum[s] /\ reg[s] \in 0 .. MaxNum[s]
    /\ saving \subseteq Job /\ promoting \subseteq Job /\ outOfSync \subseteq SUBSET Job
    /\ applying \subseteq [job : Job, ok : BOOLEAN]
    /\ candidates \in Seq(Job) /\ \A b \in batches : b \in Seq(Job)
    /\ Len(candidates) < BatchSize /\ \A b \in batches : Len(b) \in 1 .. BatchSize
    /\ timer \in {"nil", "armed", "expired"} /\ orphans \in Nat
    /\ callbacks \in 0 .. MaxCallbacks

(* candidateTracker: while candidates wait for a batch, a timer is armed   *)
(* or the callback of an expired one is about to run, even when a callback *)
(* that could not be stopped has taken an earlier batch and forgotten the  *)
(* timer that was armed since.                                             *)
CandidatesAreCollected ==
    candidates # <<>> => timer = "armed" \/ orphans > 0 \/ callbacks > 0

(* The places in which a job of a stream can be, those with a job. *)
Places(s) ==
    LET mine(js) == {j \in js : j.stream = s /\ ~ j.skip}
        inSeq(q) == {i \in DOMAIN q : q[i].stream = s /\ ~ q[i].skip}
    IN  {<<"starting", t>> : t \in starting \cap {s}}
        \cup {<<"saving", j>> : j \in mine(saving)}
        \cup {<<"candidates", i>> : i \in inSeq(candidates)}
        \cup (UNION {{<<"batches", b, i>> : i \in inSeq(b)} : b \in batches})
        \cup {<<"applying", a>> : a \in {a \in applying : a.job.stream = s}}
        \cup (UNION {{<<"outOfSync", js, j>> : j \in mine(js)} : js \in outOfSync})
        \cup {<<"promoting", j>> : j \in mine(promoting)}

(* trySchedule, jobDone: a stream has at most one job in flight, wherever  *)
(* the job is, and only while the jobs map holds it.                       *)
OneJobPerStream ==
    \A s \in Stream : \A p, q \in Places(s) : p = q /\ s \in jobs

(* submitProposalBatch: ApplyMiniblock is called only for a candidate the  *)
(* registry accepted or, unregistered by design, for one whose number the  *)
(* registry has not passed.  Success is looked up by stream although a     *)
(* batch may hold two jobs of a stream, and a receipt may be lost.         *)
AppliedIsConfirmed == \A a \in applying : a.ok

(* jobDone: every job ends, whatever the registry answers and whichever    *)
(* timer or goroutine is late, so a stream that stays eligible is given    *)
(* another one; only the early return of promoteConfirmedCandidates, when  *)
(* the block number cannot be read, leaves a job behind.                   *)
EligibleUnlessAbandoned ==
    \A s \in Stream : []<>(s \notin eligible \/ s \in starting \/ s \in abandoned)
============================================================================

---------------------- MODULE MiniblockProducerProofs ----------------------
(***************************************************************************)
(* Proofs about the miniblock producer, for any number of streams, any     *)
(* batch size, any registration frequency and any number of late           *)
(* callbacks.                                                              *)
(*                                                                         *)
(* A stream has one job: a step takes it from one of its places to at most *)
(* one other, and a new one begins only when the jobs map holds none       *)
(* (OneJobPerStream is inductive with the types of the places).            *)
(*                                                                         *)
(* The candidate given to ApplyMiniblock is confirmed: for a stream with   *)
(* one quorum node the candidate in flight is always the next block of the *)
(* view or, if the registry's event came first, its last one, the registry *)
(* is at most one block ahead, and the job of writeLatestKnownMiniblock    *)
(* has a number that the view has passed (NumsOK).                         *)
(*                                                                         *)
(* No candidate is left in the candidateTracker: a timer is armed with the *)
(* first one, and leaves the tracker only when the candidates do, or when  *)
(* a late callback forgets it and takes the candidates with it; a timer    *)
(* that was forgotten still expires.                                       *)
(***************************************************************************)
EXTENDS MiniblockProducer, WellFoundedInduction, TLAPS

(* A step that names no prover is tried with these, in this order. *)
USE ZenonT(3), SMTT(20), SMTT(21), ZenonT(20)

(* A set of natural numbers has a least element. *)
LEMMA Least ==
    ASSUME NEW T, T \subseteq Nat, T # {}
    PROVE  \E x \in T : \A y \in T : x <= y
  <1>1. PICK x \in T : \A y \in T : ~ (<<y, x>> \in OpToRel(<, Nat))
    BY NatLessThanWellFounded, WFMin
  <1>2. \A y \in T : ~ (y < x)
    BY <1>1 DEF OpToRel
  <1> QED BY <1>2

LEMMA JobFields ==
    ASSUME NEW j \in Job
    PROVE  j.stream \in Stream /\ j.num \in Nat /\ j.register \in BOOLEAN /\ j.skip \in BOOLEAN
  BY DEF Job

(* The numbers of the accepted entries of a stream. *)
Nums(b, s) == {b[i].num : i \in {i \in Accepted(b) : b[i].stream = s}}

(* The contract: the last of the accepted entries of a stream has the      *)
(* greatest number, so reg is set to the number of an accepted entry.      *)
LEMMA RegisteredIsAccepted ==
    ASSUME NEW b \in Seq(Job), NEW s, reg \in [Stream -> Nat],
           Nums(b, s) # {}
    PROVE  \E i \in Accepted(b) : b[i].stream = s /\ Max(Nums(b, s)) = b[i].num
  <1> DEFINE Of == {i \in Accepted(b) : b[i].stream = s}
  <1>1. Of \subseteq 1 .. Len(b) /\ Of # {} /\ Of \subseteq Filtered(b) /\ Len(b) \in Nat
    BY DEF Accepted, Filtered, Nums
  <1>2. PICK last \in Of : \A i \in Of : i <= last
    <2> DEFINE T == {Len(b) - i : i \in Of}
    <2>1. T \subseteq Nat /\ T # {}
      BY <1>1
    <2>2. PICK x \in T : \A y \in T : x <= y
      <3> HIDE DEF T
      <3> QED BY <2>1, Least
    <2>3. PICK last \in Of : x = Len(b) - last
      OBVIOUS
    <2>4. \A i \in Of : i <= last
      <3> TAKE i \in Of
      <3>1. Len(b) - last <= Len(b) - i
        BY <2>2, <2>3
      <3> QED BY <1>1, <3>1
    <2> QED BY <2>4
  <1>3. \A i \in Of : b[i].num \in Nat
    <2> TAKE i \in Of
    <2>1. b[i] \in Job
      BY <1>1
    <2> QED BY <2>1, JobFields
  <1>4. \A i \in Of : b[last].num >= b[i].num
    <2> TAKE i \in Of
    <2>1. CASE i = last
      BY <1>3, <2>1
    <2>2. CASE i # last
      <3>1. i < last /\ i \in Filtered(b)
        BY <1>1, <1>2, <2>2
      <3> QED BY <1>3, <3>1 DEF Accepted
    <2> QED BY <2>1, <2>2
  <1>5. b[last].num \in Nums(b, s) /\ \A y \in Nums(b, s) : b[last].num >= y
    BY <1>4 DEF Nums
  <1>6. Max(Nums(b, s)) \in Nums(b, s)
    BY <1>5 DEF Max
  <1> QED BY <1>6 DEF Nums
----------------------------------------------------------------------------
(* Jobs of the jobs map, as opposed to those of writeLatestKnownMiniblock. *)
Mine == {j \in Job : ~ j.skip}

JobsTyped ==
    /\ local \in [Stream -> Nat] /\ reg \in [Stream -> Nat]
    /\ starting \subseteq Stream /\ latest \subseteq synced \ Replicated
    /\ saving \subseteq Mine /\ promoting \subseteq Mine /\ outOfSync \subseteq SUBSET Mine
    /\ \A a \in applying : a.job \in Mine
    /\ candidates \in Seq(Job) /\ batches \subseteq Seq(Job)

(* The candidate that produceCandidate builds and the job that             *)
(* writeLatestKnownMiniblock makes up.                                     *)
NewJob(s) == [stream |-> s, num |-> local[s] + 1, skip |-> FALSE, register |-> s \in Replicated \cup synced]
LatestJob(s) == [stream |-> s, num |-> local[s], register |-> TRUE, skip |-> TRUE]

LEMMA NewJobs ==
    ASSUME local \in [Stream -> Nat], NEW s \in Stream
    PROVE  /\ NewJob(s) \in Mine /\ NewJob(s).stream = s /\ NewJob(s).num = local[s] + 1
           /\ (NewJob(s).register <=> s \in Replicated \cup synced)
           /\ LatestJob(s) \in Job /\ LatestJob(s).stream = s /\ LatestJob(s).num = local[s]
           /\ LatestJob(s).register /\ LatestJob(s).skip
  <1>1. local[s] \in Nat /\ local[s] + 1 \in Nat
    OBVIOUS
  <1>2. PICK r \in BOOLEAN : r = (s \in Replicated \cup synced)
    <2>1. (s \in Replicated \cup synced) \in BOOLEAN
      OBVIOUS
    <2> QED BY <2>1
  <1>3. NewJob(s) = [stream |-> s, num |-> local[s] + 1, skip |-> FALSE, register |-> r]
    BY <1>2, Zenon DEF NewJob
  <1>4. [stream |-> s, num |-> local[s] + 1, skip |-> FALSE, register |-> r] \in Job
    BY <1>1, Zenon DEF Job
  <1>5. NewJob(s) \in Mine
    BY <1>3, <1>4 DEF Mine
  <1>6. NewJob(s).stream = s /\ NewJob(s).num = local[s] + 1
    BY <1>3
  <1>7. NewJob(s).register <=> s \in Replicated \cup synced
    <2>1. NewJob(s).register = r
      BY <1>3
    <2> QED BY <1>2, <2>1, Zenon
  <1>8. /\ LatestJob(s) \in Job /\ LatestJob(s).stream = s /\ LatestJob(s).num = local[s]
        /\ LatestJob(s).register /\ LatestJob(s).skip
    BY <1>1, Zenon DEF LatestJob, Job
  <1> QED BY <1>5, <1>6, <1>7, <1>8

(* What becomes of the candidates and the batches when a job is added. *)
LEMMA Added ==
    ASSUME JobsTyped, NEW j \in Job, Add(j)
    PROVE  \E q \in Seq(Job) :
             /\ Len(q) = Len(candidates) + 1 /\ q[Len(q)] = j /\ Len(candidates) \in Nat
             /\ \A i \in 1 .. Len(candidates) : q[i] = candidates[i]
             /\ \/ candidates' = <<>> /\ batches' = batches \cup {q}
                \/ candidates' = q /\ batches' = batches
             /\ candidates' \in Seq(Job) /\ batches' \subseteq Seq(Job)
  <1> DEFINE q == Append(candidates, j)
  <1>1. candidates \in Seq(Job)
    BY DEF JobsTyped
  <1>2. /\ q \in Seq(Job) /\ Len(q) = Len(candidates) + 1 /\ q[Len(q)] = j /\ Len(candidates) \in Nat
        /\ \A i \in 1 .. Len(candidates) : q[i] = candidates[i]
    BY <1>1
  <1>3. \/ candidates' = <<>> /\ batches' = batches \cup {q}
        \/ candidates' = q /\ batches' = batches
    BY DEF Add
  <1> HIDE DEF q
  <1>4. candidates' \in Seq(Job) /\ batches' \subseteq Seq(Job)
    <2>1. <<>> \in Seq(Job) /\ batches \subseteq Seq(Job)
      BY DEF JobsTyped
    <2> QED BY <1>2, <1>3, <2>1
  <1> QED BY <1>2, <1>3, <1>4

LEMMA TypedStep == JobsTyped /\ [Next]_vars => JobsTyped'
  <1> SUFFICES ASSUME JobsTyped, [Next]_vars PROVE JobsTyped'
    OBVIOUS
  <1>1. CASE \E j \in saving : AddCandidate(j)
    <2>1. PICK j \in saving : AddCandidate(j)
      BY <1>1
    <2>2. j \in Job /\ Add(j)
      BY <2>1 DEF AddCandidate, JobsTyped, Mine
    <2> QED BY <2>1, <2>2, Added DEF AddCandidate, JobsTyped, chain, placement
  <1>2. CASE \E s \in Stream : WriteLatestKnown(s)
    <2>1. PICK s \in Stream : WriteLatestKnown(s)
      BY <1>2
    <2>2. LatestJob(s) \in Job /\ Add(LatestJob(s))
      BY <2>1, NewJobs DEF WriteLatestKnown, LatestJob, JobsTyped
    <2> QED BY <2>1, <2>2, Added DEF WriteLatestKnown, JobsTyped, chain, stages
  <1>3. CASE TimerCallback
    <2>1. <<>> \in Seq(Job)
      OBVIOUS
    <2> QED BY <1>3, <2>1 DEF TimerCallback, JobsTyped, chain, stages, placement
  <1>4. CASE \E s \in Stream : MakeCandidate(s)
    <2>1. PICK s \in Stream : MakeCandidate(s)
      BY <1>4
    <2>2. saving' = saving \cup {NewJob(s)} /\ NewJob(s) \in Mine
      BY <2>1, NewJobs DEF MakeCandidate, NewJob, JobsTyped
    <2> QED BY <2>1, <2>2 DEF MakeCandidate, JobsTyped, chain, placement, tracker
  <1>5. CASE \/ \E s \in Stream : PromoteOnEvent(s)
             \/ \E a \in applying : ApplyMiniblock(a)
             \/ \E j \in promoting : PromoteConfirmed(j)
    <2>1. local' \in [Stream -> Nat]
      <3>1. CASE \E s \in Stream : PromoteOnEvent(s)
        <4>1. PICK s \in Stream : Advance(s, local[s] + 1)
          BY <3>1 DEF PromoteOnEvent
        <4> QED BY <4>1 DEF JobsTyped, Advance
      <3>2. CASE \E a \in applying : ApplyMiniblock(a)
        <4>1. PICK a \in applying : \/ a.job.num = local[a.job.stream] + 1 /\ Advance(a.job.stream, a.job.num)
                                    \/ local' = local
          BY <3>2 DEF ApplyMiniblock
        <4> QED BY <4>1 DEF JobsTyped, Advance
      <3>3. CASE \E j \in promoting : PromoteConfirmed(j)
        <4>1. PICK j \in promoting :
                   \/ local[j.stream] + 1 = reg[j.stream] /\ Advance(j.stream, reg[j.stream])
                   \/ local' = local
          BY <3>3 DEF PromoteConfirmed
        <4> QED BY <4>1 DEF JobsTyped, Advance
      <3> QED BY <1>5, <3>1, <3>2, <3>3
    <2> QED BY <1>5, <2>1 DEF PromoteOnEvent, ApplyMiniblock, PromoteConfirmed, JobsTyped, stages, tracker, placement
  <1>6. CASE \E b \in batches : \E mined, seen \in BOOLEAN : SubmitBatch(b, mined, seen)
    <2>1. PICK b \in batches, mined \in BOOLEAN, seen \in BOOLEAN : SubmitBatch(b, mined, seen)
      BY <1>6
    <2>2. b \in Seq(Job)
      BY DEF JobsTyped
    <2>3. reg' \in [Stream -> Nat]
      <3>1. reg' = [s \in Stream |-> IF mined /\ Nums(b, s) # {} THEN Max(Nums(b, s)) ELSE reg[s]]
        BY <2>1 DEF SubmitBatch, Nums
      <3>2. ASSUME NEW s \in Stream, Nums(b, s) # {} PROVE Max(Nums(b, s)) \in Nat
        <4>1. PICK i \in Accepted(b) : Max(Nums(b, s)) = b[i].num
          BY <2>2, <3>2, RegisteredIsAccepted DEF JobsTyped
        <4>2. b[i] \in Job
          BY <2>2 DEF Accepted, Filtered
        <4> QED BY <4>1, <4>2, JobFields
      <3> QED BY <3>1, <3>2 DEF JobsTyped
    <2>4. \A j \in Range(b) : j \in Job
      BY <2>2 DEF Range
    <2>5. \A a \in applying' : a.job \in Mine
      BY <2>1, <2>4 DEF SubmitBatch, JobsTyped, Mine
    <2>6. outOfSync' \subseteq SUBSET Mine
      BY <2>1, <2>4 DEF SubmitBatch, JobsTyped, Mine
    <2> QED BY <2>1, <2>3, <2>5, <2>6 DEF SubmitBatch, JobsTyped, placement, tracker
  <1>7. CASE \/ vars' = vars \/ OnNewBlock \/ TimerExpires
             \/ \E s \in Stream : NotLeader(s) \/ TrySchedule(s) \/ JobWithoutCandidate(s) \/ AddEvent(s)
                                  \/ TestMakeMiniblock(s)
             \/ \E j \in saving : SaveFails(j)
             \/ \E a \in applying : ApplyFails(a)
             \/ \E js \in outOfSync : ReadHead(js) \/ ReadHeadFails(js)
    BY <1>7 DEF OnNewBlock, TimerExpires, NotLeader, TrySchedule, JobWithoutCandidate, AddEvent,
       TestMakeMiniblock, SaveFails, ApplyFails, ReadHead, ReadHeadFails, vars, chain,
       stages, tracker, placement, JobsTyped
  <1>8. CASE \E s \in Stream : OtherRegisters(s) \/ PlacementUpdated(s)
    BY <1>8 DEF OtherRegisters, PlacementUpdated, chain, stages, tracker, placement, JobsTyped
  <1> QED BY <1>1, <1>2, <1>3, <1>4, <1>5, <1>6, <1>7, <1>8 DEF Next, Schedule, Register, Finish, Environment
----------------------------------------------------------------------------
OneJob(s) == \A p, q \in Places(s) : p = q /\ s \in jobs

(* A job starts: the jobs map held none of its stream. *)
LEMMA JobStarts ==
    ASSUME JobsTyped, OneJobPerStream, NEW s \in Stream, TrySchedule(s) \/ TestMakeMiniblock(s)
    PROVE  OneJobPerStream'
  <1> SUFFICES ASSUME NEW t \in Stream PROVE OneJob(t)'
    BY DEF OneJob, OneJobPerStream
  <1>1. UNCHANGED <<saving, candidates, batches, applying, outOfSync, promoting>>
    BY DEF TrySchedule, TestMakeMiniblock, tracker
  <1>2. /\ jobs' = jobs \cup {s}
        /\ starting' = IF s \in jobs THEN starting ELSE starting \cup {s}
    BY DEF TrySchedule, TestMakeMiniblock
  <1>3. \A p \in Places(t)' : p \in Places(t) \/ (t = s /\ s \notin jobs /\ p = <<"starting", s>>)
    BY <1>1, <1>2 DEF Places
  <1> QED BY <1>2, <1>3 DEF OneJob, OneJobPerStream

(* A job ends, or is given up, where it is. *)
LEMMA JobEnds ==
    ASSUME JobsTyped, OneJobPerStream,
           \/ \E s \in Stream : JobWithoutCandidate(s)
           \/ \E j \in saving : SaveFails(j)
           \/ \E a \in applying : ApplyMiniblock(a) \/ ApplyFails(a)
           \/ \E j \in promoting : PromoteConfirmed(j)
           \/ \E js \in outOfSync : ReadHeadFails(js)
    PROVE  OneJobPerStream'
  <1> SUFFICES ASSUME NEW t \in Stream PROVE OneJob(t)'
    BY DEF OneJob, OneJobPerStream
  <1>0. \A p, q \in Places(t) : p = q /\ t \in jobs
    BY DEF OneJobPerStream
  <1>1. ASSUME NEW s \in Stream, JobWithoutCandidate(s) PROVE OneJob(t)'
    <2>1. /\ s \in starting /\ starting' = starting \ {s} /\ jobs' = jobs \ {s}
          /\ UNCHANGED <<saving, candidates, batches, applying, outOfSync, promoting>>
      BY <1>1 DEF JobWithoutCandidate, tracker
    <2>2. t = s => <<"starting", s>> \in Places(t)
      BY <2>1 DEF Places
    <2>3. \A p \in Places(t)' : p \in Places(t) /\ p # <<"starting", s>>
      BY <2>1 DEF Places
    <2> QED BY <1>0, <2>1, <2>2, <2>3 DEF OneJob
  <1>2. ASSUME NEW j \in saving, SaveFails(j) PROVE OneJob(t)'
    <2>1. /\ saving' = saving \ {j} /\ jobs' = jobs \ {j.stream} /\ ~ j.skip
          /\ UNCHANGED <<starting, candidates, batches, applying, outOfSync, promoting>>
      BY <1>2 DEF SaveFails, Done, tracker, JobsTyped, Mine
    <2>2. t = j.stream => <<"saving", j>> \in Places(t)
      BY <2>1 DEF Places
    <2>3. \A p \in Places(t)' : p \in Places(t) /\ p # <<"saving", j>>
      BY <2>1 DEF Places
    <2> QED BY <1>0, <2>1, <2>2, <2>3 DEF OneJob
  <1>3. ASSUME NEW a \in applying, ApplyMiniblock(a) \/ ApplyFails(a) PROVE OneJob(t)'
    <2>1. /\ applying' = applying \ {a} /\ jobs' = jobs \ {a.job.stream}
          /\ UNCHANGED <<starting, saving, candidates, batches, outOfSync, promoting>>
      BY <1>3 DEF ApplyMiniblock, ApplyFails, Done, tracker
    <2>2. t = a.job.stream => <<"applying", a>> \in Places(t)
      BY <2>1 DEF Places
    <2>3. \A p \in Places(t)' : p \in Places(t) /\ p # <<"applying", a>>
      BY <2>1 DEF Places
    <2> QED BY <1>0, <2>1, <2>2, <2>3 DEF OneJob
  <1>4. ASSUME NEW j \in promoting, PromoteConfirmed(j) PROVE OneJob(t)'
    <2>1. /\ promoting' = promoting \ {j} /\ jobs' = jobs \ {j.stream} /\ ~ j.skip
          /\ UNCHANGED <<starting, saving, candidates, batches, applying, outOfSync>>
      BY <1>4 DEF PromoteConfirmed, Done, tracker, JobsTyped, Mine
    <2>2. t = j.stream => <<"promoting", j>> \in Places(t)
      BY <2>1 DEF Places
    <2>3. \A p \in Places(t)' : p \in Places(t) /\ p # <<"promoting", j>>
      BY <2>1 DEF Places
    <2> QED BY <1>0, <2>1, <2>2, <2>3 DEF OneJob
  <1>5. ASSUME NEW js \in outOfSync, ReadHeadFails(js) PROVE OneJob(t)'
    <2>1. /\ outOfSync' = outOfSync \ {js}
          /\ UNCHANGED <<jobs, starting, saving, candidates, batches, applying, promoting>>
      BY <1>5 DEF ReadHeadFails, tracker
    <2>2. \A p \in Places(t)' : p \in Places(t)
      BY <2>1 DEF Places
    <2> QED BY <1>0, <2>1, <2>2 DEF OneJob
  <1> QED BY <1>1, <1>2, <1>3, <1>4, <1>5

(* A job moves on to the next place. *)
LEMMA JobMoves ==
    ASSUME JobsTyped, OneJobPerStream,
           \/ \E s \in Stream : MakeCandidate(s)
           \/ \E js \in outOfSync : ReadHead(js)
    PROVE  OneJobPerStream'
  <1> SUFFICES ASSUME NEW t \in Stream PROVE OneJob(t)'
    BY DEF OneJob, OneJobPerStream
  <1>0. \A p, q \in Places(t) : p = q /\ t \in jobs
    BY DEF OneJobPerStream
  <1>1. ASSUME NEW s \in Stream, MakeCandidate(s) PROVE OneJob(t)'
    <2>1. /\ s \in starting /\ starting' = starting \ {s} /\ saving' = saving \cup {NewJob(s)}
          /\ UNCHANGED <<jobs, candidates, batches, applying, outOfSync, promoting>>
      BY <1>1 DEF MakeCandidate, NewJob, tracker
    <2>2. NewJob(s).stream = s
      BY NewJobs DEF JobsTyped
    <2>3. t = s => <<"starting", s>> \in Places(t)
      BY <2>1 DEF Places
    <2>4. \A p \in Places(t)' :
            (p \in Places(t) /\ p # <<"starting", s>>) \/ (t = s /\ p = <<"saving", NewJob(s)>>)
      BY <2>1, <2>2 DEF Places
    <2> QED BY <1>0, <2>1, <2>3, <2>4 DEF OneJob
  <1>2. ASSUME NEW js \in outOfSync, ReadHead(js) PROVE OneJob(t)'
    <2>1. /\ outOfSync' = outOfSync \ {js} /\ promoting' = promoting \cup js
          /\ UNCHANGED <<jobs, starting, saving, candidates, batches, applying>>
      BY <1>2 DEF ReadHead, tracker
    <2>2. \A p \in Places(t)' :
            \/ p \in Places(t) /\ \A j \in js : p # <<"outOfSync", js, j>>
            \/ \E j \in js : p = <<"promoting", j>> /\ <<"outOfSync", js, j>> \in Places(t)
      BY <2>1 DEF Places
    <2>3. ASSUME NEW j \in js, NEW k \in js, <<"outOfSync", js, j>> = <<"outOfSync", js, k>> PROVE j = k
      BY <2>3
    <2> QED BY <1>0, <2>1, <2>2, <2>3 DEF OneJob
  <1> QED BY <1>1, <1>2

(* Candidates become a batch, or one is added: the job of a stream moves   *)
(* with them.  The job that is added, the last of q, leaves the place o.   *)
LEMMA CandidatesMove ==
    ASSUME NEW t \in Stream, NEW q, NEW n \in Nat, NEW l \in Nat, NEW o,
           candidates \in Seq(Job), Len(candidates) = l, l = n \/ n = l + 1, DOMAIN q = 1 .. n,
           \A i \in 1 .. l : q[i] = candidates[i],
           \/ candidates' = <<>> /\ batches' = batches \cup {q}
           \/ candidates' = q /\ batches' = batches,
           candidates' = <<>> => candidates' # q,
           saving' \subseteq saving, UNCHANGED <<starting, applying, outOfSync, promoting>>,
           \A p, r \in Places(t) : p = r /\ t \in jobs,
           n # l /\ q[n].stream = t /\ ~ q[n].skip => o \in Places(t) /\ o \notin Places(t)' /\ o[1] = "saving"
    PROVE  \A p, r \in Places(t)' : p = r /\ t \in jobs
  <1> DEFINE A(p) == p \in Places(t) /\ (p[1] = "candidates" => candidates' = q)
             B(p) == /\ candidates' = <<>>
                     /\ \E i \in 1 .. l : p = <<"batches", q, i>> /\ <<"candidates", i>> \in Places(t)
             C(p) == /\ q[n].stream = t /\ ~ q[n].skip /\ n # l
                     /\ p = IF candidates' = q THEN <<"candidates", n>> ELSE <<"batches", q, n>>
  <1>1. ASSUME NEW p \in Places(t)', ~ A(p) PROVE B(p) \/ C(p)
    <2>1. \/ \E i \in DOMAIN candidates' :
               p = <<"candidates", i>> /\ candidates'[i].stream = t /\ ~ candidates'[i].skip
          \/ candidates' = <<>> /\ \E i \in DOMAIN q : p = <<"batches", q, i>> /\ q[i].stream = t /\ ~ q[i].skip
      BY <1>1 DEF Places
    <2>2. DOMAIN candidates = 1 .. l
      OBVIOUS
    <2>3. CASE candidates' = q
      <3>1. PICK i \in 1 .. n : p = <<"candidates", i>> /\ q[i].stream = t /\ ~ q[i].skip
        BY <2>1, <2>3
      <3>2. i \notin 1 .. l
        BY <1>1, <2>2, <2>3, <3>1 DEF Places
      <3>3. i = n /\ n # l
        <4> HIDE DEF A
        <4> QED BY <3>2
      <3> QED BY <2>3, <3>1, <3>3
    <2>4. CASE candidates' # q
      <3>1. PICK i \in 1 .. n : p = <<"batches", q, i>> /\ q[i].stream = t /\ ~ q[i].skip
        BY <2>1, <2>4
      <3>2. CASE i \in 1 .. l
        <4>1. <<"candidates", i>> \in Places(t)
          BY <2>2, <3>1, <3>2 DEF Places
        <4> QED BY <2>4, <3>1, <3>2, <4>1
      <3>3. CASE i \notin 1 .. l
        <4>1. i = n /\ n # l
          <5> HIDE DEF A
          <5> QED BY <3>3
        <4> QED BY <2>4, <3>1, <4>1
      <3> QED BY <3>2, <3>3
    <2> QED BY <2>3, <2>4
  <1>2. \A i : <<"candidates", i>>[1] = "candidates"
    OBVIOUS
  <1>3. \A i, k : <<"candidates", i>> = <<"candidates", k>> => i = k
    OBVIOUS
  <1>4. \A p, r : A(p) /\ A(r) => p = r
    OBVIOUS
  <1>5. \A p, r : ~ (A(p) /\ B(r))
    BY <1>2
  <1>6. \A p \in Places(t)' : \A r : ~ (A(p) /\ C(r))
    OBVIOUS
  <1>7. \A p, r : B(p) /\ B(r) => p = r
    BY <1>3
  <1>8. \A p, r : ~ (B(p) /\ C(r))
    BY <1>2
  <1>9. \A p, r : C(p) /\ C(r) => p = r
    OBVIOUS
  <1>10. \A p : A(p) \/ B(p) \/ C(p) => t \in jobs
    OBVIOUS
  <1> HIDE DEF A, B, C
  <1> QED BY <1>1, <1>4, <1>5, <1>6, <1>7, <1>8, <1>9, <1>10

LEMMA JobIsCollected ==
    ASSUME JobsTyped, OneJobPerStream,
           \/ \E j \in saving : AddCandidate(j)
           \/ \E s \in Stream : WriteLatestKnown(s)
           \/ TimerCallback
    PROVE  OneJobPerStream'
  <1> SUFFICES ASSUME NEW t \in Stream PROVE OneJob(t)'
    BY DEF OneJob, OneJobPerStream
  <1>0. \A p, q \in Places(t) : p = q /\ t \in jobs
    BY DEF OneJobPerStream
  <1>1. jobs' = jobs /\ UNCHANGED <<starting, applying, outOfSync, promoting>> /\ candidates \in Seq(Job)
    BY DEF AddCandidate, WriteLatestKnown, TimerCallback, stages, JobsTyped
  <1>2. ASSUME NEW j \in Job, Add(j), NEW o, saving' \subseteq saving,
               j.stream = t /\ ~ j.skip => o \in Places(t) /\ o \notin Places(t)' /\ o[1] = "saving"
        PROVE  OneJob(t)'
    <2>1. PICK q \in Seq(Job) :
             /\ Len(q) = Len(candidates) + 1 /\ q[Len(q)] = j /\ Len(candidates) \in Nat
             /\ \A i \in 1 .. Len(candidates) : q[i] = candidates[i]
             /\ \/ candidates' = <<>> /\ batches' = batches \cup {q}
                \/ candidates' = q /\ batches' = batches
      BY <1>2, Added
    <2>2. Len(q) \in Nat /\ DOMAIN q = 1 .. Len(q)
      OBVIOUS
    <2>3. q # <<>>
      <3>1. Len(<<>>) = 0
        OBVIOUS
      <3> QED BY <2>1, <3>1
    <2>4. \A p, r \in Places(t)' : p = r /\ t \in jobs
      BY <1>0, <1>1, <1>2, <2>1, <2>2, <2>3, CandidatesMove
    <2> QED BY <1>1, <2>4 DEF OneJob
  <1>3. ASSUME NEW j \in saving, AddCandidate(j) PROVE OneJob(t)'
    <2>1. j \in Job /\ ~ j.skip /\ Add(j) /\ saving' = saving \ {j}
      BY <1>3 DEF AddCandidate, JobsTyped, Mine
    <2>2. j.stream = t => <<"saving", j>> \in Places(t)
      BY <1>3, <2>1 DEF Places
    <2>3. <<"saving", j>> \notin Places(t)' /\ <<"saving", j>>[1] = "saving"
      BY <2>1 DEF Places
    <2> QED BY <1>2, <2>1, <2>2, <2>3
  <1>4. ASSUME NEW s \in Stream, WriteLatestKnown(s) PROVE OneJob(t)'
    <2>1. LatestJob(s) \in Job /\ LatestJob(s).skip /\ Add(LatestJob(s)) /\ saving' = saving
      <3>1. local \in [Stream -> Nat]
        BY DEF JobsTyped
      <3>2. Add(LatestJob(s)) /\ saving' = saving
        BY <1>4 DEF WriteLatestKnown, LatestJob, stages
      <3> QED BY <1>4, <3>1, <3>2, NewJobs
    <2> QED BY <1>2, <2>1
  <1>5. ASSUME TimerCallback PROVE OneJob(t)'
    <2>1. candidates' = <<>> /\ saving' = saving
          /\ batches' = IF candidates = <<>> THEN batches ELSE batches \cup {candidates}
      BY <1>5 DEF TimerCallback, stages
    <2>2. CASE candidates = <<>>
      <3>1. Places(t)' = Places(t)
        BY <1>1, <2>1, <2>2 DEF Places
      <3> QED BY <1>0, <1>1, <3>1 DEF OneJob
    <2>3. CASE candidates # <<>>
      <3>1. PICK q : q = candidates
        OBVIOUS
      <3>2. PICK n \in Nat : Len(candidates) = n
        BY <1>1
      <3>3. DOMAIN q = 1 .. n
        BY <1>1, <3>1, <3>2
      <3>4. \A p, r \in Places(t)' : p = r /\ t \in jobs
        BY <1>0, <1>1, <2>1, <2>3, <3>1, <3>2, <3>3, CandidatesMove
      <3> QED BY <1>1, <3>4 DEF OneJob
    <2> QED BY <2>2, <2>3
  <1> QED BY <1>3, <1>4, <1>5

(* submitProposalBatch hands each job of the batch on to ApplyMiniblock or *)
(* to promoteConfirmedCandidates, or is done with it.                      *)
LEMMA BatchIsSubmitted ==
    ASSUME JobsTyped, OneJobPerStream, NEW b \in batches, NEW mined \in BOOLEAN, NEW seen \in BOOLEAN,
           SubmitBatch(b, mined, seen)
    PROVE  OneJobPerStream'
  <1> SUFFICES ASSUME NEW t \in Stream PROVE OneJob(t)'
    BY DEF OneJob, OneJobPerStream
  <1>0. \A p, q \in Places(t) : p = q /\ t \in jobs
    BY DEF OneJobPerStream
  <1> DEFINE mine == {j \in Range(b) : ~ j.skip}
             apply == {j \in mine : j.stream \in Success(b, seen)}
             bad == {j \in mine \ apply : j.stream \in Invalid(b, seen)}
             given(j) == [job |-> j, ok |-> Confirmed(b, j, mined)]
  <1>1. /\ batches' = batches \ {b}
        /\ applying' = applying \cup {given(j) : j \in apply}
        /\ outOfSync' = IF bad = {} THEN outOfSync ELSE outOfSync \cup {bad}
        /\ jobs' = jobs \ {j.stream : j \in mine \ (apply \cup bad)}
        /\ UNCHANGED <<starting, saving, candidates, promoting>>
    BY DEF SubmitBatch, DoneInBatch, Done, tracker
  <1>2. apply \subseteq mine /\ bad \subseteq mine /\ \A j : ~ (j \in apply /\ j \in bad)
    OBVIOUS
  <1>3. \A j \in mine : ~ j.skip /\ \E i \in DOMAIN b : b[i] = j
    BY DEF Range
  <1>4. \A j \in mine : given(j).job = j
    OBVIOUS
  <1> HIDE DEF mine, apply, bad, given
  <1>5. \A i \in DOMAIN b : b[i].stream = t /\ ~ b[i].skip => <<"batches", b, i>> \in Places(t)
    BY DEF Places
  <1>6. \A j, k \in mine : j.stream = t /\ k.stream = t => j = k
    <2> SUFFICES ASSUME NEW j \in mine, NEW k \in mine, j.stream = t, k.stream = t PROVE j = k
      OBVIOUS
    <2>1. PICK x \in DOMAIN b, y \in DOMAIN b : b[x] = j /\ b[y] = k /\ ~ j.skip /\ ~ k.skip
      BY <1>3
    <2>2. <<"batches", b, x>> = <<"batches", b, y>>
      BY <1>0, <1>5, <2>1
    <2> QED BY <2>1, <2>2
  <1> DEFINE A(p) == p \in Places(t) /\ \A i \in DOMAIN b : p # <<"batches", b, i>>
             B(p) == \E j \in apply : j.stream = t /\ p = <<"applying", given(j)>>
             C(p) == \E j \in bad : j.stream = t /\ p = <<"outOfSync", bad, j>>
  <1>7. ASSUME NEW p \in Places(t)', ~ A(p) PROVE B(p) \/ C(p)
    <2>1. p \in Places(t) => FALSE
      BY <1>1, <1>7 DEF Places
    <2>2. \/ \E a \in applying' \ applying : a.job.stream = t /\ p = <<"applying", a>>
          \/ \E js \in outOfSync' \ outOfSync : \E j \in js : j.stream = t /\ p = <<"outOfSync", js, j>>
      BY <1>1, <2>1 DEF Places
    <2> QED BY <1>1, <1>2, <1>4, <2>2
  <1>8. \A p, r : A(p) /\ A(r) => p = r
    BY <1>0
  <1>9. \A j \in mine : j.stream = t => \E i \in DOMAIN b : <<"batches", b, i>> \in Places(t)
    BY <1>3, <1>5
  <1>10. \A p, r : ~ (A(p) /\ (B(r) \/ C(r)))
    BY <1>0, <1>2, <1>9
  <1>11. \A p, r : B(p) /\ B(r) => p = r
    BY <1>2, <1>6
  <1>12. \A p, r : C(p) /\ C(r) => p = r
    BY <1>2, <1>6
  <1>13. \A p, r : ~ (B(p) /\ C(r))
    BY <1>2, <1>6
  <1>14. \A p : A(p) \/ B(p) \/ C(p) => t \in jobs
    BY <1>0, <1>2, <1>9
  <1>15. \A p : A(p) => t \in jobs'
    <2> SUFFICES ASSUME NEW p, A(p), NEW j \in mine \ (apply \cup bad), j.stream = t PROVE FALSE
      BY <1>1, <1>14
    <2> QED BY <1>0, <1>9
  <1>16. \A p : B(p) \/ C(p) => t \in jobs'
    <2> SUFFICES ASSUME NEW p, B(p) \/ C(p), NEW j \in mine \ (apply \cup bad), j.stream = t PROVE FALSE
      BY <1>1, <1>14
    <2> QED BY <1>2, <1>6
  <1> HIDE DEF A, B, C
  <1>17. \A p, r \in Places(t)' : p = r /\ t \in jobs'
    BY <1>7, <1>8, <1>10, <1>11, <1>12, <1>13, <1>15, <1>16
  <1> QED BY <1>17 DEF OneJob

LEMMA OneJobStep == JobsTyped /\ OneJobPerStream /\ [Next]_vars => OneJobPerStream'
  <1> SUFFICES ASSUME JobsTyped, OneJobPerStream, [Next]_vars PROVE OneJobPerStream'
    OBVIOUS
  <1>1. CASE \/ vars' = vars \/ OnNewBlock \/ TimerExpires
             \/ \E s \in Stream : NotLeader(s) \/ AddEvent(s) \/ OtherRegisters(s) \/ PromoteOnEvent(s)
                                  \/ PlacementUpdated(s)
    <2>1. UNCHANGED <<jobs, starting, saving, candidates, batches, applying, outOfSync, promoting>>
      BY <1>1 DEF vars, OnNewBlock, TimerExpires, NotLeader, AddEvent, OtherRegisters, PromoteOnEvent,
         PlacementUpdated, stages, tracker
    <2> QED BY <2>1 DEF OneJobPerStream, Places
  <1> QED BY <1>1, JobStarts, JobEnds, JobMoves, JobIsCollected, BatchIsSubmitted
          DEF Next, Schedule, Register, Finish, Environment
----------------------------------------------------------------------------
(* The jobs past their first stage, those of writeLatestKnownMiniblock     *)
(* included.                                                               *)
InFlight(j) ==
    \/ j \in saving \/ j \in promoting
    \/ \E i \in DOMAIN candidates : candidates[i] = j
    \/ \E b \in batches : \E i \in DOMAIN b : b[i] = j
    \/ \E a \in applying : a.job = j
    \/ \E js \in outOfSync : j \in js

(* The registry is asked for the candidate of the job. *)
Needs(j) == j.register \/ j.num % Freq = 0 \/ j.num = 1

(* The registry and the view as a job of a stream with one quorum node     *)
(* finds them: the candidate is the next block or, registered already, the *)
(* last one.                                                               *)
IsNext(j) ==
    \/ j.num = local[j.stream] + 1 /\ reg[j.stream] <= j.num
    \/ j.num = local[j.stream] /\ reg[j.stream] = j.num

JobOK(j) ==
    /\ j.register /\ j.stream \notin Replicated => j.stream \in synced
    /\ j.skip => j.register /\ j.stream \notin Replicated /\ j.num <= local[j.stream]
    /\ ~ j.skip /\ j.stream \in Replicated => j.register
    /\ ~ j.skip /\ j.stream \notin Replicated => IsNext(j) /\ (Needs(j) \/ reg[j.stream] < j.num)

(* The registry is at most a block ahead, and then only with a block that  *)
(* is registered.                                                          *)
RegOK(s) ==
    /\ reg[s] <= local[s] + 1
    /\ reg[s] = local[s] + 1 => s \in synced \/ reg[s] % Freq = 0 \/ reg[s] = 1

NumsOK ==
    /\ \A j \in Job : InFlight(j) => JobOK(j)
    /\ \A s \in Stream \ Replicated : RegOK(s)
    /\ AppliedIsConfirmed

JobAt(p) ==
    CASE p[1] = "candidates" -> candidates[p[2]]
      [] p[1] = "batches" -> p[2][p[3]]
      [] p[1] = "applying" -> p[2].job
      [] p[1] = "outOfSync" -> p[3]
      [] OTHER -> p[2]

(* A job in flight is in one of the places of its stream. *)
LEMMA HasPlace == \A j : InFlight(j) /\ ~ j.skip => \E p \in Places(j.stream) : JobAt(p) = j
  <1> SUFFICES ASSUME NEW j, InFlight(j), ~ j.skip PROVE \E p \in Places(j.stream) : JobAt(p) = j
    OBVIOUS
  <1>1. CASE j \in saving
    <2>1. <<"saving", j>> \in Places(j.stream) /\ JobAt(<<"saving", j>>) = j
      BY <1>1 DEF Places, JobAt
    <2> QED BY <2>1
  <1>2. CASE j \in promoting
    <2>1. <<"promoting", j>> \in Places(j.stream) /\ JobAt(<<"promoting", j>>) = j
      BY <1>2 DEF Places, JobAt
    <2> QED BY <2>1
  <1>3. ASSUME NEW i \in DOMAIN candidates, candidates[i] = j PROVE \E p \in Places(j.stream) : JobAt(p) = j
    <2>1. <<"candidates", i>> \in Places(j.stream) /\ JobAt(<<"candidates", i>>) = j
      BY <1>3 DEF Places, JobAt
    <2> QED BY <2>1
  <1>4. ASSUME NEW b \in batches, NEW i \in DOMAIN b, b[i] = j PROVE \E p \in Places(j.stream) : JobAt(p) = j
    <2>1. <<"batches", b, i>> \in Places(j.stream) /\ JobAt(<<"batches", b, i>>) = j
      BY <1>4 DEF Places, JobAt
    <2> QED BY <2>1
  <1>5. ASSUME NEW a \in applying, a.job = j PROVE \E p \in Places(j.stream) : JobAt(p) = j
    <2>1. <<"applying", a>> \in Places(j.stream) /\ JobAt(<<"applying", a>>) = j
      BY <1>5 DEF Places, JobAt
    <2> QED BY <2>1
  <1>6. ASSUME NEW js \in outOfSync, j \in js PROVE \E p \in Places(j.stream) : JobAt(p) = j
    <2>1. <<"outOfSync", js, j>> \in Places(j.stream) /\ JobAt(<<"outOfSync", js, j>>) = j
      BY <1>6 DEF Places, JobAt
    <2> QED BY <2>1
  <1> QED BY <1>1, <1>2, <1>3, <1>4, <1>5, <1>6 DEF InFlight

LEMMA SameJob ==
    ASSUME OneJobPerStream, NEW j \in Job, NEW k \in Job, InFlight(j), InFlight(k), ~ j.skip, ~ k.skip,
           j.stream = k.stream
    PROVE  j = k
  <1>1. j.stream \in Stream
    BY JobFields
  <1>2. PICK p \in Places(j.stream) : JobAt(p) = j
    BY HasPlace
  <1>3. PICK r \in Places(j.stream) : JobAt(r) = k
    BY HasPlace
  <1> QED BY <1>1, <1>2, <1>3 DEF OneJobPerStream

(* A step that leaves the view and the registry alone. *)
LEMMA NumsStay ==
    ASSUME NumsOK, UNCHANGED <<local, reg>>, synced \subseteq synced', applying' \subseteq applying,
           \A j \in Job : InFlight(j)' => InFlight(j) \/ JobOK(j)
    PROVE  NumsOK'
  <1>1. \A j \in Job : InFlight(j)' => JobOK(j)'
    <2> SUFFICES ASSUME NEW j \in Job, JobOK(j) PROVE JobOK(j)'
      BY DEF NumsOK
    <2> QED BY DEF JobOK, IsNext, Needs
  <1>2. \A s \in Stream \ Replicated : RegOK(s)'
    BY DEF NumsOK, RegOK
  <1>3. AppliedIsConfirmed'
    BY DEF NumsOK, AppliedIsConfirmed
  <1> QED BY <1>1, <1>2, <1>3 DEF NumsOK

(* A step by which the view of s gets the next block. *)
LEMMA NumsAdvance ==
    ASSUME JobsTyped, NumsOK, NEW s \in Stream, local' = [local EXCEPT ![s] = local[s] + 1],
           UNCHANGED <<reg, synced>>, applying' \subseteq applying,
           \A j \in Job : InFlight(j)' => InFlight(j),
           \/ reg[s] = local[s] + 1
           \/ \A j \in Job : InFlight(j)' /\ ~ j.skip => j.stream # s
    PROVE  NumsOK'
  <1>1. local \in [Stream -> Nat] /\ reg \in [Stream -> Nat]
    BY DEF JobsTyped
  <1>2. \A t \in Stream : local'[t] = IF t = s THEN local[t] + 1 ELSE local[t]
    BY <1>1
  <1>3. ASSUME NEW j \in Job, InFlight(j)' PROVE JobOK(j)'
    <2>1. JobOK(j) /\ j.stream \in Stream /\ j.num \in Nat
      BY <1>3, JobFields DEF NumsOK
    <2>2. CASE j.stream # s
      <3>1. local'[j.stream] = local[j.stream]
        BY <1>2, <2>1, <2>2
      <3> QED BY <2>1, <3>1 DEF JobOK, IsNext, Needs
    <2>3. CASE j.stream = s
      <3>1. j.skip => JobOK(j)'
        BY <1>1, <1>2, <2>1, <2>3 DEF JobOK
      <3>2. ~ j.skip /\ j.stream \in Replicated => JobOK(j)'
        BY <2>1 DEF JobOK
      <3>3. ASSUME ~ j.skip, j.stream \notin Replicated PROVE JobOK(j)'
        <4>1. reg[s] = local[s] + 1
          BY <1>3, <2>3, <3>3
        <4>2. j.num = local[s] + 1 /\ Needs(j)
          BY <1>1, <2>1, <2>3, <3>3, <4>1 DEF JobOK, IsNext
        <4>3. IsNext(j)'
          BY <1>2, <2>3, <4>1, <4>2 DEF IsNext
        <4> QED BY <2>1, <3>3, <4>2, <4>3 DEF JobOK, Needs
      <3> QED BY <3>1, <3>2, <3>3
    <2> QED BY <2>2, <2>3
  <1>4. \A t \in Stream \ Replicated : RegOK(t)'
    <2> SUFFICES ASSUME NEW t \in Stream \ Replicated PROVE RegOK(t)'
      OBVIOUS
    <2>1. RegOK(t) /\ reg[t] \in Nat /\ local[t] \in Nat
      BY <1>1 DEF NumsOK
    <2> QED BY <1>2, <2>1 DEF RegOK
  <1>5. AppliedIsConfirmed'
    BY DEF NumsOK, AppliedIsConfirmed
  <1> QED BY <1>3, <1>4, <1>5 DEF NumsOK

(* The registry takes a number that a batch gives it: the next one, of the *)
(* job of the stream, or one that the view has, of                         *)
(* writeLatestKnownMiniblock.                                              *)
LEMMA BatchRegisters ==
    ASSUME JobsTyped, NumsOK, OneJobPerStream, NEW b \in batches, NEW mined \in BOOLEAN, NEW seen \in BOOLEAN,
           SubmitBatch(b, mined, seen), NEW s \in Stream \ Replicated, reg'[s] # reg[s]
    PROVE  /\ reg[s] < reg'[s] /\ reg'[s] \in Nat
           /\ \/ reg'[s] <= local[s]
              \/ \E k \in Job : /\ InFlight(k) /\ ~ k.skip /\ k.stream = s /\ Needs(k)
                               /\ k.num = reg'[s] /\ k.num = local[s] + 1
  <1>1. b \in Seq(Job) /\ reg \in [Stream -> Nat] /\ local \in [Stream -> Nat]
    BY DEF JobsTyped
  <1>2. reg' = [t \in Stream |-> IF mined /\ Nums(b, t) # {} THEN Max(Nums(b, t)) ELSE reg[t]]
    BY DEF SubmitBatch, Nums
  <1>3. Nums(b, s) # {} /\ reg'[s] = Max(Nums(b, s))
    BY <1>2
  <1>4. PICK i \in Accepted(b) : b[i].stream = s /\ reg'[s] = b[i].num
    BY <1>1, <1>3, RegisteredIsAccepted
  <1>5. i \in DOMAIN b /\ b[i] \in Job /\ Needs(b[i]) /\ b[i].num > reg[s]
    BY <1>1, <1>4 DEF Accepted, Filtered, Needs
  <1>6. InFlight(b[i])
    BY <1>5 DEF InFlight
  <1>7. JobOK(b[i]) /\ b[i].num \in Nat /\ reg[s] \in Nat /\ local[s] \in Nat
    BY <1>1, <1>5, <1>6, JobFields DEF NumsOK
  <1>8. CASE b[i].skip
    BY <1>4, <1>5, <1>7, <1>8 DEF JobOK
  <1>9. CASE ~ b[i].skip
    <2>1. b[i].num = local[s] + 1
      BY <1>4, <1>5, <1>7, <1>9 DEF JobOK, IsNext
    <2> QED BY <1>4, <1>5, <1>6, <1>7, <1>9, <2>1
  <1> QED BY <1>8, <1>9

(* A job whose stream is among the successful ones is confirmed, although  *)
(* the batch may hold another job of the stream.                           *)
LEMMA BatchConfirms ==
    ASSUME JobsTyped, NumsOK, OneJobPerStream, NEW b \in batches, NEW mined \in BOOLEAN, NEW seen \in BOOLEAN,
           seen => mined, NEW j \in Range(b), ~ j.skip, j.stream \in Success(b, seen)
    PROVE  Confirmed(b, j, mined)
  <1>1. b \in Seq(Job) /\ reg \in [Stream -> Nat] /\ local \in [Stream -> Nat]
    BY DEF JobsTyped
  <1>2. \A i \in 1 .. Len(b) : b[i] \in Job /\ InFlight(b[i])
    BY <1>1 DEF InFlight
  <1>3. PICK n \in 1 .. Len(b) : b[n] = j
    BY <1>1 DEF Range
  <1>4. \A i \in 1 .. Len(b) : ~ b[i].skip /\ b[i].stream = j.stream => b[i] = j
    BY <1>2, <1>3, SameJob
  <1>5. \A i \in 1 .. Len(b) : JobOK(b[i]) /\ b[i].num \in Nat /\ (i \in Filtered(b) <=> Needs(b[i]))
    BY <1>2, JobFields DEF NumsOK, Filtered, Needs
  <1>6. j.stream \in Stream /\ reg[j.stream] \in Nat /\ local[j.stream] \in Nat
    BY <1>1, <1>2, <1>3, JobFields
  <1>7. CASE ~ Needs(j)
    <2>1. j.stream \notin Replicated /\ reg[j.stream] < j.num
      BY <1>3, <1>5, <1>7 DEF JobOK, Needs
    <2>2. n \in (1 .. Len(b)) \ Filtered(b)
      BY <1>3, <1>5, <1>7
    <2> QED BY <1>3, <2>1, <2>2 DEF Confirmed
  <1>8. CASE Needs(j)
    <2>1. \A i \in (1 .. Len(b)) \ Filtered(b) : b[i].stream # j.stream
      <3> SUFFICES ASSUME NEW i \in (1 .. Len(b)) \ Filtered(b), b[i].stream = j.stream PROVE FALSE
        OBVIOUS
      <3>1. ~ Needs(b[i]) /\ JobOK(b[i])
        BY <1>5
      <3>2. ~ b[i].skip
        BY <3>1 DEF JobOK, Needs
      <3> QED BY <1>4, <1>8, <3>1, <3>2
    <2>2. PICK k \in Accepted(b) : seen /\ b[k].stream = j.stream
      BY <2>1 DEF Success, Streams
    <2>3. k \in 1 .. Len(b) /\ k \in Filtered(b) /\ j.stream \notin Sealed /\ b[k].num > reg[j.stream]
      BY <2>2 DEF Accepted, Filtered
    <2>4. n \in Accepted(b)
      <3>1. CASE ~ b[k].skip
        <4>1. b[k] = j
          BY <1>4, <2>2, <2>3, <3>1
        <4>2. <<"batches", b, n>> \in Places(j.stream) /\ <<"batches", b, k>> \in Places(j.stream)
          BY <1>1, <1>3, <2>3, <4>1 DEF Places
        <4>3. <<"batches", b, n>> = <<"batches", b, k>>
          BY <1>6, <4>2 DEF OneJobPerStream
        <4> QED BY <2>2, <4>3
      <3>2. CASE b[k].skip
        <4>1. j.stream \notin Replicated /\ b[k].num <= local[j.stream] /\ b[k].num \in Nat
          BY <1>5, <2>2, <2>3, <3>2 DEF JobOK
        <4>2. j.num = local[j.stream] + 1 /\ reg[j.stream] < j.num
          BY <1>3, <1>5, <1>6, <2>3, <4>1 DEF JobOK, IsNext
        <4>3. ASSUME NEW i \in Filtered(b), i < n, b[i].stream = j.stream PROVE j.num > b[i].num
          <5>1. i \in 1 .. Len(b)
            BY DEF Filtered
          <5>2. CASE b[i].skip
            BY <1>5, <1>6, <4>2, <4>3, <5>1, <5>2 DEF JobOK
          <5>3. CASE ~ b[i].skip
            <6>1. <<"batches", b, n>> \in Places(j.stream) /\ <<"batches", b, i>> \in Places(j.stream)
              BY <1>1, <1>3, <4>3, <5>1, <5>3 DEF Places
            <6>2. <<"batches", b, n>> = <<"batches", b, i>>
              BY <1>6, <6>1 DEF OneJobPerStream
            <6> QED BY <4>3, <6>2
          <5> QED BY <5>2, <5>3
        <4>4. n \in Filtered(b)
          BY <1>3, <1>5, <1>8
        <4> QED BY <1>3, <2>3, <4>2, <4>3, <4>4 DEF Accepted
      <3> QED BY <3>1, <3>2
    <2> QED BY <1>3, <2>2, <2>4 DEF Confirmed
  <1> QED BY <1>7, <1>8

LEMMA NumsSubmit ==
    ASSUME JobsTyped, NumsOK, OneJobPerStream, NEW b \in batches, NEW mined \in BOOLEAN, NEW seen \in BOOLEAN,
           SubmitBatch(b, mined, seen)
    PROVE  NumsOK'
  <1> DEFINE mine == {j \in Range(b) : ~ j.skip}
             apply == {j \in mine : j.stream \in Success(b, seen)}
             bad == {j \in mine \ apply : j.stream \in Invalid(b, seen)}
             given(j) == [job |-> j, ok |-> Confirmed(b, j, mined)]
  <1>1. /\ batches' = batches \ {b} /\ (seen => mined)
        /\ applying' = applying \cup {given(j) : j \in apply}
        /\ outOfSync' = IF bad = {} THEN outOfSync ELSE outOfSync \cup {bad}
        /\ UNCHANGED <<saving, candidates, promoting, local, synced>>
    BY DEF SubmitBatch, tracker, placement
  <1>2. \A j \in apply \cup bad : \E i \in DOMAIN b : b[i] = j
    BY DEF Range
  <1>3. \A j \in apply : given(j).job = j /\ (given(j).ok = Confirmed(b, j, mined))
    OBVIOUS
  <1>4. \A j \in apply : Confirmed(b, j, mined)
    BY <1>1, BatchConfirms
  <1>5. AppliedIsConfirmed'
    <2> SUFFICES ASSUME NEW a \in applying' PROVE a.ok
      BY DEF AppliedIsConfirmed
    <2>1. CASE a \in applying
      BY <2>1 DEF NumsOK, AppliedIsConfirmed
    <2>2. CASE a \notin applying
      <3>1. PICK j \in apply : a = given(j)
        BY <1>1, <2>2
      <3> HIDE DEF apply, given
      <3>2. a.ok = Confirmed(b, j, mined) /\ Confirmed(b, j, mined)
        BY <1>3, <1>4, <3>1
      <3> QED BY <3>2
    <2> QED BY <2>1, <2>2
  <1> HIDE DEF mine, apply, bad, given
  <1>6. \A j : InFlight(j)' => InFlight(j)
    BY <1>1, <1>2, <1>3 DEF InFlight
  <1>7. reg \in [Stream -> Nat] /\ local \in [Stream -> Nat]
    BY DEF JobsTyped
  <1>8. ASSUME NEW j \in Job, InFlight(j)' PROVE JobOK(j)'
    <2>1. JobOK(j) /\ InFlight(j) /\ j.stream \in Stream /\ j.num \in Nat
      BY <1>6, <1>8, JobFields DEF NumsOK
    <2>2. CASE j.skip \/ j.stream \in Replicated \/ reg'[j.stream] = reg[j.stream]
      BY <1>1, <2>1, <2>2 DEF JobOK, IsNext, Needs
    <2>3. CASE ~ j.skip /\ j.stream \notin Replicated /\ reg'[j.stream] # reg[j.stream]
      <3> DEFINE s == j.stream
      <3>1. s \in Stream \ Replicated /\ reg[s] \in Nat /\ local[s] \in Nat
        BY <1>7, <2>1, <2>3
      <3>2. /\ reg[s] < reg'[s] /\ reg'[s] \in Nat
            /\ \/ reg'[s] <= local[s]
               \/ \E k \in Job : /\ InFlight(k) /\ ~ k.skip /\ k.stream = s /\ Needs(k)
                                /\ k.num = reg'[s] /\ k.num = local[s] + 1
        BY <2>3, <3>1, BatchRegisters
      <3>3. IsNext(j)
        BY <2>1, <2>3 DEF JobOK
      <3>4. CASE reg'[s] <= local[s]
        <4>1. j.num = local[s] + 1 /\ reg'[s] < j.num
          BY <3>1, <3>2, <3>3, <3>4 DEF IsNext
        <4>2. IsNext(j)' /\ reg'[s] < j.num
          BY <1>1, <2>1, <3>1, <3>2, <4>1 DEF IsNext
        <4> QED BY <1>1, <2>1, <2>3, <4>2 DEF JobOK
      <3>5. CASE reg'[s] > local[s]
        <4>1. PICK k \in Job : /\ InFlight(k) /\ ~ k.skip /\ k.stream = s /\ Needs(k)
                               /\ k.num = reg'[s] /\ k.num = local[s] + 1
          BY <3>1, <3>2, <3>5
        <4>2. k = j
          BY <2>1, <2>3, <4>1, SameJob
        <4>3. Needs(j) /\ j.num = reg'[s] /\ j.num = local[s] + 1
          BY <4>1, <4>2
        <4>4. IsNext(j)'
          BY <1>1, <2>1, <3>1, <4>3 DEF IsNext, Needs
        <4> QED BY <1>1, <2>1, <2>3, <4>3, <4>4 DEF JobOK, Needs
      <3> QED BY <3>1, <3>2, <3>4, <3>5
    <2> QED BY <2>2, <2>3
  <1>9. ASSUME NEW s \in Stream \ Replicated PROVE RegOK(s)'
    <2>1. RegOK(s) /\ reg[s] \in Nat /\ local[s] \in Nat
      BY <1>7 DEF NumsOK
    <2>2. CASE reg'[s] = reg[s]
      BY <1>1, <2>1, <2>2 DEF RegOK
    <2>3. CASE reg'[s] # reg[s]
      <3>1. /\ reg[s] < reg'[s] /\ reg'[s] \in Nat
            /\ \/ reg'[s] <= local[s]
               \/ \E k \in Job : /\ InFlight(k) /\ ~ k.skip /\ k.stream = s /\ Needs(k)
                                /\ k.num = reg'[s] /\ k.num = local[s] + 1
        BY <2>3, BatchRegisters
      <3>2. CASE reg'[s] <= local[s]
        BY <1>1, <2>1, <3>1, <3>2 DEF RegOK
      <3>3. CASE reg'[s] > local[s]
        <4>1. PICK k \in Job : /\ InFlight(k) /\ ~ k.skip /\ k.stream = s /\ Needs(k)
                               /\ k.num = reg'[s] /\ k.num = local[s] + 1
          BY <2>1, <3>1, <3>3
        <4>2. k.register => s \in synced
          BY <4>1 DEF NumsOK, JobOK
        <4> QED BY <1>1, <2>1, <4>1, <4>2 DEF RegOK, Needs
      <3> QED BY <2>1, <3>1, <3>2, <3>3
    <2> QED BY <2>2, <2>3
  <1> QED BY <1>5, <1>8, <1>9 DEF NumsOK

(* Steps that neither move the view nor the registry. *)
LEMMA NumsQuiet ==
    ASSUME JobsTyped, NumsOK,
           \/ vars' = vars \/ OnNewBlock \/ TimerExpires \/ TimerCallback
           \/ \E s \in Stream : NotLeader(s) \/ TrySchedule(s) \/ JobWithoutCandidate(s) \/ AddEvent(s)
                                \/ TestMakeMiniblock(s) \/ PlacementUpdated(s)
           \/ \E j \in saving : SaveFails(j)
           \/ \E a \in applying : ApplyFails(a)
           \/ \E js \in outOfSync : ReadHead(js) \/ ReadHeadFails(js)
    PROVE  NumsOK'
  <1>1. UNCHANGED <<local, reg>> /\ synced \subseteq synced' /\ applying' \subseteq applying
    BY DEF vars, OnNewBlock, TimerExpires, TimerCallback, NotLeader, TrySchedule, JobWithoutCandidate, AddEvent,
       TestMakeMiniblock, PlacementUpdated, SaveFails, ApplyFails, ReadHead, ReadHeadFails, chain, stages,
       placement
  <1>2. \A j \in Job : InFlight(j)' => InFlight(j)
    <2>1. CASE TimerCallback
      BY <2>1 DEF TimerCallback, stages, InFlight
    <2>2. CASE \E js \in outOfSync : ReadHead(js) \/ ReadHeadFails(js)
      BY <2>2 DEF ReadHead, ReadHeadFails, tracker, InFlight
    <2>3. CASE /\ saving' \subseteq saving /\ applying' \subseteq applying
               /\ UNCHANGED <<candidates, batches, outOfSync, promoting>>
      BY <2>3 DEF InFlight
    <2> QED
      BY <2>1, <2>2, <2>3 DEF vars, OnNewBlock, TimerExpires, NotLeader, TrySchedule, JobWithoutCandidate,
         AddEvent, TestMakeMiniblock, PlacementUpdated, SaveFails, ApplyFails, stages, tracker
  <1> QED BY <1>1, <1>2, NumsStay

(* Steps by which a job is made up or handed to the candidateTracker. *)
LEMMA NumsNewJob ==
    ASSUME JobsTyped, NumsOK,
           \/ \E j \in saving : AddCandidate(j)
           \/ \E s \in Stream : WriteLatestKnown(s) \/ MakeCandidate(s)
    PROVE  NumsOK'
  <1>1. UNCHANGED <<local, reg, synced, applying>>
    BY DEF AddCandidate, WriteLatestKnown, MakeCandidate, chain, placement, stages
  <1>2. ASSUME NEW k \in Job, Add(k), InFlight(k) \/ JobOK(k), saving' \subseteq saving,
               UNCHANGED <<promoting, outOfSync>>
        PROVE  NumsOK'
    <2>1. PICK q \in Seq(Job) :
             /\ Len(q) = Len(candidates) + 1 /\ q[Len(q)] = k /\ Len(candidates) \in Nat
             /\ \A i \in 1 .. Len(candidates) : q[i] = candidates[i]
             /\ \/ candidates' = <<>> /\ batches' = batches \cup {q}
                \/ candidates' = q /\ batches' = batches
      BY <1>2, Added
    <2>2. \A i \in DOMAIN q : q[i] = k \/ \E m \in DOMAIN candidates : candidates[m] = q[i]
      <3>1. candidates \in Seq(Job)
        BY DEF JobsTyped
      <3>2. DOMAIN q = 1 .. Len(q) /\ DOMAIN candidates = 1 .. Len(candidates)
        BY <3>1
      <3>3. \A i \in 1 .. Len(q) : i = Len(q) \/ i \in 1 .. Len(candidates)
        BY <2>1
      <3> QED BY <2>1, <3>2, <3>3
    <2>3. \A j \in Job : InFlight(j)' => InFlight(j) \/ j = k
      BY <1>1, <1>2, <2>1, <2>2 DEF InFlight
    <2> QED BY <1>1, <1>2, <2>3, NumsStay
  <1>3. ASSUME NEW j \in saving, AddCandidate(j) PROVE NumsOK'
    <2>1. j \in Job /\ InFlight(j) /\ Add(j) /\ saving' \subseteq saving /\ UNCHANGED <<promoting, outOfSync>>
      BY <1>3 DEF AddCandidate, JobsTyped, Mine, InFlight
    <2> QED BY <1>2, <2>1
  <1>4. ASSUME NEW s \in Stream, WriteLatestKnown(s) PROVE NumsOK'
    <2>1. LatestJob(s) \in Job /\ Add(LatestJob(s)) /\ UNCHANGED <<saving, promoting, outOfSync>>
      <3>1. local \in [Stream -> Nat]
        BY DEF JobsTyped
      <3>2. Add(LatestJob(s)) /\ UNCHANGED <<saving, promoting, outOfSync>>
        BY <1>4 DEF WriteLatestKnown, LatestJob, stages
      <3> QED BY <1>4, <3>1, <3>2, NewJobs
    <2>2. s \in synced /\ s \notin Replicated /\ local[s] \in Nat
      BY <1>4 DEF WriteLatestKnown, JobsTyped
    <2>3. JobOK(LatestJob(s))
      BY <2>2, NewJobs DEF JobOK, JobsTyped
    <2> QED BY <1>2, <2>1, <2>3
  <1>5. ASSUME NEW s \in Stream, MakeCandidate(s) PROVE NumsOK'
    <2>1. saving' = saving \cup {NewJob(s)} /\ UNCHANGED <<promoting, outOfSync, candidates, batches>>
      BY <1>5 DEF MakeCandidate, NewJob, tracker
    <2>2. /\ NewJob(s) \in Mine /\ NewJob(s).stream = s /\ NewJob(s).num = local[s] + 1
          /\ (NewJob(s).register <=> s \in Replicated \cup synced)
          /\ local[s] \in Nat /\ reg[s] \in Nat
      BY NewJobs DEF JobsTyped
    <2>3. JobOK(NewJob(s))
      <3>1. s \notin Replicated => RegOK(s)
        BY DEF NumsOK
      <3>2. s \notin Replicated => IsNext(NewJob(s))
        BY <2>2, <3>1 DEF RegOK, IsNext
      <3>3. s \notin Replicated => Needs(NewJob(s)) \/ reg[s] < NewJob(s).num
        BY <2>2, <3>1 DEF RegOK, Needs
      <3> QED BY <2>2, <3>2, <3>3 DEF JobOK, Mine
    <2>4. \A j \in Job : InFlight(j)' => InFlight(j) \/ j = NewJob(s)
      BY <1>1, <2>1 DEF InFlight
    <2> QED BY <1>1, <2>3, <2>4, NumsStay
  <1> QED BY <1>3, <1>4, <1>5

(* Steps by which the registry or the view moves on. *)
LEMMA NumsMove ==
    ASSUME JobsTyped, NumsOK, OneJobPerStream, OneJobPerStream',
           \/ \E s \in Stream : OtherRegisters(s) \/ PromoteOnEvent(s)
           \/ \E a \in applying : ApplyMiniblock(a)
           \/ \E j \in promoting : PromoteConfirmed(j)
    PROVE  NumsOK'
  <1>0. reg \in [Stream -> Nat] /\ local \in [Stream -> Nat]
    BY DEF JobsTyped
  <1>1. ASSUME NEW s \in Stream, OtherRegisters(s) PROVE NumsOK'
    <2>1. /\ s \in Replicated /\ \A t \in Stream \ Replicated : reg'[t] = reg[t]
          /\ UNCHANGED <<local, synced, saving, candidates, batches, applying, outOfSync, promoting>>
      BY <1>0, <1>1 DEF OtherRegisters, stages, tracker, placement
    <2>2. ASSUME NEW j \in Job, InFlight(j)' PROVE JobOK(j)'
      <3>1. JobOK(j) /\ j.stream \in Stream
        BY <2>1, <2>2, JobFields DEF NumsOK, InFlight
      <3> QED BY <2>1, <3>1 DEF JobOK, IsNext, Needs
    <2>3. \A t \in Stream \ Replicated : RegOK(t)'
      BY <2>1 DEF NumsOK, RegOK
    <2>4. AppliedIsConfirmed'
      BY <2>1 DEF NumsOK, AppliedIsConfirmed
    <2> QED BY <2>2, <2>3, <2>4 DEF NumsOK
  <1>2. ASSUME NEW s \in Stream, PromoteOnEvent(s) PROVE NumsOK'
    <2>1. /\ local' = [local EXCEPT ![s] = local[s] + 1] /\ local[s] < reg[s]
          /\ UNCHANGED <<reg, synced, saving, candidates, batches, applying, outOfSync, promoting>>
      BY <1>2 DEF PromoteOnEvent, Advance, stages, tracker, placement
    <2>2. \A j \in Job : InFlight(j)' => InFlight(j)
      BY <2>1 DEF InFlight
    <2>3. CASE s \notin Replicated
      <3>1. reg[s] = local[s] + 1
        BY <1>0, <2>1, <2>3 DEF NumsOK, RegOK
      <3> QED BY <2>1, <2>2, <3>1, NumsAdvance
    <2>4. CASE s \in Replicated
      <3>1. \A t \in Stream \ Replicated : local'[t] = local[t]
        BY <1>0, <2>1, <2>4
      <3>2. ASSUME NEW j \in Job, InFlight(j)' PROVE JobOK(j)'
        <4>1. JobOK(j) /\ j.stream \in Stream
          BY <2>2, <3>2, JobFields DEF NumsOK
        <4> QED BY <2>1, <3>1, <4>1 DEF JobOK, IsNext, Needs
      <3>3. \A t \in Stream \ Replicated : RegOK(t)'
        BY <2>1, <3>1 DEF NumsOK, RegOK
      <3>4. AppliedIsConfirmed'
        BY <2>1 DEF NumsOK, AppliedIsConfirmed
      <3> QED BY <3>2, <3>3, <3>4 DEF NumsOK
    <2> QED BY <2>3, <2>4
  <1>3. ASSUME NEW a \in applying, ApplyMiniblock(a) PROVE NumsOK'
    <2>1. /\ applying' = applying \ {a}
          /\ UNCHANGED <<reg, synced, saving, candidates, batches, outOfSync, promoting>>
          /\ jobs' = jobs \ {a.job.stream}
      BY <1>3 DEF ApplyMiniblock, Done, tracker, placement
    <2>2. \A j \in Job : InFlight(j)' => InFlight(j)
      BY <2>1 DEF InFlight
    <2>3. CASE local' = local
      BY <2>1, <2>2, <2>3, NumsStay
    <2>4. CASE local' # local
      <3>1. local' = [local EXCEPT ![a.job.stream] = local[a.job.stream] + 1]
        BY <1>3, <2>4 DEF ApplyMiniblock, Advance
      <3>2. a.job.stream \in Stream
        BY JobFields DEF JobsTyped, Mine
      <3>3. (\A j : InFlight(j) /\ ~ j.skip => \E p \in Places(j.stream) : JobAt(p) = j)'
        BY HasPlace, PTL
      <3>4. \A j \in Job : InFlight(j)' /\ ~ j.skip => j.stream # a.job.stream
        BY <2>1, <3>2, <3>3 DEF OneJobPerStream
      <3> QED BY <2>1, <2>2, <3>1, <3>2, <3>4, NumsAdvance
    <2> QED BY <2>3, <2>4
  <1>4. ASSUME NEW k \in promoting, PromoteConfirmed(k) PROVE NumsOK'
    <2>1. /\ promoting' = promoting \ {k}
          /\ UNCHANGED <<reg, synced, saving, candidates, batches, applying, outOfSync>>
      BY <1>4 DEF PromoteConfirmed, tracker, placement
    <2>2. \A j \in Job : InFlight(j)' => InFlight(j)
      BY <2>1 DEF InFlight
    <2>3. CASE local' = local
      BY <2>1, <2>2, <2>3, NumsStay
    <2>4. CASE local' # local
      <3>1. /\ local' = [local EXCEPT ![k.stream] = local[k.stream] + 1]
            /\ reg[k.stream] = local[k.stream] + 1
        BY <1>4, <2>4 DEF PromoteConfirmed, Advance
      <3>2. k.stream \in Stream
        BY JobFields DEF JobsTyped, Mine
      <3> QED BY <2>1, <2>2, <3>1, <3>2, NumsAdvance
    <2> QED BY <2>3, <2>4
  <1> QED BY <1>1, <1>2, <1>3, <1>4

JobsInv == JobsTyped /\ OneJobPerStream /\ NumsOK

LEMMA JobsInit == Init => JobsInv
  <1> SUFFICES ASSUME Init PROVE JobsInv
    OBVIOUS
  <1>1. JobsTyped
    BY DEF Init, JobsTyped
  <1>2. \A s \in Stream : Places(s) = {}
    BY DEF Init, Places
  <1>3. OneJobPerStream
    BY <1>2 DEF OneJobPerStream
  <1>4. NumsOK
    BY DEF Init, NumsOK, InFlight, RegOK, AppliedIsConfirmed
  <1> QED BY <1>1, <1>3, <1>4 DEF JobsInv

LEMMA JobsStep == JobsInv /\ [Next]_vars => JobsInv'
  <1> SUFFICES ASSUME JobsInv, [Next]_vars PROVE JobsInv'
    OBVIOUS
  <1>1. JobsTyped' /\ OneJobPerStream'
    BY TypedStep, OneJobStep DEF JobsInv
  <1>2. NumsOK'
    BY <1>1, NumsQuiet, NumsNewJob, NumsMove, NumsSubmit
    DEF JobsInv, Next, Schedule, Register, Finish, Environment
  <1> QED BY <1>1, <1>2 DEF JobsInv

(* The jobs map keeps a stream to one job (trySchedule, TestMakeMiniblock, *)
(* jobDone), wherever the job is, for any number of streams, batches of    *)
(* any size and any order of the callbacks.                                *)
THEOREM OneJobTheorem == Spec => []OneJobPerStream
  <1>1. JobsInv => OneJobPerStream
    BY DEF JobsInv
  <1> QED BY <1>1, JobsInit, JobsStep, PTL DEF Spec

(* submitProposalBatch gives to ApplyMiniblock only candidates that the    *)
(* registry has accepted or, unregistered by design, has not passed, also  *)
(* when the batch holds a job of writeLatestKnownMiniblock for the stream  *)
(* and when the receipt of an earlier batch was lost.                      *)
THEOREM ConfirmedTheorem == Spec => []AppliedIsConfirmed
  <1>1. JobsInv => AppliedIsConfirmed
    BY DEF JobsInv, NumsOK
  <1> QED BY <1>1, JobsInit, JobsStep, PTL DEF Spec
----------------------------------------------------------------------------
TrackerInv == orphans \in Nat /\ callbacks \in Nat /\ CandidatesAreCollected

(* Add appends to the candidates, and arms the timer for the first. *)
LEMMA AddKeeps ==
    ASSUME JobsTyped, TrackerInv, NEW j \in Job, Add(j)
    PROVE  TrackerInv'
  <1> DEFINE q == Append(candidates, j)
  <1>1. candidates \in Seq(Job) /\ orphans \in Nat /\ callbacks \in Nat
    BY DEF JobsTyped, TrackerInv
  <1>2. q \in Seq(Job) /\ Len(q) = Len(candidates) + 1 /\ Len(candidates) \in Nat
    BY <1>1
  <1>3. /\ candidates' = IF Full(q) THEN <<>> ELSE q
        /\ timer' = IF Full(q) THEN "nil" ELSE IF ArmsTimer(q) THEN "armed" ELSE timer
        /\ orphans' = orphans /\ callbacks' = callbacks
    BY DEF Add
  <1>4. ~ ArmsTimer(q) => candidates # <<>>
    <2>1. candidates = <<>> => Len(candidates) = 0
      OBVIOUS
    <2> HIDE DEF q
    <2> QED BY <1>2, <2>1 DEF ArmsTimer
  <1> HIDE DEF q
  <1>5. CandidatesAreCollected'
    BY <1>3, <1>4 DEF TrackerInv, CandidatesAreCollected
  <1> QED BY <1>1, <1>3, <1>5 DEF TrackerInv

LEMMA TrackerStep == JobsTyped /\ TrackerInv /\ [Next]_vars => TrackerInv'
  <1> SUFFICES ASSUME JobsTyped, TrackerInv, [Next]_vars PROVE TrackerInv'
    OBVIOUS
  <1>1. CASE \E j \in saving : AddCandidate(j)
    BY <1>1, AddKeeps DEF AddCandidate, JobsTyped, Mine
  <1>2. CASE \E s \in Stream : WriteLatestKnown(s)
    <2>1. PICK s \in Stream : WriteLatestKnown(s)
      BY <1>2
    <2>2. LatestJob(s) \in Job /\ Add(LatestJob(s))
      BY <2>1, NewJobs DEF WriteLatestKnown, LatestJob, JobsTyped
    <2> QED BY <2>2, AddKeeps
  <1>3. CASE TimerExpires
    BY <1>3 DEF TimerExpires, TrackerInv, CandidatesAreCollected
  <1>4. CASE TimerCallback
    BY <1>4 DEF TimerCallback, TrackerInv, CandidatesAreCollected
  <1>5. CASE UNCHANGED <<candidates, timer, orphans, callbacks>>
    BY <1>5 DEF TrackerInv, CandidatesAreCollected
  <1>6. CASE \/ vars' = vars \/ OnNewBlock
             \/ \E s \in Stream : \/ NotLeader(s) \/ TrySchedule(s) \/ JobWithoutCandidate(s)
                                  \/ AddEvent(s) \/ OtherRegisters(s) \/ PlacementUpdated(s)
                                  \/ TestMakeMiniblock(s) \/ MakeCandidate(s) \/ PromoteOnEvent(s)
             \/ \E j \in saving : SaveFails(j)
             \/ \E a \in applying : ApplyFails(a) \/ ApplyMiniblock(a)
             \/ \E js \in outOfSync : ReadHead(js) \/ ReadHeadFails(js)
             \/ \E j \in promoting : PromoteConfirmed(j)
    BY <1>5, <1>6 DEF OnNewBlock, NotLeader, TrySchedule, JobWithoutCandidate, AddEvent, OtherRegisters,
       PlacementUpdated, TestMakeMiniblock, MakeCandidate, PromoteOnEvent, SaveFails, ApplyFails,
       ApplyMiniblock, ReadHead, ReadHeadFails, PromoteConfirmed, vars, tracker
  <1>7. CASE \E b \in batches : \E mined, seen \in BOOLEAN : SubmitBatch(b, mined, seen)
    BY <1>5, <1>7 DEF SubmitBatch, tracker
  <1> QED BY <1>1, <1>2, <1>3, <1>4, <1>6, <1>7 DEF Next, Schedule, Register, Finish, Environment

(* Candidates that wait for a batch have a timer that will expire or a     *)
(* callback that will run (candidateTracker.add), whatever the batch size  *)
(* and however many expired callbacks are late.                            *)
THEOREM CollectedTheorem == Spec => []CandidatesAreCollected
  <1>1. Init => TrackerInv
    BY DEF Init, TrackerInv, CandidatesAreCollected
  <1>2. TrackerInv => CandidatesAreCollected
    BY DEF TrackerInv
  <1>3. JobsInv => JobsTyped
    BY DEF JobsInv
  <1> QED BY <1>1, <1>2, <1>3, TrackerStep, JobsInit, JobsStep, PTL DEF Spec
============================================================================

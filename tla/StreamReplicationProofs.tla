---------------------- MODULE StreamReplicationProofs ----------------------
(***************************************************************************)
(* Proofs about StreamReplication, for any number of replicas, producers,  *)
(* events, candidates, heights and restarts.                               *)
(*                                                                         *)
(* The argument: what a replica may apply or schedule is always a          *)
(* miniblock of the log (StreamOK), because candidates reach it only by    *)
(* way of a registry event, a receipt or a peer; and the contract's bare   *)
(* comparison of numbers accepts exactly the next linked miniblock,        *)
(* because no candidate is ever built more than one above the log          *)
(* (CandidatesLinked, JobsLinked).  IndInv collects both.                  *)
(*                                                                         *)
(* That the replicas implement RegisteredLog, drop no event and keep every *)
(* registered miniblock on a quorum follows from what a step may do to one *)
(* of them (ReplicaStep): its chain stays or gets longer, the events it    *)
(* holds are kept, and so are the candidates above its chain.              *)
(***************************************************************************)
EXTENDS StreamReplication, FiniteSetTheorems, SequenceTheorems, WellFoundedInduction, TLAPS

(* A step that names no prover is tried with these, in this order. *)
USE ZenonT(3), SMTT(20), SMTT(21), ZenonT(20)

----------------------------------------------------------------------------
(* Max and Min of sets of integers.                                        *)

(* A non-empty set of naturals has a least element. *)
LEMMA MinOfNat ==
    ASSUME NEW S, S \subseteq Nat, S # {}
    PROVE  \E x \in S : \A y \in S : x =< y
  <1> DEFINE R == {ss \in Nat \X Nat : ss[1] < ss[2]}
  <1>1. IsWellFoundedOn(R, Nat)
    BY NatLessThanWellFounded, Zenon DEF OpToRel
  <1>2. PICK x \in S : \A y \in S : ~ (<<y, x>> \in R)
    BY <1>1, WFMin
  <1>3. \A y \in S : ~ (y < x)
    <2> SUFFICES ASSUME NEW y \in S, y < x PROVE FALSE
      OBVIOUS
    <2>1. <<y, x>> \in R
      OBVIOUS
    <2> QED BY <1>2, <2>1
  <1> QED BY <1>3

(* Min of a non-empty set of naturals is its least element. *)
LEMMA MinProperties ==
    ASSUME NEW S, S \subseteq Nat, S # {}
    PROVE  Min(S) \in S /\ \A y \in S : Min(S) =< y
  BY MinOfNat DEF Min

(* Max of a non-empty bounded set of integers is its greatest element. *)
LEMMA MaxProperties ==
    ASSUME NEW S, S \subseteq Int, S # {}, NEW b \in Int, \A y \in S : y =< b
    PROVE  Max(S) \in S /\ \A y \in S : Max(S) >= y
  <1> DEFINE T == {b - y : y \in S}
  <1>1. T \subseteq Nat /\ T # {}
    <2>1. T \subseteq Nat
      OBVIOUS
    <2>2. PICK z \in S : TRUE
      OBVIOUS
    <2>3. b - z \in T
      OBVIOUS
    <2> QED BY <2>1, <2>3
  <1>2. PICK t \in T : \A u \in T : t =< u
    BY <1>1, MinOfNat
  <1>3. PICK x \in S : t = b - x
    BY <1>2
  <1>4. \A y \in S : x >= y
    <2> TAKE y \in S
    <2>1. b - y \in T
      OBVIOUS
    <2>2. b - x =< b - y
      BY <1>2, <1>3, <2>1
    <2> QED BY <2>2
  <1> QED BY <1>4 DEF Max

(* Max of two integers. *)
LEMMA MaxOfTwo ==
    ASSUME NEW a \in Int, NEW b \in Int
    PROVE  Max({a, b}) = IF a >= b THEN a ELSE b
  <1>1. \A c \in Int : c >= a /\ c >= b =>
            Max({a, b}) \in {a, b} /\ Max({a, b}) >= a /\ Max({a, b}) >= b
    BY MaxProperties
  <1> QED BY <1>1

----------------------------------------------------------------------------
(* Replicas.                                                               *)

(* q lists the miniblocks of the log above number n. *)
Follows(q, n) ==
    \A i \in 1 .. Len(q) : n + i <= Len(log) /\ q[i] = log[n + i]

(* What IndInv says of one replica. *)
StreamOK(s) ==
    /\ s \in Stream
    /\ Len(s.chain) <= Len(log)
    /\ \A i \in 1 .. Len(s.chain) : s.chain[i] = log[i]
    /\ Len(s.pending) <= MaxPending
    /\ Follows(s.pending, Len(s.chain))
    /\ s.cand \subseteq DOMAIN mb

(* The part of IndInv that is not about replicas and jobs. *)
LogOK ==
    /\ DOMAIN mb \subseteq Hash /\ mb \in [DOMAIN mb -> Header]
    /\ log \in Seq(DOMAIN mb)
    /\ RegisteredLinked

(* The snapshots of a replica's chain have a last one. *)
LEMMA LastSnapshot ==
    ASSUME NEW chain, Len(chain) \in Nat
    PROVE  Max(SnapshotNums(chain)) \in Nat
  <1>1. SnapshotNums(chain) \subseteq Nat /\ SnapshotNums(chain) # {}
    BY DEF SnapshotNums
  <1>2. \A y \in SnapshotNums(chain) : y =< Len(chain)
    BY DEF SnapshotNums
  <1> QED BY <1>1, <1>2, MaxProperties

(* Loading the view changes nothing but the first miniblock in the cache. *)
LEMMA LoadedOK ==
    ASSUME NEW s, LogOK, StreamOK(s)
    PROVE  /\ StreamOK(Loaded(s))
           /\ Loaded(s).chain = s.chain /\ Loaded(s).pool = s.pool
           /\ Loaded(s).cand = s.cand /\ Loaded(s).pending = s.pending
  <1> DEFINE recent == Max({0, Len(s.chain) - (Max({1, RecencyGen}) - 1)})
             first == Min({recent, Max(SnapshotNums(s.chain))})
  <1>1. Len(s.chain) \in Nat
    BY DEF StreamOK, Stream
  <1>2. recent \in Nat
    <2>1. Max({1, RecencyGen}) \in Nat
      BY ConstantsAssumption, MaxOfTwo
    <2> DEFINE d == Len(s.chain) - (Max({1, RecencyGen}) - 1)
    <2>2. d \in Int
      BY <1>1, <2>1
    <2> HIDE DEF d
    <2>3. Max({0, d}) \in Nat
      BY <2>2, MaxOfTwo
    <2> QED BY <2>3 DEF d
  <1>3. first \in Nat
    BY <1>1, <1>2, LastSnapshot, MinProperties
  <1>4. Loaded(s) = IF s.first # NotLoaded THEN s ELSE [s EXCEPT !.first = first]
    BY DEF Loaded
  <1> HIDE DEF first
  <1>5. CASE s.first # NotLoaded
    BY <1>4, <1>5
  <1>6. CASE s.first = NotLoaded
    <2>1. s \in Stream
      BY DEF StreamOK
    <2>2. Loaded(s) \in Stream
      BY <1>3, <1>4, <1>6, <2>1 DEF Stream
    <2>3. /\ Loaded(s).chain = s.chain /\ Loaded(s).pool = s.pool
          /\ Loaded(s).cand = s.cand /\ Loaded(s).pending = s.pending
      BY <1>4, <1>6, <2>1 DEF Stream
    <2> QED BY <2>2, <2>3 DEF StreamOK
  <1> QED BY <1>5, <1>6

(* What is left of a sequence after its first k elements. *)
LEMMA SuffixProperties ==
    ASSUME NEW S, NEW q \in Seq(S), NEW k \in Nat, k + 1 <= Len(q)
    PROVE  /\ SubSeq(q, k + 1, Len(q)) \in Seq(S)
           /\ Len(SubSeq(q, k + 1, Len(q))) = Len(q) - k
           /\ \A i \in 1 .. Len(q) - k : SubSeq(q, k + 1, Len(q))[i] = q[k + i]
  <1>1. Len(q) \in Nat /\ \A i \in k + 1 .. Len(q) : q[i] \in S
    OBVIOUS
  <1>2. /\ SubSeq(q, k + 1, Len(q)) \in Seq(S)
        /\ Len(SubSeq(q, k + 1, Len(q))) =
              IF k + 1 <= Len(q) THEN Len(q) - (k + 1) + 1 ELSE 0
        /\ \A i \in 1 .. Len(q) - (k + 1) + 1 :
              SubSeq(q, k + 1, Len(q))[i] = q[(k + 1) + i - 1]
    BY <1>1, SubSeqProperties
  <1>3. \A i \in 1 .. Len(q) - k : /\ i \in 1 .. Len(q) - (k + 1) + 1
                                   /\ (k + 1) + i - 1 = k + i
    BY <1>1
  <1> QED BY <1>1, <1>2, <1>3

(* Dropping the scheduled promotions a replica has applied leaves the ones *)
(* above it.                                                               *)
LEMMA DropAppliedOK ==
    ASSUME NEW q \in Seq(Hash), NEW n \in Nat, NEW k \in Nat,
           LogOK, Follows(q, n)
    PROVE  /\ DropApplied(q, n + k) \in Seq(Hash)
           /\ Len(DropApplied(q, n + k)) <= Len(q)
           /\ Follows(DropApplied(q, n + k), n + k)
  <1> DEFINE keep == {i \in 1 .. Len(q) : Num(q[i]) > n + k}
             p == DropApplied(q, n + k)
  <1>1. Len(q) \in Nat
    OBVIOUS
  <1>2. \A i \in 1 .. Len(q) : Num(q[i]) = n + i
    <2> TAKE i \in 1 .. Len(q)
    <2>1. q[i] = log[n + i] /\ n + i \in 1 .. Len(log)
      BY <1>1 DEF Follows
    <2>2. q[i] \in Hash
      OBVIOUS
    <2> QED BY <2>1, <2>2, ConstantsAssumption DEF LogOK, RegisteredLinked, Num
  <1>3. keep = {i \in 1 .. Len(q) : i > k}
    BY <1>1, <1>2
  <1>4. p = IF keep = {} THEN <<>> ELSE SubSeq(q, Min(keep), Len(q))
    BY DEF DropApplied
  <1> HIDE DEF keep, p
  <1>5. CASE keep = {}
    <2>1. p = <<>>
      BY <1>4, <1>5
    <2>2. p \in Seq(Hash) /\ Len(p) = 0
      BY <2>1, EmptySeq
    <2> QED BY <1>1, <2>2 DEF Follows, p
  <1>6. CASE keep # {}
    <2>1. Min(keep) \in keep /\ \A y \in keep : Min(keep) =< y
      <3>1. keep \subseteq Nat
        BY <1>1, <1>3
      <3> QED BY <1>6, <3>1, MinProperties
    <2>2. k + 1 <= Len(q) /\ Min(keep) = k + 1
      <3>1. k + 1 \in keep
        BY <1>1, <1>3, <2>1
      <3> QED BY <1>1, <1>3, <2>1, <3>1
    <2>3. p = SubSeq(q, k + 1, Len(q))
      BY <1>4, <1>6, <2>2
    <2>4. /\ p \in Seq(Hash) /\ Len(p) = Len(q) - k
          /\ \A i \in 1 .. Len(q) - k : p[i] = q[k + i]
      BY <2>2, <2>3, SuffixProperties
    <2>5. ASSUME NEW i \in 1 .. Len(q) - k
          PROVE  n + k + i <= Len(log) /\ p[i] = log[n + k + i]
      <3>1. i \in Nat /\ k + i \in 1 .. Len(q) /\ n + (k + i) = n + k + i
        BY <1>1
      <3> QED BY <2>4, <3>1 DEF Follows
    <2> QED BY <1>1, <2>4, <2>5 DEF Follows, p
  <1> QED BY <1>5, <1>6

(* A prefix of the log, extended by what follows it, is a prefix. *)
LEMMA ExtendPrefix ==
    ASSUME NEW c \in Seq(Hash), NEW hs \in Seq(Hash), Follows(hs, Len(c)),
           \A i \in 1 .. Len(c) : c[i] = log[i]
    PROVE  /\ c \o hs \in Seq(Hash)
           /\ Len(c \o hs) = Len(c) + Len(hs)
           /\ \A i \in 1 .. Len(c) + Len(hs) : (c \o hs)[i] = log[i]
  <1>1. /\ c \o hs \in Seq(Hash)
        /\ Len(c \o hs) = Len(c) + Len(hs)
        /\ \A i \in 1 .. Len(c) + Len(hs) :
              (c \o hs)[i] = IF i <= Len(c) THEN c[i] ELSE hs[i - Len(c)]
    BY ConcatProperties
  <1>2. Len(c) \in Nat /\ Len(hs) \in Nat
    OBVIOUS
  <1>3. ASSUME NEW i \in 1 .. Len(c) + Len(hs) PROVE (c \o hs)[i] = log[i]
    <2>1. CASE i <= Len(c)
      BY <1>1, <1>2, <2>1
    <2>2. CASE ~ (i <= Len(c))
      <3>1. i - Len(c) \in 1 .. Len(hs) /\ Len(c) + (i - Len(c)) = i
        BY <1>2, <2>2
      <3>2. hs[i - Len(c)] = log[i]
        BY <3>1 DEF Follows
      <3> QED BY <1>1, <2>2, <3>2
    <2> QED BY <2>1, <2>2
  <1> QED BY <1>1, <1>3

(* Applying miniblocks never forgets more of the cached view than it has. *)
LEMMA FirstAfterApply ==
    ASSUME NEW first \in Nat \cup {NotLoaded}, NEW hs \in Seq(Hash), NEW n \in Nat,
           LogOK, Follows(hs, n), NEW snaps, snaps \subseteq 1 .. Len(hs)
    PROVE  Max({first} \cup {mb[hs[i]].num - RecencyGen : i \in snaps})
               \in Nat \cup {NotLoaded}
  <1> DEFINE firsts == {first} \cup {mb[hs[i]].num - RecencyGen : i \in snaps}
  <1>1. first \in Int /\ Len(hs) \in Nat /\ RecencyGen \in Nat
    BY ConstantsAssumption DEF NotLoaded
  <1>2. \A i \in snaps : mb[hs[i]].num = n + i /\ n + i <= n + Len(hs)
    <2> TAKE i \in snaps
    <2>1. i \in 1 .. Len(hs) /\ n + i \in 1 .. Len(log) /\ hs[i] = log[n + i]
      BY <1>1 DEF Follows
    <2> QED BY <1>1, <2>1 DEF LogOK, RegisteredLinked
  <1>3. PICK b \in Int : first =< b /\ n + Len(hs) =< b
    BY <1>1
  <1>4. ASSUME NEW y \in firsts PROVE y \in Int /\ y =< b
    <2>1. CASE y = first
      BY <1>1, <1>3, <2>1
    <2>2. CASE \E i \in snaps : y = mb[hs[i]].num - RecencyGen
      <3>1. PICK i \in snaps : y = mb[hs[i]].num - RecencyGen
        BY <2>2
      <3>2. i \in Nat /\ mb[hs[i]].num = n + i /\ n + i <= n + Len(hs)
        BY <1>1, <1>2
      <3> QED BY <1>1, <1>3, <3>1, <3>2
    <2> QED BY <2>1, <2>2
  <1>5. first \in firsts
    OBVIOUS
  <1> HIDE DEF firsts
  <1>6. Max(firsts) \in firsts /\ Max(firsts) >= first
    <2>1. firsts \subseteq Int /\ firsts # {} /\ \A y \in firsts : y =< b
      BY <1>4, <1>5
    <2> QED BY <1>5, <2>1, MaxProperties
  <1>7. Max(firsts) \in Int
    BY <1>4, <1>6
  <1>8. Max(firsts) \in Nat \cup {NotLoaded}
    BY <1>1, <1>6, <1>7 DEF NotLoaded
  <1> QED BY <1>8 DEF firsts

(* Applying the next miniblocks of the log keeps a replica in order. *)
LEMMA ApplyOK ==
    ASSUME NEW s, LogOK, StreamOK(s), NEW hs \in Seq(Hash), Follows(hs, Len(s.chain)),
           Len(s.chain) + Len(hs) <= Len(log)
    PROVE  StreamOK(Apply(s, hs)) /\ Apply(s, hs).chain = s.chain \o hs
  <1> DEFINE t == Apply(s, hs)
             n == Len(s.chain)
             snaps == {i \in 1 .. Len(hs) : mb[hs[i]].snap}
             f == Max({s.first} \cup {mb[hs[i]].num - RecencyGen : i \in snaps})
             p == DropApplied(s.pending, n + Len(hs))
             cs == {h \in s.cand : mb[h].num > n + Len(hs)}
  <1>1. /\ s.chain \in Seq(Hash) /\ s.first \in Nat \cup {NotLoaded}
        /\ s.pool \subseteq Event /\ s.cand \subseteq Hash /\ s.cand \subseteq DOMAIN mb
        /\ s.pending \in Seq(Hash)
    BY DEF StreamOK, Stream
  <1>2. n \in Nat /\ Len(hs) \in Nat /\ Len(s.pending) \in Nat
    BY <1>1
  <1>3. /\ s.chain \o hs \in Seq(Hash)
        /\ Len(s.chain \o hs) = n + Len(hs)
        /\ \A i \in 1 .. n + Len(hs) : (s.chain \o hs)[i] = log[i]
    BY <1>1, ExtendPrefix DEF StreamOK
  <1>4. f \in Nat \cup {NotLoaded}
    <2>1. snaps \subseteq 1 .. Len(hs)
      OBVIOUS
    <2> HIDE DEF snaps
    <2> QED BY <1>1, <1>2, <2>1, FirstAfterApply
  <1>5. p \in Seq(Hash) /\ Len(p) <= Len(s.pending) /\ Follows(p, n + Len(hs))
    <2>1. Follows(s.pending, n)
      BY DEF StreamOK
    <2> HIDE DEF n
    <2> QED BY <1>1, <1>2, <2>1, DropAppliedOK
  <1>6. Len(p) <= MaxPending
    <2>1. Len(s.pending) <= MaxPending /\ Len(p) \in Nat
      BY <1>5 DEF StreamOK
    <2> QED BY <1>2, <1>5, <2>1 DEF MaxPending
  <1>7. t = [chain |-> s.chain \o hs, first |-> f, pool |-> s.pool \ EventsOf(hs, 1),
             cand |-> cs, pending |-> p]
    BY DEF Apply, RemainingPool
  <1>8. cs \subseteq Hash /\ cs \subseteq DOMAIN mb /\ s.pool \ EventsOf(hs, 1) \subseteq Event
    BY <1>1
  <1>9. n + Len(hs) <= Len(log)
    OBVIOUS
  <1> HIDE DEF t, f, p, cs, n
  <1>10. t \in Stream
    BY <1>1, <1>3, <1>4, <1>5, <1>7, <1>8 DEF Stream
  <1>11. t.chain = s.chain \o hs /\ t.pending = p /\ t.cand = cs
    BY <1>7
  <1>12. StreamOK(t)
    BY <1>3, <1>5, <1>6, <1>8, <1>9, <1>10, <1>11 DEF StreamOK
  <1> QED BY <1>11, <1>12 DEF t

(* A miniblock of the log, applied out of turn, is ignored. *)
LEMMA ApplyMiniblockOK ==
    ASSUME NEW s, LogOK, StreamOK(s), NEW k \in 1 .. Len(log)
    PROVE  /\ StreamOK(ApplyMiniblock(s, log[k]))
           /\ \/ ApplyMiniblock(s, log[k]) = s
              \/ /\ k = Len(s.chain) + 1
                 /\ ApplyMiniblock(s, log[k]) = Apply(s, <<log[k]>>)
  <1> DEFINE h == log[k]
             hs == <<h>>
  <1>1. Len(s.chain) \in Nat /\ Len(log) \in Nat
    BY DEF StreamOK, Stream, LogOK
  <1>2. h \in Hash /\ mb[h].num = k
    BY DEF LogOK, RegisteredLinked
  <1>3. CASE mb[h].num > Len(s.chain) /\ CanApply(s, hs)
    <2>1. 1 \in 1 .. Len(hs) /\ hs[1] = h
      OBVIOUS
    <2>2. k = Len(s.chain) + 1
      BY <1>1, <1>2, <1>3, <2>1 DEF CanApply
    <2>3. hs \in Seq(Hash) /\ Len(hs) = 1
      BY <1>2
    <2>4. Follows(hs, Len(s.chain))
      BY <1>1, <2>1, <2>2, <2>3 DEF Follows
    <2>5. Len(s.chain) + Len(hs) <= Len(log)
      BY <1>1, <2>2, <2>3
    <2> HIDE DEF hs
    <2>6. StreamOK(Apply(s, hs))
      BY <2>3, <2>4, <2>5, ApplyOK
    <2> QED BY <1>3, <2>2, <2>6 DEF ApplyMiniblock, hs
  <1>4. CASE ~ (mb[h].num > Len(s.chain) /\ CanApply(s, hs))
    BY <1>4 DEF ApplyMiniblock
  <1> QED BY <1>3, <1>4

(* Only the next registered miniblock is scheduled. *)
LEMMA SchedulePromotionOK ==
    ASSUME NEW s, LogOK, StreamOK(s), NEW k \in 1 .. Len(log)
    PROVE  /\ StreamOK(SchedulePromotion(s, log[k]).stream)
           /\ SchedulePromotion(s, log[k]).stream.chain = s.chain
  <1> DEFINE h == log[k]
             next == IF s.pending = <<>> THEN Len(s.chain) + 1
                     ELSE mb[s.pending[Len(s.pending)]].num + 1
             t == [s EXCEPT !.pending = Append(@, h)]
  <1>1. s \in Stream /\ s.chain \in Seq(Hash) /\ s.pending \in Seq(Hash)
    BY DEF StreamOK, Stream
  <1>2. Len(s.chain) \in Nat /\ Len(s.pending) \in Nat /\ Len(log) \in Nat
    BY <1>1 DEF LogOK
  <1>3. h \in Hash /\ mb[h].num = k
    BY DEF LogOK, RegisteredLinked
  <1>4. next = Len(s.chain) + Len(s.pending) + 1
    <2>1. CASE s.pending = <<>>
      BY <1>2, <2>1
    <2>2. CASE s.pending # <<>>
      <3> DEFINE l == Len(s.pending)
      <3>1. l \in 1 .. l
        BY <1>1, <1>2, <2>2, EmptySeq
      <3> HIDE DEF l
      <3>a. Follows(s.pending, Len(s.chain)) /\ l \in 1 .. Len(s.pending)
        BY <3>1 DEF StreamOK, l
      <3>b. s.pending[l] = log[Len(s.chain) + l] /\ Len(s.chain) + l <= Len(log)
        BY <3>a DEF Follows
      <3>2. s.pending[l] = log[Len(s.chain) + l] /\ Len(s.chain) + l \in 1 .. Len(log)
        BY <1>2, <3>a, <3>b
      <3>3. mb[s.pending[l]].num = Len(s.chain) + l
        BY <3>2 DEF LogOK, RegisteredLinked
      <3> QED BY <1>2, <2>2, <3>3 DEF l
    <2> QED BY <2>1, <2>2
  <1> HIDE DEF next
  <1>5. CASE Len(s.pending) < MaxPending /\ mb[h].num = next
    <2>1. SchedulePromotion(s, h) = [stream |-> t, sync |-> FALSE]
      BY <1>5 DEF SchedulePromotion, next
    <2>2. /\ Append(s.pending, h) \in Seq(Hash)
          /\ Len(Append(s.pending, h)) = Len(s.pending) + 1
          /\ \A i \in 1 .. Len(s.pending) : Append(s.pending, h)[i] = s.pending[i]
          /\ Append(s.pending, h)[Len(s.pending) + 1] = h
      BY <1>1, <1>3, AppendProperties
    <2>3. /\ t \in Stream /\ t.chain = s.chain /\ t.cand = s.cand
          /\ t.pending = Append(s.pending, h)
      BY <1>1, <2>2 DEF Stream
    <2>4. Follows(Append(s.pending, h), Len(s.chain))
      <3> SUFFICES ASSUME NEW i \in 1 .. Len(s.pending) + 1
                   PROVE  /\ Len(s.chain) + i <= Len(log)
                          /\ Append(s.pending, h)[i] = log[Len(s.chain) + i]
        BY <2>2 DEF Follows
      <3>1. CASE i = Len(s.pending) + 1
        <4>1. k = Len(s.chain) + Len(s.pending) + 1
          BY <1>3, <1>4, <1>5
        <4>2. Len(s.chain) + i = k
          <5>1. \A a, b \in Nat : a + (b + 1) = a + b + 1
            OBVIOUS
          <5>2. Len(s.chain) + (Len(s.pending) + 1) = Len(s.chain) + Len(s.pending) + 1
            BY <1>2, <5>1, Zenon
          <5> QED BY <3>1, <4>1, <5>2, Zenon
        <4>3. Append(s.pending, h)[i] = log[k]
          BY <2>2, <3>1
        <4>4. k <= Len(log)
          BY <1>2
        <4> QED BY <4>2, <4>3, <4>4
      <3>2. CASE i # Len(s.pending) + 1
        <4>1. i \in 1 .. Len(s.pending)
          BY <1>2, <3>2
        <4> QED BY <2>2, <4>1 DEF StreamOK, Follows
      <3> QED BY <3>1, <3>2
    <2>5. Len(Append(s.pending, h)) <= MaxPending
      BY <1>2, <1>5, <2>2 DEF MaxPending
    <2> HIDE DEF t
    <2>6. StreamOK(t)
      BY <2>3, <2>4, <2>5 DEF StreamOK
    <2> QED BY <2>1, <2>3, <2>6
  <1>6. CASE ~ (Len(s.pending) < MaxPending /\ mb[h].num = next)
    <2>1. SchedulePromotion(s, h) = [stream |-> s, sync |-> TRUE]
      BY <1>6 DEF SchedulePromotion, next
    <2> QED BY <2>1
  <1> QED BY <1>5, <1>6

(* Promoting a registered miniblock applies it, schedules it or leaves the *)
(* replica alone.                                                          *)
LEMMA PromoteCandidateOK ==
    ASSUME NEW s, LogOK, StreamOK(s), NEW k \in 1 .. Len(log)
    PROVE  /\ StreamOK(PromoteCandidate(s, log[k]).stream)
           /\ \/ PromoteCandidate(s, log[k]).stream = ApplyMiniblock(s, log[k])
              \/ PromoteCandidate(s, log[k]).stream.chain = s.chain
  <1> DEFINE h == log[k]
  <1>1. CASE mb[h].num <= Len(s.chain)
    <2>1. PromoteCandidate(s, h) = [stream |-> s, sync |-> FALSE]
      BY <1>1 DEF PromoteCandidate
    <2> QED BY <2>1
  <1>2. CASE /\ ~ (mb[h].num <= Len(s.chain))
             /\ mb[h].num = Len(s.chain) + 1 /\ h \in s.cand
    <2>1. PromoteCandidate(s, h) = [stream |-> ApplyMiniblock(s, h), sync |-> FALSE]
      BY <1>2 DEF PromoteCandidate
    <2>2. PromoteCandidate(s, log[k]).stream = ApplyMiniblock(s, log[k])
      BY <2>1
    <2> QED BY <2>2, ApplyMiniblockOK
  <1>3. CASE /\ ~ (mb[h].num <= Len(s.chain))
             /\ ~ (mb[h].num = Len(s.chain) + 1 /\ h \in s.cand)
    <2>1. PromoteCandidate(s, h) = SchedulePromotion(s, h)
      BY <1>3 DEF PromoteCandidate
    <2> QED BY <2>1, SchedulePromotionOK
  <1> QED BY <1>1, <1>2, <1>3

(* The first k elements of a sequence. *)
LEMMA PrefixProperties ==
    ASSUME NEW S, NEW q \in Seq(S), NEW k \in 1 .. Len(q)
    PROVE  /\ SubSeq(q, 1, k) \in Seq(S)
           /\ Len(SubSeq(q, 1, k)) = k
           /\ \A i \in 1 .. k : SubSeq(q, 1, k)[i] = q[i]
  <1>1. k \in Nat /\ 1 \in Int /\ 1 <= k /\ \A i \in 1 .. k : q[i] \in S
    OBVIOUS
  <1>2. /\ SubSeq(q, 1, k) \in Seq(S)
        /\ Len(SubSeq(q, 1, k)) = IF 1 <= k THEN k - 1 + 1 ELSE 0
        /\ \A i \in 1 .. k - 1 + 1 : SubSeq(q, 1, k)[i] = q[1 + i - 1]
    BY <1>1, SubSeqProperties
  <1>3. k - 1 + 1 = k /\ \A i \in 1 .. k : 1 + i - 1 = i
    BY <1>1
  <1> QED BY <1>1, <1>2, <1>3

(* A saved candidate that is the next scheduled promotion is applied, and  *)
(* as many of the promotions behind it as are at hand.                     *)
LEMMA ApplyPendingOK ==
    ASSUME NEW s, LogOK, StreamOK(s), s.pending # <<>>, CanApply(s, <<s.pending[1]>>)
    PROVE  /\ StreamOK(ApplyPending(s))
           /\ \E hs \in Seq(Hash) : /\ ApplyPending(s) = Apply(s, hs)
                                    /\ Follows(hs, Len(s.chain)) /\ Len(hs) >= 1
                                    /\ Len(s.chain) + Len(hs) <= Len(log)
  <1> DEFINE q == s.pending
             r == ReadyPending(s)
             k == Max(r)
             hs == SubSeq(q, 1, k)
  <1>1. q \in Seq(Hash) /\ Len(q) \in Nat /\ Len(s.chain) \in Nat /\ Len(q) >= 1
    BY EmptySeq DEF StreamOK, Stream
  <1>2. 1 \in r
    <2>1. 1 \in 1 .. Len(q)
      BY <1>1
    <2>2. SubSeq(q, 1, 1) = <<q[1]>>
      <3> HIDE DEF q
      <3>1. /\ SubSeq(q, 1, 1) \in Seq(Hash) /\ Len(SubSeq(q, 1, 1)) = 1
            /\ SubSeq(q, 1, 1)[1] = q[1]
        BY <1>1, <2>1, PrefixProperties
      <3>2. <<q[1]>> \in Seq(Hash) /\ Len(<<q[1]>>) = 1 /\ <<q[1]>>[1] = q[1]
        BY <1>1, <2>1
      <3>3. \A i \in 1 .. 1 : SubSeq(q, 1, 1)[i] = <<q[1]>>[i]
        BY <3>1, <3>2
      <3> QED BY <3>1, <3>2, <3>3, SeqEqual
    <2>3. 2 .. 1 = {}
      OBVIOUS
    <2> QED BY <2>1, <2>2, <2>3 DEF ReadyPending
  <1>3. k \in r /\ r \subseteq 1 .. Len(q)
    <2>1. r \subseteq 1 .. Len(q)
      BY DEF ReadyPending
    <2>2. r \subseteq Int /\ \A y \in r : y =< Len(q)
      BY <1>1, <2>1
    <2>3. Len(q) \in Int
      BY <1>1
    <2> HIDE DEF r, q
    <2> QED BY <1>2, <2>1, <2>2, <2>3, MaxProperties
  <1>4. k \in 1 .. Len(q)
    BY <1>3
  <1> HIDE DEF r, k
  <1>5. hs \in Seq(Hash) /\ Len(hs) = k /\ \A i \in 1 .. k : hs[i] = q[i]
    <2> HIDE DEF q
    <2> QED BY <1>1, <1>4, PrefixProperties
  <1>6. /\ \A i \in 1 .. k : Len(s.chain) + i <= Len(log) /\ q[i] = log[Len(s.chain) + i]
        /\ Len(s.chain) + k <= Len(log)
    BY <1>1, <1>4 DEF StreamOK, Follows
  <1>7. Follows(hs, Len(s.chain)) /\ Len(s.chain) + Len(hs) <= Len(log) /\ Len(hs) >= 1
    BY <1>4, <1>5, <1>6 DEF Follows
  <1>8. ApplyPending(s) = Apply(s, hs)
    BY DEF ApplyPending, k, r
  <1> HIDE DEF hs
  <1>9. StreamOK(Apply(s, hs))
    BY <1>5, <1>7, ApplyOK
  <1> QED BY <1>5, <1>7, <1>8, <1>9

(* A page of a peer's miniblocks consists of the next ones of the log. *)
LEMMA PageFollows ==
    ASSUME NEW c \in Seq(Hash), Len(c) <= Len(log), LogOK,
           \A i \in 1 .. Len(c) : c[i] = log[i],
           NEW n \in Nat, NEW k \in n + 1 .. Len(c)
    PROVE  LET page == SubSeq(c, n + 1, k)
           IN  /\ page \in Seq(Hash) /\ Follows(page, n)
               /\ Len(page) >= 1 /\ n + Len(page) <= Len(log)
  <1> DEFINE page == SubSeq(c, n + 1, k)
  <1>1. Len(c) \in Nat /\ k \in Nat /\ n + 1 \in Int /\ Len(log) \in Nat
    BY DEF LogOK
  <1>2. \A i \in n + 1 .. k : c[i] \in Hash
    BY <1>1
  <1>3. /\ page \in Seq(Hash)
        /\ Len(page) = IF n + 1 <= k THEN k - (n + 1) + 1 ELSE 0
        /\ \A i \in 1 .. k - (n + 1) + 1 : page[i] = c[(n + 1) + i - 1]
    BY <1>1, <1>2, SubSeqProperties
  <1>4. Len(page) = k - n /\ k - (n + 1) + 1 = k - n
    BY <1>1, <1>3
  <1> HIDE DEF page
  <1>5. ASSUME NEW i \in 1 .. Len(page)
        PROVE  n + i <= Len(log) /\ page[i] = log[n + i]
    <2>1. i \in 1 .. k - (n + 1) + 1 /\ (n + 1) + i - 1 = n + i /\ n + i \in 1 .. Len(c)
      BY <1>1, <1>4
    <2>2. page[i] = c[n + i]
      BY <1>3, <2>1
    <2> QED BY <1>1, <2>1, <2>2
  <1>6. Len(page) >= 1 /\ n + Len(page) <= Len(log)
    BY <1>1, <1>4
  <1> QED BY <1>3, <1>5, <1>6 DEF Follows, page

----------------------------------------------------------------------------
(* The invariant, by the piece of state it is about.                       *)

JobOK(j) ==
    /\ j \in Job
    /\ j.pc \in {"gather", "add"} => /\ j.num \in 1 .. Len(log) + 1
                                     /\ j.prev = At(log, j.num - 1)
    /\ j.pc \in {"save", "submit", "ok", "bad"} => j.hash \in DOMAIN mb
    /\ j.pc = "ok" => \E i \in 1 .. Len(log) : log[i] = j.hash

StreamsOK == stream \in [Node -> Stream] /\ \A n \in Node : StreamOK(stream[n])

JobsOK == job \in [Node -> Job] /\ \A n \in Node : JobOK(job[n])

CallsOK ==
    /\ seen \in [Node -> Nat] /\ getrec \subseteq Node /\ recon \in [Node -> Nat]
    /\ saves \subseteq (DOMAIN mb) \X Node /\ writes \subseteq (DOMAIN mb) \X Node
    /\ txs \subseteq DOMAIN mb
    /\ ref \in [Event -> Hash \cup {Genesis, NoHash}]
    /\ crashes \in Nat

(* IndInv is the conjunction of its parts. *)
LEMMA IndInvParts ==
    IndInv <=> LogOK /\ CandidatesLinked /\ StreamsOK /\ JobsOK /\ CallsOK
  <1>1. IndInv => LogOK /\ CandidatesLinked /\ CallsOK
    BY DEF IndInv, TypeOK, LogOK, CallsOK
  <1>2. IndInv => StreamsOK
    BY DEF IndInv, TypeOK, Agreement, PendingRegistered, StreamsOK, StreamOK, Follows
  <1>3. IndInv => JobsOK
    BY DEF IndInv, TypeOK, JobsLinked, JobsOK, JobOK
  <1>4. LogOK /\ StreamsOK /\ JobsOK /\ CallsOK => TypeOK /\ RegisteredLinked
    BY DEF TypeOK, LogOK, StreamsOK, JobsOK, CallsOK
  <1>5. StreamsOK => /\ Agreement /\ PendingRegistered
                     /\ \A n \in Node : stream[n].cand \subseteq DOMAIN mb
    BY DEF Agreement, PendingRegistered, StreamsOK, StreamOK, Follows
  <1>6. JobsOK => JobsLinked
    BY DEF JobsOK, JobsLinked, JobOK
  <1> QED BY <1>1, <1>2, <1>3, <1>4, <1>5, <1>6 DEF IndInv

(* Steps that leave the log and the candidates alone. *)
LEMMA SameLog ==
    ASSUME LogOK, CandidatesLinked, UNCHANGED <<mb, log>>
    PROVE  LogOK' /\ CandidatesLinked'
  BY DEF LogOK, CandidatesLinked, RegisteredLinked, At

(* Steps that leave the replicas alone keep them in order. *)
LEMMA SameStreams ==
    ASSUME StreamsOK, UNCHANGED <<mb, log, stream>>
    PROVE  StreamsOK'
  BY DEF StreamsOK, StreamOK, Follows

(* A step that changes one replica need only keep that one in order. *)
LEMMA OneStream ==
    ASSUME StreamsOK, UNCHANGED <<mb, log>>, NEW n \in Node, NEW t, StreamOK(t),
           stream' = [stream EXCEPT ![n] = t]
    PROVE  StreamsOK'
  <1>1. t \in Stream
    BY DEF StreamOK
  <1>2. stream' \in [Node -> Stream]
    BY <1>1 DEF StreamsOK
  <1>3. ASSUME NEW m \in Node PROVE StreamOK(stream'[m])
    BY DEF StreamsOK
  <1>4. ASSUME NEW m \in Node PROVE StreamOK(stream[m])'
    BY <1>3 DEF StreamOK, Follows
  <1> QED BY <1>2, <1>4 DEF StreamsOK

(* Steps that leave the jobs and the candidates alone keep the jobs in order. *)
LEMMA SameJobs ==
    ASSUME JobsOK, UNCHANGED <<mb, log, job>>
    PROVE  JobsOK'
  BY DEF JobsOK, JobOK, At

(* A step that changes one job need only keep that one in order. *)
LEMMA OneJob ==
    ASSUME JobsOK, UNCHANGED <<mb, log>>, NEW n \in Node, NEW j, JobOK(j),
           job' = [job EXCEPT ![n] = j]
    PROVE  JobsOK'
  <1>1. j \in Job
    BY DEF JobOK
  <1>2. job' \in [Node -> Job]
    BY <1>1 DEF JobsOK
  <1>3. ASSUME NEW m \in Node PROVE JobOK(job'[m])
    BY DEF JobsOK
  <1>4. ASSUME NEW m \in Node PROVE JobOK(job[m])'
    BY <1>3 DEF JobOK, At
  <1> QED BY <1>2, <1>4 DEF JobsOK

(* The idle job is in order. *)
LEMMA IdleJobOK == JobOK(IdleJob)
  BY DEF JobOK, IdleJob, Job

(* The initial states satisfy the invariant. *)
LEMMA InitIndInv == Init => IndInv
  <1> SUFFICES ASSUME Init PROVE IndInv
    OBVIOUS
  <1>1. LogOK /\ CandidatesLinked
    BY EmptySeq DEF Init, LogOK, CandidatesLinked, RegisteredLinked
  <1>2. StreamsOK
    BY EmptySeq DEF Init, StreamsOK, StreamOK, Stream, Follows, MaxPending
  <1>3. JobsOK
    BY IdleJobOK DEF Init, JobsOK, JobOK
  <1>4. CallsOK
    BY DEF Init, CallsOK
  <1> QED BY <1>1, <1>2, <1>3, <1>4, IndInvParts

----------------------------------------------------------------------------
(* Preservation, one lemma per action or group of actions.                 *)

Inv == LogOK /\ CandidatesLinked /\ StreamsOK /\ JobsOK /\ CallsOK

(* Changes of one field of a replica. *)
LEMMA FieldOK ==
    ASSUME NEW s, StreamOK(s)
    PROVE  /\ \A e \in Event : StreamOK([s EXCEPT !.pool = @ \cup {e}])
           /\ \A h \in DOMAIN mb \cap Hash : StreamOK([s EXCEPT !.cand = @ \cup {h}])
           /\ StreamOK([s EXCEPT !.first = NotLoaded])
           /\ StreamOK(AfterRestart(s))
  <1>1. s \in Stream
    BY DEF StreamOK
  <1>2. ASSUME NEW e \in Event PROVE StreamOK([s EXCEPT !.pool = @ \cup {e}])
    <2>1. [s EXCEPT !.pool = @ \cup {e}] \in Stream
      BY <1>1 DEF Stream
    <2> QED BY <1>1, <2>1 DEF StreamOK, Stream
  <1>3. ASSUME NEW h \in DOMAIN mb \cap Hash
        PROVE  StreamOK([s EXCEPT !.cand = @ \cup {h}])
    <2>1. [s EXCEPT !.cand = @ \cup {h}] \in Stream
      BY <1>1 DEF Stream
    <2> QED BY <1>1, <2>1 DEF StreamOK, Stream
  <1>4. StreamOK([s EXCEPT !.first = NotLoaded])
    <2>1. [s EXCEPT !.first = NotLoaded] \in Stream
      BY <1>1 DEF Stream
    <2> QED BY <1>1, <2>1 DEF StreamOK, Stream
  <1>5. StreamOK(AfterRestart(s))
    <2> DEFINE t == [s EXCEPT !.first = NotLoaded, !.pending = <<>>]
    <2>1. t \in Stream
      BY <1>1, EmptySeq DEF Stream
    <2>2. t.pending = <<>> /\ t.chain = s.chain /\ t.cand = s.cand
      BY <1>1 DEF Stream
    <2>3. Follows(<<>>, Len(s.chain)) /\ Len(<<>>) <= MaxPending
      BY EmptySeq DEF Follows, MaxPending
    <2> HIDE DEF t
    <2>4. StreamOK(t)
      BY <2>1, <2>2, <2>3 DEF StreamOK
    <2> QED BY <2>4 DEF t, AfterRestart
  <1> QED BY <1>2, <1>3, <1>4, <1>5

(* Clients and the cache. *)
LEMMA SubmitEventStep ==
    ASSUME Inv, NEW n \in Node, NEW e \in Event, SubmitEvent(n, e) PROVE Inv'
  <1>1. UNCHANGED <<mb, log, stream, job>>
    BY DEF SubmitEvent
  <1>2. LastHash(stream[n].chain) \in Hash \cup {Genesis}
    <2>1. stream[n].chain \in Seq(Hash)
      BY DEF Inv, StreamsOK, Stream
    <2> QED BY <2>1 DEF LastHash, At
  <1>3. CallsOK'
    BY <1>2 DEF SubmitEvent, Inv, CallsOK
  <1> QED BY <1>1, <1>3, SameLog, SameStreams, SameJobs DEF Inv

(* addEvent keeps the invariant. *)
LEMMA AddEventStep ==
    ASSUME Inv, NEW n \in Node, NEW e \in Event, AddEvent(n, e) PROVE Inv'
  <1> DEFINE s == Loaded(stream[n])
             t == IF ValidateNextEvent(s, e) = "OK" THEN [s EXCEPT !.pool = @ \cup {e}]
                  ELSE s
  <1>1. UNCHANGED <<mb, log, job>>
    BY DEF AddEvent
  <1>2. StreamOK(s)
    BY LoadedOK DEF Inv, StreamsOK
  <1> HIDE DEF s
  <1>3. StreamOK(t)
    BY <1>2, FieldOK
  <1>4. stream' = [stream EXCEPT ![n] = t]
    BY DEF AddEvent, s
  <1> HIDE DEF t
  <1>5. StreamsOK'
    BY <1>1, <1>3, <1>4, OneStream DEF Inv
  <1>6. CallsOK'
    BY DEF AddEvent, Inv, CallsOK
  <1> QED BY <1>1, <1>5, <1>6, SameLog, SameJobs DEF Inv

(* Loading a view and dropping it from the cache keep the invariant. *)
LEMMA CacheStep ==
    ASSUME Inv, NEW n \in Node, GetView(n) \/ TryCleanup(n) PROVE Inv'
  <1>1. UNCHANGED <<mb, log, job>>
    BY DEF GetView, TryCleanup
  <1>2. \/ stream' = [stream EXCEPT ![n] = Loaded(stream[n])]
        \/ stream' = [stream EXCEPT ![n] = [stream[n] EXCEPT !.first = NotLoaded]]
    BY DEF GetView, TryCleanup, Inv, StreamsOK
  <1>3. StreamOK(Loaded(stream[n])) /\ StreamOK([stream[n] EXCEPT !.first = NotLoaded])
    BY LoadedOK, FieldOK DEF Inv, StreamsOK
  <1>4. StreamsOK'
    BY <1>1, <1>2, <1>3, OneStream DEF Inv
  <1>5. CallsOK'
    BY DEF GetView, TryCleanup, Inv, CallsOK
  <1> QED BY <1>1, <1>4, <1>5, SameLog, SameJobs DEF Inv

(* Starting a job. *)
LEMMA TryScheduleStep ==
    ASSUME Inv, NEW n \in Node, TrySchedule(n) PROVE Inv'
  <1> DEFINE j == [job[n] EXCEPT !.pc = "scheduled"]
  <1>1. UNCHANGED <<mb, log, stream>> /\ job' = [job EXCEPT ![n] = j]
    BY DEF TrySchedule, Inv, JobsOK
  <1>2. JobOK(j)
    BY DEF Inv, JobsOK, JobOK, Job
  <1> HIDE DEF j
  <1>3. JobsOK'
    BY <1>1, <1>2, OneJob DEF Inv
  <1>4. CallsOK'
    BY DEF TrySchedule, Inv, CallsOK
  <1> QED BY <1>1, <1>3, <1>4, SameLog, SameStreams DEF Inv

(* Asking the remotes for proposals keeps the invariant. *)
LEMMA RequestProposalsStep ==
    ASSUME Inv, NEW n \in Node, RequestProposals(n) PROVE Inv'
  <1> DEFINE s == Loaded(stream[n])
             j == [IdleJob EXCEPT !.pc = "gather", !.num = Len(s.chain) + 1,
                                  !.prev = LastHash(s.chain), !.local = s.pool]
  <1>1. /\ UNCHANGED <<mb, log>> /\ stream' = [stream EXCEPT ![n] = s]
        /\ job' = [job EXCEPT ![n] = j]
    BY DEF RequestProposals
  <1>2. StreamOK(s)
    BY LoadedOK DEF Inv, StreamsOK
  <1> HIDE DEF s
  <1>3. /\ s.chain \in Seq(Hash) /\ s.pool \subseteq Event
        /\ Len(s.chain) \in Nat /\ Len(s.chain) <= Len(log) /\ Len(log) \in Nat
    BY <1>2 DEF StreamOK, Stream, Inv, LogOK
  <1>4. LastHash(s.chain) = At(log, Len(s.chain)) /\ LastHash(s.chain) \in Hash \cup {Genesis}
    BY <1>2, <1>3 DEF StreamOK, LastHash, At
  <1>5. /\ j \in Job /\ j.pc = "gather" /\ j.num = Len(s.chain) + 1
        /\ j.prev = LastHash(s.chain)
    <2> DEFINE a == Len(s.chain) + 1
               b == LastHash(s.chain)
               c == s.pool
    <2>1. a \in Nat /\ b \in Hash \cup {Genesis} /\ c \in SUBSET Event
      BY <1>3, <1>4
    <2> HIDE DEF a, b, c
    <2>2. LET k == [IdleJob EXCEPT !.pc = "gather", !.num = a, !.prev = b, !.local = c]
          IN  k \in Job /\ k.pc = "gather" /\ k.num = a /\ k.prev = b
      BY <2>1 DEF IdleJob, Job
    <2> QED BY <2>2 DEF a, b, c
  <1>6. j.num \in 1 .. Len(log) + 1 /\ j.num - 1 = Len(s.chain)
    BY <1>3, <1>5
  <1> HIDE DEF j
  <1>7. JobOK(j)
    BY <1>4, <1>5, <1>6 DEF JobOK
  <1>8. StreamsOK' /\ JobsOK'
    BY <1>1, <1>2, <1>7, OneStream, OneJob DEF Inv
  <1>9. CallsOK'
    BY DEF RequestProposals, Inv, CallsOK
  <1> QED BY <1>1, <1>8, <1>9, SameLog DEF Inv

(* The snapshot flags of proposals are Booleans. *)
LEMMA SnapshotFlag ==
    ASSUME NEW c, NEW q, NEW ps
    PROVE  ShouldSnapshot(c, q) \in BOOLEAN /\ CombinedSnapshot(ps) \in BOOLEAN
  <1>1. \A x, y : (x >= y) \in BOOLEAN
    OBVIOUS
  <1>2. ShouldSnapshot(c, q) \in BOOLEAN
    BY <1>1, Zenon DEF ShouldSnapshot
  <1>3. CombinedSnapshot(ps) \in BOOLEAN
    BY <1>1, Zenon DEF CombinedSnapshot
  <1> QED BY <1>2, <1>3

(* Gathering proposals. *)
LEMMA ProposeMiniblockStep ==
    ASSUME Inv, NEW n \in Node, NEW m \in Node, ProposeMiniblock(n, m) PROVE Inv'
  <1> DEFINE s == Loaded(stream[m])
             gen == Len(s.chain) + 1
             fits == job[n].num = gen /\ job[n].prev = LastHash(s.chain)
             proposal == [from |-> m, events |-> s.pool,
                          snap |-> ShouldSnapshot(s.chain, s.pool)]
             ps == IF fits THEN job[n].props \cup {proposal} ELSE job[n].props
             fs == IF fits THEN job[n].failed ELSE job[n].failed \cup {m}
             old == job[n].tooOld \/ job[n].num < gen
             j == [job[n] EXCEPT !.props = ps, !.failed = fs, !.tooOld = old]
  <1>1. UNCHANGED <<mb, log>> /\ stream' = [stream EXCEPT ![m] = s]
    BY DEF ProposeMiniblock
  <1>2. job' = [job EXCEPT ![n] = j]
    BY DEF ProposeMiniblock, Inv, JobsOK, Job
  <1>3. StreamOK(s)
    BY LoadedOK DEF Inv, StreamsOK
  <1>4. proposal \in Proposal
    <2>1. s.pool \subseteq Event
      BY <1>3 DEF StreamOK, Stream
    <2>2. ShouldSnapshot(s.chain, s.pool) \in BOOLEAN
      BY SnapshotFlag
    <2> HIDE DEF s
    <2> QED BY <2>1, <2>2 DEF Proposal
  <1>5. JobOK(job[n]) /\ job[n] \in Job
    BY DEF Inv, JobsOK, JobOK
  <1>6. ps \subseteq Proposal /\ fs \subseteq Node /\ old \in BOOLEAN
    <2> HIDE DEF proposal, fits, gen
    <2> QED BY <1>4, <1>5 DEF Job
  <1> HIDE DEF ps, fs, old
  <1>7. j \in Job /\ j.pc = job[n].pc /\ j.num = job[n].num /\ j.prev = job[n].prev
                  /\ j.hash = job[n].hash
    BY <1>5, <1>6 DEF Job
  <1> HIDE DEF j
  <1>8. JobOK(j)
    BY <1>5, <1>7 DEF JobOK
  <1>9. StreamsOK' /\ JobsOK'
    BY <1>1, <1>2, <1>3, <1>8, OneStream, OneJob DEF Inv
  <1>10. CallsOK'
    BY DEF ProposeMiniblock, Inv, CallsOK
  <1> QED BY <1>1, <1>9, <1>10, SameLog DEF Inv

(* The end of gathering keeps the invariant. *)
LEMMA EndGatherStep ==
    ASSUME Inv, NEW n \in Node, EndGather(n) PROVE Inv'
  <1> DEFINE s == Loaded(stream[n])
             missing == UNION {p.events \ job[n].local : p \in job[n].props}
             k == [job[n] EXCEPT !.pc = "add", !.view = s.pool, !.todo = missing]
             j == IF Len(s.chain) + 1 # job[n].num THEN IdleJob ELSE k
  <1>1. /\ UNCHANGED <<mb, log>> /\ stream' = [stream EXCEPT ![n] = s]
        /\ job' = [job EXCEPT ![n] = j] /\ job[n].pc = "gather"
    BY DEF EndGather
  <1>2. StreamOK(s)
    BY LoadedOK DEF Inv, StreamsOK
  <1>3. JobOK(job[n]) /\ job[n] \in Job
    BY DEF Inv, JobsOK, JobOK
  <1>4. s.pool \subseteq Event /\ missing \subseteq Event
    BY <1>2, <1>3 DEF StreamOK, Stream, Job, Proposal
  <1> HIDE DEF s, missing
  <1>5. k \in Job /\ k.pc = "add" /\ k.num = job[n].num /\ k.prev = job[n].prev
    BY <1>3, <1>4 DEF Job
  <1> HIDE DEF k
  <1>6. JobOK(j)
    <2>1. JobOK(k)
      BY <1>1, <1>3, <1>5 DEF JobOK
    <2> QED BY <2>1, IdleJobOK
  <1> HIDE DEF j
  <1>7. StreamsOK' /\ JobsOK'
    BY <1>1, <1>2, <1>6, OneStream, OneJob DEF Inv
  <1>8. CallsOK'
    BY DEF EndGather, Inv, CallsOK
  <1> QED BY <1>1, <1>7, <1>8, SameLog DEF Inv

(* Adding an event the leader misses keeps the invariant. *)
LEMMA AddMissingEventStep ==
    ASSUME Inv, NEW n \in Node, NEW e \in Event, AddMissingEvent(n, e) PROVE Inv'
  <1> DEFINE s == Loaded(stream[n])
             r == ValidateNextEvent(s, e)
             adds == r \in {"OK", "BAD_PREV_MINIBLOCK_HASH"} /\ e \notin s.pool
             t == IF adds THEN [s EXCEPT !.pool = @ \cup {e}] ELSE s
             td == job[n].todo \ {e}
             stale == Len(t.chain) + 1 # job[n].num
             j1 == [job[n] EXCEPT !.todo = td]
             j2 == [job[n] EXCEPT !.todo = td, !.view = t.pool, !.stale = stale]
             j == IF adds \/ r = "DUPLICATE_EVENT" THEN j2 ELSE j1
  <1>1. UNCHANGED <<mb, log>>
    BY DEF AddMissingEvent
  <1>2. \/ UNCHANGED stream /\ job' = [job EXCEPT ![n] = j1]
        \/ stream' = [stream EXCEPT ![n] = t] /\ job' = [job EXCEPT ![n] = j]
    BY DEF AddMissingEvent, Inv, JobsOK
  <1>3. StreamOK(s)
    BY LoadedOK DEF Inv, StreamsOK
  <1>4. StreamOK(t)
    <2> HIDE DEF s, adds
    <2> QED BY <1>3, FieldOK
  <1>5. JobOK(job[n]) /\ job[n] \in Job
    BY DEF Inv, JobsOK, JobOK
  <1>6. t.pool \subseteq Event /\ td \subseteq Event /\ stale \in BOOLEAN
    BY <1>4, <1>5 DEF StreamOK, Stream, Job
  <1> HIDE DEF s, t, td, stale
  <1>7. JobOK(j1)
    <2>1. j1 \in Job /\ j1.pc = job[n].pc /\ j1.num = job[n].num /\ j1.prev = job[n].prev
                     /\ j1.hash = job[n].hash
      BY <1>5, <1>6 DEF Job
    <2> QED BY <1>5, <2>1 DEF JobOK
  <1>8. JobOK(j2)
    <2>1. j2 \in Job /\ j2.pc = job[n].pc /\ j2.num = job[n].num /\ j2.prev = job[n].prev
                     /\ j2.hash = job[n].hash
      BY <1>5, <1>6 DEF Job
    <2> QED BY <1>5, <2>1 DEF JobOK
  <1> HIDE DEF j1, j2
  <1>9. JobOK(j)
    BY <1>7, <1>8
  <1> HIDE DEF j
  <1>10. StreamsOK' /\ JobsOK'
    BY <1>1, <1>2, <1>4, <1>7, <1>9, OneStream, SameStreams, OneJob DEF Inv
  <1>11. CallsOK'
    BY DEF AddMissingEvent, Inv, CallsOK
  <1> QED BY <1>1, <1>10, <1>11, SameLog DEF Inv

(* The steps at which a job ends without touching replicas. *)
LEMMA JobEndsStep ==
    ASSUME Inv, NEW n \in Node, AbandonProposal(n) \/ SaveFails(n) \/ SubmitFails(n)
    PROVE  Inv'
  <1>1. UNCHANGED <<mb, log, stream>> /\ job' = [job EXCEPT ![n] = IdleJob]
    BY DEF AbandonProposal, SaveFails, SubmitFails, JobDone
  <1>2. JobsOK'
    BY <1>1, IdleJobOK, OneJob DEF Inv
  <1>3. CallsOK'
    BY DEF AbandonProposal, SaveFails, SubmitFails, Inv, CallsOK
  <1> QED BY <1>1, <1>2, <1>3, SameLog, SameStreams DEF Inv

(* A new candidate. *)
LEMMA MakeCandidateStep ==
    ASSUME Inv, NEW n \in Node, NEW h \in Hash, MakeCandidate(n, h) PROVE Inv'
  <1> DEFINE header == [num |-> job[n].num, prev |-> job[n].prev,
                        events |-> CombinedEvents(Combined(n)),
                        snap |-> CombinedSnapshot(Combined(n))]
             j == [IdleJob EXCEPT !.pc = "save", !.hash = h]
  <1>1. /\ h \notin DOMAIN mb /\ UNCHANGED <<log, stream>> /\ job[n].pc = "add"
        /\ mb' = [x \in DOMAIN mb \cup {h} |-> IF x = h THEN header ELSE mb[x]]
        /\ job' = [job EXCEPT ![n] = j]
        /\ saves' = saves \cup ({h} \X (Node \ {n})) /\ writes' = writes \cup {<<h, n>>}
        /\ UNCHANGED <<seen, getrec, recon, txs, ref, crashes>>
    BY DEF MakeCandidate
  <1>2. JobOK(job[n]) /\ job[n] \in Job
    BY DEF Inv, JobsOK, JobOK
  <1>3. header \in Header
    <2>1. CombinedSnapshot(Combined(n)) \in BOOLEAN
      BY SnapshotFlag
    <2>2. CombinedEvents(Combined(n)) \subseteq Event
      BY DEF CombinedEvents
    <2> QED BY <1>2, <2>1, <2>2 DEF Header, Job
  <1>4. header.num \in 1 .. Len(log) + 1 /\ header.prev = At(log, header.num - 1)
    BY <1>1, <1>2 DEF JobOK
  <1> HIDE DEF header
  <1>5. /\ DOMAIN mb' = DOMAIN mb \cup {h} /\ mb'[h] = header
        /\ \A x \in DOMAIN mb : mb'[x] = mb[x]
    BY <1>1
  <1>6. LogOK'
    <2>1. DOMAIN mb' \subseteq Hash /\ mb' \in [DOMAIN mb' -> Header]
      BY <1>1, <1>3, <1>5 DEF Inv, LogOK
    <2>2. log' \in Seq(DOMAIN mb')
      <3>1. log \in Seq(DOMAIN mb) /\ DOMAIN mb \subseteq DOMAIN mb'
        BY <1>5 DEF Inv, LogOK
      <3> QED BY <1>1, <3>1, SeqMonotonic
    <2>3. RegisteredLinked'
      <3>1. \A i \in 1 .. Len(log) : log[i] \in DOMAIN mb
        BY DEF Inv, LogOK
      <3> QED BY <1>1, <1>5, <3>1 DEF Inv, LogOK, RegisteredLinked, At
    <2> QED BY <2>1, <2>2, <2>3 DEF LogOK
  <1>7. CandidatesLinked'
    BY <1>1, <1>4, <1>5 DEF Inv, CandidatesLinked, At
  <1>8. StreamsOK'
    BY <1>1, <1>5 DEF Inv, StreamsOK, StreamOK, Follows
  <1>9. JobsOK'
    <2>1. j \in Job /\ j.pc = "save" /\ j.hash = h
      BY DEF IdleJob, Job
    <2>2. job' \in [Node -> Job]
      BY <1>1, <2>1 DEF Inv, JobsOK
    <2> HIDE DEF j
    <2>3. ASSUME NEW m \in Node PROVE JobOK(job[m])'
      <3>1. CASE m = n
        BY <1>1, <1>5, <2>1, <3>1 DEF JobOK, Inv, JobsOK
      <3>2. CASE m # n
        <4>1. job'[m] = job[m]
          BY <1>1, <3>2 DEF Inv, JobsOK
        <4> QED BY <1>1, <1>5, <4>1 DEF Inv, JobsOK, JobOK, At
      <3> QED BY <3>1, <3>2
    <2> QED BY <2>2, <2>3 DEF JobsOK
  <1>10. CallsOK'
    BY <1>1, <1>5 DEF Inv, CallsOK
  <1> QED BY <1>6, <1>7, <1>8, <1>9, <1>10 DEF Inv

(* Counting an acknowledgement. *)
LEMMA AckedOK ==
    ASSUME JobsOK, UNCHANGED <<mb, log>>, NEW h, NEW m \in Node,
           job' = Acked(h, m) \/ job' = job
    PROVE  JobsOK'
  <1>1. CASE job' = job
    BY <1>1, SameJobs
  <1>2. CASE job' = Acked(h, m)
    <2>1. ASSUME NEW n \in Node PROVE job'[n] \in Job /\ JobOK(job[n])'
      <3> DEFINE k == [job[n] EXCEPT !.acks = @ \cup {m}]
      <3>1. JobOK(job[n]) /\ job[n] \in Job
        BY DEF JobsOK, JobOK
      <3>2. k \in Job /\ k.pc = job[n].pc /\ k.num = job[n].num /\ k.prev = job[n].prev
                      /\ k.hash = job[n].hash
        BY <3>1 DEF Job
      <3>3. job'[n] = k \/ job'[n] = job[n]
        BY <1>2 DEF Acked
      <3> HIDE DEF k
      <3>4. JobOK(job'[n])
        BY <3>1, <3>2, <3>3 DEF JobOK
      <3> QED BY <3>4 DEF JobOK, At
    <2>2. job' \in [Node -> Job]
      <3>1. job' = [n \in Node |-> job'[n]]
        BY <1>2 DEF Acked
      <3> QED BY <2>1, <3>1
    <2> QED BY <2>1, <2>2 DEF JobsOK
  <1> QED BY <1>1, <1>2

(* Saving a candidate. *)
LEMMA TryApplyCandidateStep ==
    ASSUME Inv, NEW m \in Node, NEW h \in Hash, TryApplyCandidate(m, h) PROVE Inv'
  <1> DEFINE s == Loaded(stream[m])
             next == s.pending # <<>> /\ s.pending[1] = h
             t == IF CanApply(s, <<h>>) THEN ApplyPending(s) ELSE s
  <1>1. /\ UNCHANGED <<mb, log>> /\ <<h, m>> \in saves
        /\ job' = Acked(h, m) \/ job' = job
        /\ \/ stream' = [stream EXCEPT ![m] = s]
           \/ next /\ stream' = [stream EXCEPT ![m] = t]
    BY DEF TryApplyCandidate
  <1>2. StreamOK(s)
    BY LoadedOK DEF Inv, StreamsOK
  <1>3. next => StreamOK(t)
    <2> HIDE DEF s
    <2> QED BY <1>2, ApplyPendingOK DEF Inv
  <1> HIDE DEF s, t, next
  <1>4. StreamsOK'
    BY <1>1, <1>2, <1>3, OneStream DEF Inv
  <1>5. JobsOK'
    BY <1>1, AckedOK DEF Inv
  <1>6. CallsOK'
    BY <1>1 DEF TryApplyCandidate, Inv, CallsOK
  <1> QED BY <1>1, <1>4, <1>5, <1>6, SameLog DEF Inv

(* Storing a candidate keeps the invariant. *)
LEMMA WriteCandidateStep ==
    ASSUME Inv, NEW m \in Node, NEW h \in Hash, WriteCandidate(m, h) PROVE Inv'
  <1> DEFINE t == [stream[m] EXCEPT !.cand = @ \cup {h}]
  <1>1. /\ UNCHANGED <<mb, log>> /\ <<h, m>> \in writes
        /\ job' = Acked(h, m) \/ job' = job
    BY DEF WriteCandidate
  <1>2. stream' = [stream EXCEPT ![m] = t] \/ stream' = [stream EXCEPT ![m] = stream[m]]
    BY DEF WriteCandidate, Inv, StreamsOK, Stream
  <1>3. StreamOK(t) /\ StreamOK(stream[m])
    BY <1>1, FieldOK DEF Inv, CallsOK, StreamsOK
  <1> HIDE DEF t
  <1>4. StreamsOK'
    BY <1>1, <1>2, <1>3, OneStream DEF Inv
  <1>5. JobsOK'
    BY <1>1, AckedOK DEF Inv
  <1>6. CallsOK'
    BY <1>1 DEF WriteCandidate, Inv, CallsOK
  <1> QED BY <1>1, <1>4, <1>5, <1>6, SameLog DEF Inv

(* Registration. *)
LEMMA SubmitProposalStep ==
    ASSUME Inv, NEW n \in Node, SubmitProposal(n) PROVE Inv'
  <1> DEFINE j == [job[n] EXCEPT !.pc = "submit", !.acks = {}]
  <1>1. UNCHANGED <<mb, log, stream>> /\ job' = [job EXCEPT ![n] = j] /\ job[n].pc = "save"
    BY DEF SubmitProposal, Inv, JobsOK, Job
  <1>2. JobOK(job[n]) /\ job[n] \in Job
    BY DEF Inv, JobsOK, JobOK
  <1>3. j \in Job /\ j.pc = "submit" /\ j.hash = job[n].hash
    BY <1>2 DEF Job
  <1> HIDE DEF j
  <1>4. JobOK(j)
    BY <1>1, <1>2, <1>3 DEF JobOK
  <1>5. JobsOK'
    BY <1>1, <1>4, OneJob DEF Inv
  <1>6. CallsOK'
    BY <1>1, <1>2 DEF SubmitProposal, Inv, CallsOK, JobOK
  <1> QED BY <1>1, <1>5, <1>6, SameLog, SameStreams DEF Inv

(* The contract accepts only the next miniblock, linked to the last one. *)
LEMMA AcceptsNext ==
    ASSUME LogOK, CandidatesLinked, NEW h \in DOMAIN mb, Accepts(h)
    PROVE  mb[h].num = Len(log) + 1 /\ mb[h].prev = At(log, Len(log))
  <1>1. Len(log) \in Nat
    BY DEF LogOK
  <1>2. Num(LastHash(log)) = Len(log)
    <2>1. CASE Len(log) = 0
      BY <2>1 DEF LastHash, At, Num
    <2>2. CASE Len(log) # 0
      <3>1. Len(log) \in 1 .. Len(log)
        BY <1>1, <2>2
      <3>2. log[Len(log)] \in Hash /\ mb[log[Len(log)]].num = Len(log)
        BY <3>1 DEF LogOK, RegisteredLinked
      <3> QED BY <2>2, <3>2, ConstantsAssumption DEF LastHash, At, Num
    <2> QED BY <2>1, <2>2
  <1>3. mb[h].num \in 1 .. Len(log) + 1 /\ mb[h].prev = At(log, mb[h].num - 1)
    BY DEF CandidatesLinked
  <1>4. mb[h].num > Len(log)
    BY <1>2 DEF Accepts
  <1>5. mb[h].num = Len(log) + 1 /\ mb[h].num - 1 = Len(log)
    BY <1>1, <1>3, <1>4
  <1> QED BY <1>3, <1>5

(* The contract's answer to a registration keeps the invariant. *)
LEMMA SetStreamLastMiniblockStep ==
    ASSUME Inv, NEW h \in Hash, SetStreamLastMiniblock(h) PROVE Inv'
  <1>1. /\ h \in txs /\ h \in DOMAIN mb /\ UNCHANGED <<mb, stream>>
        /\ log' = IF Accepts(h) THEN Append(log, h) ELSE log
        /\ job' = [n \in Node |->
                     IF job[n].pc = "submit" /\ job[n].hash = h
                     THEN [job[n] EXCEPT !.pc = IF Accepts(h) THEN "ok" ELSE "bad"]
                     ELSE job[n]]
    BY DEF SetStreamLastMiniblock, Inv, CallsOK
  <1>2. log \in Seq(DOMAIN mb) /\ Len(log) \in Nat
    BY DEF Inv, LogOK
  <1>3. /\ log' \in Seq(DOMAIN mb) /\ Len(log') \in Nat /\ Len(log) <= Len(log')
        /\ \A i \in 1 .. Len(log) : log'[i] = log[i]
        /\ Accepts(h) => Len(log') = Len(log) + 1 /\ log'[Len(log) + 1] = h
        /\ ~ Accepts(h) => log' = log
    <2>1. CASE Accepts(h)
      <3>1. log' = Append(log, h)
        BY <1>1, <2>1
      <3>2. /\ Append(log, h) \in Seq(DOMAIN mb) /\ Len(Append(log, h)) = Len(log) + 1
            /\ \A i \in 1 .. Len(log) : Append(log, h)[i] = log[i]
            /\ Append(log, h)[Len(log) + 1] = h
        BY <1>1, <1>2, AppendProperties
      <3> QED BY <1>2, <2>1, <3>1, <3>2
    <2>2. CASE ~ Accepts(h)
      BY <1>1, <1>2, <2>2
    <2> QED BY <2>1, <2>2
  <1>4. \A i \in 0 .. Len(log) : At(log', i) = At(log, i)
    BY <1>2, <1>3 DEF At
  <1>5. LogOK'
    <2>1. RegisteredLinked'
      <3> SUFFICES ASSUME NEW i \in 1 .. Len(log')
                   PROVE  mb[log'[i]].num = i /\ mb[log'[i]].prev = At(log', i - 1)
        BY <1>1 DEF RegisteredLinked, At
      <3>1. CASE i \in 1 .. Len(log)
        <4>1. log'[i] = log[i] /\ i - 1 \in 0 .. Len(log)
          BY <1>2, <1>3, <3>1
        <4>2. mb[log[i]].num = i /\ mb[log[i]].prev = At(log, i - 1)
          BY <3>1 DEF Inv, LogOK, RegisteredLinked
        <4> QED BY <1>4, <4>1, <4>2
      <3>2. CASE i \notin 1 .. Len(log)
        <4>1. Accepts(h) /\ i = Len(log) + 1 /\ log'[i] = h
          BY <1>2, <1>3, <3>2
        <4>2. mb[h].num = Len(log) + 1 /\ mb[h].prev = At(log, Len(log))
          BY <1>1, <4>1, AcceptsNext DEF Inv
        <4>3. i - 1 = Len(log) /\ Len(log) \in 0 .. Len(log)
          BY <1>2, <4>1
        <4> QED BY <1>4, <4>1, <4>2, <4>3
      <3> QED BY <3>1, <3>2
    <2> QED BY <1>1, <1>3, <2>1 DEF Inv, LogOK
  <1>6. CandidatesLinked'
    <2> SUFFICES ASSUME NEW x \in DOMAIN mb
                 PROVE  /\ mb[x].num \in 1 .. Len(log') + 1
                        /\ mb[x].prev = At(log', mb[x].num - 1)
      BY <1>1 DEF CandidatesLinked, At
    <2>1. mb[x].num \in 1 .. Len(log) + 1 /\ mb[x].prev = At(log, mb[x].num - 1)
      BY DEF Inv, CandidatesLinked
    <2>2. mb[x].num - 1 \in 0 .. Len(log) /\ mb[x].num \in 1 .. Len(log') + 1
      BY <1>2, <1>3, <2>1
    <2> QED BY <1>4, <2>1, <2>2
  <1>7. StreamsOK'
    <2>1. ASSUME NEW n \in Node PROVE StreamOK(stream[n])'
      <3> DEFINE s == stream[n]
      <3>1. StreamOK(s) /\ s' = s
        BY <1>1 DEF Inv, StreamsOK
      <3>2. Len(s.chain) \in Nat /\ Len(s.pending) \in Nat
        BY <3>1 DEF StreamOK, Stream
      <3>3. \A i \in 1 .. Len(s.chain) : s.chain[i] = log'[i]
        BY <1>2, <1>3, <3>1, <3>2 DEF StreamOK
      <3>4. \A i \in 1 .. Len(s.pending) : /\ Len(s.chain) + i <= Len(log')
                                           /\ s.pending[i] = log'[Len(s.chain) + i]
        <4> TAKE i \in 1 .. Len(s.pending)
        <4>1. Len(s.chain) + i <= Len(log) /\ s.pending[i] = log[Len(s.chain) + i]
          BY <3>1 DEF StreamOK, Follows
        <4>2. Len(s.chain) + i \in 1 .. Len(log)
          BY <1>2, <3>2, <4>1
        <4> QED BY <1>2, <1>3, <4>1, <4>2
      <3>5. Len(s.chain) <= Len(log')
        BY <1>2, <1>3, <3>1, <3>2 DEF StreamOK
      <3>6. s \in Stream /\ Len(s.pending) <= MaxPending /\ s.cand \subseteq DOMAIN mb
        BY <3>1 DEF StreamOK
      <3> QED BY <1>1, <3>3, <3>4, <3>5, <3>6 DEF StreamOK, Follows
    <2> QED BY <1>1, <2>1 DEF Inv, StreamsOK
  <1>8. JobsOK'
    <2>1. ASSUME NEW n \in Node PROVE job'[n] \in Job /\ JobOK(job[n])'
      <3> DEFINE k == [job[n] EXCEPT !.pc = IF Accepts(h) THEN "ok" ELSE "bad"]
      <3>1. JobOK(job[n]) /\ job[n] \in Job
        BY DEF Inv, JobsOK, JobOK
      <3>2. CASE job[n].pc = "submit" /\ job[n].hash = h
        <4>1. job'[n] = k
          BY <1>1, <3>2
        <4>2. k \in Job /\ k.pc = (IF Accepts(h) THEN "ok" ELSE "bad") /\ k.hash = h
          BY <3>1, <3>2 DEF Job
        <4>3. Accepts(h) => \E i \in 1 .. Len(log') : log'[i] = h
          <5>1. Accepts(h) => Len(log) + 1 \in 1 .. Len(log')
            BY <1>2, <1>3
          <5> QED BY <1>3, <5>1
        <4> HIDE DEF k
        <4> QED BY <1>1, <4>1, <4>2, <4>3 DEF JobOK
      <3>3. CASE ~ (job[n].pc = "submit" /\ job[n].hash = h)
        <4> DEFINE j == job[n]
        <4>1. job'[n] = j
          BY <1>1, <3>3
        <4>2. j.pc \in {"gather", "add"} => /\ j.num \in 1 .. Len(log') + 1
                                            /\ j.prev = At(log', j.num - 1)
          <5> SUFFICES ASSUME j.pc \in {"gather", "add"}
                       PROVE  /\ j.num \in 1 .. Len(log') + 1
                              /\ j.prev = At(log', j.num - 1)
            OBVIOUS
          <5>1. j.num \in 1 .. Len(log) + 1 /\ j.prev = At(log, j.num - 1)
            BY <3>1 DEF JobOK
          <5>2. j.num - 1 \in 0 .. Len(log) /\ j.num \in 1 .. Len(log') + 1
            BY <1>2, <1>3, <5>1
          <5> QED BY <1>4, <5>1, <5>2
        <4>3. j.pc = "ok" => \E i \in 1 .. Len(log') : log'[i] = j.hash
          <5> SUFFICES ASSUME j.pc = "ok"
                       PROVE  \E i \in 1 .. Len(log') : log'[i] = j.hash
            OBVIOUS
          <5>1. PICK i \in 1 .. Len(log) : log[i] = j.hash
            BY <3>1 DEF JobOK
          <5>2. i \in 1 .. Len(log')
            BY <1>2, <1>3
          <5> QED BY <1>3, <5>1, <5>2
        <4>4. j.pc \in {"save", "submit", "ok", "bad"} => j.hash \in DOMAIN mb
          BY <3>1 DEF JobOK
        <4> QED BY <1>1, <3>1, <4>1, <4>2, <4>3, <4>4 DEF JobOK, At
      <3> QED BY <3>2, <3>3
    <2>2. job' \in [Node -> Job]
      <3>1. job' = [n \in Node |-> job'[n]]
        BY <1>1
      <3> QED BY <2>1, <3>1
    <2> QED BY <2>1, <2>2 DEF JobsOK
  <1>9. CallsOK'
    BY <1>1 DEF SetStreamLastMiniblock, Inv, CallsOK
  <1> QED BY <1>5, <1>6, <1>7, <1>8, <1>9 DEF Inv

(* Promotion of what was registered. *)
LEMMA ApplyRegisteredStep ==
    ASSUME Inv, NEW n \in Node, ApplyRegistered(n) PROVE Inv'
  <1> DEFINE s == Loaded(stream[n])
  <1>1. /\ UNCHANGED <<mb, log>> /\ job' = [job EXCEPT ![n] = IdleJob]
        /\ stream' = [stream EXCEPT ![n] = ApplyMiniblock(s, job[n].hash)]
    BY DEF ApplyRegistered, JobDone
  <1>2. PICK i \in 1 .. Len(log) : log[i] = job[n].hash
    BY DEF ApplyRegistered, Inv, JobsOK, JobOK
  <1>3. StreamOK(s)
    BY LoadedOK DEF Inv, StreamsOK
  <1> HIDE DEF s
  <1>4. StreamOK(ApplyMiniblock(s, job[n].hash))
    BY <1>2, <1>3, ApplyMiniblockOK DEF Inv
  <1>5. StreamsOK' /\ JobsOK'
    BY <1>1, <1>4, OneStream, OneJob, IdleJobOK DEF Inv
  <1>6. CallsOK'
    BY DEF ApplyRegistered, Inv, CallsOK
  <1> QED BY <1>1, <1>5, <1>6, SameLog DEF Inv

(* promoteConfirmedCandidates keeps the invariant. *)
LEMMA PromoteConfirmedStep ==
    ASSUME Inv, NEW n \in Node, NEW k \in 1 .. Len(log), PromoteConfirmed(n, k)
    PROVE  Inv'
  <1> DEFINE s == Loaded(stream[n])
  <1>1. /\ UNCHANGED <<mb, log>> /\ job' = [job EXCEPT ![n] = IdleJob]
        /\ stream' = [stream EXCEPT ![n] = PromoteCandidate(s, log[k]).stream]
    BY DEF PromoteConfirmed, JobDone
  <1>2. StreamOK(s)
    BY LoadedOK DEF Inv, StreamsOK
  <1> HIDE DEF s
  <1>3. StreamOK(PromoteCandidate(s, log[k]).stream)
    BY <1>2, PromoteCandidateOK DEF Inv
  <1>4. StreamsOK' /\ JobsOK'
    BY <1>1, <1>3, OneStream, OneJob, IdleJobOK DEF Inv
  <1>5. CallsOK'
    BY DEF PromoteConfirmed, Inv, CallsOK
  <1> QED BY <1>1, <1>4, <1>5, SameLog DEF Inv

(* The registry's event keeps the invariant. *)
LEMMA OnMiniblockRegisteredStep ==
    ASSUME Inv, NEW n \in Node, OnMiniblockRegistered(n) PROVE Inv'
  <1> DEFINE s == Loaded(stream[n])
             k == seen[n] + 1
  <1>1. /\ UNCHANGED <<mb, log, job>>
        /\ stream' = [stream EXCEPT ![n] = PromoteCandidate(s, log[k]).stream]
    BY DEF OnMiniblockRegistered
  <1>2. k \in 1 .. Len(log)
    BY DEF OnMiniblockRegistered, Inv, CallsOK, LogOK
  <1>3. StreamOK(s)
    BY LoadedOK DEF Inv, StreamsOK
  <1> HIDE DEF s, k
  <1>4. StreamOK(PromoteCandidate(s, log[k]).stream)
    BY <1>2, <1>3, PromoteCandidateOK DEF Inv
  <1>5. StreamsOK'
    BY <1>1, <1>4, OneStream DEF Inv
  <1>6. CallsOK'
    BY DEF OnMiniblockRegistered, Inv, CallsOK
  <1> QED BY <1>1, <1>5, <1>6, SameLog, SameJobs DEF Inv

(* Reconciliation. *)
LEMMA GetRecordTaskStep ==
    ASSUME Inv, NEW n \in Node, GetRecordTask(n) \/ ReconciliationDone(n) PROVE Inv'
  <1>1. UNCHANGED <<mb, log, stream, job>>
    BY DEF GetRecordTask, ReconciliationDone
  <1> DEFINE x == Max({recon[n], RecordTarget})
  <1>2. x \in Nat
    <2>1. recon[n] \in Nat /\ RecordTarget \in Nat
      BY DEF Inv, CallsOK, LogOK, RecordTarget
    <2> QED BY <2>1, MaxOfTwo
  <1>3. /\ recon' = [recon EXCEPT ![n] = x] \/ recon' = [recon EXCEPT ![n] = 0]
        /\ getrec' \subseteq getrec
        /\ UNCHANGED <<seen, saves, writes, txs, ref, crashes>>
    BY DEF GetRecordTask, ReconciliationDone
  <1> HIDE DEF x
  <1>4. recon' \in [Node -> Nat]
    BY <1>2, <1>3 DEF Inv, CallsOK
  <1>5. CallsOK'
    BY <1>1, <1>3, <1>4 DEF Inv, CallsOK
  <1> QED BY <1>1, <1>5, SameLog, SameStreams, SameJobs DEF Inv

(* Importing a page of a peer keeps the invariant. *)
LEMMA SyncStreamFromPeerStep ==
    ASSUME Inv, NEW n \in Node, NEW m \in Node, NEW k \in 1 .. Len(log),
           SyncStreamFromPeer(n, m, k)
    PROVE  Inv'
  <1> DEFINE s == Loaded(stream[n])
             c == stream[m].chain
             page == SubSeq(c, Len(s.chain) + 1, k)
  <1>1. /\ UNCHANGED <<mb, log, job>> /\ stream' = [stream EXCEPT ![n] = Apply(s, page)]
        /\ k \in Len(s.chain) + 1 .. recon[n] /\ k <= Len(c)
    BY DEF SyncStreamFromPeer
  <1>2. StreamOK(s)
    BY LoadedOK DEF Inv, StreamsOK
  <1>3. /\ c \in Seq(Hash) /\ Len(c) <= Len(log) /\ Len(c) \in Nat
        /\ \A i \in 1 .. Len(c) : c[i] = log[i]
    BY DEF Inv, StreamsOK, StreamOK, Stream
  <1>4. Len(s.chain) \in Nat /\ recon[n] \in Nat
    BY <1>2 DEF StreamOK, Stream, Inv, CallsOK
  <1> HIDE DEF s, c
  <1>5. k \in Len(s.chain) + 1 .. Len(c)
    BY <1>1, <1>3, <1>4
  <1>6. /\ page \in Seq(Hash) /\ Follows(page, Len(s.chain))
        /\ Len(s.chain) + Len(page) <= Len(log)
    BY <1>3, <1>4, <1>5, PageFollows DEF Inv
  <1> HIDE DEF page
  <1>7. StreamOK(Apply(s, page))
    BY <1>2, <1>6, ApplyOK DEF Inv
  <1>8. StreamsOK'
    BY <1>1, <1>7, OneStream DEF Inv
  <1>9. CallsOK'
    BY DEF SyncStreamFromPeer, Inv, CallsOK
  <1> QED BY <1>1, <1>8, <1>9, SameLog, SameJobs DEF Inv

(* A restart. *)
LEMMA RestartStep ==
    ASSUME Inv, NEW n \in Node, Restart(n) PROVE Inv'
  <1>1. /\ UNCHANGED <<mb, log>> /\ job' = [job EXCEPT ![n] = IdleJob]
        /\ stream' = [stream EXCEPT ![n] = AfterRestart(stream[n])]
    BY DEF Restart, JobDone
  <1>2. StreamOK(AfterRestart(stream[n]))
    BY FieldOK DEF Inv, StreamsOK
  <1>3. StreamsOK' /\ JobsOK'
    BY <1>1, <1>2, OneStream, OneJob, IdleJobOK DEF Inv
  <1>4. CallsOK'
    BY DEF Restart, Inv, CallsOK, LogOK, RecordTarget
  <1> QED BY <1>1, <1>3, <1>4, SameLog DEF Inv

(* Every step keeps the invariant. *)
LEMMA NextIndInv == IndInv /\ [Next]_vars => IndInv'
  <1> SUFFICES ASSUME Inv, [Next]_vars PROVE Inv'
    <2>1. Inv <=> IndInv
      BY IndInvParts DEF Inv
    <2>2. Inv' <=> IndInv'
      BY <2>1, PTL
    <2> QED BY <2>1, <2>2
  <1>1. CASE UNCHANGED vars
    <2>1. CallsOK'
      BY <1>1 DEF vars, Inv, CallsOK
    <2> QED BY <1>1, <2>1, SameLog, SameStreams, SameJobs DEF vars, Inv
  <1>2. CASE Next
    <2>1. PICK n \in Node :
            \/ \E e \in Event :
                  SubmitEvent(n, e) \/ AddEvent(n, e) \/ AddMissingEvent(n, e)
            \/ GetView(n) \/ TryCleanup(n)
            \/ TrySchedule(n) \/ RequestProposals(n)
            \/ \E m \in Node : ProposeMiniblock(n, m)
            \/ EndGather(n) \/ AbandonProposal(n)
            \/ \E h \in Hash :
                  \/ MakeCandidate(n, h) \/ TryApplyCandidate(n, h)
                  \/ WriteCandidate(n, h) \/ SetStreamLastMiniblock(h)
            \/ SaveFails(n) \/ SubmitProposal(n) \/ SubmitFails(n)
            \/ ApplyRegistered(n)
            \/ \E k \in 1 .. Len(log) : PromoteConfirmed(n, k)
            \/ OnMiniblockRegistered(n) \/ GetRecordTask(n)
            \/ \E m \in Node, k \in 1 .. Len(log) : SyncStreamFromPeer(n, m, k)
            \/ ReconciliationDone(n) \/ Restart(n)
      BY <1>2 DEF Next
    <2> QED BY <2>1, SubmitEventStep, AddEventStep, AddMissingEventStep, CacheStep,
               TryScheduleStep, RequestProposalsStep, ProposeMiniblockStep, EndGatherStep,
               JobEndsStep, MakeCandidateStep, TryApplyCandidateStep, WriteCandidateStep,
               SetStreamLastMiniblockStep, SubmitProposalStep, ApplyRegisteredStep,
               PromoteConfirmedStep, OnMiniblockRegisteredStep, GetRecordTaskStep,
               SyncStreamFromPeerStep, RestartStep
  <1> QED BY <1>1, <1>2

----------------------------------------------------------------------------
(* Invariance: IndInv holds in every reachable state, for every number of  *)
(* replicas, producers, candidates, heights and restarts.                  *)
THEOREM Invariance == Spec => []IndInv
  BY InitIndInv, NextIndInv, PTL DEF Spec

(* TypeCorrect: the variables keep their types. *)
THEOREM TypeCorrect == Spec => []TypeOK
  <1>1. IndInv => TypeOK
    BY DEF IndInv
  <1> QED BY <1>1, Invariance, PTL

(* ReplicasAgree: the replicas of a stream hold prefixes of the one log    *)
(* the StreamRegistry contract accepted.                                   *)
THEOREM ReplicasAgree == Spec => []Agreement
  <1>1. IndInv => Agreement
    BY DEF IndInv
  <1> QED BY <1>1, Invariance, PTL

(* LogIsLinked: the contract's comparison of numbers alone keeps the       *)
(* registered miniblocks consecutive and linked.                           *)
THEOREM LogIsLinked == Spec => []RegisteredLinked
  <1>1. IndInv => RegisteredLinked
    BY DEF IndInv
  <1> QED BY <1>1, Invariance, PTL

(* PromotionsInOrder: scheduled promotions are the registered miniblocks   *)
(* right above the replica, at most MaxPending of them.                    *)
THEOREM PromotionsInOrder == Spec => []PendingRegistered
  <1>1. IndInv => PendingRegistered
    BY DEF IndInv
  <1> QED BY <1>1, Invariance, PTL

----------------------------------------------------------------------------
(* What a step may do to a replica, and what follows.                      *)

(* The events of a replica. *)
HeldBy(s) == s.pool \cup EventsOf(s.chain, 1)

(* What a step may do to a replica. *)
Grows(s, t) ==
    /\ t.chain = s.chain \/ Len(t.chain) > Len(s.chain)
    /\ HeldBy(s) \subseteq HeldBy(t)
    /\ \A h \in s.cand : h \in t.cand \/ ~ (mb[h].num > Len(t.chain))

(* The events of a longer chain. *)
LEMMA EventsOfConcat ==
    ASSUME NEW c \in Seq(Hash), NEW hs \in Seq(Hash)
    PROVE  EventsOf(c, 1) \cup EventsOf(hs, 1) \subseteq EventsOf(c \o hs, 1)
  <1>1. /\ Len(c \o hs) = Len(c) + Len(hs) /\ Len(c) \in Nat /\ Len(hs) \in Nat
        /\ \A i \in 1 .. Len(c) + Len(hs) :
              (c \o hs)[i] = IF i <= Len(c) THEN c[i] ELSE hs[i - Len(c)]
    BY ConcatProperties
  <1> DEFINE d == c \o hs
  <1> HIDE DEF d
  <1>2. ASSUME NEW e \in EventsOf(c, 1) PROVE e \in EventsOf(d, 1)
    <2>1. PICK i \in 1 .. Len(c) : e \in mb[c[i]].events
      BY DEF EventsOf
    <2>2. i \in 1 .. Len(d) /\ d[i] = c[i]
      BY <1>1 DEF d
    <2> QED BY <2>1, <2>2 DEF EventsOf
  <1>3. ASSUME NEW e \in EventsOf(hs, 1) PROVE e \in EventsOf(d, 1)
    <2>1. PICK i \in 1 .. Len(hs) : e \in mb[hs[i]].events
      BY DEF EventsOf
    <2>2. /\ Len(c) + i \in 1 .. Len(c) + Len(hs) /\ ~ (Len(c) + i <= Len(c))
          /\ Len(c) + i - Len(c) = i
      BY <1>1
    <2>3. Len(c) + i \in 1 .. Len(d) /\ d[Len(c) + i] = hs[i]
      BY <1>1, <2>2 DEF d
    <2> QED BY <2>1, <2>3 DEF EventsOf
  <1> QED BY <1>2, <1>3 DEF d

(* Applying miniblocks. *)
LEMMA ApplyGrows ==
    ASSUME NEW s, s \in Stream, NEW hs \in Seq(Hash), Len(hs) >= 1
    PROVE  Grows(s, Apply(s, hs))
  <1> DEFINE t == Apply(s, hs)
  <1>1. t.chain = s.chain \o hs /\ t.pool = s.pool \ EventsOf(hs, 1)
    BY DEF Apply, RemainingPool
  <1>2. s.chain \in Seq(Hash)
    BY DEF Stream
  <1>3. Len(s.chain \o hs) = Len(s.chain) + Len(hs) /\ Len(s.chain \o hs) > Len(s.chain)
    <2>1. Len(s.chain \o hs) = Len(s.chain) + Len(hs) /\ Len(s.chain) \in Nat /\ Len(hs) \in Nat
      BY <1>2, ConcatProperties
    <2> QED BY <2>1
  <1>4. EventsOf(s.chain, 1) \cup EventsOf(hs, 1) \subseteq EventsOf(s.chain \o hs, 1)
    BY <1>2, EventsOfConcat
  <1>5. t.cand = {h \in s.cand : mb[h].num > Len(s.chain) + Len(hs)}
    BY DEF Apply
  <1> HIDE DEF t
  <1>6. Grows(s, t)
    BY <1>1, <1>3, <1>4, <1>5 DEF Grows, HeldBy
  <1> QED BY <1>6 DEF t

(* Loading a view changes nothing that is stored. *)
LEMMA GrowsFromLoaded ==
    ASSUME NEW s, NEW t, LogOK, StreamOK(s), Grows(Loaded(s), t)
    PROVE  Grows(s, t)
  <1>1. Loaded(s).chain = s.chain /\ Loaded(s).pool = s.pool /\ Loaded(s).cand = s.cand
    BY LoadedOK
  <1> QED BY <1>1 DEF Grows, HeldBy

(* A replica that stays as it is has not lost anything. *)
LEMMA GrowsSame == ASSUME NEW s PROVE Grows(s, s)
  BY DEF Grows

(* An event added to the minipool. *)
LEMMA GrowsPool ==
    ASSUME NEW s, s \in Stream, NEW e
    PROVE  Grows(s, [s EXCEPT !.pool = @ \cup {e}])
  <1> DEFINE t == [s EXCEPT !.pool = @ \cup {e}]
  <1>1. t.chain = s.chain /\ t.pool = s.pool \cup {e} /\ t.cand = s.cand
    BY DEF Stream
  <1> QED BY <1>1 DEF Grows, HeldBy

(* New candidates, and changes of the scheduled promotions or the cache. *)
LEMMA GrowsOther ==
    ASSUME NEW s, NEW t, t.chain = s.chain, t.pool = s.pool, s.cand \subseteq t.cand
    PROVE  Grows(s, t)
  BY DEF Grows, HeldBy

(* applyMiniblockImplLocked loses no event. *)
LEMMA ApplyMiniblockGrows ==
    ASSUME NEW s, LogOK, StreamOK(s), NEW k \in 1 .. Len(log)
    PROVE  Grows(s, ApplyMiniblock(s, log[k]))
  <1>1. \/ ApplyMiniblock(s, log[k]) = s
        \/ ApplyMiniblock(s, log[k]) = Apply(s, <<log[k]>>)
    BY ApplyMiniblockOK
  <1>2. <<log[k]>> \in Seq(Hash) /\ Len(<<log[k]>>) >= 1
    BY DEF LogOK
  <1>3. Grows(s, Apply(s, <<log[k]>>))
    BY <1>2, ApplyGrows DEF StreamOK
  <1> QED BY <1>1, <1>3, GrowsSame

(* promoteCandidateLocked loses no event. *)
LEMMA PromoteCandidateGrows ==
    ASSUME NEW s, LogOK, StreamOK(s), NEW k \in 1 .. Len(log)
    PROVE  Grows(s, PromoteCandidate(s, log[k]).stream)
  <1> DEFINE h == log[k]
             t == PromoteCandidate(s, h).stream
  <1>1. \/ t = s \/ t = ApplyMiniblock(s, h)
        \/ t = [s EXCEPT !.pending = Append(@, h)]
    BY DEF PromoteCandidate, SchedulePromotion
  <1>2. CASE t = [s EXCEPT !.pending = Append(@, h)]
    <2>1. t.chain = s.chain /\ t.pool = s.pool /\ t.cand = s.cand
      BY <1>2 DEF StreamOK, Stream
    <2> QED BY <2>1, GrowsOther
  <1> HIDE DEF t
  <1> QED BY <1>1, <1>2, GrowsSame, ApplyMiniblockGrows DEF t

----------------------------------------------------------------------------
(* The step changes the replica of node n only, and lets it grow. *)
Replicates(n) ==
    /\ UNCHANGED <<mb, log>>
    /\ \E t : stream' = [stream EXCEPT ![n] = t] /\ Grows(stream[n], t)

(* Steps that load, drop or extend the view of a node. *)
LEMMA ViewStep ==
    ASSUME Inv, NEW n \in Node,
           \/ \E e \in Event : AddEvent(n, e) \/ AddMissingEvent(n, e)
           \/ GetView(n) \/ TryCleanup(n) \/ RequestProposals(n) \/ EndGather(n)
    PROVE  Replicates(n)
  <1> DEFINE s == stream[n]
             l == Loaded(s)
  <1>1. StreamOK(s) /\ StreamOK(l) /\ LogOK /\ stream \in [Node -> Stream]
    BY LoadedOK DEF Inv, StreamsOK
  <1>2. s \in Stream /\ l \in Stream
    BY <1>1 DEF StreamOK
  <1>3. Grows(s, s) /\ Grows(s, l)
    BY <1>1, GrowsSame, GrowsFromLoaded
  <1>4. \A e : Grows(s, [l EXCEPT !.pool = @ \cup {e}])
    BY <1>1, <1>2, GrowsPool, GrowsFromLoaded
  <1>5. Grows(s, [s EXCEPT !.first = NotLoaded])
    <2> DEFINE t == [s EXCEPT !.first = NotLoaded]
    <2>1. t.chain = s.chain /\ t.pool = s.pool /\ t.cand = s.cand
      BY <1>2 DEF Stream
    <2> QED BY <2>1, GrowsOther
  <1>6. stream = [stream EXCEPT ![n] = s]
    BY <1>1
  <1>7. /\ UNCHANGED <<mb, log>>
        /\ \/ stream' = [stream EXCEPT ![n] = s] \/ stream' = [stream EXCEPT ![n] = l]
           \/ \E e : stream' = [stream EXCEPT ![n] = [l EXCEPT !.pool = @ \cup {e}]]
           \/ stream' = [stream EXCEPT ![n] = [s EXCEPT !.first = NotLoaded]]
    BY <1>1, <1>6 DEF AddEvent, AddMissingEvent, GetView, TryCleanup, RequestProposals,
                      EndGather
  <1> HIDE DEF l, s
  <1>8. /\ UNCHANGED <<mb, log>>
        /\ \E t : stream' = [stream EXCEPT ![n] = t] /\ Grows(s, t)
    BY <1>3, <1>4, <1>5, <1>7
  <1> QED BY <1>8 DEF Replicates, s

(* A remote answers a request for a proposal. *)
LEMMA ProposeStep ==
    ASSUME Inv, NEW n \in Node, NEW m \in Node, ProposeMiniblock(n, m)
    PROVE  Replicates(m)
  <1>1. Grows(stream[m], Loaded(stream[m]))
    BY LoadedOK, GrowsSame, GrowsFromLoaded DEF Inv, StreamsOK
  <1>2. UNCHANGED <<mb, log>> /\ stream' = [stream EXCEPT ![m] = Loaded(stream[m])]
    BY DEF ProposeMiniblock
  <1> QED BY <1>1, <1>2 DEF Replicates

(* A candidate arrives. *)
LEMMA CandidateStep ==
    ASSUME Inv, NEW m \in Node, NEW h \in Hash,
           TryApplyCandidate(m, h) \/ WriteCandidate(m, h)
    PROVE  Replicates(m)
  <1> DEFINE s == stream[m]
             l == Loaded(s)
  <1>1. StreamOK(s) /\ StreamOK(l) /\ LogOK /\ s \in Stream /\ l \in Stream
    BY LoadedOK DEF Inv, StreamsOK, StreamOK
  <1>2. Grows(s, s) /\ Grows(s, l)
    BY <1>1, GrowsSame, GrowsFromLoaded
  <1>3. CASE TryApplyCandidate(m, h)
    <2>1. /\ UNCHANGED <<mb, log>>
          /\ \/ stream' = [stream EXCEPT ![m] = l]
             \/ /\ l.pending # <<>> /\ CanApply(l, <<l.pending[1]>>)
                /\ stream' = [stream EXCEPT ![m] = ApplyPending(l)]
      BY <1>3 DEF TryApplyCandidate
    <2>2. ASSUME l.pending # <<>>, CanApply(l, <<l.pending[1]>>)
          PROVE  Grows(s, ApplyPending(l))
      <3> HIDE DEF l
      <3>1. PICK hs \in Seq(Hash) : ApplyPending(l) = Apply(l, hs) /\ Len(hs) >= 1
        BY <1>1, <2>2, ApplyPendingOK
      <3>2. Grows(l, ApplyPending(l))
        BY <1>1, <3>1, ApplyGrows
      <3> QED BY <1>1, <3>2, GrowsFromLoaded DEF l
    <2> HIDE DEF l, s
    <2>3. \E t : stream' = [stream EXCEPT ![m] = t] /\ Grows(s, t)
      BY <1>2, <2>1, <2>2
    <2> QED BY <2>1, <2>3 DEF Replicates, s
  <1>4. CASE WriteCandidate(m, h)
    <2> DEFINE t == [s EXCEPT !.cand = IF mb[h].num > Len(stream[m].chain)
                                       THEN @ \cup {h} ELSE @]
    <2>1. UNCHANGED <<mb, log>> /\ stream' = [stream EXCEPT ![m] = t]
      BY <1>1, <1>4 DEF WriteCandidate
    <2>2. t.chain = s.chain /\ t.pool = s.pool /\ s.cand \subseteq t.cand
      BY <1>1 DEF Stream
    <2>3. Grows(s, t)
      BY <2>2, GrowsOther
    <2> QED BY <2>1, <2>3 DEF Replicates
  <1> QED BY <1>3, <1>4

(* A registered miniblock is applied or scheduled. *)
LEMMA PromotionStep ==
    ASSUME Inv, NEW n \in Node,
           \/ ApplyRegistered(n) \/ OnMiniblockRegistered(n)
           \/ \E k \in 1 .. Len(log) : PromoteConfirmed(n, k)
    PROVE  Replicates(n)
  <1> DEFINE s == stream[n]
             l == Loaded(s)
  <1>1. StreamOK(s) /\ StreamOK(l) /\ LogOK
    BY LoadedOK DEF Inv, StreamsOK
  <1>2. \A k \in 1 .. Len(log) : /\ Grows(s, ApplyMiniblock(l, log[k]))
                                 /\ Grows(s, PromoteCandidate(l, log[k]).stream)
    BY <1>1, ApplyMiniblockGrows, PromoteCandidateGrows, GrowsFromLoaded
  <1>3. CASE ApplyRegistered(n)
    <2>1. PICK i \in 1 .. Len(log) : log[i] = job[n].hash
      BY <1>3 DEF ApplyRegistered, Inv, JobsOK, JobOK
    <2>2. UNCHANGED <<mb, log>> /\ stream' = [stream EXCEPT ![n] = ApplyMiniblock(l, log[i])]
      BY <1>3, <2>1 DEF ApplyRegistered
    <2> QED BY <1>2, <2>2 DEF Replicates
  <1>4. CASE OnMiniblockRegistered(n)
    <2>1. seen[n] + 1 \in 1 .. Len(log)
      BY <1>4 DEF OnMiniblockRegistered, Inv, CallsOK, LogOK
    <2>2. /\ UNCHANGED <<mb, log>>
          /\ stream' = [stream EXCEPT ![n] = PromoteCandidate(l, log[seen[n] + 1]).stream]
      BY <1>4 DEF OnMiniblockRegistered
    <2> QED BY <1>2, <2>1, <2>2 DEF Replicates
  <1>5. ASSUME NEW k \in 1 .. Len(log), PromoteConfirmed(n, k) PROVE Replicates(n)
    <2>1. /\ UNCHANGED <<mb, log>>
          /\ stream' = [stream EXCEPT ![n] = PromoteCandidate(l, log[k]).stream]
      BY <1>5 DEF PromoteConfirmed
    <2> QED BY <1>2, <2>1 DEF Replicates
  <1> QED BY <1>3, <1>4, <1>5

(* A page of a peer is imported. *)
LEMMA PageStep ==
    ASSUME Inv, NEW n \in Node, NEW m \in Node, NEW k \in 1 .. Len(log),
           SyncStreamFromPeer(n, m, k)
    PROVE  Replicates(n)
  <1> DEFINE s == Loaded(stream[n])
             c == stream[m].chain
             page == SubSeq(c, Len(s.chain) + 1, k)
  <1>1. /\ UNCHANGED <<mb, log>> /\ stream' = [stream EXCEPT ![n] = Apply(s, page)]
        /\ k \in Len(s.chain) + 1 .. recon[n] /\ k <= Len(c)
    BY DEF SyncStreamFromPeer
  <1>2. StreamOK(s) /\ StreamOK(stream[n])
    BY LoadedOK DEF Inv, StreamsOK
  <1>3. /\ c \in Seq(Hash) /\ Len(c) <= Len(log) /\ Len(c) \in Nat
        /\ \A i \in 1 .. Len(c) : c[i] = log[i]
    BY DEF Inv, StreamsOK, StreamOK, Stream
  <1>4. Len(s.chain) \in Nat /\ recon[n] \in Nat /\ s \in Stream
    BY <1>2 DEF StreamOK, Stream, Inv, CallsOK
  <1> HIDE DEF s, c
  <1>5. k \in Len(s.chain) + 1 .. Len(c)
    BY <1>1, <1>3, <1>4
  <1>6. page \in Seq(Hash) /\ Len(page) >= 1
    BY <1>3, <1>4, <1>5, PageFollows DEF Inv
  <1> HIDE DEF page
  <1>7. Grows(s, Apply(s, page))
    BY <1>4, <1>6, ApplyGrows
  <1>8. Grows(stream[n], Apply(s, page))
    BY <1>2, <1>7, GrowsFromLoaded DEF s, Inv
  <1> QED BY <1>1, <1>8 DEF Replicates

(* A restart keeps what is in storage. *)
LEMMA RestartGrows ==
    ASSUME Inv, NEW n \in Node, Restart(n)
    PROVE  Replicates(n)
  <1> DEFINE t == AfterRestart(stream[n])
  <1>1. UNCHANGED <<mb, log>> /\ stream' = [stream EXCEPT ![n] = t]
    BY DEF Restart
  <1>2. t.chain = stream[n].chain /\ t.pool = stream[n].pool /\ t.cand = stream[n].cand
    BY DEF AfterRestart, Inv, StreamsOK, StreamOK, Stream
  <1> QED BY <1>1, <1>2, GrowsOther DEF Replicates

(* Every step lets one replica grow, leaves all of them and the log alone, *)
(* or registers a miniblock.                                               *)
LEMMA ReplicaStep ==
    ASSUME Inv, Next
    PROVE  \/ \E n \in Node : Replicates(n)
           \/ UNCHANGED <<mb, log, stream>>
           \/ \E n \in Node, h \in Hash : MakeCandidate(n, h)
           \/ \E h \in Hash : SetStreamLastMiniblock(h)
  <1>1. PICK n \in Node :
          \/ \E e \in Event :
                SubmitEvent(n, e) \/ AddEvent(n, e) \/ AddMissingEvent(n, e)
          \/ GetView(n) \/ TryCleanup(n)
          \/ TrySchedule(n) \/ RequestProposals(n)
          \/ \E m \in Node : ProposeMiniblock(n, m)
          \/ EndGather(n) \/ AbandonProposal(n)
          \/ \E h \in Hash :
                \/ MakeCandidate(n, h) \/ TryApplyCandidate(n, h)
                \/ WriteCandidate(n, h) \/ SetStreamLastMiniblock(h)
          \/ SaveFails(n) \/ SubmitProposal(n) \/ SubmitFails(n)
          \/ ApplyRegistered(n)
          \/ \E k \in 1 .. Len(log) : PromoteConfirmed(n, k)
          \/ OnMiniblockRegistered(n) \/ GetRecordTask(n)
          \/ \E m \in Node, k \in 1 .. Len(log) : SyncStreamFromPeer(n, m, k)
          \/ ReconciliationDone(n) \/ Restart(n)
    BY DEF Next
  <1>2. CASE \/ \E e \in Event : SubmitEvent(n, e)
             \/ TrySchedule(n) \/ AbandonProposal(n) \/ SaveFails(n)
             \/ SubmitProposal(n) \/ SubmitFails(n) \/ GetRecordTask(n)
             \/ ReconciliationDone(n)
    BY <1>2 DEF SubmitEvent, TrySchedule, AbandonProposal, SaveFails, SubmitProposal,
                SubmitFails, GetRecordTask, ReconciliationDone
  <1> QED BY <1>1, <1>2, ViewStep, ProposeStep, CandidateStep, PromotionStep, PageStep,
             RestartGrows

----------------------------------------------------------------------------
(* NothingDropped: no step of any node, for any number of nodes and        *)
(* restarts, makes a replica lose an event it acknowledged.                *)
THEOREM NothingDropped == Spec => EventsKept
  <1>1. ASSUME Inv, Next, NEW n \in Node
        PROVE  Held(n) \subseteq Held(n)'
    <2>1. stream \in [Node -> Stream] /\ stream[n].chain \in Seq(Hash)
      BY <1>1 DEF Inv, StreamsOK, Stream
    <2>2. ASSUME NEW m \in Node, Replicates(m) PROVE Held(n) \subseteq Held(n)'
      <3>1. PICK t : stream' = [stream EXCEPT ![m] = t] /\ Grows(stream[m], t)
        BY <2>2 DEF Replicates
      <3>2. mb' = mb
        BY <2>2 DEF Replicates
      <3>3. CASE n = m
        <4>1. stream'[n] = t
          BY <2>1, <3>1, <3>3
        <4>2. HeldBy(stream[n]) \subseteq HeldBy(t)
          BY <3>1, <3>3 DEF Grows
        <4> QED BY <3>2, <4>1, <4>2 DEF Held, HeldBy, EventsOf
      <3>4. CASE n # m
        <4>1. stream'[n] = stream[n]
          BY <2>1, <3>1, <3>4
        <4> QED BY <3>2, <4>1 DEF Held, EventsOf
      <3> QED BY <3>3, <3>4
    <2>3. ASSUME UNCHANGED <<mb, log, stream>> PROVE Held(n) \subseteq Held(n)'
      BY <2>3 DEF Held, EventsOf
    <2>4. ASSUME NEW m \in Node, NEW h \in Hash, MakeCandidate(m, h)
          PROVE  Held(n) \subseteq Held(n)'
      <3>1. stream' = stream /\ \A x \in DOMAIN mb : mb'[x] = mb[x]
        BY <2>4 DEF MakeCandidate
      <3>2. \A i \in 1 .. Len(stream[n].chain) : stream[n].chain[i] \in DOMAIN mb
        <4>1. /\ \A i \in 1 .. Len(stream[n].chain) : stream[n].chain[i] = log[i]
              /\ Len(stream[n].chain) <= Len(log) /\ Len(stream[n].chain) \in Nat
              /\ Len(log) \in Nat /\ \A i \in 1 .. Len(log) : log[i] \in DOMAIN mb
          BY <1>1, <2>1 DEF Inv, StreamsOK, StreamOK, LogOK
        <4> QED BY <4>1
      <3> QED BY <3>1, <3>2 DEF Held, EventsOf
    <2>5. ASSUME NEW h \in Hash, SetStreamLastMiniblock(h)
          PROVE  Held(n) \subseteq Held(n)'
      BY <2>5 DEF SetStreamLastMiniblock, Held, EventsOf
    <2> QED BY <1>1, <2>2, <2>3, <2>4, <2>5, ReplicaStep
  <1>2. IndInv /\ [Next]_vars => [\A n \in Node : Held(n) \subseteq Held(n)']_vars
    BY <1>1, IndInvParts DEF Inv
  <1> QED BY <1>2, Invariance, PTL DEF Spec, EventsKept

----------------------------------------------------------------------------
(* Refinement: the replicated stream implements one append-only log with   *)
(* growing prefixes at the replicas, for every value of the constants.     *)
THEOREM Refinement == Spec => ImplementsLog
  <1> DEFINE chains == [n \in Node |-> stream[n].chain]
  <1>1. Init => Abstract!Init
    BY DEF Init, Abstract!Init
  <1>2. ASSUME Inv, Inv', Next PROVE [Abstract!Next]_(Abstract!vars)
    <2>1. /\ stream \in [Node -> Stream] /\ stream' \in [Node -> Stream]
          /\ log \in Seq(Hash) /\ Len(log) \in Nat
      BY <1>2 DEF Inv, StreamsOK, LogOK
    <2>2. ASSUME UNCHANGED <<log, stream>> PROVE UNCHANGED Abstract!vars
      BY <2>2 DEF Abstract!vars
    <2>3. ASSUME NEW n \in Node, Replicates(n)
          PROVE  \/ UNCHANGED Abstract!vars
                 \/ \E k \in 1 .. Len(log) : Abstract!Advance(n, k)
      <3>1. PICK t : stream' = [stream EXCEPT ![n] = t] /\ Grows(stream[n], t)
        BY <2>3 DEF Replicates
      <3>2. log' = log
        BY <2>3 DEF Replicates
      <3>3. stream'[n] = t /\ chains' = [chains EXCEPT ![n] = t.chain]
        BY <2>1, <3>1
      <3>4. CASE t.chain = stream[n].chain
        <4>1. chains' = chains
          BY <3>3, <3>4
        <4> QED BY <3>2, <4>1 DEF Abstract!vars
      <3>5. CASE Len(t.chain) > Len(stream[n].chain)
        <4> DEFINE k == Len(t.chain)
                   c == t.chain
        <4>1. c \in Seq(Hash) /\ k <= Len(log) /\ \A i \in 1 .. k : c[i] = log[i]
          <5>1. StreamOK(stream[n])'
            BY <1>2 DEF Inv, StreamsOK
          <5> QED BY <3>2, <3>3, <5>1 DEF StreamOK, Stream
        <4>2. k \in Nat /\ Len(stream[n].chain) \in Nat
          BY <2>1, <4>1 DEF Stream
        <4>3. k \in 1 .. Len(log)
          BY <2>1, <3>5, <4>1, <4>2
        <4>4. c = SubSeq(log, 1, k)
          <5> HIDE DEF c
          <5> DEFINE p == SubSeq(log, 1, k)
          <5>1. /\ p \in Seq(Hash) /\ Len(p) = k
                /\ \A i \in 1 .. k : p[i] = log[i]
            BY <2>1, <4>3, PrefixProperties
          <5> HIDE DEF p
          <5>2. c = p
            BY <4>1, <5>1, SeqEqual DEF c
          <5> QED BY <5>2 DEF p
        <4>5. chains[n] = stream[n].chain
          OBVIOUS
        <4>6. chains' = [chains EXCEPT ![n] = SubSeq(log, 1, k)]
          BY <3>3, <4>4
        <4>7. Abstract!Advance(n, k)
          BY <3>2, <3>5, <4>5, <4>6 DEF Abstract!Advance
        <4> QED BY <4>3, <4>7
      <3> QED BY <3>1, <3>4, <3>5 DEF Grows
    <2>4. ASSUME NEW h \in Hash, SetStreamLastMiniblock(h)
          PROVE  UNCHANGED Abstract!vars \/ Abstract!Register(h)
      <3>1. /\ UNCHANGED stream /\ h \in DOMAIN mb
            /\ log' = IF Accepts(h) THEN Append(log, h) ELSE log
        BY <1>2, <2>4 DEF SetStreamLastMiniblock, Inv, CallsOK
      <3>2. CASE Accepts(h)
        <4>1. mb[h].num = Len(log) + 1
          BY <1>2, <3>1, <3>2, AcceptsNext DEF Inv
        <4>2. \A i \in 1 .. Len(log) : mb[log[i]].num = i
          BY <1>2 DEF Inv, LogOK, RegisteredLinked
        <4>3. \A i \in 1 .. Len(log) : log[i] # h
          BY <2>1, <4>1, <4>2
        <4> QED BY <3>1, <3>2, <4>3 DEF Abstract!Register
      <3>3. CASE ~ Accepts(h)
        BY <2>2, <3>1, <3>3
      <3> QED BY <3>2, <3>3
    <2>5. \/ \E n \in Node : Replicates(n)
          \/ UNCHANGED <<log, stream>>
          \/ \E h \in Hash : SetStreamLastMiniblock(h)
      BY <1>2, ReplicaStep DEF MakeCandidate
    <2> QED BY <2>2, <2>3, <2>4, <2>5 DEF Abstract!Next
  <1>3. UNCHANGED vars => UNCHANGED Abstract!vars
    BY DEF vars, Abstract!vars
  <1>4. IndInv <=> Inv
    BY IndInvParts DEF Inv
  <1>5. IndInv' <=> Inv'
    BY <1>4, PTL
  <1>6. IndInv /\ IndInv' /\ [Next]_vars => [Abstract!Next]_(Abstract!vars)
    BY <1>2, <1>3, <1>4, <1>5
  <1> QED BY <1>1, <1>6, Invariance, PTL DEF Spec, ImplementsLog, Abstract!Spec

----------------------------------------------------------------------------
(* What saveCandidate waited for stays stored: a candidate is only dropped *)
(* by a replica whose chain has reached its number.                        *)
Stores(m, h) == h \in stream[m].cand \/ ~ (mb[h].num > Len(stream[m].chain))

OnQuorum(h) == \E Q \in SUBSET Node : SavedOnQuorum(Q) /\ \A m \in Q : Stores(m, h)

SavedInv ==
    /\ \A n \in Node : job[n].pc = "save" => \A m \in job[n].acks : Stores(m, job[n].hash)
    /\ \A h \in txs : OnQuorum(h)
    /\ \A i \in 1 .. Len(log) : OnQuorum(log[i])

(* A replica does not lose a candidate it may still need. *)
LEMMA StoresStable ==
    ASSUME Inv, [Next]_vars, NEW h \in DOMAIN mb, NEW m \in Node, Stores(m, h)
    PROVE  Stores(m, h)'
  <1>1. stream \in [Node -> Stream] /\ mb[h].num \in Nat /\ Len(stream[m].chain) \in Nat
    BY DEF Inv, StreamsOK, StreamOK, Stream, LogOK, Header
  <1>2. ASSUME NEW n \in Node, Replicates(n) PROVE Stores(m, h)'
    <2>1. PICK t : stream' = [stream EXCEPT ![n] = t] /\ Grows(stream[n], t)
      BY <1>2 DEF Replicates
    <2>2. mb' = mb
      BY <1>2 DEF Replicates
    <2>3. CASE n = m
      <3>1. stream'[m] = t
        BY <1>1, <2>1, <2>3
      <3>2. CASE h \in stream[m].cand
        <4>1. h \in t.cand \/ ~ (mb[h].num > Len(t.chain))
          BY <2>1, <2>3, <3>2 DEF Grows
        <4> QED BY <2>2, <3>1, <4>1 DEF Stores
      <3>3. CASE ~ (mb[h].num > Len(stream[m].chain))
        <4>1. t.chain = stream[m].chain \/ Len(t.chain) > Len(stream[m].chain)
          BY <2>1, <2>3 DEF Grows
        <4>2. Len(t.chain) \in Nat
          <5>1. IndInv
            BY IndInvParts DEF Inv
          <5>2. IndInv'
            BY <5>1, NextIndInv
          <5>3. stream' \in [Node -> Stream]
            BY <5>2 DEF IndInv, TypeOK
          <5> QED BY <3>1, <5>3 DEF Stream
        <4>3. ~ (mb[h].num > Len(t.chain))
          BY <1>1, <3>3, <4>1, <4>2
        <4> QED BY <2>2, <3>1, <4>3 DEF Stores
      <3> QED BY <3>2, <3>3 DEF Stores
    <2>4. CASE n # m
      <3>1. stream'[m] = stream[m]
        BY <1>1, <2>1, <2>4
      <3> QED BY <2>2, <3>1 DEF Stores
    <2> QED BY <2>3, <2>4
  <1>3. ASSUME UNCHANGED <<mb, stream>> PROVE Stores(m, h)'
    BY <1>3 DEF Stores
  <1>4. ASSUME NEW n \in Node, NEW g \in Hash, MakeCandidate(n, g) PROVE Stores(m, h)'
    <2>1. stream' = stream /\ mb'[h] = mb[h]
      BY <1>4 DEF MakeCandidate
    <2> QED BY <2>1 DEF Stores
  <1>5. ASSUME NEW g \in Hash, SetStreamLastMiniblock(g) PROVE UNCHANGED <<mb, stream>>
    BY <1>5 DEF SetStreamLastMiniblock
  <1>6. UNCHANGED vars => UNCHANGED <<mb, stream>>
    BY DEF vars
  <1> QED BY <1>2, <1>3, <1>4, <1>5, <1>6, ReplicaStep

LEMMA QuorumStable ==
    ASSUME Inv, [Next]_vars, NEW h \in DOMAIN mb, OnQuorum(h)
    PROVE  OnQuorum(h)'
  <1>1. PICK Q \in SUBSET Node : SavedOnQuorum(Q) /\ \A m \in Q : Stores(m, h)
    BY DEF OnQuorum
  <1>2. \A m \in Q : Stores(m, h)'
    BY <1>1, StoresStable
  <1> QED BY <1>1, <1>2 DEF OnQuorum

(* The save of m is only counted when m has stored or applied h. *)
LEMMA CountedIsStored ==
    ASSUME Inv, NEW m \in Node, NEW h \in DOMAIN mb,
           TryApplyCandidate(m, h) \/ WriteCandidate(m, h)
    PROVE  job' = job \/ (job' = Acked(h, m) /\ Stores(m, h)')
  <1> DEFINE s == Loaded(stream[m])
  <1>1. /\ stream \in [Node -> Stream] /\ mb[h].num \in Nat /\ Len(s.chain) \in Nat
        /\ StreamOK(s) /\ s \in Stream /\ LogOK
    <2>1. LogOK /\ stream \in [Node -> Stream] /\ StreamOK(stream[m])
      BY DEF Inv, StreamsOK
    <2>2. StreamOK(s)
      BY <2>1, LoadedOK
    <2> HIDE DEF s
    <2>3. mb[h].num \in Nat
      BY <2>1 DEF LogOK, Header
    <2>4. s \in Stream /\ Len(s.chain) \in Nat
      BY <2>2 DEF StreamOK, Stream
    <2> QED BY <2>1, <2>2, <2>3, <2>4
  <1> HIDE DEF s
  <1>2. ASSUME NEW t, stream' = [stream EXCEPT ![m] = t], mb' = mb,
               h \in t.cand \/ ~ (mb[h].num > Len(t.chain))
        PROVE  Stores(m, h)'
    <2>1. stream'[m] = t
      BY <1>1, <1>2
    <2> QED BY <1>2, <2>1 DEF Stores
  <1>3. CASE TryApplyCandidate(m, h)
    <2>1. mb' = mb
      BY <1>3 DEF TryApplyCandidate
    <2>2. \/ job' = job
          \/ job' = Acked(h, m) /\ mb[h].num <= Len(s.chain) /\ stream' = [stream EXCEPT ![m] = s]
          \/ /\ job' = Acked(h, m) /\ s.pending # <<>> /\ s.pending[1] = h
             /\ CanApply(s, <<h>>) /\ stream' = [stream EXCEPT ![m] = ApplyPending(s)]
      BY <1>3 DEF TryApplyCandidate, s
    <2>3. ASSUME mb[h].num <= Len(s.chain), stream' = [stream EXCEPT ![m] = s]
          PROVE  Stores(m, h)'
      <3>1. ~ (mb[h].num > Len(s.chain))
        BY <1>1, <2>3
      <3> QED BY <1>2, <2>1, <2>3, <3>1
    <2>4. ASSUME s.pending # <<>>, s.pending[1] = h, CanApply(s, <<h>>),
                 stream' = [stream EXCEPT ![m] = ApplyPending(s)]
          PROVE  Stores(m, h)'
      <3> DEFINE t == ApplyPending(s)
      <3>1. PICK hs \in Seq(Hash) : t = Apply(s, hs) /\ Len(hs) >= 1
        BY <1>1, <2>4, ApplyPendingOK
      <3>2. t.chain = s.chain \o hs /\ s.chain \in Seq(Hash)
        BY <1>1, <3>1 DEF Apply, Stream
      <3>3. Len(t.chain) = Len(s.chain) + Len(hs) /\ Len(hs) \in Nat
        BY <3>2, ConcatProperties
      <3>4. mb[h].num = Len(s.chain) + 1
        <4> DEFINE q == <<h>>
        <4>1. 1 \in 1 .. Len(q) /\ q[1] = h
          OBVIOUS
        <4>2. CanApply(s, q)
          BY <2>4
        <4> HIDE DEF q
        <4> QED BY <4>1, <4>2 DEF CanApply
      <3>5. ~ (mb[h].num > Len(t.chain))
        BY <1>1, <3>1, <3>3, <3>4
      <3> HIDE DEF t
      <3> QED BY <1>2, <2>1, <2>4, <3>5 DEF t
    <2> QED BY <2>2, <2>3, <2>4
  <1>4. CASE WriteCandidate(m, h)
    <2> DEFINE fresh == mb[h].num > Len(stream[m].chain)
               t == [stream[m] EXCEPT !.cand = IF fresh THEN @ \cup {h} ELSE @]
    <2>1. /\ mb' = mb /\ stream' = [stream EXCEPT ![m] = t]
          /\ job' = IF fresh THEN Acked(h, m) ELSE job
      BY <1>1, <1>4 DEF WriteCandidate
    <2>2. fresh => h \in t.cand
      BY <1>1 DEF Stream
    <2> HIDE DEF t, fresh
    <2> QED BY <1>2, <2>1, <2>2
  <1> QED BY <1>3, <1>4

(* A job that is not saving afterwards. *)
Leaves(n) == \E j : job' = [job EXCEPT ![n] = j] /\ j.pc # "save"

LEMMA LeavesSteps ==
    ASSUME Inv, NEW n \in Node,
           \/ TrySchedule(n) \/ RequestProposals(n) \/ EndGather(n) \/ AbandonProposal(n)
           \/ \E m \in Node : ProposeMiniblock(n, m)
           \/ \E e \in Event : AddMissingEvent(n, e)
           \/ SaveFails(n) \/ SubmitProposal(n) \/ SubmitFails(n) \/ ApplyRegistered(n)
           \/ \E k \in 1 .. Len(log) : PromoteConfirmed(n, k)
           \/ Restart(n)
    PROVE  Leaves(n)
  <1>1. IdleJob.pc # "save"
    BY DEF IdleJob
  <1>2. job \in [Node -> Job] /\ job[n] \in Job
    BY DEF Inv, JobsOK
  <1>3. CASE JobDone(n)
    BY <1>1, <1>3 DEF JobDone, Leaves
  <1>4. CASE TrySchedule(n)
    <2> DEFINE j == [job[n] EXCEPT !.pc = "scheduled"]
    <2>1. job' = [job EXCEPT ![n] = j] /\ j.pc = "scheduled"
      BY <1>2, <1>4 DEF TrySchedule, Job
    <2> HIDE DEF j
    <2> QED BY <2>1 DEF Leaves
  <1>5. CASE RequestProposals(n)
    <2> DEFINE s == Loaded(stream[n])
               j == [IdleJob EXCEPT !.pc = "gather", !.num = Len(s.chain) + 1,
                                    !.prev = LastHash(s.chain), !.local = s.pool]
    <2>1. job' = [job EXCEPT ![n] = j]
      BY <1>5 DEF RequestProposals
    <2> HIDE DEF s
    <2>2. j.pc = "gather"
      BY DEF IdleJob
    <2> HIDE DEF j
    <2> QED BY <2>1, <2>2 DEF Leaves
  <1>6. CASE EndGather(n)
    <2> DEFINE s == Loaded(stream[n])
               g == [job[n] EXCEPT !.pc = "add", !.view = s.pool,
                                   !.todo = UNION {p.events \ job[n].local : p \in job[n].props}]
    <2>1. job' = [job EXCEPT ![n] = IdleJob] \/ job' = [job EXCEPT ![n] = g]
      BY <1>6 DEF EndGather
    <2> HIDE DEF s
    <2>2. g.pc = "add"
      BY <1>2 DEF Job
    <2> HIDE DEF g
    <2> QED BY <1>1, <2>1, <2>2 DEF Leaves
  <1>7. ASSUME NEW m \in Node, ProposeMiniblock(n, m) PROVE Leaves(n)
    <2>1. PICK a, b, c : job' = [job EXCEPT ![n].props = a, ![n].failed = b, ![n].tooOld = c]
      BY <1>7 DEF ProposeMiniblock
    <2> DEFINE j == [job[n] EXCEPT !.props = a, !.failed = b, !.tooOld = c]
    <2>2. job[n].pc = "gather"
      BY <1>7 DEF ProposeMiniblock
    <2>3. job' = [job EXCEPT ![n] = j] /\ j.pc = "gather"
      BY <1>2, <2>1, <2>2 DEF Job
    <2> HIDE DEF j
    <2> QED BY <2>3 DEF Leaves
  <1>8. ASSUME NEW e \in Event, AddMissingEvent(n, e) PROVE Leaves(n)
    <2>1. job[n].pc = "add"
      BY <1>8 DEF AddMissingEvent
    <2>2. \/ job' = [job EXCEPT ![n].todo = @ \ {e}]
          \/ job' = [job EXCEPT ![n] = [job[n] EXCEPT !.todo = @ \ {e}]]
          \/ \E v, b : job' = [job EXCEPT ![n] = [job[n] EXCEPT !.todo = @ \ {e}, !.view = v,
                                                                !.stale = b]]
      BY <1>8 DEF AddMissingEvent
    <2> DEFINE g == [job[n] EXCEPT !.todo = @ \ {e}]
               k(v, b) == [job[n] EXCEPT !.todo = @ \ {e}, !.view = v, !.stale = b]
    <2>3. g.pc = "add" /\ \A v, b : k(v, b).pc = "add"
      BY <1>2, <2>1 DEF Job
    <2>4. [job EXCEPT ![n].todo = @ \ {e}] = [job EXCEPT ![n] = g]
      BY <1>2
    <2>5. job' = [job EXCEPT ![n] = g] \/ \E v, b : job' = [job EXCEPT ![n] = k(v, b)]
      BY <2>2, <2>4
    <2> HIDE DEF g, k
    <2> QED BY <2>3, <2>5 DEF Leaves
  <1>9. CASE SubmitProposal(n)
    <2> DEFINE j == [job[n] EXCEPT !.pc = "submit", !.acks = {}]
    <2>1. job' = [job EXCEPT ![n] = j] /\ j.pc = "submit"
      BY <1>2, <1>9 DEF SubmitProposal, Job
    <2> HIDE DEF j
    <2> QED BY <2>1 DEF Leaves
  <1> QED BY <1>3, <1>4, <1>5, <1>6, <1>7, <1>8, <1>9
          DEF AbandonProposal, SaveFails, SubmitFails, ApplyRegistered, PromoteConfirmed, Restart

(* What a job that is saving has counted. *)
Counted(n) == \A m \in job[n].acks : Stores(m, job[n].hash)

LEMMA SavesStep ==
    ASSUME Inv, SavedInv, [Next]_vars, NEW n \in Node, job'[n].pc = "save"
    PROVE  Counted(n)'
  <1>1. job \in [Node -> Job] /\ \A m \in Node : JobOK(job[m])
    BY DEF Inv, JobsOK
  <1>2. ASSUME job'[n] = job[n] PROVE Counted(n)'
    <2>1. job[n].hash \in DOMAIN mb /\ job[n].acks \subseteq Node /\ Counted(n)
      BY <1>1, <1>2 DEF JobOK, Job, SavedInv, Counted
    <2>2. \A m \in job[n].acks : Stores(m, job[n].hash)'
      <3> TAKE m \in job[n].acks
      <3>1. Stores(m, job[n].hash) /\ m \in Node
        BY <2>1 DEF Counted
      <3> DEFINE h == job[n].hash
      <3>2. h' = h
        BY <1>2
      <3>3. PICK g \in DOMAIN mb : g = job[n].hash
        BY <2>1
      <3>4. Stores(m, g)'
        BY <3>1, <3>3, StoresStable
      <3> QED BY <3>2, <3>3, <3>4 DEF Stores
    <2> QED BY <1>2, <2>2 DEF Counted
  <1>3. ASSUME NEW m \in Node, Leaves(m) PROVE Counted(n)'
    <2>1. PICK j : job' = [job EXCEPT ![m] = j] /\ j.pc # "save"
      BY <1>3 DEF Leaves
    <2>2. m # n
      BY <1>1, <2>1
    <2>3. job'[n] = job[n]
      BY <1>1, <2>1, <2>2
    <2> QED BY <1>2, <2>3
  <1>4. ASSUME NEW m \in Node, NEW h \in Hash, MakeCandidate(m, h) PROVE Counted(n)'
    <2> DEFINE j == [IdleJob EXCEPT !.pc = "save", !.hash = h]
    <2>1. job' = [job EXCEPT ![m] = j]
      BY <1>4 DEF MakeCandidate
    <2>2. j.acks = {}
      BY DEF IdleJob
    <2> HIDE DEF j
    <2>3. CASE n = m
      <3>1. job'[n].acks = {}
        BY <1>1, <2>1, <2>2, <2>3
      <3> QED BY <3>1 DEF Counted
    <2>4. CASE n # m
      BY <1>1, <1>2, <2>1, <2>4
    <2> QED BY <2>3, <2>4
  <1>5. ASSUME NEW h \in Hash, SetStreamLastMiniblock(h) PROVE Counted(n)'
    <2>1. PICK pc \in {"ok", "bad"} :
              job'[n] = IF job[n].pc = "submit" /\ job[n].hash = h
                        THEN [job[n] EXCEPT !.pc = pc] ELSE job[n]
      BY <1>5 DEF SetStreamLastMiniblock
    <2>2. [job[n] EXCEPT !.pc = pc].pc = pc
      BY <1>1 DEF Job
    <2> QED BY <1>2, <2>1, <2>2
  <1>6. ASSUME NEW m \in Node, NEW h \in Hash, TryApplyCandidate(m, h) \/ WriteCandidate(m, h)
        PROVE  Counted(n)'
    <2>1. h \in DOMAIN mb
      BY <1>6 DEF TryApplyCandidate, WriteCandidate, Inv, CallsOK
    <2>2. CASE job' = job
      BY <1>2, <2>2
    <2>3. CASE job' = Acked(h, m) /\ Stores(m, h)'
      <3>1. CASE job[n].pc = "save" /\ job[n].hash = h
        <4>1. job'[n] = [job[n] EXCEPT !.acks = @ \cup {m}]
          BY <2>3, <3>1 DEF Acked
        <4>2. job'[n].acks = job[n].acks \cup {m} /\ job'[n].hash = h
          BY <1>1, <3>1, <4>1 DEF Job
        <4>3. ASSUME NEW k \in job[n].acks PROVE Stores(k, h)'
          <5>1. k \in Node /\ Stores(k, h)
            BY <1>1, <3>1, <4>3 DEF SavedInv, Job
          <5> QED BY <2>1, <5>1, StoresStable
        <4> QED BY <2>3, <4>2, <4>3 DEF Counted, Stores
      <3>2. CASE ~ (job[n].pc = "save" /\ job[n].hash = h)
        BY <1>2, <2>3, <3>2 DEF Acked
      <3> QED BY <3>1, <3>2
    <2> QED BY <1>6, <2>1, <2>2, <2>3, CountedIsStored
  <1>7. ASSUME UNCHANGED job PROVE Counted(n)'
    BY <1>2, <1>7
  <1>8. CASE UNCHANGED vars
    BY <1>7, <1>8 DEF vars
  <1>9. CASE Next
    <2>1. PICK m \in Node :
          \/ \E e \in Event :
                SubmitEvent(m, e) \/ AddEvent(m, e) \/ AddMissingEvent(m, e)
          \/ GetView(m) \/ TryCleanup(m)
          \/ TrySchedule(m) \/ RequestProposals(m)
          \/ \E k \in Node : ProposeMiniblock(m, k)
          \/ EndGather(m) \/ AbandonProposal(m)
          \/ \E h \in Hash :
                \/ MakeCandidate(m, h) \/ TryApplyCandidate(m, h)
                \/ WriteCandidate(m, h) \/ SetStreamLastMiniblock(h)
          \/ SaveFails(m) \/ SubmitProposal(m) \/ SubmitFails(m)
          \/ ApplyRegistered(m)
          \/ \E k \in 1 .. Len(log) : PromoteConfirmed(m, k)
          \/ OnMiniblockRegistered(m) \/ GetRecordTask(m)
          \/ \E q \in Node, k \in 1 .. Len(log) : SyncStreamFromPeer(m, q, k)
          \/ ReconciliationDone(m) \/ Restart(m)
      BY <1>9 DEF Next
    <2>2. CASE \/ \E e \in Event : SubmitEvent(m, e) \/ AddEvent(m, e)
               \/ GetView(m) \/ TryCleanup(m) \/ OnMiniblockRegistered(m) \/ GetRecordTask(m)
               \/ \E q \in Node, k \in 1 .. Len(log) : SyncStreamFromPeer(m, q, k)
               \/ ReconciliationDone(m)
      <3>1. UNCHANGED job
        BY <2>2 DEF SubmitEvent, AddEvent, GetView, TryCleanup, OnMiniblockRegistered,
                    GetRecordTask, SyncStreamFromPeer, ReconciliationDone
      <3> QED BY <1>7, <3>1
    <2> QED BY <1>3, <1>4, <1>5, <1>6, <2>1, <2>2, LeavesSteps
  <1> QED BY <1>8, <1>9

(* Transactions are only sent once a quorum has saved the candidate, and   *)
(* only they get into the log.                                             *)
LEMMA SubmittedStep ==
    ASSUME Inv, [Next]_vars
    PROVE  /\ \A h \in txs' : \/ h \in txs
                              \/ \E n \in Node : /\ job[n].pc = "save" /\ job[n].hash = h
                                                 /\ SavedOnQuorum(job[n].acks)
           /\ \A i \in 1 .. Len(log') : log'[i] \in txs \/ (i \in 1 .. Len(log) /\ log'[i] = log[i])
  <1>1. CASE \E n \in Node : SubmitProposal(n)
    BY <1>1 DEF SubmitProposal
  <1>2. ASSUME NEW h \in Hash, SetStreamLastMiniblock(h)
        PROVE  /\ txs' \subseteq txs
               /\ \A i \in 1 .. Len(log') :
                     log'[i] \in txs \/ (i \in 1 .. Len(log) /\ log'[i] = log[i])
    <2>1. h \in txs /\ txs' \subseteq txs /\ (log' = Append(log, h) \/ log' = log)
      BY <1>2 DEF SetStreamLastMiniblock
    <2>2. CASE log' = Append(log, h)
      <3>1. /\ Len(log') = Len(log) + 1 /\ Len(log) \in Nat
            /\ \A i \in 1 .. Len(log) : log'[i] = log[i]
            /\ log'[Len(log) + 1] = h
        <4>1. log \in Seq(Hash)
          BY DEF Inv, LogOK
        <4> QED BY <1>2, <2>2, <4>1, AppendProperties
      <3>2. \A i \in 1 .. Len(log) + 1 : i \in 1 .. Len(log) \/ i = Len(log) + 1
        BY <3>1
      <3> QED BY <2>1, <3>1, <3>2
    <2> QED BY <2>1, <2>2
  <1>3. ASSUME UNCHANGED <<log, txs>>
        PROVE  /\ txs' \subseteq txs
               /\ \A i \in 1 .. Len(log') : i \in 1 .. Len(log) /\ log'[i] = log[i]
    BY <1>3
  <1>4. ASSUME NEW n \in Node,
               \/ \E e \in Event : SubmitEvent(n, e) \/ AddEvent(n, e) \/ AddMissingEvent(n, e)
               \/ GetView(n) \/ TryCleanup(n) \/ TrySchedule(n) \/ RequestProposals(n)
               \/ \E m \in Node : ProposeMiniblock(n, m)
               \/ EndGather(n) \/ AbandonProposal(n)
        PROVE  UNCHANGED <<log, txs>>
    BY <1>4 DEF SubmitEvent, AddEvent, AddMissingEvent, GetView, TryCleanup, TrySchedule,
                RequestProposals, ProposeMiniblock, EndGather, AbandonProposal
  <1>5. ASSUME NEW n \in Node,
               \/ \E h \in Hash :
                     MakeCandidate(n, h) \/ TryApplyCandidate(n, h) \/ WriteCandidate(n, h)
               \/ SaveFails(n) \/ SubmitFails(n) \/ ApplyRegistered(n)
               \/ \E k \in 1 .. Len(log) : PromoteConfirmed(n, k)
               \/ OnMiniblockRegistered(n) \/ GetRecordTask(n)
               \/ \E m \in Node, k \in 1 .. Len(log) : SyncStreamFromPeer(n, m, k)
               \/ ReconciliationDone(n) \/ Restart(n)
        PROVE  UNCHANGED <<log, txs>>
    BY <1>5 DEF MakeCandidate, TryApplyCandidate, WriteCandidate, SaveFails, SubmitFails,
                ApplyRegistered, PromoteConfirmed, OnMiniblockRegistered, GetRecordTask,
                SyncStreamFromPeer, ReconciliationDone, Restart
  <1>6. UNCHANGED vars => UNCHANGED <<log, txs>>
    BY DEF vars
  <1> QED BY <1>1, <1>2, <1>3, <1>4, <1>5, <1>6 DEF Next

LEMMA SavedInvStep == ASSUME Inv, SavedInv, [Next]_vars PROVE SavedInv'
  <1>1. ASSUME NEW h \in DOMAIN mb, OnQuorum(h) PROVE OnQuorum(h)'
    BY <1>1, QuorumStable
  <1>2. txs \subseteq DOMAIN mb /\ \A i \in 1 .. Len(log) : log[i] \in DOMAIN mb
    BY DEF Inv, CallsOK, LogOK
  <1>3. \A h \in txs : OnQuorum(h)'
    BY <1>1, <1>2 DEF SavedInv
  <1>4. ASSUME NEW n \in Node, job[n].pc = "save", SavedOnQuorum(job[n].acks),
               NEW h, h = job[n].hash
        PROVE  OnQuorum(h)'
    <2>1. h \in DOMAIN mb /\ job[n].acks \in SUBSET Node
      BY <1>4 DEF Inv, JobsOK, JobOK, Job
    <2>2. \A m \in job[n].acks : Stores(m, h)
      BY <1>4 DEF SavedInv
    <2>3. OnQuorum(h)
      BY <1>4, <2>1, <2>2 DEF OnQuorum
    <2> QED BY <1>1, <2>1, <2>3
  <1>5. \A h \in txs' : OnQuorum(h)'
    BY <1>3, <1>4, SubmittedStep
  <1>6. ASSUME NEW i \in 1 .. Len(log') PROVE OnQuorum(log[i])'
    <2>1. PICK h \in DOMAIN mb : h = log'[i] /\ OnQuorum(h)
      BY <1>2, SubmittedStep DEF SavedInv
    <2>2. OnQuorum(h)'
      BY <1>1, <2>1
    <2> QED BY <2>1, <2>2 DEF OnQuorum, Stores
  <1>7. ASSUME NEW n \in Node, job'[n].pc = "save"
        PROVE  (\A m \in job[n].acks : Stores(m, job[n].hash))'
    BY <1>7, SavesStep DEF Counted
  <1> QED BY <1>5, <1>6, <1>7 DEF SavedInv

LEMMA SavedAvailable == ASSUME Inv, SavedInv PROVE CandidateAvailable
  <1> SUFFICES ASSUME NEW i \in 1 .. Len(log)
               PROVE  Cardinality({n \in Node : \/ log[i] \in stream[n].cand
                                                \/ i <= Len(stream[n].chain)})
                          >= TotalQuorumNum(N)
    BY DEF CandidateAvailable
  <1> DEFINE S == {n \in Node : log[i] \in stream[n].cand \/ i <= Len(stream[n].chain)}
  <1>1. PICK Q \in SUBSET Node : SavedOnQuorum(Q) /\ \A m \in Q : Stores(m, log[i])
    BY DEF SavedInv, OnQuorum
  <1>2. mb[log[i]].num = i /\ i \in Nat
    BY DEF Inv, LogOK, RegisteredLinked
  <1>3. \A n \in Node : Len(stream[n].chain) \in Nat
    BY DEF Inv, StreamsOK, Stream
  <1>4. Q \in SUBSET S
    <2> SUFFICES ASSUME NEW n \in Q PROVE n \in S
      OBVIOUS
    <2>1. Stores(n, log[i]) /\ n \in Node
      BY <1>1
    <2> QED BY <1>2, <1>3, <2>1 DEF Stores
  <1>5. IsFiniteSet(Node) /\ S \in SUBSET Node
    BY ConstantsAssumption
  <1> HIDE DEF S
  <1>6. IsFiniteSet(S)
    BY <1>5, FS_Subset
  <1>7. IsFiniteSet(Q) /\ Cardinality(Q) <= Cardinality(S)
    BY <1>4, <1>6, FS_Subset
  <1>8. Cardinality(Q) \in Nat /\ Cardinality(S) \in Nat /\ N \in Nat
    BY <1>5, <1>6, <1>7, FS_CardinalityType DEF N
  <1>9. TotalQuorumNum(N) \in Int
    BY <1>8 DEF TotalQuorumNum
  <1>10. Cardinality(Q) >= TotalQuorumNum(N)
    BY <1>1 DEF SavedOnQuorum
  <1>11. Cardinality(S) >= TotalQuorumNum(N)
    BY <1>7, <1>8, <1>9, <1>10
  <1> QED BY <1>11 DEF S

(* Available: whatever is lost, late or restarted, as many nodes as        *)
(* saveCandidate waited for store each miniblock the registry accepted.    *)
THEOREM Available == Spec => []CandidateAvailable
  <1>1. Init => SavedInv
    BY DEF Init, SavedInv, IdleJob
  <1>2. IndInv <=> Inv
    BY IndInvParts DEF Inv
  <1>3. IndInv /\ SavedInv /\ [Next]_vars => SavedInv'
    BY <1>2, SavedInvStep
  <1>4. IndInv /\ SavedInv => CandidateAvailable
    BY <1>2, SavedAvailable
  <1> QED BY <1>1, <1>3, <1>4, Invariance, PTL DEF Spec
============================================================================

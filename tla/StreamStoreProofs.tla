------------------------- MODULE StreamStoreProofs -------------------------
(* Proofs about StreamStore, for streams of any length, any place of the       *)
(* snapshots and any number of crashes and failed writes.                      *)
(*                                                                             *)
(* The argument: while a job runs, the record, the miniblocks and the snapshot *)
(* of the store belong to the header before the one that is being saved, so    *)
(* that they fit together when the job is over.  A job that is cut off leaves   *)
(* a record whose cookie is the next miniblock, or is noted in torn.           *)
EXTENDS StreamStore, WellFoundedInduction, TLAPS

\* A step that names no prover is tried with these, in this order.
USE ZenonT(3), SMTT(20), SMTT(21), ZenonT(20)

\* Every set of numbers has a least one; every set with a bound has a greatest one.
LEMMA LowestOf ==
    ASSUME NEW S, S \subseteq Nat, S # {}
    PROVE  Lowest(S) \in S /\ \A m \in S : Lowest(S) <= m
  <1>1. \E n \in S : \A m \in S : ~ (<<m, n>> \in OpToRel(<, Nat))
    BY NatLessThanWellFounded, WFMin
  <1>2. PICK n \in S : \A m \in S : ~ (<<m, n>> \in OpToRel(<, Nat))
    BY <1>1
  <1>3. ASSUME NEW m \in S PROVE n <= m
    <2>1. m \in Nat /\ n \in Nat
      OBVIOUS
    <2>2. m < n => <<m, n>> \in OpToRel(<, Nat)
      BY <2>1 DEF OpToRel
    <2>3. ~ (m < n)
      BY <1>2, <2>2
    <2> QED BY <2>1, <2>3
  <1> QED BY <1>3 DEF Lowest

LEMMA HighestOf ==
    ASSUME NEW b \in Nat, NEW S, S \subseteq 0..b, S # {}
    PROVE  Highest(S) \in S /\ \A m \in S : m <= Highest(S)
  <1> DEFINE T == {b - m : m \in S}
  <1>1. T \subseteq Nat /\ T # {}
    <2>1. \A m \in S : b - m \in Nat
      OBVIOUS
    <2>2. PICK m \in S : TRUE
      OBVIOUS
    <2>3. b - m \in T
      BY <2>2
    <2> QED BY <2>1, <2>3
  <1>2. Lowest(T) \in T /\ \A t \in T : Lowest(T) <= t
    <2> HIDE DEF T
    <2> QED BY <1>1, LowestOf
  <1>3. PICK n \in S : Lowest(T) = b - n
    BY <1>2
  <1>4. \A m \in S : b - n <= b - m
    BY <1>2, <1>3
  <1>5. \A m \in S : m <= n
    BY <1>4
  <1> QED BY <1>5 DEF Highest

LEMMA HighestOfRange ==
    ASSUME NEW lo \in Nat, NEW hi \in Nat, lo <= hi
    PROVE  Highest(lo..hi) = hi
  <1>1. lo..hi \subseteq 0..hi /\ lo..hi # {} /\ hi \in lo..hi
    OBVIOUS
  <1>2. Highest(lo..hi) \in lo..hi /\ \A m \in lo..hi : m <= Highest(lo..hi)
    BY <1>1, HighestOf
  <1> QED BY <1>1, <1>2

----------------------------------------------------------------------------
SnapOK == head \in Nat /\ snaps \subseteq 0..head /\ 0 \in snaps

\* What the snapshots before a miniblock are.
LEMMA Snapshots ==
    ASSUME SnapOK, NEW n \in Nat
    PROVE  /\ PrevSnapshot(n) \in snaps /\ PrevSnapshot(0) = 0
           /\ n > 0 => PrevSnapshot(n) < n /\ \A m \in snaps : m < n => m <= PrevSnapshot(n)
           /\ LastSnapshot(n) \in snaps /\ LastSnapshot(n) \in Nat /\ LastSnapshot(n) <= n
           /\ \A m \in snaps : m <= n => m <= LastSnapshot(n)
  <1> DEFINE S == {m \in snaps : m < n}
  <1>1. PrevSnapshot(0) = 0 /\ 0 \in snaps /\ snaps \subseteq Nat
    BY DEF PrevSnapshot, SnapOK
  <1>2. ASSUME n > 0
        PROVE  PrevSnapshot(n) \in snaps /\ PrevSnapshot(n) < n /\ \A m \in snaps : m < n => m <= PrevSnapshot(n)
    <2>1. S \subseteq 0..head /\ S # {} /\ head \in Nat
      BY <1>2 DEF SnapOK
    <2>2. Highest(S) \in S /\ \A m \in S : m <= Highest(S)
      <3> HIDE DEF S
      <3> QED BY <2>1, HighestOf
    <2>3. PrevSnapshot(n) = Highest(S)
      BY <1>2 DEF PrevSnapshot
    <2> QED BY <2>2, <2>3
  <1>3. PrevSnapshot(n) \in snaps
    BY <1>1, <1>2
  <1>4. CASE n \in snaps
    BY <1>1, <1>2, <1>3, <1>4 DEF LastSnapshot
  <1>5. CASE n \notin snaps
    <2>1. n > 0 /\ LastSnapshot(n) = PrevSnapshot(n)
      BY <1>1, <1>5 DEF LastSnapshot
    <2>2. \A m \in snaps : m <= n => m < n
      BY <1>1, <1>5
    <2>3. PrevSnapshot(n) < n /\ PrevSnapshot(n) \in Nat /\ PrevSnapshot(n) <= n
      <3>1. PrevSnapshot(n) < n
        BY <1>2, <2>1
      <3>2. PrevSnapshot(n) \in Nat
        BY <1>1, <1>3
      <3> HIDE DEF PrevSnapshot
      <3> QED BY <3>1, <3>2
    <2> QED BY <1>1, <1>2, <1>3, <2>1, <2>2, <2>3
  <1> QED BY <1>1, <1>2, <1>3, <1>4, <1>5

\* A header without a snapshot names that of the header before it.
LEMMA SameSnapshot ==
    ASSUME SnapOK, NEW n \in Nat, n \notin snaps
    PROVE  n > 0 /\ LastSnapshot(n) = LastSnapshot(n - 1)
  <1>1. n > 0 /\ n - 1 \in Nat
    BY DEF SnapOK
  <1>2. /\ LastSnapshot(n) \in snaps /\ LastSnapshot(n) \in Nat /\ LastSnapshot(n) <= n
        /\ \A m \in snaps : m <= n => m <= LastSnapshot(n)
    BY Snapshots
  <1>3. /\ LastSnapshot(n - 1) \in snaps /\ LastSnapshot(n - 1) \in Nat /\ LastSnapshot(n - 1) <= n - 1
        /\ \A m \in snaps : m <= n - 1 => m <= LastSnapshot(n - 1)
    BY <1>1, Snapshots
  <1> QED BY <1>1, <1>2, <1>3

\* New miniblocks change nothing for the earlier ones.
LEMMA SnapshotsKept ==
    ASSUME SnapOK, NEW snapshot \in BOOLEAN, NewBlock(snapshot)
    PROVE  /\ SnapOK' /\ snaps \subseteq snaps' /\ head <= head'
           /\ \A n \in 0..head : /\ n \in snaps' <=> n \in snaps
                                 /\ PrevSnapshot(n)' = PrevSnapshot(n) /\ LastSnapshot(n)' = LastSnapshot(n)
  <1>1. /\ head' = head + 1 /\ (snaps' = snaps \/ snaps' = snaps \cup {head + 1}) /\ head \in Nat
        /\ snaps \subseteq 0..head
    BY DEF NewBlock, SnapOK
  <1>2. SnapOK' /\ snaps \subseteq snaps' /\ head <= head'
    <2>1. head' \in Nat /\ head <= head' /\ 0..head \subseteq 0..head' /\ head + 1 \in 0..head'
      BY <1>1
    <2>2. 0 \in snaps /\ snaps \subseteq snaps'
      BY <1>1 DEF SnapOK
    <2>3. snaps' \subseteq 0..head'
      BY <1>1, <2>1
    <2> QED BY <2>1, <2>2, <2>3 DEF SnapOK
  <1>3. ASSUME NEW n \in 0..head
        PROVE  /\ n \in snaps' <=> n \in snaps
               /\ PrevSnapshot(n)' = PrevSnapshot(n) /\ LastSnapshot(n)' = LastSnapshot(n)
    <2>1. n \in snaps' <=> n \in snaps
      BY <1>1
    <2>2. {m \in snaps' : m < n} = {m \in snaps : m < n}
      BY <1>1
    <2>3. PrevSnapshot(n)' = PrevSnapshot(n)
      BY <2>2 DEF PrevSnapshot
    <2> QED BY <2>1, <2>3 DEF LastSnapshot
  <1> QED BY <1>2, <1>3

----------------------------------------------------------------------------
(* The invariant.                                                              *)

Views == [open : {TRUE}, blocks : SUBSET Nat, base : Nat, snapshot : Nat, cookie : Nat,
          min : Nat, prev : Nat, terminus : BOOLEAN]
Records == [saved : {TRUE}, snapshot : Nat, last : Nat, cookie : Nat]
Jobs == [op : {"append", "initialize"}, put : {"snapshot", "blocks", "record"}, n : Nat, to : Nat]
Scrolls == [at : {"cache"}, from : Nat, to : Nat]
               \cup [at : {"fetch"}, from : Nat, upto : Nat, to : Nat]
               \cup [at : {"apply"}, lo : Nat, to : Nat, terminus : BOOLEAN]

\* The first miniblock of a view is its minimum, or 0 where the minimum is 1.
Bottom ==
    /\ view.snapshot = view.base /\ view.base \in snaps
    /\ view.blocks \subseteq 0..head /\ view.blocks # {} /\ view.min <= head + 1
    /\ \A n \in view.blocks : n >= view.min \/ (n = 0 /\ view.min = 1)
    /\ 0 \in view.blocks => view.terminus /\ view.prev = 0
    /\ ~view.terminus => view.min > 0 /\ view.prev < view.min

Top ==
    ~torn => \E lo, hi \in 0..head :
                /\ lo <= hi /\ view.blocks = lo..hi /\ view.cookie = hi + 1
                /\ lo = view.min \/ (lo = 0 /\ view.min = 1)

ViewOK == view = Down \/ (view \in Views /\ Bottom /\ Top)

\* The store holds what the record r names.
Holds(r) == r.snapshot..r.last \subseteq mbs

\* A record is written before what it names, or after.
InitializeOK ==
    /\ job.n = LastSnapshot(job.to) /\ snp <= job.to
    /\ job.put # "record" => rec = Record(job.n, job.to, job.to + 1)
    /\ job.put = "snapshot" => job.n..job.to \subseteq mbs

AppendOK ==
    /\ job.put = "snapshot" => job.n \in snaps
    /\ ~torn /\ ~unsaved =>
          /\ rec \in Records /\ rec.last = job.n - 1 /\ Holds(rec)
          /\ snp = IF job.n \in snaps /\ job.put # "snapshot" THEN job.n ELSE rec.snapshot
          /\ job.put = "record" => job.n \in mbs

JobOK ==
    job = NoJob \/
        /\ job \in Jobs /\ view # Down /\ job.n <= job.to /\ job.to <= head
        /\ view.cookie = job.to + 1
        /\ job.op = "initialize" => InitializeOK
        /\ job.op = "append" => AppendOK

RecOK ==
    rec = None \/
        /\ rec \in Records /\ rec.snapshot = LastSnapshot(rec.last) /\ rec.last <= head
        /\ rec.cookie > rec.last

StoreOK ==
    /\ snp = -1 \/ snp \in snaps
    /\ RecOK
    /\ job = NoJob /\ ~torn =>
          /\ rec # None => rec.cookie = rec.last + 1
          /\ view # Down /\ ~unsaved =>
                rec # None /\ Holds(rec) /\ snp = rec.snapshot /\ rec.cookie = view.cookie

ScrollOK ==
    scroll = NoScroll \/
        /\ scroll \in Scrolls /\ view # Down
        /\ scroll.at = "cache" => scroll.from < scroll.to
        /\ scroll.at = "fetch" => scroll.from < scroll.upto /\ scroll.upto <= scroll.to
        /\ scroll.at = "apply" => scroll.lo < scroll.to /\ scroll.terminus = (scroll.lo = 0)

StoreInv == SnapOK /\ ViewOK /\ JobOK /\ StoreOK /\ ScrollOK /\ torn \in BOOLEAN /\ unsaved \in BOOLEAN

LEMMA Apart ==
    /\ \A v \in Views : v # Down /\ v.open
    /\ ~Down.open
    /\ \A q \in Records : q # None /\ q.saved
    /\ ~None.saved
    /\ \A j \in Jobs : j # NoJob /\ j.op # "none"
    /\ \A s \in Scrolls : s # NoScroll /\ s.at # "idle"
    /\ NoScroll.at = "idle"
  <1>1. (\A v \in Views : v # Down /\ v.open) /\ ~Down.open
    <2>1. Down.open = FALSE /\ \A v \in Views : v.open = TRUE
      BY DEF Views, Down
    <2> QED BY <2>1
  <1>2. (\A q \in Records : q # None /\ q.saved) /\ ~None.saved
    <2>1. None.saved = FALSE /\ \A q \in Records : q.saved = TRUE
      BY DEF Records, None
    <2> QED BY <2>1
  <1>3. \A j \in Jobs : j # NoJob /\ j.op # "none"
    BY DEF Jobs, NoJob, Job
  <1>4. (\A s \in Scrolls : s # NoScroll /\ s.at # "idle") /\ NoScroll.at = "idle"
    BY DEF Scrolls, NoScroll
  <1> QED BY <1>1, <1>2, <1>3, <1>4

\* A new view.
LEMMA NewView ==
    ASSUME SnapOK, NEW base \in snaps, NEW lo \in snaps, NEW hi \in 0..head, NEW cookie \in Nat,
           lo <= base, base <= hi, view' = View(base, lo, hi, cookie), UNCHANGED node,
           ~torn' => cookie = hi + 1
    PROVE  view' \in Views /\ Bottom' /\ Top' /\ view' # Down /\ view'.cookie = cookie
  <1>1. /\ base \in Nat /\ lo \in Nat /\ hi \in Nat /\ head \in Nat /\ hi <= head /\ lo <= hi
        /\ lo <= head /\ base <= head
    BY DEF SnapOK
  <1>2. /\ PrevSnapshot(lo) \in Nat /\ PrevSnapshot(0) = 0 /\ (lo > 0 => PrevSnapshot(lo) < lo)
    <2>1. /\ PrevSnapshot(lo) \in snaps /\ PrevSnapshot(0) = 0 /\ (lo > 0 => PrevSnapshot(lo) < lo)
      BY <1>1, Snapshots
    <2>2. snaps \subseteq Nat
      BY DEF SnapOK
    <2> QED BY <2>1, <2>2
  <1> DEFINE min == IF lo = 0 /\ base > 0 THEN 1 ELSE lo
             prev == PrevSnapshot(lo)
  <1>3. min \in Nat /\ (lo = min \/ (lo = 0 /\ min = 1)) /\ min <= head + 1
    BY <1>1
  <1>4. view' = [open |-> TRUE, blocks |-> lo..hi, base |-> base, snapshot |-> base, cookie |-> cookie,
                 min |-> min, prev |-> prev, terminus |-> lo = 0]
    BY DEF View
  <1> HIDE DEF min, prev
  <1>5. prev \in Nat /\ (lo = 0 => prev = 0) /\ (lo > 0 => prev < lo)
    BY <1>2 DEF prev
  <1>6. view' \in Views
    BY <1>1, <1>3, <1>4, <1>5 DEF Views
  <1>9. /\ view'.blocks = lo..hi /\ view'.base = base /\ view'.snapshot = base /\ view'.cookie = cookie
       /\ view'.min = min /\ view'.prev = prev /\ view'.terminus = (lo = 0)
       /\ head' = head /\ snaps' = snaps
    BY <1>4 DEF node
  <1>7. Bottom'
    <2>1. lo..hi \subseteq 0..head /\ lo..hi # {}
      BY <1>1
    <2>2. \A n \in lo..hi : n >= min \/ (n = 0 /\ min = 1)
      BY <1>1, <1>3
    <2>3. 0 \in lo..hi => lo = 0
      BY <1>1
    <2>4. lo # 0 => min > 0 /\ prev < min
      BY <1>1, <1>3, <1>5
    <2>5. 0 \in view'.blocks => view'.terminus /\ view'.prev = 0
      BY <1>5, <1>9, <2>3
    <2>6. ~view'.terminus => view'.min > 0 /\ view'.prev < view'.min
      BY <1>9, <2>4
    <2>7. /\ view'.snapshot = view'.base /\ view'.base \in snaps'
          /\ view'.blocks \subseteq 0..head' /\ view'.blocks # {} /\ view'.min <= head' + 1
      BY <1>3, <1>9, <2>1
    <2>8. \A n \in view'.blocks : n >= view'.min \/ (n = 0 /\ view'.min = 1)
      BY <1>9, <2>2
    <2> QED BY <2>5, <2>6, <2>7, <2>8 DEF Bottom
  <1>8. Top'
    <2>1. lo \in 0..head' /\ hi \in 0..head'
      BY <1>1, <1>9
    <2> QED BY <1>1, <1>3, <1>9, <2>1 DEF Top
  <1> QED BY <1>4, <1>6, <1>7, <1>8, Apart

----------------------------------------------------------------------------
(* Initialization.                                                             *)

LEMMA InitializeSteps ==
    ASSUME StoreInv, OpenFromNode \/ SyncReset PROVE StoreInv'
  <1>1. /\ Initialize /\ UNCHANGED <<head, snaps, rec, mbs, snp, scroll>> /\ unsaved' \in BOOLEAN
        /\ UNCHANGED node
    BY DEF OpenFromNode, SyncReset, store, node, StoreInv
  <1> DEFINE first == LastSnapshot(head)
  <1>2. SnapOK /\ ViewOK /\ StoreOK /\ ScrollOK
    BY DEF StoreInv
  <1>3. head \in Nat /\ first \in snaps /\ first \in Nat /\ first <= head /\ head \in 0..head
        /\ head + 1 \in Nat
    BY <1>2, Snapshots DEF SnapOK
  <1>4. /\ view' = View(first, first, head, head + 1) /\ torn' = FALSE
        /\ job' = Job("initialize", "record", first, head)
    BY <1>1 DEF Initialize, InitializeWrites
  <1>5. LastSnapshot(head)' = first
    BY <1>1 DEF LastSnapshot, PrevSnapshot
  <1> HIDE DEF first
  <1>6. view' \in Views /\ Bottom' /\ Top' /\ view' # Down /\ view'.cookie = head + 1
    BY <1>1, <1>2, <1>3, <1>4, NewView
  <1>7. SnapOK'
    BY <1>1, <1>2 DEF SnapOK
  <1>8. ViewOK'
    BY <1>6 DEF ViewOK
  <1>9. job' \in Jobs /\ job'.op = "initialize" /\ job'.put = "record" /\ job'.n = first /\ job'.to = head
    BY <1>3, <1>4 DEF Job, Jobs
  <1>10. JobOK'
    <2>1. snp <= head
      <3>1. snp = -1 \/ snp \in 0..head
        BY <1>2 DEF StoreOK, SnapOK
      <3> QED BY <1>3, <3>1
    <2>2. InitializeOK'
      BY <1>1, <1>5, <1>9, <2>1 DEF InitializeOK
    <2> QED BY <1>1, <1>3, <1>6, <1>9, <2>2 DEF JobOK
  <1>11. StoreOK'
    <2>1. RecOK'
      BY <1>1, <1>2 DEF StoreOK, RecOK, LastSnapshot, PrevSnapshot
    <2>2. job' # NoJob
      BY <1>9, Apart
    <2> QED BY <1>1, <1>2, <2>1, <2>2 DEF StoreOK
  <1>12. ScrollOK'
    BY <1>1, <1>2, <1>6 DEF ScrollOK
  <1> QED BY <1>1, <1>4, <1>7, <1>8, <1>10, <1>11, <1>12 DEF StoreInv

LEMMA OpenFromStoreStep ==
    ASSUME StoreInv, OpenFromStore PROVE StoreInv'
  <1>1. /\ ~view.open /\ Loadable /\ unsaved' = FALSE
        /\ UNCHANGED <<head, snaps, job, rec, mbs, snp, scroll, torn>> /\ UNCHANGED node
    BY DEF OpenFromStore, store, node
  <1>2. SnapOK /\ ViewOK /\ JobOK /\ StoreOK /\ ScrollOK
    BY DEF StoreInv
  <1>3. view = Down /\ job = NoJob /\ scroll = NoScroll
    BY <1>1, <1>2, Apart DEF ViewOK, JobOK, ScrollOK
  <1>4. /\ rec \in Records /\ rec.snapshot = LastSnapshot(rec.last) /\ rec.last <= head
        /\ rec.cookie > rec.last /\ rec # None
    BY <1>1, <1>2, Apart DEF StoreOK, RecOK, Loadable
  <1>5. /\ rec.snapshot \in snaps /\ rec.snapshot <= rec.last /\ rec.last \in 0..head /\ rec.cookie \in Nat
        /\ rec.last \in Nat
    BY <1>2, <1>4, Snapshots DEF Records, SnapOK
  <1>6. PICK lo \in CachedFrom(rec.snapshot) :
               view' = [View(rec.snapshot, lo, rec.last, rec.cookie) EXCEPT !.snapshot = snp]
    BY DEF OpenFromStore
  <1>7. lo \in snaps /\ lo <= rec.snapshot
    BY <1>6 DEF CachedFrom
  <1>8. view' = View(rec.snapshot, lo, rec.last, rec.cookie)
    BY <1>1, <1>6 DEF View, Loadable
  <1>9. ~torn' => rec.cookie = rec.last + 1
    BY <1>1, <1>2, <1>3, <1>4 DEF StoreOK
  <1>10. view' \in Views /\ Bottom' /\ Top' /\ view' # Down /\ view'.cookie = rec.cookie
    BY <1>1, <1>2, <1>5, <1>7, <1>8, <1>9, NewView
  <1>11. SnapOK'
    BY <1>1, <1>2 DEF SnapOK
  <1>12. ViewOK'
    BY <1>10 DEF ViewOK
  <1>13. JobOK' /\ ScrollOK'
    BY <1>1, <1>3 DEF JobOK, ScrollOK
  <1>14. StoreOK'
    <2>1. RecOK'
      BY <1>1, <1>2 DEF StoreOK, RecOK, LastSnapshot, PrevSnapshot
    <2>2. Holds(rec)' /\ snp = rec.snapshot
      BY <1>1 DEF Loadable, Holds
    <2> QED BY <1>1, <1>2, <1>4, <1>9, <1>10, <2>1, <2>2 DEF StoreOK
  <1> QED BY <1>1, <1>11, <1>12, <1>13, <1>14 DEF StoreInv

----------------------------------------------------------------------------
(* Writes.                                                                     *)

LEMMA WriteInitialize ==
    ASSUME StoreInv, Write, job.op = "initialize" PROVE JobOK' /\ StoreOK'
  <1>1. /\ UNCHANGED <<head, snaps, view, torn, unsaved>> /\ job # NoJob
        /\ job' = AfterInitializeWrite
        /\ rec' = IF job.put = "record" THEN Record(job.n, job.to, job.to + 1) ELSE rec
        /\ mbs' = IF job.put = "blocks" THEN mbs \cup job.n..job.to ELSE mbs
        /\ snp' = IF job.put = "snapshot" /\ snp < job.n THEN job.n ELSE snp
    BY DEF Write, node
  <1>2. /\ job \in Jobs /\ view # Down /\ job.n <= job.to /\ job.to <= head /\ view.cookie = job.to + 1
        /\ InitializeOK /\ SnapOK /\ StoreOK
    BY <1>1 DEF StoreInv, JobOK
  <1>3. /\ job.n \in Nat /\ job.to \in Nat /\ job.n = LastSnapshot(job.to) /\ job.n \in snaps
        /\ \A m \in snaps : m <= job.to => m <= job.n
    BY <1>2, Snapshots DEF InitializeOK, Jobs
  <1>4. \A k : LastSnapshot(k)' = LastSnapshot(k)
    BY <1>1 DEF LastSnapshot, PrevSnapshot
  <1>5. RecOK'
    <2> DEFINE q == Record(job.n, job.to, job.to + 1)
    <2>1. /\ q \in Records /\ q.snapshot = job.n /\ q.last = job.to /\ q.cookie = job.to + 1
          /\ q.cookie > q.last
      BY <1>3 DEF Record, Records
    <2>2. CASE rec' = q
      <3> HIDE DEF q
      <3>1. rec'.snapshot = LastSnapshot(job.to) /\ rec'.last = job.to
        BY <1>3, <2>1, <2>2
      <3>2. LastSnapshot(rec.last)' = LastSnapshot(job.to)
        BY <1>1, <3>1 DEF LastSnapshot, PrevSnapshot
      <3> QED BY <1>1, <1>2, <2>1, <2>2, <3>1, <3>2 DEF RecOK
    <2>3. CASE rec' = rec
      BY <1>1, <1>2, <2>3 DEF StoreOK, RecOK, LastSnapshot, PrevSnapshot
    <2> QED BY <1>1, <2>2, <2>3
  <1>6. CASE job.put = "record"
    <2>1. job' = [job EXCEPT !.put = "blocks"] /\ rec' = Record(job.n, job.to, job.to + 1)
          /\ mbs' = mbs /\ snp' = snp
      BY <1>1, <1>6 DEF AfterInitializeWrite
    <2>2. job' \in Jobs /\ job'.op = "initialize" /\ job'.put = "blocks" /\ job'.n = job.n /\ job'.to = job.to
      BY <1>2, <2>1 DEF Jobs
    <2>3. InitializeOK'
      <3>1. LastSnapshot(job.to)' = LastSnapshot(job.to)
        BY <1>1, <2>2 DEF LastSnapshot, PrevSnapshot
      <3> QED BY <1>2, <2>1, <2>2, <3>1 DEF InitializeOK, Record
    <2>4. JobOK'
      BY <1>1, <1>2, <2>2, <2>3 DEF JobOK
    <2>5. job' # NoJob
      BY <2>2, Apart
    <2> QED BY <1>1, <1>2, <1>5, <2>1, <2>4, <2>5 DEF StoreOK
  <1>7. CASE job.put = "blocks"
    <2>1. job' = [job EXCEPT !.put = "snapshot"] /\ rec' = rec
          /\ mbs' = mbs \cup job.n..job.to /\ snp' = snp
      BY <1>1, <1>7 DEF AfterInitializeWrite
    <2>2. job' \in Jobs /\ job'.op = "initialize" /\ job'.put = "snapshot" /\ job'.n = job.n /\ job'.to = job.to
      BY <1>2, <2>1 DEF Jobs
    <2>3. InitializeOK'
      <3>1. LastSnapshot(job.to)' = LastSnapshot(job.to)
        BY <1>1, <2>2 DEF LastSnapshot, PrevSnapshot
      <3> QED BY <1>2, <1>7, <2>1, <2>2, <3>1 DEF InitializeOK, Record
    <2>4. JobOK'
      BY <1>1, <1>2, <2>2, <2>3 DEF JobOK
    <2>5. job' # NoJob
      BY <2>2, Apart
    <2> QED BY <1>1, <1>2, <1>5, <2>1, <2>4, <2>5 DEF StoreOK
  <1>8. CASE job.put = "snapshot"
    <2>1. job' = NoJob /\ rec' = rec /\ mbs' = mbs /\ snp' = IF snp < job.n THEN job.n ELSE snp
      BY <1>1, <1>8 DEF AfterInitializeWrite
    <2>2. rec = Record(job.n, job.to, job.to + 1) /\ job.n..job.to \subseteq mbs
      BY <1>2, <1>8 DEF InitializeOK
    <2>3. /\ rec \in Records /\ rec.snapshot = job.n /\ rec.last = job.to /\ rec.cookie = job.to + 1
      BY <1>3, <2>2 DEF Record, Records
    <2>4. snp' = job.n
      <3>1. snp = -1 \/ (snp \in snaps /\ snp <= job.to)
        BY <1>2 DEF StoreOK, InitializeOK
      <3>2. snp = -1 \/ (snp \in Nat /\ snp <= job.n)
        <4>1. snaps \subseteq Nat
          BY <1>2 DEF SnapOK
        <4> QED BY <1>3, <3>1, <4>1
      <3> QED BY <1>3, <2>1, <3>2
    <2>5. Holds(rec)'
      BY <2>1, <2>2, <2>3 DEF Holds
    <2>6. StoreOK'
      BY <1>1, <1>2, <1>3, <1>5, <2>1, <2>3, <2>4, <2>5, Apart DEF StoreOK
    <2> QED BY <2>1, <2>6 DEF JobOK
  <1>9. job.put \in {"snapshot", "blocks", "record"}
    BY <1>2 DEF Jobs
  <1> QED BY <1>6, <1>7, <1>8, <1>9

LEMMA WriteAppend ==
    ASSUME StoreInv, Write, job.op = "append" PROVE JobOK' /\ StoreOK'
  <1>1. /\ UNCHANGED <<head, snaps, view, torn, unsaved>> /\ job # NoJob
        /\ job' = AfterHeaderWrite
        /\ rec' = IF job.put = "record" THEN Record(LastSnapshot(job.n), job.n, job.to + 1) ELSE rec
        /\ mbs' = IF job.put = "blocks" THEN mbs \cup job.n..job.n ELSE mbs
        /\ snp' = IF job.put = "snapshot" /\ snp < job.n THEN job.n ELSE snp
    BY DEF Write, node
  <1>2. /\ job \in Jobs /\ view # Down /\ job.n <= job.to /\ job.to <= head /\ view.cookie = job.to + 1
        /\ AppendOK /\ SnapOK /\ StoreOK
    BY <1>1 DEF StoreInv, JobOK
  <1>3. /\ job.n \in Nat /\ job.to \in Nat /\ head \in Nat
        /\ LastSnapshot(job.n) \in snaps /\ LastSnapshot(job.n) \in Nat /\ LastSnapshot(job.n) <= job.n
    BY <1>2, Snapshots DEF Jobs, SnapOK
  <1>4. CASE job.put = "snapshot"
    <2>1. job' = [job EXCEPT !.put = "blocks"] /\ rec' = rec
          /\ mbs' = mbs /\ snp' = IF snp < job.n THEN job.n ELSE snp
      BY <1>1, <1>4 DEF AfterHeaderWrite
    <2>2. job' \in Jobs /\ job'.op = "append" /\ job'.put = "blocks" /\ job'.n = job.n /\ job'.to = job.to
      BY <1>2, <2>1 DEF Jobs
    <2>3. job.n \in snaps
      BY <1>2, <1>4 DEF AppendOK
    <2>4. ASSUME ~torn, ~unsaved
          PROVE  /\ rec \in Records /\ rec.last = job.n - 1 /\ Holds(rec) /\ snp' = job.n
      <3>1. rec \in Records /\ rec.last = job.n - 1 /\ Holds(rec) /\ snp = rec.snapshot
        BY <1>2, <1>4, <2>4 DEF AppendOK
      <3>2. rec.snapshot = LastSnapshot(rec.last) /\ rec.last \in Nat
        BY <1>2, <3>1, Apart DEF StoreOK, RecOK, Records
      <3>3. snp \in Nat /\ snp <= rec.last
        BY <1>2, <3>1, <3>2, Snapshots
      <3> QED BY <1>3, <2>1, <3>1, <3>3
    <2>5. AppendOK'
      BY <1>1, <2>1, <2>2, <2>3, <2>4 DEF AppendOK, Holds
    <2>6. JobOK'
      BY <1>1, <1>2, <2>2, <2>5 DEF JobOK
    <2>7. RecOK' /\ job' # NoJob
      BY <1>1, <1>2, <2>1, <2>2, Apart DEF StoreOK, RecOK, LastSnapshot, PrevSnapshot
    <2> QED BY <1>1, <1>2, <2>1, <2>3, <2>6, <2>7 DEF StoreOK
  <1>5. CASE job.put = "blocks"
    <2>1. job' = [job EXCEPT !.put = "record"] /\ rec' = rec
          /\ mbs' = mbs \cup job.n..job.n /\ snp' = snp
      BY <1>1, <1>5 DEF AfterHeaderWrite
    <2>2. job' \in Jobs /\ job'.op = "append" /\ job'.put = "record" /\ job'.n = job.n /\ job'.to = job.to
      BY <1>2, <2>1 DEF Jobs
    <2>3. job.n \in mbs'
      BY <1>3, <2>1
    <2>4. AppendOK'
      BY <1>1, <1>2, <1>5, <2>1, <2>2, <2>3 DEF AppendOK, Holds
    <2>5. JobOK'
      BY <1>1, <1>2, <2>2, <2>4 DEF JobOK
    <2>6. RecOK' /\ job' # NoJob
      BY <1>1, <1>2, <2>1, <2>2, Apart DEF StoreOK, RecOK, LastSnapshot, PrevSnapshot
    <2> QED BY <1>1, <1>2, <2>1, <2>5, <2>6 DEF StoreOK
  <1>6. CASE job.put = "record"
    <2> DEFINE q == Record(LastSnapshot(job.n), job.n, job.to + 1)
    <2>1. job' = AppendFrom(job.n + 1, job.to) /\ rec' = q /\ mbs' = mbs /\ snp' = snp
      BY <1>1, <1>6 DEF AfterHeaderWrite
    <2>2. /\ q \in Records /\ q.snapshot = LastSnapshot(job.n) /\ q.last = job.n /\ q.cookie = job.to + 1
          /\ q.cookie > q.last /\ q # None
      <3>1. job.to + 1 \in Nat /\ job.to + 1 > job.n
        BY <1>2, <1>3
      <3> QED BY <1>3, <3>1, Apart DEF Record, Records
    <2> HIDE DEF q
    <2>3. RecOK'
      <3>1. LastSnapshot(rec.last)' = LastSnapshot(job.n)
        BY <1>1, <2>1, <2>2 DEF LastSnapshot, PrevSnapshot
      <3>2. job.n <= head'
        BY <1>1, <1>2, <1>3
      <3> QED BY <2>1, <2>2, <3>1, <3>2 DEF RecOK
    <2>4. ASSUME ~torn, ~unsaved PROVE Holds(rec)' /\ snp = LastSnapshot(job.n)
      <3>1. /\ rec \in Records /\ rec.last = job.n - 1 /\ Holds(rec) /\ job.n \in mbs
            /\ snp = IF job.n \in snaps THEN job.n ELSE rec.snapshot
        BY <1>2, <1>6, <2>4 DEF AppendOK
      <3>2. CASE job.n \in snaps
        <4>1. LastSnapshot(job.n) = job.n
          BY <3>2 DEF LastSnapshot
        <4>2. job.n..job.n \subseteq mbs
          BY <1>3, <3>1
        <4> QED BY <2>1, <2>2, <3>1, <3>2, <4>1, <4>2 DEF Holds
      <3>3. CASE job.n \notin snaps
        <4>1. LastSnapshot(job.n) = LastSnapshot(job.n - 1) /\ job.n > 0
          BY <1>2, <1>3, <3>3, SameSnapshot
        <4>2. rec.snapshot = LastSnapshot(job.n - 1)
          BY <1>2, <3>1, Apart DEF StoreOK, RecOK
        <4>3. LastSnapshot(job.n)..(job.n - 1) \subseteq mbs
          BY <3>1, <4>1, <4>2 DEF Holds
        <4>4. LastSnapshot(job.n)..job.n \subseteq mbs
          <5>1. \A k \in LastSnapshot(job.n)..job.n : k \in LastSnapshot(job.n)..(job.n - 1) \/ k = job.n
            BY <1>3
          <5> QED BY <3>1, <4>3, <5>1
        <4> QED BY <2>1, <2>2, <3>1, <3>3, <4>1, <4>2, <4>4 DEF Holds
      <3> QED BY <3>2, <3>3
    <2>5. CASE job.n + 1 > job.to
      <3>1. job' = NoJob /\ job.n = job.to
        BY <1>2, <1>3, <2>1, <2>5 DEF AppendFrom
      <3>2. StoreOK'
        BY <1>1, <1>2, <2>1, <2>2, <2>3, <2>4, <3>1 DEF StoreOK
      <3> QED BY <3>1, <3>2 DEF JobOK
    <2>6. CASE ~(job.n + 1 > job.to)
      <3> DEFINE n == job.n + 1
                 put == IF n \in snaps THEN "snapshot" ELSE "blocks"
      <3>1. job' = Job("append", put, n, job.to) /\ n \in Nat /\ n <= job.to /\ n - 1 = job.n
        BY <1>2, <1>3, <2>1, <2>6 DEF AppendFrom
      <3>2. put \in {"snapshot", "blocks"} /\ (put = "snapshot" <=> n \in snaps)
        OBVIOUS
      <3> HIDE DEF n, put
      <3>3. /\ job' \in Jobs /\ job'.op = "append" /\ job'.put = put /\ job'.n = n /\ job'.to = job.to
        BY <1>3, <3>1, <3>2 DEF Job, Jobs
      <3>4. AppendOK'
        BY <1>1, <2>1, <2>2, <2>4, <3>1, <3>2, <3>3 DEF AppendOK
      <3>5. JobOK'
        BY <1>1, <1>2, <3>1, <3>3, <3>4 DEF JobOK
      <3>6. job' # NoJob
        BY <3>3, Apart
      <3> QED BY <1>1, <1>2, <2>1, <2>3, <3>5, <3>6 DEF StoreOK
    <2> QED BY <2>5, <2>6
  <1>7. job.put \in {"snapshot", "blocks", "record"}
    BY <1>2 DEF Jobs
  <1> QED BY <1>4, <1>5, <1>6, <1>7

LEMMA WriteStep == ASSUME StoreInv, Write PROVE StoreInv'
  <1>1. /\ UNCHANGED <<head, snaps, view, scroll, torn, unsaved>> /\ job # NoJob
    BY DEF Write, node
  <1>2. job.op \in {"append", "initialize"}
    BY <1>1 DEF StoreInv, JobOK, Jobs
  <1>3. JobOK' /\ StoreOK'
    BY <1>2, WriteInitialize, WriteAppend
  <1>4. SnapOK' /\ ViewOK' /\ ScrollOK'
    BY <1>1 DEF StoreInv, SnapOK, ViewOK, Bottom, Top, ScrollOK
  <1> QED BY <1>1, <1>3, <1>4 DEF StoreInv

\* The writes of an update end early.
LEMMA CutOff ==
    ASSUME StoreInv, UNCHANGED <<head, snaps, rec, mbs, snp>>, job' = NoJob,
           torn' = (torn \/ Ahead), unsaved' = TRUE \/ view' = Down
    PROVE  SnapOK' /\ JobOK' /\ StoreOK' /\ torn' \in BOOLEAN
  <1>1. SnapOK /\ StoreOK
    BY DEF StoreInv
  <1>2. SnapOK'
    BY <1>1 DEF SnapOK
  <1>3. JobOK'
    BY DEF JobOK
  <1>4. RecOK'
    BY <1>1 DEF StoreOK, RecOK, LastSnapshot, PrevSnapshot
  <1>5. ASSUME ~torn', rec # None PROVE rec.cookie = rec.last + 1
    <2>1. rec \in Records /\ rec.cookie > rec.last /\ rec.saved
      BY <1>1, <1>5, Apart DEF StoreOK, RecOK
    <2>2. ~(rec.cookie > rec.last + 1)
      BY <1>5, <2>1 DEF Ahead
    <2>3. rec.cookie \in Nat /\ rec.last \in Nat
      BY <2>1 DEF Records
    <2> QED BY <2>1, <2>2, <2>3
  <1>6. StoreOK'
    BY <1>1, <1>4, <1>5 DEF StoreOK
  <1> QED BY <1>2, <1>3, <1>6

LEMMA WriteFailsStep == ASSUME StoreInv, WriteFails PROVE StoreInv'
  <1>1. /\ UNCHANGED <<head, snaps, rec, mbs, snp, view, scroll>> /\ job' = NoJob
        /\ torn' = (torn \/ Ahead) /\ unsaved' = TRUE
    BY DEF WriteFails, node, store
  <1>2. SnapOK' /\ JobOK' /\ StoreOK' /\ torn' \in BOOLEAN
    BY <1>1, CutOff
  <1>3. ViewOK'
    BY <1>1 DEF StoreInv, ViewOK, Bottom, Top
  <1>4. ScrollOK'
    BY <1>1 DEF StoreInv, ScrollOK
  <1> QED BY <1>1, <1>2, <1>3, <1>4 DEF StoreInv

LEMMA CrashStep == ASSUME StoreInv, Crash PROVE StoreInv'
  <1>1. /\ UNCHANGED <<head, snaps, rec, mbs, snp, unsaved>> /\ job' = NoJob /\ view' = Down
        /\ torn' = (torn \/ Ahead) /\ scroll' = NoScroll
    BY DEF Crash, node, store
  <1>2. SnapOK' /\ JobOK' /\ StoreOK' /\ torn' \in BOOLEAN
    BY <1>1, CutOff
  <1>3. ViewOK' /\ ScrollOK'
    BY <1>1 DEF ViewOK, ScrollOK
  <1> QED BY <1>1, <1>2, <1>3 DEF StoreInv

----------------------------------------------------------------------------
(* Updates.                                                                    *)

LEMMA SyncUpdateStep ==
    ASSUME StoreInv, NEW h \in 0..MaxBlock, SyncUpdate(h) PROVE StoreInv'
  <1> DEFINE c == view.cookie
             new == {n \in c..h : n > Hi}
             put == IF c \in snaps THEN "snapshot" ELSE "blocks"
  <1>1. /\ UNCHANGED <<head, snaps, rec, mbs, snp, scroll, torn, unsaved>> /\ job = NoJob
        /\ view.open /\ c <= h /\ h <= head
        /\ view' = [view EXCEPT !.blocks = view.blocks \cup new, !.cookie = h + 1]
        /\ job' = AppendFrom(c, h)
    BY DEF SyncUpdate, node, store
  <1>2. SnapOK /\ ViewOK /\ StoreOK /\ ScrollOK
    BY DEF StoreInv
  <1>3. view \in Views /\ Bottom /\ Top /\ view # Down
    BY <1>1, <1>2, Apart DEF ViewOK
  <1>4. h \in Nat /\ head \in Nat /\ c \in Nat /\ h + 1 \in Nat
    BY <1>2, <1>3, StoreAssumption DEF SnapOK, Views
  <1>5. Hi \in view.blocks /\ (\A m \in view.blocks : m <= Hi) /\ Hi \in Nat
    <2>1. view.blocks \subseteq 0..head /\ view.blocks # {}
      BY <1>3 DEF Bottom
    <2>2. Hi \in view.blocks /\ (\A m \in view.blocks : m <= Hi)
      BY <1>4, <2>1, HighestOf DEF Hi
    <2> QED BY <2>1, <2>2
  <1>6. \A n \in new : n \in c..h /\ n > Hi /\ n \in 0..head
    BY <1>1, <1>4
  <1>7. ~torn => \E lo \in 0..head : /\ lo <= h /\ view.blocks \cup new = lo..h
                                     /\ lo = view.min \/ (lo = 0 /\ view.min = 1)
    <2> SUFFICES ASSUME ~torn
                 PROVE  \E lo \in 0..head : /\ lo <= h /\ view.blocks \cup new = lo..h
                                            /\ lo = view.min \/ (lo = 0 /\ view.min = 1)
      OBVIOUS
    <2>1. PICK lo, hi \in 0..head :
                /\ lo <= hi /\ view.blocks = lo..hi /\ view.cookie = hi + 1
                /\ lo = view.min \/ (lo = 0 /\ view.min = 1)
      BY <1>3 DEF Top
    <2>2. lo \in Nat /\ hi \in Nat
      BY <1>4
    <2>3. Hi = hi
      BY <2>1, <2>2, HighestOfRange DEF Hi
    <2>4. new = (hi + 1)..h
      BY <1>4, <2>1, <2>2, <2>3
    <2>5. lo <= h /\ (lo..hi) \cup ((hi + 1)..h) = lo..h
      BY <1>1, <1>4, <2>1, <2>2
    <2> HIDE DEF new
    <2> QED BY <2>1, <2>4, <2>5
  <1> HIDE DEF new
  <1>8. /\ view' \in Views /\ view'.blocks = view.blocks \cup new /\ view'.cookie = h + 1
        /\ view'.base = view.base /\ view'.snapshot = view.snapshot /\ view'.min = view.min
        /\ view'.prev = view.prev /\ view'.terminus = view.terminus
    <2>1. view.blocks \cup new \in SUBSET Nat
      BY <1>3, <1>6 DEF Views
    <2> QED BY <1>1, <1>3, <1>4, <2>1 DEF Views
  <1>9. Bottom'
    <2>1. view'.blocks \subseteq 0..head /\ view'.blocks # {}
      BY <1>3, <1>6, <1>8 DEF Bottom
    <2>2. ASSUME NEW n \in new PROVE n >= view.min /\ n # 0
      <3>1. Hi >= view.min \/ (Hi = 0 /\ view.min = 1)
        BY <1>3, <1>5 DEF Bottom
      <3>2. n > Hi /\ n \in Nat /\ view.min \in Nat
        BY <1>3, <1>6 DEF Views
      <3> QED BY <1>5, <3>1, <3>2
    <2>3. 0 \in view'.blocks => 0 \in view.blocks
      BY <1>8, <2>2
    <2>4. \A n \in view'.blocks : n >= view.min \/ (n = 0 /\ view.min = 1)
      BY <1>3, <1>8, <2>2 DEF Bottom
    <2> QED BY <1>1, <1>3, <1>8, <2>1, <2>3, <2>4 DEF Bottom
  <1>10. Top'
    <2>1. h \in 0..head
      BY <1>1, <1>4
    <2> QED BY <1>1, <1>7, <1>8, <2>1 DEF Top
  <1>11. SnapOK' /\ ViewOK' /\ view' # Down
    BY <1>1, <1>2, <1>8, <1>9, <1>10, Apart DEF SnapOK, ViewOK
  <1>12. /\ job' \in Jobs /\ job'.op = "append" /\ job'.put = put /\ job'.n = c /\ job'.to = h
    <2>1. job' = Job("append", put, c, h)
      BY <1>1, <1>4 DEF AppendFrom
    <2>2. put \in {"snapshot", "blocks"}
      OBVIOUS
    <2> HIDE DEF put, c
    <2> QED BY <1>4, <2>1, <2>2 DEF Job, Jobs
  <1>13. AppendOK'
    <2>1. ASSUME ~torn, ~unsaved
          PROVE  rec \in Records /\ rec.last = c - 1 /\ Holds(rec) /\ snp = rec.snapshot
      <3>1. rec # None /\ Holds(rec) /\ snp = rec.snapshot /\ rec.cookie = c /\ rec.cookie = rec.last + 1
        BY <1>1, <1>2, <1>3, <2>1 DEF StoreOK
      <3>2. rec \in Records /\ rec.last \in Nat
        BY <1>2, <3>1 DEF StoreOK, RecOK, Records
      <3> QED BY <1>4, <3>1, <3>2
    <2>2. (put = "snapshot" <=> c \in snaps) /\ put # "record"
      OBVIOUS
    <2> HIDE DEF put, c
    <2> QED BY <1>1, <1>12, <2>1, <2>2 DEF AppendOK, Holds
  <1>14. JobOK'
    BY <1>1, <1>8, <1>11, <1>12, <1>13 DEF JobOK
  <1>15. StoreOK'
    <2>1. RecOK'
      BY <1>1, <1>2 DEF StoreOK, RecOK, LastSnapshot, PrevSnapshot
    <2>2. job' # NoJob
      BY <1>12, Apart
    <2> QED BY <1>1, <1>2, <2>1, <2>2 DEF StoreOK
  <1>16. ScrollOK'
    BY <1>1, <1>2, <1>11 DEF ScrollOK
  <1> QED BY <1>1, <1>11, <1>14, <1>15, <1>16 DEF StoreInv

LEMMA NewBlockStep ==
    ASSUME StoreInv, NEW snapshot \in BOOLEAN, NewBlock(snapshot) PROVE StoreInv'
  <1>1. UNCHANGED <<view, job, rec, mbs, snp, scroll, torn, unsaved>>
    BY DEF NewBlock, store
  <1>2. SnapOK /\ ViewOK /\ JobOK /\ StoreOK /\ ScrollOK /\ head \in Nat
    BY DEF StoreInv, SnapOK
  <1>3. /\ SnapOK' /\ snaps \subseteq snaps' /\ head <= head' /\ head' \in Nat
        /\ \A n \in 0..head : (n \in snaps' <=> n \in snaps) /\ LastSnapshot(n)' = LastSnapshot(n)
    BY <1>2, SnapshotsKept DEF SnapOK
  <1>4. 0..head \subseteq 0..head'
    BY <1>2, <1>3
  <1>5. ViewOK'
    <2>1. CASE view = Down
      BY <1>1, <2>1 DEF ViewOK
    <2>2. CASE view \in Views /\ Bottom /\ Top
      <3>1. Bottom'
        <4>1. view.min <= head' + 1
          <5>1. view.min \in Nat /\ view.min <= head + 1
            BY <2>2 DEF Bottom, Views
          <5> QED BY <1>2, <1>3, <5>1
        <4> QED BY <1>1, <1>3, <1>4, <2>2, <4>1 DEF Bottom
      <3>2. Top'
        BY <1>1, <1>4, <2>2 DEF Top
      <3> QED BY <1>1, <2>2, <3>1, <3>2 DEF ViewOK
    <2> QED BY <1>2, <2>1, <2>2 DEF ViewOK
  <1>6. JobOK'
    <2> SUFFICES ASSUME job # NoJob PROVE JobOK'
      BY <1>1 DEF JobOK
    <2>1. /\ job \in Jobs /\ view # Down /\ job.n <= job.to /\ job.to <= head
          /\ view.cookie = job.to + 1 /\ (job.op = "initialize" => InitializeOK)
          /\ (job.op = "append" => AppendOK)
      BY <1>2 DEF JobOK
    <2>2. job.n \in 0..head /\ job.to \in 0..head /\ job.to <= head'
      <3>1. job.n \in Nat /\ job.to \in Nat
        BY <2>1 DEF Jobs
      <3> QED BY <1>2, <1>3, <2>1, <3>1
    <2>3. LastSnapshot(job.to)' = LastSnapshot(job.to)
      <3>1. PICK k : k = job.to
        OBVIOUS
      <3>2. LastSnapshot(k)' = LastSnapshot(k)
        BY <1>3, <2>2, <3>1
      <3>3. LastSnapshot(job.to)' = LastSnapshot(k)'
        BY <1>1, <3>1
      <3> QED BY <3>1, <3>2, <3>3
    <2>4. InitializeOK => InitializeOK'
      BY <1>1, <2>3 DEF InitializeOK, Record
    <2>5. AppendOK => AppendOK'
      BY <1>1, <1>3, <2>2 DEF AppendOK, Holds
    <2> QED BY <1>1, <2>1, <2>2, <2>4, <2>5 DEF JobOK
  <1>7. StoreOK'
    <2>1. RecOK'
      <3> SUFFICES ASSUME rec # None PROVE RecOK'
        BY <1>1 DEF RecOK
      <3>1. /\ rec \in Records /\ rec.snapshot = LastSnapshot(rec.last) /\ rec.last <= head
            /\ rec.cookie > rec.last
        BY <1>2 DEF StoreOK, RecOK
      <3>2. rec.last \in 0..head /\ rec.last <= head'
        <4>1. rec.last \in Nat
          BY <3>1 DEF Records
        <4> QED BY <1>2, <1>3, <3>1, <4>1
      <3>3. PICK k : k = rec.last
        OBVIOUS
      <3>4. LastSnapshot(k)' = LastSnapshot(k)
        BY <1>3, <3>2, <3>3
      <3>5. LastSnapshot(rec.last)' = LastSnapshot(k)'
        BY <1>1, <3>3
      <3> QED BY <1>1, <3>1, <3>2, <3>3, <3>4, <3>5 DEF RecOK
    <2> QED BY <1>1, <1>2, <1>3, <2>1 DEF StoreOK, Holds
  <1>8. ScrollOK'
    BY <1>1, <1>2 DEF ScrollOK
  <1> QED BY <1>1, <1>3, <1>5, <1>6, <1>7, <1>8 DEF StoreInv

----------------------------------------------------------------------------
(* Scrollback.                                                                 *)

\* Only the scrollback request changes, and perhaps more miniblocks are stored.
LEMMA ScrollMoves ==
    ASSUME StoreInv, UNCHANGED <<head, snaps, view, job, rec, snp, torn, unsaved>>,
           mbs \subseteq mbs', ScrollOK'
    PROVE  StoreInv'
  <1>1. SnapOK' /\ ViewOK' /\ torn' \in BOOLEAN /\ unsaved' \in BOOLEAN
    BY DEF StoreInv, SnapOK, ViewOK, Bottom, Top
  <1>2. JobOK'
    <2>1. LastSnapshot(job.to)' = LastSnapshot(job.to)
      BY DEF LastSnapshot, PrevSnapshot
    <2>2. InitializeOK => InitializeOK'
      BY <2>1 DEF InitializeOK, Record
    <2>3. AppendOK => AppendOK'
      BY DEF AppendOK, Holds
    <2> QED BY <2>2, <2>3 DEF StoreInv, JobOK
  <1>3. StoreOK'
    <2>1. RecOK'
      BY DEF StoreInv, StoreOK, RecOK, LastSnapshot, PrevSnapshot
    <2> QED BY <2>1 DEF StoreInv, StoreOK, Holds
  <1> QED BY <1>1, <1>2, <1>3 DEF StoreInv

LEMMA ScrollStartStep == ASSUME StoreInv, ScrollStart PROVE StoreInv'
  <1>1. /\ UNCHANGED <<head, snaps, view, job, rec, mbs, snp, torn, unsaved>> /\ view.open /\ ~view.terminus
        /\ scroll' = [at |-> "cache", from |-> view.prev, to |-> view.min]
    BY DEF ScrollStart, node, store
  <1>2. view \in Views /\ Bottom /\ view # Down
    BY <1>1, Apart DEF StoreInv, ViewOK
  <1>3. view.prev \in Nat /\ view.min \in Nat /\ view.prev < view.min
    BY <1>1, <1>2 DEF Views, Bottom
  <1>4. scroll' \in Scrolls /\ scroll'.at = "cache" /\ scroll'.from < scroll'.to
    BY <1>1, <1>3 DEF Scrolls
  <1>5. ScrollOK'
    BY <1>1, <1>2, <1>4 DEF ScrollOK
  <1> QED BY <1>1, <1>5, ScrollMoves

LEMMA ScrollCachedStep == ASSUME StoreInv, ScrollCached PROVE StoreInv'
  <1> DEFINE S == {n \in scroll.from..scroll.to : n..(scroll.to - 1) \subseteq mbs}
             upto == Lowest(S)
  <1>1. /\ UNCHANGED <<head, snaps, view, job, rec, mbs, snp, torn, unsaved>> /\ scroll.at = "cache"
        /\ scroll' = IF upto = scroll.from
                     THEN [at |-> "apply", lo |-> upto, to |-> scroll.to, terminus |-> upto = 0]
                     ELSE [at |-> "fetch", from |-> scroll.from, upto |-> upto, to |-> scroll.to]
    BY DEF ScrollCached, node, store
  <1>2. scroll \in Scrolls /\ view # Down /\ scroll.from < scroll.to
    BY <1>1, Apart DEF StoreInv, ScrollOK
  <1>3. scroll.from \in Nat /\ scroll.to \in Nat
    BY <1>1, <1>2 DEF Scrolls
  <1>4. scroll.to \in S /\ S \subseteq Nat
    <2>1. scroll.to..(scroll.to - 1) = {} /\ scroll.to \in scroll.from..scroll.to
      BY <1>2, <1>3
    <2> QED BY <1>3, <2>1
  <1>5. upto \in scroll.from..scroll.to
    <2>1. Lowest(S) \in S
      <3> HIDE DEF S
      <3> QED BY <1>4, LowestOf
    <2> QED BY <2>1
  <1> HIDE DEF upto, S
  <1>6. upto \in Nat /\ scroll.from <= upto /\ upto <= scroll.to
    BY <1>3, <1>5
  <1>7. CASE upto = scroll.from
    <2>1. scroll' = [at |-> "apply", lo |-> upto, to |-> scroll.to, terminus |-> upto = 0]
      BY <1>1, <1>7
    <2>2. /\ scroll' \in Scrolls /\ scroll'.at = "apply" /\ scroll'.lo = upto /\ scroll'.to = scroll.to
          /\ scroll'.terminus = (upto = 0)
      BY <1>3, <1>6, <2>1 DEF Scrolls
    <2>3. ScrollOK'
      BY <1>1, <1>2, <1>7, <2>2 DEF ScrollOK
    <2> QED BY <1>1, <2>3, ScrollMoves
  <1>8. CASE upto # scroll.from
    <2>1. scroll' = [at |-> "fetch", from |-> scroll.from, upto |-> upto, to |-> scroll.to]
      BY <1>1, <1>8
    <2>2. /\ scroll' \in Scrolls /\ scroll'.at = "fetch" /\ scroll'.from = scroll.from
          /\ scroll'.upto = upto /\ scroll'.to = scroll.to
      BY <1>3, <1>6, <2>1 DEF Scrolls
    <2>3. scroll.from < upto
      BY <1>3, <1>6, <1>8
    <2>4. ScrollOK'
      BY <1>1, <1>2, <1>6, <2>2, <2>3 DEF ScrollOK
    <2> QED BY <1>1, <2>4, ScrollMoves
  <1> QED BY <1>7, <1>8

LEMMA ScrollFetchedStep == ASSUME StoreInv, ScrollFetched PROVE StoreInv'
  <1>1. /\ UNCHANGED <<head, snaps, view, job, rec, snp, torn, unsaved>> /\ scroll.at = "fetch"
    BY DEF ScrollFetched, node
  <1>2. PICK lo \in scroll.from..(scroll.upto - 1) :
              /\ mbs' = mbs \cup lo..(scroll.upto - 1)
              /\ scroll' = [at |-> "apply", lo |-> lo, to |-> scroll.to, terminus |-> lo = 0]
    BY DEF ScrollFetched
  <1>3. scroll \in Scrolls /\ view # Down /\ scroll.from < scroll.upto /\ scroll.upto <= scroll.to
    BY <1>1, Apart DEF StoreInv, ScrollOK
  <1>4. scroll.from \in Nat /\ scroll.upto \in Nat /\ scroll.to \in Nat
    BY <1>1, <1>3 DEF Scrolls
  <1>5. lo \in Nat /\ lo < scroll.to
    BY <1>2, <1>3, <1>4
  <1>6. /\ scroll' \in Scrolls /\ scroll'.at = "apply" /\ scroll'.lo = lo /\ scroll'.to = scroll.to
        /\ scroll'.terminus = (lo = 0)
    BY <1>2, <1>4, <1>5 DEF Scrolls
  <1>7. ScrollOK'
    BY <1>1, <1>3, <1>5, <1>6 DEF ScrollOK
  <1>8. mbs \subseteq mbs'
    BY <1>2
  <1> QED BY <1>1, <1>7, <1>8, ScrollMoves

\* What a result that still fits does to the view.
LEMMA ScrollFits ==
    ASSUME StoreInv, ScrollApply, StillFits
    PROVE  /\ scroll.lo \in Nat /\ scroll.to \in Nat /\ scroll.lo < scroll.to /\ view.min = scroll.to
           /\ view \in Views /\ Bottom /\ Top /\ view' \in Views
           /\ view'.blocks = view.blocks \cup scroll.lo..(scroll.to - 1)
           /\ view'.min = IF scroll.lo = 0 THEN 1 ELSE scroll.lo
           /\ view'.prev = PrevSnapshot(scroll.lo)
           /\ view'.terminus = (view.terminus \/ scroll.lo = 0)
           /\ view'.cookie = view.cookie /\ view'.base = view.base /\ view'.snapshot = view.snapshot
  <1> DEFINE lo == scroll.lo
             to == scroll.to
             new == lo..(to - 1)
             S == (new \ {0}) \cup {to}
             min == IF lo = 0 THEN 1 ELSE lo
  <1>1. scroll \in Scrolls /\ view # Down /\ lo < to /\ scroll.terminus = (lo = 0) /\ scroll.at = "apply"
    BY Apart DEF ScrollApply, StoreInv, ScrollOK
  <1>2. lo \in Nat /\ to \in Nat /\ view.min = to
    BY <1>1 DEF Scrolls, StillFits
  <1>3. view \in Views /\ Bottom /\ Top /\ SnapOK
    BY <1>1 DEF StoreInv, ViewOK
  <1>4. Lowest(S) = min
    <2>1. S \subseteq Nat /\ S # {}
      BY <1>2
    <2>2. Lowest(S) \in S /\ \A m \in S : Lowest(S) <= m
      <3> HIDE DEF S
      <3> QED BY <2>1, LowestOf
    <2>3. min \in S /\ (\A m \in S : min <= m) /\ min \in Nat
      BY <1>1, <1>2
    <2> HIDE DEF S, min
    <2>4. PICK x : x = Lowest(S)
      OBVIOUS
    <2>5. x \in Nat /\ x <= min /\ min <= x
      BY <2>1, <2>2, <2>3, <2>4
    <2>6. x = min
      BY <2>3, <2>5
    <2> QED BY <2>4, <2>6
  <1>5. view' = [view EXCEPT !.blocks = view.blocks \cup new, !.min = min,
                             !.prev = PrevSnapshot(lo), !.terminus = (view.terminus \/ scroll.terminus)]
    <2>1. NewMin(new) = min
      BY <1>4 DEF NewMin
    <2> HIDE DEF min
    <2> QED BY <2>1 DEF ScrollApply
  <1>6. PrevSnapshot(lo) \in Nat
    <2>1. PrevSnapshot(lo) \in snaps
      BY <1>2, <1>3, Snapshots
    <2>2. snaps \subseteq Nat
      BY <1>3 DEF SnapOK
    <2> QED BY <2>1, <2>2
  <1>7. min \in Nat /\ view.blocks \cup new \in SUBSET Nat
    BY <1>2, <1>3 DEF Views
  <1>8. (view.terminus \/ scroll.terminus) \in BOOLEAN
    BY <1>1
  <1> HIDE DEF min, new
  <1>9. /\ view' \in Views /\ view'.blocks = view.blocks \cup new /\ view'.min = min
        /\ view'.prev = PrevSnapshot(lo) /\ view'.terminus = (view.terminus \/ scroll.terminus)
        /\ view'.cookie = view.cookie /\ view'.base = view.base /\ view'.snapshot = view.snapshot
    BY <1>3, <1>5, <1>6, <1>7, <1>8 DEF Views
  <1>10. view'.terminus = (view.terminus \/ lo = 0)
    BY <1>1, <1>9
  <1> QED BY <1>1, <1>2, <1>3, <1>9, <1>10 DEF min, new

LEMMA ScrollApplyStep == ASSUME StoreInv, ScrollApply PROVE StoreInv'
  <1>1. /\ UNCHANGED <<head, snaps, job, rec, mbs, snp, torn, unsaved>> /\ scroll' = NoScroll
    BY DEF ScrollApply, node, store
  <1>2. ScrollOK'
    BY <1>1 DEF ScrollOK
  <1>3. CASE ~StillFits
    <2>1. view' = view
      BY <1>3 DEF ScrollApply
    <2> QED BY <1>1, <1>2, <2>1, ScrollMoves
  <1>4. CASE StillFits
    <2> DEFINE lo == scroll.lo
               to == scroll.to
               min == IF lo = 0 THEN 1 ELSE lo
    <2>1. /\ lo \in Nat /\ to \in Nat /\ lo < to /\ view.min = to
          /\ view \in Views /\ Bottom /\ Top /\ view' \in Views
          /\ view'.blocks = view.blocks \cup lo..(to - 1) /\ view'.min = min
          /\ view'.prev = PrevSnapshot(lo) /\ view'.terminus = (view.terminus \/ lo = 0)
          /\ view'.cookie = view.cookie /\ view'.base = view.base /\ view'.snapshot = view.snapshot
      BY <1>4, ScrollFits
    <2>2. SnapOK /\ head \in Nat
      BY DEF StoreInv, SnapOK
    <2>3. PrevSnapshot(0) = 0 /\ (lo > 0 => PrevSnapshot(lo) < lo)
      BY <2>1, <2>2, Snapshots
    <2>4. /\ min \in Nat /\ min <= to /\ (lo = min \/ (lo = 0 /\ min = 1)) /\ (lo # 0 => min = lo)
          /\ to <= head + 1
      BY <2>1 DEF Bottom
    <2> HIDE DEF min
    <2>5. 0 \in view.blocks => to = 1 /\ lo = 0
      BY <2>1 DEF Bottom
    <2>6. Bottom'
      <3>1. lo..(to - 1) \subseteq 0..head
        BY <2>1, <2>2, <2>4
      <3>2. view'.blocks \subseteq 0..head /\ view'.blocks # {}
        BY <2>1, <3>1 DEF Bottom
      <3>3. min <= head + 1
        BY <2>1, <2>2, <2>4
      <3>4. ASSUME NEW n \in view.blocks PROVE n >= min \/ (n = 0 /\ min = 1)
        <4>1. n >= to \/ (n = 0 /\ to = 1)
          BY <2>1 DEF Bottom
        <4>2. n \in Nat
          BY <2>1 DEF Views
        <4> QED BY <2>1, <2>4, <4>1, <4>2
      <3>5. ASSUME NEW n \in lo..(to - 1) PROVE n >= min \/ (n = 0 /\ min = 1)
        BY <2>1, <2>4
      <3>6. 0 \in view'.blocks => lo = 0
        BY <2>1, <2>5
      <3>7. 0 \in view'.blocks => view'.terminus /\ view'.prev = 0
        BY <2>1, <2>3, <3>6
      <3>8. ~view'.terminus => lo # 0
        BY <2>1
      <3>9. ~view'.terminus => view'.min > 0 /\ view'.prev < view'.min
        BY <2>1, <2>3, <2>4, <3>8
      <3>10. \A n \in view'.blocks : n >= view'.min \/ (n = 0 /\ view'.min = 1)
        BY <2>1, <3>4, <3>5
      <3>11. view'.snapshot = view'.base /\ view'.base \in snaps'
        BY <1>1, <2>1 DEF Bottom
      <3> QED BY <1>1, <2>1, <3>2, <3>3, <3>7, <3>9, <3>10, <3>11 DEF Bottom
    <2>7. Top'
      <3> SUFFICES ASSUME ~torn PROVE Top'
        BY <1>1 DEF Top
      <3>1. PICK first, hi \in 0..head :
                /\ first <= hi /\ view.blocks = first..hi /\ view.cookie = hi + 1
                /\ first = view.min \/ (first = 0 /\ view.min = 1)
        BY <2>1 DEF Top
      <3>2. first \in Nat /\ hi \in Nat /\ (first = to \/ (first = 0 /\ to = 1 /\ lo = 0))
        BY <2>1, <2>2, <3>1
      <3>3. (first..hi) \cup (lo..(to - 1)) = lo..hi /\ lo <= hi
        BY <2>1, <3>1, <3>2
      <3>4. lo \in 0..head' /\ hi \in 0..head'
        <4>1. lo <= hi /\ hi <= head /\ head' = head
          BY <1>1, <2>2, <3>1, <3>3
        <4> QED BY <2>1, <2>2, <3>2, <4>1
      <3>5. view'.blocks = lo..hi /\ view'.cookie = hi + 1
        BY <2>1, <3>1, <3>3
      <3> QED BY <2>1, <2>4, <3>3, <3>4, <3>5 DEF Top
    <2>8. ViewOK' /\ view' # Down /\ view # Down
      BY <2>1, <2>6, <2>7, Apart DEF ViewOK
    <2>9. SnapOK'
      BY <1>1, <2>2 DEF SnapOK
    <2>10. JobOK'
      <3>1. LastSnapshot(job.to)' = LastSnapshot(job.to)
        BY <1>1 DEF LastSnapshot, PrevSnapshot
      <3>2. (InitializeOK => InitializeOK') /\ (AppendOK => AppendOK')
        BY <1>1, <3>1 DEF InitializeOK, AppendOK, Record, Holds
      <3> QED BY <1>1, <2>1, <2>8, <3>2 DEF StoreInv, JobOK
    <2>11. StoreOK'
      <3>1. RecOK'
        BY <1>1 DEF StoreInv, StoreOK, RecOK, LastSnapshot, PrevSnapshot
      <3> QED BY <1>1, <2>1, <2>8, <3>1 DEF StoreInv, StoreOK, Holds
    <2> QED BY <1>1, <1>2, <2>8, <2>9, <2>10, <2>11 DEF StoreInv
  <1> QED BY <1>3, <1>4

----------------------------------------------------------------------------
LEMMA StoreInvInit == Init => StoreInv
  <1> SUFFICES ASSUME Init PROVE StoreInv
    OBVIOUS
  <1>1. SnapOK
    BY DEF Init, SnapOK
  <1>2. ViewOK /\ JobOK /\ ScrollOK
    BY DEF Init, ViewOK, JobOK, ScrollOK
  <1>3. StoreOK
    BY DEF Init, StoreOK, RecOK
  <1> QED BY <1>1, <1>2, <1>3 DEF Init, StoreInv

LEMMA StoreInvStep == StoreInv /\ [Next]_vars => StoreInv'
  <1> SUFFICES ASSUME StoreInv, [Next]_vars PROVE StoreInv'
    OBVIOUS
  <1>1. CASE UNCHANGED vars
    <2>1. UNCHANGED <<head, snaps, view, job, rec, mbs, snp, scroll, torn, unsaved>>
      BY <1>1 DEF vars, node, store
    <2>2. ScrollOK'
      BY <2>1 DEF StoreInv, ScrollOK
    <2> QED BY <2>1, <2>2, ScrollMoves
  <1> QED BY <1>1, WriteStep, WriteFailsStep, OpenFromStoreStep, InitializeSteps, CrashStep, SyncUpdateStep,
             NewBlockStep, ScrollStartStep, ScrollCachedStep, ScrollFetchedStep, ScrollApplyStep DEF Next

LEMMA StoreInvAlways == Spec => []StoreInv
  BY StoreInvInit, StoreInvStep, PTL DEF Spec

\* Of a view that is not torn: its blocks are all those from one number to another.
LEMMA WholeView ==
    ASSUME StoreInv, view.open, ~torn
    PROVE  \E lo, hi \in Nat : lo <= hi /\ view.blocks = lo..hi /\ view.cookie = hi + 1 /\ Hi = hi
  <1>1. view \in Views /\ Top /\ view # Down /\ head \in Nat
    BY Apart DEF StoreInv, ViewOK, SnapOK
  <1>2. PICK lo, hi \in 0..head : lo <= hi /\ view.blocks = lo..hi /\ view.cookie = hi + 1
    BY <1>1 DEF Top
  <1>3. lo \in Nat /\ hi \in Nat
    BY <1>1
  <1>4. Hi = hi
    BY <1>2, <1>3, HighestOfRange DEF Hi
  <1> QED BY <1>2, <1>3, <1>4

\* NoHoleTheorem: a view that is open has every miniblock between its first and its
\* last, and its cookie names the one after, after any updates, resets, crashes and
\* scrollbacks, unless an update with several headers was cut off while it was saved.
THEOREM NoHoleTheorem == Spec => []ViewHasNoHole
  <1>1. StoreInv => ViewHasNoHole
    <2> SUFFICES ASSUME StoreInv, view.open, ~torn
                 PROVE  (\A m, n \in view.blocks : m..n \subseteq view.blocks) /\ view.cookie = Hi + 1
      BY DEF ViewHasNoHole
    <2>1. PICK lo, hi \in Nat : lo <= hi /\ view.blocks = lo..hi /\ view.cookie = hi + 1 /\ Hi = hi
      BY WholeView
    <2>2. \A m, n \in lo..hi : m..n \subseteq lo..hi
      OBVIOUS
    <2> QED BY <2>1, <2>2
  <1> QED BY <1>1, StoreInvAlways, PTL

\* FitsTheorem: the snapshot that a view starts from is that of its first block.
THEOREM FitsTheorem == Spec => []SnapshotFits
  <1>1. StoreInv => SnapshotFits
    BY Apart DEF StoreInv, ViewOK, Bottom, SnapshotFits
  <1> QED BY <1>1, StoreInvAlways, PTL

\* FollowsTheorem: between updates the record of the store is not ahead of its
\* miniblocks, and while no write has failed the store can be loaded and holds what
\* the view shows.
THEOREM FollowsTheorem == Spec => []StoreFollowsView
  <1>1. StoreInv => StoreFollowsView
    <2> SUFFICES ASSUME StoreInv, job = NoJob, ~torn
                 PROVE  /\ ~Ahead
                        /\ view.open /\ ~unsaved => Loadable /\ rec.cookie = view.cookie /\ rec.last = Hi
      BY DEF StoreFollowsView
    <2>1. /\ rec = None \/ (rec \in Records /\ rec.cookie = rec.last + 1)
          /\ view # Down /\ ~unsaved =>
                rec # None /\ Holds(rec) /\ snp = rec.snapshot /\ rec.cookie = view.cookie
      BY DEF StoreInv, StoreOK, RecOK
    <2>2. ~Ahead
      <3>1. rec = None => ~Ahead
        BY Apart DEF Ahead
      <3>2. rec \in Records /\ rec.cookie = rec.last + 1 => ~Ahead
        BY DEF Ahead, Records
      <3> QED BY <2>1, <3>1, <3>2
    <2>3. ASSUME view.open, ~unsaved PROVE Loadable /\ rec.cookie = view.cookie /\ rec.last = Hi
      <3>1. view # Down
        BY <2>3, Apart
      <3>2. rec \in Records /\ rec.cookie = rec.last + 1 /\ rec.saved
        BY <2>1, <2>3, <3>1, Apart
      <3>3. Loadable /\ rec.cookie = view.cookie
        BY <2>1, <2>3, <3>1, <3>2 DEF Loadable, Holds
      <3>4. PICK lo, hi \in Nat : lo <= hi /\ view.blocks = lo..hi /\ view.cookie = hi + 1 /\ Hi = hi
        BY <2>3, WholeView
      <3>5. rec.last \in Nat
        BY <3>2 DEF Records
      <3> QED BY <3>2, <3>3, <3>4, <3>5
    <2> QED BY <2>2, <2>3
  <1> QED BY <1>1, StoreInvAlways, PTL

\* PrependsTheorem: a scrollback that changes the view brings only miniblocks that the
\* view does not have, though the view may be initialized anew while it is fetched.
THEOREM PrependsTheorem == Spec => PrependsOnlyNew
  <1> DEFINE OnlyNew == scroll.lo..(scroll.to - 1) \cap view.blocks = {}
  <1>1. ASSUME StoreInv, ScrollApply, view' # view PROVE OnlyNew
    <2> SUFFICES ASSUME NEW n \in scroll.lo..(scroll.to - 1), n \in view.blocks PROVE view' = view
      BY <1>1
    <2>1. StillFits
      BY <1>1 DEF ScrollApply
    <2> DEFINE lo == scroll.lo
               to == scroll.to
    <2>2. /\ lo \in Nat /\ to \in Nat /\ lo < to /\ view.min = to
          /\ view \in Views /\ Bottom /\ view' \in Views
          /\ view'.blocks = view.blocks \cup lo..(to - 1)
          /\ view'.min = (IF lo = 0 THEN 1 ELSE lo)
          /\ view'.prev = PrevSnapshot(lo) /\ view'.terminus = (view.terminus \/ lo = 0)
          /\ view'.cookie = view.cookie /\ view'.base = view.base /\ view'.snapshot = view.snapshot
      BY <1>1, <2>1, ScrollFits
    <2>3. n = 0 /\ to = 1 /\ lo = 0
      <3>1. n >= to \/ (n = 0 /\ to = 1)
        BY <2>2 DEF Bottom
      <3> QED BY <2>2, <3>1
    <2>4. view.terminus = TRUE /\ view.prev = 0
      BY <2>2, <2>3 DEF Bottom, Views
    <2>5. lo..(to - 1) \subseteq view.blocks
      BY <2>3
    <2>6. PrevSnapshot(lo) = 0
      BY <2>3 DEF PrevSnapshot
    <2>7. /\ view'.blocks = view.blocks /\ view'.min = view.min /\ view'.prev = view.prev
          /\ view'.terminus = view.terminus
      BY <2>2, <2>3, <2>4, <2>5, <2>6
    <2> DEFINE Fields == {"open", "blocks", "base", "snapshot", "cookie", "min", "prev", "terminus"}
    <2>8. ASSUME NEW v \in Views, NEW w \in Views, \A f \in Fields : v[f] = w[f] PROVE v = w
      BY <2>8 DEF Views
    <2>9. view'.open = view.open
      BY <2>2 DEF Views
    <2>10. \A f \in Fields : view'[f] = view[f]
      BY <2>2, <2>7, <2>9
    <2> HIDE DEF Fields
    <2> QED BY <2>2, <2>8, <2>10
  <1>2. StoreInv /\ [Next]_vars => [ScrollApply /\ view' # view => OnlyNew]_vars
    BY <1>1
  <1> QED BY <1>2, StoreInvAlways, PTL DEF Spec, PrependsOnlyNew
============================================================================

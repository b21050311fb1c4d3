---------------------------- MODULE StreamStore ----------------------------
(* One stream in the client: its view (streamStateView.ts), the writes that   *)
(* keep the persistence store in step with it (syncedStream.ts,               *)
(* persistenceStore.ts), loading after a crash (loadStream), and scrollback    *)
(* (client.ts).                                                                *)
(*                                                                            *)
(* The unit of content is the miniblock.  A sync cookie is the number of the  *)
(* miniblock that the minipool will become, so an update from cookie c to h   *)
(* brings the headers of c..h and their events.  Events of the minipool are   *)
(* sent again whenever the same cookie is presented, and are left out.        *)
EXTENDS Integers, Sequences, FiniteSets

CONSTANTS
    MaxBlock,      \* bound: number of the last miniblock
    CachedRounds,  \* MAX_CACHED_SCROLLBACK_COUNT
    MaxCrash,      \* bound: crashes of the client
    MaxFailure     \* bound: failed writes

ASSUME StoreAssumption ==
    /\ MaxBlock \in Nat /\ CachedRounds \in Nat /\ MaxCrash \in Nat /\ MaxFailure \in Nat

VARIABLES
    head,      \* last miniblock of the stream on the node
    snaps,     \* miniblocks with a snapshot
    view,      \* the StreamStateView, or Down when the client does not run
    job,       \* writes the current initialize or appendEvents still has to make
    rec,       \* syncedStreams record of the store, or None
    mbs,       \* miniblocks of the store
    snp,       \* number of the snapshot of the store, -1 for none
    scroll,    \* the scrollback request
    torn,      \* the writes of an update ended between two of its records, and no
               \* initialization from the node has come since
    unsaved,   \* a write has failed since the stream was opened
    crashes,
    failures

node == <<head, snaps>>
store == <<rec, mbs, snp>>
bound == <<crashes, failures>>
vars == <<node, view, job, store, scroll, torn, unsaved, bound>>

Down == [open |-> FALSE]
None == [saved |-> FALSE]
NoScroll == [at |-> "idle"]

Highest(S) == CHOOSE n \in S : \A m \in S : m <= n
Lowest(S) == CHOOSE n \in S : \A m \in S : n <= m

\* prevSnapshotMiniblockNum of a header, and the snapshot a record names for it.
PrevSnapshot(n) == IF n = 0 THEN 0 ELSE Highest({m \in snaps : m < n})
LastSnapshot(n) == IF n \in snaps THEN n ELSE PrevSnapshot(n)

Hi == Highest(view.blocks)
----------------------------------------------------------------------------
(* Writes to the store.                                                        *)

Record(snapshot, last, cookie) ==
    [saved |-> TRUE, snapshot |-> snapshot, last |-> last, cookie |-> cookie]

\* What is left of initialize or appendEvents: the next write is `put`, for the header
\* of n or for the response n..to.
Job(op, put, n, to) == [op |-> op, put |-> put, n |-> n, to |-> to]
NoJob == Job("none", "none", 0, 0)

\* Mutant of AppendFrom: the last of several headers is not saved.
AppendFromShort(n, to) ==
    IF n >= to THEN NoJob
    ELSE Job("append", IF n \in snaps THEN "snapshot" ELSE "blocks", n, to)

\* The headers of one update, in order.
AppendFrom(n, to) ==
    IF n > to THEN NoJob
    ELSE Job("append", IF n \in snaps THEN "snapshot" ELSE "blocks", n, to)

\* onMiniblockHeader: snapshot, miniblock, then a record with the cookie of the view.
AfterHeaderWrite ==
    IF job.put = "snapshot" THEN [job EXCEPT !.put = "blocks"]
    ELSE IF job.put = "blocks" THEN [job EXCEPT !.put = "record"]
    ELSE AppendFrom(job.n + 1, job.to)

\* SyncedStream.initialize: record, miniblocks, snapshot.
InitializeWrites == Job("initialize", "record", LastSnapshot(head), head)
AfterInitializeWrite ==
    IF job.put = "record" THEN [job EXCEPT !.put = "blocks"]
    ELSE IF job.put = "blocks" THEN [job EXCEPT !.put = "snapshot"]
    ELSE NoJob

\* saveSyncedStream, saveMiniblock(s) or saveSnapshot; an older snapshot is not saved.
Write ==
    /\ job # NoJob
    /\ job' = IF job.op = "append" THEN AfterHeaderWrite ELSE AfterInitializeWrite
    /\ LET snapshot == IF job.op = "append" THEN LastSnapshot(job.n) ELSE job.n
           last == IF job.op = "append" THEN job.n ELSE job.to IN
       /\ rec' = IF job.put = "record" THEN Record(snapshot, last, job.to + 1) ELSE rec
       /\ mbs' = IF job.put = "blocks" THEN mbs \union job.n..last ELSE mbs
       /\ snp' = IF job.put = "snapshot" /\ snp < job.n THEN job.n ELSE snp
    /\ UNCHANGED <<node, view, scroll, torn, unsaved, bound>>

\* The record runs ahead of the miniblocks that are saved.
Ahead == rec.saved /\ rec.cookie > rec.last + 1

\* A write throws (QuotaExceededError): the rest of the update is not saved.
WriteFails ==
    /\ job # NoJob /\ failures < MaxFailure
    /\ failures' = failures + 1
    /\ job' = NoJob
    /\ unsaved' = TRUE
    /\ torn' = (torn \/ Ahead)
    /\ UNCHANGED <<node, view, store, scroll, crashes>>
----------------------------------------------------------------------------
(* The view.                                                                   *)

View(base, lo, hi, cookie) ==
    [open |-> TRUE, blocks |-> lo..hi, base |-> base, snapshot |-> base, cookie |-> cookie,
     min |-> IF lo = 0 /\ base > 0 THEN 1 ELSE lo, prev |-> PrevSnapshot(lo), terminus |-> lo = 0]

\* Mutant of Loadable: whatever snapshot the store has will do.
LoadableAnyhow == rec.saved /\ rec.snapshot..rec.last \subseteq mbs /\ snp # -1

\* getMiniblocks of the store is all or nothing; the snapshot has to match.
Loadable ==
    /\ rec.saved
    /\ rec.snapshot..rec.last \subseteq mbs
    /\ snp = rec.snapshot

\* cachedScrollback: each round goes back one snapshot while all is cached.  It ends
\* with the round that finds a message to show, any of them here.
CachedFrom(first) ==
    {lo \in snaps : /\ lo <= first /\ lo..(first - 1) \subseteq mbs
                    /\ Cardinality(snaps \intersect lo..(first - 1)) <= CachedRounds}

\* _initStream: initializeFromPersistence.
OpenFromStore ==
    /\ ~view.open /\ Loadable
    /\ \E lo \in CachedFrom(rec.snapshot) :
          view' = [View(rec.snapshot, lo, rec.last, rec.cookie) EXCEPT !.snapshot = snp]
    /\ unsaved' = FALSE
    /\ UNCHANGED <<node, job, store, scroll, torn, bound>>

\* Stream.initialize and SyncedStream.initialize with a response of the node.
Initialize ==
    /\ view' = View(LastSnapshot(head), LastSnapshot(head), head, head + 1)
    /\ job' = InitializeWrites
    /\ torn' = FALSE

\* _initStream: the store has nothing to load, so getStream.
OpenFromNode ==
    /\ ~view.open /\ ~Loadable
    /\ Initialize
    /\ unsaved' = FALSE
    /\ UNCHANGED <<node, store, scroll, bound>>

\* onUpdate with syncReset: initializeFromResponse.
SyncReset ==
    /\ view.open /\ job = NoJob
    /\ Initialize
    /\ UNCHANGED <<node, store, scroll, unsaved, bound>>

\* onUpdate with the headers from the cookie on: appendEvents.  The whole update is
\* in the view before the first write.  A header that is not above the last one
\* is an error that is logged.
SyncUpdate(h) ==
    /\ view.open /\ job = NoJob
    /\ view.cookie <= h /\ h <= head
    /\ view' = [view EXCEPT !.blocks = @ \union {n \in view.cookie..h : n > Hi},
                            !.cookie = h + 1]
    /\ job' = AppendFrom(view.cookie, h)
    /\ UNCHANGED <<node, store, scroll, torn, unsaved, bound>>

\* The process ends at any point.
Crash ==
    /\ view.open /\ crashes < MaxCrash
    /\ crashes' = crashes + 1
    /\ view' = Down
    /\ job' = NoJob
    /\ scroll' = NoScroll
    /\ torn' = (torn \/ Ahead)
    /\ UNCHANGED <<node, store, unsaved, failures>>

\* The node makes a miniblock.
NewBlock(snapshot) ==
    /\ head < MaxBlock
    /\ head' = head + 1
    /\ snaps' = IF snapshot THEN snaps \union {head + 1} ELSE snaps
    /\ UNCHANGED <<view, job, store, scroll, torn, unsaved, bound>>
----------------------------------------------------------------------------
(* Scrollback.                                                                 *)

\* _scrollback up to the first await.
ScrollStart ==
    /\ view.open /\ scroll.at = "idle"
    /\ ~view.terminus
    /\ scroll' = [at |-> "cache", from |-> view.prev, to |-> view.min]
    /\ UNCHANGED <<node, view, job, store, torn, unsaved, bound>>

\* getMiniblocks: what the store has, back from `to` without a gap.
ScrollCached ==
    /\ scroll.at = "cache"
    /\ LET upto == Lowest({n \in scroll.from..scroll.to : n..(scroll.to - 1) \subseteq mbs}) IN
       scroll' = IF upto = scroll.from
                 THEN [at |-> "apply", lo |-> upto, to |-> scroll.to, terminus |-> upto = 0]
                 ELSE [at |-> "fetch", from |-> scroll.from, upto |-> upto, to |-> scroll.to]
    /\ UNCHANGED <<node, view, job, store, torn, unsaved, bound>>

\* The rest is asked of the node, which may return only the last part of it, and
\* saved.
ScrollFetched ==
    /\ scroll.at = "fetch"
    /\ \E lo \in scroll.from..(scroll.upto - 1) :
          /\ mbs' = mbs \union lo..(scroll.upto - 1)
          /\ scroll' = [at |-> "apply", lo |-> lo, to |-> scroll.to, terminus |-> lo = 0]
    /\ UNCHANGED <<node, view, job, rec, snp, torn, unsaved, bound>>

\* Mutants of StillFits and NewMin: the result is not compared with the view; the view
\* does not note what it was given.
FitsAlways == TRUE
OldMin(new) == scroll.to

\* The view still begins where it did when the scrollback started.
StillFits == view.min = scroll.to

\* updateMiniblockInfo: a minimum of 0 is taken for an absent value and never recorded.
NewMin(new) == Lowest((new \ {0}) \union {scroll.to})

\* The blocks are dropped when the view has been initialized anew.
ScrollApply ==
    /\ scroll.at = "apply"
    /\ scroll' = NoScroll
    /\ LET new == scroll.lo..(scroll.to - 1) IN
       view' = IF StillFits
               THEN [view EXCEPT !.blocks = @ \union new,
                                 !.min = NewMin(new),
                                 !.prev = PrevSnapshot(scroll.lo),
                                 !.terminus = @ \/ scroll.terminus]
               ELSE view
    /\ UNCHANGED <<node, job, store, torn, unsaved, bound>>
----------------------------------------------------------------------------
Init ==
    /\ head \in 0..1 /\ snaps = {0}
    /\ view = Down /\ job = NoJob
    /\ rec = None /\ mbs = {} /\ snp = -1
    /\ scroll = NoScroll
    /\ torn = FALSE /\ unsaved = FALSE
    /\ crashes = 0 /\ failures = 0

Next ==
    \/ Write \/ WriteFails
    \/ OpenFromStore \/ OpenFromNode \/ SyncReset \/ Crash
    \/ \E h \in 0..MaxBlock : SyncUpdate(h)
    \/ \E snapshot \in BOOLEAN : NewBlock(snapshot)
    \/ ScrollStart \/ ScrollCached \/ ScrollFetched \/ ScrollApply

Spec == Init /\ [][Next]_vars
----------------------------------------------------------------------------
\* The variables keep their types.
TypeOK ==
    /\ head \in 0..MaxBlock /\ snaps \subseteq 0..head /\ 0 \in snaps
    /\ view.open => view.blocks \subseteq 0..head /\ view.blocks # {} /\ view.cookie \in 0..(head + 1)
    /\ rec.saved => rec.last \in 0..head /\ rec.cookie \in 0..(head + 1)
    /\ mbs \subseteq 0..head
    /\ snp \in -1..head
    /\ scroll.at \in {"idle", "cache", "fetch", "apply"}

\* The view shows every miniblock between its first and its last one, and its
\* cookie asks for the one after: nothing is missing and nothing comes twice,
\* through updates, resets, crashes and scrollback, unless the record of an update
\* with several headers was cut off between two of them.
ViewHasNoHole ==
    view.open /\ ~torn =>
        /\ \A m, n \in view.blocks : m..n \subseteq view.blocks
        /\ view.cookie = Hi + 1

\* The snapshot a view starts from is that of the first block it was given.
SnapshotFits == view.open => view.snapshot = view.base /\ view.base \in snaps

\* Only while an update with several headers is being saved is the record ahead of
\* the miniblocks, even if a write failed.  Once all writes of a running client
\* are made, the store can be loaded and holds the view.
StoreFollowsView ==
    job = NoJob /\ ~torn =>
        /\ ~Ahead
        /\ view.open /\ ~unsaved => Loadable /\ rec.cookie = view.cookie /\ rec.last = Hi

\* prependEvents no longer filters duplicates: scrollback only ever brings
\* miniblocks that the view does not have.
PrependsOnlyNew ==
    [][ScrollApply /\ view' # view => scroll.lo..(scroll.to - 1) \intersect view.blocks = {}]_vars
============================================================================

---------------------- MODULE SyncedStreamsLoopProofs ----------------------
(* Proofs about SyncedStreamsLoop, for any set of streams, any number of     *)
(* events, joins, reconnects and faults, and every option of the loop.       *)
(*                                                                           *)
(* The arguments, one section each:                                          *)
(*  - the state, the sync id and the place of the coroutine move together    *)
(*    (LoopInv): every way out of the read loop sets all three;              *)
(*  - the map of the client loses a stream only through Leave or through a   *)
(*    removal that waited, so it is enough to know of the waiting removals   *)
(*    that their stream was left, or re-joined meanwhile (MapInv);           *)
(*  - everything queued or called names a session that has been open         *)
(*    (Shape), so a new session starts with nothing of its own on the way;   *)
(*  - a stream waits to be added only while the session does not serve it    *)
(*    (AddInv), a stream out of the map is unserved or is being removed      *)
(*    (RemInv), a removal is queued once (WaitInv, OnceInv), and a stream of *)
(*    the map is served or is being added (HeldInv);                         *)
(*  - the updates on their way to a record overlap or touch (SkipInv), and   *)
(*    they do not overlap (ReplayInv), so none is skipped and none replayed. *)
(*                                                                           *)
(* A fact that one lemma only uses is a step of its proof, named for what it *)
(* says. What filter and splice do to a list (FilterFacts, SpliceFacts) is   *)
(* assumed by the lemmas on a step and proved after them (ListFacts), where  *)
(* the library's theorems on finite sets and well-founded orders are read;   *)
(* the theorems that rest on it come last.                                   *)
EXTENDS SyncedStreamsLoop, TLAPS

(* A step that names no prover is tried with these, in this order. *)
USE ZenonT(3), SMTT(20), SMTT(21), ZenonT(20)

----------------------------------------------------------------------------
(* Sequences without repetitions.                                            *)

\* s occurs at most once in q.
Once(q, s) == \A i, j \in DOMAIN q : q[i] = s /\ q[j] = s => i = j

\* What filter does to a list of streams (WithoutFacts).
FilterFacts ==
    \A q \in Seq(Stream) : \A T :
        /\ Without(q, T) \in Seq(Stream)
        /\ Elements(Without(q, T)) = Elements(q) \ T
        /\ \A s : Once(q, s) => Once(Without(q, T), s)

\* What splice(indexOf(s), 1) does to a list of streams (DropFirstFacts).
SpliceFacts ==
    \A q \in Seq(Stream) : \A s :
        /\ DropFirst(q, s) \in Seq(Stream)
        /\ Elements(DropFirst(q, s)) \subseteq Elements(q)
        /\ Elements(q) \ {s} \subseteq Elements(DropFirst(q, s))
        /\ Once(q, s) => s \notin Elements(DropFirst(q, s))
        /\ \A x : Once(q, x) => Once(DropFirst(q, s), x)

\* The elements of a concatenation, and when one of them occurs once.
LEMMA ConcatFacts ==
    ASSUME NEW p \in Seq(Stream), NEW q \in Seq(Stream)
    PROVE  /\ p \o q \in Seq(Stream)
           /\ Elements(p \o q) = Elements(p) \cup Elements(q)
           /\ \A s : Once(p, s) /\ Once(q, s) /\ (s \notin Elements(p) \/ s \notin Elements(q))
                    => Once(p \o q, s)
  <1>1. PICK d \in Seq(Stream) : d = p \o q
    <2>1. p \o q \in Seq(Stream)
      OBVIOUS
    <2> QED BY <2>1
  <1>2. /\ Len(d) = Len(p) + Len(q)
        /\ \A i \in 1 .. Len(d) : d[i] = IF i <= Len(p) THEN p[i] ELSE q[i - Len(p)]
    BY <1>1
  <1>3. DOMAIN d = 1 .. Len(d) /\ DOMAIN p = 1 .. Len(p) /\ DOMAIN q = 1 .. Len(q)
    OBVIOUS
  <1>4. \A i \in DOMAIN p : i \in DOMAIN d /\ d[i] = p[i]
    BY <1>2, <1>3
  <1>5. \A i \in DOMAIN q : Len(p) + i \in DOMAIN d /\ d[Len(p) + i] = q[i]
    BY <1>2, <1>3
  <1>6. \A i \in DOMAIN d : \/ (i \in DOMAIN p /\ d[i] = p[i])
                           \/ (i - Len(p) \in DOMAIN q /\ d[i] = q[i - Len(p)])
    BY <1>2, <1>3
  <1>7. Elements(d) = Elements(p) \cup Elements(q)
    <2>1. \A x \in Elements(p) \cup Elements(q) : x \in Elements(d)
      BY <1>4, <1>5 DEF Elements
    <2>2. \A x \in Elements(d) : x \in Elements(p) \cup Elements(q)
      BY <1>6 DEF Elements
    <2> QED BY <2>1, <2>2
  <1>8. ASSUME NEW s, Once(p, s), Once(q, s), s \notin Elements(p) \/ s \notin Elements(q)
        PROVE  Once(d, s)
    <2> SUFFICES ASSUME NEW i \in DOMAIN d, NEW j \in DOMAIN d, d[i] = s, d[j] = s PROVE i = j
      BY DEF Once
    <2>1. CASE s \notin Elements(q)
      <3>1. i \in DOMAIN p /\ p[i] = s /\ j \in DOMAIN p /\ p[j] = s
        BY <1>6, <2>1 DEF Elements
      <3> QED BY <1>8, <3>1 DEF Once
    <2>2. CASE s \notin Elements(p)
      <3>1. /\ i - Len(p) \in DOMAIN q /\ q[i - Len(p)] = s
            /\ j - Len(p) \in DOMAIN q /\ q[j - Len(p)] = s
        BY <1>6, <2>2 DEF Elements
      <3>2. i - Len(p) = j - Len(p)
        BY <1>8, <3>1 DEF Once
      <3> QED BY <1>3, <3>2
    <2> QED BY <1>8, <2>1, <2>2
  <1> QED BY <1>1, <1>7, <1>8

----------------------------------------------------------------------------
(* The state machine of the loop.                                            *)

\* What the state says of the sync id, the coroutine and the session.
LoopInv ==
    /\ syncState \in SyncStates
    /\ syncState = "Syncing" => syncId = session /\ conn = "open" /\ loop = "reading"
    /\ syncState = "Starting" => syncId = 0 /\ loop = "reading"
    /\ syncState = "Retrying" => syncId = 0 /\ loop = "backoff"
    /\ syncState = "NotSyncing" => syncId = 0 /\ loop \in {"none", "done"}
    /\ syncState = "Canceling" => loop \in {"reading", "backoff"}

\* The variables LoopInv is about.
loopCore == <<syncState, syncId, loop, session, conn>>

\* Ticks and changes of the stream map leave the state machine alone.
LEMMA OthersKeepLoop ==
    ASSUME TickStep \/ MapStep \/ CancelSync \/ vars' = vars
    PROVE  UNCHANGED loopCore
  <1>1. CASE CheckStartTicking
    BY <1>1 DEF CheckStartTicking, Tick, loopCore, loopVars, serverVars
  <1>2. CASE TickTimer
    BY <1>2 DEF TickTimer, Tick, loopCore, loopVars, serverVars
  <1>3. CASE ModifyDone
    BY <1>3 DEF ModifyDone, loopCore, loopVars
  <1>4. CASE ModifyFails
    BY <1>4 DEF ModifyFails, loopCore, loopVars
  <1>5. CASE Apply \/ ApplyFails
    BY <1>5 DEF Apply, ApplyFails, loopCore, loopVars, serverVars
  <1>6. CASE ResumeRemovals
    BY <1>6 DEF ResumeRemovals, loopCore, serverVars
  <1>7. CASE \E r \in readd : AddStreamDone(r) \/ AddStreamFails(r) \/ AddStreamAgain(r)
    BY <1>7 DEF AddStreamDone, AddStreamFails, AddStreamAgain, loopCore, loopVars, serverVars
  <1>8. CASE MapStep
    BY <1>8 DEF MapStep, Join, Loaded, LoadFails, Leave, NewEvent, loopCore, loopVars, serverVars
  <1>9. CASE CancelSync
    BY <1>9 DEF CancelSync, loopCore, loopVars
  <1>10. CASE vars' = vars
    BY <1>10 DEF vars, loopCore, loopVars, serverVars
  <1> QED BY <1>1, <1>2, <1>3, <1>4, <1>5, <1>6, <1>7, <1>8, <1>9, <1>10 DEF TickStep

\* Every step of the loop keeps LoopInv.
LEMMA LoopInvStep ==
    ASSUME LoopInv, [Next]_vars
    PROVE  LoopInv'
  <1> USE DEF LoopInv, SyncStates
  <1>1. CASE TickStep \/ MapStep \/ CancelSync \/ vars' = vars
    <2>1. UNCHANGED loopCore
      BY <1>1, OthersKeepLoop
    <2> QED BY <2>1 DEF loopCore
  <1>2. CASE Start
    BY <1>2 DEF Start, NextIteration
  <1>3. CASE SyncNew
    BY <1>3 DEF SyncNew, Finish
  <1>4. CASE SyncClose
    BY <1>4 DEF SyncClose, Finish, NextIteration
  <1>5. CASE ConnectionLost
    BY <1>5 DEF ConnectionLost, Finish
  <1>6. CASE RetryWaitOver
    BY <1>6 DEF RetryWaitOver, Finish, NextIteration
  <1>7. CASE FinishAfterUpdate
    BY <1>7 DEF FinishAfterUpdate, Finish
  <1>8. CASE Stop
    BY <1>8 DEF Stop, Successors
  <1>9. CASE ForceStop
    BY <1>9 DEF ForceStop, Finish
  <1>10. CASE \E s \in Stream : SyncUpdate(s)
    BY <1>10 DEF SyncUpdate, loopVars
  <1>11. CASE \E s \in Stream : SyncDown(s)
    BY <1>11 DEF SyncDown, Finish
  <1> QED
    BY <1>1, <1>2, <1>3, <1>4, <1>5, <1>6, <1>7, <1>8, <1>9, <1>10, <1>11
    DEF Next, LoopStep

\* The sync id is set exactly while its session is the current one and its
\* SYNC_NEW has been read (syncStarted, syncClosed, attemptRetry, the finally block
\* of createSyncLoop), so tick never takes an update of an earlier session.
THEOREM SyncIdTheorem == Spec => []SyncIdMatchesState
  <1>1. Init => LoopInv
    BY DEF Init, LoopInv, SyncStates
  <1>2. LoopInv /\ [Next]_vars => LoopInv'
    BY LoopInvStep
  <1>3. LoopInv => SyncIdMatchesState
    BY DEF LoopInv, SyncIdMatchesState
  <1> QED BY <1>1, <1>2, <1>3, PTL DEF Spec

----------------------------------------------------------------------------
(* The stream map of the client.                                             *)

\* A stream whose removal waits was left and is still in the map, or the user
\* came back to it.
MapInv ==
    /\ blot \in [Stream -> SUBSET Blots]
    /\ joined \subseteq Stream /\ waiting \in Seq(Stream)
    /\ JoinedIsHeld
    /\ LeftIsRemoved
    /\ \A s \in Elements(waiting) :
          \/ blot[s] \intersect {"rejoined", "unloaded"} # {}
          \/ s \in has /\ s \notin joined

mapCore == <<has, joined, waiting>>

\* Blots are never taken back.
BlotsGrow == blot' \in [Stream -> SUBSET Blots] /\ \A s \in Stream : blot[s] \subseteq blot'[s]

\* The elements of a sequence with one more.
LEMMA ElementsOfAppend ==
    ASSUME NEW q \in Seq(Stream), NEW s \in Stream
    PROVE  Elements(Append(q, s)) = Elements(q) \cup {s}
  <1>1. \A i \in DOMAIN q : Append(q, s)[i] = q[i]
    OBVIOUS
  <1>2. Append(q, s)[Len(q) + 1] = s
    OBVIOUS
  <1>3. DOMAIN Append(q, s) = DOMAIN q \cup {Len(q) + 1}
    OBVIOUS
  <1> QED BY <1>1, <1>2, <1>3 DEF Elements

\* The empty sequence has no elements.
LEMMA ElementsOfEmpty == Elements(<<>>) = {}
  BY DEF Elements

\* Every step keeps the map in order and takes no blot back.
LEMMA MapFacts ==
    ASSUME MapInv, [Next]_vars
    PROVE  MapInv' /\ BlotsGrow

  \* Adding a blot to one stream.
  <1>BlotGrows. ASSUME NEW s, NEW what \in Blots, blot \in [Stream -> SUBSET Blots],
                       Blot(s, what) \/ UNCHANGED blot
                PROVE  BlotsGrow
    BY <1>BlotGrows DEF Blot, BlotsGrow

  \* A step that leaves the map alone and takes no blot back keeps MapInv.
  <1>MapUnchanged. ASSUME MapInv, UNCHANGED mapCore, BlotsGrow
                   PROVE  MapInv'
    <2> USE <1>MapUnchanged
    <2>1. Elements(waiting)' = Elements(waiting)
      BY DEF mapCore, Elements
    <2>2. \A s \in Elements(waiting) : s \in Stream
      BY DEF MapInv, Elements
    <2> QED BY <2>1, <2>2 DEF MapInv, mapCore, JoinedIsHeld, LeftIsRemoved, BlotsGrow

  \* Removals that waited are over: Stop, or SYNC_NEW.
  <1>MapReleased. ASSUME MapInv, has' = has \ Elements(waiting), waiting' = <<>>, joined' = joined,
                         BlotsGrow
                  PROVE  MapInv'
    <2> USE <1>MapReleased
    <2>1. Elements(waiting)' = {}
      BY ElementsOfEmpty DEF Elements
    <2>2. \A s \in Elements(waiting) : s \in Stream
      BY DEF MapInv, Elements
    <2> QED BY <2>1, <2>2 DEF MapInv, JoinedIsHeld, LeftIsRemoved, BlotsGrow

  \* The steps of the loop and of ticks that do not touch the map.
  <1>OthersKeepMap. ASSUME MapInv,
                           \/ Start \/ SyncNew \/ SyncClose \/ ConnectionLost \/ RetryWaitOver
                           \/ FinishAfterUpdate \/ CancelSync \/ ForceStop \/ CheckStartTicking \/ TickTimer
                           \/ \E s \in Stream : SyncUpdate(s) \/ NewEvent(s)
                           \/ \E r \in readd : AddStreamFails(r)
                           \/ vars' = vars
                    PROVE  UNCHANGED mapCore /\ BlotsGrow
    <2> USE <1>OthersKeepMap
    <2>1. ASSUME UNCHANGED blot PROVE BlotsGrow
      BY <2>1 DEF BlotsGrow, MapInv
    <2>2. CASE \/ Start \/ SyncNew \/ SyncClose \/ ConnectionLost \/ RetryWaitOver
               \/ FinishAfterUpdate \/ ForceStop
      BY <2>1, <2>2 DEF Start, SyncNew, SyncClose, ConnectionLost, RetryWaitOver,
            FinishAfterUpdate, ForceStop, mapCore, clientVars
    <2>3. CASE CancelSync
      BY <2>1, <2>3 DEF CancelSync, mapCore, clientVars, loopVars
    <2>4. CASE CheckStartTicking \/ TickTimer
      BY <2>1, <2>4 DEF CheckStartTicking, TickTimer, Tick, mapCore, clientVars, loopVars
    <2>5. CASE \E s \in Stream : SyncUpdate(s) \/ NewEvent(s)
      BY <2>1, <2>5 DEF SyncUpdate, NewEvent, mapCore, clientVars, loopVars
    <2>6. CASE \E r \in readd : AddStreamFails(r)
      <3>1. PICK r \in readd : AddStreamFails(r)
        BY <2>6
      <3>2. UNCHANGED <<loopVars, clientVars, blot>>
        BY <3>1, Zenon DEF AddStreamFails
      <3> QED BY <2>1, <3>2 DEF mapCore, clientVars, loopVars
    <2>7. CASE vars' = vars
      BY <2>1, <2>7 DEF vars, mapCore, clientVars, loopVars
    <2> QED BY <2>2, <2>3, <2>4, <2>5, <2>6, <2>7

  \* The steps of ticks and of syncDown that may add a blot.
  <1>BlottingStepsKeepMap. ASSUME MapInv,
                                  \/ ModifyDone \/ ModifyFails \/ Apply \/ ApplyFails
                                  \/ \E s \in Stream : SyncDown(s)
                                  \/ \E r \in readd : AddStreamDone(r) \/ AddStreamAgain(r)
                           PROVE  UNCHANGED mapCore /\ BlotsGrow
    <2> USE <1>BlottingStepsKeepMap
    <2> USE DEF Blots
    <2>1. ASSUME UNCHANGED blot PROVE BlotsGrow
      BY <2>1 DEF BlotsGrow, MapInv
    <2>2. ASSUME NEW s, NEW what \in Blots, Blot(s, what) PROVE BlotsGrow
      BY <2>2, <1>BlotGrows DEF MapInv
    <2>3. CASE ModifyDone
      BY <2>3 DEF ModifyDone, mapCore, clientVars, loopVars, MapInv, BlotsGrow
    <2>4. CASE ModifyFails
      <3>1. UNCHANGED mapCore
        BY <2>4 DEF ModifyFails, mapCore, clientVars, loopVars
      <3> DEFINE restored == IF syncId = tick.sid /\ syncState = "Syncing"
                             THEN Elements(tick.del) \cap streams ELSE {}
      <3>2. \E done \in BOOLEAN : blot' = [s \in Stream |-> blot[s] \cup
                (IF done /\ s \in DOMAIN tick.pos THEN {"unknown"} ELSE {}) \cup
                (IF s \in restored THEN {"restored"} ELSE {})]
        BY <2>4 DEF ModifyFails
      <3> HIDE DEF restored
      <3> QED BY <3>1, <3>2 DEF MapInv, BlotsGrow
    <2>5. CASE Apply
      BY <2>1, <2>2, <2>5 DEF Apply, mapCore, clientVars, loopVars
    <2>6. CASE ApplyFails
      BY <2>1, <2>2, <2>6 DEF ApplyFails, mapCore, clientVars, loopVars
    <2>7. CASE \E s \in Stream : SyncDown(s)
      BY <2>1, <2>2, <2>7 DEF SyncDown, CallAddStreamToSync, mapCore, clientVars
    <2>8. CASE \E r \in readd : AddStreamDone(r)
      BY <2>1, <2>2, <2>8 DEF AddStreamDone, mapCore, clientVars, loopVars
    <2>9. CASE \E r \in readd : AddStreamAgain(r)
      BY <2>1, <2>2, <2>9 DEF AddStreamAgain, CallAddStreamToSync, mapCore, clientVars, loopVars
    <2> QED BY <2>3, <2>4, <2>5, <2>6, <2>7, <2>8, <2>9

  \* Every step keeps MapInv.
  <1>MapInvStep. ASSUME MapInv, [Next]_vars
                 PROVE  MapInv'
    <2> USE <1>MapInvStep
    <2>1. CASE \/ Start \/ SyncNew \/ SyncClose \/ ConnectionLost \/ RetryWaitOver
               \/ FinishAfterUpdate \/ CancelSync \/ ForceStop \/ CheckStartTicking \/ TickTimer
               \/ \E s \in Stream : SyncUpdate(s) \/ NewEvent(s)
               \/ \E r \in readd : AddStreamFails(r)
               \/ vars' = vars
      <3>1. UNCHANGED mapCore /\ BlotsGrow
        BY <2>1, <1>OthersKeepMap
      <3> QED BY <3>1, <1>MapUnchanged
    <2>2. CASE \/ ModifyDone \/ ModifyFails \/ Apply \/ ApplyFails
               \/ \E s \in Stream : SyncDown(s)
               \/ \E r \in readd : AddStreamDone(r) \/ AddStreamAgain(r)
      <3>1. UNCHANGED mapCore /\ BlotsGrow
        BY <2>2, <1>BlottingStepsKeepMap
      <3> QED BY <3>1, <1>MapUnchanged
    <2>3. CASE Stop
      <3>1. BlotsGrow
        BY <2>3 DEF Stop, BlotsGrow, MapInv, Blots
      <3>2. has' = has \ Elements(waiting) /\ waiting' = <<>> /\ joined' = joined
        BY <2>3 DEF Stop, ReleaseWaiting
      <3> QED BY <3>1, <3>2, <1>MapReleased
    <2>4. CASE ResumeRemovals
      <3>1. BlotsGrow
        BY <2>4 DEF ResumeRemovals, BlotsGrow, MapInv
      <3>2. has' = has \ Elements(waiting) /\ waiting' = <<>> /\ joined' = joined
        BY <2>4 DEF ResumeRemovals
      <3> QED BY <3>1, <3>2, <1>MapReleased
    <2>5. ASSUME NEW s \in Stream, Join(s) PROVE MapInv'
      <3>1. waiting' = waiting /\ Elements(waiting)' = Elements(waiting)
        BY <2>5 DEF Join, loopVars, Elements
      <3>2. joined' = joined \cup {s} /\ s \notin joined
        BY <2>5 DEF Join
      <3>3. \A x \in Elements(waiting) : x \in Stream
        BY DEF MapInv, Elements
      <3>4. CASE s \in loading \cup has
        <4>1. Blot(s, "rejoined") /\ has' = has
          BY <2>5, <3>4 DEF Join
        <4>2. BlotsGrow /\ "rejoined" \in blot'[s]
          BY <4>1 DEF Blot, BlotsGrow, Blots, MapInv
        <4> QED BY <3>1, <3>2, <3>3, <4>1, <4>2
                DEF MapInv, JoinedIsHeld, LeftIsRemoved, BlotsGrow
      <3>5. CASE s \notin loading \cup has
        <4>1. has' = has \cup {s} /\ blot' = blot
          BY <2>5, <3>5 DEF Join
        <4> QED BY <3>1, <3>2, <3>5, <4>1 DEF MapInv, JoinedIsHeld, LeftIsRemoved
      <3> QED BY <3>4, <3>5
    <2>6. ASSUME NEW s \in Stream, Loaded(s) PROVE MapInv'
      <3>1. UNCHANGED mapCore
        BY <2>6 DEF Loaded, mapCore, loopVars
      <3>2. "kept" \in Blots
        BY DEF Blots
      <3>3. Blot(s, "kept") \/ UNCHANGED blot
        BY <2>6 DEF Loaded
      <3>4. BlotsGrow
        BY <3>2, <3>3, <1>BlotGrows DEF MapInv
      <3> QED BY <3>1, <3>4, <1>MapUnchanged
    <2>8. ASSUME NEW s \in Stream, LoadFails(s) PROVE MapInv'
      <3>1. has' = has \ {s} /\ joined' = joined /\ waiting' = waiting
        BY <2>8 DEF LoadFails, loopVars
      <3>2. Blot(s, "unloaded")
        BY <2>8 DEF LoadFails
      <3>3. BlotsGrow /\ "unloaded" \in blot'[s]
        BY <3>2 DEF Blot, BlotsGrow, Blots, MapInv
      <3>4. Elements(waiting)' = Elements(waiting) /\ \A x \in Elements(waiting) : x \in Stream
        BY <3>1 DEF MapInv, Elements
      <3> QED BY <3>1, <3>3, <3>4 DEF MapInv, JoinedIsHeld, LeftIsRemoved, BlotsGrow
    <2>7. ASSUME NEW s \in Stream, Leave(s) PROVE MapInv'
      <3>1. joined' = joined \ {s} /\ s \in joined
        BY <2>7 DEF Leave
      <3>2. CASE waiting' = Append(waiting, s) /\ has' = has /\ s \in has
        <4>1. Elements(waiting)' = Elements(waiting) \cup {s} /\ waiting' \in Seq(Stream)
          BY <3>2, ElementsOfAppend DEF MapInv, Elements
        <4>2. \A x \in Elements(waiting) : x \in Stream
          BY DEF MapInv, Elements
        <4>3. "twice" \in Blots
          BY DEF Blots
        <4>4. Blot(s, "twice") \/ UNCHANGED blot
          BY <2>7 DEF Leave
        <4>5. BlotsGrow
          BY <4>3, <4>4, <1>BlotGrows DEF MapInv
        <4> QED BY <3>1, <3>2, <4>1, <4>2, <4>5
                DEF MapInv, JoinedIsHeld, LeftIsRemoved, BlotsGrow
      <3>3. CASE UNCHANGED <<waiting, blot>> /\ has' = has \ {s}
        <4>1. Elements(waiting)' = Elements(waiting)
          BY <3>3 DEF Elements
        <4> QED BY <3>1, <3>3, <4>1 DEF MapInv, JoinedIsHeld, LeftIsRemoved
      <3> QED BY <2>7, <3>2, <3>3 DEF Leave
    <2> QED
      BY <2>1, <2>2, <2>3, <2>4, <2>5, <2>6, <2>7, <2>8 DEF Next, LoopStep, TickStep, MapStep

  \* No step takes a blot back.
  <1>BlotsStep. ASSUME MapInv, [Next]_vars
                PROVE  BlotsGrow
    <2> USE <1>BlotsStep
    <2>0. blot \in [Stream -> SUBSET Blots]
      BY DEF MapInv
    <2>1. CASE \/ Start \/ SyncNew \/ SyncClose \/ ConnectionLost \/ RetryWaitOver
               \/ FinishAfterUpdate \/ CancelSync \/ ForceStop \/ CheckStartTicking \/ TickTimer
               \/ \E s \in Stream : SyncUpdate(s) \/ NewEvent(s)
               \/ \E r \in readd : AddStreamFails(r)
               \/ vars' = vars
      BY <2>1, <1>OthersKeepMap
    <2>2. CASE \/ ModifyDone \/ ModifyFails \/ Apply \/ ApplyFails
               \/ \E s \in Stream : SyncDown(s)
               \/ \E r \in readd : AddStreamDone(r) \/ AddStreamAgain(r)
      BY <2>2, <1>BlottingStepsKeepMap
    <2>3. CASE Stop
      BY <2>0, <2>3 DEF Stop, BlotsGrow, Blots
    <2>4. CASE ResumeRemovals
      BY <2>0, <2>4 DEF ResumeRemovals, BlotsGrow
    <2>5. ASSUME NEW s \in Stream, Join(s) \/ Loaded(s) \/ LoadFails(s) \/ Leave(s)
          PROVE  BlotsGrow
      <3>1. UNCHANGED blot \/ \E what \in {"rejoined", "kept", "unloaded", "twice"} : Blot(s, what)
        BY <2>5 DEF Join, Loaded, LoadFails, Leave
      <3>2. {"rejoined", "kept", "unloaded", "twice"} \subseteq Blots
        BY DEF Blots
      <3> QED BY <2>0, <3>1, <3>2, <1>BlotGrows
    <2> QED BY <2>1, <2>2, <2>3, <2>4, <2>5 DEF Next, LoopStep, TickStep, MapStep
  <1> QED BY <1>MapInvStep, <1>BlotsStep

\* The map the client keeps of its streams follows the user's memberships: a stream
\* joined is held and one left is removed, or on its way out, however joins and
\* leaves race with loads, removals, reconnects and stop (onJoinedStream, initStream,
\* onLeftStream, removeStreamFromSync); a stream may be missing only after a
\* re-join that met its load or its removal, or after a load that failed.
THEOREM MembershipTheorem == Spec => []MapFollowsMembership
  <1>1. Init => MapInv
    BY ElementsOfEmpty DEF Init, MapInv, JoinedIsHeld, LeftIsRemoved
  <1>2. MapInv /\ [Next]_vars => MapInv'
    BY MapFacts
  <1>3. MapInv => MapFollowsMembership
    BY DEF MapInv, MapFollowsMembership
  <1> QED BY <1>1, <1>2, <1>3, PTL DEF Spec

----------------------------------------------------------------------------
(* Types, and the sessions that updates and calls name.                      *)

Item == [sid : Nat, s : Stream, from : Nat, to : Nat, reset : BOOLEAN]

Readd == [s : Stream, sid : Nat, at : Nat, call : BOOLEAN]

Unpack == [at : {"unpack"}, item : Item, live : BOOLEAN]

\* A session that has been open.
Dated(sid) == sid \in Nat \ {0} /\ sid <= session /\ (conn = "opening" => sid < session)

ItemFits(x) == Dated(x.sid) /\ x.from <= x.to /\ x.to <= pos[x.s]

ListsOK ==
    /\ streams \subseteq Stream /\ pendingSync \subseteq Stream /\ inFlight \subseteq Stream
    /\ has \subseteq Stream
    /\ pendingDelete \in Seq(Stream) /\ waiting \in Seq(Stream)

NumbersOK ==
    /\ cookie \in [Stream -> Nat] /\ app \in [Stream -> Nat] /\ pos \in [Stream -> Nat]
    /\ sub \in [Stream -> Nat \cup {Unsubscribed}]
    /\ \A s \in Stream : app[s] <= pos[s]

SessionOK ==
    /\ session \in Nat
    /\ conn \in {"opening", "open", "closed"}
    /\ loop = "reading" /\ conn = "open" => syncId = session
    /\ syncState = "Starting" => conn = "opening"
    /\ loop = "reading" => session # 0
    /\ syncId \in {0, session}

TickOK ==
    /\ tick.at \in {"idle", "modify", "unpack"}
    /\ tick.at = "modify" =>
          /\ Dated(tick.sid) /\ tick.add \subseteq Stream
          /\ DOMAIN tick.pos \subseteq tick.add /\ \A s \in DOMAIN tick.pos : tick.pos[s] \in Nat
          /\ tick.del \in Seq(Stream)
    /\ tick.at = "unpack" => tick \in Unpack /\ ItemFits(tick.item)

QueueOK == queue \in Seq(Item) /\ \A i \in 1 .. Len(queue) : ItemFits(queue[i])

ReaddOK == readd \subseteq Readd /\ \A r \in readd : Dated(r.sid)

\* Before the loop has started there is nothing to do.
IdleAtFirst ==
    loop = "none" =>
        /\ queue = <<>> /\ tick = Idle /\ readd = {} /\ streams = {} /\ syncId = 0
        /\ pendingSync = {} /\ pendingDelete = <<>> /\ micro = <<>>

Shape ==
    LoopInv /\ SessionOK /\ ListsOK /\ NumbersOK /\ TickOK /\ QueueOK /\ ReaddOK /\ IdleAtFirst

----------------------------------------------------------------------------
(* What a tick does.                                                         *)

\* The second half of a tick found nothing to apply, or an update to apply.
Takes(fl) ==
    /\ inFlight' \subseteq fl
    /\ \/ queue = <<>> /\ queue' = queue /\ tick' = Idle
       \/ /\ queue # <<>> /\ queue' = Tail(queue) /\ tick' = Idle
          /\ queue[1].sid = syncId => queue[1].s \notin streams
       \/ /\ queue # <<>> /\ queue' = Tail(queue)
          /\ tick' = [at |-> "unpack", item |-> queue[1], live |-> TRUE]
          /\ queue[1].sid = syncId /\ queue[1].s \in streams

\* The first half of a tick sent a request.
Sends(add, del) ==
    /\ syncState = "Syncing" /\ queue' = queue
    /\ add \subseteq pendingSync /\ pendingSync' = pendingSync \ add
    /\ inFlight' = inFlight \cup add
    /\ pendingDelete' \in Seq(Stream)
    /\ Elements(del) \subseteq Elements(pendingDelete) \ inFlight
    /\ Elements(pendingDelete)' = Elements(pendingDelete) \ (inFlight \cup Elements(del))
    /\ \A s : Once(pendingDelete, s) => Once(pendingDelete, s)' /\ Once(del, s)
    /\ tick' = [at |-> "modify", sid |-> syncId, add |-> add,
                pos |-> [s \in add \cap streams |-> cookie[s]], del |-> del]

\* What the second half of a tick does.
LEMMA TakeFacts ==
    ASSUME NEW fl, TakeResponse(fl), queue \in Seq(Item)
    PROVE  Takes(fl)
  <1>1. queue # <<>> => Head(queue) = queue[1]
    OBVIOUS
  <1>2. CASE queue = <<>>
    BY <1>2 DEF TakeResponse, EndTick, Takes
  <1>3. CASE queue # <<>>
    BY <1>1, <1>3 DEF TakeResponse, EndTick, Takes
  <1> QED BY <1>2, <1>3

\* A tick does nothing, sends a request, or takes an update.
LEMMA TickFacts ==
    ASSUME FilterFacts, ListsOK, QueueOK, Tick
    PROVE  \/ UNCHANGED <<pendingSync, inFlight, pendingDelete, queue, tick>>
           \/ tick = Idle /\ \E add : \E del \in Seq(Stream) : Sends(add, del)
           \/ tick = Idle /\ Takes(inFlight) /\ UNCHANGED <<pendingSync, pendingDelete>>

  \* What the first half of a tick does.
  <1>SendFacts. ASSUME FilterFacts, ListsOK, SendModify(Without(pendingDelete, inFlight)), syncState = "Syncing",
                       queue' = queue
                PROVE  \E add : \E del \in Seq(Stream) : Sends(add, del)
    <2> USE <1>SendFacts

    \* A prefix has elements of the sequence only, and repeats none that it does not.
    <2>PrefixFacts. ASSUME NEW q \in Seq(Stream), NEW m \in Nat, m <= Len(q)
                    PROVE  /\ SubSeq(q, 1, m) \in Seq(Stream)
                           /\ Elements(SubSeq(q, 1, m)) \subseteq Elements(q)
                           /\ \A s : Once(q, s) => Once(SubSeq(q, 1, m), s)
      <3> USE <2>PrefixFacts
      <3>1. PICK d \in Seq(Stream) :
               d = SubSeq(q, 1, m) /\ Len(d) = m /\ \A i \in 1 .. m : d[i] = q[i]
        <4>1. /\ SubSeq(q, 1, m) \in Seq(Stream) /\ Len(SubSeq(q, 1, m)) = m
              /\ \A i \in 1 .. m : SubSeq(q, 1, m)[i] = q[i]
          OBVIOUS
        <4> QED BY <4>1
      <3>2. Len(d) = m /\ \A i \in 1 .. m : d[i] = q[i]
        BY <3>1
      <3>3. DOMAIN d = 1 .. m /\ DOMAIN q = 1 .. Len(q)
        BY <3>2
      <3>4. \A i \in DOMAIN d : i \in DOMAIN q /\ d[i] = q[i]
        BY <3>2, <3>3
      <3> QED BY <3>1, <3>4 DEF Elements, Once
    <2> DEFINE toDelete == Without(pendingDelete, inFlight)
               m == Smaller(MaxInFlight, Len(toDelete))
               del == SubSeq(toDelete, 1, m)
    <2>1. /\ toDelete \in Seq(Stream) /\ Elements(toDelete) = Elements(pendingDelete) \ inFlight
          /\ \A s : Once(pendingDelete, s) => Once(toDelete, s)
      BY DEF FilterFacts, ListsOK
    <2>2. PICK add \in First(pendingSync, MaxInFlight) :
             /\ pendingSync' = pendingSync \ add
             /\ pendingDelete' = Without(toDelete, Elements(del))
             /\ inFlight' = inFlight \cup add
             /\ tick' = [at |-> "modify", sid |-> syncId, add |-> add,
                         pos |-> [s \in add \cap streams |-> cookie[s]], del |-> del]
      BY Zenon DEF SendModify
    <2>3. add \subseteq pendingSync
      BY <2>2 DEF First
    <2> HIDE DEF toDelete
    <2>4. m \in Nat /\ m <= Len(toDelete)
      BY <2>1, LoopAssumption DEF Smaller
    <2>5. /\ del \in Seq(Stream) /\ Elements(del) \subseteq Elements(toDelete)
          /\ \A s : Once(toDelete, s) => Once(del, s)
      BY <2>1, <2>4, <2>PrefixFacts
    <2> HIDE DEF del
    <2>6. /\ pendingDelete' \in Seq(Stream)
          /\ Elements(pendingDelete') = Elements(toDelete) \ Elements(del)
          /\ \A s : Once(toDelete, s) => Once(pendingDelete', s)
      BY <2>1, <2>2 DEF FilterFacts
    <2>7. Sends(add, del)
      <3>1. Elements(pendingDelete)' = Elements(pendingDelete')
        BY DEF Elements
      <3>2. \A s : Once(pendingDelete, s)' <=> Once(pendingDelete', s)
        BY DEF Once
      <3> QED BY <2>1, <2>2, <2>3, <2>5, <2>6, <3>1, <3>2 DEF Sends
    <2> QED BY <2>5, <2>7
  <1>1. queue \in Seq(Item)
    BY DEF QueueOK
  <1> QED BY <1>1, TakeFacts, <1>SendFacts DEF Tick

\* A tick that takes an update sends no request.
LEMMA TakesIdle ==
    ASSUME NEW fl, Takes(fl)
    PROVE  tick'.at # "modify"
  BY DEF Takes, Idle

\* How the tick moves.
LEMMA TickMoves ==
    ASSUME FilterFacts, Shape, [Next]_vars
    PROVE  \/ tick' = tick \/ tick' = Idle
           \/ tick = Idle /\ \E add : \E del \in Seq(Stream) : Sends(add, del)
           \/ /\ queue # <<>> /\ queue[1].sid = syncId /\ queue[1].s \in streams
              /\ tick' = [at |-> "unpack", item |-> queue[1], live |-> TRUE]
           \/ tick.at = "unpack" /\ tick' = [tick EXCEPT !.live = FALSE]
  <1>0. ListsOK /\ QueueOK /\ queue \in Seq(Item)
    BY DEF Shape, QueueOK
  <1>1. CASE LoopStep
    BY <1>1 DEF LoopStep, Start, SyncNew, SyncClose, ConnectionLost, RetryWaitOver,
       FinishAfterUpdate, Stop, CancelSync, ForceStop, SyncUpdate, SyncDown, tickVars
  <1>2. CASE CheckStartTicking \/ TickTimer
    <2>1. Tick
      BY <1>2 DEF CheckStartTicking, TickTimer
    <2> QED BY <1>0, <2>1, TickFacts DEF Takes
  <1>3. CASE ModifyDone \/ ModifyFails
    <2>1. \E fl : TakeResponse(fl)
      BY <1>3 DEF ModifyDone, ModifyFails
    <2> QED BY <1>0, <2>1, TakeFacts DEF Takes
  <1>4. CASE Apply \/ ApplyFails
    BY <1>4 DEF Apply, ApplyFails, EndTick
  <1>5. CASE ResumeRemovals
    BY <1>5 DEF ResumeRemovals, Forget
  <1>6. CASE \E r \in readd : AddStreamDone(r) \/ AddStreamFails(r) \/ AddStreamAgain(r)
    BY <1>6 DEF AddStreamDone, AddStreamFails, AddStreamAgain, tickVars
  <1>7. CASE \E s \in Stream : Join(s) \/ Loaded(s) \/ LoadFails(s) \/ NewEvent(s)
    BY <1>7 DEF Join, Loaded, LoadFails, NewEvent, tickVars
  <1>8. CASE \E s \in Stream : Leave(s)
    BY <1>8 DEF Leave, Forget
  <1>9. CASE vars' = vars
    BY <1>9 DEF vars, tickVars
  <1> QED BY <1>1, <1>2, <1>3, <1>4, <1>5, <1>6, <1>7, <1>8, <1>9 DEF Next, TickStep, MapStep

\* A request takes the streams it names to their cookies, or away.
LEMMA ModifySub ==
    ASSUME Shape, NEW refused \in SUBSET DOMAIN tick.pos, tick.at = "modify",
           ModifyAtNode(tick.pos, refused, tick.del)
    PROVE  /\ sub' \in [Stream -> Nat \cup {Unsubscribed}]
           /\ \A s \in Stream :
                 \/ sub'[s] = sub[s]
                 \/ s \in DOMAIN tick.pos \ refused /\ sub'[s] = tick.pos[s]
                 \/ s \in Elements(tick.del) /\ sub'[s] = Unsubscribed
           /\ \A s \in DOMAIN tick.pos \ refused : s \notin Elements(tick.del) => sub'[s] # Unsubscribed
           /\ \A s \in Elements(tick.del) : s \notin DOMAIN tick.pos => sub'[s] = Unsubscribed
  <1>1. /\ sub \in [Stream -> Nat \cup {Unsubscribed}]
        /\ \A s \in DOMAIN tick.pos : tick.pos[s] \in Nat /\ s \in Stream
        /\ Elements(tick.del) \subseteq Stream
    BY DEF Shape, NumbersOK, TickOK, Elements
  <1>2. \A s \in DOMAIN tick.pos : tick.pos[s] # Unsubscribed
    BY <1>1 DEF Unsubscribed
  <1> DEFINE fills == {s \in DOMAIN tick.pos \ refused : ~ SharedSyncer \/ sub[s] = Unsubscribed}
             gone == Elements(tick.del) \cup {s \in refused : sub[s] = Unsubscribed}
  <1>3. sub' = [s \in Stream |-> IF s \in fills THEN tick.pos[s]
                                ELSE IF s \in gone THEN Unsubscribed ELSE sub[s]]
    BY DEF ModifyAtNode
  <1>4. /\ fills \subseteq DOMAIN tick.pos \ refused
        /\ \A s \in DOMAIN tick.pos \ refused : s \in fills \/ sub[s] # Unsubscribed
    OBVIOUS
  <1>5. \A s \in gone : s \in Elements(tick.del) \/ (s \in refused /\ sub[s] = Unsubscribed)
    OBVIOUS
  <1>6. Elements(tick.del) \subseteq gone
    OBVIOUS
  <1> HIDE DEF fills, gone
  <1>7. sub' \in [Stream -> Nat \cup {Unsubscribed}]
    BY <1>1, <1>3, <1>4
  <1>8. \A s \in Stream :
           \/ sub'[s] = sub[s]
           \/ s \in DOMAIN tick.pos \ refused /\ sub'[s] = tick.pos[s]
           \/ s \in Elements(tick.del) /\ sub'[s] = Unsubscribed
    BY <1>3, <1>4, <1>5
  <1>9. \A s \in DOMAIN tick.pos \ refused : s \notin Elements(tick.del) => sub'[s] # Unsubscribed
    BY <1>1, <1>2, <1>3, <1>4, <1>5
  <1>10. \A s \in Elements(tick.del) : s \notin DOMAIN tick.pos => sub'[s] = Unsubscribed
    BY <1>1, <1>3, <1>4, <1>6
  <1> QED BY <1>7, <1>8, <1>9, <1>10

\* Every step keeps the shape of the state.
LEMMA ShapeStep ==
    ASSUME FilterFacts, SpliceFacts, Shape, [Next]_vars
    PROVE  Shape'

  \* A session number is never used again, and a new one starts out opening.
  <1>SessionStep. ASSUME LoopInv, SessionOK, [Next]_vars
                  PROVE  /\ SessionOK'
                         /\ \/ session' = session /\ (conn' = "opening" => conn = "opening")
                            \/ session' = session + 1 /\ conn' = "opening"
    <2> USE <1>SessionStep
    <2> USE DEF LoopInv, SessionOK, SyncStates
    <2>1. CASE TickStep \/ MapStep \/ CancelSync \/ vars' = vars
      <3>1. UNCHANGED loopCore
        BY <2>1, OthersKeepLoop
      <3> QED BY <3>1 DEF loopCore
    <2>2. CASE Start
      BY <2>2 DEF Start, NextIteration
    <2>3. CASE SyncNew
      BY <2>3 DEF SyncNew, Finish
    <2>4. CASE SyncClose
      BY <2>4 DEF SyncClose, Finish, NextIteration
    <2>5. CASE ConnectionLost
      BY <2>5 DEF ConnectionLost, Finish
    <2>6. CASE RetryWaitOver
      BY <2>6 DEF RetryWaitOver, Finish, NextIteration
    <2>7. CASE FinishAfterUpdate
      BY <2>7 DEF FinishAfterUpdate, Finish, serverVars
    <2>8. CASE Stop
      BY <2>8 DEF Stop, Successors, serverVars
    <2>9. CASE ForceStop
      BY <2>9 DEF ForceStop, Finish, serverVars
    <2>10. CASE \E s \in Stream : SyncUpdate(s)
      BY <2>10 DEF SyncUpdate, loopVars
    <2>11. CASE \E s \in Stream : SyncDown(s)
      BY <2>11 DEF SyncDown, Finish
    <2> QED
      BY <2>1, <2>2, <2>3, <2>4, <2>5, <2>6, <2>7, <2>8, <2>9, <2>10, <2>11
      DEF Next, LoopStep

  \* A session that has been open stays one.
  <1>DatedStays. ASSUME LoopInv, SessionOK, [Next]_vars, NEW sid, Dated(sid)
                 PROVE  Dated(sid)'
    BY <1>DatedStays, <1>SessionStep DEF Dated, SessionOK

  \* Streams only grow on the node.
  <1>PosGrows. ASSUME NumbersOK, [Next]_vars
               PROVE  pos' \in [Stream -> Nat] /\ \A s \in Stream : pos[s] <= pos'[s]
    <2> USE <1>PosGrows
    <2>1. CASE \E s \in Stream : NewEvent(s)
      BY <2>1 DEF NewEvent, NumbersOK
    <2>2. ASSUME UNCHANGED pos PROVE pos' \in [Stream -> Nat] /\ \A s \in Stream : pos[s] <= pos'[s]
      BY <2>2 DEF NumbersOK
    <2>3. CASE LoopStep
      BY <2>2, <2>3 DEF LoopStep, Start, SyncNew, SyncClose, ConnectionLost, RetryWaitOver,
         FinishAfterUpdate, Stop, CancelSync, ForceStop, SyncUpdate, SyncDown, serverVars
    <2>4. CASE CheckStartTicking \/ TickTimer \/ ModifyDone \/ ModifyFails
      BY <2>2, <2>4 DEF CheckStartTicking, TickTimer, Tick, ModifyDone, ModifyFails, serverVars
    <2>5. CASE \/ Apply \/ ApplyFails \/ ResumeRemovals
               \/ \E r \in readd : AddStreamDone(r) \/ AddStreamFails(r) \/ AddStreamAgain(r)
      BY <2>2, <2>5 DEF Apply, ApplyFails, ResumeRemovals, AddStreamDone, AddStreamFails,
         AddStreamAgain, serverVars
    <2>6. CASE \E s \in Stream : Join(s) \/ Loaded(s) \/ LoadFails(s) \/ Leave(s)
      BY <2>2, <2>6 DEF Join, Loaded, LoadFails, Leave, serverVars
    <2>7. CASE vars' = vars
      BY <2>2, <2>7 DEF vars, serverVars
    <2> QED BY <2>1, <2>3, <2>4, <2>5, <2>6, <2>7 DEF Next, TickStep, MapStep

  \* The lists of the loop keep their types.
  <1>ListsStep. ASSUME Shape, [Next]_vars
                PROVE  ListsOK'
    <2> USE <1>ListsStep
    <2> USE DEF ListsOK
    <2>0. ListsOK /\ QueueOK
      BY DEF Shape
    <2>1. CASE Start \/ SyncClose \/ RetryWaitOver
      <3>1. ASSUME NEW known \in SUBSET Stream, NextIteration(known), UNCHANGED <<has, waiting>>
            PROVE  ListsOK'
        BY <2>0, <3>1 DEF NextIteration
      <3>2. ASSUME Finish, UNCHANGED <<pendingSync, inFlight, pendingDelete, has, waiting>>
            PROVE  ListsOK'
        BY <2>0, <3>2 DEF Finish
      <3>3. CASE Start
        BY <2>0, <3>1, <3>3 DEF Start, clientVars
      <3>4. CASE SyncClose
        BY <2>0, <3>1, <3>2, <3>4 DEF SyncClose, clientVars
      <3>5. CASE RetryWaitOver
        BY <2>0, <3>1, <3>2, <3>5 DEF RetryWaitOver, clientVars
      <3> QED BY <2>1, <3>3, <3>4, <3>5
    <2>2. CASE SyncNew \/ ConnectionLost \/ FinishAfterUpdate \/ ForceStop
      <3>1. CASE SyncNew
        BY <2>0, <3>1 DEF SyncNew, Finish, clientVars
      <3>2. CASE ConnectionLost
        <4>1. <<>> \in Seq(Stream)
          OBVIOUS
        <4>2. /\ UNCHANGED <<has, waiting>> /\ streams' \subseteq streams
              /\ pendingSync' \subseteq pendingSync /\ inFlight' \subseteq inFlight
              /\ pendingDelete' = <<>> \/ pendingDelete' = pendingDelete
          BY <3>2 DEF ConnectionLost, Finish, clientVars
        <4> QED BY <2>0, <4>1, <4>2
      <3>3. CASE FinishAfterUpdate \/ ForceStop
        BY <2>0, <3>3 DEF FinishAfterUpdate, ForceStop, Finish, clientVars
      <3> QED BY <2>2, <3>1, <3>2, <3>3
    <2>3. CASE Stop
      BY <2>0, <2>3 DEF Stop, ReleaseWaiting
    <2>4. CASE CancelSync \/ \E s \in Stream : SyncUpdate(s)
      BY <2>0, <2>4 DEF CancelSync, SyncUpdate, loopVars, listVars, clientVars
    <2>5. CASE \E s \in Stream : SyncDown(s)
      BY <2>0, <2>5 DEF SyncDown, Finish, clientVars
    <2>6. CASE CheckStartTicking \/ TickTimer
      <3>1. Tick
        BY <2>6 DEF CheckStartTicking, TickTimer
      <3>2. UNCHANGED <<streams, has, waiting>>
        BY <3>1 DEF Tick, clientVars, loopVars
      <3> QED BY <2>0, <3>1, <3>2, TickFacts DEF Sends, Takes
    <2>7. CASE ModifyDone
      <3>1. UNCHANGED <<streams, has, waiting, pendingSync, pendingDelete>> /\ TakeResponse(inFlight)
        BY <2>7 DEF ModifyDone, clientVars, loopVars
      <3> QED BY <2>0, <3>1, TakeFacts DEF Takes, QueueOK
    <2>8. CASE ModifyFails
      <3>1. /\ UNCHANGED <<streams, has, waiting>>
            /\ pendingSync' \subseteq pendingSync \cup inFlight
            /\ pendingDelete' = pendingDelete \o tick.del \/ pendingDelete' = pendingDelete
            /\ tick.at = "modify"
        BY <2>8 DEF ModifyFails, clientVars, loopVars
      <3>2. \E fl \in SUBSET inFlight : TakeResponse(fl)
        BY <2>8 DEF ModifyFails
      <3>3. inFlight' \subseteq inFlight
        BY <2>0, <3>2, TakeFacts DEF Takes, QueueOK
      <3>4. pendingDelete' \in Seq(Stream)
        BY <2>0, <3>1, ConcatFacts DEF Shape, TickOK
      <3> QED BY <2>0, <3>1, <3>3, <3>4
    <2>9. CASE Apply \/ ApplyFails
      BY <2>0, <2>9 DEF Apply, ApplyFails, loopVars, listVars, clientVars
    <2>10. CASE ResumeRemovals
      <3>1. /\ pendingDelete' = pendingDelete \o waiting /\ waiting' = <<>>
            /\ pendingSync' = pendingSync /\ streams' \subseteq streams
            /\ inFlight' \subseteq inFlight /\ has' \subseteq has
        BY <2>10 DEF ResumeRemovals
      <3>2. pendingDelete' \in Seq(Stream)
        BY <2>0, <3>1, ConcatFacts
      <3> QED BY <2>0, <3>1, <3>2
    <2>11. CASE \E r \in readd : AddStreamDone(r) \/ AddStreamFails(r) \/ AddStreamAgain(r)
      BY <2>0, <2>11 DEF AddStreamDone, AddStreamFails, AddStreamAgain, loopVars, listVars, clientVars
    <2>12. CASE \E s \in Stream : Join(s) \/ LoadFails(s) \/ NewEvent(s)
      BY <2>0, <2>12 DEF Join, LoadFails, NewEvent, loopVars, listVars, clientVars
    <2>13. ASSUME NEW s \in Stream, Loaded(s) PROVE ListsOK'
      <3>1. /\ UNCHANGED <<inFlight, has, waiting>>
            /\ streams' = streams \cup {s} \/ streams' = streams
            /\ pendingSync' = pendingSync \cup {s} \/ pendingSync' = pendingSync
            /\ pendingDelete' = DropFirst(pendingDelete, s) \/ pendingDelete' = pendingDelete
        BY <2>13 DEF Loaded, loopVars
      <3>2. pendingDelete' \in Seq(Stream)
        BY <2>0, <3>1 DEF SpliceFacts
      <3> QED BY <2>0, <3>1, <3>2
    <2>14. ASSUME NEW s \in Stream, Leave(s) PROVE ListsOK'
      <3>1. /\ streams' \subseteq streams /\ pendingSync' \subseteq pendingSync
            /\ inFlight' \subseteq inFlight /\ has' \subseteq has
        BY <2>14 DEF Leave, listVars
      <3>2. /\ waiting' = Append(waiting, s) \/ waiting' = waiting
            /\ pendingDelete' = Append(pendingDelete, s) \/ pendingDelete' = pendingDelete
        BY <2>14 DEF Leave, listVars
      <3>3. waiting' \in Seq(Stream) /\ pendingDelete' \in Seq(Stream)
        <4>1. \A q \in Seq(Stream) : Append(q, s) \in Seq(Stream)
          OBVIOUS
        <4> QED BY <2>0, <3>2, <4>1, Zenon
      <3> QED BY <2>0, <3>1, <3>3
    <2>15. CASE vars' = vars
      BY <2>0, <2>15 DEF vars, loopVars, listVars, clientVars
    <2> QED
      BY <2>1, <2>2, <2>3, <2>4, <2>5, <2>6, <2>7, <2>8, <2>9, <2>10, <2>11, <2>12, <2>13, <2>14, <2>15
      DEF Next, LoopStep, TickStep, MapStep

  \* How the queue moves.
  <1>QueueMoves. ASSUME Shape, [Next]_vars
                 PROVE  \/ queue' = queue \/ queue' = <<>> \/ (queue # <<>> /\ queue' = Tail(queue))
                        \/ \E s \in Stream : SyncUpdate(s)
    <2> USE <1>QueueMoves
    <2>0. ListsOK /\ QueueOK /\ queue \in Seq(Item)
      BY DEF Shape, QueueOK
    <2>1. ASSUME LoopStep, ~ \E s \in Stream : SyncUpdate(s) PROVE queue' = queue \/ queue' = <<>>
      BY <2>1 DEF LoopStep, Start, SyncNew, SyncClose, ConnectionLost, RetryWaitOver,
         FinishAfterUpdate, Stop, CancelSync, ForceStop, SyncDown, tickVars
    <2>2. CASE CheckStartTicking \/ TickTimer
      <3>1. Tick
        BY <2>2 DEF CheckStartTicking, TickTimer
      <3> QED BY <2>0, <3>1, TickFacts DEF Sends, Takes
    <2>3. CASE ModifyDone \/ ModifyFails
      <3>1. \E fl : TakeResponse(fl)
        BY <2>3 DEF ModifyDone, ModifyFails
      <3> QED BY <2>0, <3>1, TakeFacts DEF Takes
    <2>4. CASE \/ Apply \/ ApplyFails \/ ResumeRemovals
               \/ \E r \in readd : AddStreamDone(r) \/ AddStreamFails(r) \/ AddStreamAgain(r)
      BY <2>4 DEF Apply, ApplyFails, ResumeRemovals, AddStreamDone, AddStreamFails,
         AddStreamAgain, tickVars
    <2>5. CASE MapStep
      BY <2>5 DEF MapStep, Join, Loaded, LoadFails, Leave, NewEvent, tickVars
    <2>6. CASE vars' = vars
      BY <2>6 DEF vars, tickVars
    <2> QED BY <2>1, <2>2, <2>3, <2>4, <2>5, <2>6 DEF Next, TickStep

  \* An update that fits its stream keeps fitting it.
  <1>FitsStays. ASSUME Shape, [Next]_vars, NEW x \in Item, ItemFits(x)
                PROVE  ItemFits(x)'
    <2> USE <1>FitsStays
    <2>1. Dated(x.sid)'
      BY <1>DatedStays DEF Shape, ItemFits
    <2>2. x.to \in Nat /\ x.s \in Stream
      BY DEF Item
    <2>3. pos[x.s] \in Nat /\ pos'[x.s] \in Nat /\ pos[x.s] <= pos'[x.s]
      BY <2>2, <1>PosGrows DEF Shape, NumbersOK
    <2> QED BY <2>1, <2>2, <2>3 DEF ItemFits

  \* The queue keeps its type.
  <1>QueueStep. ASSUME Shape, [Next]_vars
                PROVE  QueueOK'
    <2> USE <1>QueueStep
    <2>0. queue \in Seq(Item) /\ \A i \in 1 .. Len(queue) : queue[i] \in Item /\ ItemFits(queue[i])
      BY DEF Shape, QueueOK
    <2>1. \A x \in Item : ItemFits(x) => ItemFits(x)'
      BY <1>FitsStays
    <2>6. ASSUME queue' \in Seq(Item),
                 \A i \in 1 .. Len(queue') : \E x \in Item : queue'[i] = x /\ ItemFits(x)'
          PROVE  QueueOK'
      BY <2>6 DEF QueueOK, ItemFits, Dated
    <2>2. CASE queue' = queue
      BY <2>0, <2>1, <2>2, <2>6
    <2>3. CASE queue' = <<>>
      BY <2>3 DEF QueueOK
    <2>4. CASE queue # <<>> /\ queue' = Tail(queue)
      <3>1. /\ Tail(queue) \in Seq(Item) /\ Len(Tail(queue)) = Len(queue) - 1
            /\ \A i \in 1 .. Len(Tail(queue)) : Tail(queue)[i] = queue[i + 1]
        BY <2>0, <2>4, SMT
      <3>2. \A i \in 1 .. Len(queue') : i + 1 \in 1 .. Len(queue) /\ queue'[i] = queue[i + 1]
        BY <2>0, <2>4, <3>1
      <3> QED BY <2>0, <2>1, <2>4, <2>6, <3>1, <3>2
    <2>5. ASSUME NEW s \in Stream, SyncUpdate(s) PROVE QueueOK'
      <3>1. PICK to \in sub[s] .. pos[s], reset \in BOOLEAN :
               queue' = Append(queue, [sid |-> session, s |-> s, from |-> sub[s], to |-> to,
                                       reset |-> reset])
        BY <2>5 DEF SyncUpdate
      <3>2. /\ conn = "open" /\ loop = "reading" /\ sub[s] # Unsubscribed
            /\ UNCHANGED <<session, conn, pos>>
        BY <2>5 DEF SyncUpdate
      <3>3. PICK x : x = [sid |-> session, s |-> s, from |-> sub[s], to |-> to, reset |-> reset]
        OBVIOUS
      <3>4. sub[s] \in Nat /\ pos[s] \in Nat /\ session \in Nat \ {0}
        BY <3>2 DEF Shape, NumbersOK, SessionOK, Unsubscribed
      <3>5. x \in Item /\ x.sid = session /\ x.from <= x.to /\ x.to <= pos[x.s]
        BY <3>3, <3>4 DEF Item
      <3>6. ItemFits(x)'
        BY <3>2, <3>4, <3>5 DEF ItemFits, Dated
      <3>7. queue' = Append(queue, x)
        BY <3>1, <3>3
      <3>8. /\ queue' \in Seq(Item) /\ Len(queue') = Len(queue) + 1
            /\ \A i \in 1 .. Len(queue) : queue'[i] = queue[i]
            /\ queue'[Len(queue) + 1] = x
        BY <2>0, <3>5, <3>7
      <3>9. \A i \in 1 .. Len(queue') : i \in 1 .. Len(queue) \/ i = Len(queue) + 1
        BY <2>0, <3>8
      <3> QED BY <2>0, <2>1, <2>6, <3>5, <3>6, <3>8, <3>9
    <2> QED BY <2>2, <2>3, <2>4, <2>5, <1>QueueMoves

  \* The tick keeps its type.
  <1>TickOKStep. ASSUME Shape, [Next]_vars
                 PROVE  TickOK'
    <2> USE <1>TickOKStep
    <2>0. TickOK /\ QueueOK /\ ListsOK /\ NumbersOK /\ LoopInv /\ SessionOK
      BY DEF Shape
    <2>1. \A x \in Item : ItemFits(x) => ItemFits(x)'
      BY <1>FitsStays
    <2>2. \A sid : Dated(sid) => Dated(sid)'
      BY <1>DatedStays DEF Shape
    <2>3. ASSUME NEW x \in Item, ItemFits(x)', tick' \in Unpack, tick'.item = x
          PROVE  TickOK'
      BY <2>3 DEF TickOK, Unpack, ItemFits, Dated
    <2>4. CASE tick' = tick
      <3>1. CASE tick.at = "unpack"
        <4>1. tick.item \in Item /\ ItemFits(tick.item) /\ tick \in Unpack
          BY <2>0, <3>1 DEF TickOK, Unpack
        <4> QED BY <2>1, <2>3, <2>4, <4>1
      <3>2. CASE tick.at = "modify"
        <4>1. PICK sid : sid = tick.sid
          OBVIOUS
        <4>2. Dated(sid) /\ Dated(sid)'
          BY <2>0, <2>2, <3>2, <4>1 DEF TickOK
        <4> QED BY <2>0, <2>4, <3>2, <4>1, <4>2 DEF TickOK, Dated
      <3>3. CASE tick.at = "idle"
        BY <2>4, <3>3 DEF TickOK
      <3> QED BY <2>0, <3>1, <3>2, <3>3 DEF TickOK
    <2>5. CASE tick' = Idle
      BY <2>5 DEF TickOK, Idle
    <2>6. ASSUME NEW add, NEW del \in Seq(Stream), Sends(add, del)
          PROVE  TickOK'
      <3>1. /\ tick'.at = "modify" /\ tick'.sid = syncId /\ tick'.add = add
            /\ tick'.pos = [s \in add \cap streams |-> cookie[s]] /\ tick'.del = del
        BY <2>6 DEF Sends
      <3>2. add \subseteq Stream /\ syncState = "Syncing"
        BY <2>0, <2>6 DEF Sends, ListsOK
      <3>3. Dated(syncId)
        BY <2>0, <3>2 DEF Dated, LoopInv, SessionOK
      <3>4. PICK sid : sid = syncId
        OBVIOUS
      <3>5. Dated(sid)'
        BY <2>2, <3>3, <3>4
      <3>6. /\ DOMAIN tick'.pos \subseteq add
            /\ \A s \in DOMAIN tick'.pos : tick'.pos[s] \in Nat
        BY <2>0, <3>1, <3>2 DEF NumbersOK
      <3> QED BY <3>1, <3>2, <3>4, <3>5, <3>6 DEF TickOK, Dated
    <2>7. CASE queue # <<>> /\ tick' = [at |-> "unpack", item |-> queue[1], live |-> TRUE]
      <3>1. queue[1] \in Item /\ ItemFits(queue[1])
        BY <2>0, <2>7 DEF QueueOK
      <3>2. tick' \in Unpack /\ tick'.item = queue[1]
        BY <2>7, <3>1 DEF Unpack
      <3> QED BY <2>1, <2>3, <3>1, <3>2
    <2>8. CASE tick.at = "unpack" /\ tick' = [tick EXCEPT !.live = FALSE]
      <3>1. tick.item \in Item /\ ItemFits(tick.item) /\ tick \in Unpack
        BY <2>0, <2>8 DEF TickOK, Unpack
      <3>2. tick' \in Unpack /\ tick'.item = tick.item
        BY <2>8, <3>1 DEF Unpack
      <3> QED BY <2>1, <2>3, <3>1, <3>2
    <2> QED BY <2>4, <2>5, <2>6, <2>7, <2>8, TickMoves

  \* How the calls of syncDown move: one is added for a stream of the session, one
  \* fails and waits, or some are over.
  <1>ReaddMoves. ASSUME Shape, [Next]_vars
                 PROVE  \/ readd' \subseteq readd
                        \/ \E s \in streams : \E pending \in SUBSET readd :
                              /\ syncState = "Syncing"
                              /\ readd' = pending \cup {[s |-> s, sid |-> syncId, at |-> cookie[s], call |-> TRUE]}
                        \/ \E r \in readd : readd' = (readd \ {r}) \cup {[r EXCEPT !.call = FALSE]}
    <2> USE <1>ReaddMoves
    <2>1. CASE \E s \in Stream : SyncDown(s)
      BY <2>1 DEF SyncDown, CallAddStreamToSync
    <2>2. CASE \E r \in readd : AddStreamAgain(r)
      <3>1. PICK r \in readd : AddStreamAgain(r)
        BY <2>2
      <3>2. (r.s \in streams /\ syncState = "Syncing") \/ readd' \subseteq readd
        BY <3>1 DEF AddStreamAgain, CallAddStreamToSync
      <3>3. \/ readd' \subseteq readd
            \/ readd' = (readd \ {r}) \cup {[s |-> r.s, sid |-> syncId, at |-> cookie[r.s], call |-> TRUE]}
        BY <3>1 DEF AddStreamAgain, CallAddStreamToSync
      <3> QED BY <3>2, <3>3
    <2>3. CASE \E r \in readd : AddStreamFails(r)
      BY <2>3 DEF AddStreamFails
    <2>4. CASE \E r \in readd : AddStreamDone(r)
      BY <2>4 DEF AddStreamDone
    <2>5. CASE \/ Start \/ SyncNew \/ SyncClose \/ ConnectionLost \/ RetryWaitOver \/ FinishAfterUpdate
               \/ Stop \/ CancelSync \/ ForceStop \/ \E s \in Stream : SyncUpdate(s)
      BY <2>5 DEF Start, SyncNew, SyncClose, ConnectionLost, RetryWaitOver,
         FinishAfterUpdate, Stop, CancelSync, ForceStop, SyncUpdate
    <2>6. CASE CheckStartTicking \/ TickTimer \/ ModifyDone \/ ModifyFails
      BY <2>6 DEF CheckStartTicking, TickTimer, Tick, ModifyDone, ModifyFails
    <2>7. CASE Apply \/ ApplyFails \/ ResumeRemovals \/ MapStep
      BY <2>7 DEF Apply, ApplyFails, ResumeRemovals, MapStep, Join, Loaded, LoadFails, Leave, NewEvent
    <2>8. CASE vars' = vars
      BY <2>8 DEF vars
    <2> QED BY <2>1, <2>2, <2>3, <2>4, <2>5, <2>6, <2>7, <2>8 DEF Next, LoopStep, TickStep

  \* The addStreamToSync calls keep their type.
  <1>ReaddOKStep. ASSUME Shape, [Next]_vars
                  PROVE  ReaddOK'
    <2> USE <1>ReaddOKStep
    <2>0. ReaddOK /\ ListsOK /\ NumbersOK /\ LoopInv /\ SessionOK
      BY DEF Shape
    <2>1. \A sid : Dated(sid) => Dated(sid)'
      BY <1>DatedStays DEF Shape
    <2>2. ASSUME readd' \subseteq Readd, \A r \in readd' : \E sid : r.sid = sid /\ Dated(sid)'
          PROVE  ReaddOK'
      BY <2>2 DEF ReaddOK, Dated
    <2>3. \A r \in readd : r \in Readd /\ Dated(r.sid)
      BY <2>0 DEF ReaddOK
    <2>4. CASE readd' \subseteq readd
      BY <2>1, <2>2, <2>3, <2>4
    <2>5. ASSUME NEW s \in streams, NEW pending \in SUBSET readd, syncState = "Syncing",
                 readd' = pending \cup {[s |-> s, sid |-> syncId, at |-> cookie[s], call |-> TRUE]}
          PROVE  ReaddOK'
      <3>1. PICK x : x = [s |-> s, sid |-> syncId, at |-> cookie[s], call |-> TRUE]
        OBVIOUS
      <3>2. syncId \in Nat /\ cookie[s] \in Nat /\ s \in Stream
        BY <2>0, <2>5 DEF LoopInv, SessionOK, NumbersOK, ListsOK
      <3>3. x \in Readd /\ x.sid = syncId
        BY <3>1, <3>2 DEF Readd
      <3>4. Dated(syncId)
        BY <2>0, <2>5 DEF Dated, LoopInv, SessionOK
      <3> QED BY <2>1, <2>2, <2>3, <2>5, <3>1, <3>3, <3>4
    <2>6. ASSUME NEW r \in readd, readd' = (readd \ {r}) \cup {[r EXCEPT !.call = FALSE]}
          PROVE  ReaddOK'
      <3>1. PICK x : x = [r EXCEPT !.call = FALSE]
        OBVIOUS
      <3>2. x \in Readd /\ x.sid = r.sid
        BY <2>3, <3>1 DEF Readd
      <3> QED BY <2>1, <2>2, <2>3, <2>6, <3>1, <3>2
    <2> QED BY <2>4, <2>5, <2>6, <1>ReaddMoves

  \* The cookies and the applied positions move only in onUpdate and when a stream is
  \* loaded.
  <1>CookieMoves. ASSUME [Next]_vars
                  PROVE  UNCHANGED <<cookie, app>> \/ Apply \/ \E s \in Stream : Loaded(s)
    <2> USE <1>CookieMoves
    <2>1. CASE LoopStep
      BY <2>1 DEF LoopStep, Start, SyncNew, SyncClose, ConnectionLost, RetryWaitOver,
         FinishAfterUpdate, Stop, CancelSync, ForceStop, SyncUpdate, SyncDown
    <2>2. CASE CheckStartTicking \/ TickTimer \/ ModifyDone \/ ModifyFails
      BY <2>2 DEF CheckStartTicking, TickTimer, Tick, ModifyDone, ModifyFails
    <2>3. CASE \/ ApplyFails \/ ResumeRemovals
               \/ \E r \in readd : AddStreamDone(r) \/ AddStreamFails(r) \/ AddStreamAgain(r)
      BY <2>3 DEF ApplyFails, ResumeRemovals, AddStreamDone, AddStreamFails, AddStreamAgain
    <2>4. CASE \E s \in Stream : Join(s) \/ LoadFails(s) \/ Leave(s) \/ NewEvent(s)
      BY <2>4 DEF Join, LoadFails, Leave, NewEvent
    <2>5. CASE vars' = vars
      BY <2>5 DEF vars
    <2> QED BY <2>1, <2>2, <2>3, <2>4, <2>5 DEF Next, TickStep, MapStep

  \* What the session sends moves only with a new session and with the calls and
  \* messages of this one.
  <1>SubMoves. ASSUME [Next]_vars
               PROVE  \/ UNCHANGED sub
                      \/ \E known : NextIteration(known)
                      \/ ModifyDone \/ ModifyFails
                      \/ \E s \in Stream : SyncUpdate(s) \/ SyncDown(s)
                      \/ \E r \in readd : AddStreamDone(r)
    <2> USE <1>SubMoves
    <2>1. CASE LoopStep
      BY <2>1 DEF LoopStep, Start, SyncNew, SyncClose, ConnectionLost, RetryWaitOver,
         FinishAfterUpdate, Stop, CancelSync, ForceStop, serverVars
    <2>2. CASE CheckStartTicking \/ TickTimer
      BY <2>2 DEF CheckStartTicking, TickTimer, Tick, serverVars
    <2>3. CASE \/ Apply \/ ApplyFails \/ ResumeRemovals
               \/ \E r \in readd : AddStreamFails(r) \/ AddStreamAgain(r)
      BY <2>3 DEF Apply, ApplyFails, ResumeRemovals, AddStreamFails, AddStreamAgain, serverVars
    <2>4. CASE MapStep
      BY <2>4 DEF MapStep, Join, LoadFails, Leave, NewEvent, Loaded, serverVars
    <2>5. CASE vars' = vars
      BY <2>5 DEF vars, serverVars
    <2> QED BY <2>1, <2>2, <2>3, <2>4, <2>5 DEF Next, TickStep

  \* Positions keep their type, and what is applied was on the node.
  <1>NumbersStep. ASSUME Shape, [Next]_vars
                  PROVE  NumbersOK'
    <2> USE <1>NumbersStep
    <2>0. /\ NumbersOK /\ ListsOK /\ TickOK /\ ReaddOK
          /\ cookie \in [Stream -> Nat] /\ app \in [Stream -> Nat] /\ pos \in [Stream -> Nat]
          /\ sub \in [Stream -> Nat \cup {Unsubscribed}]
          /\ \A s \in Stream : app[s] <= pos[s]
      BY DEF Shape, NumbersOK
    <2>1. pos' \in [Stream -> Nat] /\ \A s \in Stream : pos[s] <= pos'[s]
      BY <2>0, <1>PosGrows
    <2>2. cookie' \in [Stream -> Nat] /\ app' \in [Stream -> Nat] /\ \A s \in Stream : app'[s] <= pos'[s]
      <3>1. ASSUME NEW t \in Stream, NEW n \in Nat, NEW m \in Nat, n <= pos[t], m <= pos[t],
                   cookie' = [cookie EXCEPT ![t] = n] \/ cookie' = cookie,
                   app' = [app EXCEPT ![t] = m] \/ app' = app
            PROVE  cookie' \in [Stream -> Nat] /\ app' \in [Stream -> Nat] /\ \A s \in Stream : app'[s] <= pos'[s]
        <4>1. cookie' \in [Stream -> Nat] /\ app' \in [Stream -> Nat]
          BY <2>0, <3>1
        <4>2. \A s \in Stream : app'[s] \in Nat /\ app'[s] <= pos[s]
          BY <2>0, <3>1
        <4>3. \A s \in Stream : pos[s] \in Nat /\ pos'[s] \in Nat
          BY <2>0, <2>1
        <4> QED BY <2>1, <4>1, <4>2, <4>3
      <3>2. CASE UNCHANGED <<cookie, app>>
        BY <2>0, <2>1, <3>2
      <3>3. CASE Apply
        <4>1. tick.at = "unpack"
          BY <3>3 DEF Apply
        <4>2. tick.item.s \in Stream /\ tick.item.to \in Nat /\ tick.item.to <= pos[tick.item.s]
          BY <2>0, <4>1 DEF TickOK, Unpack, Item, ItemFits
        <4>3. \/ cookie' = [cookie EXCEPT ![tick.item.s] = tick.item.to]
              \/ cookie' = cookie
          BY <3>3 DEF Apply, MoveCookie
        <4>4. \/ app' = [app EXCEPT ![tick.item.s] = tick.item.to]
              \/ app' = app
          BY <2>0, <3>3, <4>2 DEF Apply
        <4> QED BY <3>1, <4>2, <4>3, <4>4
      <3>4. ASSUME NEW s \in Stream, Loaded(s)
            PROVE  cookie' \in [Stream -> Nat] /\ app' \in [Stream -> Nat] /\ \A z \in Stream : app'[z] <= pos'[z]
        <4>1. \/ UNCHANGED <<cookie, app>>
              \/ \E at \in 0 .. pos[s] : cookie' = [cookie EXCEPT ![s] = at] /\ app' = [app EXCEPT ![s] = at]
          BY <3>4 DEF Loaded
        <4>2. \A at \in 0 .. pos[s] : at \in Nat /\ at <= pos[s]
          BY <2>0
        <4> QED BY <3>1, <3>2, <4>1, <4>2
      <3> QED BY <3>2, <3>3, <3>4, <1>CookieMoves
    <2>3. sub' \in [Stream -> Nat \cup {Unsubscribed}]
      <3>1. CASE UNCHANGED sub
        BY <2>0, <3>1
      <3>2. CASE \E known : NextIteration(known)
        <4>1. \E T : sub' = [s \in Stream |-> IF s \in T THEN cookie[s] ELSE Unsubscribed]
          BY <3>2, Zenon DEF NextIteration
        <4> QED BY <2>0, <4>1
      <3>3. CASE ModifyDone
        <4>1. \/ UNCHANGED sub
              \/ \E refused \in SUBSET DOMAIN tick.pos : ModifyAtNode(tick.pos, refused, tick.del)
          BY <3>3 DEF ModifyDone
        <4>2. tick.at = "modify"
          BY <3>3 DEF ModifyDone
        <4> QED BY <3>1, <4>1, <4>2, ModifySub
      <3>4. CASE ModifyFails
        <4>1. UNCHANGED sub \/ ModifyAtNode(tick.pos, {}, tick.del)
          BY <3>4 DEF ModifyFails
        <4>2. tick.at = "modify"
          BY <3>4 DEF ModifyFails
        <4> QED BY <3>1, <4>1, <4>2, ModifySub
      <3>5. CASE \E s \in Stream : SyncUpdate(s)
        <4>1. PICK s \in Stream : SyncUpdate(s)
          BY <3>5
        <4>2. PICK to \in sub[s] .. pos[s] : sub' = [sub EXCEPT ![s] = to]
          BY <4>1 DEF SyncUpdate
        <4>3. sub[s] \in Nat /\ pos[s] \in Nat
          BY <2>0, <4>1 DEF SyncUpdate
        <4> QED BY <2>0, <4>2, <4>3
      <3>6. CASE \E s \in Stream : SyncDown(s)
        BY <2>0, <3>6 DEF SyncDown
      <3>7. CASE \E r \in readd : AddStreamDone(r)
        <4>1. PICK r \in readd : sub' = [sub EXCEPT ![r.s] = r.at] \/ UNCHANGED sub
          BY <3>7 DEF AddStreamDone
        <4>2. r.at \in Nat
          BY <2>0 DEF ReaddOK, Readd
        <4> QED BY <2>0, <4>1, <4>2
      <3> QED BY <3>1, <3>2, <3>3, <3>4, <3>5, <3>6, <3>7, <1>SubMoves
    <2> QED BY <2>1, <2>2, <2>3 DEF NumbersOK

  \* Nothing happens before the loop has started.
  <1>IdleStep. ASSUME Shape, [Next]_vars
               PROVE  IdleAtFirst'
    <2> USE <1>IdleStep
    <2>1. IdleAtFirst /\ LoopInv /\ SessionOK
      BY DEF Shape
    <2> SUFFICES ASSUME loop' = "none"
                 PROVE  IdleAtFirst'
      BY DEF IdleAtFirst
    <2>2. CASE loop = "none"
      <3>1. /\ queue = <<>> /\ tick = Idle /\ tick.at = "idle" /\ readd = {} /\ streams = {} /\ syncId = 0
            /\ pendingSync = {} /\ pendingDelete = <<>> /\ micro = <<>> /\ syncState = "NotSyncing"
        BY <2>1, <2>2 DEF IdleAtFirst, Idle, LoopInv, SyncStates
      <3>2. CASE LoopStep
        BY <2>2, <3>1, <3>2 DEF LoopStep, Start, NextIteration, SyncNew, SyncClose, ConnectionLost,
           RetryWaitOver, FinishAfterUpdate, Stop, CancelSync, ForceStop, SyncUpdate, SyncDown,
           Successors, loopVars, listVars, tickVars, IdleAtFirst
      <3>3. CASE CheckStartTicking \/ TickTimer
        <4>1. Tick /\ micro' = micro
          BY <3>1, <3>3 DEF CheckStartTicking, TickTimer
        <4> QED BY <3>1, <4>1 DEF Tick, loopVars, IdleAtFirst
      <3>4. CASE ModifyDone \/ ModifyFails \/ Apply \/ ApplyFails \/ ResumeRemovals
        BY <3>1, <3>4 DEF ModifyDone, ModifyFails, Apply, ApplyFails, ResumeRemovals
      <3>5. CASE \E s \in Stream : Join(s) \/ LoadFails(s) \/ NewEvent(s) \/ Loaded(s)
        BY <2>2, <3>1, <3>5 DEF Join, LoadFails, NewEvent, Loaded, loopVars, listVars, tickVars, IdleAtFirst
      <3>6. CASE \E s \in Stream : Leave(s)
        BY <2>2, <3>1, <3>6 DEF Leave, listVars, IdleAtFirst
      <3>7. CASE vars' = vars
        BY <3>1, <3>7 DEF vars, loopVars, listVars, tickVars, IdleAtFirst
      <3> QED BY <3>1, <3>2, <3>3, <3>4, <3>5, <3>6, <3>7 DEF Next, TickStep, MapStep
    <2>3. CASE loop # "none"
      <3>1. CASE TickStep \/ MapStep \/ CancelSync \/ vars' = vars
        BY <2>3, <3>1, OthersKeepLoop DEF loopCore
      <3>2. CASE LoopStep
        BY <2>3, <3>2 DEF LoopStep, Start, NextIteration, SyncNew, SyncClose, ConnectionLost,
           RetryWaitOver, FinishAfterUpdate, Stop, CancelSync, ForceStop, SyncUpdate, SyncDown,
           Finish, loopVars
      <3> QED BY <3>1, <3>2 DEF Next
    <2> QED BY <2>2, <2>3
  <1>1. LoopInv /\ SessionOK
    BY DEF Shape
  <1>2. LoopInv' /\ SessionOK'
    BY <1>1, LoopInvStep, <1>SessionStep
  <1> QED
    BY <1>2, <1>ListsStep, <1>NumbersStep, <1>TickOKStep, <1>QueueStep, <1>ReaddOKStep, <1>IdleStep DEF Shape

----------------------------------------------------------------------------
(* A stream waits to be added only while the session does not serve it.      *)

\* The modifySync call that tick awaits is of this session.
Current == tick.at = "modify" /\ tick.sid = syncId

Adding(s) == s \in pendingSync \/ (Current /\ s \in tick.add)

\* syncDown is adding s to this session.
Readding(s) == \E r \in readd : r.s = s /\ r.sid = session

Strange(s) == blot[s] \cap {"unknown", "kept"} # {}

AddAt(s) ==
    /\ Adding(s) => sub[s] = Unsubscribed /\ ~ Readding(s)
    /\ ~ (s \in pendingSync /\ Current /\ s \in tick.add)

AddInv == loop = "reading" => \A s \in Stream : Strange(s) \/ AddAt(s)

\* Outside a session nothing is current, and a call of an earlier session is not.
LEMMA NotCurrent ==
    ASSUME Shape
    PROVE  /\ syncId = 0 => ~ Current
           /\ conn = "opening" => ~ (tick.at = "modify" /\ tick.sid = session)
           /\ \A r \in readd : r.sid \in Nat /\ r.sid <= session /\ (conn = "opening" => r.sid < session)
  BY DEF Shape, Current, TickOK, ReaddOK, Dated

\* The variables the lists of the loop are about.
listCore == <<loop, syncState, syncId, session, conn, streams, pendingSync, inFlight, pendingDelete,
              waiting, tick, readd, sub>>

\* The steps that leave them alone.
LEMMA ListsKept ==
    ASSUME \/ CancelSync \/ (\E s \in Stream : Join(s) \/ LoadFails(s) \/ NewEvent(s)) \/ vars' = vars
    PROVE  UNCHANGED listCore
  <1>1. CASE CancelSync
    BY <1>1 DEF CancelSync, listCore, loopVars, listVars, tickVars
  <1>2. CASE \E s \in Stream : Join(s)
    BY <1>2 DEF Join, listCore, loopVars, listVars, tickVars, serverVars
  <1>3. CASE \E s \in Stream : LoadFails(s)
    BY <1>3 DEF LoadFails, listCore, loopVars, listVars, tickVars, serverVars
  <1>4. CASE \E s \in Stream : NewEvent(s)
    BY <1>4 DEF NewEvent, listCore, loopVars, listVars, tickVars, serverVars
  <1>5. CASE vars' = vars
    BY <1>5 DEF vars, listCore, loopVars, listVars, tickVars, serverVars
  <1> QED BY <1>1, <1>2, <1>3, <1>4, <1>5

\* What a request did at the node.
SubModified(refused) ==
    /\ \A s \in Stream :
          \/ sub'[s] = sub[s]
          \/ s \in DOMAIN tick.pos \ refused /\ sub'[s] = tick.pos[s]
          \/ s \in Elements(tick.del) /\ sub'[s] = Unsubscribed
    /\ \A s \in DOMAIN tick.pos \ refused : s \notin Elements(tick.del) => sub'[s] # Unsubscribed
    /\ \A s \in Elements(tick.del) : s \notin DOMAIN tick.pos => sub'[s] = Unsubscribed

\* What the return of modifySync does.
LEMMA DoneEffect ==
    ASSUME Shape, MapInv, ModifyDone
    PROVE  /\ tick.at = "modify" /\ tick'.at # "modify" /\ micro = <<>>
           /\ UNCHANGED <<loop, syncState, syncId, session, conn, streams, pendingSync, pendingDelete,
                          waiting, micro, readd, cookie, app, pos>>
           /\ Takes(inFlight)
           /\ Valid(DOMAIN tick.pos, tick.del)
           /\ \E refused \in SUBSET DOMAIN tick.pos :
                 /\ \A s \in refused : "refused" \in blot'[s]
                 /\ IF Served(tick.sid) THEN SubModified(refused) ELSE UNCHANGED sub
  <1>1. /\ tick.at = "modify" /\ micro = <<>>
        /\ UNCHANGED <<loop, syncState, syncId, session, conn, streams, pendingSync, pendingDelete,
                       waiting, micro, readd, cookie, app, pos>>
        /\ Valid(DOMAIN tick.pos, tick.del) /\ TakeResponse(inFlight)
    BY DEF ModifyDone, loopVars, Quiet
  <1>2. Takes(inFlight)
    BY <1>1, TakeFacts DEF Shape, QueueOK
  <1>3. tick'.at # "modify"
    BY <1>2 DEF Takes, Idle
  <1>4. PICK refused \in SUBSET DOMAIN tick.pos :
           /\ IF Served(tick.sid) THEN ModifyAtNode(tick.pos, refused, tick.del)
                                  ELSE refused = {} /\ UNCHANGED <<sub, owed>>
           /\ blot' = [s \in Stream |-> IF s \in refused THEN blot[s] \union {"refused"}
                                                         ELSE blot[s]]
    BY DEF ModifyDone
  <1>5. \A s \in refused : "refused" \in blot'[s]
    <2>1. DOMAIN tick.pos \subseteq Stream
      BY <1>1 DEF Shape, TickOK
    <2> QED BY <1>4, <2>1
  <1>6. IF Served(tick.sid) THEN SubModified(refused) ELSE UNCHANGED sub
    BY <1>1, <1>4, ModifySub DEF SubModified
  <1> QED BY <1>1, <1>2, <1>3, <1>5, <1>6

\* What the failure of modifySync does.
LEMMA FailEffect ==
    ASSUME Shape, MapInv, ModifyFails
    PROVE  /\ tick.at = "modify" /\ tick'.at # "modify" /\ micro = <<>>
           /\ UNCHANGED <<loop, syncState, syncId, session, conn, streams, waiting, micro, readd,
                          cookie, app, pos>>
           /\ \E again \in SUBSET Stream :
                 /\ Takes(inFlight \ again)
                 /\ pendingSync' = pendingSync \cup again
                 /\ IF Current /\ syncState = "Syncing"
                    THEN /\ again = tick.add \cap inFlight
                         /\ pendingDelete' = pendingDelete \o tick.del
                         /\ \A s \in Elements(tick.del) \cap streams : "restored" \in blot'[s]
                    ELSE again = {} /\ pendingDelete' = pendingDelete
           /\ \/ UNCHANGED sub
              \/ /\ Served(tick.sid) /\ SubModified({}) /\ Valid(DOMAIN tick.pos, tick.del)
                 /\ \A s \in DOMAIN tick.pos : "unknown" \in blot'[s]
  <1> DEFINE received == Valid(DOMAIN tick.pos, tick.del) /\ Served(tick.sid)
             same == syncId = tick.sid /\ syncState = "Syncing"
             again == IF same THEN tick.add \intersect inFlight ELSE {}
             restored == IF same THEN Elements(tick.del) \intersect streams ELSE {}
  <1>1. /\ tick.at = "modify" /\ micro = <<>>
        /\ UNCHANGED <<loop, syncState, syncId, session, conn, streams, waiting, micro, readd,
                       cookie, app, pos>>
    BY DEF ModifyFails, loopVars, Quiet
  <1>2. /\ pendingSync' = pendingSync \cup again
        /\ pendingDelete' = IF same THEN pendingDelete \o tick.del ELSE pendingDelete
        /\ TakeResponse(inFlight \ again)
    BY DEF ModifyFails
  <1>3. PICK done \in IF received THEN BOOLEAN ELSE {FALSE} :
             /\ IF done THEN ModifyAtNode(tick.pos, {}, tick.del) ELSE UNCHANGED <<sub, owed>>
             /\ blot' = [s \in Stream |-> blot[s] \union
                            (IF done /\ s \in DOMAIN tick.pos THEN {"unknown"} ELSE {}) \union
                            (IF s \in restored THEN {"restored"} ELSE {})]
    BY DEF ModifyFails
  <1>4. done \in BOOLEAN /\ (done => received)
    BY <1>3
  <1>5. /\ again \subseteq Stream /\ restored \subseteq Stream
        /\ Current /\ syncState = "Syncing" <=> same
    BY <1>1 DEF Shape, ListsOK, Current
  <1> HIDE DEF received, restored
  <1>6. DOMAIN tick.pos \subseteq Stream
    BY <1>1 DEF Shape, TickOK
  <1>7. Takes(inFlight \ again)
    BY <1>2, TakeFacts DEF Shape, QueueOK
  <1>8. tick'.at # "modify"
    BY <1>7 DEF Takes, Idle
  <1>9. same => \A s \in Elements(tick.del) \cap streams : "restored" \in blot'[s]
    <2>1. ASSUME same, NEW s \in Elements(tick.del) \cap streams PROVE s \in restored
      BY <2>1 DEF restored
    <2> HIDE DEF again, same
    <2> QED BY <1>3, <1>5, <2>1
  <1>10. \/ UNCHANGED sub
         \/ /\ Served(tick.sid) /\ SubModified({}) /\ Valid(DOMAIN tick.pos, tick.del)
            /\ \A s \in DOMAIN tick.pos : "unknown" \in blot'[s]
    <2> HIDE DEF again, same
    <2>1. CASE done
      <3>1. \A s \in DOMAIN tick.pos : "unknown" \in blot'[s]
        BY <1>3, <1>6, <2>1
      <3>2. Served(tick.sid) /\ Valid(DOMAIN tick.pos, tick.del)
        BY <1>4, <2>1 DEF received
      <3>3. ModifyAtNode(tick.pos, {}, tick.del)
        BY <1>3, <2>1
      <3>4. SubModified({})
        BY <1>1, <3>3, ModifySub DEF SubModified
      <3> QED BY <3>1, <3>2, <3>4
    <2>2. CASE ~ done
      BY <1>3, <2>2
    <2> QED BY <2>1, <2>2
  <1>11. \E a \in SUBSET Stream :
            /\ Takes(inFlight \ a)
            /\ pendingSync' = pendingSync \cup a
            /\ IF Current /\ syncState = "Syncing"
               THEN /\ a = tick.add \cap inFlight
                    /\ pendingDelete' = pendingDelete \o tick.del
                    /\ \A s \in Elements(tick.del) \cap streams : "restored" \in blot'[s]
               ELSE a = {} /\ pendingDelete' = pendingDelete
    <2>1. IF Current /\ syncState = "Syncing"
          THEN /\ again = tick.add \cap inFlight
               /\ pendingDelete' = pendingDelete \o tick.del
               /\ \A s \in Elements(tick.del) \cap streams : "restored" \in blot'[s]
          ELSE again = {} /\ pendingDelete' = pendingDelete
      BY <1>2, <1>5, <1>9
    <2> HIDE DEF again, same
    <2> QED BY <1>2, <1>5, <1>7, <2>1
  <1> QED BY <1>1, <1>8, <1>10, <1>11

----------------------------------------------------------------------------
(* No subscription is forgotten.                                             *)

Live == syncState \in {"Starting", "Syncing"}

\* s waits to be removed from the session.
Removing(s) == s \in Elements(pendingDelete) \/ (Current /\ s \in Elements(tick.del))

\* A stream outside the map is not served or will be removed.  Its removal is put
\* off while its add is under way, so then the session must not serve it yet.
RemAt(s) ==
    /\ s \notin streams => sub[s] = Unsubscribed \/ Removing(s)
    /\ s \notin streams /\ s \in inFlight /\ s \in Elements(pendingDelete) => sub[s] = Unsubscribed
    /\ Current /\ s \in inFlight /\ s \in Elements(tick.del) => s \in tick.add
    /\ Current /\ s \in DOMAIN tick.pos /\ s \notin streams =>
          s \notin inFlight /\ s \in Elements(pendingDelete)

RemInv == Live => \A s \in Stream : Strange(s) \/ RemAt(s)

----------------------------------------------------------------------------
(* No stream is left out.                                                    *)

Often(s) == blot[s] \cap {"twice", "restored"} # {}

\* The removals that waited for Syncing are about to go on.
ResumeSoon == micro = <<"tick", "resume">> \/ micro = <<"resume">>

Micros == {<<>>, <<"tick">>, <<"finish">>, <<"tick", "finish">>}

\* pendingStreamsToDelete is empty when the removals that waited go into it.
WaitInv ==
    /\ micro \in Micros \/ ResumeSoon
    /\ ResumeSoon => syncState = "Syncing"
    /\ ResumeSoon \/ syncState \in {"Starting", "Retrying"} => Elements(pendingDelete) = {}
    /\ ResumeSoon /\ Current => Elements(tick.del) = {}
    /\ \A s \in Stream : Often(s) \/ Once(waiting, s)

\* A stream waits to be removed once, and not while it is in the map.
OnceAt(s) ==
    /\ s \in streams => s \notin Elements(pendingDelete)
    /\ Once(pendingDelete, s)
    /\ Current /\ s \in Elements(tick.del) =>
          s \notin Elements(pendingDelete) /\ (s \in streams => s \in pendingSync) /\ Once(tick.del, s)

OnceInv == Live => \A s \in Stream : Often(s) \/ OnceAt(s)

\* A stream of the map is served or will be.  The call that adds it knows its cookie,
\* and the stream is among the ones to add again should the call fail.
HeldAt(s) ==
    /\ s \in streams => \/ Adding(s) \/ sub[s] # Unsubscribed \/ Readding(s)
                        \/ "refused" \in blot[s] \/ Often(s)
    /\ Current /\ s \in streams /\ s \in tick.add =>
          s \in inFlight \cup pendingSync /\ s \in (DOMAIN tick.pos) \cup pendingSync

HeldInv == Live => \A s \in Stream : HeldAt(s)

ListInv == Shape /\ MapInv /\ AddInv /\ RemInv /\ WaitInv /\ OnceInv /\ HeldInv

\* Every step keeps ListInv.
LEMMA ListInvStep ==
    ASSUME FilterFacts, SpliceFacts, ListInv, [Next]_vars
    PROVE  ListInv'

  \* A mark on a stream is never taken off.
  <1>StrangeStays. ASSUME BlotsGrow, NEW s \in Stream, Strange(s)
                   PROVE  Strange(s)'
    BY <1>StrangeStays DEF BlotsGrow, Strange

  \* A new session starts, or the loop has left the session.
  <1>SessionEnds. ASSUME Shape,
                         \/ Start \/ SyncClose \/ RetryWaitOver \/ ConnectionLost \/ FinishAfterUpdate \/ ForceStop
                         \/ (SyncNew /\ syncState # "Starting")
                         \/ ((\E s \in Stream : SyncDown(s)) /\ syncState = "Canceling")
                  PROVE  \/ loop' # "reading"
                         \/ \E known \in SUBSET Stream :
                               /\ NextIteration(known) /\ (known = streams \/ loop = "none")
                               /\ UNCHANGED <<tick, readd, queue, waiting, cookie, app, blot, micro, pos>>
    <2> USE <1>SessionEnds
    <2>1. streams \subseteq Stream /\ has \subseteq Stream
      BY DEF Shape, ListsOK
    <2>2. CASE Start
      BY <2>1, <2>2 DEF Start, tickVars
    <2>3. CASE SyncClose
      BY <2>1, <2>3 DEF SyncClose, Finish, tickVars
    <2>4. CASE RetryWaitOver
      BY <2>1, <2>4 DEF RetryWaitOver, Finish, tickVars
    <2>5. CASE ConnectionLost
      BY <2>5 DEF ConnectionLost, Finish
    <2>6. CASE FinishAfterUpdate \/ ForceStop
      BY <2>6 DEF FinishAfterUpdate, ForceStop, Finish
    <2>7. CASE SyncNew /\ syncState # "Starting"
      BY <2>7 DEF SyncNew, Finish
    <2>8. CASE (\E s \in Stream : SyncDown(s)) /\ syncState = "Canceling"
      BY <2>8 DEF SyncDown, Finish
    <2> QED BY <2>2, <2>3, <2>4, <2>5, <2>6, <2>7, <2>8

  \* Every step keeps AddInv.
  <1>AddInvStep. ASSUME Shape, MapInv, AddInv, [Next]_vars
                 PROVE  AddInv'
    <2> USE <1>AddInvStep

    \* Steps that add nothing.
    <2>AddFrame. ASSUME AddInv, BlotsGrow, UNCHANGED <<session, syncId>>,
                        loop' = "reading" => loop = "reading",
                        pendingSync' \subseteq pendingSync,
                        tick' = tick \/ tick'.at # "modify",
                        \A s \in Stream : sub[s] = Unsubscribed => sub'[s] = Unsubscribed,
                        \A r \in readd' : \E q \in readd : q.s = r.s /\ q.sid = r.sid
                 PROVE  AddInv'
      <3> USE <2>AddFrame
      <3> SUFFICES ASSUME loop' = "reading", NEW s \in Stream, ~ Strange(s)'
                   PROVE  AddAt(s)'
        BY DEF AddInv
      <3>1. AddAt(s)
        BY <1>StrangeStays DEF AddInv
      <3>2. Current' => Current /\ tick' = tick
        BY DEF Current
      <3>3. Readding(s)' => Readding(s)
        BY DEF Readding
      <3>4. Adding(s)' => Adding(s)
        BY <3>2 DEF Adding
      <3> QED BY <3>1, <3>2, <3>3, <3>4 DEF AddAt

    \* A new session: what was pending is asked for anew.
    <2>AddNewSession. ASSUME Shape, NEW known \in SUBSET Stream, NextIteration(known), UNCHANGED <<tick, readd>>
                      PROVE  AddInv'
      <3> USE <2>AddNewSession
      <3> SUFFICES ASSUME NEW s \in Stream PROVE AddAt(s)'
        BY DEF AddInv
      <3>1. ~ Current'
        BY DEF NextIteration, Current, Shape, TickOK, Dated
      <3>2. ~ Readding(s)'
        <4>1. session' = session + 1 /\ session \in Nat
          BY DEF NextIteration, Shape, SessionOK
        <4> QED BY <4>1, NotCurrent DEF Readding
      <3>3. s \in pendingSync' => sub'[s] = Unsubscribed
        <4>1. s \in pendingSync' => s \notin inFlight'
          BY DEF NextIteration
        <4>2. sub' = [z \in Stream |-> IF z \in inFlight' THEN cookie[z] ELSE Unsubscribed]
          BY Zenon DEF NextIteration
        <4> QED BY <4>1, <4>2
      <3> QED BY <3>1, <3>2, <3>3 DEF AddAt, Adding
    <2> SUFFICES ASSUME loop' = "reading"
                 PROVE  AddInv'
      BY DEF AddInv
    <2>0. BlotsGrow
      BY MapFacts
    <2>1. \A r \in readd : \E q \in readd : q.s = r.s /\ q.sid = r.sid
      OBVIOUS
    <2>2. CASE \/ CancelSync \/ (\E s \in Stream : Join(s) \/ LoadFails(s) \/ NewEvent(s)) \/ vars' = vars
      <3>1. UNCHANGED listCore
        BY <2>2, ListsKept
      <3> QED BY <2>0, <2>1, <3>1, <2>AddFrame DEF listCore
    <2>3. CASE \/ Start \/ SyncClose \/ RetryWaitOver \/ ConnectionLost \/ FinishAfterUpdate \/ ForceStop
               \/ (SyncNew /\ syncState # "Starting")
               \/ ((\E s \in Stream : SyncDown(s)) /\ syncState = "Canceling")
      BY <2>3, <1>SessionEnds, <2>AddNewSession
    <2>4. CASE SyncNew /\ syncState = "Starting"
      <3>1. /\ UNCHANGED <<session, pendingSync, tick, sub, readd>> /\ syncId' = session
            /\ loop = "reading" /\ conn = "opening"
        BY <2>4 DEF SyncNew, tickVars
      <3>2. ~ Current'
        BY <3>1, NotCurrent DEF Current
      <3>3. ASSUME NEW s \in Stream, ~ Strange(s)' PROVE AddAt(s)'
        <4>1. AddAt(s)
          BY <2>0, <3>1, <3>3, <1>StrangeStays DEF AddInv
        <4>2. Adding(s)' => Adding(s)
          BY <3>1, <3>2 DEF Adding
        <4>3. Readding(s)' => Readding(s)
          BY <3>1 DEF Readding
        <4> QED BY <3>1, <3>2, <4>1, <4>2, <4>3 DEF AddAt
      <3> QED BY <3>3 DEF AddInv
    <2>5. CASE Stop
      <3>1. UNCHANGED <<session, syncId, loop, pendingSync, tick, sub, readd>>
        BY <2>5 DEF Stop, serverVars
      <3> QED BY <2>0, <2>1, <3>1, <2>AddFrame
    <2>6. CASE \E s \in Stream : SyncUpdate(s)
      <3>1. PICK s \in Stream : SyncUpdate(s)
        BY <2>6
      <3>2. /\ UNCHANGED <<session, syncId, loop, pendingSync, tick, readd>> /\ sub[s] # Unsubscribed
            /\ \E to : sub' = [sub EXCEPT ![s] = to]
        BY <3>1 DEF SyncUpdate, loopVars, listVars
      <3>3. \A z \in Stream : sub[z] = Unsubscribed => sub'[z] = Unsubscribed
        BY <3>2 DEF Shape, NumbersOK
      <3> QED BY <2>0, <2>1, <3>2, <3>3, <2>AddFrame
    <2>7. CASE CheckStartTicking \/ TickTimer
      <3>1. Tick
        BY <2>7 DEF CheckStartTicking, TickTimer
      <3>2. UNCHANGED <<session, syncId, loop, sub, readd>>
        BY <3>1 DEF Tick, loopVars, serverVars
      <3>3. CASE UNCHANGED <<pendingSync, inFlight, pendingDelete, queue, tick>>
        BY <2>0, <2>1, <3>2, <3>3, <2>AddFrame
      <3>4. ASSUME NEW add, NEW del, Sends(add, del) PROVE AddInv'
        <4>1. /\ add \subseteq pendingSync /\ pendingSync' = pendingSync \ add
              /\ tick'.at = "modify" /\ tick'.add = add
          BY <3>4 DEF Sends
        <4>2. ASSUME NEW s \in Stream, ~ Strange(s)' PROVE AddAt(s)'
          <5>1. AddAt(s)
            BY <2>0, <3>2, <4>2, <1>StrangeStays DEF AddInv
          <5>2. Adding(s)' => Adding(s)
            BY <4>1 DEF Adding
          <5>3. Readding(s)' => Readding(s)
            BY <3>2 DEF Readding
          <5> QED BY <3>2, <4>1, <5>1, <5>2, <5>3 DEF AddAt
        <4> QED BY <4>2 DEF AddInv
      <3>5. CASE tick = Idle /\ Takes(inFlight) /\ UNCHANGED <<pendingSync, pendingDelete>>
        <4>1. tick'.at # "modify"
          BY <3>5 DEF Takes, Idle
        <4> QED BY <2>0, <2>1, <3>2, <3>5, <4>1, <2>AddFrame
      <3> QED BY <3>1, <3>3, <3>4, <3>5, TickFacts DEF Shape
    <2>8. CASE Apply \/ ApplyFails
      <3>1. UNCHANGED <<session, syncId, loop, pendingSync, sub, readd>> /\ tick' = Idle
        BY <2>8 DEF Apply, ApplyFails, loopVars, listVars, serverVars, EndTick
      <3>2. tick'.at # "modify"
        BY <3>1 DEF Idle
      <3> QED BY <2>0, <2>1, <3>1, <3>2, <2>AddFrame
    <2>9. CASE ResumeRemovals \/ \E s \in Stream : Leave(s)
      <3>1. UNCHANGED <<session, syncId, loop, sub, readd>> /\ pendingSync' \subseteq pendingSync
        BY <2>9 DEF ResumeRemovals, Leave, listVars, serverVars
      <3>2. tick' = tick \/ (tick.at = "unpack" /\ tick' = [tick EXCEPT !.live = FALSE])
        BY <2>9 DEF ResumeRemovals, Leave, Forget
      <3>3. tick' = tick \/ tick'.at # "modify"
        BY <3>2 DEF Shape, TickOK, Unpack
      <3> QED BY <2>0, <2>1, <3>1, <3>3, <2>AddFrame
    <2>10. CASE ModifyDone
      <3>1. /\ tick.at = "modify" /\ tick'.at # "modify" /\ UNCHANGED <<loop, syncId, session, conn, pendingSync, readd>>
            /\ \E refused \in SUBSET DOMAIN tick.pos :
                   IF Served(tick.sid) THEN SubModified(refused) ELSE UNCHANGED sub
        BY <2>10, DoneEffect
      <3>2. ASSUME NEW s \in Stream, ~ Strange(s)' PROVE AddAt(s)'
        <4>1. AddAt(s)
          BY <2>0, <3>1, <3>2, <1>StrangeStays DEF AddInv
        <4>2. SUFFICES ASSUME Adding(s)' PROVE sub'[s] = Unsubscribed /\ ~ Readding(s)'
          BY <3>1 DEF AddAt, Current
        <4>3. s \in pendingSync
          BY <3>1, <4>2 DEF Adding, Current
        <4>4. sub[s] = Unsubscribed /\ ~ Readding(s) /\ ~ (Current /\ s \in tick.add)
          BY <4>1, <4>3 DEF AddAt, Adding
        <4>5. Served(tick.sid) => Current
          BY <3>1 DEF Served, Current, Shape, SessionOK
        <4>6. DOMAIN tick.pos \subseteq tick.add
          BY <3>1 DEF Shape, TickOK
        <4>7. sub'[s] = Unsubscribed
          BY <3>1, <4>4, <4>5, <4>6 DEF SubModified
        <4> QED BY <3>1, <4>4, <4>7 DEF Readding
      <3> QED BY <3>2 DEF AddInv
    <2>11. CASE ModifyFails
      <3>1. /\ tick.at = "modify" /\ tick'.at # "modify" /\ UNCHANGED <<loop, syncId, session, conn, readd>>
            /\ pendingSync' \subseteq pendingSync \cup (IF Current THEN tick.add ELSE {})
            /\ \/ UNCHANGED sub
               \/ SubModified({}) /\ \A s \in DOMAIN tick.pos : "unknown" \in blot'[s]
        BY <2>11, FailEffect
      <3>2. ASSUME NEW s \in Stream, ~ Strange(s)' PROVE AddAt(s)'
        <4>1. AddAt(s)
          BY <2>0, <3>1, <3>2, <1>StrangeStays DEF AddInv
        <4>2. SUFFICES ASSUME Adding(s)' PROVE sub'[s] = Unsubscribed /\ ~ Readding(s)'
          BY <3>1 DEF AddAt, Current
        <4>3. Adding(s)
          BY <3>1, <4>2 DEF Adding, Current
        <4>4. sub[s] = Unsubscribed /\ ~ Readding(s)
          BY <4>1, <4>3 DEF AddAt
        <4>5. "unknown" \notin blot'[s]
          BY <3>2 DEF Strange
        <4>6. sub'[s] = Unsubscribed
          BY <3>1, <4>4, <4>5 DEF SubModified
        <4> QED BY <3>1, <4>4, <4>6 DEF Readding
      <3> QED BY <3>2 DEF AddInv
    <2>12. CASE (\E s \in Stream : SyncDown(s)) /\ syncState # "Canceling"
      <3>1. PICK z \in Stream : SyncDown(z)
        BY <2>12
      <3>2. /\ UNCHANGED <<loop, syncId, session, conn, pendingSync, tick>> /\ conn = "open" /\ loop = "reading"
            /\ sub[z] # Unsubscribed /\ sub' = [sub EXCEPT ![z] = Unsubscribed]
            /\ CallAddStreamToSync(z, readd)
        BY <2>12, <3>1 DEF SyncDown, tickVars
      <3>3. readd' = readd \/ \E at : readd' = readd \cup {[s |-> z, sid |-> syncId, at |-> at, call |-> TRUE]}
        BY <3>2 DEF CallAddStreamToSync
      <3>4. ASSUME NEW s \in Stream, ~ Strange(s)' PROVE AddAt(s)'
        <4>1. AddAt(s)
          BY <2>0, <3>2, <3>4, <1>StrangeStays DEF AddInv
        <4>2. Adding(s)' = Adding(s) /\ Current' = Current
          BY <3>2 DEF Adding, Current
        <4>3. Adding(s) => s # z
          BY <3>2, <4>1 DEF AddAt
        <4>4. s # z /\ Readding(s)' => Readding(s)
          BY <3>2, <3>3 DEF Readding
        <4>5. s # z => sub'[s] = sub[s]
          BY <3>2 DEF Shape, NumbersOK
        <4> QED BY <3>2, <4>1, <4>2, <4>3, <4>4, <4>5 DEF AddAt
      <3> QED BY <3>4 DEF AddInv
    <2>13. CASE \E r \in readd : AddStreamDone(r)
      <3>1. PICK r \in readd : AddStreamDone(r)
        BY <2>13
      <3>2. /\ UNCHANGED <<loop, syncId, session, conn, pendingSync, tick>> /\ readd' \subseteq readd
            /\ r.sid = session
            /\ sub' = sub \/ sub' = [sub EXCEPT ![r.s] = r.at]
        BY <3>1 DEF AddStreamDone, Served, loopVars, listVars, tickVars
      <3>3. ASSUME NEW s \in Stream, ~ Strange(s)' PROVE AddAt(s)'
        <4>1. AddAt(s)
          BY <2>0, <3>2, <3>3, <1>StrangeStays DEF AddInv
        <4>2. Adding(s)' = Adding(s) /\ Current' = Current
          BY <3>2 DEF Adding, Current
        <4>3. Adding(s) => s # r.s
          BY <3>2, <4>1 DEF AddAt, Readding
        <4>4. Readding(s)' => Readding(s)
          BY <3>2 DEF Readding
        <4>5. s # r.s => sub'[s] = sub[s]
          BY <3>2 DEF Shape, NumbersOK
        <4> QED BY <3>2, <4>1, <4>2, <4>3, <4>4, <4>5 DEF AddAt
      <3> QED BY <3>3 DEF AddInv
    <2>14. CASE \E r \in readd : AddStreamFails(r) \/ AddStreamAgain(r)
      <3>1. PICK r \in readd : AddStreamFails(r) \/ AddStreamAgain(r)
        BY <2>14
      <3>2. UNCHANGED <<loop, syncId, session, pendingSync, tick, sub>>
        BY <3>1 DEF AddStreamFails, AddStreamAgain, loopVars, listVars, tickVars, serverVars
      <3>3. r \in Readd
        BY DEF Shape, ReaddOK
      <3>4. \A q \in readd' : \E p \in readd : p.s = q.s /\ p.sid = q.sid
        <4>1. CASE AddStreamFails(r)
          <5>1. readd' = (readd \ {r}) \cup {[r EXCEPT !.call = FALSE]}
            BY <4>1 DEF AddStreamFails
          <5>2. [r EXCEPT !.call = FALSE].s = r.s /\ [r EXCEPT !.call = FALSE].sid = r.sid
            BY <3>3 DEF Readd
          <5> QED BY <5>1, <5>2
        <4>2. CASE AddStreamAgain(r)
          <5>1. \/ readd' \subseteq readd
                \/ /\ r.sid = syncId
                   /\ \E at : readd' = (readd \ {r}) \cup {[s |-> r.s, sid |-> syncId, at |-> at, call |-> TRUE]}
            BY <4>2 DEF AddStreamAgain, CallAddStreamToSync
          <5> QED BY <5>1
        <4> QED BY <3>1, <4>1, <4>2
      <3> QED BY <2>0, <3>2, <3>4, <2>AddFrame
    <2>15. CASE \E s \in Stream : Loaded(s)
      <3>1. PICK z \in Stream : Loaded(z)
        BY <2>15
      <3>2. UNCHANGED <<loop, syncId, session, tick, sub, readd>>
        BY <3>1 DEF Loaded, loopVars, tickVars, serverVars
      <3>3. CASE pendingSync' = pendingSync
        BY <2>0, <2>1, <3>2, <3>3, <2>AddFrame
      <3>4. CASE /\ pendingSync' = pendingSync \cup {z}
                 /\ IF Asked(z) THEN Blot(z, "kept") ELSE UNCHANGED blot
        <4>1. ASSUME NEW s \in Stream, ~ Strange(s)' PROVE AddAt(s)'
          <5>1. AddAt(s)
            BY <2>0, <3>2, <4>1, <1>StrangeStays DEF AddInv
          <5>2. CASE s # z
            BY <3>2, <3>4, <5>1, <5>2 DEF AddAt, Adding, Readding, Current
          <5>3. CASE s = z
            <6>1. "kept" \notin blot'[z]
              BY <4>1, <5>3 DEF Strange
            <6>2. Blot(z, "kept") => "kept" \in blot'[z]
              BY DEF Blot, MapInv
            <6>3. ~ Asked(z)
              BY <3>4, <6>1, <6>2
            <6>4. sub[z] = Unsubscribed /\ ~ (tick.at = "modify" /\ z \in tick.add) /\ ~ \E r \in readd : r.s = z
              BY <6>3 DEF Asked
            <6> QED BY <3>2, <5>3, <6>4 DEF AddAt, Readding, Current
          <5> QED BY <5>2, <5>3
        <4> QED BY <4>1 DEF AddInv
      <3> QED BY <3>1, <3>3, <3>4 DEF Loaded
    <2> QED
      BY <2>2, <2>3, <2>4, <2>5, <2>6, <2>7, <2>8, <2>9, <2>10, <2>11, <2>12, <2>13, <2>14, <2>15
      DEF Next, LoopStep, TickStep, MapStep

  \* While the loop is live, a call of this session is one the node serves.
  <1>LiveServes. ASSUME Shape, Live
                 PROVE  /\ loop = "reading"
                        /\ tick.at = "modify" /\ Served(tick.sid) => Current
                        /\ Current => Served(tick.sid) /\ syncState = "Syncing"
    <2> USE <1>LiveServes
    <2>1. loop = "reading" /\ (syncState = "Starting" => syncId = 0)
          /\ (syncState = "Syncing" => syncId = session /\ conn = "open")
      BY DEF Live, Shape, LoopInv
    <2>2. Current => tick.sid # 0
      BY DEF Current, Shape, TickOK, Dated
    <2>3. conn = "open" => syncId = session
      BY <2>1 DEF Shape, SessionOK
    <2> QED BY <2>1, <2>2, <2>3 DEF Live, Current, Served

  \* What leaving a stream does to the lists of the loop.
  <1>LeaveEffect. ASSUME Shape, NEW s \in Stream, Leave(s), Live'
                  PROVE  /\ UNCHANGED <<loop, syncState, syncId, session, conn, readd, sub, cookie, app, micro, pos, queue>>
                         /\ micro = <<>> /\ Live
                         /\ tick' = tick \/ (tick.at = "unpack" /\ tick' = [tick EXCEPT !.live = FALSE])
                         /\ \/ /\ UNCHANGED <<streams, pendingSync, inFlight, pendingDelete, tick>>
                               /\ \/ UNCHANGED <<waiting, blot>>
                                  \/ /\ waiting' = Append(waiting, s) /\ syncState = "Starting"
                                     /\ IF s \in Elements(waiting) THEN Blot(s, "twice") ELSE UNCHANGED blot
                            \/ /\ s \in pendingSync /\ pendingSync' = pendingSync \ {s} /\ streams' = streams \ {s}
                               /\ UNCHANGED <<inFlight, pendingDelete, waiting, blot>>
                            \/ /\ s \in streams \ pendingSync /\ s \notin Elements(pendingDelete)
                               /\ syncState = "Syncing"
                               /\ inFlight' = inFlight \ {s} /\ streams' = streams \ {s}
                               /\ pendingDelete' = Append(pendingDelete, s)
                               /\ UNCHANGED <<pendingSync, waiting, blot>>
    <2> USE <1>LeaveEffect
    <2>1. UNCHANGED <<loop, syncState, syncId, session, conn, readd, sub, cookie, app, micro, pos, queue>>
          /\ micro = <<>>
      BY DEF Leave, serverVars, Quiet
    <2>2. Live
      BY <2>1 DEF Live
    <2>3. tick' = tick \/ (tick.at = "unpack" /\ tick' = [tick EXCEPT !.live = FALSE])
      BY DEF Leave, Forget
    <2>4. CASE /\ s \in has /\ s \in streams \ pendingSync /\ s \notin Elements(pendingDelete)
               /\ syncState \in {"Starting", "Retrying"}
      <3>1. /\ UNCHANGED <<streams, pendingSync, inFlight, pendingDelete, tick>>
            /\ waiting' = Append(waiting, s)
            /\ IF s \in Elements(waiting) THEN Blot(s, "twice") ELSE UNCHANGED blot
        BY <2>4 DEF Leave, listVars
      <3> QED BY <2>1, <2>2, <2>3, <2>4, <3>1 DEF Live
    <2>5. CASE ~ (/\ s \in has /\ s \in streams \ pendingSync /\ s \notin Elements(pendingDelete)
                  /\ syncState \in {"Starting", "Retrying"})
      <3>1. UNCHANGED <<waiting, blot>>
        BY <2>5 DEF Leave
      <3>2. CASE s \notin has \/ s \notin streams
        BY <2>1, <2>2, <2>3, <2>5, <3>1, <3>2 DEF Leave, listVars
      <3>3. CASE s \in has /\ s \in streams /\ s \in pendingSync
        BY <2>1, <2>2, <2>3, <2>5, <3>1, <3>3 DEF Leave
      <3>4. CASE s \in has /\ s \in streams /\ s \notin pendingSync /\ s \in Elements(pendingDelete)
        BY <2>1, <2>2, <2>3, <2>5, <3>1, <3>4 DEF Leave, listVars
      <3>5. CASE s \in has /\ s \in streams /\ s \notin pendingSync /\ s \notin Elements(pendingDelete)
        <4>1. syncState = "Syncing"
          BY <2>2, <2>5, <3>5 DEF Live
        <4>2. /\ inFlight' = inFlight \ {s} /\ streams' = streams \ {s}
              /\ pendingDelete' = Append(pendingDelete, s) /\ UNCHANGED pendingSync
          BY <2>5, <3>5, <4>1 DEF Leave
        <4> QED BY <2>1, <2>2, <2>3, <3>1, <3>5, <4>1, <4>2
      <3> QED BY <3>2, <3>3, <3>4, <3>5
    <2> QED BY <2>4, <2>5

  \* Every step keeps RemInv.
  <1>RemInvStep. ASSUME Shape, MapInv, AddInv, RemInv, [Next]_vars
                 PROVE  RemInv'
    <2> USE <1>RemInvStep

    \* Steps that keep the map and the removals.
    <2>RemFrame. ASSUME RemInv, BlotsGrow, UNCHANGED <<syncId, streams, pendingDelete>>, Live' => Live,
                        inFlight' \subseteq inFlight,
                        tick' = tick \/ (tick'.at # "modify" /\ tick.at # "modify"),
                        \A s \in Stream \ streams : sub[s] = Unsubscribed => sub'[s] = Unsubscribed \/ Strange(s)'
                 PROVE  RemInv'
      <3> USE <2>RemFrame
      <3> SUFFICES ASSUME Live', NEW s \in Stream, ~ Strange(s)'
                   PROVE  RemAt(s)'
        BY DEF RemInv
      <3>1. RemAt(s)
        BY <1>StrangeStays DEF RemInv
      <3>2. Current' = Current /\ (Current => tick' = tick)
        BY DEF Current
      <3>3. Removing(s)' = Removing(s)
        BY <3>2 DEF Removing
      <3>4. s \notin streams /\ sub[s] = Unsubscribed => sub'[s] = Unsubscribed
        OBVIOUS
      <3>5. (s \notin streams => sub[s] = Unsubscribed \/ Removing(s))'
        BY <3>1, <3>3, <3>4 DEF RemAt
      <3>6. (s \notin streams /\ s \in inFlight /\ s \in Elements(pendingDelete) => sub[s] = Unsubscribed)'
        BY <3>1, <3>4 DEF RemAt
      <3>7. /\ (Current /\ s \in inFlight /\ s \in Elements(tick.del) => s \in tick.add)'
            /\ (Current /\ s \in DOMAIN tick.pos /\ s \notin streams =>
                    s \notin inFlight /\ s \in Elements(pendingDelete))'
        BY <3>1, <3>2 DEF RemAt
      <3> QED BY <3>5, <3>6, <3>7 DEF RemAt
    <2> SUFFICES ASSUME Live' PROVE RemInv'
      BY DEF RemInv
    <2>0. BlotsGrow
      BY MapFacts
    <2>1. ASSUME NEW s \in Stream, ~ Strange(s)', Live PROVE RemAt(s) /\ AddAt(s)
      BY <2>0, <2>1, <1>StrangeStays, <1>LiveServes DEF RemInv, AddInv
    <2>2. CASE \/ CancelSync \/ (\E s \in Stream : Join(s) \/ LoadFails(s) \/ NewEvent(s)) \/ vars' = vars
      <3>1. UNCHANGED listCore
        BY <2>2, ListsKept
      <3> QED BY <2>0, <3>1, <2>RemFrame DEF listCore, Live
    <2>3. CASE \/ Start \/ SyncClose \/ RetryWaitOver \/ ConnectionLost \/ FinishAfterUpdate \/ ForceStop
               \/ (SyncNew /\ syncState # "Starting")
               \/ ((\E s \in Stream : SyncDown(s)) /\ syncState = "Canceling")
      <3>1. loop' = "reading"
        BY ShapeStep DEF Live, Shape, LoopInv
      <3>2. PICK known \in SUBSET Stream : NextIteration(known) /\ UNCHANGED tick
        BY <2>3, <3>1, <1>SessionEnds
      <3>3. /\ syncId' = 0 /\ inFlight' \subseteq streams'
            /\ sub' = [s \in Stream |-> IF s \in inFlight' THEN cookie[s] ELSE Unsubscribed]
        BY <3>2, Zenon DEF NextIteration
      <3>4. ~ Current'
        BY <3>2, <3>3 DEF Current, Shape, TickOK, Dated
      <3> QED BY <3>3, <3>4 DEF RemInv, RemAt
    <2>4. CASE SyncNew /\ syncState = "Starting"
      <3>1. UNCHANGED <<session, streams, pendingDelete, inFlight, tick, sub>> /\ syncId' = session
            /\ conn = "opening"
        BY <2>4 DEF SyncNew, tickVars
      <3>2. ~ Current' /\ ~ Current
        BY <2>4, <3>1, NotCurrent DEF Current, Shape, LoopInv
      <3>3. Live
        BY <2>4 DEF Live
      <3>4. ASSUME NEW s \in Stream, ~ Strange(s)' PROVE RemAt(s)'
        BY <2>1, <3>1, <3>2, <3>3, <3>4 DEF RemAt, Removing
      <3> QED BY <3>4 DEF RemInv
    <2>5. CASE Stop
      BY <2>5 DEF Stop, Live
    <2>6. CASE \E s \in Stream : SyncUpdate(s)
      <3>1. PICK s \in Stream : SyncUpdate(s)
        BY <2>6
      <3>2. /\ UNCHANGED <<syncState, syncId, streams, pendingDelete, inFlight, tick>>
            /\ sub[s] # Unsubscribed /\ \E to : sub' = [sub EXCEPT ![s] = to]
        BY <3>1 DEF SyncUpdate, loopVars, listVars
      <3>3. \A z \in Stream : sub[z] = Unsubscribed => sub'[z] = Unsubscribed
        BY <3>2 DEF Shape, NumbersOK
      <3> QED BY <2>0, <3>2, <3>3, <2>RemFrame DEF Live
    <2>7. CASE CheckStartTicking \/ TickTimer
      <3>1. Tick
        BY <2>7 DEF CheckStartTicking, TickTimer
      <3>2. UNCHANGED <<syncState, syncId, streams, sub>>
        BY <3>1 DEF Tick, loopVars, serverVars
      <3>3. CASE UNCHANGED <<pendingSync, inFlight, pendingDelete, queue, tick>>
        BY <2>0, <3>2, <3>3, <2>RemFrame DEF Live
      <3>4. ASSUME NEW add, NEW del, tick = Idle, Sends(add, del) PROVE RemInv'
        <4>1. /\ add \subseteq pendingSync /\ inFlight' = inFlight \cup add
              /\ Elements(del) \subseteq Elements(pendingDelete) \ inFlight
              /\ Elements(pendingDelete)' = Elements(pendingDelete) \ (inFlight \cup Elements(del))
          BY <3>4 DEF Sends
        <4>2. /\ tick'.at = "modify" /\ tick'.sid = syncId /\ tick'.add = add /\ tick'.del = del
              /\ DOMAIN tick'.pos = add \cap streams
          BY <3>4 DEF Sends
        <4>3. ~ Current /\ Current'
          BY <3>2, <3>4, <4>2 DEF Current, Idle
        <4>4. ASSUME NEW s \in Stream, ~ Strange(s)' PROVE RemAt(s)'
          <5>1. RemAt(s) /\ AddAt(s)
            BY <2>1, <3>2, <4>4 DEF Live
          <5>2. s \in add => sub[s] = Unsubscribed
            BY <4>1, <5>1 DEF AddAt, Adding
          <5>3. s \notin streams => sub[s] = Unsubscribed \/ (s \in Elements(pendingDelete) \ inFlight)
            BY <4>3, <5>1 DEF RemAt, Removing
          <5>4. s \in Elements(pendingDelete) \ inFlight => Removing(s)'
            BY <4>1, <4>2, <4>3 DEF Removing
          <5> QED BY <3>2, <4>1, <4>2, <5>2, <5>3, <5>4 DEF RemAt
        <4> QED BY <4>4 DEF RemInv
      <3>5. CASE tick = Idle /\ Takes(inFlight) /\ UNCHANGED <<pendingSync, pendingDelete>>
        <4>1. tick'.at # "modify" /\ tick.at # "modify" /\ inFlight' \subseteq inFlight
          BY <3>5 DEF Takes, Idle
        <4> QED BY <2>0, <3>2, <3>5, <4>1, <2>RemFrame DEF Live
      <3> QED BY <3>1, <3>3, <3>4, <3>5, TickFacts DEF Shape
    <2>8. CASE Apply \/ ApplyFails
      <3>1. UNCHANGED <<syncState, syncId, streams, pendingDelete, inFlight, sub>> /\ tick' = Idle
            /\ tick.at = "unpack"
        BY <2>8 DEF Apply, ApplyFails, loopVars, listVars, serverVars, EndTick
      <3>2. tick'.at # "modify"
        BY <3>1 DEF Idle
      <3> QED BY <2>0, <3>1, <3>2, <2>RemFrame DEF Live
    <2>9. CASE ResumeRemovals
      <3>1. /\ UNCHANGED <<syncState, syncId, sub>>
            /\ streams' = streams \ Elements(waiting) /\ inFlight' = inFlight \ Elements(waiting)
            /\ pendingDelete' = pendingDelete \o waiting
            /\ tick' = tick \/ (tick.at = "unpack" /\ tick' = [tick EXCEPT !.live = FALSE])
        BY <2>9 DEF ResumeRemovals, Forget, serverVars
      <3>2. Current' = Current /\ (Current => tick' = tick)
        <4>1. tick' = tick \/ (tick'.at # "modify" /\ tick.at # "modify")
          BY <3>1 DEF Shape, TickOK, Unpack
        <4> QED BY <3>1, <4>1 DEF Current
      <3>3. Elements(pendingDelete)' = Elements(pendingDelete) \cup Elements(waiting)
        <4>1. Elements(pendingDelete \o waiting) = Elements(pendingDelete) \cup Elements(waiting)
          BY ConcatFacts DEF Shape, ListsOK
        <4> QED BY <3>1, <4>1
      <3>4. ASSUME NEW s \in Stream, ~ Strange(s)' PROVE RemAt(s)'
        <4>1. RemAt(s)
          BY <2>1, <3>1, <3>4 DEF Live
        <4>2. Removing(s)' <=> Removing(s) \/ s \in Elements(waiting)
          BY <3>2, <3>3 DEF Removing
        <4> QED BY <3>1, <3>2, <3>3, <4>1, <4>2 DEF RemAt
      <3> QED BY <3>4 DEF RemInv
    <2>10. CASE \E s \in Stream : Leave(s)
      <3>1. PICK z \in Stream : Leave(z)
        BY <2>10
      <3>2. /\ UNCHANGED <<syncState, syncId, sub>> /\ Live
            /\ tick' = tick \/ (tick.at = "unpack" /\ tick' = [tick EXCEPT !.live = FALSE])
        BY <3>1, <1>LeaveEffect
      <3>3. tick' = tick \/ (tick'.at # "modify" /\ tick.at # "modify")
        BY <3>2 DEF Shape, TickOK, Unpack
      <3>4. Current' = Current /\ (Current => tick' = tick)
        BY <3>2, <3>3 DEF Current
      <3>5. CASE UNCHANGED <<streams, pendingSync, inFlight, pendingDelete, tick>>
        BY <2>0, <3>2, <3>5, <2>RemFrame
      <3>6. CASE /\ z \in pendingSync /\ streams' = streams \ {z} /\ UNCHANGED <<inFlight, pendingDelete>>
        <4>1. ASSUME NEW s \in Stream, ~ Strange(s)' PROVE RemAt(s)'
          <5>1. RemAt(s) /\ AddAt(s)
            BY <2>1, <3>2, <4>1
          <5>2. Removing(s)' = Removing(s)
            BY <3>4, <3>6 DEF Removing
          <5>3. CASE s # z
            BY <3>2, <3>4, <3>6, <5>1, <5>2, <5>3 DEF RemAt
          <5>4. CASE s = z
            <6>1. sub[s] = Unsubscribed /\ ~ (Current /\ s \in tick.add)
              BY <3>6, <5>1, <5>4 DEF AddAt, Adding
            <6>2. ~ (Current /\ s \in DOMAIN tick.pos)
              BY <6>1 DEF Shape, TickOK, Current
            <6> QED BY <3>2, <3>4, <3>6, <5>1, <6>1, <6>2 DEF RemAt
          <5> QED BY <5>3, <5>4
        <4> QED BY <4>1 DEF RemInv
      <3>7. CASE /\ inFlight' = inFlight \ {z} /\ streams' = streams \ {z}
                 /\ pendingDelete' = Append(pendingDelete, z)
        <4>1. Elements(pendingDelete)' = Elements(pendingDelete) \cup {z}
          <5>1. Elements(Append(pendingDelete, z)) = Elements(pendingDelete) \cup {z}
            BY ElementsOfAppend DEF Shape, ListsOK
          <5> QED BY <3>7, <5>1
        <4>2. ASSUME NEW s \in Stream, ~ Strange(s)' PROVE RemAt(s)'
          <5>1. RemAt(s)
            BY <2>1, <3>2, <4>2
          <5>2. Removing(s)' <=> Removing(s) \/ s = z
            BY <3>4, <4>1 DEF Removing
          <5> QED BY <3>2, <3>4, <3>7, <4>1, <5>1, <5>2 DEF RemAt
        <4> QED BY <4>2 DEF RemInv
      <3> QED BY <3>1, <3>5, <3>6, <3>7, <1>LeaveEffect
    <2>11. CASE ModifyDone
      <3>1. /\ tick.at = "modify" /\ tick'.at # "modify"
            /\ UNCHANGED <<syncState, syncId, streams, pendingDelete>> /\ inFlight' \subseteq inFlight
            /\ Valid(DOMAIN tick.pos, tick.del)
        BY <2>11, DoneEffect DEF Takes
      <3>2. PICK refused \in SUBSET DOMAIN tick.pos :
               IF Served(tick.sid) THEN SubModified(refused) ELSE UNCHANGED sub
        BY <2>11, DoneEffect
      <3>3. Live /\ (Served(tick.sid) <=> Current)
        BY <3>1, <1>LiveServes DEF Live
      <3>4. ASSUME NEW s \in Stream, ~ Strange(s)' PROVE RemAt(s)'
        <4>1. RemAt(s)
          BY <2>1, <3>3, <3>4
        <4>2. sub[s] = Unsubscribed => sub'[s] = Unsubscribed \/ (Current /\ s \in DOMAIN tick.pos)
          BY <3>2, <3>3 DEF SubModified
        <4>3. Current /\ s \in Elements(tick.del) => sub'[s] = Unsubscribed
          BY <3>1, <3>2, <3>3 DEF SubModified, Valid
        <4>4. ~ Current'
          BY <3>1 DEF Current
        <4>5. s \notin streams => sub'[s] = Unsubscribed \/ s \in Elements(pendingDelete)
          BY <4>1, <4>2, <4>3 DEF RemAt, Removing
        <4>6. s \notin streams /\ s \in inFlight' /\ s \in Elements(pendingDelete) => sub'[s] = Unsubscribed
          BY <3>1, <4>1, <4>2 DEF RemAt
        <4> QED BY <3>1, <4>4, <4>5, <4>6 DEF RemAt, Removing
      <3> QED BY <3>4 DEF RemInv
    <2>12. CASE ModifyFails
      <3>1. /\ tick.at = "modify" /\ tick'.at # "modify"
            /\ UNCHANGED <<syncState, syncId, streams>>
            /\ \/ UNCHANGED sub
               \/ SubModified({}) /\ \A s \in DOMAIN tick.pos : "unknown" \in blot'[s]
        BY <2>12, FailEffect
      <3>2. Live /\ (Current => syncState = "Syncing")
        BY <3>1, <1>LiveServes DEF Live
      <3>3. IF Current
            THEN inFlight' \subseteq inFlight \ tick.add /\ pendingDelete' = pendingDelete \o tick.del
            ELSE inFlight' \subseteq inFlight /\ pendingDelete' = pendingDelete
        BY <2>12, <3>2, FailEffect DEF Takes
      <3>4. IF Current THEN Elements(pendingDelete)' = Elements(pendingDelete) \cup Elements(tick.del)
                       ELSE Elements(pendingDelete)' = Elements(pendingDelete)
        <4>1. tick.del \in Seq(Stream) /\ pendingDelete \in Seq(Stream)
          BY <3>1 DEF Shape, ListsOK, TickOK
        <4>2. Elements(pendingDelete \o tick.del) = Elements(pendingDelete) \cup Elements(tick.del)
          BY <4>1, ConcatFacts
        <4> QED BY <3>3, <4>2
      <3>5. ASSUME NEW s \in Stream, ~ Strange(s)' PROVE RemAt(s)'
        <4>1. RemAt(s)
          BY <2>1, <3>2, <3>5
        <4>2. "unknown" \notin blot'[s]
          BY <3>5 DEF Strange
        <4>3. sub[s] = Unsubscribed => sub'[s] = Unsubscribed
          BY <3>1, <4>2 DEF SubModified
        <4>4. ~ Current'
          BY <3>1 DEF Current
        <4>5. s \notin streams => sub'[s] = Unsubscribed \/ s \in Elements(pendingDelete)'
          BY <3>4, <4>1, <4>3 DEF RemAt, Removing
        <4>6. s \notin streams /\ s \in inFlight' /\ s \in Elements(pendingDelete)' => sub'[s] = Unsubscribed
          BY <3>3, <3>4, <4>1, <4>3 DEF RemAt
        <4> QED BY <3>1, <4>4, <4>5, <4>6 DEF RemAt, Removing
      <3> QED BY <3>5 DEF RemInv
    <2>13. CASE (\E s \in Stream : SyncDown(s)) /\ syncState # "Canceling"
      <3>1. /\ UNCHANGED <<syncState, syncId, streams, pendingDelete, inFlight, tick>>
            /\ \E z \in Stream : sub' = [sub EXCEPT ![z] = Unsubscribed]
        BY <2>13 DEF SyncDown, tickVars
      <3>2. \A s \in Stream : sub[s] = Unsubscribed => sub'[s] = Unsubscribed
        BY <3>1 DEF Shape, NumbersOK
      <3> QED BY <2>0, <3>1, <3>2, <2>RemFrame DEF Live
    <2>14. CASE \E r \in readd : AddStreamDone(r)
      <3>1. PICK r \in readd : AddStreamDone(r)
        BY <2>14
      <3>2. /\ UNCHANGED <<syncState, syncId, streams, pendingDelete, inFlight, tick>>
            /\ sub' = sub \/ sub' = [sub EXCEPT ![r.s] = r.at]
            /\ r.s \in streams \/ Blot(r.s, "unknown")
        BY <3>1 DEF AddStreamDone, loopVars, listVars, tickVars
      <3>3. r.s \in Stream
        BY DEF Shape, ReaddOK, Readd
      <3>4. r.s \in streams \/ Strange(r.s)'
        BY <3>2, <3>3 DEF Blot, MapInv, Strange
      <3>5. \A s \in Stream \ streams : sub[s] = Unsubscribed => sub'[s] = Unsubscribed \/ Strange(s)'
        BY <3>2, <3>3, <3>4 DEF Shape, NumbersOK
      <3> QED BY <2>0, <3>2, <3>5, <2>RemFrame DEF Live
    <2>15. CASE \E r \in readd : AddStreamFails(r) \/ AddStreamAgain(r)
      <3>1. UNCHANGED <<syncState, syncId, streams, pendingDelete, inFlight, tick, sub>>
        BY <2>15 DEF AddStreamFails, AddStreamAgain, loopVars, listVars, tickVars, serverVars
      <3> QED BY <2>0, <3>1, <2>RemFrame DEF Live
    <2>16. CASE \E s \in Stream : Loaded(s)
      <3>1. PICK z \in Stream : Loaded(z)
        BY <2>16
      <3>2. UNCHANGED <<syncState, syncId, tick, sub, inFlight>>
        BY <3>1 DEF Loaded, loopVars, tickVars, serverVars
      <3>3. CASE UNCHANGED <<streams, pendingDelete>>
        BY <2>0, <3>2, <3>3, <2>RemFrame DEF Live
      <3>4. CASE streams' = streams \cup {z} /\ pendingDelete' = DropFirst(pendingDelete, z)
        <4>1. /\ Elements(pendingDelete)' \subseteq Elements(pendingDelete)
              /\ Elements(pendingDelete) \ {z} \subseteq Elements(pendingDelete)'
          <5>1. /\ Elements(DropFirst(pendingDelete, z)) \subseteq Elements(pendingDelete)
                /\ Elements(pendingDelete) \ {z} \subseteq Elements(DropFirst(pendingDelete, z))
            BY DEF SpliceFacts, Shape, ListsOK
          <5> QED BY <3>4, <5>1
        <4>2. ASSUME NEW s \in Stream, ~ Strange(s)' PROVE RemAt(s)'
          <5>1. RemAt(s)
            BY <2>1, <3>2, <4>2 DEF Live
          <5>2. s # z => (Removing(s)' = Removing(s)) /\ (s \in Elements(pendingDelete)' <=> s \in Elements(pendingDelete))
            BY <3>2, <4>1 DEF Removing, Current
          <5> QED BY <3>2, <3>4, <5>1, <5>2 DEF RemAt, Current
        <4> QED BY <4>2 DEF RemInv
      <3> QED BY <3>1, <3>3, <3>4 DEF Loaded
    <2> QED
      BY <2>2, <2>3, <2>4, <2>5, <2>6, <2>7, <2>8, <2>9, <2>10, <2>11, <2>12, <2>13, <2>14, <2>15, <2>16
      DEF Next, LoopStep, TickStep, MapStep

  \* A stream removed twice stays marked.
  <1>OftenStays. ASSUME BlotsGrow, NEW s \in Stream, Often(s)
                 PROVE  Often(s)'
    BY <1>OftenStays DEF BlotsGrow, Often

  \* One more element, that was not there.
  <1>OnceAppend. ASSUME NEW q \in Seq(Stream), NEW z \in Stream, NEW s, Once(q, s), s # z \/ z \notin Elements(q)
                 PROVE  Once(Append(q, z), s)
    <2> USE <1>OnceAppend
    <2> DEFINE d == Append(q, z)
    <2>1. /\ d \in Seq(Stream) /\ Len(d) = Len(q) + 1 /\ d[Len(q) + 1] = z
          /\ \A i \in 1 .. Len(q) : d[i] = q[i]
      OBVIOUS
    <2>2. DOMAIN d = 1 .. (Len(q) + 1) /\ DOMAIN q = 1 .. Len(q) /\ Len(q) \in Nat
      BY <2>1
    <2> HIDE DEF d
    <2>3. \A i \in DOMAIN d : i \in DOMAIN q \/ i = Len(q) + 1
      BY <2>2
    <2>4. s = z => \A i \in DOMAIN q : d[i] # s
      BY <2>1, <2>2 DEF Elements
    <2>5. SUFFICES ASSUME NEW i \in DOMAIN d, NEW j \in DOMAIN d, d[i] = s, d[j] = s PROVE i = j
      BY DEF Once, d
    <2> QED BY <2>1, <2>2, <2>3, <2>4, <2>5 DEF Once

  \* Every step keeps WaitInv.
  <1>WaitInvStep. ASSUME Shape, MapInv, WaitInv, [Next]_vars
                  PROVE  WaitInv'
    <2> USE <1>WaitInvStep

    \* The callbacks that run next are those of a few steps only.
    <2>MicroMoves. ASSUME [Next]_vars
                   PROVE  \/ micro = <<>> /\ micro' \in {<<>>, <<"tick">>, <<"tick", "finish">>}
                          \/ micro = <<>> /\ SyncNew /\ syncState = "Starting" /\ micro' = <<"tick", "resume">>
                          \/ (CheckStartTicking \/ FinishAfterUpdate \/ ResumeRemovals) /\ micro # <<>> /\ micro' = Tail(micro)
                          \/ vars' = vars
      <3> USE <2>MicroMoves
      <3>1. CASE SyncNew
        BY <3>1 DEF SyncNew, Quiet
      <3>2. CASE \/ Start \/ SyncClose \/ ConnectionLost \/ RetryWaitOver \/ Stop \/ CancelSync \/ ForceStop
                 \/ \E s \in Stream : SyncUpdate(s) \/ SyncDown(s)
        BY <3>2 DEF Start, SyncClose, ConnectionLost, RetryWaitOver, Stop, CancelSync, ForceStop, SyncUpdate,
           SyncDown, Quiet
      <3>3. CASE \/ TickTimer \/ ModifyDone \/ ModifyFails \/ Apply \/ ApplyFails
                 \/ \E r \in readd : AddStreamDone(r) \/ AddStreamFails(r) \/ AddStreamAgain(r)
        BY <3>3 DEF TickTimer, ModifyDone, ModifyFails, Apply, ApplyFails, AddStreamDone, AddStreamFails,
           AddStreamAgain, Quiet
      <3>4. CASE MapStep
        BY <3>4 DEF MapStep, Join, Loaded, LoadFails, Leave, NewEvent, Quiet
      <3>5. CASE CheckStartTicking \/ FinishAfterUpdate \/ ResumeRemovals
        BY <3>5 DEF CheckStartTicking, FinishAfterUpdate, ResumeRemovals
      <3> QED BY <3>1, <3>2, <3>3, <3>4, <3>5 DEF Next, LoopStep, TickStep

    \* What follows a callback.
    <2>MicroTail. ASSUME micro \in Micros \/ ResumeSoon, micro # <<>>, micro' = Tail(micro)
                  PROVE  /\ micro' \in Micros \/ ResumeSoon'
                         /\ ResumeSoon' => micro = <<"tick", "resume">>
      <3> USE <2>MicroTail
      <3>1. /\ Tail(<<"tick">>) = <<>> /\ Tail(<<"finish">>) = <<>> /\ Tail(<<"resume">>) = <<>>
            /\ Tail(<<"tick", "finish">>) = <<"finish">> /\ Tail(<<"tick", "resume">>) = <<"resume">>
        OBVIOUS
      <3>2. <<>> # <<"resume">> /\ <<>> # <<"tick", "resume">>
        OBVIOUS
      <3>3. <<"finish">> # <<"resume">> /\ <<"finish">> # <<"tick", "resume">>
        OBVIOUS
      <3>4. CASE micro \in {<<"tick">>, <<"finish">>} \/ micro = <<"resume">>
        BY <3>1, <3>2, <3>4 DEF Micros, ResumeSoon
      <3>5. CASE micro = <<"tick", "finish">>
        BY <3>1, <3>3, <3>5 DEF Micros, ResumeSoon
      <3>6. CASE micro = <<"tick", "resume">>
        BY <3>1, <3>6 DEF ResumeSoon
      <3> QED BY <3>4, <3>5, <3>6 DEF Micros, ResumeSoon

    \* The removals that wait for Syncing grow by one or are all released.
    <2>WaitingMoves. ASSUME [Next]_vars
                     PROVE  \/ UNCHANGED waiting \/ waiting' = <<>>
                            \/ \E s \in Stream : /\ waiting' = Append(waiting, s)
                                                 /\ IF s \in Elements(waiting) THEN Blot(s, "twice") ELSE UNCHANGED blot
      <3> USE <2>WaitingMoves
      <3>1. CASE LoopStep
        BY <3>1 DEF LoopStep, Start, SyncNew, SyncClose, ConnectionLost, RetryWaitOver, FinishAfterUpdate, Stop,
           CancelSync, ForceStop, SyncUpdate, SyncDown, ReleaseWaiting, loopVars
      <3>2. CASE TickStep
        BY <3>2 DEF TickStep, CheckStartTicking, TickTimer, Tick, ModifyDone, ModifyFails, Apply, ApplyFails,
           ResumeRemovals, AddStreamDone, AddStreamFails, AddStreamAgain, loopVars
      <3>3. ASSUME NEW s \in Stream, Leave(s)
            PROVE  \/ UNCHANGED waiting
                   \/ /\ waiting' = Append(waiting, s)
                      /\ IF s \in Elements(waiting) THEN Blot(s, "twice") ELSE UNCHANGED blot
        BY <3>3 DEF Leave
      <3>4. CASE \E s \in Stream : Join(s) \/ Loaded(s) \/ LoadFails(s) \/ NewEvent(s)
        BY <3>4 DEF Join, Loaded, LoadFails, NewEvent, loopVars
      <3>5. CASE vars' = vars
        BY <3>5 DEF vars, loopVars
      <3> QED BY <3>1, <3>2, <3>3, <3>4, <3>5 DEF Next, MapStep

    \* Streams get into pendingStreamsToDelete only in Syncing.
    <2>DeleteMoves. ASSUME Shape, MapInv, [Next]_vars, ResumeSoon => syncState = "Syncing", micro \in Micros \/ ResumeSoon
                    PROVE  \/ Elements(pendingDelete)' = {} \/ syncState' \notin {"Starting", "Retrying"}
                           \/ syncState' = syncState /\ Elements(pendingDelete)' \subseteq Elements(pendingDelete)
      <3> USE <2>DeleteMoves
      <3>0. pendingDelete \in Seq(Stream)
        BY DEF Shape, ListsOK
      <3>1. pendingDelete' = <<>> => Elements(pendingDelete)' = {}
        <4>1. Elements(<<>>) = {}
          BY DEF Elements
        <4> QED BY <4>1
      <3>2. CASE \/ SyncNew \/ FinishAfterUpdate \/ Stop \/ ForceStop
        BY <3>2 DEF SyncNew, FinishAfterUpdate, Finish, Stop, ForceStop
      <3>3. CASE Start \/ SyncClose \/ ConnectionLost \/ RetryWaitOver
        BY <3>1, <3>3 DEF Start, SyncClose, ConnectionLost, RetryWaitOver, NextIteration, Finish
      <3>4. CASE CancelSync \/ \E s \in Stream : SyncUpdate(s)
        BY <3>4 DEF CancelSync, SyncUpdate, loopVars, listVars
      <3>5. CASE \E s \in Stream : SyncDown(s)
        BY <3>5 DEF SyncDown, Finish
      <3>6. CASE CheckStartTicking \/ TickTimer
        <4>1. Tick /\ UNCHANGED syncState
          BY <3>6 DEF CheckStartTicking, TickTimer, Tick, loopVars
        <4>2. UNCHANGED pendingDelete \/ \E add : \E del \in Seq(Stream) : Sends(add, del)
          BY <4>1, TickFacts DEF Shape
        <4> QED BY <4>1, <4>2 DEF Sends
      <3>7. CASE ModifyDone
        BY <3>7, DoneEffect
      <3>8. CASE ModifyFails
        BY <3>8, FailEffect
      <3>9. CASE Apply \/ ApplyFails \/ \E r \in readd : AddStreamDone(r) \/ AddStreamFails(r) \/ AddStreamAgain(r)
        BY <3>9 DEF Apply, ApplyFails, AddStreamDone, AddStreamFails, AddStreamAgain, loopVars, listVars
      <3>10. CASE ResumeRemovals
        <4>1. micro # <<>> /\ Head(micro) = "resume" /\ UNCHANGED syncState
          BY <3>10 DEF ResumeRemovals
        <4>2. Head(<<"tick">>) # "resume" /\ Head(<<"finish">>) # "resume" /\ Head(<<"tick", "finish">>) # "resume"
          OBVIOUS
        <4>3. micro \notin Micros
          BY <4>1, <4>2 DEF Micros
        <4> QED BY <4>1, <4>3
      <3>11. CASE \E s \in Stream : Leave(s)
        <4>1. UNCHANGED syncState /\ (UNCHANGED pendingDelete \/ syncState = "Syncing")
          BY <3>11 DEF Leave, listVars
        <4> QED BY <4>1
      <3>12. CASE \E s \in Stream : Loaded(s)
        <4>1. PICK s \in Stream : Loaded(s)
          BY <3>12
        <4>2. UNCHANGED syncState /\ (UNCHANGED pendingDelete \/ pendingDelete' = DropFirst(pendingDelete, s))
          BY <4>1 DEF Loaded, loopVars
        <4>3. Elements(DropFirst(pendingDelete, s)) \subseteq Elements(pendingDelete)
          BY <3>0 DEF SpliceFacts
        <4> QED BY <4>2, <4>3
      <3>13. CASE \E s \in Stream : Join(s) \/ LoadFails(s) \/ NewEvent(s)
        BY <3>13 DEF Join, LoadFails, NewEvent, loopVars, listVars
      <3>14. CASE vars' = vars
        BY <3>14 DEF vars, loopVars, listVars
      <3> QED
        BY <3>2, <3>3, <3>4, <3>5, <3>6, <3>7, <3>8, <3>9, <3>10, <3>11, <3>12, <3>13, <3>14
        DEF Next, LoopStep, TickStep, MapStep
    <2>0. BlotsGrow
      BY MapFacts
    <2>1. micro \in Micros \/ ResumeSoon
      BY DEF WaitInv
    <2>2. /\ micro' \in Micros \/ ResumeSoon'
          /\ ResumeSoon' => \/ SyncNew /\ syncState = "Starting"
                            \/ CheckStartTicking /\ ResumeSoon
                            \/ vars' = vars /\ ResumeSoon
      <3>1. <<>> # <<"resume">> /\ <<>> # <<"tick", "resume">>
        OBVIOUS
      <3>2. <<"tick">> # <<"resume">> /\ <<"tick">> # <<"tick", "resume">>
        OBVIOUS
      <3>3. <<"tick", "finish">> # <<"resume">> /\ <<"tick", "finish">> # <<"tick", "resume">>
        OBVIOUS
      <3>4. CASE micro = <<>> /\ micro' \in {<<>>, <<"tick">>, <<"tick", "finish">>}
        BY <3>1, <3>2, <3>3, <3>4 DEF Micros, ResumeSoon
      <3>5. CASE micro = <<>> /\ SyncNew /\ syncState = "Starting" /\ micro' = <<"tick", "resume">>
        BY <3>5 DEF ResumeSoon
      <3>6. CASE (CheckStartTicking \/ FinishAfterUpdate \/ ResumeRemovals) /\ micro # <<>> /\ micro' = Tail(micro)
        <4>1. /\ micro' \in Micros \/ ResumeSoon'
              /\ ResumeSoon' => micro = <<"tick", "resume">>
          BY <2>1, <3>6, <2>MicroTail
        <4>2. micro = <<"tick", "resume">> => Head(micro) = "tick"
          OBVIOUS
        <4>3. Head(micro) = "tick" => CheckStartTicking
          BY <3>6 DEF FinishAfterUpdate, ResumeRemovals
        <4> QED BY <4>1, <4>2, <4>3 DEF ResumeSoon
      <3>7. CASE vars' = vars
        <4>1. micro' = micro
          BY <3>7 DEF vars
        <4> QED BY <2>1, <3>7, <4>1 DEF ResumeSoon
      <3> QED BY <3>4, <3>5, <3>6, <3>7, <2>MicroMoves
    <2>3. ASSUME SyncNew, syncState = "Starting"
          PROVE  /\ syncState' = "Syncing" /\ Elements(pendingDelete)' = {} /\ ~ Current'
      <3>1. UNCHANGED <<session, pendingDelete, tick>> /\ syncId' = session /\ conn = "opening"
            /\ syncState' = "Syncing"
        BY <2>3 DEF SyncNew, tickVars
      <3>2. ~ Current'
        BY <3>1, NotCurrent DEF Current
      <3> QED BY <2>3, <3>1, <3>2 DEF WaitInv
    <2>4. ASSUME CheckStartTicking, ResumeSoon
          PROVE  /\ syncState' = "Syncing" /\ Elements(pendingDelete)' = {}
                 /\ Current' => Elements(tick.del)' = {}
      <3>1. Tick /\ UNCHANGED <<syncState, syncId>>
        BY <2>4 DEF CheckStartTicking, Tick, loopVars
      <3>2. syncState = "Syncing" /\ Elements(pendingDelete) = {} /\ (Current => Elements(tick.del) = {})
        BY <2>4 DEF WaitInv
      <3>3. CASE UNCHANGED <<pendingDelete, tick>>
        BY <3>1, <3>2, <3>3 DEF Current
      <3>4. ASSUME NEW add, NEW del, Sends(add, del)
            PROVE  Elements(pendingDelete)' = {} /\ Elements(tick.del)' = {}
        <4>1. /\ Elements(del) \subseteq Elements(pendingDelete)
              /\ Elements(pendingDelete)' \subseteq Elements(pendingDelete)
              /\ tick'.del = del
          BY <3>4 DEF Sends
        <4>2. Elements(del) = {}
          BY <3>2, <4>1
        <4> QED BY <3>2, <4>1, <4>2
      <3>5. CASE Takes(inFlight) /\ UNCHANGED pendingDelete
        <4>1. tick'.at # "modify"
          BY <3>5 DEF Takes, Idle
        <4> QED BY <3>1, <3>2, <3>5, <4>1 DEF Current
      <3> QED BY <3>1, <3>2, <3>3, <3>4, <3>5, TickFacts DEF Shape
    <2>5. ASSUME vars' = vars, ResumeSoon
          PROVE  /\ syncState' = "Syncing" /\ Elements(pendingDelete)' = {}
                 /\ Current' => Elements(tick.del)' = {}
      <3>1. UNCHANGED <<syncState, syncId, pendingDelete, tick>>
        BY <2>5 DEF vars, loopVars, listVars, tickVars
      <3> QED BY <2>5, <3>1 DEF WaitInv, Current
    <2>6. syncState' \in {"Starting", "Retrying"} => Elements(pendingDelete)' = {}
      BY <2>DeleteMoves DEF WaitInv
    <2>7. ASSUME NEW s \in Stream, ~ Often(s)' PROVE Once(waiting, s)'
      <3>1. Once(waiting, s)
        BY <2>0, <2>7, <1>OftenStays DEF WaitInv
      <3>2. CASE UNCHANGED waiting
        BY <3>1, <3>2
      <3>3. CASE waiting' = <<>>
        <4>1. Once(<<>>, s)
          BY DEF Once
        <4> QED BY <3>3, <4>1
      <3>4. ASSUME NEW z \in Stream, waiting' = Append(waiting, z),
                   IF z \in Elements(waiting) THEN Blot(z, "twice") ELSE UNCHANGED blot
            PROVE  Once(waiting, s)'
        <4>1. Blot(z, "twice") => Often(z)'
          BY DEF Blot, MapInv, Often
        <4>2. s # z \/ z \notin Elements(waiting)
          BY <2>7, <3>4, <4>1
        <4>3. Once(Append(waiting, z), s)
          BY <3>1, <4>2, <1>OnceAppend DEF Shape, ListsOK
        <4> QED BY <3>4, <4>3
      <3> QED BY <3>2, <3>3, <3>4, <2>WaitingMoves
    <2> QED BY <2>2, <2>3, <2>4, <2>5, <2>6, <2>7 DEF WaitInv

  \* Every step keeps OnceInv.
  <1>OnceInvStep. ASSUME Shape, MapInv, WaitInv, OnceInv, [Next]_vars
                  PROVE  OnceInv'
    <2> USE <1>OnceInvStep

    \* Nothing occurs twice in the empty sequence.
    <2>EmptyOnce. ASSUME NEW q, Elements(q) = {}, NEW s
                  PROVE  Once(q, s)
      BY <2>EmptyOnce DEF Elements, Once

    \* Steps that queue no removal and put no stream into the map.
    <2>OnceFrame. ASSUME OnceInv, BlotsGrow, Live' => Live, UNCHANGED pendingDelete, streams' \subseteq streams,
                         Current' => Current /\ tick' = tick, pendingSync \cap streams' \subseteq pendingSync'
                  PROVE  OnceInv'
      <3> USE <2>OnceFrame
      <3> SUFFICES ASSUME Live', NEW s \in Stream, ~ Often(s)'
                   PROVE  OnceAt(s)'
        BY DEF OnceInv
      <3>1. OnceAt(s)
        BY <1>OftenStays DEF OnceInv
      <3> QED BY <3>1 DEF OnceAt
    <2> SUFFICES ASSUME Live' PROVE OnceInv'
      BY DEF OnceInv
    <2>0. BlotsGrow
      BY MapFacts
    <2>1. ASSUME NEW s \in Stream, ~ Often(s)', Live PROVE OnceAt(s)
      BY <2>0, <2>1, <1>OftenStays DEF OnceInv
    <2>2. CASE \/ CancelSync \/ (\E s \in Stream : Join(s) \/ LoadFails(s) \/ NewEvent(s)) \/ vars' = vars
      <3>1. UNCHANGED listCore
        BY <2>2, ListsKept
      <3> QED BY <2>0, <3>1, <2>OnceFrame DEF listCore, Live, Current
    <2>3. CASE \/ Start \/ SyncClose \/ RetryWaitOver \/ ConnectionLost \/ FinishAfterUpdate \/ ForceStop
               \/ (SyncNew /\ syncState # "Starting")
               \/ ((\E s \in Stream : SyncDown(s)) /\ syncState = "Canceling")
      <3>1. loop' = "reading"
        BY ShapeStep DEF Live, Shape, LoopInv
      <3>2. PICK known \in SUBSET Stream : NextIteration(known) /\ UNCHANGED tick
        BY <2>3, <3>1, <1>SessionEnds
      <3>3. syncId' = 0 /\ pendingDelete' = <<>>
        BY <3>2 DEF NextIteration
      <3>4. ~ Current'
        BY <3>2, <3>3 DEF Current, Shape, TickOK, Dated
      <3>5. Elements(<<>>) = {} /\ \A s : Once(<<>>, s)
        BY DEF Elements, Once
      <3> QED BY <3>3, <3>4, <3>5 DEF OnceInv, OnceAt
    <2>4. CASE SyncNew /\ syncState = "Starting"
      <3>1. UNCHANGED <<session, streams, pendingDelete, pendingSync, tick>> /\ syncId' = session
            /\ conn = "opening"
        BY <2>4 DEF SyncNew, tickVars
      <3>2. ~ Current' /\ Live
        BY <2>4, <3>1, NotCurrent DEF Current, Live
      <3> QED BY <2>0, <3>1, <3>2, <2>OnceFrame
    <2>5. CASE Stop
      BY <2>5 DEF Stop, Live
    <2>6. CASE \E s \in Stream : SyncUpdate(s)
      <3>1. UNCHANGED <<syncState, syncId, streams, pendingDelete, pendingSync, tick>>
        BY <2>6 DEF SyncUpdate, loopVars, listVars
      <3> QED BY <2>0, <3>1, <2>OnceFrame DEF Live, Current
    <2>7. CASE CheckStartTicking \/ TickTimer
      <3>1. Tick
        BY <2>7 DEF CheckStartTicking, TickTimer
      <3>2. UNCHANGED <<syncState, syncId, streams>>
        BY <3>1 DEF Tick, loopVars
      <3>3. CASE UNCHANGED <<pendingSync, inFlight, pendingDelete, queue, tick>>
        BY <2>0, <3>2, <3>3, <2>OnceFrame DEF Live, Current
      <3>4. ASSUME NEW add, NEW del, tick = Idle, Sends(add, del) PROVE OnceInv'
        <4>1. /\ Elements(del) \subseteq Elements(pendingDelete)
              /\ Elements(pendingDelete)' = Elements(pendingDelete) \ (inFlight \cup Elements(del))
              /\ \A s : Once(pendingDelete, s) => Once(pendingDelete, s)' /\ Once(del, s)
              /\ tick'.del = del
          BY <3>4 DEF Sends
        <4>2. ASSUME NEW s \in Stream, ~ Often(s)' PROVE OnceAt(s)'
          <5>1. OnceAt(s)
            BY <2>1, <3>2, <4>2 DEF Live
          <5>2. Once(pendingDelete, s)' /\ Once(del, s)
            BY <4>1, <5>1 DEF OnceAt
          <5>3. Once(tick.del, s)'
            BY <4>1, <5>2
          <5> QED BY <3>2, <4>1, <5>1, <5>2, <5>3 DEF OnceAt
        <4> QED BY <4>2 DEF OnceInv
      <3>5. CASE Takes(inFlight) /\ UNCHANGED <<pendingSync, pendingDelete>>
        <4>1. tick'.at # "modify"
          BY <3>5, TakesIdle
        <4> QED BY <2>0, <3>2, <3>5, <4>1, <2>OnceFrame DEF Live, Current
      <3> QED BY <3>1, <3>3, <3>4, <3>5, TickFacts DEF Shape
    <2>8. CASE Apply \/ ApplyFails
      <3>1. UNCHANGED <<syncState, syncId, streams, pendingDelete, pendingSync>> /\ tick' = Idle
        BY <2>8 DEF Apply, ApplyFails, loopVars, listVars, EndTick
      <3>2. tick'.at # "modify"
        BY <3>1 DEF Idle
      <3> QED BY <2>0, <3>1, <3>2, <2>OnceFrame DEF Live, Current
    <2>9. CASE ResumeRemovals
      <3>1. /\ UNCHANGED <<syncState, syncId, pendingSync>>
            /\ streams' = streams \ Elements(waiting)
            /\ pendingDelete' = pendingDelete \o waiting
            /\ tick' = tick \/ (tick.at = "unpack" /\ tick' = [tick EXCEPT !.live = FALSE])
            /\ micro # <<>> /\ Head(micro) = "resume"
        BY <2>9 DEF ResumeRemovals, Forget
      <3>2. Current' => Current /\ tick' = tick
        <4>1. tick' = tick \/ (tick'.at # "modify" /\ tick.at # "modify")
          BY <3>1 DEF Shape, TickOK, Unpack
        <4> QED BY <3>1, <4>1 DEF Current
      <3>3. ResumeSoon
        <4>1. Head(<<"tick">>) # "resume" /\ Head(<<"finish">>) # "resume" /\ Head(<<"tick", "finish">>) # "resume"
          OBVIOUS
        <4> QED BY <3>1, <4>1 DEF WaitInv, Micros
      <3>4. Elements(pendingDelete) = {} /\ (Current => Elements(tick.del) = {})
        BY <3>3 DEF WaitInv
      <3>5. pendingDelete \in Seq(Stream) /\ waiting \in Seq(Stream)
        BY DEF Shape, ListsOK
      <3>6. Elements(pendingDelete)' = Elements(waiting)
        <4>1. Elements(pendingDelete \o waiting) = Elements(pendingDelete) \cup Elements(waiting)
          BY <3>5, ConcatFacts
        <4> QED BY <3>1, <3>4, <4>1
      <3>7. ASSUME NEW s \in Stream, ~ Often(s)' PROVE OnceAt(s)'
        <4>1. Once(waiting, s)
          BY <2>0, <3>7, <1>OftenStays DEF WaitInv
        <4>2. Once(pendingDelete, s)
          BY <3>4, <2>EmptyOnce
        <4>3. Once(pendingDelete \o waiting, s)
          BY <3>4, <3>5, <4>1, <4>2, ConcatFacts
        <4>4. Once(pendingDelete, s)'
          BY <3>1, <4>3
        <4> QED BY <3>1, <3>2, <3>4, <3>6, <4>4 DEF OnceAt
      <3> QED BY <3>7 DEF OnceInv
    <2>10. CASE \E s \in Stream : Leave(s)
      <3>1. PICK z \in Stream : Leave(z)
        BY <2>10
      <3>2. /\ UNCHANGED <<syncState, syncId>> /\ Live
            /\ tick' = tick \/ (tick.at = "unpack" /\ tick' = [tick EXCEPT !.live = FALSE])
        BY <3>1, <1>LeaveEffect
      <3>3. Current' => Current /\ tick' = tick
        <4>1. tick' = tick \/ (tick'.at # "modify" /\ tick.at # "modify")
          BY <3>2 DEF Shape, TickOK, Unpack
        <4> QED BY <3>2, <4>1 DEF Current
      <3>4. CASE UNCHANGED <<streams, pendingSync, pendingDelete>>
        BY <2>0, <3>2, <3>3, <3>4, <2>OnceFrame
      <3>5. CASE streams' = streams \ {z} /\ pendingSync' = pendingSync \ {z} /\ UNCHANGED pendingDelete
        BY <2>0, <3>2, <3>3, <3>5, <2>OnceFrame
      <3>6. CASE /\ z \in streams \ pendingSync /\ z \notin Elements(pendingDelete)
                 /\ streams' = streams \ {z} /\ pendingDelete' = Append(pendingDelete, z) /\ UNCHANGED pendingSync
        <4>0. pendingDelete \in Seq(Stream)
          BY DEF Shape, ListsOK
        <4>1. Elements(pendingDelete)' = Elements(pendingDelete) \cup {z}
          <5>1. Elements(Append(pendingDelete, z)) = Elements(pendingDelete) \cup {z}
            BY <4>0, ElementsOfAppend
          <5> QED BY <3>6, <5>1
        <4>2. ASSUME NEW s \in Stream, ~ Often(s)' PROVE OnceAt(s)'
          <5>1. OnceAt(s)
            BY <2>1, <3>2, <4>2
          <5>2. Once(Append(pendingDelete, z), s)
            BY <3>6, <4>0, <5>1, <1>OnceAppend DEF OnceAt
          <5>3. Once(pendingDelete, s)'
            BY <3>6, <5>2
          <5> QED BY <3>3, <3>6, <4>1, <5>1, <5>3 DEF OnceAt
        <4> QED BY <4>2 DEF OnceInv
      <3> QED BY <3>1, <3>4, <3>5, <3>6, <1>LeaveEffect
    <2>11. CASE ModifyDone
      <3>1. tick'.at # "modify" /\ UNCHANGED <<syncState, syncId, streams, pendingSync, pendingDelete>>
        BY <2>11, DoneEffect
      <3> QED BY <2>0, <3>1, <2>OnceFrame DEF Live, Current
    <2>12. CASE ModifyFails
      <3>1. /\ tick.at = "modify" /\ tick'.at # "modify" /\ UNCHANGED <<syncState, syncId, streams>>
            /\ pendingSync \subseteq pendingSync'
            /\ \/ pendingDelete' = pendingDelete
               \/ /\ Current /\ pendingDelete' = pendingDelete \o tick.del
                  /\ \A s \in Elements(tick.del) \cap streams : "restored" \in blot'[s]
        BY <2>12, FailEffect
      <3>2. CASE pendingDelete' = pendingDelete
        BY <2>0, <3>1, <3>2, <2>OnceFrame DEF Live, Current
      <3>3. CASE /\ Current /\ pendingDelete' = pendingDelete \o tick.del
                 /\ \A s \in Elements(tick.del) \cap streams : "restored" \in blot'[s]
        <4>1. tick.del \in Seq(Stream) /\ pendingDelete \in Seq(Stream)
          BY <3>1 DEF Shape, ListsOK, TickOK
        <4>2. Elements(pendingDelete)' = Elements(pendingDelete) \cup Elements(tick.del)
          <5>1. Elements(pendingDelete \o tick.del) = Elements(pendingDelete) \cup Elements(tick.del)
            BY <4>1, ConcatFacts
          <5> QED BY <3>3, <5>1
        <4>3. ASSUME NEW s \in Stream, ~ Often(s)' PROVE OnceAt(s)'
          <5>1. OnceAt(s)
            BY <2>1, <3>1, <4>3 DEF Live
          <5>2. s \in Elements(tick.del) => s \notin Elements(pendingDelete) /\ Once(tick.del, s)
            BY <3>3, <5>1 DEF OnceAt
          <5>3. s \notin Elements(tick.del) => Once(tick.del, s)
            BY DEF Once, Elements
          <5>4. Once(pendingDelete \o tick.del, s)
            BY <4>1, <5>1, <5>2, <5>3, ConcatFacts DEF OnceAt
          <5>5. Once(pendingDelete, s)'
            BY <3>3, <5>4
          <5>6. s \in streams => s \notin Elements(tick.del)
            BY <3>3, <4>3 DEF Often
          <5> QED BY <3>1, <4>2, <5>1, <5>5, <5>6 DEF OnceAt, Current
        <4> QED BY <4>3 DEF OnceInv
      <3> QED BY <3>1, <3>2, <3>3
    <2>13. CASE (\E s \in Stream : SyncDown(s)) /\ syncState # "Canceling"
      <3>1. UNCHANGED <<syncState, syncId, streams, pendingDelete, pendingSync, tick>>
        BY <2>13 DEF SyncDown, tickVars
      <3> QED BY <2>0, <3>1, <2>OnceFrame DEF Live, Current
    <2>14. CASE \E r \in readd : AddStreamDone(r) \/ AddStreamFails(r) \/ AddStreamAgain(r)
      <3>1. UNCHANGED <<syncState, syncId, streams, pendingDelete, pendingSync, tick>>
        BY <2>14 DEF AddStreamDone, AddStreamFails, AddStreamAgain, loopVars, listVars, tickVars
      <3> QED BY <2>0, <3>1, <2>OnceFrame DEF Live, Current
    <2>15. CASE \E s \in Stream : Loaded(s)
      <3>1. PICK z \in Stream : Loaded(z)
        BY <2>15
      <3>2. UNCHANGED <<syncState, syncId, tick>>
        BY <3>1 DEF Loaded, loopVars, tickVars
      <3>3. CASE UNCHANGED <<streams, pendingDelete, pendingSync>>
        BY <2>0, <3>2, <3>3, <2>OnceFrame DEF Live, Current
      <3>4. CASE streams' = streams \cup {z} /\ pendingDelete' = DropFirst(pendingDelete, z)
                 /\ pendingSync' = pendingSync \cup {z}
        <4>1. /\ Elements(pendingDelete)' \subseteq Elements(pendingDelete)
              /\ Once(pendingDelete, z) => z \notin Elements(pendingDelete)'
              /\ \A s : Once(pendingDelete, s) => Once(pendingDelete, s)'
          <5>1. pendingDelete \in Seq(Stream)
            BY DEF Shape, ListsOK
          <5>2. /\ Elements(DropFirst(pendingDelete, z)) \subseteq Elements(pendingDelete)
                /\ Once(pendingDelete, z) => z \notin Elements(DropFirst(pendingDelete, z))
                /\ \A s : Once(pendingDelete, s) => Once(DropFirst(pendingDelete, z), s)
            BY <5>1 DEF SpliceFacts
          <5> QED BY <3>4, <5>2
        <4>2. ASSUME NEW s \in Stream, ~ Often(s)' PROVE OnceAt(s)'
          <5>1. OnceAt(s)
            BY <2>1, <3>2, <4>2 DEF Live
          <5> QED BY <3>2, <3>4, <4>1, <5>1 DEF OnceAt, Current
        <4> QED BY <4>2 DEF OnceInv
      <3> QED BY <3>1, <3>3, <3>4 DEF Loaded
    <2> QED
      BY <2>2, <2>3, <2>4, <2>5, <2>6, <2>7, <2>8, <2>9, <2>10, <2>11, <2>12, <2>13, <2>14, <2>15
      DEF Next, LoopStep, TickStep, MapStep

  \* Every step keeps HeldInv.
  <1>HeldInvStep. ASSUME Shape, MapInv, OnceInv, HeldInv, [Next]_vars
                  PROVE  HeldInv'
    <2> USE <1>HeldInvStep

    \* Steps that keep the adds under way and put no stream into the map.
    <2>HeldFrame. ASSUME HeldInv, BlotsGrow, Live' => Live, UNCHANGED session, streams' \subseteq streams,
                         Current' = Current, Current => tick' = tick /\ inFlight \cap streams' \subseteq inFlight',
                         pendingSync \cap streams' \subseteq pendingSync',
                         \A s \in streams' : s \in Stream /\ (sub[s] # Unsubscribed => sub'[s] # Unsubscribed \/ Readding(s)'),
                         \A s \in streams' : Readding(s) => Readding(s)' \/ sub'[s] # Unsubscribed
                  PROVE  HeldInv'
      <3> USE <2>HeldFrame
      <3> SUFFICES ASSUME Live', NEW s \in Stream
                   PROVE  HeldAt(s)'
        BY DEF HeldInv
      <3>1. HeldAt(s)
        BY DEF HeldInv
      <3>2. Adding(s) /\ s \in streams' => Adding(s)'
        BY DEF Adding
      <3>3. /\ "refused" \in blot[s] => "refused" \in blot'[s]
            /\ Often(s) => Often(s)'
        BY <1>OftenStays DEF BlotsGrow
      <3>4. s \in streams' => \/ Adding(s)' \/ sub'[s] # Unsubscribed \/ Readding(s)'
                              \/ "refused" \in blot'[s] \/ Often(s)'
        BY <3>1, <3>2, <3>3 DEF HeldAt
      <3>5. (Current /\ s \in streams /\ s \in tick.add =>
                s \in inFlight \cup pendingSync /\ s \in (DOMAIN tick.pos) \cup pendingSync)'
        BY <3>1 DEF HeldAt
      <3> QED BY <3>4, <3>5 DEF HeldAt
    <2> SUFFICES ASSUME Live' PROVE HeldInv'
      BY DEF HeldInv
    <2>0. BlotsGrow
      BY MapFacts
    <2>1. streams \subseteq Stream /\ sub \in [Stream -> Nat \cup {Unsubscribed}]
      BY DEF Shape, ListsOK, NumbersOK
    <2>2. CASE \/ CancelSync \/ (\E s \in Stream : Join(s) \/ LoadFails(s) \/ NewEvent(s)) \/ vars' = vars
      <3>1. UNCHANGED <<syncState, syncId, session, streams, pendingSync, inFlight, tick, readd, sub>>
        BY <2>2, ListsKept DEF listCore
      <3>2. \A s : Readding(s)' = Readding(s)
        BY <3>1 DEF Readding
      <3> QED BY <2>0, <2>1, <3>1, <3>2, <2>HeldFrame DEF Live, Current
    <2>3. CASE \/ Start \/ SyncClose \/ RetryWaitOver \/ ConnectionLost \/ FinishAfterUpdate \/ ForceStop
               \/ (SyncNew /\ syncState # "Starting")
               \/ ((\E s \in Stream : SyncDown(s)) /\ syncState = "Canceling")
      <3>1. loop' = "reading"
        BY ShapeStep DEF Live, Shape, LoopInv
      <3>2. PICK known \in SUBSET Stream : NextIteration(known) /\ UNCHANGED tick
        BY <2>3, <3>1, <1>SessionEnds
      <3>3. /\ syncId' = 0 /\ streams' = known /\ pendingSync' = known \ inFlight'
            /\ sub' = [s \in Stream |-> IF s \in inFlight' THEN cookie[s] ELSE Unsubscribed]
        BY <3>2, Zenon DEF NextIteration
      <3>4. ~ Current'
        BY <3>2, <3>3 DEF Current, Shape, TickOK, Dated
      <3>5. \A s \in Stream : cookie[s] # Unsubscribed
        BY DEF Shape, NumbersOK, Unsubscribed
      <3>6. ASSUME NEW s \in Stream PROVE HeldAt(s)'
        <4>1. s \in streams' => s \in pendingSync' \/ sub'[s] # Unsubscribed
          BY <3>3, <3>5
        <4> QED BY <3>4, <4>1 DEF HeldAt, Adding
      <3> QED BY <3>6 DEF HeldInv
    <2>4. CASE SyncNew /\ syncState = "Starting"
      <3>1. UNCHANGED <<session, streams, pendingSync, inFlight, tick, readd, sub>> /\ syncId' = session
            /\ conn = "opening"
        BY <2>4 DEF SyncNew, tickVars
      <3>2. Live /\ ~ Current /\ Current' = Current
        BY <2>4, <3>1, NotCurrent DEF Current, Shape, LoopInv, Live
      <3>3. \A s : Readding(s)' = Readding(s)
        BY <3>1 DEF Readding
      <3> QED BY <2>0, <2>1, <3>1, <3>2, <3>3, <2>HeldFrame
    <2>5. CASE Stop
      BY <2>5 DEF Stop, Live
    <2>6. CASE \E s \in Stream : SyncUpdate(s)
      <3>1. PICK z \in Stream : SyncUpdate(z)
        BY <2>6
      <3>2. /\ UNCHANGED <<syncState, syncId, session, streams, pendingSync, inFlight, tick, readd>>
            /\ sub[z] # Unsubscribed /\ \E to \in sub[z]..pos[z] : sub' = [sub EXCEPT ![z] = to]
        BY <3>1 DEF SyncUpdate, loopVars, listVars
      <3>3. \A s : Readding(s)' = Readding(s)
        BY <3>2 DEF Readding
      <3>4. sub'[z] # Unsubscribed
        <4>1. sub[z] \in Nat /\ pos[z] \in Nat
          BY <2>1, <3>2 DEF Shape, NumbersOK
        <4> QED BY <2>1, <3>2, <4>1 DEF Unsubscribed
      <3>5. \A s \in Stream : sub[s] # Unsubscribed => sub'[s] # Unsubscribed
        BY <2>1, <3>2, <3>4
      <3> QED BY <2>0, <2>1, <3>2, <3>3, <3>5, <2>HeldFrame DEF Live, Current
    <2>7. CASE CheckStartTicking \/ TickTimer
      <3>1. Tick
        BY <2>7 DEF CheckStartTicking, TickTimer
      <3>2. UNCHANGED <<syncState, syncId, session, streams, readd, sub>>
        BY <3>1 DEF Tick, loopVars, serverVars
      <3>3. \A s : Readding(s)' = Readding(s)
        BY <3>2 DEF Readding
      <3>4. CASE UNCHANGED <<pendingSync, inFlight, pendingDelete, queue, tick>>
        BY <2>0, <2>1, <3>2, <3>3, <3>4, <2>HeldFrame DEF Live, Current
      <3>5. ASSUME NEW add, NEW del, tick = Idle, Sends(add, del) PROVE HeldInv'
        <4>1. pendingSync' = pendingSync \ add /\ inFlight' = inFlight \cup add
          BY <3>5 DEF Sends
        <4>2. /\ tick'.at = "modify" /\ tick'.sid = syncId /\ tick'.add = add
              /\ DOMAIN tick'.pos = add \cap streams
          BY <3>5 DEF Sends
        <4>3. ~ Current /\ Current'
          BY <3>2, <3>5, <4>2 DEF Current, Idle
        <4>4. ASSUME NEW s \in Stream PROVE HeldAt(s)'
          <5>1. HeldAt(s)
            BY <3>2 DEF Live, HeldInv
          <5>2. Adding(s) => Adding(s)'
            BY <4>1, <4>2, <4>3 DEF Adding
          <5>3. /\ "refused" \in blot[s] => "refused" \in blot'[s]
                /\ Often(s) => Often(s)'
            BY <2>0, <1>OftenStays DEF BlotsGrow
          <5>4. s \in streams' => \/ Adding(s)' \/ sub'[s] # Unsubscribed \/ Readding(s)'
                                  \/ "refused" \in blot'[s] \/ Often(s)'
            BY <3>2, <3>3, <5>1, <5>2, <5>3 DEF HeldAt
          <5> QED BY <3>2, <4>1, <4>2, <5>4 DEF HeldAt
        <4> QED BY <4>4 DEF HeldInv
      <3>6. CASE tick = Idle /\ Takes(inFlight) /\ UNCHANGED <<pendingSync, pendingDelete>>
        <4>1. tick'.at # "modify" /\ tick.at # "modify"
          BY <3>6 DEF Takes, Idle
        <4>2. ~ Current /\ Current' = Current
          BY <4>1 DEF Current
        <4> QED BY <2>0, <2>1, <3>2, <3>3, <3>6, <4>2, <2>HeldFrame DEF Live
      <3> QED BY <3>1, <3>4, <3>5, <3>6, TickFacts DEF Shape
    <2>8. CASE Apply \/ ApplyFails
      <3>1. UNCHANGED <<syncState, syncId, session, streams, pendingSync, inFlight, readd, sub>> /\ tick' = Idle
            /\ tick.at = "unpack"
        BY <2>8 DEF Apply, ApplyFails, loopVars, listVars, serverVars, EndTick
      <3>2. ~ Current /\ Current' = Current
        BY <3>1 DEF Idle, Current
      <3>3. \A s : Readding(s)' = Readding(s)
        BY <3>1 DEF Readding
      <3> QED BY <2>0, <2>1, <3>1, <3>2, <3>3, <2>HeldFrame DEF Live
    <2>9. CASE ResumeRemovals
      <3>1. /\ UNCHANGED <<syncState, syncId, session, pendingSync, readd, sub>>
            /\ streams' = streams \ Elements(waiting) /\ inFlight' = inFlight \ Elements(waiting)
            /\ tick' = tick \/ (tick.at = "unpack" /\ tick' = [tick EXCEPT !.live = FALSE])
        BY <2>9 DEF ResumeRemovals, Forget, serverVars
      <3>2. Current' = Current /\ (Current => tick' = tick)
        <4>1. tick' = tick \/ (tick'.at # "modify" /\ tick.at # "modify")
          BY <3>1 DEF Shape, TickOK, Unpack
        <4> QED BY <3>1, <4>1 DEF Current
      <3>3. \A s : Readding(s)' = Readding(s)
        BY <3>1 DEF Readding
      <3> QED BY <2>0, <2>1, <3>1, <3>2, <3>3, <2>HeldFrame DEF Live
    <2>10. CASE \E s \in Stream : Leave(s)
      <3>1. PICK z \in Stream : Leave(z)
        BY <2>10
      <3>2. /\ UNCHANGED <<syncState, syncId, session, readd, sub>> /\ Live
            /\ tick' = tick \/ (tick.at = "unpack" /\ tick' = [tick EXCEPT !.live = FALSE])
        BY <3>1, <1>LeaveEffect
      <3>3. Current' = Current /\ (Current => tick' = tick)
        <4>1. tick' = tick \/ (tick'.at # "modify" /\ tick.at # "modify")
          BY <3>2 DEF Shape, TickOK, Unpack
        <4> QED BY <3>2, <4>1 DEF Current
      <3>4. \A s : Readding(s)' = Readding(s)
        BY <3>2 DEF Readding
      <3>5. /\ streams' \subseteq streams
            /\ pendingSync \cap streams' \subseteq pendingSync' /\ inFlight \cap streams' \subseteq inFlight'
        BY <3>1, <1>LeaveEffect
      <3> QED BY <2>0, <2>1, <3>2, <3>3, <3>4, <3>5, <2>HeldFrame
    <2>11. CASE ModifyDone
      <3>1. /\ tick.at = "modify" /\ tick'.at # "modify"
            /\ UNCHANGED <<syncState, syncId, session, streams, pendingSync, readd>>
            /\ Valid(DOMAIN tick.pos, tick.del)
        BY <2>11, DoneEffect
      <3>2. PICK refused \in SUBSET DOMAIN tick.pos :
               /\ \A s \in refused : "refused" \in blot'[s]
               /\ IF Served(tick.sid) THEN SubModified(refused) ELSE UNCHANGED sub
        BY <2>11, DoneEffect
      <3>3. Live /\ (Served(tick.sid) <=> Current)
        BY <3>1, <1>LiveServes DEF Live
      <3>4. ~ Current'
        BY <3>1 DEF Current
      <3>5. ASSUME NEW s \in streams PROVE Adding(s)' \/ sub'[s] # Unsubscribed \/ Readding(s)'
                                           \/ "refused" \in blot'[s] \/ Often(s)'
        <4>0. s \in Stream
          BY <2>1
        <4>1. HeldAt(s) /\ (Often(s) \/ OnceAt(s))
          BY <3>3, <4>0 DEF HeldInv, OnceInv
        <4>2. CASE s \in pendingSync
          BY <3>1, <4>2 DEF Adding
        <4>3. CASE Current /\ s \in tick.add /\ s \notin pendingSync
          <5>1. s \in DOMAIN tick.pos
            BY <4>1, <4>3 DEF HeldAt
          <5>2. s \notin Elements(tick.del)
            BY <3>1, <5>1 DEF Valid
          <5> QED BY <3>2, <3>3, <4>3, <5>1, <5>2 DEF SubModified
        <4>4. CASE sub[s] # Unsubscribed /\ s \notin pendingSync
          <5>1. CASE Current /\ s \in Elements(tick.del)
            <6>1. Often(s)
              BY <4>1, <4>4, <5>1 DEF OnceAt
            <6> QED BY <2>0, <4>0, <6>1, <1>OftenStays
          <5>2. CASE ~ (Current /\ s \in Elements(tick.del))
            <6>1. \A p \in DOMAIN tick.pos : tick.pos[p] # Unsubscribed
              BY <3>1 DEF Shape, TickOK, Unsubscribed
            <6> QED BY <3>2, <3>3, <4>0, <4>4, <5>2, <6>1 DEF SubModified
          <5> QED BY <5>1, <5>2
        <4>5. CASE Readding(s)
          BY <3>1, <4>5 DEF Readding
        <4>6. CASE "refused" \in blot[s] \/ Often(s)
          BY <2>0, <4>0, <4>6, <1>OftenStays DEF BlotsGrow
        <4> QED BY <4>1, <4>2, <4>3, <4>4, <4>5, <4>6 DEF HeldAt, Adding
      <3>6. ASSUME NEW s \in Stream PROVE HeldAt(s)'
        BY <3>1, <3>4, <3>5 DEF HeldAt
      <3> QED BY <3>6 DEF HeldInv
    <2>12. CASE ModifyFails
      <3>1. /\ tick.at = "modify" /\ tick'.at # "modify"
            /\ UNCHANGED <<syncState, syncId, session, streams, readd>>
            /\ UNCHANGED sub \/ (Served(tick.sid) /\ SubModified({}))
        BY <2>12, FailEffect
      <3>2. Live /\ (Served(tick.sid) => Current) /\ (Current => syncState = "Syncing")
        BY <3>1, <1>LiveServes DEF Live
      <3>3. pendingSync \subseteq pendingSync' /\ (Current => tick.add \cap inFlight \subseteq pendingSync')
        BY <2>12, <3>2, FailEffect
      <3>4. ~ Current'
        BY <3>1 DEF Current
      <3>5. ASSUME NEW s \in streams PROVE Adding(s)' \/ sub'[s] # Unsubscribed \/ Readding(s)'
                                           \/ "refused" \in blot'[s] \/ Often(s)'
        <4>0. s \in Stream
          BY <2>1
        <4>1. HeldAt(s) /\ (Often(s) \/ OnceAt(s))
          BY <3>2, <4>0 DEF HeldInv, OnceInv
        <4>2. CASE s \in pendingSync
          BY <3>3, <4>2 DEF Adding
        <4>3. CASE Current /\ s \in tick.add /\ s \notin pendingSync
          <5>1. s \in inFlight
            BY <4>1, <4>3 DEF HeldAt
          <5> QED BY <3>3, <4>3, <5>1 DEF Adding
        <4>4. CASE sub[s] # Unsubscribed /\ s \notin pendingSync
          <5>1. CASE Current /\ s \in Elements(tick.del)
            <6>1. Often(s)
              BY <4>1, <4>4, <5>1 DEF OnceAt
            <6> QED BY <2>0, <4>0, <6>1, <1>OftenStays
          <5>2. CASE ~ (Current /\ s \in Elements(tick.del))
            <6>1. \A p \in DOMAIN tick.pos : tick.pos[p] # Unsubscribed
              BY <3>1 DEF Shape, TickOK, Unsubscribed
            <6> QED BY <3>1, <3>2, <4>0, <4>4, <5>2, <6>1 DEF SubModified
          <5> QED BY <5>1, <5>2
        <4>5. CASE Readding(s)
          BY <3>1, <4>5 DEF Readding
        <4>6. CASE "refused" \in blot[s] \/ Often(s)
          BY <2>0, <4>0, <4>6, <1>OftenStays DEF BlotsGrow
        <4> QED BY <4>1, <4>2, <4>3, <4>4, <4>5, <4>6 DEF HeldAt, Adding
      <3>6. ASSUME NEW s \in Stream PROVE HeldAt(s)'
        BY <3>1, <3>4, <3>5 DEF HeldAt
      <3> QED BY <3>6 DEF HeldInv
    <2>13. CASE (\E s \in Stream : SyncDown(s)) /\ syncState # "Canceling"
      <3>1. PICK z \in Stream : SyncDown(z)
        BY <2>13
      <3>2. /\ UNCHANGED <<syncState, syncId, session, streams, pendingSync, inFlight, tick>>
            /\ conn = "open" /\ sub' = [sub EXCEPT ![z] = Unsubscribed]
            /\ CallAddStreamToSync(z, readd)
        BY <2>13, <3>1 DEF SyncDown, tickVars
      <3>3. Live /\ syncState = "Syncing" /\ syncId = session
        BY <3>2 DEF Live, Shape, SessionOK, LoopInv
      <3>4. \A s : Readding(s) => Readding(s)'
        BY <3>2 DEF Readding, CallAddStreamToSync
      <3>5. z \in streams => Readding(z)'
        <4>1. SUFFICES ASSUME z \in streams PROVE Readding(z)'
          OBVIOUS
        <4>2. [s |-> z, sid |-> syncId, at |-> cookie[z], call |-> TRUE] \in readd'
          BY <3>2, <3>3, <4>1 DEF CallAddStreamToSync
        <4> QED BY <3>2, <3>3, <4>2 DEF Readding
      <3>6. \A s \in streams : sub[s] # Unsubscribed => sub'[s] # Unsubscribed \/ Readding(s)'
        BY <2>1, <3>2, <3>5
      <3> QED BY <2>0, <2>1, <3>2, <3>3, <3>4, <3>6, <2>HeldFrame DEF Current
    <2>14. CASE \E r \in readd : AddStreamDone(r)
      <3>1. PICK r \in readd : AddStreamDone(r)
        BY <2>14
      <3>2. /\ UNCHANGED <<syncState, syncId, session, streams, pendingSync, inFlight, tick>>
            /\ readd' = readd \ {r}
            /\ (sub' = sub /\ sub[r.s] # Unsubscribed) \/ sub' = [sub EXCEPT ![r.s] = r.at]
        BY <3>1 DEF AddStreamDone, loopVars, listVars, tickVars
      <3>3. r.s \in Stream /\ r.at # Unsubscribed
        BY DEF Shape, ReaddOK, Readd, Unsubscribed
      <3>4. sub'[r.s] # Unsubscribed
        BY <2>1, <3>2, <3>3
      <3>5. \A s : Readding(s) => Readding(s)' \/ sub'[s] # Unsubscribed
        BY <3>2, <3>4 DEF Readding
      <3>6. \A s \in Stream : sub[s] # Unsubscribed => sub'[s] # Unsubscribed
        BY <2>1, <3>2, <3>3
      <3> QED BY <2>0, <2>1, <3>2, <3>5, <3>6, <2>HeldFrame DEF Live, Current
    <2>15. CASE \E r \in readd : AddStreamFails(r)
      <3>1. PICK r \in readd : AddStreamFails(r)
        BY <2>15
      <3>2. /\ UNCHANGED <<syncState, syncId, session, streams, pendingSync, inFlight, tick, sub>>
            /\ readd' = (readd \ {r}) \union {[r EXCEPT !.call = FALSE]}
        BY <3>1 DEF AddStreamFails, loopVars, listVars, tickVars, serverVars
      <3>3. [r EXCEPT !.call = FALSE].s = r.s /\ [r EXCEPT !.call = FALSE].sid = r.sid
        BY DEF Shape, ReaddOK, Readd
      <3>4. \A s : Readding(s) => Readding(s)'
        BY <3>2, <3>3 DEF Readding
      <3> QED BY <2>0, <2>1, <3>2, <3>4, <2>HeldFrame DEF Live, Current
    <2>16. CASE \E r \in readd : AddStreamAgain(r)
      <3>1. PICK r \in readd : AddStreamAgain(r)
        BY <2>16
      <3>2. /\ UNCHANGED <<syncState, syncId, session, streams, pendingSync, inFlight, tick, sub>>
            /\ IF r.sid = syncId THEN CallAddStreamToSync(r.s, readd \ {r}) ELSE readd' = readd \ {r}
        BY <3>1 DEF AddStreamAgain, loopVars, listVars, tickVars, serverVars
      <3>3. ASSUME NEW s \in streams, Readding(s) PROVE Readding(s)'
        <4>1. PICK q \in readd : q.s = s /\ q.sid = session
          BY <3>3 DEF Readding
        <4>2. CASE q # r
          <5>1. q \in readd'
            BY <3>2, <4>2 DEF CallAddStreamToSync
          <5> QED BY <3>2, <4>1, <5>1 DEF Readding
        <4>3. CASE q = r
          <5>1. conn # "opening"
            <6>1. session \in Nat
              BY DEF Shape, SessionOK
            <6> QED BY <4>1, <6>1, NotCurrent
          <5>2. syncState = "Syncing" /\ syncId = session
            BY <3>2, <5>1 DEF Live, Shape, SessionOK, LoopInv
          <5>3. [s |-> r.s, sid |-> syncId, at |-> cookie[r.s], call |-> TRUE] \in readd'
            BY <3>2, <3>3, <4>1, <4>3, <5>2 DEF CallAddStreamToSync
          <5> QED BY <3>2, <4>1, <4>3, <5>2, <5>3 DEF Readding
        <4> QED BY <4>2, <4>3
      <3> QED BY <2>0, <2>1, <3>2, <3>3, <2>HeldFrame DEF Live, Current
    <2>17. CASE \E s \in Stream : Loaded(s)
      <3>1. PICK z \in Stream : Loaded(z)
        BY <2>17
      <3>2. UNCHANGED <<syncState, syncId, session, tick, inFlight, readd, sub>>
        BY <3>1 DEF Loaded, loopVars, tickVars, serverVars
      <3>3. \A s : Readding(s)' = Readding(s)
        BY <3>2 DEF Readding
      <3>4. CASE UNCHANGED <<streams, pendingSync>>
        BY <2>0, <2>1, <3>2, <3>3, <3>4, <2>HeldFrame DEF Live, Current
      <3>5. CASE streams' = streams \cup {z} /\ pendingSync' = pendingSync \cup {z}
        <4>1. ASSUME NEW s \in Stream PROVE HeldAt(s)'
          <5>1. HeldAt(s)
            BY <3>2 DEF Live, HeldInv
          <5>2. (Adding(s) => Adding(s)') /\ (s = z => Adding(s)')
            BY <3>2, <3>5 DEF Adding, Current
          <5>3. /\ "refused" \in blot[s] => "refused" \in blot'[s]
                /\ Often(s) => Often(s)'
            BY <2>0, <1>OftenStays DEF BlotsGrow
          <5>4. s \in streams' => \/ Adding(s)' \/ sub'[s] # Unsubscribed \/ Readding(s)'
                                  \/ "refused" \in blot'[s] \/ Often(s)'
            BY <3>2, <3>3, <3>5, <5>1, <5>2, <5>3 DEF HeldAt
          <5> QED BY <3>2, <3>5, <5>1, <5>4 DEF HeldAt, Current
        <4> QED BY <4>1 DEF HeldInv
      <3> QED BY <3>1, <3>4, <3>5 DEF Loaded
    <2> QED
      BY <2>2, <2>3, <2>4, <2>5, <2>6, <2>7, <2>8, <2>9, <2>10, <2>11, <2>12, <2>13, <2>14, <2>15, <2>16, <2>17
      DEF Next, LoopStep, TickStep, MapStep
  <1> USE DEF ListInv
  <1>1. Shape' /\ MapInv'
    BY ShapeStep, MapFacts
  <1>2. AddInv' /\ RemInv'
    BY <1>AddInvStep, <1>RemInvStep
  <1>3. WaitInv' /\ OnceInv' /\ HeldInv'
    BY <1>WaitInvStep, <1>OnceInvStep, <1>HeldInvStep
  <1> QED BY <1>1, <1>2, <1>3

----------------------------------------------------------------------------
(* Updates on their way to the record of a stream.                           *)

\* The update that onUpdate unpacks is of s.
Touches(s) == tick.at = "unpack" /\ tick.item.s = s

Unpacking(s) == Touches(s) /\ tick.live

\* A queued update that a tick of this session will take.
Now(x, s) == x.s = s /\ x.sid = syncId

\* A queue that is not empty has a first position.
LEMMA FirstIndex == \A n \in Nat \ {0} : 1 \in 1 .. n
  OBVIOUS

\* The positions before a position.
LEMMA BeforeIndex ==
    \A n \in Nat : \A i \in 1 .. n : i - 1 \in 0 .. n /\ \A j \in 1 .. (i - 1) : j \in 1 .. n /\ j + 1 \in 1 .. i
  OBVIOUS

\* The positions of a part of the queue.
LEMMA LowerIndex == \A n \in Nat : n \in 0 .. n /\ \A m \in 0 .. n : \A i \in 1 .. m : i \in 1 .. n
  OBVIOUS

\* The positions of a queue with one more update.
LEMMA LastIndex ==
    \A n \in Nat :
        /\ n + 1 \in 1 .. (n + 1)
        /\ \A i \in 1 .. n : i \in 1 .. (n + 1)
        /\ \A i \in 1 .. (n + 1) : (i \in 1 .. n \/ i = n + 1) /\ \A j \in 1 .. (i - 1) : j \in 1 .. n
  OBVIOUS

\* The order on the positions of a stream.
LEMMA LeqOrder == \A a, b, c \in Nat : a <= a /\ (a <= b /\ b <= c => a <= c)
  OBVIOUS

\* The queue is a sequence of updates.
LEMMA QueueFacts ==
    ASSUME QueueOK
    PROVE  /\ DOMAIN queue = 1 .. Len(queue) /\ Len(queue) \in Nat
           /\ \A i \in 1 .. Len(queue) : queue[i] \in Item
  BY DEF QueueOK

\* The queue without its first update.
LEMMA TailFacts ==
    ASSUME QueueOK, queue # <<>>, queue' = Tail(queue)
    PROVE  /\ Len(queue) \in Nat \ {0} /\ Len(queue') = Len(queue) - 1 /\ Len(queue') \in Nat
           /\ \A i \in 1 .. Len(queue') :
                 /\ queue'[i] = queue[i + 1] /\ i + 1 \in 1 .. Len(queue)
                 /\ i \in 1 .. Len(queue) /\ (i + 1) - 1 = i /\ i \in Nat \ {0}
  <1>1. queue \in Seq(Item)
    BY DEF QueueOK
  <1>2. Len(queue) \in Nat \ {0} /\ Len(queue') = Len(queue) - 1
    BY <1>1
  <1>3. \A i \in 1 .. Len(queue') : queue'[i] = queue[i + 1]
    BY <1>1, <1>2
  <1> QED BY <1>2, <1>3

\* The queue with one more update.
LEMMA AppendFacts ==
    ASSUME QueueOK, NEW x, queue' = Append(queue, x)
    PROVE  /\ Len(queue') = Len(queue) + 1 /\ queue'[Len(queue) + 1] = x
           /\ \A i \in 1 .. Len(queue) : queue'[i] = queue[i]
  BY DEF QueueOK

\* What a tick that takes an update unpacks.
LEMMA TakesFirst ==
    ASSUME NEW fl, Takes(fl), NEW s, UNCHANGED syncId
    PROVE  /\ Touches(s)' => /\ queue # <<>> /\ s \in streams /\ Now(queue[1], s)
                             /\ Unpacking(s)' /\ tick'.live /\ tick'.item = queue[1]
           /\ queue # <<>> /\ s \in streams /\ Now(queue[1], s) => Unpacking(s)' /\ tick'.item = queue[1]
           /\ Unpacking(s)' => Touches(s)'
  <1>1. CASE tick' = Idle /\ (queue = <<>> \/ (queue[1].sid = syncId => queue[1].s \notin streams))
    <2>1. tick'.at = "idle"
      BY <1>1 DEF Idle
    <2>2. ~ Touches(s)' /\ ~ Unpacking(s)'
      BY <2>1 DEF Touches, Unpacking
    <2> QED BY <1>1, <2>2 DEF Now
  <1>2. CASE /\ tick' = [at |-> "unpack", item |-> queue[1], live |-> TRUE]
             /\ queue # <<>> /\ queue[1].sid = syncId /\ queue[1].s \in streams
    <2>1. tick'.at = "unpack" /\ tick'.item = queue[1] /\ tick'.live = TRUE
      BY <1>2
    <2>2. (Touches(s)' <=> queue[1].s = s) /\ (Unpacking(s)' <=> queue[1].s = s)
      BY <2>1 DEF Touches, Unpacking
    <2> QED BY <1>2, <2>1, <2>2 DEF Now
  <1> QED BY <1>1, <1>2 DEF Takes

\* The record an unpacked update was looked up for is still in the map.
ItemHeld == tick.at = "unpack" /\ tick.live /\ loop # "done" => tick.item.s \in streams

----------------------------------------------------------------------------
(* No event is skipped.                                                      *)

Holey(s) == blot[s] \cap {"dropped", "kept", "cleared"} # {}

\* The record will be at p or later once the first n queued updates are applied.
Reached(s, p, n) ==
    \/ p <= app[s]
    \/ Unpacking(s) /\ p <= tick.item.to
    \/ \E i \in 1 .. n : Now(queue[i], s) /\ p <= queue[i].to

\* Each queued update of s starts where the ones before it lead, or earlier, and a
\* reset leads at least as far as they do.
LineAt(s) ==
    /\ \A i \in 1 .. Len(queue) : Now(queue[i], s) => Reached(s, queue[i].from, i - 1)
    /\ \A i \in 1 .. Len(queue) : Now(queue[i], s) /\ queue[i].reset =>
          /\ app[s] <= queue[i].to
          /\ Unpacking(s) => tick.item.to <= queue[i].to
          /\ \A j \in 1 .. (i - 1) : Now(queue[j], s) => queue[j].to <= queue[i].to
    /\ Touches(s) => tick.live

SkipAt(s) ==
    /\ s \in streams \/ loop = "none" => cookie[s] <= app[s]
    /\ s \in streams =>
          /\ sub[s] # Unsubscribed /\ loop = "reading" => Reached(s, sub[s], Len(queue))
          /\ Current /\ s \in DOMAIN tick.pos => tick.pos[s] <= app[s]
          /\ \A r \in readd : r.s = s /\ r.sid = syncId => r.at <= app[s]
          /\ LineAt(s)
    /\ Unpacking(s) => tick.item.from <= app[s] /\ (tick.item.reset => app[s] <= tick.item.to)

SkipInv == \A s \in Stream : Holey(s) \/ SkipAt(s)

\* What is queued or called belongs to a session before the one that begins.
LEMMA FreshSession ==
    ASSUME Shape, UNCHANGED tick, syncId' = 0 \/ (conn = "opening" /\ syncId' = session)
    PROVE  /\ \A i \in 1 .. Len(queue) : queue[i].sid # syncId'
           /\ \A r \in readd : r.sid # syncId'
           /\ tick.at = "unpack" => tick.item.sid # syncId'
           /\ ~ Current'
  <1>1. \A sid : Dated(sid) => sid # syncId'
    BY DEF Dated, Shape, SessionOK
  <1>2. \A i \in 1 .. Len(queue) : Dated(queue[i].sid)
    BY DEF Shape, QueueOK, ItemFits
  <1>3. \A r \in readd : Dated(r.sid)
    BY DEF Shape, ReaddOK
  <1>4. tick.at = "unpack" => Dated(tick.item.sid)
    BY DEF Shape, TickOK, ItemFits
  <1>5. tick.at = "modify" => Dated(tick.sid)
    BY DEF Shape, TickOK
  <1> QED BY <1>1, <1>2, <1>3, <1>4, <1>5 DEF Current

\* The steps that leave alone what updates go through.
LEMMA LinesKept ==
    ASSUME \/ CancelSync \/ (\E s \in Stream : Join(s) \/ LoadFails(s) \/ NewEvent(s)) \/ vars' = vars
    PROVE  UNCHANGED <<queue, cookie, app>>
  <1>1. CASE CancelSync
    BY <1>1 DEF CancelSync, tickVars
  <1>2. CASE \E s \in Stream : Join(s) \/ LoadFails(s) \/ NewEvent(s)
    BY <1>2 DEF Join, LoadFails, NewEvent, tickVars
  <1>3. CASE vars' = vars
    BY <1>3 DEF vars, tickVars
  <1> QED BY <1>1, <1>2, <1>3

\* The ends of a session leave updates and calls where they are.
LEMMA EndsKeep ==
    ASSUME Shape,
           \/ Start \/ SyncClose \/ RetryWaitOver \/ ConnectionLost \/ FinishAfterUpdate \/ ForceStop
           \/ (SyncNew /\ syncState # "Starting")
           \/ ((\E s \in Stream : SyncDown(s)) /\ syncState = "Canceling")
    PROVE  /\ UNCHANGED <<queue, tick, readd, cookie, app>>
           /\ syncId' = 0 /\ loop' # "none" /\ (streams' \subseteq streams \/ loop = "none")
           /\ loop' = "reading" => \E known : NextIteration(known)
  <1>1. CASE Start \/ SyncClose \/ RetryWaitOver
    BY <1>1 DEF Start, SyncClose, RetryWaitOver, NextIteration, Finish, tickVars
  <1>2. CASE ConnectionLost \/ FinishAfterUpdate \/ ForceStop
    BY <1>2 DEF ConnectionLost, FinishAfterUpdate, ForceStop, Finish, tickVars
  <1>3. CASE SyncNew /\ syncState # "Starting"
    BY <1>3 DEF SyncNew, Finish, tickVars
  <1>4. CASE (\E s \in Stream : SyncDown(s)) /\ syncState = "Canceling"
    BY <1>4 DEF SyncDown, CallAddStreamToSync, Finish, tickVars
  <1> QED BY <1>1, <1>2, <1>3, <1>4

\* Every step keeps the held item and the lines of updates.
LEMMA SkipStep ==
    ASSUME FilterFacts, SpliceFacts, Shape, MapInv, ItemHeld, SkipInv, [Next]_vars
    PROVE  ItemHeld' /\ SkipInv'

  \* Every step keeps ItemHeld.
  <1>ItemHeldStep. ASSUME Shape, ItemHeld, [Next]_vars
                   PROVE  ItemHeld'
    <2> USE <1>ItemHeldStep

    \* A stream leaves the map of a running loop only together with its pending work.
    <2>StreamsMoves. ASSUME Shape, [Next]_vars
                     PROVE  \/ streams \subseteq streams' \/ loop' = "done"
                            \/ \E T : streams' = streams \ T /\ Forget(T) /\ UNCHANGED <<queue, syncId, loop, cookie, app, readd, sub>>
      <3> USE <2>StreamsMoves
      <3>1. CASE Start
        BY <3>1 DEF Start, Shape, IdleAtFirst
      <3>2. CASE \/ SyncNew \/ SyncClose \/ ConnectionLost \/ RetryWaitOver \/ FinishAfterUpdate \/ ForceStop
        BY <3>2 DEF SyncNew, SyncClose, ConnectionLost, RetryWaitOver, FinishAfterUpdate, ForceStop, Finish,
           NextIteration
      <3>3. CASE Stop \/ CancelSync \/ \E s \in Stream : SyncUpdate(s) \/ SyncDown(s)
        BY <3>3 DEF Stop, CancelSync, SyncUpdate, SyncDown, Finish, listVars
      <3>4. CASE \/ CheckStartTicking \/ TickTimer \/ ModifyDone \/ ModifyFails
        BY <3>4 DEF CheckStartTicking, TickTimer, Tick, ModifyDone, ModifyFails
      <3>5. CASE Apply \/ ApplyFails \/ \E r \in readd : AddStreamDone(r) \/ AddStreamFails(r) \/ AddStreamAgain(r)
        BY <3>5 DEF Apply, ApplyFails, AddStreamDone, AddStreamFails, AddStreamAgain, listVars
      <3>6. CASE ResumeRemovals
        BY <3>6 DEF ResumeRemovals, serverVars
      <3>7. CASE \E s \in Stream : Leave(s)
        <4>1. PICK s \in Stream : Leave(s)
          BY <3>7
        <4>2. UNCHANGED <<queue, syncId, loop, cookie, app, readd, sub>>
          BY <4>1 DEF Leave, serverVars
        <4>3. UNCHANGED streams \/ (streams' = streams \ {s} /\ Forget({s}))
          BY <4>1 DEF Leave, listVars
        <4> QED BY <4>2, <4>3
      <3>8. CASE \E s \in Stream : Join(s) \/ Loaded(s) \/ LoadFails(s) \/ NewEvent(s)
        BY <3>8 DEF Join, Loaded, LoadFails, NewEvent, listVars
      <3>9. CASE vars' = vars
        BY <3>9 DEF vars, listVars
      <3> QED
        BY <3>1, <3>2, <3>3, <3>4, <3>5, <3>6, <3>7, <3>8, <3>9 DEF Next, LoopStep, TickStep, MapStep

    \* The loop does not start again.
    <2>DoneStays. ASSUME [Next]_vars, loop = "done"
                  PROVE  loop' = "done"
      <3> USE <2>DoneStays
      <3>1. CASE LoopStep
        BY <3>1 DEF LoopStep, Start, SyncNew, SyncClose, ConnectionLost, RetryWaitOver, FinishAfterUpdate, Finish,
           Stop, CancelSync, ForceStop, SyncUpdate, SyncDown, loopVars
      <3>2. CASE TickStep \/ MapStep \/ vars' = vars
        BY <3>2, OthersKeepLoop DEF loopCore
      <3> QED BY <3>1, <3>2 DEF Next
    <2> SUFFICES ASSUME tick'.at = "unpack", tick'.live, loop' # "done" PROVE tick'.item.s \in streams'
      BY DEF ItemHeld
    <2>1. loop # "done"
      BY <2>DoneStays
    <2>2. /\ tick.at = "unpack" => tick \in Unpack
          /\ \A t \in Unpack : [t EXCEPT !.live = FALSE].live = FALSE
      BY DEF Shape, TickOK, Unpack
    <2>3. tick.at = "unpack" => tick' # [tick EXCEPT !.live = FALSE]
      BY <2>2
    <2>4. ASSUME tick' = tick PROVE tick'.item.s \in streams
      BY <2>1, <2>4 DEF ItemHeld
    <2>5. ASSUME NEW T, Forget(T), streams' = streams \ T PROVE tick' = tick /\ tick.item.s \notin T
      BY <2>3, <2>5 DEF Forget
    <2>6. CASE tick' = tick
      BY <2>4, <2>5, <2>6, <2>StreamsMoves
    <2>7. CASE tick' # tick
      <3>1. tick'.item.s \in streams
        <4>1. tick' # Idle
          BY DEF Idle
        <4>2. \A add, del : ~ Sends(add, del)
          BY DEF Sends
        <4>3. /\ queue[1].s \in streams
              /\ tick' = [at |-> "unpack", item |-> queue[1], live |-> TRUE]
          BY <2>3, <2>7, <4>1, <4>2, TickMoves
        <4> QED BY <4>3
      <3> QED BY <2>5, <2>7, <3>1, <2>StreamsMoves
    <2> QED BY <2>6, <2>7

  \* A hole stays.
  <1>HoleyStays. ASSUME BlotsGrow, NEW s \in Stream, Holey(s)
                 PROVE  Holey(s)'
    BY <1>HoleyStays DEF BlotsGrow, Holey

  \* Steps that touch neither the queue nor what is applied of s.
  <1>LineSame. ASSUME NEW s, UNCHANGED <<queue, syncId>>, app'[s] = app[s],
                      tick' = tick \/ (~ Touches(s) /\ ~ Touches(s)')
               PROVE  /\ \A p, n : Reached(s, p, n) => Reached(s, p, n)'
                      /\ LineAt(s) => LineAt(s)'
    <2> USE <1>LineSame
    <2>1. Unpacking(s)' = Unpacking(s) /\ (Unpacking(s) => tick' = tick)
      BY DEF Unpacking, Touches
    <2>2. \A x : Now(x, s)' = Now(x, s)
      BY DEF Now
    <2>3. \A p, n : Reached(s, p, n) => Reached(s, p, n)'
      BY <2>1, <2>2 DEF Reached
    <2>4. (Touches(s) => tick.live) => (Touches(s) => tick.live)'
      BY DEF Touches
    <2> QED BY <2>1, <2>2, <2>3, <2>4 DEF LineAt

  \* A new session: nothing in the queue is of it.
  <1>LineFresh. ASSUME NEW s, UNCHANGED <<queue, tick>>, \A i \in 1 .. Len(queue) : queue[i].sid # syncId',
                       LineAt(s)
                PROVE  LineAt(s)'
    <2> USE <1>LineFresh
    <2>1. \A i \in 1 .. Len(queue) : ~ Now(queue[i], s)'
      BY DEF Now
    <2>2. (Touches(s) => tick.live)'
      BY DEF LineAt, Touches
    <2> QED BY <2>1, <2>2 DEF LineAt

  \* A tick takes the first update out of the queue.
  <1>LineTakes. ASSUME QueueOK, NEW fl, Takes(fl), tick.at # "unpack", NEW s \in streams, UNCHANGED <<syncId, streams>>,
                       app'[s] = app[s], LineAt(s)
                PROVE  /\ LineAt(s)'
                       /\ \A p : Reached(s, p, Len(queue)) => Reached(s, p, Len(queue))'
                       /\ Unpacking(s)' => tick'.item.from <= app[s] /\ (tick'.item.reset => app[s] <= tick'.item.to)
    <2> USE <1>LineTakes
    <2>0. queue \in Seq(Item) /\ ~ Touches(s) /\ ~ Unpacking(s)
      BY DEF QueueOK, Touches, Unpacking
    <2>1. CASE queue = <<>>
      <3>1. queue' = queue /\ tick' = Idle
        BY <2>1 DEF Takes
      <3>2. ~ Touches(s)' /\ ~ Unpacking(s)'
        BY <3>1 DEF Touches, Unpacking, Idle
      <3> QED BY <2>0, <3>1, <3>2, <1>LineSame
    <2>2. CASE queue # <<>>
      <3>1. queue' = Tail(queue) /\ Len(queue) \in Nat \ {0}
        <4>1. queue' = Tail(queue)
          BY <2>2 DEF Takes
        <4> QED BY <2>2, <4>1, TailFacts
      <3>2. /\ Len(queue') = Len(queue) - 1 /\ Len(queue') \in Nat
            /\ \A i \in 1 .. Len(queue') : queue'[i] = queue[i + 1]
        BY <2>2, <3>1, TailFacts
      <3>3. \A x : Now(x, s)' = Now(x, s)
        BY DEF Now
      <3>4. /\ Now(queue[1], s) => tick' = [at |-> "unpack", item |-> queue[1], live |-> TRUE]
            /\ tick' = Idle \/ tick' = [at |-> "unpack", item |-> queue[1], live |-> TRUE]
            /\ tick' # Idle => queue[1].sid = syncId
        BY <2>2 DEF Takes, Now
      <3>5. /\ Now(queue[1], s) => Unpacking(s)' /\ tick'.item = queue[1]
            /\ Touches(s)' => Now(queue[1], s) /\ Unpacking(s)' /\ tick'.live /\ tick'.item = queue[1]
            /\ Unpacking(s)' => Touches(s)'
        BY <2>2, TakesFirst
      <3>6. ASSUME NEW p, NEW n \in 1 .. Len(queue), Reached(s, p, n) PROVE Reached(s, p, n - 1)'
        <4>1. CASE p <= app[s]
          BY <4>1 DEF Reached
        <4>2. ASSUME NEW i \in 1 .. n, Now(queue[i], s), p <= queue[i].to
              PROVE  Reached(s, p, n - 1)'
          <5>1. CASE i = 1
            BY <3>5, <4>2, <5>1 DEF Reached
          <5>2. CASE i # 1
            <6>1. i - 1 \in 1 .. (n - 1) /\ i - 1 \in 1 .. Len(queue') /\ (i - 1) + 1 = i
              BY <3>1, <3>2, <5>2
            <6>2. queue'[i - 1] = queue[i]
              BY <3>2, <6>1
            <6>3. Now(queue[i - 1], s)'
              BY <3>3, <4>2, <6>2 DEF Now
            <6> QED BY <4>2, <6>1, <6>2, <6>3 DEF Reached
          <5> QED BY <5>1, <5>2
        <4> QED BY <2>0, <3>6, <4>1, <4>2 DEF Reached
      <3>7. \A p : Reached(s, p, Len(queue)) => Reached(s, p, Len(queue))'
        <4>1. Len(queue) \in 1 .. Len(queue) /\ Len(queue') = Len(queue) - 1
          BY <3>1, <3>2
        <4> QED BY <3>6, <4>1 DEF Reached
      <3>8. ASSUME NEW i \in 1 .. Len(queue'), Now(queue[i], s)' PROVE Reached(s, queue[i].from, i - 1)'
        <4>1. i + 1 \in 1 .. Len(queue) /\ queue'[i] = queue[i + 1] /\ (i + 1) - 1 = i /\ i \in 1 .. Len(queue)
          BY <2>2, <3>1, TailFacts
        <4>2. Now(queue[i + 1], s)
          BY <3>8, <4>1 DEF Now
        <4>3. Reached(s, queue[i + 1].from, i)
          BY <4>1, <4>2 DEF LineAt
        <4>4. PICK p : p = queue[i + 1].from
          OBVIOUS
        <4>5. Reached(s, p, i - 1)'
          BY <3>6, <4>1, <4>3, <4>4
        <4>6. queue'[i].from = p
          BY <4>1, <4>4
        <4> QED BY <4>5, <4>6 DEF Reached
      <3>9. ASSUME NEW i \in 1 .. Len(queue'), Now(queue[i], s)', queue'[i].reset
            PROVE  /\ app'[s] <= queue'[i].to
                   /\ Unpacking(s)' => tick'.item.to <= queue'[i].to
                   /\ \A j \in 1 .. (i - 1) : Now(queue[j], s)' => queue'[j].to <= queue'[i].to
        <4>1. i + 1 \in 1 .. Len(queue) /\ queue'[i] = queue[i + 1] /\ (i + 1) - 1 = i /\ i \in Nat \ {0}
          BY <2>2, <3>1, TailFacts
        <4>2. Now(queue[i + 1], s) /\ queue[i + 1].reset
          BY <3>9, <4>1 DEF Now
        <4>3. /\ app[s] <= queue[i + 1].to
              /\ \A j \in 1 .. i : Now(queue[j], s) => queue[j].to <= queue[i + 1].to
          BY <4>1, <4>2 DEF LineAt
        <4>4. Unpacking(s)' => tick'.item.to <= queue[i + 1].to
          <5>1. 1 \in 1 .. i
            BY <4>1, FirstIndex
          <5> QED BY <3>5, <4>3, <5>1
        <4>5. ASSUME NEW j \in 1 .. (i - 1), Now(queue[j], s)' PROVE queue'[j].to <= queue'[i].to
          <5>1. j \in 1 .. Len(queue') /\ j + 1 \in 1 .. i /\ queue'[j] = queue[j + 1]
            BY <3>2, BeforeIndex
          <5>2. Now(queue[j + 1], s)
            BY <4>5, <5>1 DEF Now
          <5> QED BY <4>1, <4>3, <5>1, <5>2
        <4> QED BY <4>1, <4>3, <4>4, <4>5
      <3>10. LineAt(s)'
        BY <3>5, <3>8, <3>9 DEF LineAt
      <3>11. Unpacking(s)' => tick'.item.from <= app[s] /\ (tick'.item.reset => app[s] <= tick'.item.to)
        <4>1. SUFFICES ASSUME Unpacking(s)'
                       PROVE  tick'.item.from <= app[s] /\ (tick'.item.reset => app[s] <= tick'.item.to)
          OBVIOUS
        <4>2. Now(queue[1], s) /\ tick'.item = queue[1] /\ 1 \in 1 .. Len(queue) /\ 1 - 1 = 0
          BY <3>1, <3>5, <4>1
        <4>3. Reached(s, queue[1].from, 0)
          BY <4>2 DEF LineAt
        <4>4. queue[1].from <= app[s]
          BY <2>0, <4>3 DEF Reached
        <4>5. queue[1].reset => app[s] <= queue[1].to
          BY <4>2 DEF LineAt
        <4> QED BY <4>2, <4>4, <4>5
      <3> QED BY <3>7, <3>10, <3>11
    <2> QED BY <2>1, <2>2

  \* Steps that leave the queue alone and apply nothing to s.
  <1>SkipFrame. ASSUME NEW s \in Stream, SkipAt(s), UNCHANGED <<queue, syncId, loop>>, cookie'[s] = cookie[s],
                       app'[s] = app[s], s \in streams' => s \in streams,
                       \/ tick' = tick
                       \/ /\ ~ Touches(s) /\ ~ Touches(s)'
                          /\ Current' /\ s \in DOMAIN tick'.pos => tick'.pos[s] = cookie[s],
                       s \in streams' /\ loop = "reading" =>
                          sub'[s] = sub[s] \/ sub'[s] = Unsubscribed \/ sub'[s] <= app[s],
                       s \in streams' => \A r \in readd' : r.s = s /\ r.sid = syncId =>
                          r.at = cookie[s] \/ \E q \in readd : q.s = s /\ q.sid = syncId /\ q.at = r.at
                PROVE  SkipAt(s)'
    <2> USE <1>SkipFrame
    <2>1. /\ \A p, n : Reached(s, p, n) => Reached(s, p, n)'
          /\ LineAt(s) => LineAt(s)'
      BY <1>LineSame
    <2>2. Unpacking(s)' => Unpacking(s) /\ tick' = tick
      BY DEF Unpacking, Touches
    <2>3. s \in streams' \/ loop' = "none" => cookie'[s] <= app'[s]
      BY DEF SkipAt
    <2>4. Unpacking(s)' => tick'.item.from <= app'[s] /\ (tick'.item.reset => app'[s] <= tick'.item.to)
      BY <2>2 DEF SkipAt
    <2>5. ASSUME s \in streams'
          PROVE  /\ sub'[s] # Unsubscribed /\ loop' = "reading" => Reached(s, sub[s], Len(queue))'
                 /\ Current' /\ s \in DOMAIN tick'.pos => tick'.pos[s] <= app'[s]
                 /\ \A r \in readd' : r.s = s /\ r.sid = syncId' => r.at <= app'[s]
                 /\ LineAt(s)'
      <3>1. sub'[s] # Unsubscribed /\ loop' = "reading" => Reached(s, sub[s], Len(queue))'
        <4>1. CASE sub'[s] <= app[s]
          BY <4>1 DEF Reached
        <4>2. ASSUME sub'[s] = sub[s], sub'[s] # Unsubscribed, loop' = "reading"
              PROVE  Reached(s, sub[s], Len(queue))'
          <5>1. Reached(s, sub[s], Len(queue))
            BY <2>5, <4>2 DEF SkipAt
          <5>2. PICK p, n : p = sub[s] /\ n = Len(queue)
            OBVIOUS
          <5>3. Reached(s, p, n)'
            BY <2>1, <5>1, <5>2
          <5>4. sub'[s] = p /\ Len(queue') = n
            BY <4>2, <5>2
          <5> QED BY <5>3, <5>4 DEF Reached
        <4> QED BY <2>5, <4>1, <4>2
      <3>2. Current' /\ s \in DOMAIN tick'.pos => tick'.pos[s] <= app'[s]
        BY <2>5 DEF SkipAt, Current
      <3>3. \A r \in readd' : r.s = s /\ r.sid = syncId' => r.at <= app'[s]
        BY <2>5 DEF SkipAt
      <3>4. LineAt(s)'
        BY <2>1, <2>5 DEF SkipAt
      <3> QED BY <3>1, <3>2, <3>3, <3>4
    <2> QED BY <2>3, <2>4, <2>5 DEF SkipAt

  \* A session ends or begins.
  <1>SkipFresh. ASSUME Shape, NEW s \in Stream, SkipAt(s), UNCHANGED <<queue, tick, readd>>, cookie'[s] = cookie[s],
                       app'[s] = app[s], loop' # "none", syncId' = 0 \/ (conn = "opening" /\ syncId' = session),
                       s \in streams' => s \in streams \/ loop = "none",
                       s \in streams' /\ loop' = "reading" =>
                          \/ sub'[s] = Unsubscribed \/ sub'[s] = cookie[s]
                          \/ sub'[s] = sub[s] /\ loop = "reading" /\ syncId = 0 /\ s \in streams
                PROVE  SkipAt(s)'
    <2> USE <1>SkipFresh
    <2>1. /\ \A i \in 1 .. Len(queue) : queue[i].sid # syncId'
          /\ \A r \in readd : r.sid # syncId'
          /\ ~ Current'
      BY FreshSession
    <2>2. Unpacking(s)' = Unpacking(s) /\ Touches(s)' = Touches(s)
      BY DEF Unpacking, Touches
    <2>3. s \in streams' => cookie'[s] <= app'[s]
      BY DEF SkipAt
    <2>4. s \in streams' => LineAt(s)'
      <3>1. CASE s \in streams
        BY <2>1, <3>1, <1>LineFresh DEF SkipAt
      <3>2. CASE loop = "none"
        <4>1. tick = Idle /\ queue = <<>>
          BY <3>2 DEF Shape, IdleAtFirst
        <4>2. ~ Touches(s)' /\ \A i \in 1 .. Len(queue') : FALSE
          BY <4>1 DEF Touches, Idle
        <4> QED BY <4>2 DEF LineAt
      <3> QED BY <3>1, <3>2
    <2>5. ASSUME s \in streams', sub'[s] # Unsubscribed, loop' = "reading"
          PROVE  Reached(s, sub[s], Len(queue))'
      <3>1. CASE sub'[s] = cookie[s]
        BY <2>3, <2>5, <3>1 DEF Reached
      <3>2. CASE sub'[s] = sub[s] /\ loop = "reading" /\ syncId = 0 /\ s \in streams
        <4>1. Reached(s, sub[s], Len(queue))
          BY <2>5, <3>2 DEF SkipAt
        <4>2. \A i \in 1 .. Len(queue) : ~ Now(queue[i], s)
          BY <3>2 DEF Shape, QueueOK, ItemFits, Dated, Now
        <4>3. sub[s] <= app[s] \/ (Unpacking(s) /\ sub[s] <= tick.item.to)
          BY <4>1, <4>2 DEF Reached
        <4> QED BY <2>2, <3>2, <4>3 DEF Reached
      <3> QED BY <2>5, <3>1, <3>2
    <2>6. Unpacking(s)' => tick'.item.from <= app'[s] /\ (tick'.item.reset => app'[s] <= tick'.item.to)
      BY <2>2 DEF SkipAt
    <2> QED BY <2>1, <2>3, <2>4, <2>5, <2>6 DEF SkipAt

  \* A tick that takes an update, after a call to the node or without one.
  <1>SkipTakes. ASSUME Shape, NEW s \in Stream, SkipAt(s), NEW fl, Takes(fl), tick.at # "unpack",
                       UNCHANGED <<syncId, streams, loop, cookie, app, readd>>,
                       s \in streams /\ loop = "reading" =>
                          sub'[s] = sub[s] \/ sub'[s] = Unsubscribed \/ sub'[s] <= app[s]
                PROVE  SkipAt(s)'
    <2> USE <1>SkipTakes
    <2>1. tick'.at # "modify"
      BY DEF Takes, Idle
    <2>2. ~ Current'
      BY <2>1 DEF Current
    <2>3. CASE s \in streams
      <3>1. LineAt(s)
        BY <2>3 DEF SkipAt
      <3>2. /\ LineAt(s)'
            /\ \A p : Reached(s, p, Len(queue)) => Reached(s, p, Len(queue))'
            /\ Unpacking(s)' => tick'.item.from <= app[s] /\ (tick'.item.reset => app[s] <= tick'.item.to)
        BY <2>3, <3>1, <1>LineTakes DEF Shape
      <3>3. ASSUME sub'[s] # Unsubscribed, loop' = "reading" PROVE Reached(s, sub[s], Len(queue))'
        <4>1. CASE sub'[s] <= app[s]
          BY <4>1 DEF Reached
        <4>2. CASE sub'[s] = sub[s]
          <5>1. Reached(s, sub[s], Len(queue))
            BY <2>3, <3>3, <4>2 DEF SkipAt
          <5>2. PICK p : p = sub[s]
            OBVIOUS
          <5>3. Reached(s, p, Len(queue))'
            BY <3>2, <5>1, <5>2
          <5> QED BY <4>2, <5>2, <5>3
        <4> QED BY <2>3, <3>3, <4>1, <4>2
      <3> QED BY <2>2, <2>3, <3>2, <3>3 DEF SkipAt
    <2>4. CASE s \notin streams
      <3>1. ~ Unpacking(s)'
        BY <2>4, TakesFirst
      <3> QED BY <2>4, <3>1 DEF SkipAt
    <2> QED BY <2>3, <2>4

  \* onUpdate moves the record of s to where its update ends.
  <1>SkipApply. ASSUME Shape, NEW s \in Stream, SkipAt(s), Apply, Unpacking(s)
                PROVE  SkipAt(s)'
    <2> USE <1>SkipApply
    <2> DEFINE item == tick.item
    <2>1. /\ item \in Item /\ item.s = s /\ tick.live = TRUE
      BY DEF Unpacking, Touches, Shape, TickOK, Unpack
    <2>2. item.from \in Nat /\ item.to \in Nat /\ item.reset \in BOOLEAN /\ app[s] \in Nat
      BY <2>1 DEF Item, Shape, NumbersOK
    <2>3. cookie \in [Stream -> Nat] /\ app \in [Stream -> Nat]
      BY DEF Shape, NumbersOK
    <2>4. /\ cookie' = [cookie EXCEPT ![item.s] = item.to]
          /\ app' = [app EXCEPT ![item.s] = IF item.reset \/ item.to > @ THEN item.to ELSE @]
          /\ tick' = Idle
          /\ UNCHANGED <<queue, syncId, loop, streams, readd, sub>>
      BY <2>1 DEF Apply, MoveCookie, EndTick, loopVars, listVars, serverVars
    <2>5. item.reset => app[s] <= item.to
      BY DEF SkipAt
    <2> HIDE DEF item
    <2>6. cookie'[s] = item.to
      BY <2>1, <2>3, <2>4
    <2>7. app'[s] = IF item.reset \/ item.to > app[s] THEN item.to ELSE app[s]
      BY <2>1, <2>3, <2>4
    <2>8. app'[s] \in Nat /\ app[s] <= app'[s] /\ item.to <= app'[s] /\ (app'[s] = app[s] \/ app'[s] = item.to)
      BY <2>2, <2>5, <2>7
    <2>9. ~ Touches(s)' /\ ~ Unpacking(s)' /\ ~ Current'
      BY <2>4 DEF Touches, Unpacking, Current, Idle
    <2>10. ASSUME NEW p \in Nat, NEW n, Reached(s, p, n) PROVE Reached(s, p, n)'
      <3>1. CASE p <= app[s]
        BY <2>2, <2>8, <3>1 DEF Reached
      <3>2. CASE p <= item.to
        BY <2>2, <2>8, <3>2 DEF Reached
      <3>3. CASE \E i \in 1 .. n : Now(queue[i], s) /\ p <= queue[i].to
        BY <2>4, <3>3 DEF Reached, Now
      <3> QED BY <2>10, <3>1, <3>2, <3>3 DEF Reached, item
    <2>11. ASSUME s \in streams PROVE LineAt(s)'
      <3>1. LineAt(s)
        BY <2>11 DEF SkipAt
      <3>2. \A i \in 1 .. Len(queue) : queue[i].from \in Nat /\ queue[i].to \in Nat
        <4>1. \A i \in 1 .. Len(queue) : queue[i] \in Item
          BY QueueFacts DEF Shape
        <4> QED BY <4>1 DEF Item
      <3>3. ASSUME NEW i \in 1 .. Len(queue), Now(queue[i], s) PROVE Reached(s, queue[i].from, i - 1)'
        <4>1. Reached(s, queue[i].from, i - 1)
          BY <3>1, <3>3 DEF LineAt
        <4>2. PICK p : p = queue[i].from
          OBVIOUS
        <4>3. Reached(s, p, i - 1)'
          BY <2>10, <3>2, <4>1, <4>2
        <4> QED BY <2>4, <4>2, <4>3 DEF Reached
      <3>4. ASSUME NEW i \in 1 .. Len(queue), Now(queue[i], s), queue[i].reset
            PROVE  /\ app'[s] <= queue[i].to
                   /\ \A j \in 1 .. (i - 1) : Now(queue[j], s) => queue[j].to <= queue[i].to
        BY <2>8, <3>1, <3>4 DEF LineAt, item
      <3> QED BY <2>4, <2>9, <3>3, <3>4 DEF LineAt, Now
    <2>12. ASSUME s \in streams, sub[s] # Unsubscribed, loop = "reading" PROVE Reached(s, sub[s], Len(queue))'
      <3>1. Reached(s, sub[s], Len(queue)) /\ sub[s] \in Nat
        BY <2>12 DEF SkipAt, Shape, NumbersOK
      <3>2. PICK p, n : p = sub[s] /\ n = Len(queue)
        OBVIOUS
      <3>3. Reached(s, p, n)'
        BY <2>10, <3>1, <3>2
      <3> QED BY <2>4, <3>2, <3>3 DEF Reached
    <2>13. ASSUME s \in streams PROVE \A r \in readd : r.s = s /\ r.sid = syncId => r.at <= app'[s]
      <3>1. \A r \in readd : r.at \in Nat
        BY DEF Shape, ReaddOK, Readd
      <3> QED BY <2>2, <2>8, <2>13, <3>1 DEF SkipAt
    <2> QED BY <2>4, <2>6, <2>8, <2>9, <2>11, <2>12, <2>13 DEF SkipAt

  \* The node sends an update of s: it goes to the end of the queue.
  <1>SkipUpdate. ASSUME Shape, NEW s \in Stream, SkipAt(s), SyncUpdate(s)
                 PROVE  SkipAt(s)'
    <2> USE <1>SkipUpdate
    <2>1. PICK to \in sub[s]..pos[s], reset \in BOOLEAN :
             /\ reset => to = pos[s]
             /\ queue' = Append(queue, [sid |-> session, s |-> s, from |-> sub[s], to |-> to, reset |-> reset])
             /\ sub' = [sub EXCEPT ![s] = to]
      BY DEF SyncUpdate
    <2>2. /\ UNCHANGED <<syncId, loop, streams, cookie, app, tick, readd>>
          /\ loop = "reading" /\ conn = "open" /\ sub[s] # Unsubscribed
      BY DEF SyncUpdate, loopVars, listVars
    <2>3. syncId = session /\ sub[s] \in Nat /\ pos[s] \in Nat /\ to \in Nat /\ sub[s] <= to /\ to <= pos[s]
          /\ sub'[s] = to /\ app[s] \in Nat /\ app[s] <= pos[s]
      BY <2>1, <2>2 DEF Shape, SessionOK, NumbersOK
    <2> DEFINE new == [sid |-> session, s |-> s, from |-> sub[s], to |-> to, reset |-> reset]
    <2>4. PICK n : n = Len(queue)
      OBVIOUS
    <2>5. /\ queue \in Seq(Item) /\ n \in Nat /\ new \in Item
      BY <2>3, <2>4 DEF Shape, QueueOK, SessionOK, Item
    <2>6. new.s = s /\ new.sid = session /\ new.from = sub[s] /\ new.to = to /\ new.reset = reset
      OBVIOUS
    <2> HIDE DEF new
    <2>7. Len(queue') = n + 1 /\ queue'[n + 1] = new /\ \A i \in 1 .. n : queue'[i] = queue[i]
      BY <2>1, <2>5, <2>4 DEF new
    <2>8. Unpacking(s)' = Unpacking(s) /\ Touches(s)' = Touches(s) /\ \A x : Now(x, s)' = Now(x, s)
      BY <2>2 DEF Unpacking, Touches, Now
    <2>9. ASSUME NEW p, NEW m \in 0 .. n, Reached(s, p, m) PROVE Reached(s, p, m)'
      <3>1. CASE p <= app[s] \/ (Unpacking(s) /\ p <= tick.item.to)
        BY <2>2, <2>8, <3>1 DEF Reached
      <3>2. ASSUME NEW i \in 1 .. m, Now(queue[i], s), p <= queue[i].to PROVE Reached(s, p, m)'
        <4>1. queue'[i] = queue[i]
          BY <2>5, <2>7, LowerIndex
        <4>2. Now(queue[i], s)'
          BY <2>2, <3>2, <4>1 DEF Now
        <4> QED BY <3>2, <4>1, <4>2 DEF Reached
      <3> QED BY <2>9, <3>1, <3>2 DEF Reached
    <2>10. ASSUME s \in streams PROVE LineAt(s)'
      <3>1. LineAt(s) /\ Reached(s, sub[s], n)
        BY <2>2, <2>4, <2>10 DEF SkipAt
      <3>2. ASSUME NEW i \in 1 .. Len(queue'), Now(queue[i], s)' PROVE Reached(s, queue[i].from, i - 1)'
        <4>1. CASE i \in 1 .. n
          <5>1. queue'[i] = queue[i] /\ Now(queue[i], s)
            BY <2>2, <2>7, <3>2, <4>1 DEF Now
          <5>2. Reached(s, queue[i].from, i - 1) /\ i - 1 \in 0 .. n
            BY <2>5, <2>4, <3>1, <4>1, <5>1 DEF LineAt
          <5>3. PICK p : p = queue[i].from
            OBVIOUS
          <5>4. Reached(s, p, i - 1)'
            BY <2>9, <5>2, <5>3
          <5> QED BY <5>1, <5>3, <5>4 DEF Reached
        <4>2. CASE i = n + 1
          <5>1. PICK p : p = sub[s]
            OBVIOUS
          <5>2. Reached(s, p, n)' /\ i - 1 = n
            <6>1. Reached(s, p, n)'
              BY <2>5, <2>9, <3>1, <5>1, LowerIndex
            <6> QED BY <2>5, <4>2, <6>1
          <5>3. queue'[i].from = p
            BY <2>6, <2>7, <4>2, <5>1
          <5> QED BY <5>2, <5>3 DEF Reached
        <4> QED BY <2>5, <2>7, <4>1, <4>2, LastIndex
      <3>3. ASSUME NEW i \in 1 .. Len(queue'), Now(queue[i], s)', queue'[i].reset
            PROVE  /\ app'[s] <= queue'[i].to
                   /\ Unpacking(s)' => tick'.item.to <= queue'[i].to
                   /\ \A j \in 1 .. (i - 1) : Now(queue[j], s)' => queue'[j].to <= queue'[i].to
        <4>1. CASE i \in 1 .. n
          <5>0. queue'[i] = queue[i] /\ \A j \in 1 .. (i - 1) : queue'[j] = queue[j]
            BY <2>5, <2>7, <4>1, BeforeIndex
          <5>1. queue'[i] = queue[i] /\ Now(queue[i], s) /\ \A j \in 1 .. (i - 1) : queue'[j] = queue[j]
            BY <2>2, <3>3, <5>0 DEF Now
          <5>2. /\ app[s] <= queue[i].to
                /\ Unpacking(s) => tick.item.to <= queue[i].to
                /\ \A j \in 1 .. (i - 1) : Now(queue[j], s) => queue[j].to <= queue[i].to
            BY <2>4, <3>1, <3>3, <4>1, <5>1 DEF LineAt
          <5>3. \A j \in 1 .. (i - 1) : Now(queue[j], s)' => Now(queue[j], s)
            BY <2>2, <5>1 DEF Now
          <5> QED BY <2>2, <2>8, <5>1, <5>2, <5>3
        <4>2. CASE i = n + 1
          <5>1. queue'[i] = new /\ queue'[i].to = pos[s]
            BY <2>1, <2>6, <2>7, <3>3, <4>2
          <5>2. Unpacking(s) => tick.item.to <= pos[s]
            BY DEF Unpacking, Touches, Shape, TickOK, ItemFits
          <5>3. ASSUME NEW j \in 1 .. (i - 1), Now(queue[j], s)' PROVE queue'[j].to <= pos[s]
            <6>1. j \in 1 .. n /\ queue'[j] = queue[j]
              BY <2>5, <2>7, <4>2
            <6>2. queue[j].s = s
              BY <5>3, <6>1 DEF Now
            <6> QED BY <2>4, <6>1, <6>2 DEF Shape, QueueOK, ItemFits
          <5> QED BY <2>2, <2>3, <2>8, <5>1, <5>2, <5>3
        <4> QED BY <2>5, <2>7, <4>1, <4>2, LastIndex
      <3>4. (Touches(s) => tick.live)'
        BY <2>2, <2>8, <3>1 DEF LineAt
      <3> QED BY <3>2, <3>3, <3>4 DEF LineAt
    <2>11. Reached(s, sub[s], Len(queue))'
      <3>1. Now(queue[n + 1], s)'
        BY <2>2, <2>3, <2>6, <2>7 DEF Now
      <3>2. n + 1 \in 1 .. Len(queue') /\ sub'[s] <= queue'[n + 1].to
        BY <2>3, <2>5, <2>6, <2>7, LastIndex, LeqOrder
      <3> QED BY <3>1, <3>2 DEF Reached
    <2> QED BY <2>2, <2>8, <2>10, <2>11 DEF SkipAt, Current

  \* A stream comes into the map: nothing of it is on its way.
  <1>SkipLoaded. ASSUME Shape, MapInv, ItemHeld, NEW z \in Stream, Loaded(z), NEW s \in Stream, ~ Holey(s)', SkipAt(s)
                 PROVE  SkipAt(s)'
    <2> USE <1>SkipLoaded
    <2>1. UNCHANGED <<queue, syncId, loop, tick, readd, sub>>
      BY DEF Loaded, loopVars, tickVars, serverVars
    <2>2. cookie \in [Stream -> Nat] /\ app \in [Stream -> Nat] /\ pos[z] \in Nat
      BY DEF Shape, NumbersOK
    <2>3. \/ UNCHANGED <<cookie, app>>
          \/ /\ z \notin streams /\ loop # "done"
             /\ \E at \in 0..pos[z] : cookie' = [cookie EXCEPT ![z] = at] /\ app' = [app EXCEPT ![z] = at]
      BY DEF Loaded
    <2>4. \/ UNCHANGED streams
          \/ /\ z \notin streams /\ loop # "none" /\ streams' = streams \cup {z}
             /\ IF Asked(z) THEN Blot(z, "kept") ELSE UNCHANGED blot
             /\ \E at \in 0..pos[z] : cookie' = [cookie EXCEPT ![z] = at] /\ app' = [app EXCEPT ![z] = at]
      BY DEF Loaded
    <2>5. CASE s # z
      <3>1. cookie'[s] = cookie[s] /\ app'[s] = app[s]
        BY <2>2, <2>3, <2>5
      <3>2. s \in streams' => s \in streams
        BY <2>4, <2>5
      <3>3. \A r \in readd' : r.s = s /\ r.sid = syncId =>
                r.at = cookie[s] \/ \E q \in readd : q.s = s /\ q.sid = syncId /\ q.at = r.at
        BY <2>1
      <3> QED BY <2>1, <3>1, <3>2, <3>3, <1>SkipFrame
    <2>6. CASE s = z /\ UNCHANGED <<streams, cookie, app>>
      BY <2>1, <2>6, <1>SkipFrame
    <2>7. CASE s = z /\ ~ UNCHANGED <<streams, cookie, app>>
      <3>1. z \notin streams /\ loop # "done"
            /\ \E at \in 0..pos[z] : cookie' = [cookie EXCEPT ![z] = at] /\ app' = [app EXCEPT ![z] = at]
        <4>1. Loaded(z) /\ loop = "done" => UNCHANGED <<streams, cookie, app>>
          BY DEF Loaded
        <4> QED BY <2>3, <2>4, <2>7, <4>1
      <3>2. cookie'[s] <= app'[s]
        <4>1. PICK at \in 0..pos[z] : cookie' = [cookie EXCEPT ![z] = at] /\ app' = [app EXCEPT ![z] = at]
          BY <3>1
        <4>2. cookie'[s] = at /\ app'[s] = at /\ at \in Nat
          BY <2>2, <2>7, <4>1
        <4> QED BY <4>2, LeqOrder
      <3>3. ~ Unpacking(s)'
        BY <2>1, <2>7, <3>1 DEF ItemHeld, Unpacking, Touches
      <3>4. CASE s \notin streams'
        BY <3>2, <3>3, <3>4 DEF SkipAt
      <3>5. CASE s \in streams'
        <4>1. Blot(z, "kept") => Holey(z)'
          BY DEF Blot, MapInv, Holey
        <4>2. ~ Asked(z)
          BY <2>4, <2>7, <3>1, <3>5, <4>1
        <4>3. /\ \A i \in 1 .. Len(queue) : ~ Now(queue[i], s)
              /\ ~ Touches(s) /\ sub[s] = Unsubscribed /\ ~ (tick.at = "modify" /\ s \in tick.add)
              /\ ~ \E r \in readd : r.s = s
          <5>1. DOMAIN queue = 1 .. Len(queue)
            BY QueueFacts DEF Shape
          <5> QED BY <2>7, <4>2, <5>1 DEF Asked, Behind, Now, Touches
        <4>4. ~ (Current' /\ s \in DOMAIN tick'.pos)
          BY <2>1, <4>3 DEF Current, Shape, TickOK
        <4>5. LineAt(s)'
          BY <2>1, <4>3 DEF LineAt, Now, Touches
        <4> QED BY <2>1, <3>2, <3>3, <4>3, <4>4, <4>5 DEF SkipAt
      <3> QED BY <3>4, <3>5
    <2> QED BY <2>5, <2>6, <2>7

  \* stop empties the queue.
  <1>SkipStop. ASSUME Shape, MapInv, Stop, NEW s \in Stream, ~ Holey(s)', SkipAt(s)
               PROVE  SkipAt(s)'
    <2> USE <1>SkipStop
    <2>1. /\ UNCHANGED <<syncId, loop, streams, cookie, app, tick, readd, sub>> /\ queue' = <<>>
          /\ blot' = [u \in Stream |-> IF \E i \in DOMAIN queue : queue[i].s = u
                                       THEN blot[u] \union {"cleared"} ELSE blot[u]]
      BY DEF Stop, serverVars
    <2>2. DOMAIN queue = 1 .. Len(queue)
      BY QueueFacts DEF Shape
    <2>3. \A i \in 1 .. Len(queue) : ~ Now(queue[i], s)
      BY <2>1, <2>2 DEF Holey, Now
    <2>4. Unpacking(s)' = Unpacking(s) /\ Touches(s)' = Touches(s) /\ Current' = Current
      BY <2>1 DEF Unpacking, Touches, Current
    <2>5. \A i \in 1 .. Len(queue') : FALSE
      BY <2>1
    <2>6. s \in streams => LineAt(s)'
      BY <2>1, <2>4, <2>5 DEF LineAt, SkipAt
    <2>7. ASSUME s \in streams, sub[s] # Unsubscribed, loop = "reading" PROVE Reached(s, sub[s], Len(queue))'
      <3>1. Reached(s, sub[s], Len(queue))
        BY <2>7 DEF SkipAt
      <3>2. sub[s] <= app[s] \/ (Unpacking(s) /\ sub[s] <= tick.item.to)
        BY <2>3, <3>1 DEF Reached
      <3> QED BY <2>1, <2>4, <3>2 DEF Reached
    <2> QED BY <2>1, <2>4, <2>6, <2>7 DEF SkipAt

  \* An update of another stream goes to the end of the queue.
  <1>SkipOther. ASSUME Shape, NEW s \in Stream, SkipAt(s), UNCHANGED <<syncId, loop, streams, tick, readd, cookie, app>>,
                       sub'[s] = sub[s], NEW x \in Item, x.s # s, queue' = Append(queue, x)
                PROVE  SkipAt(s)'
    <2> USE <1>SkipOther
    <2>1. PICK n : n = Len(queue)
      OBVIOUS
    <2>2. /\ n \in Nat /\ Len(queue') = n + 1 /\ queue'[n + 1] = x
          /\ \A i \in 1 .. n : queue'[i] = queue[i]
      BY <2>1, QueueFacts, AppendFacts DEF Shape
    <2>3. /\ \A i \in 1 .. n : Now(queue[i], s)' = Now(queue[i], s)
          /\ \A i \in 1 .. Len(queue') : Now(queue[i], s)' => i \in 1 .. n
      <3>1. \A i \in 1 .. Len(queue') : i \in 1 .. n \/ queue'[i] = x
        BY <2>2, LastIndex
      <3> QED BY <2>2, <3>1 DEF Now
    <2>4. Unpacking(s)' = Unpacking(s) /\ Touches(s)' = Touches(s) /\ Current' = Current
      BY DEF Unpacking, Touches, Current
    <2>5. ASSUME NEW p, NEW m \in 0 .. n, Reached(s, p, m) PROVE Reached(s, p, m)'
      <3>1. CASE p <= app[s] \/ (Unpacking(s) /\ p <= tick.item.to)
        BY <2>4, <3>1 DEF Reached
      <3>2. ASSUME NEW i \in 1 .. m, Now(queue[i], s), p <= queue[i].to PROVE Reached(s, p, m)'
        <4>1. i \in 1 .. n
          BY <2>2, LowerIndex
        <4> QED BY <2>2, <2>3, <3>2, <4>1 DEF Reached
      <3> QED BY <2>5, <3>1, <3>2 DEF Reached
    <2>6. ASSUME s \in streams PROVE LineAt(s)'
      <3>1. LineAt(s)
        BY <2>6 DEF SkipAt
      <3>2. ASSUME NEW i \in 1 .. Len(queue'), Now(queue[i], s)' PROVE Reached(s, queue[i].from, i - 1)'
        <4>1. i \in 1 .. n /\ queue'[i] = queue[i] /\ Now(queue[i], s) /\ i - 1 \in 0 .. n
          <5>1. i \in 1 .. n
            BY <2>3, <3>2
          <5> QED BY <2>2, <2>3, <3>2, <5>1, BeforeIndex
        <4>2. PICK p : p = queue[i].from
          OBVIOUS
        <4>3. Reached(s, p, i - 1)
          BY <2>1, <3>1, <4>1, <4>2 DEF LineAt
        <4>4. Reached(s, p, i - 1)'
          BY <2>5, <4>1, <4>3
        <4> QED BY <4>1, <4>2, <4>4 DEF Reached
      <3>3. ASSUME NEW i \in 1 .. Len(queue'), Now(queue[i], s)', queue'[i].reset
            PROVE  /\ app'[s] <= queue'[i].to
                   /\ Unpacking(s)' => tick'.item.to <= queue'[i].to
                   /\ \A j \in 1 .. (i - 1) : Now(queue[j], s)' => queue'[j].to <= queue'[i].to
        <4>1. i \in 1 .. n /\ queue'[i] = queue[i] /\ Now(queue[i], s)
          BY <2>2, <2>3, <3>3
        <4>2. \A j \in 1 .. (i - 1) : j \in 1 .. n
          BY <2>2, <4>1, BeforeIndex
        <4>3. /\ app[s] <= queue[i].to
              /\ Unpacking(s) => tick.item.to <= queue[i].to
              /\ \A j \in 1 .. (i - 1) : Now(queue[j], s) => queue[j].to <= queue[i].to
          BY <2>1, <3>1, <3>3, <4>1 DEF LineAt
        <4> QED BY <2>2, <2>3, <2>4, <4>1, <4>2, <4>3
      <3> QED BY <2>4, <3>1, <3>2, <3>3 DEF LineAt
    <2>7. ASSUME s \in streams, sub[s] # Unsubscribed, loop = "reading" PROVE Reached(s, sub[s], Len(queue))'
      <3>1. PICK p : p = sub[s]
        OBVIOUS
      <3>2. Reached(s, p, n)
        BY <2>1, <2>7, <3>1 DEF SkipAt
      <3>3. n \in 0 .. n /\ \A i \in 1 .. n : i \in 1 .. Len(queue')
        BY <2>2, LowerIndex, LastIndex
      <3>4. Reached(s, p, n)'
        BY <2>5, <3>2, <3>3
      <3> QED BY <3>1, <3>3, <3>4 DEF Reached
    <2> QED BY <2>4, <2>6, <2>7 DEF SkipAt

  \* A tick ends that did not apply an update of s.
  <1>SkipIdle. ASSUME NEW s \in Stream, SkipAt(s), UNCHANGED <<queue, syncId, loop, streams, readd, sub>>,
                      cookie'[s] = cookie[s], app'[s] = app[s], tick.at = "unpack", tick' = Idle, ~ Unpacking(s)
               PROVE  SkipAt(s)'
    <2> USE <1>SkipIdle
    <2>1. ~ Touches(s)' /\ ~ Current' /\ ~ Unpacking(s)'
      BY DEF Touches, Current, Unpacking, Idle
    <2>2. CASE s \in streams
      <3>1. ~ Touches(s)
        BY <2>2 DEF SkipAt, LineAt, Unpacking
      <3> QED BY <2>1, <3>1, <1>SkipFrame
    <2>3. CASE s \notin streams
      BY <2>1, <2>3 DEF SkipAt
    <2> QED BY <2>2, <2>3

  \* Every step keeps SkipInv.
  <1>SkipInvStep. ASSUME Shape, MapInv, ItemHeld, SkipInv, [Next]_vars
                  PROVE  SkipInv'
    <2> USE <1>SkipInvStep
    <2> SUFFICES ASSUME NEW s \in Stream, ~ Holey(s)'
                 PROVE  SkipAt(s)'
      BY DEF SkipInv
    <2>0. SkipAt(s)
      BY MapFacts, <1>HoleyStays DEF SkipInv
    <2>1. \A r \in readd : r.s = s /\ r.sid = syncId =>
                r.at = cookie[s] \/ \E q \in readd : q.s = s /\ q.sid = syncId /\ q.at = r.at
      OBVIOUS
    <2>2. CASE \/ CancelSync \/ (\E z \in Stream : Join(z) \/ LoadFails(z) \/ NewEvent(z)) \/ vars' = vars
      <3>1. UNCHANGED <<queue, syncId, loop, streams, tick, readd, sub, cookie, app>>
        BY <2>2, ListsKept, LinesKept DEF listCore
      <3> QED BY <2>0, <2>1, <3>1, <1>SkipFrame
    <2>3. CASE \/ Start \/ SyncClose \/ RetryWaitOver \/ ConnectionLost \/ FinishAfterUpdate \/ ForceStop
               \/ (SyncNew /\ syncState # "Starting")
               \/ ((\E z \in Stream : SyncDown(z)) /\ syncState = "Canceling")
      <3>1. /\ UNCHANGED <<queue, tick, readd, cookie, app>>
            /\ syncId' = 0 /\ loop' # "none" /\ (streams' \subseteq streams \/ loop = "none")
            /\ loop' = "reading" => \E known : NextIteration(known)
        BY <2>3, EndsKeep
      <3>2. loop' = "reading" => sub'[s] = Unsubscribed \/ sub'[s] = cookie[s]
        <4>1. ASSUME NEW known, NextIteration(known)
              PROVE  sub' = [z \in Stream |-> IF z \in inFlight' THEN cookie[z] ELSE Unsubscribed]
          BY <4>1, Zenon DEF NextIteration
        <4> QED BY <3>1, <4>1
      <3> QED BY <2>0, <3>1, <3>2, <1>SkipFresh
    <2>4. CASE SyncNew /\ syncState = "Starting"
      <3>1. UNCHANGED <<queue, loop, session, streams, tick, readd, sub, cookie, app>> /\ syncId' = session
            /\ conn = "opening" /\ loop = "reading" /\ syncId = 0
        BY <2>4 DEF SyncNew, tickVars, Shape, LoopInv
      <3> QED BY <2>0, <3>1, <1>SkipFresh
    <2>5. CASE Stop
      BY <2>0, <2>5, <1>SkipStop
    <2>6. CASE \E z \in Stream : SyncUpdate(z)
      <3>1. PICK z \in Stream : SyncUpdate(z)
        BY <2>6
      <3>2. CASE s = z
        BY <2>0, <3>1, <3>2, <1>SkipUpdate
      <3>3. CASE s # z
        <4>1. /\ UNCHANGED <<syncId, loop, streams, tick, readd, cookie, app>>
              /\ \E to \in sub[z]..pos[z] : sub' = [sub EXCEPT ![z] = to]
              /\ \E x \in Item : x.s = z /\ queue' = Append(queue, x)
          <5>1. PICK to \in sub[z]..pos[z], reset \in BOOLEAN :
                   /\ queue' = Append(queue, [sid |-> session, s |-> z, from |-> sub[z], to |-> to, reset |-> reset])
                   /\ sub' = [sub EXCEPT ![z] = to]
            BY <3>1 DEF SyncUpdate
          <5>2. UNCHANGED <<syncId, loop, streams, tick, readd, cookie, app>> /\ sub[z] # Unsubscribed
            BY <3>1 DEF SyncUpdate, loopVars, listVars
          <5>3. sub[z] \in Nat /\ pos[z] \in Nat /\ to \in Nat /\ session \in Nat
            BY <5>1, <5>2 DEF Shape, NumbersOK, SessionOK
          <5>4. [sid |-> session, s |-> z, from |-> sub[z], to |-> to, reset |-> reset] \in Item
            BY <5>3 DEF Item
          <5> QED BY <5>1, <5>2, <5>4
        <4> QED BY <2>0, <3>3, <4>1, <1>SkipOther DEF Shape, NumbersOK
      <3> QED BY <3>2, <3>3
    <2>7. CASE CheckStartTicking \/ TickTimer
      <3>1. Tick
        BY <2>7 DEF CheckStartTicking, TickTimer
      <3>2. UNCHANGED <<syncId, loop, streams, readd, sub, cookie, app>>
        BY <3>1 DEF Tick, loopVars, serverVars
      <3>3. CASE UNCHANGED <<pendingSync, inFlight, pendingDelete, queue, tick>>
        BY <2>0, <2>1, <3>2, <3>3, <1>SkipFrame
      <3>4. ASSUME NEW add, NEW del, tick = Idle, Sends(add, del) PROVE SkipAt(s)'
        <4>1. /\ queue' = queue /\ tick'.at = "modify"
              /\ tick'.pos = [u \in add \cap streams |-> cookie[u]]
          BY <3>4 DEF Sends
        <4>2. ~ Touches(s) /\ ~ Touches(s)'
          BY <3>4, <4>1 DEF Touches, Idle
        <4>3. s \in DOMAIN tick'.pos => tick'.pos[s] = cookie[s]
          BY <4>1
        <4> QED BY <2>0, <2>1, <3>2, <4>1, <4>2, <4>3, <1>SkipFrame
      <3>5. CASE tick = Idle /\ Takes(inFlight)
        <4>1. tick.at # "unpack"
          BY <3>5 DEF Idle
        <4> QED BY <2>0, <3>2, <3>5, <4>1, <1>SkipTakes
      <3> QED BY <3>1, <3>3, <3>4, <3>5, TickFacts DEF Shape
    <2>8. CASE Apply
      <3>1. CASE Unpacking(s)
        BY <2>0, <2>8, <3>1, <1>SkipApply
      <3>2. CASE ~ Unpacking(s)
        <4>1. /\ UNCHANGED <<queue, syncId, loop, streams, readd, sub>> /\ tick' = Idle /\ tick.at = "unpack"
          BY <2>8 DEF Apply, EndTick, loopVars, listVars, serverVars
        <4>2. cookie'[s] = cookie[s] /\ app'[s] = app[s]
          <5>1. tick.live => tick.item.s # s
            BY <3>2, <4>1 DEF Unpacking, Touches
          <5>2. cookie \in [Stream -> Nat] /\ app \in [Stream -> Nat]
            BY DEF Shape, NumbersOK
          <5> QED BY <2>8, <5>1, <5>2 DEF Apply, MoveCookie
        <4> QED BY <2>0, <3>2, <4>1, <4>2, <1>SkipIdle
      <3> QED BY <3>1, <3>2
    <2>9. CASE ApplyFails
      <3>1. /\ UNCHANGED <<queue, syncId, loop, streams, readd, sub, cookie, app>> /\ tick' = Idle
            /\ tick.at = "unpack"
            /\ tick.live => Blot(tick.item.s, "dropped")
        BY <2>9 DEF ApplyFails, EndTick, loopVars, listVars, serverVars
      <3>2. ~ Unpacking(s)
        <4>1. Blot(s, "dropped") => Holey(s)'
          BY DEF Blot, MapInv, Holey
        <4> QED BY <3>1, <4>1 DEF Unpacking, Touches
      <3> QED BY <2>0, <3>1, <3>2, <1>SkipIdle
    <2>10. CASE ResumeRemovals \/ \E z \in Stream : Leave(z)
      <3>1. /\ UNCHANGED <<queue, syncId, loop, readd, sub, cookie, app>>
            /\ (streams' = streams /\ tick' = tick) \/ \E T : streams' = streams \ T /\ Forget(T)
        BY <2>10 DEF ResumeRemovals, Leave, listVars, serverVars
      <3>2. CASE tick' = tick
        BY <2>0, <2>1, <3>1, <3>2, <1>SkipFrame
      <3>3. CASE tick' # tick
        <4>1. PICK T : streams' = streams \ T /\ Forget(T)
          BY <3>1, <3>3
        <4>2. tick.at = "unpack" /\ tick.item.s \in T /\ tick' = [tick EXCEPT !.live = FALSE]
          BY <3>3, <4>1 DEF Forget
        <4>3. tick'.at = "unpack" /\ tick'.item = tick.item /\ ~ tick'.live
          BY <4>2 DEF Shape, TickOK, Unpack
        <4>4. CASE tick.item.s = s
          <5>1. s \notin streams' /\ ~ Unpacking(s)'
            BY <4>1, <4>2, <4>3, <4>4 DEF Unpacking
          <5> QED BY <2>0, <3>1, <5>1 DEF SkipAt
        <4>5. CASE tick.item.s # s
          <5>1. ~ Touches(s) /\ ~ Touches(s)' /\ ~ Current'
            BY <4>3, <4>5 DEF Touches, Current
          <5> QED BY <2>0, <2>1, <3>1, <5>1, <1>SkipFrame
        <4> QED BY <4>4, <4>5
      <3> QED BY <3>2, <3>3
    <2>11. CASE ModifyDone \/ ModifyFails
      <3>1. /\ tick.at = "modify" /\ UNCHANGED <<loop, syncId, session, conn, streams, readd, cookie, app>>
            /\ \E fl : Takes(fl)
            /\ UNCHANGED sub \/ (Served(tick.sid) /\ \E refused \in SUBSET DOMAIN tick.pos : SubModified(refused))
        BY <2>11, DoneEffect, FailEffect
      <3>2. ASSUME s \in streams, loop = "reading"
            PROVE  sub'[s] = sub[s] \/ sub'[s] = Unsubscribed \/ sub'[s] <= app[s]
        <4>1. Served(tick.sid) => Current
          BY <3>1, <3>2 DEF Served, Current, Shape, SessionOK
        <4>2. Current /\ s \in DOMAIN tick.pos => tick.pos[s] <= app[s]
          BY <2>0, <3>2 DEF SkipAt
        <4> QED BY <3>1, <4>1, <4>2 DEF SubModified
      <3> QED BY <2>0, <3>1, <3>2, <1>SkipTakes
    <2>12. CASE (\E z \in Stream : SyncDown(z)) /\ syncState # "Canceling"
      <3>1. PICK z \in Stream : SyncDown(z)
        BY <2>12
      <3>2. /\ UNCHANGED <<queue, syncId, loop, streams, tick, cookie, app>>
            /\ sub' = [sub EXCEPT ![z] = Unsubscribed] /\ CallAddStreamToSync(z, readd)
        BY <2>12, <3>1 DEF SyncDown, tickVars
      <3>3. \A r \in readd' : r.s = s /\ r.sid = syncId =>
                r.at = cookie[s] \/ \E q \in readd : q.s = s /\ q.sid = syncId /\ q.at = r.at
        BY <3>2 DEF CallAddStreamToSync
      <3>4. sub'[s] = sub[s] \/ sub'[s] = Unsubscribed
        BY <3>2 DEF Shape, NumbersOK
      <3> QED BY <2>0, <3>2, <3>3, <3>4, <1>SkipFrame
    <2>13. CASE \E r \in readd : AddStreamDone(r)
      <3>1. PICK r \in readd : AddStreamDone(r)
        BY <2>13
      <3>2. /\ UNCHANGED <<queue, syncId, loop, session, streams, tick, cookie, app>> /\ readd' \subseteq readd
            /\ r.sid = session /\ conn = "open" /\ (sub' = sub \/ sub' = [sub EXCEPT ![r.s] = r.at])
        BY <3>1 DEF AddStreamDone, Served, loopVars, listVars, tickVars
      <3>3. s \in streams /\ loop = "reading" => sub'[s] = sub[s] \/ sub'[s] <= app[s]
        <4>1. SUFFICES ASSUME s \in streams, loop = "reading", s = r.s PROVE r.at <= app[s]
          BY <3>2 DEF Shape, NumbersOK
        <4>2. r.sid = syncId
          BY <3>2, <4>1 DEF Shape, SessionOK
        <4> QED BY <2>0, <4>1, <4>2 DEF SkipAt
      <3> QED BY <2>0, <3>2, <3>3, <1>SkipFrame
    <2>14. CASE \E r \in readd : AddStreamFails(r) \/ AddStreamAgain(r)
      <3>1. PICK r \in readd : AddStreamFails(r) \/ AddStreamAgain(r)
        BY <2>14
      <3>2. UNCHANGED <<queue, syncId, loop, streams, tick, cookie, app, sub>>
        BY <3>1 DEF AddStreamFails, AddStreamAgain, loopVars, listVars, tickVars, serverVars
      <3>3. \A q \in readd' : q.s = s /\ q.sid = syncId =>
                q.at = cookie[s] \/ \E p \in readd : p.s = s /\ p.sid = syncId /\ p.at = q.at
        <4>1. CASE AddStreamFails(r)
          <5>1. readd' = (readd \ {r}) \cup {[r EXCEPT !.call = FALSE]}
            BY <4>1 DEF AddStreamFails
          <5>2. PICK f : f = [r EXCEPT !.call = FALSE]
            OBVIOUS
          <5>3. f.s = r.s /\ f.sid = r.sid /\ f.at = r.at
            BY <5>2 DEF Shape, ReaddOK, Readd
          <5> QED BY <5>1, <5>2, <5>3
        <4>2. CASE AddStreamAgain(r)
          <5>1. \/ readd' \subseteq readd
                \/ readd' = (readd \ {r}) \cup {[s |-> r.s, sid |-> syncId, at |-> cookie[r.s], call |-> TRUE]}
            BY <4>2 DEF AddStreamAgain, CallAddStreamToSync
          <5> QED BY <5>1
        <4> QED BY <3>1, <4>1, <4>2
      <3> QED BY <2>0, <3>2, <3>3, <1>SkipFrame
    <2>15. CASE \E z \in Stream : Loaded(z)
      BY <2>0, <2>15, <1>SkipLoaded
    <2> QED
      BY <2>2, <2>3, <2>4, <2>5, <2>6, <2>7, <2>8, <2>9, <2>10, <2>11, <2>12, <2>13, <2>14, <2>15
      DEF Next, LoopStep, TickStep, MapStep
  <1> QED BY <1>ItemHeldStep, <1>SkipInvStep

----------------------------------------------------------------------------
(* No event is applied twice.                                                *)

Raced(s) == blot[s] \cap {"late", "overtaken", "kept", "unknown"} # {}

\* The update that is being unpacked is of s and of this session.
Fresh(s) == Unpacking(s) /\ tick.item.sid = syncId

Queued(s) == \E i \in 1 .. Len(queue) : Now(queue[i], s)

\* The session serves s from where the updates on their way end.
SubAt(s) ==
    sub[s] # Unsubscribed =>
        /\ ~ Readding(s)
        /\ app[s] <= sub[s]
        /\ \A i \in 1 .. Len(queue) : Now(queue[i], s) => queue[i].to <= sub[s]
        /\ Fresh(s) => tick.item.to <= sub[s]

\* A stream that is to be added has no updates on their way.
NewAt(s) == Adding(s) \/ Readding(s) => ~ Queued(s) /\ ~ Fresh(s)

\* One addStreamToSync call at most, and it asks for what is not applied yet.
CallsAt(s) ==
    /\ \A r \in readd : r.s = s /\ r.sid = session => r.at = app[s]
    /\ \A r, q \in readd : r.s = s /\ q.s = s /\ r.sid = session /\ q.sid = session => r = q

SentAt(s) == Current /\ s \in DOMAIN tick.pos => tick.pos[s] = app[s]

\* Each queued update starts where the ones before it end, or later.
ChainAt(s) ==
    \A i \in 1 .. Len(queue) : Now(queue[i], s) =>
        /\ app[s] <= queue[i].from
        /\ Fresh(s) => tick.item.to <= queue[i].from
        /\ \A j \in 1 .. (i - 1) : Now(queue[j], s) => queue[j].to <= queue[i].from

ReplayAt(s) ==
    /\ s \in streams \/ loop = "none" => cookie[s] = app[s]
    /\ s \in streams /\ loop = "reading" => SubAt(s) /\ NewAt(s) /\ CallsAt(s) /\ SentAt(s)
    /\ s \in streams => ChainAt(s)
    /\ Unpacking(s) => app[s] <= tick.item.from

ReplayInv == \A s \in Stream : Raced(s) \/ ReplayAt(s)

\* Every step keeps ReplayInv.
LEMMA ReplayInvStep ==
    ASSUME FilterFacts, SpliceFacts, Shape, MapInv, AddInv, ItemHeld, ReplayInv, [Next]_vars
    PROVE  ReplayInv'

  \* A race stays recorded.
  <1>RacedStays. ASSUME BlotsGrow, NEW s \in Stream, Raced(s)
                 PROVE  Raced(s)'
    BY <1>RacedStays DEF BlotsGrow, Raced

  \* Steps that leave the queue alone and apply nothing to s.
  <1>ReplayFrame. ASSUME NEW s \in Stream, ReplayAt(s), NumbersOK, UNCHANGED <<queue, syncId, loop>>,
                         cookie'[s] = cookie[s], app'[s] = app[s], s \in streams' => s \in streams,
                         tick' = tick \/ ~ Unpacking(s)',
                         s \in streams' /\ loop = "reading" =>
                            /\ CallsAt(s)' /\ SentAt(s)'
                            /\ Adding(s)' \/ Readding(s)' => Adding(s) \/ Readding(s) \/ (~ Queued(s) /\ ~ Fresh(s))
                            /\ \/ sub'[s] = Unsubscribed
                               \/ sub'[s] = sub[s] /\ (Readding(s)' => Readding(s))
                               \/ sub'[s] = app[s] /\ ~ Readding(s)' /\ (Adding(s) \/ Readding(s))
                  PROVE  ReplayAt(s)'
    <2> USE <1>ReplayFrame
    <2>1. Fresh(s)' => Fresh(s) /\ tick' = tick
      BY DEF Fresh, Unpacking, Touches
    <2>2. \A x : Now(x, s)' = Now(x, s)
      BY DEF Now
    <2>3. Queued(s)' = Queued(s)
      BY <2>2 DEF Queued
    <2>4. s \in streams' \/ loop' = "none" => cookie'[s] = app'[s]
      BY DEF ReplayAt
    <2>5. Unpacking(s)' => app'[s] <= tick'.item.from
      BY DEF ReplayAt, Unpacking, Touches
    <2>6. s \in streams' => ChainAt(s)'
      BY <2>1, <2>2 DEF ReplayAt, ChainAt
    <2>7. ASSUME s \in streams', loop' = "reading" PROVE SubAt(s)' /\ NewAt(s)' /\ CallsAt(s)' /\ SentAt(s)'
      <3>1. SubAt(s) /\ NewAt(s)
        BY <2>7 DEF ReplayAt
      <3>2. NewAt(s)'
        BY <2>1, <2>3, <2>7, <3>1 DEF NewAt
      <3>3. CASE sub'[s] = Unsubscribed
        BY <2>7, <3>2, <3>3 DEF SubAt
      <3>4. CASE sub'[s] = sub[s] /\ (Readding(s)' => Readding(s))
        <4>1. SubAt(s)'
          BY <2>1, <2>2, <3>1, <3>4 DEF SubAt
        <4> QED BY <2>7, <3>2, <4>1
      <3>5. CASE sub'[s] = app[s] /\ ~ Readding(s)' /\ (Adding(s) \/ Readding(s))
        <4>1. ~ Queued(s)' /\ ~ Fresh(s)'
          BY <2>1, <2>3, <3>1, <3>5 DEF NewAt
        <4>2. app'[s] <= sub'[s]
          BY <3>5 DEF NumbersOK
        <4>3. SubAt(s)'
          BY <3>5, <4>1, <4>2 DEF SubAt, Queued
        <4> QED BY <2>7, <3>2, <4>3
      <3> QED BY <2>7, <3>3, <3>4, <3>5
    <2> QED BY <2>4, <2>5, <2>6, <2>7 DEF ReplayAt

  \* A session ends or begins: nothing queued or called is of the new one.
  <1>ReplayFresh. ASSUME Shape, NEW s \in Stream, ReplayAt(s), UNCHANGED <<queue, tick, readd>>, cookie'[s] = cookie[s],
                         app'[s] = app[s], loop' # "none", syncId' = 0 \/ (conn = "opening" /\ syncId' = session),
                         s \in streams' => s \in streams \/ loop = "none",
                         s \in streams' /\ loop' = "reading" =>
                            /\ session' = session + 1 \/ (session' = session /\ conn = "opening")
                            /\ \/ sub'[s] = Unsubscribed \/ sub'[s] = cookie[s]
                               \/ sub'[s] = sub[s] /\ loop = "reading" /\ s \in streams
                  PROVE  ReplayAt(s)'
    <2> USE <1>ReplayFresh
    <2>1. /\ \A i \in 1 .. Len(queue) : queue[i].sid # syncId'
          /\ tick.at = "unpack" => tick.item.sid # syncId'
          /\ ~ Current'
      BY FreshSession
    <2>2. ~ Fresh(s)' /\ Unpacking(s)' = Unpacking(s)
      BY <2>1 DEF Fresh, Unpacking, Touches
    <2>3. \A i \in 1 .. Len(queue') : ~ Now(queue[i], s)'
      BY <2>1 DEF Now
    <2>4. s \in streams' => cookie'[s] = app'[s]
      BY DEF ReplayAt
    <2>5. ASSUME s \in streams', loop' = "reading" PROVE SubAt(s)' /\ NewAt(s)' /\ CallsAt(s)' /\ SentAt(s)'
      <3>1. \A r \in readd' : r.sid # session'
        BY <2>5, NotCurrent DEF Shape, SessionOK
      <3>2. ~ Readding(s)' /\ CallsAt(s)'
        BY <3>1 DEF Readding, CallsAt
      <3>3. NewAt(s)' /\ SentAt(s)'
        BY <2>1, <2>2, <2>3 DEF NewAt, SentAt, Queued
      <3>4. sub'[s] # Unsubscribed => app'[s] <= sub'[s]
        <4>1. CASE sub'[s] = cookie[s]
          BY <2>4, <2>5, <4>1 DEF Shape, NumbersOK
        <4>2. CASE sub'[s] = sub[s] /\ loop = "reading" /\ s \in streams
          BY <4>2 DEF ReplayAt, SubAt
        <4> QED BY <2>5, <4>1, <4>2
      <3>5. SubAt(s)'
        BY <2>2, <2>3, <3>2, <3>4 DEF SubAt
      <3> QED BY <3>2, <3>3, <3>5
    <2>6. ChainAt(s)'
      BY <2>3 DEF ChainAt
    <2>7. Unpacking(s)' => app'[s] <= tick'.item.from
      BY <2>2 DEF ReplayAt
    <2> QED BY <2>4, <2>5, <2>6, <2>7 DEF ReplayAt

  \* A tick that takes an update, after a call to the node or without one.
  <1>ReplayTakes. ASSUME Shape, NEW s \in Stream, ReplayAt(s), NEW fl, Takes(fl), tick.at # "unpack",
                         UNCHANGED <<syncId, streams, loop, cookie, app, readd, session>>,
                         s \in streams /\ loop = "reading" =>
                            /\ Adding(s)' => Adding(s)
                            /\ \/ sub'[s] = sub[s] \/ sub'[s] = Unsubscribed
                               \/ sub'[s] = app[s] /\ Adding(s) /\ ~ Readding(s)
                  PROVE  ReplayAt(s)'
    <2> USE <1>ReplayTakes
    <2>1. tick'.at # "modify" /\ ~ Unpacking(s) /\ ~ Fresh(s)
      BY TakesIdle DEF Unpacking, Touches, Fresh
    <2>2. ~ Current' /\ SentAt(s)' /\ Readding(s)' = Readding(s)
      BY <2>1 DEF Current, SentAt, Readding
    <2>3. \A x : Now(x, s)' = Now(x, s)
      BY DEF Now
    <2>4. CASE s \notin streams
      <3>1. ~ Unpacking(s)'
        BY <2>4, TakesFirst
      <3> QED BY <2>4, <3>1 DEF ReplayAt
    <2>5. CASE s \in streams /\ queue = <<>>
      <3>1. queue' = queue /\ ~ Unpacking(s)' /\ ~ Queued(s)
        <4>1. queue' = queue
          BY <2>5 DEF Takes
        <4>2. \A i \in 1 .. Len(queue) : FALSE
          BY <2>5
        <4> QED BY <2>5, <4>1, <4>2, TakesFirst DEF Queued
      <3>2. loop = "reading" => CallsAt(s)'
        BY <2>5 DEF ReplayAt, CallsAt
      <3> QED BY <2>1, <2>2, <2>5, <3>1, <3>2, <1>ReplayFrame DEF Shape
    <2>6. CASE s \in streams /\ queue # <<>>
      <3>1. queue \in Seq(Item)
        BY DEF Shape, QueueOK
      <3>2. queue' = Tail(queue) /\ Len(queue) \in Nat \ {0}
        <4>1. queue' = Tail(queue)
          BY <2>6 DEF Takes
        <4> QED BY <2>6, <4>1, TailFacts DEF Shape
      <3>3. /\ Len(queue') = Len(queue) - 1 /\ Len(queue') \in Nat
            /\ \A i \in 1 .. Len(queue') : queue'[i] = queue[i + 1] /\ i + 1 \in 1 .. Len(queue)
        BY <2>6, <3>2, TailFacts DEF Shape
      <3>4. /\ tick' = Idle \/ tick' = [at |-> "unpack", item |-> queue[1], live |-> TRUE]
            /\ tick' # Idle => queue[1].sid = syncId
        BY <2>6 DEF Takes
      <3>5. Unpacking(s)' => Now(queue[1], s) /\ tick'.item = queue[1] /\ 1 \in 1 .. Len(queue)
        <4>1. Unpacking(s)' => Now(queue[1], s) /\ tick'.item = queue[1]
          BY TakesFirst
        <4> QED BY <3>2, <4>1, FirstIndex
      <3>6. Fresh(s)' => Unpacking(s)'
        BY DEF Fresh
      <3>7. ChainAt(s)
        BY <2>6 DEF ReplayAt
      <3>8. ChainAt(s)'
        <4> SUFFICES ASSUME NEW i \in 1 .. Len(queue'), Now(queue[i], s)'
                     PROVE  /\ app'[s] <= queue'[i].from
                            /\ Fresh(s)' => tick'.item.to <= queue'[i].from
                            /\ \A j \in 1 .. (i - 1) : Now(queue[j], s)' => queue'[j].to <= queue'[i].from
          BY DEF ChainAt
        <4>1. i + 1 \in 1 .. Len(queue) /\ queue'[i] = queue[i + 1] /\ (i + 1) - 1 = i /\ i \in Nat \ {0}
          BY <2>6, <3>2, TailFacts DEF Shape
        <4>2. Now(queue[i + 1], s)
          BY <2>3, <4>1 DEF Now
        <4>3. /\ app[s] <= queue[i + 1].from
              /\ \A j \in 1 .. i : Now(queue[j], s) => queue[j].to <= queue[i + 1].from
          BY <3>7, <4>1, <4>2 DEF ChainAt
        <4>4. Fresh(s)' => tick'.item.to <= queue[i + 1].from
          <5>1. 1 \in 1 .. i
            BY <4>1, FirstIndex
          <5> QED BY <3>5, <3>6, <4>3, <5>1
        <4>5. ASSUME NEW j \in 1 .. (i - 1), Now(queue[j], s)' PROVE queue'[j].to <= queue'[i].from
          <5>1. j \in 1 .. Len(queue') /\ j + 1 \in 1 .. i /\ queue'[j] = queue[j + 1]
            BY <3>3, BeforeIndex
          <5>2. Now(queue[j + 1], s)
            BY <4>5, <5>1 DEF Now
          <5> QED BY <4>1, <4>3, <5>1, <5>2
        <4> QED BY <4>1, <4>3, <4>4, <4>5
      <3>9. Unpacking(s)' => app'[s] <= tick'.item.from
        BY <3>5, <3>7 DEF ChainAt
      <3>10. ASSUME loop = "reading" PROVE SubAt(s)' /\ NewAt(s)' /\ CallsAt(s)'
        <4>1. SubAt(s) /\ NewAt(s) /\ CallsAt(s)
          BY <2>6, <3>10 DEF ReplayAt
        <4>2. Queued(s)' \/ Fresh(s)' => Queued(s)
          <5>1. Fresh(s)' => Queued(s)
            BY <3>5, <3>6 DEF Queued
          <5>2. ASSUME NEW i \in 1 .. Len(queue'), Now(queue[i], s)' PROVE Queued(s)
            BY <3>3, <5>2 DEF Queued, Now
          <5> QED BY <5>1, <5>2 DEF Queued
        <4>3. NewAt(s)'
          BY <2>2, <2>6, <3>10, <4>1, <4>2 DEF NewAt
        <4>4. CallsAt(s)'
          BY <4>1 DEF CallsAt
        <4>5. ASSUME sub'[s] # Unsubscribed PROVE SubAt(s)'
          <5>1. CASE sub'[s] = sub[s]
            <6>1. ASSUME NEW i \in 1 .. Len(queue'), Now(queue[i], s)' PROVE queue'[i].to <= sub'[s]
              <7>1. i + 1 \in 1 .. Len(queue) /\ queue'[i] = queue[i + 1]
                BY <3>3
              <7>2. Now(queue[i + 1], s)
                BY <6>1, <7>1 DEF Now
              <7> QED BY <4>1, <4>5, <5>1, <7>1, <7>2 DEF SubAt
            <6>2. Fresh(s)' => tick'.item.to <= sub'[s]
              BY <3>5, <3>6, <4>1, <4>5, <5>1 DEF SubAt
            <6> QED BY <2>2, <4>1, <4>5, <5>1, <6>1, <6>2 DEF SubAt
          <5>2. CASE sub'[s] = app[s] /\ Adding(s) /\ ~ Readding(s)
            <6>1. ~ Queued(s)' /\ ~ Fresh(s)'
              BY <4>1, <4>2, <5>2 DEF NewAt
            <6>2. app'[s] <= sub'[s]
              <7>1. app[s] \in Nat
                BY DEF Shape, NumbersOK
              <7> QED BY <5>2, <7>1, LeqOrder
            <6> QED BY <2>2, <5>2, <6>1, <6>2 DEF SubAt, Queued
          <5> QED BY <2>6, <3>10, <4>5, <5>1, <5>2
        <4> QED BY <4>3, <4>4, <4>5 DEF SubAt
      <3> QED BY <2>2, <2>6, <3>8, <3>9, <3>10 DEF ReplayAt
    <2> QED BY <2>4, <2>5, <2>6

  \* The update that was unpacked is applied: the record is where it ends.
  <1>ReplayApply. ASSUME Shape, MapInv, ItemHeld, Apply, NEW s \in Stream, Unpacking(s), ~ Raced(s)', ReplayAt(s)
                  PROVE  ReplayAt(s)'
    <2> USE <1>ReplayApply
    <2>1. /\ UNCHANGED <<queue, syncId, loop, streams, readd, sub, session, pendingSync>> /\ tick' = Idle
      BY DEF Apply, EndTick, loopVars, listVars, serverVars
    <2>2. tick.at = "unpack" /\ tick.item.s = s /\ tick.live
      BY DEF Unpacking, Touches
    <2>3. /\ MoveCookie(tick.item)
          /\ app' = [app EXCEPT ![s] = IF tick.item.reset \/ tick.item.to > @ THEN tick.item.to ELSE @]
          /\ IF tick.item.sid # syncId THEN Blot(s, "late") ELSE UNCHANGED blot
      BY <2>2 DEF Apply
    <2>4. Fresh(s)
      <3>1. Blot(s, "late") => Raced(s)'
        BY DEF Blot, MapInv, Raced
      <3> QED BY <2>3, <3>1 DEF Fresh
    <2>5. /\ cookie \in [Stream -> Nat] /\ app \in [Stream -> Nat]
          /\ tick.item \in Item /\ tick.item.from <= tick.item.to
      BY <2>2 DEF Shape, NumbersOK, TickOK, Unpack, ItemFits
    <2>6. app[s] <= tick.item.from /\ tick.item.from \in Nat /\ tick.item.to \in Nat /\ app[s] \in Nat
      BY <2>5 DEF ReplayAt, Item
    <2>7. app'[s] = tick.item.to /\ cookie'[s] = tick.item.to
      BY <2>2, <2>3, <2>5, <2>6 DEF MoveCookie
    <2>8. ~ Unpacking(s)' /\ ~ Fresh(s)' /\ ~ Current' /\ Readding(s)' = Readding(s)
      BY <2>1 DEF Unpacking, Touches, Fresh, Current, Idle, Readding
    <2>9. \A x : Now(x, s)' = Now(x, s)
      BY <2>1 DEF Now
    <2>10. s \in streams' => ChainAt(s)'
      BY <2>1, <2>4, <2>7, <2>8, <2>9 DEF ReplayAt, ChainAt
    <2>11. ASSUME s \in streams, loop = "reading" PROVE SubAt(s)' /\ NewAt(s)' /\ CallsAt(s)' /\ SentAt(s)'
      <3>1. SubAt(s) /\ NewAt(s)
        BY <2>11 DEF ReplayAt
      <3>2. ~ Adding(s) /\ ~ Readding(s)
        BY <2>4, <3>1 DEF NewAt
      <3>3. ~ Adding(s)' /\ ~ Readding(s)'
        BY <2>1, <2>8, <3>2 DEF Adding
      <3>4. NewAt(s)' /\ CallsAt(s)' /\ SentAt(s)'
        BY <2>8, <3>3 DEF NewAt, CallsAt, SentAt, Readding
      <3>5. SubAt(s)'
        BY <2>1, <2>4, <2>7, <2>8, <2>9, <3>1, <3>3 DEF SubAt
      <3> QED BY <3>4, <3>5
    <2>12. s \in streams' \/ loop' = "none" => cookie'[s] = app'[s]
      BY <2>7
    <2> QED BY <2>1, <2>8, <2>10, <2>11, <2>12 DEF ReplayAt

  \* An update of s, or of another stream, goes to the end of the queue.
  <1>ReplayAppend. ASSUME Shape, NEW s \in Stream, ReplayAt(s),
                          UNCHANGED <<syncId, loop, streams, tick, readd, cookie, app, session, pendingSync>>,
                          NEW x \in Item, queue' = Append(queue, x),
                          x.s # s => sub'[s] = sub[s],
                          x.s = s => /\ loop = "reading" /\ sub[s] # Unsubscribed /\ ~ Adding(s)
                                     /\ x.from = sub[s] /\ sub'[s] = x.to /\ x.from <= x.to
                   PROVE  ReplayAt(s)'
    <2> USE <1>ReplayAppend
    <2>1. PICK n : n = Len(queue)
      OBVIOUS
    <2>2. /\ n \in Nat /\ Len(queue') = n + 1 /\ queue'[n + 1] = x
          /\ \A i \in 1 .. n : queue'[i] = queue[i]
          /\ \A i \in 1 .. n : queue[i] \in Item
      BY <2>1, QueueFacts, AppendFacts DEF Shape
    <2>3. \A y : Now(y, s)' = Now(y, s)
      BY DEF Now
    <2>4. /\ \A i \in 1 .. Len(queue') : i \in 1 .. n \/ (i = n + 1 /\ queue'[i] = x)
          /\ \A i \in 1 .. n : i \in 1 .. Len(queue')
      BY <2>2, LastIndex
    <2>5. Unpacking(s)' = Unpacking(s) /\ Fresh(s)' = Fresh(s) /\ Current' = Current /\ Readding(s)' = Readding(s)
      BY DEF Unpacking, Touches, Fresh, Current, Readding
    <2>6. Adding(s)' = Adding(s)
      BY <2>5 DEF Adding
    <2>7. CASE s \notin streams
      BY <2>5, <2>7 DEF ReplayAt
    <2>8. CASE s \in streams /\ x.s # s
      <3>1. \A i \in 1 .. Len(queue') : Now(queue[i], s)' => i \in 1 .. n /\ queue'[i] = queue[i] /\ Now(queue[i], s)
        BY <2>2, <2>4, <2>8 DEF Now
      <3>2. ChainAt(s)'
        <4> SUFFICES ASSUME NEW i \in 1 .. Len(queue'), Now(queue[i], s)'
                     PROVE  /\ app'[s] <= queue'[i].from
                            /\ Fresh(s)' => tick'.item.to <= queue'[i].from
                            /\ \A j \in 1 .. (i - 1) : Now(queue[j], s)' => queue'[j].to <= queue'[i].from
          BY DEF ChainAt
        <4>1. i \in 1 .. n /\ queue'[i] = queue[i] /\ Now(queue[i], s)
          BY <3>1
        <4>2. \A j \in 1 .. (i - 1) : j \in 1 .. Len(queue')
          BY <2>2, <4>1, BeforeIndex, LastIndex
        <4>3. /\ app[s] <= queue[i].from /\ (Fresh(s) => tick.item.to <= queue[i].from)
              /\ \A j \in 1 .. (i - 1) : Now(queue[j], s) => queue[j].to <= queue[i].from
          BY <2>1, <2>8, <4>1 DEF ReplayAt, ChainAt
        <4> QED BY <2>5, <3>1, <4>1, <4>2, <4>3
      <3>3. ASSUME loop = "reading" PROVE SubAt(s)' /\ NewAt(s)' /\ CallsAt(s)' /\ SentAt(s)'
        <4>1. SubAt(s) /\ NewAt(s) /\ CallsAt(s) /\ SentAt(s)
          BY <2>8, <3>3 DEF ReplayAt
        <4>2. Queued(s)' => Queued(s)
          BY <2>1, <3>1 DEF Queued
        <4>3. NewAt(s)' /\ CallsAt(s)' /\ SentAt(s)'
          BY <2>5, <2>6, <4>1, <4>2 DEF NewAt, CallsAt, SentAt
        <4>4. SubAt(s)'
          BY <2>1, <2>5, <2>8, <3>1, <4>1 DEF SubAt
        <4> QED BY <4>3, <4>4
      <3> QED BY <2>5, <2>8, <3>2, <3>3 DEF ReplayAt
    <2>9. CASE s \in streams /\ x.s = s
      <3>1. SubAt(s) /\ NewAt(s) /\ CallsAt(s) /\ SentAt(s) /\ ChainAt(s)
        BY <2>9 DEF ReplayAt
      <3>2. /\ ~ Readding(s) /\ app[s] <= x.from
            /\ \A i \in 1 .. n : Now(queue[i], s) => queue[i].to <= x.from
            /\ Fresh(s) => tick.item.to <= x.from
        BY <2>1, <2>9, <3>1 DEF SubAt
      <3>3. ChainAt(s)'
        <4> SUFFICES ASSUME NEW i \in 1 .. Len(queue'), Now(queue[i], s)'
                     PROVE  /\ app'[s] <= queue'[i].from
                            /\ Fresh(s)' => tick'.item.to <= queue'[i].from
                            /\ \A j \in 1 .. (i - 1) : Now(queue[j], s)' => queue'[j].to <= queue'[i].from
          BY DEF ChainAt
        <4>1. \A j \in 1 .. (i - 1) : j \in 1 .. n /\ queue'[j] = queue[j]
          BY <2>2, LastIndex
        <4>2. CASE i \in 1 .. n
          <5>1. queue'[i] = queue[i] /\ Now(queue[i], s)
            BY <2>2, <4>2 DEF Now
          <5>2. /\ app[s] <= queue[i].from /\ (Fresh(s) => tick.item.to <= queue[i].from)
                /\ \A j \in 1 .. (i - 1) : Now(queue[j], s) => queue[j].to <= queue[i].from
            BY <2>1, <3>1, <4>2, <5>1 DEF ChainAt
          <5> QED BY <2>5, <4>1, <5>1, <5>2 DEF Now
        <4>3. CASE queue'[i] = x
          BY <2>5, <3>2, <4>1, <4>3 DEF Now
        <4> QED BY <2>4, <4>2, <4>3
      <3>4. SubAt(s)'
        <4>1. app[s] \in Nat /\ x.from \in Nat /\ x.to \in Nat /\ (\A i \in 1 .. n : queue[i].to \in Nat)
          BY <2>2 DEF Shape, NumbersOK, Item
        <4>2. app'[s] <= sub'[s]
          BY <2>9, <3>2, <4>1, LeqOrder
        <4>3. ASSUME NEW i \in 1 .. Len(queue'), Now(queue[i], s)' PROVE queue'[i].to <= sub'[s]
          <5>1. CASE i \in 1 .. n
            <6>1. queue'[i] = queue[i] /\ Now(queue[i], s)
              BY <2>2, <4>3, <5>1 DEF Now
            <6>2. queue[i].to <= x.from
              BY <3>2, <5>1, <6>1
            <6> QED BY <2>9, <4>1, <5>1, <6>1, <6>2, LeqOrder
          <5>2. CASE queue'[i] = x
            BY <2>9, <4>1, <5>2, LeqOrder
          <5> QED BY <2>4, <5>1, <5>2
        <4>4. Fresh(s)' => tick'.item.to <= sub'[s]
          <5>1. Fresh(s) => tick.item.to \in Nat
            BY DEF Fresh, Unpacking, Touches, Shape, TickOK, Unpack, Item
          <5>2. tick' = tick /\ sub'[s] = x.to /\ x.from <= x.to
            BY <2>9
          <5> QED BY <2>5, <3>2, <4>1, <5>1, <5>2, LeqOrder
        <4> QED BY <2>5, <3>2, <4>2, <4>3, <4>4 DEF SubAt
      <3>5. NewAt(s)' /\ CallsAt(s)' /\ SentAt(s)'
        BY <2>5, <2>6, <2>9, <3>1, <3>2 DEF NewAt, CallsAt, SentAt
      <3> QED BY <2>5, <2>9, <3>3, <3>4, <3>5 DEF ReplayAt
    <2> QED BY <2>7, <2>8, <2>9

  \* stop empties the queue.
  <1>ReplayStop. ASSUME Shape, Stop, NEW s \in Stream, ReplayAt(s)
                 PROVE  ReplayAt(s)'
    <2> USE <1>ReplayStop
    <2>1. /\ UNCHANGED <<syncId, loop, streams, cookie, app, tick, readd, sub, session, pendingSync>>
          /\ queue' = <<>>
      BY DEF Stop, serverVars
    <2>2. /\ Unpacking(s)' = Unpacking(s) /\ Fresh(s)' = Fresh(s) /\ Current' = Current
          /\ Readding(s)' = Readding(s)
      BY <2>1 DEF Unpacking, Touches, Fresh, Current, Readding
    <2>3. (\A i \in 1 .. Len(queue') : FALSE) /\ Adding(s)' = Adding(s)
      BY <2>1, <2>2 DEF Adding
    <2>4. ChainAt(s)' /\ ~ Queued(s)'
      BY <2>3 DEF ChainAt, Queued
    <2>5. SubAt(s) /\ NewAt(s) /\ CallsAt(s) /\ SentAt(s) => SubAt(s)' /\ NewAt(s)' /\ CallsAt(s)' /\ SentAt(s)'
      BY <2>1, <2>2, <2>3, <2>4 DEF SubAt, NewAt, CallsAt, SentAt
    <2> QED BY <2>1, <2>2, <2>4, <2>5 DEF ReplayAt

  \* A stream comes into the map: nothing of it is on its way.
  <1>ReplayLoaded. ASSUME Shape, MapInv, ItemHeld, NEW z \in Stream, Loaded(z), NEW s \in Stream, ~ Raced(s)', ReplayAt(s)
                   PROVE  ReplayAt(s)'
    <2> USE <1>ReplayLoaded
    <2>1. UNCHANGED <<queue, syncId, loop, tick, readd, sub, session>>
      BY DEF Loaded, loopVars, tickVars, serverVars
    <2>2. cookie \in [Stream -> Nat] /\ app \in [Stream -> Nat] /\ pos[z] \in Nat
      BY DEF Shape, NumbersOK
    <2>3. \/ UNCHANGED <<cookie, app>>
          \/ /\ z \notin streams /\ loop # "done"
             /\ \E at \in 0..pos[z] : cookie' = [cookie EXCEPT ![z] = at] /\ app' = [app EXCEPT ![z] = at]
      BY DEF Loaded
    <2>4. \/ UNCHANGED <<streams, pendingSync>>
          \/ /\ z \notin streams /\ loop # "none" /\ streams' = streams \cup {z}
             /\ pendingSync' = pendingSync \cup {z}
             /\ IF Asked(z) THEN Blot(z, "kept") ELSE UNCHANGED blot
             /\ \E at \in 0..pos[z] : cookie' = [cookie EXCEPT ![z] = at] /\ app' = [app EXCEPT ![z] = at]
      BY DEF Loaded
    <2>5. Current' = Current /\ Readding(s)' = Readding(s)
      BY <2>1 DEF Current, Readding
    <2>6. CASE s # z \/ UNCHANGED <<streams, pendingSync, cookie, app>>
      <3>1. cookie'[s] = cookie[s] /\ app'[s] = app[s] /\ (s \in streams' => s \in streams)
        BY <2>2, <2>3, <2>4, <2>6
      <3>2. Adding(s)' => Adding(s)
        BY <2>1, <2>4, <2>5, <2>6 DEF Adding
      <3>3. s \in streams' /\ loop = "reading" => CallsAt(s)' /\ SentAt(s)'
        BY <2>1, <2>5, <3>1 DEF ReplayAt, CallsAt, SentAt
      <3> QED BY <2>1, <2>5, <3>1, <3>2, <3>3, <1>ReplayFrame DEF Shape
    <2>7. CASE s = z /\ ~ UNCHANGED <<streams, pendingSync, cookie, app>>
      <3>1. z \notin streams /\ loop # "done"
            /\ \E at \in 0..pos[z] : cookie' = [cookie EXCEPT ![z] = at] /\ app' = [app EXCEPT ![z] = at]
        <4>1. Loaded(z) /\ loop = "done" => UNCHANGED <<streams, pendingSync, cookie, app>>
          BY DEF Loaded
        <4> QED BY <2>3, <2>4, <2>7, <4>1
      <3>2. cookie'[s] = app'[s]
        BY <2>2, <2>7, <3>1
      <3>3. ~ Unpacking(s)'
        BY <2>1, <2>7, <3>1 DEF ItemHeld, Unpacking, Touches
      <3>4. CASE s \notin streams'
        BY <3>2, <3>3, <3>4 DEF ReplayAt
      <3>5. CASE s \in streams'
        <4>1. Blot(z, "kept") => Raced(z)'
          BY DEF Blot, MapInv, Raced
        <4>2. ~ Asked(z)
          BY <2>4, <2>7, <3>1, <3>5, <4>1
        <4>3. /\ \A i \in 1 .. Len(queue) : ~ Now(queue[i], s)
              /\ sub[s] = Unsubscribed /\ ~ (tick.at = "modify" /\ s \in tick.add)
              /\ ~ \E r \in readd : r.s = s
          <5>1. DOMAIN queue = 1 .. Len(queue)
            BY QueueFacts DEF Shape
          <5> QED BY <2>7, <4>2, <5>1 DEF Asked, Behind, Now
        <4>4. SentAt(s)'
          BY <2>1, <4>3 DEF Current, Shape, TickOK, SentAt
        <4>5. ChainAt(s)' /\ ~ Queued(s)' /\ ~ Fresh(s)'
          BY <2>1, <3>3, <4>3 DEF ChainAt, Now, Queued, Fresh
        <4>6. SubAt(s)' /\ NewAt(s)' /\ CallsAt(s)'
          BY <2>1, <4>3, <4>5 DEF SubAt, NewAt, CallsAt
        <4> QED BY <3>2, <3>3, <4>4, <4>5, <4>6 DEF ReplayAt
      <3> QED BY <3>4, <3>5
    <2> QED BY <2>6, <2>7

  \* syncDown's calls: one more, or one in the place of another.
  <1>ReplayCalls. ASSUME Shape, MapInv, NEW s \in Stream, ReplayAt(s), ~ Raced(s)', NEW z \in Stream, NEW pending,
                         UNCHANGED <<queue, syncId, loop, session, streams, tick, cookie, app, pendingSync>>,
                         pending \subseteq readd, CallAddStreamToSync(z, pending),
                         z = s => (sub'[s] = Unsubscribed \/ (sub' = sub /\ Readding(s))),
                         z = s /\ s \in streams /\ loop = "reading" => \A q \in pending : ~ (q.s = s /\ q.sid = session),
                         z # s => sub'[s] = sub[s]
                  PROVE  ReplayAt(s)'
    <2> USE <1>ReplayCalls
    <2>1. Current' = Current /\ Adding(s)' = Adding(s)
      BY DEF Current, Adding
    <2>2. tick' = tick
      OBVIOUS
    <2>3. CASE ~ (syncState = "Syncing" /\ z \in streams /\ z = s)
      <3>1. \A r \in readd' : r.s = s => r \in readd
        <4>1. CASE readd' = pending
          BY <4>1
        <4>2. CASE z # s /\ \E r : r.s = z /\ readd' = pending \cup {r}
          BY <4>2
        <4>3. readd' # pending => z # s /\ \E r : r.s = z /\ readd' = pending \cup {r}
          BY <2>3 DEF CallAddStreamToSync
        <4> QED BY <4>1, <4>2, <4>3
      <3>2. s \in streams' /\ loop = "reading" => CallsAt(s)' /\ SentAt(s)'
        BY <2>1, <3>1 DEF ReplayAt, CallsAt, SentAt
      <3>3. Readding(s)' => Readding(s)
        BY <3>1 DEF Readding
      <3>4. sub'[s] = Unsubscribed \/ sub'[s] = sub[s]
        OBVIOUS
      <3> QED BY <2>1, <2>2, <3>2, <3>3, <3>4, <1>ReplayFrame DEF Shape
    <2>4. CASE syncState = "Syncing" /\ z \in streams /\ z = s
      <3>1. /\ readd' = pending \cup {[s |-> s, sid |-> syncId, at |-> cookie[s], call |-> TRUE]}
            /\ IF Behind(s) THEN Blot(s, "overtaken") ELSE UNCHANGED blot
        BY <2>4 DEF CallAddStreamToSync
      <3>2. Blot(s, "overtaken") => Raced(s)'
        BY DEF Blot, MapInv, Raced
      <3>3. ~ Queued(s) /\ ~ Fresh(s)
        <4>1. DOMAIN queue = 1 .. Len(queue)
          BY QueueFacts DEF Shape
        <4> QED BY <3>1, <3>2, <4>1 DEF Behind, Queued, Fresh, Now, Unpacking, Touches
      <3>4. loop = "reading" /\ cookie[s] = app[s] /\ SentAt(s)
        BY <2>4 DEF ReplayAt, Shape, LoopInv
      <3>5. PICK new : new = [s |-> s, sid |-> syncId, at |-> cookie[s], call |-> TRUE]
        OBVIOUS
      <3>6. CallsAt(s)' /\ SentAt(s)'
        <4>0. \A r \in readd' : r.s = s /\ r.sid = session => r = new
          BY <2>4, <3>1, <3>4, <3>5
        <4>1. \A r \in readd' : r.s = s /\ r.sid = session => r.at = app[s]
          <5>1. new.at = cookie[s]
            BY <3>5
          <5> QED BY <3>4, <4>0, <5>1
        <4>2. \A r, q \in readd' : r.s = s /\ q.s = s /\ r.sid = session /\ q.sid = session => r = q
          BY <4>0
        <4>3. CallsAt(s)'
          BY <4>1, <4>2 DEF CallsAt
        <4>4. SentAt(s)'
          BY <2>1, <3>4 DEF SentAt
        <4> QED BY <4>3, <4>4
      <3>7. sub'[s] = Unsubscribed \/ (sub'[s] = sub[s] /\ (Readding(s)' => Readding(s)))
        BY <2>4
      <3> QED BY <2>1, <2>2, <3>3, <3>6, <3>7, <1>ReplayFrame DEF Shape
    <2> QED BY <2>3, <2>4

  \* addStreamToSync returns, fails or is called again.
  <1>ReplayReadd. ASSUME Shape, MapInv, NEW s \in Stream, ReplayAt(s), ~ Raced(s)', NEW r \in readd,
                         AddStreamDone(r) \/ AddStreamFails(r) \/ AddStreamAgain(r)
                  PROVE  ReplayAt(s)'
    <2> USE <1>ReplayReadd
    <2>0. UNCHANGED <<queue, syncId, loop, session, streams, tick, cookie, app, pendingSync>>
      BY DEF AddStreamDone, AddStreamFails, AddStreamAgain, loopVars, listVars, tickVars, serverVars
    <2>1. Current' = Current /\ Adding(s)' = Adding(s) /\ r \in Readd
      BY <2>0 DEF Current, Adding, Shape, ReaddOK
    <2>2. s \in streams /\ loop = "reading" => CallsAt(s) /\ SentAt(s) /\ SentAt(s)'
      BY <2>0, <2>1 DEF ReplayAt, SentAt
    <2>3. CASE AddStreamDone(r)
      <3>1. /\ readd' = readd \ {r} /\ r.sid = session /\ conn = "open"
            /\ sub' = sub \/ sub' = [sub EXCEPT ![r.s] = r.at]
        BY <2>3 DEF AddStreamDone, Served
      <3>2. s \in streams /\ loop = "reading" => CallsAt(s)'
        BY <2>0, <2>2, <3>1 DEF CallsAt
      <3>3. Readding(s)' => Readding(s)
        BY <2>0, <3>1 DEF Readding
      <3>4. CASE sub'[s] = sub[s]
        BY <2>0, <2>1, <2>2, <3>2, <3>3, <3>4, <1>ReplayFrame DEF Shape
      <3>5. CASE sub'[s] # sub[s]
        <4>1. r.s = s /\ sub'[s] = r.at
          BY <3>1, <3>5 DEF Shape, NumbersOK
        <4>2. Readding(s)
          BY <3>1, <4>1 DEF Readding
        <4>3. s \in streams /\ loop = "reading" => r.at = app[s] /\ ~ Readding(s)'
          BY <2>0, <2>2, <3>1, <4>1 DEF CallsAt, Readding
        <4> QED BY <2>0, <2>1, <2>2, <3>2, <4>1, <4>2, <4>3, <1>ReplayFrame DEF Shape
      <3> QED BY <3>4, <3>5
    <2>4. CASE AddStreamFails(r)
      <3>1. /\ readd' = (readd \ {r}) \cup {[r EXCEPT !.call = FALSE]} /\ sub' = sub
        BY <2>4 DEF AddStreamFails, serverVars
      <3>2. PICK f : f = [r EXCEPT !.call = FALSE]
        OBVIOUS
      <3>3. f.s = r.s /\ f.sid = r.sid /\ f.at = r.at
        BY <2>1, <3>2 DEF Readd
      <3>4. Readding(s)' => Readding(s)
        BY <2>0, <3>1, <3>2, <3>3 DEF Readding
      <3>5. ASSUME s \in streams, loop = "reading" PROVE CallsAt(s)'
        <4>1. /\ \A p \in readd : p.s = s /\ p.sid = session => p.at = app[s]
              /\ \A p, q \in readd : p.s = s /\ q.s = s /\ p.sid = session /\ q.sid = session => p = q
          BY <2>2, <3>5 DEF CallsAt
        <4>2. \A p \in readd' : p.s = s /\ p.sid = session =>
                 p.at = app[s] /\ ((r.s = s /\ r.sid = session /\ p = f) \/ (p \in readd /\ p # r))
          BY <3>1, <3>2, <3>3, <4>1
        <4>3. \A p, q \in readd' : p.s = s /\ q.s = s /\ p.sid = session /\ q.sid = session => p = q
          BY <4>1, <4>2
        <4> QED BY <2>0, <4>2, <4>3 DEF CallsAt
      <3> QED BY <2>0, <2>1, <2>2, <3>1, <3>4, <3>5, <1>ReplayFrame DEF Shape
    <2>5. CASE AddStreamAgain(r)
      <3>1. sub' = sub
        BY <2>5 DEF AddStreamAgain, serverVars
      <3>2. CASE r.sid = syncId /\ syncState = "Syncing"
        <4>1. CallAddStreamToSync(r.s, readd \ {r}) /\ r.s \in Stream
          BY <2>1, <2>5, <3>2 DEF AddStreamAgain, Readd
        <4>2. r.sid = session
          BY <3>2 DEF Shape, LoopInv
        <4>3. r.s = s => Readding(s)
          BY <4>2 DEF Readding
        <4>4. r.s = s /\ s \in streams /\ loop = "reading" =>
                \A q \in readd \ {r} : ~ (q.s = s /\ q.sid = session)
          BY <2>2, <4>2 DEF CallsAt
        <4> QED BY <2>0, <3>1, <4>1, <4>3, <4>4, <1>ReplayCalls
      <3>3. CASE ~ (r.sid = syncId /\ syncState = "Syncing")
        <4>1. readd' \subseteq readd
          BY <2>5, <3>3 DEF AddStreamAgain, CallAddStreamToSync
        <4>2. Readding(s)' => Readding(s)
          BY <2>0, <4>1 DEF Readding
        <4>3. s \in streams /\ loop = "reading" => CallsAt(s)'
          BY <2>0, <2>2, <4>1 DEF CallsAt
        <4> QED BY <2>0, <2>1, <2>2, <3>1, <4>2, <4>3, <1>ReplayFrame DEF Shape
      <3> QED BY <3>2, <3>3
    <2> QED BY <2>3, <2>4, <2>5
  <1> SUFFICES ASSUME NEW s \in Stream, ~ Raced(s)'
               PROVE  ReplayAt(s)'
    BY DEF ReplayInv
  <1>0. ReplayAt(s) /\ (loop = "reading" => AddAt(s))
    <2>1. ~ Raced(s)
      BY MapFacts, <1>RacedStays
    <2> QED BY <2>1 DEF ReplayInv, AddInv, Raced, Strange
  <1>1. ASSUME UNCHANGED <<readd, session, app, loop>>
        PROVE  /\ Readding(s)' = Readding(s)
               /\ s \in streams /\ loop = "reading" => CallsAt(s)'
    BY <1>0, <1>1 DEF Readding, ReplayAt, CallsAt
  <1>2. CASE \/ CancelSync \/ (\E z \in Stream : Join(z) \/ LoadFails(z) \/ NewEvent(z)) \/ vars' = vars
    <2>1. UNCHANGED <<queue, syncId, loop, session, streams, tick, readd, sub, cookie, app, pendingSync>>
      BY <1>2, ListsKept, LinesKept DEF listCore
    <2>2. Current' = Current /\ Adding(s)' = Adding(s)
      BY <2>1 DEF Current, Adding
    <2>3. s \in streams /\ loop = "reading" => SentAt(s)'
      BY <1>0, <2>1, <2>2 DEF ReplayAt, SentAt
    <2> QED BY <1>0, <1>1, <2>1, <2>2, <2>3, <1>ReplayFrame DEF Shape
  <1>3. CASE \/ Start \/ SyncClose \/ RetryWaitOver \/ ConnectionLost \/ FinishAfterUpdate \/ ForceStop
             \/ (SyncNew /\ syncState # "Starting")
             \/ ((\E z \in Stream : SyncDown(z)) /\ syncState = "Canceling")
    <2>1. /\ UNCHANGED <<queue, tick, readd, cookie, app>>
          /\ syncId' = 0 /\ loop' # "none" /\ (streams' \subseteq streams \/ loop = "none")
          /\ loop' = "reading" => \E known : NextIteration(known)
      BY <1>3, EndsKeep
    <2>2. loop' = "reading" => session' = session + 1 /\ (sub'[s] = Unsubscribed \/ sub'[s] = cookie[s])
      <3>1. ASSUME NEW known, NextIteration(known)
            PROVE  /\ sub' = [z \in Stream |-> IF z \in inFlight' THEN cookie[z] ELSE Unsubscribed]
                   /\ session' = session + 1
        BY <3>1, Zenon DEF NextIteration
      <3> QED BY <2>1, <3>1
    <2> QED BY <1>0, <2>1, <2>2, <1>ReplayFresh
  <1>4. CASE SyncNew /\ syncState = "Starting"
    <2>1. UNCHANGED <<queue, loop, session, streams, tick, readd, sub, cookie, app>> /\ syncId' = session
          /\ conn = "opening" /\ loop = "reading"
      BY <1>4 DEF SyncNew, tickVars
    <2> QED BY <1>0, <2>1, <1>ReplayFresh
  <1>5. CASE Stop
    BY <1>0, <1>5, <1>ReplayStop
  <1>6. CASE \E z \in Stream : SyncUpdate(z)
    <2>1. PICK z \in Stream : SyncUpdate(z)
      BY <1>6
    <2>2. PICK to \in sub[z]..pos[z], reset \in BOOLEAN :
             /\ queue' = Append(queue, [sid |-> session, s |-> z, from |-> sub[z], to |-> to, reset |-> reset])
             /\ sub' = [sub EXCEPT ![z] = to]
      BY <2>1 DEF SyncUpdate
    <2>3. /\ UNCHANGED <<syncId, loop, streams, tick, readd, cookie, app, session, pendingSync>>
          /\ sub[z] # Unsubscribed /\ loop = "reading"
      BY <2>1 DEF SyncUpdate, loopVars, listVars
    <2>4. /\ sub[z] \in Nat /\ pos[z] \in Nat /\ to \in Nat /\ session \in Nat /\ sub[z] <= to
          /\ sub \in [Stream -> Nat \cup {Unsubscribed}]
      BY <2>2, <2>3 DEF Shape, NumbersOK, SessionOK
    <2>5. PICK x : x = [sid |-> session, s |-> z, from |-> sub[z], to |-> to, reset |-> reset]
      OBVIOUS
    <2>6. x \in Item /\ x.s = z /\ x.from = sub[z] /\ x.to = to
      BY <2>4, <2>5 DEF Item
    <2>7. z = s => ~ Adding(s)
      BY <1>0, <2>3 DEF AddAt
    <2>8. /\ z # s => sub'[s] = sub[s]
          /\ z = s => sub'[s] = to
      BY <2>2, <2>4
    <2> QED BY <1>0, <2>2, <2>3, <2>4, <2>5, <2>6, <2>7, <2>8, <1>ReplayAppend
  <1>7. CASE CheckStartTicking \/ TickTimer
    <2>1. Tick
      BY <1>7 DEF CheckStartTicking, TickTimer
    <2>2. UNCHANGED <<syncId, loop, session, streams, readd, sub, cookie, app>>
      BY <2>1 DEF Tick, loopVars, serverVars
    <2>3. CASE UNCHANGED <<pendingSync, inFlight, pendingDelete, queue, tick>>
      <3>1. Current' = Current /\ Adding(s)' = Adding(s)
        BY <2>2, <2>3 DEF Current, Adding
      <3>2. s \in streams /\ loop = "reading" => SentAt(s)'
        BY <1>0, <2>2, <2>3, <3>1 DEF ReplayAt, SentAt
      <3> QED BY <1>0, <1>1, <2>2, <2>3, <3>1, <3>2, <1>ReplayFrame DEF Shape
    <2>4. ASSUME NEW add, NEW del, tick = Idle, Sends(add, del) PROVE ReplayAt(s)'
      <3>1. /\ queue' = queue /\ tick'.at = "modify" /\ tick'.add = add
            /\ add \subseteq pendingSync /\ pendingSync' = pendingSync \ add
            /\ tick'.pos = [u \in add \cap streams |-> cookie[u]]
        BY <2>4 DEF Sends
      <3>2. ~ Unpacking(s)'
        BY <3>1 DEF Unpacking, Touches
      <3>3. s \in streams => SentAt(s)'
        BY <1>0, <2>2, <3>1 DEF ReplayAt, SentAt
      <3>4. Adding(s)' => Adding(s)
        BY <3>1 DEF Adding
      <3> QED BY <1>0, <1>1, <2>2, <3>1, <3>2, <3>3, <3>4, <1>ReplayFrame DEF Shape
    <2>5. CASE tick = Idle /\ Takes(inFlight) /\ UNCHANGED <<pendingSync, pendingDelete>>
      <3>1. tick.at # "unpack" /\ ~ Current'
        <4>1. tick.at = "idle"
          BY <2>5 DEF Idle
        <4> QED BY <2>5, <4>1, TakesIdle DEF Current
      <3>2. Adding(s)' => Adding(s)
        BY <2>5, <3>1 DEF Adding
      <3> QED BY <1>0, <2>2, <2>5, <3>1, <3>2, <1>ReplayTakes
    <2> QED BY <2>1, <2>3, <2>4, <2>5, TickFacts DEF Shape
  <1>8. CASE Apply /\ Unpacking(s)
    BY <1>0, <1>8, <1>ReplayApply
  <1>9. CASE (Apply /\ ~ Unpacking(s)) \/ ApplyFails
    <2>1. UNCHANGED <<queue, syncId, loop, session, streams, readd, sub, pendingSync>> /\ tick' = Idle
          /\ tick.at = "unpack"
      BY <1>9 DEF Apply, ApplyFails, EndTick, loopVars, listVars, serverVars
    <2>2. cookie'[s] = cookie[s] /\ app'[s] = app[s]
      <3>1. CASE Apply /\ ~ Unpacking(s)
        <4>1. tick.live => tick.item.s # s
          BY <2>1, <3>1 DEF Unpacking, Touches
        <4>2. cookie \in [Stream -> Nat] /\ app \in [Stream -> Nat]
          BY DEF Shape, NumbersOK
        <4> QED BY <3>1, <4>1, <4>2 DEF Apply, MoveCookie
      <3>2. CASE ApplyFails
        BY <3>2 DEF ApplyFails
      <3> QED BY <1>9, <3>1, <3>2
    <2>3. ~ Unpacking(s)' /\ ~ Current' /\ SentAt(s)'
      BY <2>1 DEF Unpacking, Touches, Current, SentAt, Idle
    <2>4. Adding(s)' => Adding(s)
      BY <2>1, <2>3 DEF Adding
    <2>5. Readding(s)' = Readding(s) /\ (s \in streams /\ loop = "reading" => CallsAt(s)')
      BY <1>0, <2>1, <2>2 DEF Readding, ReplayAt, CallsAt
    <2> QED BY <1>0, <2>1, <2>2, <2>3, <2>4, <2>5, <1>ReplayFrame DEF Shape
  <1>10. CASE ResumeRemovals \/ \E z \in Stream : Leave(z)
    <2>1. /\ UNCHANGED <<queue, syncId, loop, session, readd, sub, cookie, app>>
          /\ (streams' = streams /\ tick' = tick) \/ \E T : streams' = streams \ T /\ Forget(T)
          /\ pendingSync' \subseteq pendingSync
      <3>1. CASE ResumeRemovals
        BY <3>1 DEF ResumeRemovals, serverVars
      <3>2. CASE \E z \in Stream : Leave(z)
        BY <3>2 DEF Leave, listVars, serverVars
      <3> QED BY <1>10, <3>1, <3>2
    <2>2. /\ s \in streams' => s \in streams
          /\ tick' = tick \/ (tick.at = "unpack" /\ tick' = [tick EXCEPT !.live = FALSE])
      BY <2>1 DEF Forget
    <2>3. tick' = tick \/ (~ Unpacking(s)' /\ ~ Current')
      BY <2>2 DEF Shape, TickOK, Unpack, Unpacking, Current
    <2>4. (Current' => Current /\ tick' = tick) /\ (Adding(s)' => Adding(s))
      BY <2>1, <2>3 DEF Current, Adding
    <2>5. s \in streams /\ loop = "reading" => SentAt(s)'
      BY <1>0, <2>1, <2>4 DEF ReplayAt, SentAt
    <2> QED BY <1>0, <1>1, <2>1, <2>2, <2>3, <2>4, <2>5, <1>ReplayFrame DEF Shape
  <1>11. CASE ModifyDone \/ ModifyFails
    <2>1. /\ tick.at = "modify" /\ tick'.at # "modify"
          /\ UNCHANGED <<loop, syncId, session, conn, streams, readd, cookie, app>>
          /\ \E fl : Takes(fl)
          /\ UNCHANGED sub \/ (Served(tick.sid) /\ \E refused \in SUBSET DOMAIN tick.pos : SubModified(refused))
          /\ s \in pendingSync' => s \in pendingSync \/ (Current /\ s \in tick.add)
      BY <1>11, DoneEffect, FailEffect
    <2>2. Adding(s)' => Adding(s)
      BY <2>1 DEF Adding, Current
    <2>3. ASSUME s \in streams, loop = "reading"
          PROVE  sub'[s] = sub[s] \/ sub'[s] = Unsubscribed \/ (sub'[s] = app[s] /\ Adding(s) /\ ~ Readding(s))
      <3>1. Served(tick.sid) => Current
        BY <2>1, <2>3 DEF Served, Current, Shape, SessionOK
      <3>2. Current /\ s \in DOMAIN tick.pos => tick.pos[s] = app[s] /\ Adding(s)
        BY <1>0, <2>1, <2>3 DEF ReplayAt, SentAt, Shape, TickOK, Adding
      <3>3. Adding(s) => ~ Readding(s)
        BY <1>0, <2>3 DEF AddAt
      <3> QED BY <2>1, <3>1, <3>2, <3>3 DEF SubModified
    <2>4. tick.at # "unpack"
      BY <2>1
    <2> QED BY <1>0, <2>1, <2>2, <2>3, <2>4, <1>ReplayTakes
  <1>12. CASE (\E z \in Stream : SyncDown(z)) /\ syncState # "Canceling"
    <2>1. PICK z \in Stream : SyncDown(z)
      BY <1>12
    <2>2. /\ UNCHANGED <<queue, syncId, loop, session, streams, tick, cookie, app, pendingSync>>
          /\ sub[z] # Unsubscribed
          /\ sub' = [sub EXCEPT ![z] = Unsubscribed] /\ CallAddStreamToSync(z, readd)
      BY <1>12, <2>1 DEF SyncDown, tickVars
    <2>3. IF z = s THEN sub'[s] = Unsubscribed ELSE sub'[s] = sub[s]
      BY <2>2 DEF Shape, NumbersOK
    <2>4. z = s /\ s \in streams /\ loop = "reading" => \A q \in readd : ~ (q.s = s /\ q.sid = session)
      BY <1>0, <2>2 DEF ReplayAt, SubAt, Readding
    <2> QED BY <1>0, <2>2, <2>3, <2>4, <1>ReplayCalls
  <1>13. CASE \E r \in readd : AddStreamDone(r) \/ AddStreamFails(r) \/ AddStreamAgain(r)
    BY <1>0, <1>13, <1>ReplayReadd
  <1>14. CASE \E z \in Stream : Loaded(z)
    BY <1>0, <1>14, <1>ReplayLoaded
  <1> QED
    BY <1>2, <1>3, <1>4, <1>5, <1>6, <1>7, <1>8, <1>9, <1>10, <1>11, <1>12, <1>13, <1>14
    DEF Next, LoopStep, TickStep, MapStep

----------------------------------------------------------------------------
(* What filter and splice do to a list.                                      *)

INSTANCE FiniteSetTheorems

INSTANCE WellFoundedInduction

\* Without is a subsequence: the kept indices are counted by their rank.
LEMMA WithoutFacts ==
    ASSUME NEW q \in Seq(Stream), NEW T
    PROVE  /\ Without(q, T) \in Seq(Stream)
           /\ Elements(Without(q, T)) = Elements(q) \ T
           /\ \A s : Once(q, s) => Once(Without(q, T), s)
  <1> DEFINE keep == {i \in DOMAIN q : q[i] \notin T}
             upto(i) == {j \in keep : j <= i}
             rank == [i \in keep |-> Cardinality(upto(i))]
             n == Cardinality(keep)
             nth(k) == CHOOSE i \in keep : Cardinality(upto(i)) = k
  <1>1. IsFiniteSet(keep) /\ n \in Nat /\ keep \subseteq 1 .. Len(q)
    <2>1. DOMAIN q = 1 .. Len(q) /\ Len(q) \in Nat
      OBVIOUS
    <2>2. IsFiniteSet(1 .. Len(q))
      BY <2>1, FS_Interval
    <2> QED BY <2>1, <2>2, FS_Subset, FS_CardinalityType
  <1>2. ASSUME NEW i \in keep
        PROVE  IsFiniteSet(upto(i)) /\ Cardinality(upto(i)) \in 1 .. n
    <2>1. upto(i) \in SUBSET keep /\ i \in upto(i)
      BY <1>1
    <2>2. IsFiniteSet(upto(i)) /\ Cardinality(upto(i)) <= n
      BY <1>1, <2>1, FS_Subset
    <2>3. Cardinality(upto(i)) \in Nat /\ Cardinality(upto(i)) # 0
      BY <2>1, <2>2, FS_CardinalityType, FS_EmptySet
    <2> QED BY <1>1, <2>2, <2>3
  <1>3. ASSUME NEW i \in keep, NEW j \in keep, i < j
        PROVE  Cardinality(upto(i)) # Cardinality(upto(j))
    <2>1. upto(i) \in SUBSET upto(j) /\ j \in upto(j) /\ j \notin upto(i)
      BY <1>1, <1>3
    <2> QED BY <1>2, <2>1, FS_Subset
  <1>4. rank \in Injection(keep, 1 .. n)
    <2>1. rank \in [keep -> 1 .. n]
      BY <1>2
    <2>2. \A i, j \in keep : rank[i] = rank[j] => i = j
      <3> TAKE i, j \in keep
      <3>1. i \in Int /\ j \in Int
        BY <1>1
      <3>2. rank[i] = Cardinality(upto(i)) /\ rank[j] = Cardinality(upto(j))
        OBVIOUS
      <3> QED BY <1>3, <3>1, <3>2
    <2> QED BY <2>1, <2>2 DEF Injection, IsInjective
  <1>5. rank \in Surjection(keep, 1 .. n)
    <2>1. IsFiniteSet(1 .. n) /\ Cardinality(1 .. n) = n
      BY <1>1, FS_Interval
    <2> QED BY <1>1, <1>4, <2>1, FS_Injection
  <1>6. ASSUME NEW k \in 1 .. n
        PROVE  nth(k) \in keep /\ Cardinality(upto(nth(k))) = k
    <2>1. \E i \in keep : rank[i] = k
      BY <1>5 DEF Surjection
    <2>2. \E i \in keep : Cardinality(upto(i)) = k
      BY <2>1
    <2> QED BY <2>2
  <1>7. ASSUME NEW i \in keep
        PROVE  \E k \in 1 .. n : nth(k) = i
    <2>1. Cardinality(upto(i)) \in 1 .. n
      BY <1>2
    <2>2. PICK k \in 1 .. n : k = Cardinality(upto(i))
      BY <2>1
    <2>3. nth(k) \in keep /\ Cardinality(upto(nth(k))) = k
      BY <1>6
    <2>4. nth(k) \in Int /\ i \in Int
      BY <1>1, <2>3
    <2> HIDE DEF nth, upto, keep
    <2>5. ~ (nth(k) < i) /\ ~ (i < nth(k))
      BY <1>3, <2>2, <2>3
    <2> QED BY <2>4, <2>5
  <1> DEFINE w == [k \in 1 .. n |-> q[nth(k)]]
  <1>8. Without(q, T) = w
    BY Zenon DEF Without
  <1> HIDE DEF nth, upto, rank, n
  <1>9. \A k \in 1 .. n : w[k] = q[nth(k)] /\ nth(k) \in keep
    BY <1>6
  <1>10. DOMAIN w = 1 .. n
    OBVIOUS
  <1>11. w \in Seq(Stream)
    <2>1. \A k \in 1 .. n : w[k] \in Stream
      BY <1>9
    <2>2. w \in [1 .. n -> Stream]
      BY <2>1
    <2> HIDE DEF w
    <2> QED BY <1>1, <2>2
  <1>12. Elements(w) = Elements(q) \ T
    <2>1. \A x \in Elements(w) : x \in Elements(q) \ T
      BY <1>9, <1>10 DEF Elements
    <2>2. ASSUME NEW x \in Elements(q) \ T PROVE x \in Elements(w)
      <3>1. PICK i \in DOMAIN q : q[i] = x
        BY <2>2 DEF Elements
      <3>2. i \in keep
        BY <2>2, <3>1
      <3>3. PICK k \in 1 .. n : nth(k) = i
        BY <1>7, <3>2
      <3> QED BY <1>9, <1>10, <3>1, <3>3 DEF Elements
    <2> QED BY <2>1, <2>2
  <1>13. ASSUME NEW s, Once(q, s) PROVE Once(w, s)
    <2> SUFFICES ASSUME NEW k \in 1 .. n, NEW m \in 1 .. n, w[k] = s, w[m] = s PROVE k = m
      BY <1>10 DEF Once
    <2>1. nth(k) = nth(m)
      BY <1>9, <1>13 DEF Once
    <2> QED BY <1>6, <2>1
  <1> QED BY <1>8, <1>11, <1>12, <1>13

\* Leaving out one index.
LEMMA DropIndex ==
    ASSUME NEW q \in Seq(Stream), NEW i \in 1 .. Len(q)
    PROVE  \E d \in Seq(Stream) :
              /\ d = SubSeq(q, 1, i - 1) \o SubSeq(q, i + 1, Len(q))
              /\ Len(d) = Len(q) - 1
              /\ \A k \in 1 .. Len(d) : d[k] = IF k < i THEN q[k] ELSE q[k + 1]
  <1>0. Len(q) \in Nat /\ i \in Nat /\ 1 <= i /\ i <= Len(q)
    OBVIOUS
  <1>1. PICK u \in Seq(Stream) :
           u = SubSeq(q, 1, i - 1) /\ Len(u) = i - 1 /\ \A k \in 1 .. (i - 1) : u[k] = q[k]
    <2>1. /\ SubSeq(q, 1, i - 1) \in Seq(Stream) /\ Len(SubSeq(q, 1, i - 1)) = i - 1
          /\ \A k \in 1 .. (i - 1) : SubSeq(q, 1, i - 1)[k] = q[k]
      BY <1>0
    <2> QED BY <2>1
  <1>2. PICK v \in Seq(Stream) :
           /\ v = SubSeq(q, i + 1, Len(q)) /\ Len(v) = Len(q) - i
           /\ \A k \in 1 .. (Len(q) - i) : v[k] = q[k + i]
    <2>1. /\ SubSeq(q, i + 1, Len(q)) \in Seq(Stream)
          /\ Len(SubSeq(q, i + 1, Len(q))) = Len(q) - i
          /\ \A k \in 1 .. (Len(q) - i) : SubSeq(q, i + 1, Len(q))[k] = q[k + i]
      BY <1>0
    <2> QED BY <2>1
  <1>3. PICK d \in Seq(Stream) :
           /\ d = u \o v /\ Len(d) = Len(u) + Len(v)
           /\ \A k \in 1 .. (Len(u) + Len(v)) : d[k] = IF k <= Len(u) THEN u[k] ELSE v[k - Len(u)]
    <2>1. /\ u \o v \in Seq(Stream) /\ Len(u \o v) = Len(u) + Len(v)
          /\ \A k \in 1 .. (Len(u) + Len(v)) :
                (u \o v)[k] = IF k <= Len(u) THEN u[k] ELSE v[k - Len(u)]
      OBVIOUS
    <2> QED BY <2>1
  <1>4. Len(d) = Len(q) - 1
    <2>1. Len(u) = i - 1 /\ Len(v) = Len(q) - i /\ Len(d) = Len(u) + Len(v)
      BY <1>1, <1>2, <1>3
    <2> QED BY <1>0, <2>1
  <1>5. ASSUME NEW k \in 1 .. Len(d) PROVE d[k] = IF k < i THEN q[k] ELSE q[k + 1]
    <2>1. d[k] = IF k <= i - 1 THEN u[k] ELSE v[k - (i - 1)]
      BY <1>1, <1>3
    <2>2. k \in Nat /\ 1 <= k /\ k <= Len(q) - 1
      BY <1>4
    <2>3. CASE k < i
      BY <1>0, <1>1, <2>1, <2>2, <2>3
    <2>4. CASE ~ (k < i)
      <3>1. k - (i - 1) \in 1 .. (Len(q) - i) /\ (k - (i - 1)) + i = k + 1
        BY <1>0, <2>2, <2>4
      <3>2. v[k - (i - 1)] = q[k + 1]
        BY <1>2, <3>1
      <3> QED BY <1>0, <2>1, <2>2, <2>4, <3>2
    <2> QED BY <2>3, <2>4
  <1> QED BY <1>1, <1>2, <1>3, <1>4, <1>5

\* DropFirst takes out one occurrence and nothing else.
LEMMA DropFirstFacts ==
    ASSUME NEW q \in Seq(Stream), NEW s
    PROVE  /\ DropFirst(q, s) \in Seq(Stream)
           /\ Elements(DropFirst(q, s)) \subseteq Elements(q)
           /\ Elements(q) \ {s} \subseteq Elements(DropFirst(q, s))
           /\ Once(q, s) => s \notin Elements(DropFirst(q, s))
           /\ \A x : Once(q, x) => Once(DropFirst(q, s), x)
  <1> DEFINE d == DropFirst(q, s)
  <1>1. CASE s \notin Elements(q)
    BY <1>1 DEF DropFirst
  <1>2. CASE s \in Elements(q)
    <2> DEFINE hits == {i \in Nat : i \in DOMAIN q /\ q[i] = s}
               i == CHOOSE k \in DOMAIN q : q[k] = s /\ \A j \in 1 .. (k - 1) : q[j] # s
    <2>1. hits # {}
      BY <1>2 DEF Elements
    <2>2. PICK k \in hits : \A j \in hits : ~ (<<j, k>> \in OpToRel(<, Nat))
      BY <2>1, NatLessThanWellFounded, WFMin
    <2>3. \A j \in 1 .. (k - 1) : q[j] # s
      <3> TAKE j \in 1 .. (k - 1)
      <3>0. k \in Nat /\ k \in DOMAIN q
        BY <2>2
      <3>1. j \in Nat /\ j < k /\ j \in DOMAIN q
        BY <3>0
      <3>2. <<j, k>> \in OpToRel(<, Nat)
        BY <3>0, <3>1 DEF OpToRel
      <3> QED BY <2>2, <3>1, <3>2
    <2>4. i \in DOMAIN q /\ q[i] = s
      BY <2>2, <2>3
    <2>5. d = SubSeq(q, 1, i - 1) \o SubSeq(q, i + 1, Len(q))
      BY <1>2 DEF DropFirst
    <2> HIDE DEF i, d
    <2>6. DOMAIN q = 1 .. Len(q) /\ Len(q) \in Nat
      OBVIOUS
    <2>7. /\ d \in Seq(Stream) /\ Len(d) = Len(q) - 1
          /\ \A m \in 1 .. Len(d) : d[m] = IF m < i THEN q[m] ELSE q[m + 1]
      <3>1. \E e \in Seq(Stream) :
               /\ e = SubSeq(q, 1, i - 1) \o SubSeq(q, i + 1, Len(q))
               /\ Len(e) = Len(q) - 1
               /\ \A m \in 1 .. Len(e) : e[m] = IF m < i THEN q[m] ELSE q[m + 1]
        <4>1. i \in 1 .. Len(q)
          BY <2>4, <2>6
        <4> QED BY <4>1, DropIndex, Zenon
      <3> QED BY <2>5, <3>1
    <2>8. DOMAIN d = 1 .. Len(d)
      BY <2>7
    <2> DEFINE old(m) == IF m < i THEN m ELSE m + 1
    <2>9. \A m \in DOMAIN d : old(m) \in DOMAIN q /\ d[m] = q[old(m)] /\ old(m) # i
      BY <2>4, <2>6, <2>7, <2>8
    <2>10. \A m, l \in DOMAIN d : old(m) = old(l) => m = l
      BY <2>4, <2>6, <2>7, <2>8
    <2>11. ASSUME NEW x \in DOMAIN q, x # i PROVE \E m \in DOMAIN d : old(m) = x
      <3>1. CASE x < i
        BY <2>4, <2>6, <2>7, <2>8, <3>1
      <3>2. CASE x > i
        <4>1. x - 1 \in DOMAIN d /\ old(x - 1) = x
          BY <2>4, <2>6, <2>7, <2>8, <3>2
        <4> QED BY <4>1
      <3> QED BY <2>4, <2>6, <2>11, <3>1, <3>2
    <2> HIDE DEF old
    <2>12. Elements(d) \subseteq Elements(q)
      BY <2>9 DEF Elements
    <2>13. Elements(q) \ {s} \subseteq Elements(d)
      BY <2>4, <2>9, <2>11 DEF Elements
    <2>14. Once(q, s) => s \notin Elements(d)
      BY <2>4, <2>9 DEF Elements, Once
    <2>15. \A x : Once(q, x) => Once(d, x)
      BY <2>9, <2>10 DEF Once
    <2> QED BY <2>7, <2>12, <2>13, <2>14, <2>15 DEF d
  <1> QED BY <1>1, <1>2

\* The lists of streams are shortened as the step lemmas assume.
LEMMA ListFacts == FilterFacts /\ SpliceFacts
  BY WithoutFacts, DropFirstFacts DEF FilterFacts, SpliceFacts

----------------------------------------------------------------------------
(* The theorems.                                                             *)

\* The lists of the loop, its calls and the subscriptions of the session agree in
\* every reachable state: adds are of unserved streams, removals of served ones.
THEOREM ListTheorem == Spec => []ListInv

  \* The initial state satisfies ListInv.
  <1>ListInvInit. Init => ListInv

    \* The initial state has the shape.
    <2>ShapeInit. Init => Shape
      <3> SUFFICES ASSUME Init PROVE Shape
        OBVIOUS
      <3>1. LoopInv /\ SessionOK /\ ListsOK /\ ReaddOK /\ IdleAtFirst
        BY DEF Init, LoopInv, SyncStates, SessionOK, ListsOK, ReaddOK, IdleAtFirst
      <3>2. NumbersOK
        BY DEF Init, NumbersOK
      <3>3. TickOK /\ QueueOK
        BY DEF Init, TickOK, QueueOK, Idle
      <3> QED BY <3>1, <3>2, <3>3 DEF Shape
    <2> SUFFICES ASSUME Init PROVE ListInv
      OBVIOUS
    <2>1. Shape
      BY <2>ShapeInit
    <2>2. MapInv
      BY ElementsOfEmpty DEF Init, MapInv, JoinedIsHeld, LeftIsRemoved
    <2>3. ~ Live /\ loop # "reading"
      BY DEF Init, Live
    <2>4. WaitInv
      <3>1. micro = <<>> /\ waiting = <<>> /\ pendingDelete = <<>>
        BY DEF Init
      <3>2. <<>> # <<"resume">> /\ <<>> # <<"tick", "resume">>
        OBVIOUS
      <3>3. ~ ResumeSoon /\ micro \in Micros
        BY <3>1, <3>2 DEF ResumeSoon, Micros
      <3>4. Elements(<<>>) = {} /\ \A s : Once(<<>>, s)
        BY DEF Elements, Once
      <3> QED BY <3>1, <3>3, <3>4 DEF WaitInv
    <2> QED BY <2>1, <2>2, <2>3, <2>4 DEF ListInv, AddInv, RemInv, OnceInv, HeldInv
  <1>1. ListInv /\ [Next]_vars => ListInv'
    BY ListFacts, ListInvStep
  <1> QED BY <1>1, <1>ListInvInit, PTL DEF Spec

\* While the loop is syncing, a stream the session serves is in the map or waits to be
\* removed: removeStreamFromSync forgets no subscription.
THEOREM ForgottenTheorem == Spec => []NoSubscriptionForgotten
  <1>1. ListInv => NoSubscriptionForgotten
    BY DEF ListInv, RemInv, RemAt, Removing, Current, Live, Strange, NoSubscriptionForgotten
  <1> QED BY <1>1, ListTheorem, PTL

\* While the loop is syncing, every stream of its map is subscribed or waits to be.
THEOREM LeftOutTheorem == Spec => []NoStreamLeftOut
  <1>1. ListInv => NoStreamLeftOut
    <2> SUFFICES ASSUME ListInv, syncState = "Syncing", NEW s \in streams
                 PROVE  \/ s \in pendingSync
                        \/ sub[s] # Unsubscribed
                        \/ tick.at = "modify" /\ s \in tick.add
                        \/ \E r \in readd : r.s = s /\ r.sid = syncId
                        \/ blot[s] \intersect {"refused", "twice", "restored"} # {}
      BY DEF NoStreamLeftOut
    <2>1. s \in Stream /\ session = syncId
      BY DEF ListInv, Shape, ListsOK, LoopInv
    <2>2. HeldAt(s)
      BY <2>1 DEF ListInv, HeldInv, Live
    <2>3. Adding(s) \/ sub[s] # Unsubscribed \/ Readding(s) \/ "refused" \in blot[s] \/ Often(s)
      BY <2>2 DEF HeldAt
    <2> QED BY <2>1, <2>3 DEF Adding, Current, Readding, Often
  <1> QED BY <1>1, ListTheorem, PTL

\* Every update lies on a line of updates that leads on from what is applied.
THEOREM SkipTheorem == Spec => [](ItemHeld /\ SkipInv)

  \* The initial state satisfies ItemHeld and SkipInv.
  <1>SkipInit. ASSUME Init
               PROVE  ItemHeld /\ SkipInv
    <2> USE <1>SkipInit
    <2>1. /\ tick = Idle /\ streams = {} /\ queue = <<>>
          /\ cookie = [s \in Stream |-> 0] /\ app = [s \in Stream |-> 0]
      BY DEF Init
    <2>2. tick.at = "idle"
      BY <2>1 DEF Idle
    <2>3. ItemHeld
      BY <2>2 DEF ItemHeld
    <2>4. ASSUME NEW s \in Stream PROVE SkipAt(s)
      <3>1. ~ Unpacking(s)
        BY <2>2 DEF Unpacking, Touches
      <3>2. cookie[s] = 0 /\ app[s] = 0
        BY <2>1
      <3> QED BY <2>1, <3>1, <3>2 DEF SkipAt
    <2> QED BY <2>3, <2>4 DEF SkipInv
  <1>1. Init => ItemHeld /\ SkipInv
    BY <1>SkipInit
  <1>2. ListInv /\ ItemHeld /\ SkipInv /\ [Next]_vars => (ItemHeld /\ SkipInv)'
    BY ListFacts, SkipStep DEF ListInv
  <1> QED BY <1>1, <1>2, ListTheorem, PTL DEF Spec

\* onUpdate applies an update only where the last one ended or earlier: no event is
\* skipped, unless an update could not be unpacked, the stream was added again before
\* its removal was through, or stop threw updates away.
THEOREM SkippedTheorem == Spec => NoSkippedEvents
  <1> DEFINE NoSkip == \A s \in Stream :
        Apply /\ tick.live /\ tick.item.s = s /\ ~tick.item.reset /\ tick.item.from > app[s]
            => blot[s] \intersect {"dropped", "kept", "cleared"} # {}
  <1>1. ListInv /\ SkipInv => NoSkip
    <2> SUFFICES ASSUME ListInv, SkipInv, NEW s \in Stream,
                        Apply, tick.live, tick.item.s = s, tick.item.from > app[s]
                 PROVE  Holey(s)
      BY DEF Holey
    <2>1. Unpacking(s)
      BY DEF Unpacking, Touches, Apply
    <2>2. SUFFICES ASSUME SkipAt(s) PROVE FALSE
      BY DEF SkipInv
    <2>3. tick.item.from <= app[s] /\ tick.item.from \in Nat /\ app[s] \in Nat
      BY <2>1, <2>2 DEF SkipAt, ListInv, Shape, TickOK, Unpack, Item, NumbersOK, Unpacking, Touches
    <2> QED BY <2>3
  <1> HIDE DEF NoSkip
  <1>2. Spec => [][NoSkip]_vars
    BY <1>1, ListTheorem, SkipTheorem, PTL
  <1> QED BY <1>2 DEF NoSkippedEvents, NoSkip

\* onUpdate applies events a second time only when an update was applied after its
\* session had been replaced, SYNC_DOWN overtook queued updates, a modifySync call that
\* took effect seemed to fail and was repeated, or the stream was added again before
\* its removal was through.
THEOREM ReplayedTheorem == Spec => ReplayedOnlyByRace

  \* The initial state satisfies ReplayInv.
  <1>ReplayInit. ASSUME Init
                 PROVE  ReplayInv
    <2> USE <1>ReplayInit
    <2>1. /\ tick = Idle /\ streams = {}
          /\ cookie = [s \in Stream |-> 0] /\ app = [s \in Stream |-> 0]
      BY DEF Init
    <2>2. tick.at = "idle"
      BY <2>1 DEF Idle
    <2>3. ASSUME NEW s \in Stream PROVE ReplayAt(s)
      <3>1. ~ Unpacking(s)
        BY <2>2 DEF Unpacking, Touches
      <3>2. cookie[s] = 0 /\ app[s] = 0
        BY <2>1
      <3> QED BY <2>1, <3>1, <3>2 DEF ReplayAt
    <2> QED BY <2>3 DEF ReplayInv
  <1> DEFINE NoReplay == \A s \in Stream :
        Apply /\ tick.live /\ tick.item.s = s /\ ~tick.item.reset /\ tick.item.from < app[s]
            => blot[s] \intersect {"late", "overtaken", "kept", "unknown"} # {}
  <1>1. Init => ReplayInv
    BY <1>ReplayInit
  <1>2. ListInv /\ ItemHeld /\ ReplayInv /\ [Next]_vars => ReplayInv'
    BY ListFacts, ReplayInvStep DEF ListInv
  <1>3. ListInv /\ ReplayInv => NoReplay
    <2> SUFFICES ASSUME ListInv, ReplayInv, NEW s \in Stream,
                        Apply, tick.live, tick.item.s = s, tick.item.from < app[s]
                 PROVE  Raced(s)
      BY DEF Raced
    <2>1. Unpacking(s)
      BY DEF Unpacking, Touches, Apply
    <2>2. SUFFICES ASSUME ReplayAt(s) PROVE FALSE
      BY DEF ReplayInv
    <2>3. app[s] <= tick.item.from /\ tick.item.from \in Nat /\ app[s] \in Nat
      BY <2>1, <2>2 DEF ReplayAt, ListInv, Shape, TickOK, Unpack, Item, NumbersOK, Unpacking, Touches
    <2> QED BY <2>3
  <1> HIDE DEF NoReplay
  <1>4. Spec => [][NoReplay]_vars
    BY <1>1, <1>2, <1>3, ListTheorem, SkipTheorem, PTL DEF Spec
  <1> QED BY <1>4 DEF ReplayedOnlyByRace, NoReplay
============================================================================

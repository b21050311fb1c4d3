-------------------- MODULE SyncedStreamsExtensionProofs --------------------
(* Proofs about the loading of the user's streams, for any number of streams,  *)
(* any batch size, any faults and any calls of the application.                 *)
(*                                                                            *)
(* The queue of tasks only ever has five values, and with the task in progress *)
(* they tell how far the loading is (Place).  Every stream that is not loaded   *)
(* yet is still to be looked up in the store or has been counted as needing the *)
(* network, so a count of zero after the load from the store means that nothing *)
(* is left (Accounts).                                                          *)
EXTENDS SyncedStreamsExtension, FiniteSetTheorems, SequenceTheorems, TLAPS

\* A step that names no prover is tried with these, in this order.
USE ZenonT(3), SMTT(20), SMTT(21), ZenonT(20)

\* The values that tasks takes, but for the empty list.
AtFirst == <<"persistence", "network">>
Steps == <<"step", "final", "network">>
Closing == <<"final", "network">>
Last == <<"network">>

Typed ==
    /\ \/ run = NoRun
       \/ run \in [at : {"hpRead", "read", "network"}, ids : SUBSET All]
       \/ run \in [at : {"hpLoad", "load"}, ids : SUBSET All, allow : SUBSET All]
    /\ counted \in [All -> SUBSET {"hpLoad", "load"}]
    /\ streamIds \subseteq Stream /\ hp \subseteq All /\ rest \subseteq All
    /\ count \in Int

\* The store has been gone through.
Through == broken \/ (didHp /\ didLocal /\ rest = {})

Place ==
    \/ /\ tasks = AtFirst /\ run.at = "none" /\ ~didHp /\ ~didLocal /\ ~broken
       /\ ~recheck /\ (stopping # "no" => timeoutId = "none")
    \/ /\ tasks = Last /\ run.at \in {"hpRead", "hpLoad"} /\ ~didHp /\ ~didLocal /\ ~broken
       /\ stopping # "done"
    \/ tasks = Steps /\ run.at = "none" /\ didHp /\ ~didLocal /\ ~broken
    \/ tasks = Closing /\ run.at \in {"read", "load"} /\ didHp /\ ~didLocal /\ ~broken
    \/ tasks = Closing /\ run.at = "none" /\ (broken \/ (didHp /\ ~didLocal /\ rest = {}))
    \/ tasks = Last /\ run.at = "none" /\ Through
    \/ tasks = <<>> /\ run.at \in {"none", "network"} /\ Through

\* No tick begins while one is in progress.
OneTick ==
    run.at # "none" => ~recheck /\ (timeoutId = "tick" \/ (timeoutId = "none" /\ stopping # "no"))

\* Streams of the second pass that need the network and have not been tried.
Owed == {s \in streamIds \ tried : "load" \in counted[s]}
InBatch == IF run.at \in {"read", "load"} THEN run.ids ELSE {}

Accounts ==
    ~broken =>
        /\ Cardinality(Owed) <= count
        /\ didHp => streamIds \ tried \subseteq Owed \union rest \union InBatch
        /\ tasks # <<>> => tried = {}
        /\ run.at = "network" => run.ids \subseteq streamIds \ tried

LoadInv == Typed /\ Place /\ OneTick /\ Accounts /\ RemoteLoadedIsTrue /\ StopEndsSync

----------------------------------------------------------------------------
\* Lists of two and of three elements joined.
LEMMA Joined ==
    ASSUME NEW S, NEW a \in S, NEW b \in S, NEW c \in S
    PROVE  <<a, b>> \o <<c>> = <<a, b, c>> /\ <<a>> \o <<b, c>> = <<a, b, c>>
  <1>1. /\ <<a>> \in Seq(S) /\ <<c>> \in Seq(S) /\ <<a, b>> \in Seq(S) /\ <<b, c>> \in Seq(S)
        /\ <<a, b, c>> \in Seq(S)
    OBVIOUS
  <1>2. /\ Len(<<a>>) = 1 /\ Len(<<c>>) = 1 /\ Len(<<a, b>>) = 2 /\ Len(<<b, c>>) = 2
        /\ Len(<<a, b, c>>) = 3
    OBVIOUS
  <1>3. ASSUME NEW s \in Seq(S), Len(s) = 3, s[1] = a, s[2] = b, s[3] = c
        PROVE  s = <<a, b, c>>
    <2>1. \A i \in 1 .. Len(s) : s[i] = <<a, b, c>>[i]
      BY <1>3
    <2> QED BY <1>1, <1>2, <1>3, <2>1, SeqEqual
  <1>4. <<a, b>> \o <<c>> = <<a, b, c>>
    <2> DEFINE s == <<a, b>> \o <<c>>
    <2>1. s \in Seq(S) /\ Len(s) = 3
      BY <1>1, <1>2, ConcatProperties
    <2>2. s[1] = a /\ s[2] = b /\ s[3] = c
      BY <1>1, <1>2, ConcatProperties
    <2>3. s = <<a, b, c>>
      <3> HIDE DEF s
      <3> QED BY <1>3, <2>1, <2>2
    <2> QED BY <2>3
  <1>5. <<a>> \o <<b, c>> = <<a, b, c>>
    <2> DEFINE s == <<a>> \o <<b, c>>
    <2>1. s \in Seq(S) /\ Len(s) = 3
      BY <1>1, <1>2, ConcatProperties
    <2>2. s[1] = a /\ s[2] = b /\ s[3] = c
      BY <1>1, <1>2, ConcatProperties
    <2>3. s = <<a, b, c>>
      <3> HIDE DEF s
      <3> QED BY <1>3, <2>1, <2>2
    <2> QED BY <2>3
  <1> QED BY <1>4, <1>5

\* How the values of tasks follow each other.
LEMMA ListFacts ==
    /\ Head(AtFirst) = "persistence" /\ Tail(AtFirst) = Last
    /\ Head(Steps) = "step" /\ Tail(Steps) = Closing
    /\ Head(Closing) = "final" /\ Tail(Closing) = Last
    /\ Head(Last) = "network" /\ Tail(Last) = <<>>
    /\ <<"step", "final">> \o Last = Steps /\ <<"step">> \o Closing = Steps
    /\ AtFirst # <<>> /\ Steps # <<>> /\ Closing # <<>> /\ Last # <<>>
  <1>1. /\ Head(AtFirst) = "persistence" /\ Head(Steps) = "step" /\ Head(Closing) = "final"
        /\ Head(Last) = "network"
        /\ AtFirst # <<>> /\ Steps # <<>> /\ Closing # <<>> /\ Last # <<>>
    BY DEF AtFirst, Steps, Closing, Last
  <1>2. Tail(AtFirst) = Last /\ Tail(Closing) = Last /\ Tail(Last) = <<>>
    BY DEF AtFirst, Closing, Last
  <1>3. Tail(Steps) = Closing
    BY DEF Steps, Closing
  <1>4. <<"step", "final">> \o Last = Steps /\ <<"step">> \o Closing = Steps
    <2> DEFINE S == {"step", "final", "network"}
    <2>1. "step" \in S /\ "final" \in S /\ "network" \in S
      OBVIOUS
    <2> HIDE DEF S
    <2> QED BY <2>1, Joined DEF Last, Steps, Closing
  <1> QED BY <1>1, <1>2, <1>3, <1>4

\* Cardinalities of the streams that are owed.
LEMMA OwedFinite ==
    ASSUME Typed
    PROVE  /\ IsFiniteSet(Owed) /\ Cardinality(Owed) \in Nat
           /\ Cardinality(Owed) = 0 => Owed = {}
  <1>1. Owed \subseteq Stream
    BY DEF Typed, Owed
  <1>2. IsFiniteSet(Owed)
    BY <1>1, ExtensionAssumption, FS_Subset
  <1> QED BY <1>2, FS_CardinalityType, FS_EmptySet

LEMMA OwedShrinks ==
    ASSUME Typed, Typed', Owed' \subseteq Owed
    PROVE  Cardinality(Owed') <= Cardinality(Owed)
  BY OwedFinite, FS_Subset

LEMMA OwedGrows ==
    ASSUME Typed, Typed', NEW s, Owed' \subseteq Owed \union {s}
    PROVE  Cardinality(Owed') <= Cardinality(Owed) + 1
  <1>1. IsFiniteSet(Owed) /\ Cardinality(Owed) \in Nat
    BY OwedFinite
  <1>2. /\ IsFiniteSet(Owed \union {s})
        /\ Cardinality(Owed \union {s}) \in {Cardinality(Owed), Cardinality(Owed) + 1}
    BY <1>1, FS_AddElement
  <1>3. Cardinality(Owed') <= Cardinality(Owed \union {s})
    BY <1>2, FS_Subset
  <1>4. Cardinality(Owed') \in Nat
    <2>1. IsFiniteSet(Owed')
      BY <1>2, FS_Subset
    <2> QED BY <2>1, FS_CardinalityType
  <1> QED BY <1>1, <1>2, <1>3, <1>4

LEMMA OwedLoses ==
    ASSUME Typed, NEW s \in Owed, Owed' = Owed \ {s}
    PROVE  Cardinality(Owed') = Cardinality(Owed) - 1
  BY OwedFinite, FS_RemoveElement

\* A step that emits no status and leaves the streams and the counts alone.
LEMMA Quiet ==
    ASSUME LoadInv, Typed', Place', OneTick',
           UNCHANGED <<streamIds, tried, counted, count, status, broken, syncing>>,
           UNCHANGED stopping \/ stopping' # "done",
           ~broken =>
              /\ didHp' => streamIds \ tried \subseteq Owed \union rest' \union InBatch'
              /\ tasks' # <<>> => tried = {}
              /\ run'.at = "network" => run'.ids \subseteq streamIds \ tried
    PROVE  LoadInv'
  <1>1. Owed' = Owed
    BY DEF Owed
  <1>2. RemoteLoadedIsTrue' /\ StopEndsSync'
    BY DEF LoadInv, RemoteLoadedIsTrue, StopEndsSync
  <1>3. Accounts'
    BY <1>1 DEF LoadInv, Accounts
  <1> QED BY <1>2, <1>3 DEF LoadInv

\* A step that emits the status: what it reports of the network is true, since a count
\* of zero means that nothing is left once the store has been gone through.
LEMMA Emits ==
    ASSUME LoadInv, Typed', Place', OneTick', Accounts', NEW h, EmitClientStatus(h, didLocal', count'),
           StopEndsSync'
    PROVE  LoadInv'
  <1>1. status'.remote = (didLocal' /\ count' = 0)
    BY DEF EmitClientStatus
  <1>2. ASSUME ~broken', didLocal', count' = 0
        PROVE  streamIds' \subseteq tried'
    <2>1. didHp' /\ rest' = {} /\ InBatch' = {}
      BY <1>2, ListFacts DEF Place, Through, InBatch
    <2>2. Owed' \subseteq Stream
      BY DEF Typed, Owed
    <2>3. IsFiniteSet(Owed')
      BY <2>2, ExtensionAssumption, FS_Subset
    <2>4. Cardinality(Owed') \in Nat /\ (Cardinality(Owed') = 0 => Owed' = {})
      BY <2>3, FS_CardinalityType, FS_EmptySet
    <2>5. Owed' = {}
      BY <1>2, <2>4 DEF Accounts
    <2> QED BY <1>2, <2>1, <2>5 DEF Accounts
  <1>3. RemoteLoadedIsTrue'
    BY <1>1, <1>2 DEF RemoteLoadedIsTrue
  <1> QED BY <1>3 DEF LoadInv

\* The timers, and the calls of the application.
LEMMA TimerSteps ==
    ASSUME LoadInv, Recheck \/ StartSync
    PROVE  LoadInv'
  <1>1. UNCHANGED <<tasks, run, hp, stopping, rest, didHp, didLocal, streamIds, count, tried, counted,
                    syncing, broken>>
    BY DEF Recheck, StartSync, appVars, flagVars
  <1>2. Typed'
    BY <1>1 DEF LoadInv, Typed
  <1>3. Place' /\ OneTick'
    <2>1. CASE Recheck
      BY <1>1, <2>1 DEF Recheck, LoadInv, Place, OneTick, Through
    <2>2. CASE StartSync
      BY <1>1, <2>2 DEF StartSync, CheckStartTicking, LoadInv, Place, OneTick, Through
    <2> QED BY <2>1, <2>2
  <1>4. Accounts' /\ StopEndsSync'
    BY <1>1 DEF LoadInv, Accounts, StopEndsSync, Owed, InBatch
  <1>5. CASE UNCHANGED status
    BY <1>1, <1>2, <1>3, <1>5, Quiet DEF LoadInv, Accounts, InBatch
  <1>6. CASE EmitClientStatus(didHp, didLocal, count)
    BY <1>1, <1>2, <1>3, <1>4, <1>6, Emits
  <1> QED BY <1>5, <1>6 DEF Recheck, StartSync, CheckStartTicking

LEMMA AppSteps ==
    ASSUME LoadInv, Stop \/ StopDone \/ (\E ids \in SUBSET All : SetHighPriorityStreams(ids)) \/ UNCHANGED vars
    PROVE  LoadInv'
  <1>1. UNCHANGED <<tasks, run, recheck, rest, didHp, didLocal, streamIds, count, tried, counted, status,
                    broken>>
    BY DEF Stop, StopDone, SetHighPriorityStreams, vars, tickVars, flagVars, progressVars
  <1>2. Typed'
    BY <1>1 DEF LoadInv, Typed, Stop, StopDone, SetHighPriorityStreams, vars, appVars
  <1>3. Place' /\ OneTick'
    <2>1. CASE Stop
      BY <1>1, <2>1 DEF Stop, LoadInv, Place, OneTick, Through
    <2>2. CASE StopDone
      BY <1>1, <2>2 DEF StopDone, NoRun, tickVars, LoadInv, Place, OneTick, Through
    <2>3. CASE (\E ids \in SUBSET All : SetHighPriorityStreams(ids)) \/ UNCHANGED vars
      BY <1>1, <2>3 DEF SetHighPriorityStreams, vars, tickVars, appVars, LoadInv, Place, OneTick, Through
    <2> QED BY <2>1, <2>2, <2>3
  <1>4. Accounts' /\ RemoteLoadedIsTrue'
    BY <1>1 DEF LoadInv, Accounts, RemoteLoadedIsTrue, Owed, InBatch
  <1>5. StopEndsSync'
    BY DEF LoadInv, StopEndsSync, Stop, StopDone, SetHighPriorityStreams, vars, appVars
  <1> QED BY <1>2, <1>3, <1>4, <1>5 DEF LoadInv

\* A tick begins with no other in progress.
LEMMA TickBegins ==
    ASSUME LoadInv, Fires
    PROVE  run = NoRun /\ run.at = "none" /\ InBatch = {}
  <1>1. run.at = "none"
    BY DEF LoadInv, OneTick, Fires
  <1> QED BY <1>1 DEF LoadInv, Typed, InBatch, NoRun

LEMMA TickSteps ==
    ASSUME LoadInv, Tick
    PROVE  LoadInv'
  <1>0. Fires /\ run = NoRun /\ run.at = "none" /\ InBatch = {} /\ ~recheck /\ timeoutId = "set"
    BY TickBegins DEF Tick, TickIdle, TickPersistence, TickStep, TickFinal, TickNetwork, Fires
  <1>1. CASE TickIdle
    <2>1. Typed'
      BY <1>1 DEF TickIdle, EndTick, progressVars, flagVars, appVars, LoadInv, Typed
    <2>2. Place' /\ OneTick'
      BY <1>0, <1>1, ListFacts
      DEF TickIdle, EndTick, progressVars, flagVars, appVars, LoadInv, Place, Through, OneTick, NoRun
    <2> QED
      BY <1>0, <1>1, <2>1, <2>2, Quiet
      DEF TickIdle, EndTick, progressVars, flagVars, appVars, LoadInv, Accounts, NoRun, InBatch
  <1>2. CASE TickPersistence
    <2>1. Typed'
      BY <1>2 DEF TickPersistence, progressVars, flagVars, appVars, LoadInv, Typed
    <2>2. tasks = AtFirst /\ stopping = "no" /\ ~didHp /\ ~didLocal /\ ~broken
      BY <1>0, <1>2, ListFacts DEF TickPersistence, LoadInv, Place
    <2>3. Place' /\ OneTick'
      BY <1>0, <1>2, <2>2, ListFacts
      DEF TickPersistence, progressVars, flagVars, appVars, Place, OneTick
    <2> QED
      BY <1>0, <1>2, <2>1, <2>2, <2>3, ListFacts, Quiet
      DEF TickPersistence, progressVars, flagVars, appVars, LoadInv, Accounts, InBatch
  <1>3. CASE TickStep
    <2>1. tasks = Steps /\ didHp /\ ~didLocal /\ ~broken
      BY <1>0, <1>3, ListFacts DEF TickStep, LoadInv, Place
    <2>2. tasks' = Closing /\ UNCHANGED <<appVars, flagVars, progressVars, syncing, broken>>
      BY <1>3, <2>1, ListFacts DEF TickStep
    <2>3. CASE rest = {}
      <3>1. rest' = rest /\ run' = run
        BY <1>0, <1>3, <2>3 DEF TickStep, EndTick
      <3>2. Typed' /\ Place' /\ OneTick'
        BY <1>0, <2>1, <2>2, <2>3, <3>1
        DEF LoadInv, Typed, Place, OneTick, progressVars, flagVars, appVars
      <3> QED
        BY <1>0, <2>1, <2>2, <2>3, <3>1, <3>2, ListFacts, Quiet
        DEF LoadInv, Accounts, InBatch, progressVars, flagVars, appVars
    <2>4. CASE rest # {}
      <3>1. PICK batch \in First(rest, BatchSize) :
               /\ rest' = rest \ batch
               /\ run' = [at |-> "read", ids |-> batch]
               /\ timeoutId' = "tick"
               /\ UNCHANGED recheck
        BY <1>3, <2>4 DEF TickStep
      <3>2. batch \subseteq rest
        BY DEF First
      <3>3. Typed' /\ Place' /\ OneTick'
        BY <1>0, <2>1, <2>2, <3>1, <3>2
        DEF LoadInv, Typed, Place, OneTick, progressVars, flagVars, appVars
      <3>4. InBatch' = batch
        BY <3>1 DEF InBatch
      <3> QED
        BY <1>0, <2>1, <2>2, <3>1, <3>2, <3>3, <3>4, ListFacts, Quiet
        DEF LoadInv, Accounts, progressVars, flagVars, appVars
    <2> QED BY <2>3, <2>4
  <1>4. CASE TickFinal
    <2>1. tasks = Closing /\ (broken \/ (didHp /\ ~didLocal /\ rest = {}))
      BY <1>0, <1>4, ListFacts DEF TickFinal, LoadInv, Place
    <2>2. /\ tasks' = Last /\ didLocal' /\ run' = run /\ EmitClientStatus(didHp, didLocal', count')
          /\ UNCHANGED <<didHp, streamIds, count, hp, stopping, rest, tried, counted, syncing, broken>>
      BY <1>0, <1>4, <2>1, ListFacts DEF TickFinal, EndTick, appVars
    <2>3. Typed' /\ Place' /\ OneTick'
      BY <1>0, <2>1, <2>2 DEF LoadInv, Typed, Place, Through, OneTick
    <2>4. Accounts' /\ StopEndsSync'
      BY <2>1, <2>2, ListFacts DEF LoadInv, Accounts, StopEndsSync, Owed, InBatch
    <2> QED BY <2>2, <2>3, <2>4, Emits
  <1>5. CASE TickNetwork
    <2>1. tasks = Last /\ Through
      BY <1>0, <1>5, ListFacts DEF TickNetwork, LoadInv, Place
    <2>2. /\ tasks' = <<>> /\ run' = [at |-> "network", ids |-> streamIds] /\ timeoutId' = "tick"
          /\ UNCHANGED <<recheck, appVars, rest, flagVars, progressVars, syncing, broken>>
      BY <1>5, <2>1, ListFacts DEF TickNetwork
    <2>3. Typed' /\ Place' /\ OneTick'
      BY <1>0, <2>1, <2>2
      DEF LoadInv, Typed, All, Place, Through, OneTick, progressVars, flagVars, appVars
    <2> QED
      BY <1>0, <2>1, <2>2, <2>3, ListFacts, Quiet
      DEF LoadInv, Accounts, InBatch, progressVars, flagVars, appVars
  <1> QED BY <1>1, <1>2, <1>3, <1>4, <1>5 DEF Tick

\* Reading the store.
LEMMA ReadSteps ==
    ASSUME LoadInv, ReadStore \/ ReadStoreFails
    PROVE  LoadInv'
  <1>0. run \in [at : {"hpRead", "read", "network"}, ids : SUBSET All] /\ run.at \in {"hpRead", "read"}
    BY DEF ReadStore, ReadStoreFails, LoadInv, Typed, NoRun
  <1>1. CASE ReadStore
    <2>1. /\ run' = [at |-> IF run.at = "read" THEN "load" ELSE "hpLoad",
                     ids |-> IF run.at = "read" THEN run.ids ELSE run.ids \intersect hp \intersect stored,
                     allow |-> hp]
          /\ UNCHANGED <<tasks, timeoutId, recheck, appVars, rest, flagVars, progressVars, syncing, broken>>
      BY <1>1 DEF ReadStore
    <2>2. Typed'
      <3>1. run' \in [at : {"hpLoad", "load"}, ids : SUBSET All, allow : SUBSET All]
        BY <1>0, <2>1 DEF LoadInv, Typed
      <3> QED BY <2>1, <3>1 DEF LoadInv, Typed, progressVars, appVars
    <2>3. run'.at = IF run.at = "read" THEN "load" ELSE "hpLoad"
      BY <2>1
    <2>4. Place' /\ OneTick'
      BY <1>0, <2>1, <2>3 DEF LoadInv, Place, Through, OneTick, flagVars, appVars
    <2>5. InBatch' = InBatch
      BY <1>0, <2>1, <2>3 DEF InBatch
    <2> QED
      BY <2>1, <2>2, <2>3, <2>4, <2>5, Quiet
      DEF LoadInv, Accounts, progressVars, appVars, flagVars
  <1>2. CASE ReadStoreFails
    <2>1. /\ broken' /\ run' = NoRun
          /\ UNCHANGED <<tasks, appVars, rest, flagVars, progressVars, syncing>>
      BY <1>2 DEF ReadStoreFails
    <2>2. Typed' /\ Accounts' /\ RemoteLoadedIsTrue' /\ StopEndsSync' /\ OneTick'
      BY <2>1
      DEF LoadInv, Typed, Accounts, RemoteLoadedIsTrue, StopEndsSync, OneTick, NoRun, progressVars, appVars
    <2>3. Place'
      BY <1>0, <2>1 DEF LoadInv, Place, Through, NoRun, flagVars
    <2> QED BY <2>2, <2>3 DEF LoadInv
  <1> QED BY <1>1, <1>2

\* A stream found in the store, or not.
LEMMA LoadStep ==
    ASSUME LoadInv, NEW s \in All, LoadStored(s) \/ NeedsNetwork(s)
    PROVE  LoadInv'
  <1>0. /\ run \in [at : {"hpLoad", "load"}, ids : SUBSET All, allow : SUBSET All]
        /\ s \in run.ids
        /\ run' = [run EXCEPT !.ids = @ \ {s}]
    BY DEF LoadStored, NeedsNetwork, LoadInv, Typed, NoRun
  <1>1. run'.at = run.at /\ run'.ids = run.ids \ {s}
        /\ run' \in [at : {"hpLoad", "load"}, ids : SUBSET All, allow : SUBSET All]
    BY <1>0
  <1>2. /\ UNCHANGED <<tasks, timeoutId, recheck, appVars, rest, flagVars, tried, syncing, broken>>
        /\ EmitClientStatus(didHp, didLocal', count')
    BY DEF LoadStored, NeedsNetwork, flagVars
  <1>3. Typed'
    BY <1>1, <1>2 DEF LoadStored, NeedsNetwork, LoadInv, Typed, appVars
  <1>4. Place' /\ OneTick'
    BY <1>1, <1>2 DEF LoadInv, Place, Through, OneTick, appVars, flagVars
  <1>5. StopEndsSync'
    BY <1>2 DEF LoadInv, StopEndsSync, appVars
  <1>6. Accounts'
    <2> SUFFICES ASSUME ~broken PROVE Accounts'
      BY <1>2 DEF Accounts
    <2>1. Cardinality(Owed) <= count /\ Cardinality(Owed) \in Nat /\ count \in Int
      BY OwedFinite DEF LoadInv, Accounts, Typed
    <2>2. CASE LoadStored(s)
      <3>1. streamIds' = streamIds \ {s} /\ count' = count /\ counted' = counted
        BY <2>2 DEF LoadStored
      <3>2. Owed' = Owed \ {s}
        BY <1>2, <3>1 DEF Owed
      <3>3. Cardinality(Owed') <= count'
        <4>1. Cardinality(Owed') <= Cardinality(Owed) /\ Cardinality(Owed') \in Nat
          BY <1>3, <3>2, OwedShrinks, OwedFinite, FS_Subset, FS_CardinalityType DEF LoadInv
        <4> QED BY <2>1, <3>1, <4>1
      <3> QED BY <1>1, <1>2, <3>1, <3>2, <3>3 DEF LoadInv, Accounts, InBatch, flagVars
    <2>3. CASE NeedsNetwork(s)
      <3>1. /\ streamIds' = streamIds /\ count' = count + 1
            /\ counted' = [counted EXCEPT ![s] = @ \union {run.at}]
        BY <2>3 DEF NeedsNetwork
      <3>2. counted \in [All -> SUBSET {"hpLoad", "load"}]
        BY DEF LoadInv, Typed
      <3>3. Owed \subseteq Owed' /\ Owed' \subseteq Owed \union {s}
        BY <1>2, <3>1, <3>2 DEF Owed, All, LoadInv, Typed
      <3>4. run.at = "load" /\ s \in streamIds \ tried => s \in Owed'
        BY <1>2, <3>1, <3>2 DEF Owed
      <3>5. Cardinality(Owed') <= count'
        <4>1. Cardinality(Owed') <= Cardinality(Owed) + 1
          BY <1>3, <3>3, OwedGrows DEF LoadInv
        <4>2. Cardinality(Owed') \in Nat
          BY <3>3, OwedFinite, FS_AddElement, FS_Subset, FS_CardinalityType DEF LoadInv
        <4> QED BY <2>1, <3>1, <4>1, <4>2
      <3>6. run.at = "hpLoad" => ~didHp
        BY ListFacts DEF LoadInv, Place
      <3> QED
        BY <1>0, <1>1, <1>2, <3>1, <3>3, <3>4, <3>5, <3>6 DEF LoadInv, Accounts, InBatch, flagVars
    <2> QED BY <2>2, <2>3
  <1> QED BY <1>2, <1>3, <1>4, <1>5, <1>6, Emits

\* The ends of the tasks that load from the store.
LEMMA StoreDone ==
    ASSUME LoadInv, HighPriorityDone \/ StepDone
    PROVE  LoadInv'
  <1>1. CASE HighPriorityDone
    <2>1. tasks = Last /\ ~didHp /\ ~didLocal /\ ~broken /\ stopping # "done"
      BY <1>1 DEF HighPriorityDone, LoadInv, Place
    <2>2. /\ tasks' = Steps /\ didHp' /\ rest' = streamIds /\ run' = NoRun
          /\ EmitClientStatus(TRUE, didLocal', count')
          /\ UNCHANGED <<appVars, didLocal, streamIds, count, tried, counted, broken>>
      BY <1>1, <2>1, ListFacts DEF HighPriorityDone, PutFirst, EndTick
    <2>3. Typed' /\ Place' /\ OneTick'
      BY <2>1, <2>2 DEF LoadInv, Typed, All, Place, OneTick, NoRun, appVars
    <2>4. Accounts' /\ StopEndsSync'
      BY <2>1, <2>2, ListFacts DEF LoadInv, Accounts, StopEndsSync, Owed, InBatch, NoRun, appVars
    <2> QED BY <2>2, <2>3, <2>4, Emits
  <1>2. CASE StepDone
    <2>1. tasks = Closing /\ didHp /\ ~didLocal /\ ~broken /\ InBatch = {}
      BY <1>2 DEF StepDone, LoadInv, Place, InBatch
    <2>2. /\ tasks' = Steps /\ run' = NoRun
          /\ UNCHANGED <<appVars, rest, flagVars, progressVars, syncing, broken>>
      BY <1>2, <2>1, ListFacts DEF StepDone, PutFirst, EndTick
    <2>3. Typed' /\ Place' /\ OneTick'
      BY <2>1, <2>2 DEF LoadInv, Typed, Place, OneTick, NoRun, appVars, progressVars, flagVars
    <2> QED
      BY <2>1, <2>2, <2>3, ListFacts, Quiet
      DEF LoadInv, Accounts, InBatch, NoRun, appVars, progressVars, flagVars
  <1> QED BY <1>1, <1>2

\* The load from the network.
LEMMA NetworkStep ==
    ASSUME LoadInv, NEW s, LoadNetwork(s) \/ NetworkDone
    PROVE  LoadInv'
  <1>0. /\ run \in [at : {"hpRead", "read", "network"}, ids : SUBSET All] /\ run.at = "network"
        /\ tasks = <<>> /\ Through /\ InBatch = {}
    BY ListFacts DEF LoadNetwork, NetworkDone, LoadInv, Typed, NoRun, Place, InBatch
  <1>1. CASE LoadNetwork(s)
    <2>1. /\ s \in run.ids /\ run' = [run EXCEPT !.ids = @ \ {s}]
          /\ streamIds' = streamIds \ {s} \/ streamIds' = streamIds
          /\ tried' = tried \union {s} /\ count' = count - 1
          /\ UNCHANGED <<tasks, timeoutId, recheck, appVars, rest, flagVars, counted, syncing, broken>>
          /\ EmitClientStatus(didHp, didLocal', count')
      BY <1>1 DEF LoadNetwork, flagVars
    <2>2. /\ run'.at = "network" /\ run'.ids = run.ids \ {s}
          /\ run' \in [at : {"hpRead", "read", "network"}, ids : SUBSET All]
      BY <1>0, <2>1
    <2>3. Typed' /\ Place' /\ OneTick' /\ StopEndsSync'
      BY <1>0, <2>1, <2>2
      DEF LoadInv, Typed, Place, Through, OneTick, StopEndsSync, appVars, flagVars
    <2>4. Accounts'
      <3> SUFFICES ASSUME ~broken PROVE Accounts'
        BY <2>1 DEF Accounts
      <3>1. /\ Cardinality(Owed) <= count /\ count \in Int /\ rest = {}
            /\ streamIds \ tried \subseteq Owed /\ run.ids \subseteq streamIds \ tried
        BY <1>0 DEF LoadInv, Typed, Accounts, Through
      <3>2. s \in Owed /\ Owed' = Owed \ {s}
        BY <2>1, <3>1 DEF Owed
      <3>3. Cardinality(Owed') = Cardinality(Owed) - 1 /\ Cardinality(Owed) \in Nat
        BY <3>2, OwedLoses, OwedFinite DEF LoadInv
      <3>4. Cardinality(Owed') <= count'
        BY <2>1, <3>1, <3>3
      <3> QED
        BY <1>0, <2>1, <2>2, <3>1, <3>2, <3>4 DEF LoadInv, Accounts, InBatch, flagVars
    <2> QED BY <2>1, <2>3, <2>4, Emits
  <1>2. CASE NetworkDone
    <2>1. /\ run' = NoRun
          /\ UNCHANGED <<tasks, appVars, rest, flagVars, count, streamIds, tried, counted, syncing, broken>>
          /\ EmitClientStatus(didHp, didLocal', count')
      BY <1>2 DEF NetworkDone, EndTick, flagVars
    <2>2. Typed' /\ Place' /\ OneTick' /\ StopEndsSync'
      BY <1>0, <2>1
      DEF LoadInv, Typed, Place, Through, OneTick, StopEndsSync, NoRun, appVars, flagVars
    <2>3. Accounts'
      BY <1>0, <2>1 DEF LoadInv, Accounts, Owed, InBatch, NoRun, flagVars
    <2> QED BY <2>1, <2>2, <2>3, Emits
  <1> QED BY <1>1, <1>2
----------------------------------------------------------------------------
LEMMA LoadInit ==
    ASSUME Init
    PROVE  LoadInv
  <1>1. Typed /\ Place /\ OneTick /\ RemoteLoadedIsTrue /\ StopEndsSync
    BY DEF Init, Typed, Place, OneTick, RemoteLoadedIsTrue, StopEndsSync, AtFirst, NoRun, All
  <1>2. Owed = {}
    BY DEF Init, Owed, All
  <1>3. Accounts
    BY <1>2, FS_EmptySet DEF Init, Accounts, NoRun
  <1> QED BY <1>1, <1>3 DEF LoadInv

LEMMA LoadNext ==
    ASSUME LoadInv, [Next]_vars
    PROVE  LoadInv'
  <1>1. CASE \E s \in All : Progress(s)
    BY <1>1, LoadStep, NetworkStep DEF Progress
  <1>2. CASE NetworkDone
    BY <1>2, NetworkStep
  <1> QED
    BY <1>1, <1>2, TimerSteps, AppSteps, TickSteps, ReadSteps, StoreDone DEF Next

\* The invariant behind the theorems below.
THEOREM LoadInvariant == Spec => []LoadInv
  BY LoadInit, LoadNext, PTL DEF Spec

\* loadStreamsFromNetwork begins only once every stream has been looked up in the
\* store, though its task is the first that is queued: whatever the store holds, whichever
\* streams fail, and however the application changes the high priority ids.
THEOREM NetworkLast == Spec => []NetworkIsLast
  <1>1. LoadInv => NetworkIsLast
    BY ListFacts DEF LoadInv, Place, Through, NetworkIsLast
  <1> QED BY <1>1, LoadInvariant, PTL

\* isRemoteDataLoaded, as emitClientStatus computes it from
\* streamCountRequiringNetworkAccess, is true only when every stream is loaded or its
\* load from the network has ended.
THEOREM RemoteDataLoaded == Spec => []RemoteLoadedIsTrue
  <1>1. LoadInv => RemoteLoadedIsTrue
    BY DEF LoadInv
  <1> QED BY <1>1, LoadInvariant, PTL

\* A stop of the client during the loading leaves no sync loop behind: the task that
\* starts it is awaited, and no later tick starts it.
THEOREM StoppedForGood == Spec => []StopEndsSync
  <1>1. LoadInv => StopEndsSync
    BY DEF LoadInv
  <1> QED BY <1>1, LoadInvariant, PTL
============================================================================

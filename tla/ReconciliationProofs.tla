----------------------- MODULE ReconciliationProofs ------------------------
(***************************************************************************)
(* Proofs about Reconciliation, for any streams, numbers and failures.     *)
(*                                                                         *)
(* A reconciliation task is submitted only for an entry that was not       *)
(* loaded, and the entry is forgotten only by the task itself: so there is *)
(* one task, and the entry is what the task works on (TaskInv).  On that   *)
(* rests the other argument: a requested number moves from one place to    *)
(* the next, and the step that takes it out of one puts it into another    *)
(* (NothingLost); what the retry loop removes was taken over by the entry, *)
(* unless the task failed in between (TakenOver).                          *)
(***************************************************************************)
EXTENDS Reconciliation, TLAPS

(* A step that names no prover is tried with these, in this order. *)
USE ZenonT(3), SMTT(20), SMTT(21), ZenonT(20)

Retrier == [pc : {"idle", "submit", "remove"}, stream : Stream \cup {Nil}, num : Num]

(* Types, and that numbers to reconcile to are numbers of miniblocks. *)
Typed ==
    /\ TypeOK
    /\ retrier \in Retrier
    /\ retrier.pc # "idle" => retrier.stream \in Stream /\ retrier.num # Nil
    /\ \A s \in Stream : record[s] # Nil
    /\ \A i \in 1 .. Len(retry) : retry[i].num # Nil
    /\ \A t \in tasks : t.pc = "submit" => t.rec # Nil

Fits(t) ==
    IF t.pc = "queued"
    THEN entry[t.stream].inProgress = Nil /\ entry[t.stream].next # Nil
    ELSE entry[t.stream].inProgress = t.rec /\ t.rec # Nil

TaskInv ==
    /\ Typed
    /\ \A t \in tasks : t.kind = "reconcile" => Fits(t)
    /\ \A t, u \in tasks :
          t.kind = "reconcile" /\ u.kind = "reconcile" /\ t.stream = u.stream => t = u

(* A task that has succeeded has brought the stream to its record. *)
DoneIsLocal ==
    \A t \in tasks : t.kind = "reconcile" /\ t.pc = "done" => local[t.stream] >= t.rec

WantedExists == \A s \in Stream : wanted[s] <= record[s]

Excused(s) == stopped \/ panicked # {} \/ s \in raced \cup dropped

NothingLost == \A s \in Stream : Underway(s, wanted[s]) \/ Excused(s)

(* What the retry loop is about to remove. *)
TakenOver ==
    retrier.pc = "remove" =>
        \/ Excused(retrier.stream)
        \/ local[retrier.stream] >= retrier.num
        \/ entry[retrier.stream].inProgress >= retrier.num
        \/ entry[retrier.stream].next >= retrier.num

LostInv == TaskInv /\ DoneIsLocal /\ WantedExists /\ NothingLost /\ TakenOver

----------------------------------------------------------------------------
(* The operators.                                                          *)

Entry == [inProgress : Num, next : Num]

LEMMA MergedFacts ==
    ASSUME NEW e \in Entry, NEW rec \in Num, rec # Nil
    PROVE  /\ Merged(e, rec) \in Entry
           /\ Merged(e, rec).inProgress = e.inProgress
           /\ Merged(e, rec).next >= e.next
           /\ e = NotLoaded => Merged(e, rec).next # Nil
           /\ Merged(e, rec).inProgress >= rec \/ Merged(e, rec).next >= rec
  BY ReconciliationAssumption DEF Merged, Entry, NotLoaded, Num, Nil

LEMMA AddRetryFacts ==
    ASSUME NEW q \in Seq(Item), NEW s \in Stream, NEW rec \in Num, rec # Nil,
           \A i \in 1 .. Len(q) : q[i].num # Nil
    PROVE  /\ AddRetry(q, s, rec) \in Seq(Item)
           /\ \A i \in 1 .. Len(AddRetry(q, s, rec)) : AddRetry(q, s, rec)[i].num # Nil
           /\ Len(AddRetry(q, s, rec)) >= Len(q)
           /\ \A i \in 1 .. Len(q) : /\ AddRetry(q, s, rec)[i].stream = q[i].stream
                                     /\ AddRetry(q, s, rec)[i].num >= q[i].num
           /\ \E i \in 1 .. Len(AddRetry(q, s, rec)) :
                 AddRetry(q, s, rec)[i].stream = s /\ AddRetry(q, s, rec)[i].num >= rec
  <1> DEFINE item == [stream |-> s, num |-> rec, due |-> FALSE]
  <1>1. item \in Item /\ item.stream = s /\ item.num = rec
    <2>1. item \in Item
      BY DEF Item
    <2> QED BY <2>1
  <1>2. \A i \in 1 .. Len(q) : q[i] \in Item /\ q[i].num \in Int
    <2>1. ASSUME NEW x \in Item PROVE x.num \in Num
      BY DEF Item
    <2>2. Num \subseteq Int
      BY ReconciliationAssumption DEF Num, Nil
    <2> HIDE DEF item
    <2>3. \A i \in 1 .. Len(q) : q[i] \in Item
      OBVIOUS
    <2> QED BY <2>1, <2>2, <2>3
  <1>3. rec \in Int
    BY ReconciliationAssumption DEF Num, Nil
  <1>4. CASE \E i \in 1 .. Len(q) : q[i].stream = s
    <2>1. PICK k \in 1 .. Len(q) : q[k].stream = s
      BY <1>4
    <2> DEFINE r == [i \in 1 .. Len(q) |-> IF q[i].stream = s /\ q[i].num < rec THEN item ELSE q[i]]
    <2>2. AddRetry(q, s, rec) = r
      BY <1>4 DEF AddRetry
    <2> HIDE DEF item
    <2>3. r \in Seq(Item) /\ Len(r) = Len(q)
      BY <1>1, <1>2
    <2>4. \A i \in 1 .. Len(q) : r[i].stream = q[i].stream /\ r[i].num >= q[i].num /\ r[i].num # Nil
      BY <1>1, <1>2, <1>3
    <2>5. r[k].stream = s /\ r[k].num >= rec
      BY <1>1, <1>2, <1>3, <2>1
    <2> HIDE DEF r
    <2> QED BY <2>2, <2>3, <2>4, <2>5
  <1>5. CASE ~ \E i \in 1 .. Len(q) : q[i].stream = s
    <2>1. AddRetry(q, s, rec) = Append(q, item)
      BY <1>5 DEF AddRetry
    <2> HIDE DEF item
    <2>2. /\ Append(q, item) \in Seq(Item) /\ Len(Append(q, item)) = Len(q) + 1
          /\ \A i \in 1 .. Len(q) : Append(q, item)[i] = q[i]
          /\ Append(q, item)[Len(q) + 1] = item
      BY <1>1
    <2>3. Len(q) + 1 \in 1 .. Len(Append(q, item)) /\ Len(q) \in Nat
      BY <2>2
    <2>4. \A i \in 1 .. Len(Append(q, item)) : i \in 1 .. Len(q) \/ i = Len(q) + 1
      BY <2>2, <2>3
    <2>5. \A i \in 1 .. Len(q) : q[i].num >= q[i].num
      BY <1>2
    <2> QED BY <1>1, <1>3, <2>1, <2>2, <2>3, <2>4, <2>5
  <1> QED BY <1>4, <1>5

(* Remove takes out one item, no newer than the one given. *)
LEMMA RemoveRetryFacts ==
    ASSUME NEW q \in Seq(Item), NEW item \in Retrier
    PROVE  /\ RemoveRetry(q, item) \in Seq(Item)
           /\ \A i \in 1 .. Len(RemoveRetry(q, item)) :
                 \E j \in 1 .. Len(q) : RemoveRetry(q, item)[i] = q[j]
           /\ \A j \in 1 .. Len(q) :
                 \/ q[j].stream = item.stream /\ q[j].num <= item.num
                 \/ \E i \in 1 .. Len(RemoveRetry(q, item)) : RemoveRetry(q, item)[i] = q[j]
  <1> DEFINE old == {i \in 1 .. Len(q) : q[i].stream = item.stream /\ q[i].num <= item.num}
             at == CHOOSE i \in old : TRUE
             r == [i \in 1 .. Len(q) - 1 |-> IF i < at THEN q[i] ELSE q[i + 1]]
  <1>1. CASE old = {}
    <2>1. RemoveRetry(q, item) = q
      BY <1>1 DEF RemoveRetry
    <2> QED BY <2>1
  <1>2. CASE old # {}
    <2>1. RemoveRetry(q, item) = r
      BY <1>2 DEF RemoveRetry
    <2>2. at \in old /\ at \in 1 .. Len(q)
      BY <1>2
    <2>3. q[at].stream = item.stream /\ q[at].num <= item.num
      BY <2>2
    <2> HIDE DEF at, old
    <2>4. Len(q) \in Nat /\ Len(q) - 1 \in Nat
      BY <2>2
    <2>5. \A i \in 1 .. Len(q) - 1 : i \in 1 .. Len(q) /\ i + 1 \in 1 .. Len(q)
      BY <2>4
    <2>6. r \in Seq(Item) /\ Len(r) = Len(q) - 1
      BY <2>4, <2>5
    <2>7. ASSUME NEW i \in 1 .. Len(r) PROVE \E j \in 1 .. Len(q) : r[i] = q[j]
      BY <2>4, <2>5, <2>6
    <2>8. ASSUME NEW j \in 1 .. Len(q), j # at PROVE \E i \in 1 .. Len(r) : r[i] = q[j]
      <3>1. CASE j < at
        <4>1. j \in 1 .. Len(r) /\ r[j] = q[j]
          BY <2>2, <2>4, <2>6, <3>1
        <4> QED BY <4>1
      <3>2. CASE j > at
        <4>1. j - 1 \in 1 .. Len(r) /\ ~(j - 1 < at) /\ (j - 1) + 1 = j
          BY <2>2, <2>4, <2>6, <3>2
        <4>2. r[j - 1] = q[j]
          BY <2>6, <4>1
        <4> QED BY <4>1, <4>2
      <3>3. j < at \/ j > at
        BY <2>2, <2>8
      <3> QED BY <3>1, <3>2, <3>3
    <2> HIDE DEF r
    <2> QED BY <2>1, <2>3, <2>6, <2>7, <2>8
  <1> QED BY <1>1, <1>2

LEMMA SubmitFacts ==
    ASSUME NEW kept, NEW pool \in Pool, NEW ts, panicked \subseteq Pool, SubmitToPool(kept, pool, ts)
    PROVE  /\ tasks' = kept \/ tasks' = kept \cup ts
           /\ panicked \subseteq panicked' /\ panicked' \subseteq Pool
           /\ "online" \in panicked' => "online" \in panicked \/ ("online" \in closed /\ ~stopped)
  BY DEF SubmitToPool

(* A record is submitted, and nothing but tasks \ kept is taken away. *)
LEMMA ReconciliationSubmitted ==
    ASSUME TaskInv, NEW kept \in SUBSET tasks, NEW s \in Stream, NEW rec \in Num, rec # Nil,
           NEW pool \in Pool, SubmitReconciliation(kept, s, rec, pool)
    PROVE  /\ entry' \in [Stream -> Entry] /\ entry' = [entry EXCEPT ![s] = Merged(@, rec)]
           /\ tasks' \subseteq Task /\ panicked' \subseteq Pool /\ panicked \subseteq panicked'
           /\ \A t \in tasks' : t \in kept \/ (t.kind = "reconcile" /\ t.pc = "queued")
           /\ kept \subseteq tasks'
           /\ \A t \in tasks' : t.kind = "reconcile" => Fits(t)'
           /\ \A t, u \in tasks' :
                 t.kind = "reconcile" /\ u.kind = "reconcile" /\ t.stream = u.stream => t = u
  <1> DEFINE new == NewTask("reconcile", s, pool)
  <1>1. /\ entry \in [Stream -> Entry] /\ tasks \subseteq Task /\ panicked \subseteq Pool
    BY DEF TaskInv, Typed, TypeOK, Entry
  <1>2. entry' = [entry EXCEPT ![s] = Merged(entry[s], rec)]
    BY DEF SubmitReconciliation
  <1>3. /\ tasks' = kept \/ (tasks' = kept \cup {new} /\ entry[s] = NotLoaded)
        /\ panicked' \subseteq Pool /\ panicked \subseteq panicked'
    <2>1. SubmitToPool(kept, pool, IF entry[s] = NotLoaded THEN {new} ELSE {})
      BY DEF SubmitReconciliation
    <2>2. CASE entry[s] = NotLoaded
      <3>1. SubmitToPool(kept, pool, {new})
        BY <2>1, <2>2
      <3> HIDE DEF new
      <3> QED BY <1>1, <2>2, <3>1, SubmitFacts
    <2>3. CASE entry[s] # NotLoaded
      <3>1. SubmitToPool(kept, pool, {})
        BY <2>1, <2>3
      <3>2. tasks' = kept /\ panicked' \subseteq Pool /\ panicked \subseteq panicked'
        BY <1>1, <3>1 DEF SubmitToPool
      <3> QED BY <3>2
    <2> QED BY <2>2, <2>3
  <1>4. /\ new \in Task /\ new.kind = "reconcile" /\ new.pc = "queued" /\ new.stream = s
    <2>1. Nil \in Num
      BY ReconciliationAssumption DEF Num, Nil
    <2> QED BY <2>1 DEF NewTask, Task
  <1>5. /\ entry'[s] \in Entry /\ entry'[s].inProgress = entry[s].inProgress
        /\ entry'[s].next >= entry[s].next /\ (entry[s] = NotLoaded => entry'[s].next # Nil)
        /\ entry' \in [Stream -> Entry] /\ \A z \in Stream \ {s} : entry'[z] = entry[z]
    BY <1>1, <1>2, MergedFacts
  <1>6. ASSUME NEW t \in tasks, t.kind = "reconcile" PROVE Fits(t)'
    <2>1. Fits(t) /\ t.stream \in Stream
      BY <1>1, <1>6 DEF TaskInv, Task
    <2>2. CASE t.stream # s
      BY <1>5, <2>1, <2>2 DEF Fits
    <2>3. CASE t.stream = s
      <3>1. entry[s].next \in Num /\ entry'[s].next \in Num
        BY <1>1, <1>5 DEF Entry
      <3>2. entry[s].next # Nil => entry'[s].next # Nil
        BY <1>5, <3>1, ReconciliationAssumption DEF Num, Nil
      <3> QED BY <1>5, <2>1, <2>3, <3>2 DEF Fits
    <2> QED BY <2>2, <2>3
  <1>7. entry[s] = NotLoaded => \A t \in tasks : ~(t.kind = "reconcile" /\ t.stream = s)
    BY DEF TaskInv, Fits, NotLoaded
  <1>8. entry[s] = NotLoaded => Fits(new)'
    BY <1>4, <1>5 DEF Fits, NotLoaded
  <1> HIDE DEF new
  <1>9. \A t \in tasks' : t.kind = "reconcile" => Fits(t)'
    BY <1>3, <1>6, <1>8
  <1>10. \A t, u \in tasks' :
                 t.kind = "reconcile" /\ u.kind = "reconcile" /\ t.stream = u.stream => t = u
    BY <1>3, <1>4, <1>7 DEF TaskInv
  <1> QED BY <1>1, <1>2, <1>3, <1>4, <1>5, <1>9, <1>10

(* Requests, and the resubmission by the retry loop. *)
LEMMA SubmitSteps ==
    ASSUME TaskInv, \/ \E s \in Stream : SubmitRecord(s)
                    \/ \E t \in tasks : GetRecordSubmit(t)
                    \/ Resubmit
    PROVE  TaskInv'
  <1>1. ASSUME NEW kept \in SUBSET tasks, NEW s \in Stream, NEW rec \in Num, rec # Nil,
               NEW pool \in Pool, SubmitReconciliation(kept, s, rec, pool),
               UNCHANGED <<record, local, scheduled, retry, stopped, closed, failures, raced, dropped>>,
               wanted' \in [Stream -> Num], retrier' \in Retrier,
               retrier'.pc # "idle" => retrier'.stream \in Stream /\ retrier'.num # Nil
        PROVE  TaskInv'
    <2>1. /\ entry' \in [Stream -> Entry]
          /\ tasks' \subseteq Task /\ panicked' \subseteq Pool
          /\ \A t \in tasks' : t \in kept \/ (t.kind = "reconcile" /\ t.pc = "queued")
          /\ \A t \in tasks' : t.kind = "reconcile" => Fits(t)'
          /\ \A t, u \in tasks' :
                 t.kind = "reconcile" /\ u.kind = "reconcile" /\ t.stream = u.stream => t = u
      BY <1>1, ReconciliationSubmitted
    <2>2. TypeOK'
      BY <1>1, <2>1 DEF TaskInv, Typed, TypeOK, Entry, Retrier
    <2>3. \A t \in tasks' : t.pc = "submit" => t.rec # Nil
      BY <1>1, <2>1 DEF TaskInv, Typed
    <2>4. Typed'
      BY <1>1, <2>2, <2>3 DEF TaskInv, Typed
    <2> QED BY <2>1, <2>4 DEF TaskInv
  <1>2. ASSUME NEW s \in Stream, SubmitRecord(s) PROVE TaskInv'
    <2>1. record[s] \in Num /\ record[s] # Nil /\ wanted' \in [Stream -> Num]
      BY <1>2 DEF TaskInv, Typed, TypeOK, SubmitRecord
    <2>2. retrier' = retrier /\ SubmitReconciliation(tasks, s, record[s], "online")
      BY <1>2 DEF SubmitRecord
    <2> QED BY <1>1, <1>2, <2>1, <2>2 DEF SubmitRecord, TaskInv, Typed, Pool
  <1>3. ASSUME NEW t \in tasks, GetRecordSubmit(t) PROVE TaskInv'
    <2>1. t.rec \in Num /\ t.rec # Nil /\ t.stream \in Stream /\ t.pool \in Pool
      BY <1>3 DEF TaskInv, Typed, TypeOK, GetRecordSubmit, Runs, Task
    <2>2. SubmitReconciliation(tasks \ {t}, t.stream, t.rec, t.pool)
          /\ UNCHANGED <<record, local, scheduled, retry, retrier, stopped, closed, failures, wanted,
                         raced, dropped>>
      BY <1>3 DEF GetRecordSubmit
    <2>3. wanted \in [Stream -> Num]
      BY DEF TaskInv, Typed, TypeOK
    <2> QED BY <1>1, <2>1, <2>2, <2>3 DEF TaskInv, Typed
  <1>4. ASSUME Resubmit PROVE TaskInv'
    <2>1. /\ retrier.num \in Num /\ retrier.num # Nil /\ retrier.stream \in Stream
          /\ wanted' \in [Stream -> Num]
      BY <1>4 DEF TaskInv, Typed, TypeOK, Resubmit, Retrier
    <2>2. SubmitReconciliation(tasks, retrier.stream, retrier.num, "online")
          /\ retrier' = [retrier EXCEPT !.pc = "remove"]
      BY <1>4 DEF Resubmit
    <2>3. /\ retrier' \in Retrier
          /\ retrier'.stream = retrier.stream /\ retrier'.num = retrier.num
      BY <2>2 DEF TaskInv, Typed, Retrier
    <2> QED BY <1>1, <1>4, <2>1, <2>2, <2>3 DEF Resubmit, Pool
  <1> QED BY <1>2, <1>3, <1>4

(* Steps that leave reconciliation tasks and entries as they are. *)
LEMMA NoTaskChange ==
    ASSUME TaskInv, Typed', entry' = entry,
           \A t \in tasks' : t.kind = "reconcile" => t \in tasks
    PROVE  TaskInv'
  BY DEF TaskInv, Fits

LEMMA OtherSteps ==
    ASSUME TaskInv,
           \/ CloseInitialPool \/ SetStopped \/ StopPools \/ Peek \/ Remove \/ vars' = vars
           \/ \E s \in Stream : Register(s) \/ Promote(s) \/ SubmitGetRecord(s)
           \/ \E i \in 1 .. Len(retry) : BecomesDue(i)
           \/ \E t \in tasks : GetRecordStart(t) \/ GetRecordRead(t) \/ GetRecordFails(t)
    PROVE  TaskInv'
  <1>0. Typed /\ TypeOK /\ Nil \in Num /\ \A n \in Num : n \in Int
    BY ReconciliationAssumption DEF TaskInv, Typed, Num, Nil
  <1>1. CASE CloseInitialPool \/ SetStopped \/ StopPools \/ vars' = vars
    <2>1. /\ UNCHANGED <<record, local, scheduled, entry, retry, retrier, panicked, failures, wanted,
                         raced, dropped>>
          /\ tasks' \subseteq tasks
      BY <1>1 DEF CloseInitialPool, SetStopped, StopPools, vars
    <2>2. closed' \subseteq Pool
      BY <1>0, <1>1 DEF TypeOK, CloseInitialPool, SetStopped, StopPools, vars, Pool
    <2>3. stopped' \in BOOLEAN
      BY <1>0, <1>1 DEF TypeOK, CloseInitialPool, SetStopped, StopPools, vars
    <2>4. TypeOK'
      BY <1>0, <2>1, <2>2, <2>3 DEF TypeOK
    <2>5. Typed'
      BY <1>0, <2>1, <2>4 DEF Typed
    <2> QED BY <2>1, <2>5, NoTaskChange
  <1>2. CASE Peek
    <2>1. /\ UNCHANGED <<record, local, scheduled, entry, tasks, retry, stopped, closed, panicked,
                         failures, wanted, raced, dropped>>
          /\ retry # <<>>
          /\ retrier' = [pc |-> "submit", stream |-> retry[1].stream, num |-> retry[1].num]
      BY <1>2 DEF Peek
    <2>2. retry \in Seq(Item) /\ 1 \in 1 .. Len(retry)
      BY <1>0, <2>1 DEF TypeOK
    <2>3. retry[1] \in Item /\ retry[1].num # Nil
      BY <1>0, <2>2 DEF Typed
    <2>4. retry[1].stream \in Stream /\ retry[1].num \in Num
      BY <2>3 DEF Item
    <2>5. retrier' \in Retrier /\ retrier'.stream \in Stream /\ retrier'.num # Nil
          /\ retrier'.pc = "submit"
      BY <2>1, <2>3, <2>4 DEF Retrier
    <2>6. TypeOK'
      BY <1>0, <2>1, <2>5 DEF TypeOK
    <2>7. Typed'
      BY <1>0, <2>1, <2>5, <2>6 DEF Typed
    <2> QED BY <2>1, <2>7, NoTaskChange
  <1>3. CASE Remove
    <2>1. /\ UNCHANGED <<record, local, scheduled, entry, tasks, stopped, closed, panicked,
                         failures, wanted, raced, dropped>>
          /\ retry' = RemoveRetry(retry, retrier) /\ retrier' = Idle
      BY <1>3 DEF Remove
    <2>2. retry \in Seq(Item) /\ retrier \in Retrier
      BY <1>0 DEF TypeOK, Typed
    <2>3. /\ retry' \in Seq(Item)
          /\ \A i \in 1 .. Len(retry') : \E j \in 1 .. Len(retry) : retry'[i] = retry[j]
      BY <2>1, <2>2, RemoveRetryFacts
    <2>4. retrier' \in Retrier /\ retrier'.pc = "idle"
      BY <1>0, <2>1 DEF Retrier, Idle
    <2>5. TypeOK'
      BY <1>0, <2>1, <2>3, <2>4 DEF TypeOK
    <2>6. Typed'
      BY <1>0, <2>1, <2>3, <2>4, <2>5 DEF Typed
    <2> QED BY <2>1, <2>6, NoTaskChange
  <1>4. ASSUME NEW i \in 1 .. Len(retry), BecomesDue(i) PROVE TaskInv'
    <2>1. /\ UNCHANGED <<record, local, scheduled, entry, tasks, retrier, stopped, closed, panicked,
                         failures, wanted, raced, dropped>>
          /\ retry' = [retry EXCEPT ![i] = [retry[i] EXCEPT !.due = TRUE]]
      BY <1>4 DEF BecomesDue
    <2>2. retry \in Seq(Item) /\ retry[i] \in Item
      BY <1>0 DEF TypeOK
    <2> DEFINE x == [retry[i] EXCEPT !.due = TRUE]
    <2>3. x \in Item
      BY <2>2, Zenon DEF Item
    <2>4. x.num = retry[i].num
      BY <2>2 DEF Item
    <2> HIDE DEF x
    <2>5. retry' = [retry EXCEPT ![i] = x]
      BY <2>1 DEF x
    <2>6. retry' \in Seq(Item) /\ Len(retry') = Len(retry)
          /\ \A j \in 1 .. Len(retry) : retry'[j] = IF j = i THEN x ELSE retry[j]
      BY <2>2, <2>3, <2>5
    <2>7. \A j \in 1 .. Len(retry') : retry'[j].num # Nil
      BY <1>0, <2>4, <2>6 DEF Typed
    <2>8. TypeOK'
      BY <1>0, <2>1, <2>6 DEF TypeOK
    <2>9. Typed'
      BY <1>0, <2>1, <2>7, <2>8 DEF Typed
    <2> QED BY <2>1, <2>9, NoTaskChange
  <1>5. ASSUME NEW s \in Stream, Register(s) \/ Promote(s) PROVE TaskInv'
    <2>1. /\ UNCHANGED <<scheduled, entry, tasks, retry, retrier, stopped, closed, panicked,
                         failures, wanted, raced, dropped>>
      BY <1>5 DEF Register, Promote
    <2>2. /\ record' \in [Stream -> Num] /\ local' \in [Stream -> Num]
          /\ \A z \in Stream : record'[z] # Nil
      <3>1. record \in [Stream -> Num] /\ local \in [Stream -> Num] /\ \A z \in Stream : record[z] # Nil
        BY <1>0 DEF TypeOK, Typed
      <3>2. CASE Register(s)
        BY <3>1, <3>2, ReconciliationAssumption DEF Register, Num, Nil
      <3>3. CASE Promote(s)
        BY <3>1, <3>3, ReconciliationAssumption DEF Promote, Num, Nil
      <3> QED BY <1>5, <3>2, <3>3
    <2>3. TypeOK'
      BY <1>0, <2>1, <2>2 DEF TypeOK
    <2>4. Typed'
      BY <1>0, <2>1, <2>2, <2>3 DEF Typed
    <2> QED BY <2>1, <2>4, NoTaskChange
  <1>6. ASSUME NEW s \in Stream, SubmitGetRecord(s) PROVE TaskInv'
    <2> DEFINE new == NewTask("getRecord", s, "online")
    <2>1. /\ UNCHANGED <<record, local, entry, retry, retrier, stopped, closed, failures, raced, dropped>>
          /\ wanted' = [wanted EXCEPT ![s] = record[s]] /\ scheduled' = scheduled \cup {s}
          /\ tasks' \subseteq tasks \cup {new} /\ panicked' \subseteq panicked \cup {"online"}
      BY <1>6 DEF SubmitGetRecord, SubmitToPool
    <2>2. new \in Task /\ new.kind = "getRecord" /\ new.pc = "queued"
      BY <1>0 DEF NewTask, Task, Pool
    <2> HIDE DEF new
    <2>3. TypeOK'
      BY <1>0, <2>1, <2>2 DEF TypeOK, Pool
    <2>4. Typed'
      BY <1>0, <2>1, <2>2, <2>3 DEF Typed
    <2> QED BY <2>1, <2>2, <2>4, NoTaskChange
  <1>7. ASSUME NEW t \in tasks, GetRecordStart(t) \/ GetRecordRead(t) \/ GetRecordFails(t) PROVE TaskInv'
    <2>1. /\ UNCHANGED <<record, local, entry, retry, retrier, stopped, closed, panicked, wanted, raced>>
          /\ scheduled' \subseteq scheduled /\ dropped' \subseteq dropped \cup {t.stream}
          /\ failures' = failures \/ failures' = failures + 1
          /\ t.kind = "getRecord"
      BY <1>7 DEF GetRecordStart, GetRecordRead, GetRecordFails, Unscheduled, Runs
    <2>2. t \in Task /\ t.stream \in Stream /\ record[t.stream] \in Num /\ record[t.stream] # Nil
      BY <1>0 DEF TypeOK, Typed, Task
    <2>3. PICK new \in Task : /\ new.kind = "getRecord" /\ (new.pc = "submit" => new.rec # Nil)
                              /\ tasks' \subseteq tasks \cup {new}
      <3> DEFINE start == [t EXCEPT !.pc = "read", !.rec = Nil]
                 got == [t EXCEPT !.pc = "submit", !.rec = record[t.stream]]
      <3>1. /\ start \in Task /\ start.kind = "getRecord" /\ start.pc = "read"
            /\ got \in Task /\ got.kind = "getRecord" /\ got.rec = record[t.stream]
        BY <1>0, <2>1, <2>2 DEF Task
      <3>2. tasks' \subseteq tasks \cup {start} \/ tasks' \subseteq tasks \cup {got}
        BY <1>7 DEF GetRecordStart, GetRecordRead, GetRecordFails, Becomes
      <3> HIDE DEF start, got
      <3> QED BY <2>2, <3>1, <3>2
    <2>4. TypeOK'
      BY <1>0, <2>1, <2>2, <2>3 DEF TypeOK
    <2>5. Typed'
      BY <1>0, <2>1, <2>3, <2>4 DEF Typed
    <2> QED BY <2>1, <2>3, <2>5, NoTaskChange
  <1> QED BY <1>1, <1>2, <1>3, <1>4, <1>5, <1>6, <1>7

(* The task t of a stream ends or goes on as new, the other tasks stay. *)
LEMMA OneTaskChange ==
    ASSUME TaskInv, Typed', NEW t \in tasks, t.kind = "reconcile",
           \A z \in Stream \ {t.stream} : entry'[z] = entry[z],
           \/ tasks' \subseteq tasks \ {t}
           \/ \E new \in Task : /\ tasks' \subseteq (tasks \ {t}) \cup {new}
                                /\ new.kind = "reconcile" /\ new.stream = t.stream /\ Fits(new)'
    PROVE  TaskInv'
  <1>1. \A u \in tasks : u \in Task /\ u.stream \in Stream
    BY DEF TaskInv, Typed, TypeOK, Task
  <1>2. ASSUME NEW u \in tasks \ {t}, u.kind = "reconcile" PROVE u.stream # t.stream /\ Fits(u)'
    <2>1. u.stream # t.stream /\ Fits(u)
      BY <1>2 DEF TaskInv
    <2> QED BY <1>1, <2>1 DEF Fits
  <1> QED BY <1>2 DEF TaskInv

LEMMA ReconcileSteps ==
    ASSUME TaskInv, NEW t \in tasks,
           \/ ReconcileStart(t) \/ SyncOk(t) \/ RetryLater(t) \/ ReconcileDone(t)
           \/ \E err \in {"retry", "fatal"}, k \in Num : SyncFails(t, err, k)
    PROVE  TaskInv'
  <1>0. Typed /\ TypeOK /\ Nil \in Num /\ \A n \in Num : n \in Int
    BY ReconciliationAssumption DEF TaskInv, Typed, Num, Nil
  <1> DEFINE s == t.stream
             e == entry[s]
  <1>1. /\ t \in Task /\ s \in Stream /\ t.rec \in Num /\ t.pool \in Pool /\ Fits(t) /\ t.kind = "reconcile"
        /\ e \in Entry /\ e.inProgress \in Num /\ e.next \in Num /\ entry \in [Stream -> Entry]
        /\ local \in [Stream -> Num] /\ local[s] \in Num
    <2>1. t \in Task /\ t.kind = "reconcile"
      BY <1>0 DEF TypeOK, Runs, ReconcileStart, SyncOk, RetryLater, ReconcileDone, SyncFails
    <2>2. s \in Stream /\ t.rec \in Num /\ t.pool \in Pool /\ Fits(t)
      BY <2>1 DEF Task, TaskInv
    <2>3. e \in Entry /\ entry \in [Stream -> Entry] /\ local \in [Stream -> Num]
      BY <1>0, <2>2 DEF TypeOK, Entry
    <2> QED BY <2>1, <2>2, <2>3 DEF Entry
  <1>2. CASE ReconcileStart(t)
    <2> DEFINE f == [inProgress |-> e.next, next |-> Nil]
    <2>0. PICK new : new = [t EXCEPT !.pc = "sync", !.rec = e.next]
      OBVIOUS
    <2>1. /\ UNCHANGED <<record, local, scheduled, retry, retrier, stopped, closed, panicked,
                         failures, wanted, raced, dropped>>
          /\ entry' = [entry EXCEPT ![s] = f] /\ tasks' = (tasks \ {t}) \cup {new} /\ e.next # Nil
      BY <1>2, <2>0 DEF ReconcileStart, Becomes
    <2>2. new \in Task /\ new.kind = "reconcile" /\ new.stream = s /\ new.pc = "sync" /\ new.rec = e.next
      BY <1>1, <2>0 DEF Task
    <2>3. f \in Entry
      BY <1>0, <1>1 DEF Entry
    <2>4. entry' \in [Stream -> Entry] /\ entry'[s] = f /\ \A z \in Stream \ {s} : entry'[z] = entry[z]
      BY <1>1, <2>1, <2>3
    <2>5. Fits(new)'
      BY <2>1, <2>2, <2>4 DEF Fits
    <2> HIDE DEF f
    <2>6. TypeOK'
      BY <1>0, <2>1, <2>2, <2>4 DEF TypeOK, Entry
    <2>7. Typed'
      BY <1>0, <2>1, <2>2, <2>6 DEF Typed
    <2> QED BY <1>1, <2>1, <2>2, <2>4, <2>5, <2>7, OneTaskChange
  <1>3. CASE SyncOk(t) \/ \E err \in {"retry", "fatal"}, k \in Num : SyncFails(t, err, k)
    <2>1. /\ UNCHANGED <<record, scheduled, entry, retry, retrier, stopped, closed, panicked, wanted, raced>>
          /\ failures' = failures \/ failures' = failures + 1
          /\ dropped' \subseteq dropped \cup {s} /\ t.pc = "sync"
      BY <1>3 DEF SyncOk, SyncFails, Runs
    <2>2. local' \in [Stream -> Num]
      <3>1. CASE SyncOk(t)
        <4>1. local' = [local EXCEPT ![s] = SyncedTo(local[s], t.rec)]
          BY <3>1 DEF SyncOk
        <4>2. SyncedTo(local[s], t.rec) \in Num
          BY <1>1 DEF SyncedTo, Later
        <4> QED BY <1>1, <4>1, <4>2
      <3>2. CASE \E err \in {"retry", "fatal"}, k \in Num : SyncFails(t, err, k)
        BY <1>1, <3>2 DEF SyncFails
      <3> QED BY <1>3, <3>1, <3>2
    <2>3. PICK pc \in {"done", "failed"} :
               \/ tasks' = tasks \ {t}
               \/ tasks' = (tasks \ {t}) \cup {[t EXCEPT !.pc = pc, !.rec = t.rec]}
      BY <1>3 DEF SyncOk, SyncFails, Becomes
    <2> DEFINE new == [t EXCEPT !.pc = pc, !.rec = t.rec]
    <2>4. new \in Task /\ new.kind = "reconcile" /\ new.stream = s /\ new.pc = pc /\ new.rec = t.rec
      BY <1>1 DEF Task
    <2>5. Fits(new)'
      BY <1>1, <2>1, <2>4 DEF Fits
    <2> HIDE DEF new
    <2>6. tasks' \subseteq (tasks \ {t}) \cup {new}
      BY <2>3 DEF new
    <2>7. TypeOK'
      <3>1. failures' \in Nat
        BY <1>0, <2>1 DEF TypeOK
      <3>2. tasks' \subseteq Task /\ dropped' \subseteq Stream
        BY <1>0, <1>1, <2>1, <2>4, <2>6 DEF TypeOK
      <3> QED BY <1>0, <2>1, <2>2, <3>1, <3>2 DEF TypeOK
    <2>8. Typed'
      BY <1>0, <2>1, <2>4, <2>6, <2>7 DEF Typed
    <2> QED BY <1>1, <2>1, <2>4, <2>5, <2>6, <2>8, OneTaskChange
  <1>4. CASE RetryLater(t)
    <2> DEFINE rec == RecordToRetry(e, t.rec)
    <2>1. /\ UNCHANGED <<record, local, scheduled, retrier, stopped, closed, panicked,
                         failures, wanted, dropped>>
          /\ retry' = AddRetry(retry, s, rec) /\ entry' = [entry EXCEPT ![s] = NotLoaded]
          /\ tasks' = tasks \ {t} /\ raced' \subseteq raced \cup {s} /\ t.pc = "failed"
      BY <1>4 DEF RetryLater, Runs
    <2>2. rec \in Num /\ rec # Nil
      <3>1. t.rec # Nil
        BY <1>1, <2>1 DEF Fits
      <3> QED BY <1>1, <3>1, ReconciliationAssumption DEF RecordToRetry, Later, Num, Nil
    <2> HIDE DEF rec
    <2>3. /\ retry' \in Seq(Item) /\ \A i \in 1 .. Len(retry') : retry'[i].num # Nil
      <3>1. retry \in Seq(Item) /\ \A i \in 1 .. Len(retry) : retry[i].num # Nil
        BY <1>0 DEF TypeOK, Typed
      <3>2. s \in Stream
        BY <1>1
      <3> QED BY <2>1, <2>2, <3>1, <3>2, AddRetryFacts
    <2>4. entry' \in [Stream -> Entry] /\ \A z \in Stream \ {s} : entry'[z] = entry[z]
      <3>1. NotLoaded \in Entry
        BY <1>0 DEF NotLoaded, Entry
      <3> QED BY <1>1, <2>1, <3>1
    <2>5. TypeOK'
      BY <1>0, <1>1, <2>1, <2>3, <2>4 DEF TypeOK, Entry
    <2>6. Typed'
      BY <1>0, <2>1, <2>3, <2>5 DEF Typed
    <2> QED BY <1>1, <2>1, <2>4, <2>6, OneTaskChange
  <1>5. CASE ReconcileDone(t)
    <2> DEFINE f == AfterSuccess(e)
               new == NewTask("reconcile", s, t.pool)
    <2>1. /\ UNCHANGED <<record, local, scheduled, retry, retrier, stopped, closed, failures, wanted,
                         raced, dropped>>
          /\ entry' = [entry EXCEPT ![s] = f]
          /\ SubmitToPool(tasks \ {t}, t.pool, IF f.next # Nil THEN {new} ELSE {})
      BY <1>5 DEF ReconcileDone
    <2>2. f \in Entry /\ f.inProgress = Nil /\ f.next = e.next
      BY <1>0, <1>1 DEF AfterSuccess, Entry
    <2>3. new \in Task /\ new.kind = "reconcile" /\ new.stream = s /\ new.pc = "queued"
      BY <1>0, <1>1 DEF NewTask, Task
    <2>4. entry' \in [Stream -> Entry] /\ entry'[s] = f /\ \A z \in Stream \ {s} : entry'[z] = entry[z]
      BY <1>1, <2>1, <2>2
    <2> HIDE DEF f, new
    <2>5. panicked' \subseteq Pool
      BY <1>0, <2>1 DEF SubmitToPool, TypeOK
    <2>6. tasks' \subseteq tasks \ {t} \/ (tasks' \subseteq (tasks \ {t}) \cup {new} /\ f.next # Nil)
      BY <2>1 DEF SubmitToPool
    <2>7. f.next # Nil => Fits(new)'
      BY <2>2, <2>3, <2>4 DEF Fits
    <2>8. TypeOK'
      BY <1>0, <2>1, <2>3, <2>4, <2>5, <2>6 DEF TypeOK, Entry
    <2>9. Typed'
      BY <1>0, <2>1, <2>3, <2>6, <2>8 DEF Typed
    <2> QED BY <1>1, <2>3, <2>4, <2>6, <2>7, <2>9, OneTaskChange
  <1> QED BY <1>2, <1>3, <1>4, <1>5

LEMMA TaskInvInit == Init => TaskInv
  <1> SUFFICES ASSUME Init PROVE TaskInv
    OBVIOUS
  <1>0. Nil \in Num /\ 0 \in Num /\ Nil # 0
    BY ReconciliationAssumption DEF Num, Nil
  <1>1. NotLoaded \in Entry /\ NotLoaded.inProgress = Nil
    BY <1>0 DEF NotLoaded, Entry
  <1>2. /\ Merged(NotLoaded, 0) \in Entry /\ Merged(NotLoaded, 0).inProgress = Nil
        /\ Merged(NotLoaded, 0).next # Nil
    BY <1>0, <1>1, MergedFacts
  <1>3. ASSUME NEW s \in Stream
        PROVE  LET x == NewTask("reconcile", s, "initial")
               IN  x \in Task /\ x.stream = s /\ x.pc = "queued" /\ x.kind = "reconcile"
    BY <1>0 DEF NewTask, Task, Pool
  <1>4. entry \in [Stream -> Entry]
    BY <1>1, <1>2 DEF Init
  <1>5. tasks \subseteq Task
    BY <1>3 DEF Init
  <1>6. ASSUME NEW x \in tasks
        PROVE  /\ InitialPool /\ x.pc = "queued"
               /\ x = NewTask("reconcile", x.stream, "initial") /\ x.stream \in Stream
    BY <1>3 DEF Init
  <1>7. \A x \in tasks : Fits(x)
    BY <1>2, <1>6 DEF Init, Fits
  <1>8. TypeOK
    <2>1. /\ record \in [Stream -> Num] /\ local \in [Stream -> Num] /\ wanted \in [Stream -> Num]
          /\ retry \in Seq(Item) /\ failures \in Nat
      BY <1>0 DEF Init
    <2>2. retrier.pc \in {"idle", "submit", "remove"}
      BY DEF Init, Idle
    <2>3. /\ scheduled \subseteq Stream /\ stopped \in BOOLEAN /\ closed \subseteq Pool
          /\ panicked \subseteq Pool /\ raced \subseteq Stream /\ dropped \subseteq Stream
      BY DEF Init
    <2> QED BY <1>4, <1>5, <2>1, <2>2, <2>3 DEF TypeOK, Entry
  <1>9. Typed
    BY <1>0, <1>6, <1>8 DEF Init, Typed, Idle, Retrier
  <1> QED BY <1>6, <1>7, <1>9 DEF TaskInv

LEMMA TaskInvStep == TaskInv /\ [Next]_vars => TaskInv'
  <1> SUFFICES ASSUME TaskInv, [Next]_vars PROVE TaskInv'
    OBVIOUS
  <1>1. CASE \E t \in tasks : \/ ReconcileStart(t) \/ SyncOk(t) \/ RetryLater(t) \/ ReconcileDone(t)
                            \/ \E err \in {"retry", "fatal"}, k \in Num : SyncFails(t, err, k)
    BY <1>1, ReconcileSteps
  <1>2. CASE \/ \E s \in Stream : SubmitRecord(s)
             \/ \E t \in tasks : GetRecordSubmit(t)
             \/ Resubmit
    BY <1>2, SubmitSteps
  <1>3. CASE \/ CloseInitialPool \/ SetStopped \/ StopPools \/ Peek \/ Remove \/ vars' = vars
             \/ \E s \in Stream : Register(s) \/ Promote(s) \/ SubmitGetRecord(s)
             \/ \E i \in 1 .. Len(retry) : BecomesDue(i)
             \/ \E t \in tasks : GetRecordStart(t) \/ GetRecordRead(t) \/ GetRecordFails(t)
    BY <1>3, OtherSteps
  <1> QED BY <1>1, <1>2, <1>3 DEF Next, TaskStep

(* A stream never has two reconciliation tasks, and the task finds in the  *)
(* entry what it was submitted for (reconciliationTask's corrupt-task      *)
(* branch is dead), for any number of streams, requests and failures.      *)
THEOREM TasksTheorem == Spec => []TasksMatchEntries
  <1>1. TaskInv => TasksMatchEntries
    <2> SUFFICES ASSUME TaskInv, NEW s \in Stream
                 PROVE  LET ts == {t \in tasks : t.kind = "reconcile" /\ t.stream = s}
                        IN  /\ \A t, u \in ts : t = u
                            /\ \A t \in ts :
                                  IF t.pc = "queued"
                                  THEN entry[s].inProgress = Nil /\ entry[s].next # Nil
                                  ELSE entry[s].inProgress = t.rec /\ t.rec # Nil
      BY DEF TasksMatchEntries
    <2> DEFINE ts == {t \in tasks : t.kind = "reconcile" /\ t.stream = s}
    <2>1. \A x, y \in ts : x = y
      BY DEF TaskInv
    <2>2. \A t \in ts : IF t.pc = "queued"
                       THEN entry[s].inProgress = Nil /\ entry[s].next # Nil
                       ELSE entry[s].inProgress = t.rec /\ t.rec # Nil
      BY DEF TaskInv, Fits
    <2> QED BY <2>1, <2>2
  <1> QED BY <1>1, TaskInvInit, TaskInvStep, PTL DEF Spec

(* The online pool is stopped only after stopped was set, and submitToPool *)
(* submits nothing once it is set.                                         *)
THEOREM OnlinePoolTheorem == Spec => []OnlinePoolOpen
  <1> DEFINE Inv == OnlinePoolOpen /\ ("online" \in closed => stopped)
  <1>1. Init => Inv
    BY DEF Init, OnlinePoolOpen
  <1>2. Inv /\ [Next]_vars => Inv'
    <2> SUFFICES ASSUME Inv, [Next]_vars PROVE Inv'
      OBVIOUS
    <2>1. ASSUME NEW kept, NEW pool, NEW ts, SubmitToPool(kept, pool, ts) PROVE "online" \notin panicked'
      BY <2>1 DEF SubmitToPool, OnlinePoolOpen
    <2>2. CASE \/ \E s \in Stream : SubmitGetRecord(s) \/ SubmitRecord(s)
               \/ \E t \in tasks : GetRecordSubmit(t) \/ ReconcileDone(t)
               \/ Resubmit
      BY <2>1, <2>2 DEF SubmitGetRecord, SubmitRecord, GetRecordSubmit, ReconcileDone, Resubmit,
         SubmitReconciliation, OnlinePoolOpen
    <2>3. CASE \/ CloseInitialPool \/ SetStopped \/ StopPools \/ Peek \/ Remove \/ vars' = vars
               \/ \E s \in Stream : Register(s) \/ Promote(s)
               \/ \E i \in 1 .. Len(retry) : BecomesDue(i)
               \/ \E t \in tasks : \/ GetRecordStart(t) \/ GetRecordRead(t) \/ GetRecordFails(t)
                                   \/ ReconcileStart(t) \/ SyncOk(t) \/ RetryLater(t)
                                   \/ \E err \in {"retry", "fatal"}, k \in Num : SyncFails(t, err, k)
      BY <2>3 DEF CloseInitialPool, SetStopped, StopPools, Peek, Remove, Register, Promote, BecomesDue,
         GetRecordStart, GetRecordRead, GetRecordFails, ReconcileStart, SyncOk, RetryLater, SyncFails,
         OnlinePoolOpen, vars
    <2> QED BY <2>2, <2>3 DEF Next, TaskStep
  <1> QED BY <1>1, <1>2, PTL DEF Spec

----------------------------------------------------------------------------
(* Where a requested number is.                                            *)

InEntry(s, k) == entry[s].inProgress >= k \/ entry[s].next >= k

InTask(s, k) ==
    \E t \in tasks : t.stream = s /\ t.kind = "getRecord" /\ (t.pc = "read" \/ t.rec >= k)

InRetry(s, k) == \E i \in 1 .. Len(retry) : retry[i].stream = s /\ retry[i].num >= k

LEMMA Numbers ==
    ASSUME TaskInv
    PROVE  /\ Num \subseteq Int
           /\ \A s \in Stream : /\ local[s] \in Num /\ record[s] \in Num /\ wanted[s] \in Num
                               /\ entry[s] \in Entry /\ entry[s].inProgress \in Num /\ entry[s].next \in Num
           /\ \A t \in tasks : t \in Task /\ t.stream \in Stream /\ t.rec \in Num /\ t.pool \in Pool
           /\ local \in [Stream -> Num] /\ record \in [Stream -> Num] /\ wanted \in [Stream -> Num]
           /\ entry \in [Stream -> Entry]
           /\ retry \in Seq(Item) /\ \A i \in 1 .. Len(retry) : retry[i].num # Nil /\ retry[i].num \in Num
  <1>1. Num \subseteq Int
    BY ReconciliationAssumption DEF Num, Nil
  <1>2. /\ local \in [Stream -> Num] /\ record \in [Stream -> Num] /\ wanted \in [Stream -> Num]
        /\ entry \in [Stream -> Entry] /\ tasks \subseteq Task
    BY DEF TaskInv, Typed, TypeOK, Entry
  <1>3. \A t \in tasks : t \in Task /\ t.stream \in Stream /\ t.rec \in Num /\ t.pool \in Pool
    BY <1>2 DEF Task
  <1>4. \A s \in Stream : entry[s] \in Entry /\ entry[s].inProgress \in Num /\ entry[s].next \in Num
    BY <1>2 DEF Entry
  <1>5. retry \in Seq(Item) /\ \A i \in 1 .. Len(retry) : retry[i].num # Nil
    BY DEF TaskInv, Typed, TypeOK
  <1>6. \A i \in 1 .. Len(retry) : retry[i].num \in Num
    <2>1. \A x \in Item : x.num \in Num
      BY DEF Item
    <2>2. \A i \in 1 .. Len(retry) : retry[i] \in Item
      BY <1>5
    <2> QED BY <2>1, <2>2
  <1> QED BY <1>1, <1>2, <1>3, <1>4, <1>5, <1>6

(* Local streams and records grow, and an excuse stays one. *)
LEMMA Grows ==
    ASSUME TaskInv, Next
    PROVE  /\ \A s \in Stream : local'[s] >= local[s] /\ record'[s] >= record[s]
           /\ \A s : Excused(s) => Excused(s)'
  <1>0. /\ Num \subseteq Int /\ local \in [Stream -> Num] /\ record \in [Stream -> Num]
        /\ \A t \in tasks : t.rec \in Num /\ t.stream \in Stream
    BY Numbers
  <1>1. \A s \in Stream : local[s] \in Int /\ record[s] \in Int
    BY <1>0
  <1>2. ASSUME NEW kept, NEW pool, NEW ts, SubmitToPool(kept, pool, ts) PROVE panicked \subseteq panicked'
    BY <1>2 DEF SubmitToPool
  <1>3. CASE \/ \E s \in Stream : SubmitGetRecord(s) \/ SubmitRecord(s)
             \/ \E t \in tasks : GetRecordSubmit(t) \/ ReconcileDone(t)
             \/ Resubmit
    <2>1. UNCHANGED <<local, record, stopped, raced, dropped>> /\ panicked \subseteq panicked'
      BY <1>2, <1>3 DEF SubmitGetRecord, SubmitRecord, GetRecordSubmit, ReconcileDone, Resubmit,
         SubmitReconciliation
    <2> QED BY <1>1, <2>1 DEF Excused
  <1>4. CASE \/ CloseInitialPool \/ SetStopped \/ StopPools \/ Peek \/ Remove
             \/ \E i \in 1 .. Len(retry) : BecomesDue(i)
             \/ \E t \in tasks : GetRecordStart(t) \/ GetRecordRead(t) \/ GetRecordFails(t)
                                 \/ ReconcileStart(t) \/ RetryLater(t)
    <2>1. UNCHANGED <<local, record>>
      BY <1>4 DEF CloseInitialPool, SetStopped, StopPools, Peek, Remove, BecomesDue,
         GetRecordStart, GetRecordRead, GetRecordFails, ReconcileStart, RetryLater
    <2>2. panicked' = panicked /\ raced \subseteq raced' /\ dropped \subseteq dropped'
      BY <1>4 DEF CloseInitialPool, SetStopped, StopPools, Peek, Remove, BecomesDue,
         GetRecordStart, GetRecordRead, GetRecordFails, ReconcileStart, RetryLater
    <2>3. CASE SetStopped
      BY <1>1, <2>1, <2>3 DEF Excused, SetStopped
    <2>4. CASE ~ SetStopped
      <3>1. stopped' = stopped
        BY <1>4, <2>4 DEF CloseInitialPool, StopPools, Peek, Remove, BecomesDue,
           GetRecordStart, GetRecordRead, GetRecordFails, ReconcileStart, RetryLater
      <3> QED BY <1>1, <2>1, <2>2, <3>1 DEF Excused
    <2> QED BY <2>3, <2>4
  <1>5. CASE \E s \in Stream : Register(s) \/ Promote(s)
    <2>1. /\ \A z \in Stream : local'[z] = local[z] \/ local'[z] = local[z] + 1
          /\ \A z \in Stream : record'[z] = record[z] \/ record'[z] = record[z] + 1
          /\ UNCHANGED <<stopped, panicked, raced, dropped>>
      BY <1>0, <1>5 DEF Register, Promote
    <2> QED BY <1>1, <2>1 DEF Excused
  <1>6. CASE \E t \in tasks : SyncOk(t)
    <2>1. PICK t \in tasks : SyncOk(t)
      BY <1>6
    <2>2. SyncedTo(local[t.stream], t.rec) >= local[t.stream]
      <3>1. local[t.stream] \in Int /\ t.rec \in Int
        BY <1>0, <1>1
      <3> QED BY <3>1 DEF SyncedTo, Later
    <2>3. \A z \in Stream : local'[z] = local[z] \/ (z = t.stream /\ local'[z] = SyncedTo(local[z], t.rec))
      BY <1>0, <2>1 DEF SyncOk
    <2> QED BY <1>1, <2>1, <2>2, <2>3 DEF SyncOk, Excused
  <1>7. CASE \E t \in tasks, err \in {"retry", "fatal"}, k \in Num : SyncFails(t, err, k)
    <2>1. PICK t \in tasks, err \in {"retry", "fatal"}, k \in Num : SyncFails(t, err, k)
      BY <1>7
    <2>2. k >= local[t.stream]
      BY <1>0, <1>1, <2>1 DEF SyncFails
    <2>3. \A z \in Stream : local'[z] = local[z] \/ (z = t.stream /\ local'[z] = k)
      BY <1>0, <2>1 DEF SyncFails
    <2> QED BY <1>1, <2>1, <2>2, <2>3 DEF SyncFails, Excused
  <1> QED BY <1>3, <1>4, <1>5, <1>6, <1>7 DEF Next, TaskStep

LEMMA DoneStep ==
    ASSUME TaskInv, DoneIsLocal, Next
    PROVE  DoneIsLocal'
  <1>0. /\ Num \subseteq Int /\ local \in [Stream -> Num]
        /\ \A t \in tasks : t \in Task /\ t.stream \in Stream /\ t.rec \in Num
    BY Numbers
  <1>1. local' \in [Stream -> Num]
    <2>1. TaskInv'
      BY TaskInvStep
    <2> QED BY <2>1 DEF TaskInv, Typed, TypeOK
  <1>2. \A s \in Stream : local'[s] >= local[s] /\ local[s] \in Int /\ local'[s] \in Int
    BY <1>0, <1>1, Grows
  <1>3. ASSUME NEW u \in tasks, NEW pc \in {"queued", "read", "submit", "sync", "done", "failed"},
               NEW rec \in Num
        PROVE  LET x == [u EXCEPT !.pc = pc, !.rec = rec]
               IN  x.kind = u.kind /\ x.pc = pc /\ x.rec = rec /\ x.stream = u.stream
    BY <1>0 DEF Task
  <1>4. \A k, s, p : NewTask(k, s, p).pc = "queued"
    BY DEF NewTask
  <1> SUFFICES ASSUME NEW t \in tasks', t.kind = "reconcile", t.pc = "done"
               PROVE  local'[t.stream] >= t.rec
    BY DEF DoneIsLocal
  <1>5. CASE t \in tasks
    <2>1. local[t.stream] >= t.rec /\ t.stream \in Stream /\ t.rec \in Int
      BY <1>0, <1>5 DEF DoneIsLocal
    <2> QED BY <1>2, <2>1
  <1>6. CASE t \notin tasks
    <2>1. CASE \/ \E s \in Stream : SubmitGetRecord(s) \/ SubmitRecord(s)
               \/ \E u \in tasks : GetRecordSubmit(u) \/ ReconcileDone(u)
               \/ Resubmit
      <3>1. ASSUME NEW kept \in SUBSET tasks, NEW pool, NEW ts, SubmitToPool(kept, pool, ts),
                   \A x \in ts : x.pc = "queued"
            PROVE  FALSE
        BY <1>6, <3>1 DEF SubmitToPool
      <3>2. ASSUME NEW kept \in SUBSET tasks, NEW s, NEW rec, NEW pool,
                   SubmitReconciliation(kept, s, rec, pool)
            PROVE  FALSE
        BY <1>4, <3>1, <3>2 DEF SubmitReconciliation
      <3>3. CASE \E s \in Stream : SubmitGetRecord(s)
        BY <1>4, <3>1, <3>3 DEF SubmitGetRecord
      <3>4. CASE \E u \in tasks : ReconcileDone(u)
        BY <1>4, <3>1, <3>4 DEF ReconcileDone
      <3> QED BY <2>1, <3>2, <3>3, <3>4 DEF SubmitRecord, GetRecordSubmit, Resubmit
    <2>2. CASE \/ CloseInitialPool \/ SetStopped \/ StopPools \/ Peek \/ Remove
               \/ \E s \in Stream : Register(s) \/ Promote(s)
               \/ \E i \in 1 .. Len(retry) : BecomesDue(i)
               \/ \E u \in tasks : GetRecordFails(u) \/ RetryLater(u)
      BY <1>6, <2>2 DEF CloseInitialPool, SetStopped, StopPools, Peek, Remove, Register, Promote,
         BecomesDue, GetRecordFails, RetryLater
    <2>3. CASE \E u \in tasks : GetRecordStart(u) \/ GetRecordRead(u)
      <3>1. PICK u \in tasks : GetRecordStart(u) \/ GetRecordRead(u)
        BY <2>3
      <3>2. PICK pc \in {"read", "submit"}, rec \in Num : t = [u EXCEPT !.pc = pc, !.rec = rec]
        <4>1. Nil \in Num /\ record[u.stream] \in Num
          BY <1>0, Numbers, ReconciliationAssumption DEF Num, Nil
        <4> QED BY <1>6, <3>1, <4>1 DEF GetRecordStart, GetRecordRead, Becomes
      <3> QED BY <1>3, <3>2
    <2>4. CASE \E u \in tasks : ReconcileStart(u)
      <3>1. PICK u \in tasks : ReconcileStart(u)
        BY <2>4
      <3>2. t = [u EXCEPT !.pc = "sync", !.rec = entry[u.stream].next] /\ entry[u.stream].next \in Num
        BY <1>0, <1>6, <3>1, Numbers DEF ReconcileStart, Becomes
      <3> QED BY <1>3, <3>2
    <2>5. CASE \E u \in tasks, err \in {"retry", "fatal"}, k \in Num : SyncFails(u, err, k)
      <3>1. PICK u \in tasks : t = [u EXCEPT !.pc = "failed", !.rec = u.rec]
        BY <1>6, <2>5 DEF SyncFails, Becomes
      <3> QED BY <1>0, <1>3, <3>1
    <2>6. CASE \E u \in tasks : SyncOk(u)
      <3>1. PICK u \in tasks : SyncOk(u)
        BY <2>6
      <3>2. t = [u EXCEPT !.pc = "done", !.rec = u.rec]
        BY <1>6, <3>1 DEF SyncOk, Becomes
      <3>3. t.rec = u.rec /\ t.stream = u.stream
        BY <1>0, <1>3, <3>2
      <3>4. local'[u.stream] = SyncedTo(local[u.stream], u.rec)
        BY <1>0, <3>1 DEF SyncOk
      <3>5. u.rec \in Int /\ local[u.stream] \in Int
        BY <1>0, <1>2
      <3> QED BY <3>3, <3>4, <3>5 DEF SyncedTo, Later
    <2> QED BY <2>1, <2>2, <2>3, <2>4, <2>5, <2>6 DEF Next, TaskStep
  <1> QED BY <1>5, <1>6

LEMMA WantedStep ==
    ASSUME TaskInv, WantedExists, Next
    PROVE  WantedExists'
  <1>0. /\ wanted \in [Stream -> Num] /\ record \in [Stream -> Num] /\ Num \subseteq Int
    BY Numbers
  <1>1. record' \in [Stream -> Num]
    <2>1. TaskInv'
      BY TaskInvStep
    <2> QED BY <2>1 DEF TaskInv, Typed, TypeOK
  <1>2. \A s \in Stream : record'[s] >= record[s]
    BY Grows
  <1>3. \A s \in Stream : wanted'[s] = wanted[s] \/ wanted'[s] = record[s]
    <2>1. CASE \E s \in Stream : SubmitGetRecord(s) \/ SubmitRecord(s)
      <3>1. PICK s \in Stream : wanted' = [wanted EXCEPT ![s] = record[s]]
        BY <2>1 DEF SubmitGetRecord, SubmitRecord
      <3> QED BY <1>0, <3>1
    <2>2. CASE ~ \E s \in Stream : SubmitGetRecord(s) \/ SubmitRecord(s)
      <3>1. wanted' = wanted
        BY <2>2 DEF Next, TaskStep, CloseInitialPool, SetStopped, StopPools, Peek, Remove, Register,
           Promote, BecomesDue, GetRecordStart, GetRecordRead, GetRecordFails, GetRecordSubmit,
           ReconcileStart, SyncOk, SyncFails, RetryLater, ReconcileDone, Resubmit
      <3> QED BY <3>1
    <2> QED BY <2>1, <2>2
  <1>4. ASSUME NEW s \in Stream PROVE wanted'[s] <= record'[s]
    <2>1. wanted[s] \in Int /\ record[s] \in Int /\ record'[s] \in Int /\ wanted[s] <= record[s]
      BY <1>0, <1>1 DEF WantedExists
    <2> QED BY <1>2, <1>3, <2>1
  <1> QED BY <1>4 DEF WantedExists

(* A number leaves an entry when the stream has reached it, or for the     *)
(* tasks to retry.                                                         *)
LEMMA EntryStays ==
    ASSUME TaskInv, DoneIsLocal, Next, NEW s \in Stream, NEW k \in Num, InEntry(s, k)
    PROVE  \/ InEntry(s, k)' \/ local'[s] >= k
           \/ InRetry(s, k)' /\ \E t \in tasks : t.stream = s /\ RetryLater(t)
  <1>0. /\ Num \subseteq Int /\ entry \in [Stream -> Entry] /\ retry \in Seq(Item)
        /\ \A z \in Stream : entry[z].inProgress \in Num /\ entry[z].next \in Num /\ entry[z] \in Entry
        /\ \A z \in Stream : record[z] \in Num /\ local[z] \in Num
        /\ \A t \in tasks : t \in Task /\ t.stream \in Stream /\ t.rec \in Num /\ t.pool \in Pool
        /\ \A i \in 1 .. Len(retry) : retry[i].num # Nil
    BY Numbers
  <1>1. \A n \in Num : n >= Nil /\ n \in Int
    BY ReconciliationAssumption DEF Num, Nil
  <1>2. \A z \in Stream : local'[z] >= local[z] /\ local'[z] \in Num
    <2>1. TaskInv'
      BY TaskInvStep
    <2>2. local' \in [Stream -> Num]
      BY <2>1 DEF TaskInv, Typed, TypeOK
    <2> QED BY <2>2, Grows
  <1>3. Nil >= k => local'[s] >= k
    BY <1>1, <1>2 DEF Nil
  <1>4. ASSUME NEW z \in Stream, NEW rec \in Num, rec # Nil, entry' = [entry EXCEPT ![z] = Merged(@, rec)]
        PROVE  InEntry(s, k)'
    <2>1. entry'[s] = entry[s] \/ entry'[s] = Merged(entry[s], rec)
      BY <1>0, <1>4
    <2>2. /\ Merged(entry[s], rec) \in Entry
          /\ Merged(entry[s], rec).inProgress = entry[s].inProgress
          /\ Merged(entry[s], rec).next >= entry[s].next
      BY <1>0, <1>4, MergedFacts
    <2>3. Merged(entry[s], rec).next \in Int
      BY <1>1, <2>2 DEF Entry
    <2>4. CASE entry'[s] = entry[s]
      BY <2>4 DEF InEntry
    <2>5. CASE entry'[s] = Merged(entry[s], rec)
      <3>1. entry[s].next \in Int /\ k \in Int
        BY <1>0, <1>1
      <3>2. entry'[s].inProgress = entry[s].inProgress /\ (entry[s].next >= k => entry'[s].next >= k)
        BY <2>2, <2>3, <2>5, <3>1
      <3> QED BY <3>2 DEF InEntry
    <2> QED BY <2>1, <2>4, <2>5
  <1>5. CASE \/ \E z \in Stream : SubmitRecord(z)
             \/ \E t \in tasks : GetRecordSubmit(t)
             \/ Resubmit
    <2>1. CASE \E z \in Stream : SubmitRecord(z)
      BY <1>0, <1>4, <2>1 DEF SubmitRecord, SubmitReconciliation, TaskInv, Typed
    <2>2. CASE \E t \in tasks : GetRecordSubmit(t)
      BY <1>0, <1>4, <2>2 DEF GetRecordSubmit, SubmitReconciliation, TaskInv, Typed, Runs
    <2>3. CASE Resubmit
      <3>1. retrier.stream \in Stream /\ retrier.num # Nil /\ retrier.num \in Num
        BY <2>3 DEF Resubmit, TaskInv, Typed, Retrier
      <3> QED BY <1>4, <2>3, <3>1 DEF Resubmit, SubmitReconciliation
    <2> QED BY <1>5, <2>1, <2>2, <2>3
  <1>6. CASE \E t \in tasks : ReconcileStart(t)
    <2>1. PICK t \in tasks : ReconcileStart(t)
      BY <1>6
    <2>2. CASE t.stream = s
      <3>1. entry'[s] = [inProgress |-> entry[s].next, next |-> Nil] /\ entry[s].inProgress = Nil
        BY <1>0, <2>1, <2>2 DEF ReconcileStart
      <3> QED BY <1>3, <3>1 DEF InEntry
    <2>3. CASE t.stream # s
      BY <1>0, <2>1, <2>3 DEF ReconcileStart, InEntry
    <2> QED BY <2>2, <2>3
  <1>7. CASE \E t \in tasks : ReconcileDone(t)
    <2>1. PICK t \in tasks : ReconcileDone(t)
      BY <1>7
    <2>2. CASE t.stream = s
      <3>1. entry'[s] = AfterSuccess(entry[s]) /\ entry[s].inProgress = t.rec
        BY <1>0, <2>1, <2>2 DEF ReconcileDone
      <3>2. entry'[s].next = entry[s].next
        BY <1>0, <3>1 DEF AfterSuccess, Entry
      <3>3. local[s] >= entry[s].inProgress
        BY <2>1, <2>2, <3>1 DEF DoneIsLocal, ReconcileDone, Runs
      <3>4. entry[s].inProgress >= k => local'[s] >= k
        <4>1. /\ entry[s].inProgress \in Int /\ k \in Int /\ local[s] \in Int
              /\ local'[s] \in Int /\ local'[s] >= local[s]
          BY <1>0, <1>1, <1>2
        <4> QED BY <3>3, <4>1
      <3> QED BY <3>2, <3>4 DEF InEntry
    <2>3. CASE t.stream # s
      BY <1>0, <2>1, <2>3 DEF ReconcileDone, InEntry
    <2> QED BY <2>2, <2>3
  <1>8. CASE \E t \in tasks : RetryLater(t)
    <2>1. PICK t \in tasks : RetryLater(t)
      BY <1>8
    <2>2. CASE t.stream = s
      <3> DEFINE rec == RecordToRetry(entry[s], t.rec)
      <3>1. retry' = AddRetry(retry, s, rec) /\ Fits(t) /\ t.pc = "failed"
        BY <2>1, <2>2 DEF RetryLater, Runs, TaskInv
      <3>2. t.rec \in Int /\ entry[s].inProgress \in Int /\ entry[s].next \in Int
        BY <1>0, <1>1
      <3>3. rec \in Num /\ rec >= t.rec /\ rec >= entry[s].inProgress /\ rec >= entry[s].next
        <4>1. entry[s].inProgress = t.rec
          BY <2>2, <3>1 DEF Fits
        <4> QED BY <1>0, <3>2, <4>1 DEF RecordToRetry, Later
      <3>4. rec # Nil
        <4>1. t.rec # Nil
          BY <3>1 DEF Fits
        <4>2. t.rec >= Nil /\ rec \in Int
          BY <1>0, <1>1, <3>3
        <4> HIDE DEF rec
        <4> QED BY <3>2, <3>3, <4>1, <4>2 DEF Nil
      <3> HIDE DEF rec
      <3>5. PICK i \in 1 .. Len(retry') : retry'[i].stream = s /\ retry'[i].num >= rec
        BY <1>0, <3>1, <3>3, <3>4, AddRetryFacts
      <3>6. retry'[i].num \in Int
        <4>1. retry' \in Seq(Item)
          BY <1>0, <3>1, <3>3, <3>4, AddRetryFacts
        <4>2. retry'[i] \in Item
          BY <4>1
        <4> QED BY <1>1, <4>2 DEF Item
      <3>7. rec >= k /\ rec \in Int /\ k \in Int
        BY <1>1, <3>2, <3>3 DEF InEntry
      <3>8. retry'[i].num >= k
        BY <3>5, <3>6, <3>7
      <3> QED BY <2>1, <2>2, <3>5, <3>8 DEF InRetry
    <2>3. CASE t.stream # s
      BY <1>0, <2>1, <2>3 DEF RetryLater, InEntry
    <2> QED BY <2>2, <2>3
  <1>9. CASE entry' = entry
    BY <1>9 DEF InEntry
  <1> QED BY <1>5, <1>6, <1>7, <1>8, <1>9 DEF Next, TaskStep, CloseInitialPool, SetStopped, StopPools,
         Peek, Remove, Register, Promote, SubmitGetRecord, BecomesDue, GetRecordStart, GetRecordRead,
         GetRecordFails, SyncOk, SyncFails

(* A task that reads the record serves every number up to it. *)
LEMMA TaskStays ==
    ASSUME TaskInv, Next, NEW s \in Stream, NEW k \in Num, k <= record[s], InTask(s, k)
    PROVE  InTask(s, k)' \/ InEntry(s, k)' \/ Excused(s)'
  <1>0. /\ Num \subseteq Int /\ entry \in [Stream -> Entry] /\ entry[s] \in Entry /\ record[s] \in Num
        /\ \A t \in tasks : t \in Task /\ t.stream \in Stream /\ t.rec \in Num
    BY Numbers
  <1>1. PICK t \in tasks : t.stream = s /\ t.kind = "getRecord" /\ (t.pc = "read" \/ t.rec >= k)
    BY DEF InTask
  <1>2. CASE t \in tasks'
    BY <1>1, <1>2 DEF InTask
  <1>3. ASSUME NEW pc \in {"queued", "read", "submit", "sync", "done", "failed"}, NEW rec \in Num
        PROVE  LET x == [t EXCEPT !.pc = pc, !.rec = rec]
               IN  x.kind = "getRecord" /\ x.pc = pc /\ x.rec = rec /\ x.stream = s
    BY <1>0, <1>1 DEF Task
  <1>4. CASE GetRecordStart(t)
    <2> DEFINE x == [t EXCEPT !.pc = "read", !.rec = Nil]
    <2>1. x \in tasks'
      BY <1>4 DEF GetRecordStart, Becomes
    <2>2. Nil \in Num
      BY ReconciliationAssumption DEF Num, Nil
    <2>3. x.kind = "getRecord" /\ x.pc = "read" /\ x.stream = s
      BY <1>3, <2>2
    <2> HIDE DEF x
    <2> QED BY <2>1, <2>3 DEF InTask
  <1>5. CASE GetRecordRead(t)
    <2>1. PICK x : x = [t EXCEPT !.pc = "submit", !.rec = record[s]]
      OBVIOUS
    <2>2. x \in tasks'
      BY <1>1, <1>5, <2>1 DEF GetRecordRead, Becomes
    <2>3. x.kind = "getRecord" /\ x.rec >= k /\ x.stream = s
      <3>1. x.kind = "getRecord" /\ x.rec = record[s] /\ x.stream = s
        BY <1>0, <1>3, <2>1
      <3>2. record[s] >= k
        BY <1>0
      <3> QED BY <3>1, <3>2
    <2> QED BY <2>2, <2>3 DEF InTask
  <1>6. CASE GetRecordFails(t)
    BY <1>1, <1>6 DEF GetRecordFails, Excused
  <1>7. CASE GetRecordSubmit(t)
    <2>1. t.pc = "submit" /\ t.rec # Nil /\ t.rec >= k /\ t.rec \in Num
      BY <1>0, <1>1, <1>7 DEF GetRecordSubmit, Runs, TaskInv, Typed
    <2>2. entry'[s] = Merged(entry[s], t.rec)
      BY <1>0, <1>1, <1>7 DEF GetRecordSubmit, SubmitReconciliation
    <2>3. entry'[s] \in Entry /\ (entry'[s].inProgress >= t.rec \/ entry'[s].next >= t.rec)
      BY <1>0, <2>1, <2>2, MergedFacts
    <2>4. entry'[s].inProgress \in Int /\ entry'[s].next \in Int /\ t.rec \in Int /\ k \in Int
      BY <1>0, <2>1, <2>3 DEF Entry
    <2>5. entry'[s].inProgress >= k \/ entry'[s].next >= k
      BY <2>1, <2>3, <2>4
    <2> QED BY <2>5 DEF InEntry
  <1>8. CASE /\ t \notin tasks' /\ ~ GetRecordStart(t) /\ ~ GetRecordRead(t)
             /\ ~ GetRecordFails(t) /\ ~ GetRecordSubmit(t)
    <2>1. ASSUME NEW kept, t \in kept, NEW pool, NEW ts, SubmitToPool(kept, pool, ts) PROVE FALSE
      BY <1>8, <2>1 DEF SubmitToPool
    <2>2. CASE \/ \E z \in Stream : SubmitGetRecord(z) \/ SubmitRecord(z)
               \/ \E u \in tasks : GetRecordSubmit(u) \/ ReconcileDone(u)
               \/ Resubmit
      BY <1>1, <1>8, <2>1, <2>2 DEF SubmitGetRecord, SubmitRecord, GetRecordSubmit, ReconcileDone,
         Resubmit, SubmitReconciliation, Runs
    <2>3. CASE StopPools
      BY <2>3 DEF StopPools, Excused
    <2>4. CASE \E u \in tasks : \/ GetRecordStart(u) \/ GetRecordRead(u) \/ GetRecordFails(u)
                              \/ ReconcileStart(u) \/ SyncOk(u) \/ RetryLater(u)
                              \/ \E err \in {"retry", "fatal"}, n \in Num : SyncFails(u, err, n)
      <3>1. PICK u \in tasks : \/ GetRecordStart(u) \/ GetRecordRead(u) \/ GetRecordFails(u)
                              \/ ReconcileStart(u) \/ SyncOk(u) \/ RetryLater(u)
                              \/ \E err \in {"retry", "fatal"}, n \in Num : SyncFails(u, err, n)
        BY <2>4
      <3>2. u # t
        BY <1>1, <1>8, <3>1 DEF ReconcileStart, SyncOk, RetryLater, SyncFails, Runs
      <3> QED BY <1>8, <3>1, <3>2 DEF GetRecordStart, GetRecordRead, GetRecordFails, ReconcileStart,
                 SyncOk, RetryLater, SyncFails, Becomes
    <2>5. CASE tasks' = tasks
      BY <1>8, <2>5
    <2> QED BY <2>2, <2>3, <2>4, <2>5 DEF Next, TaskStep, CloseInitialPool, SetStopped, Register,
           Promote, BecomesDue, Peek, Remove
  <1> QED BY <1>2, <1>4, <1>5, <1>6, <1>7, <1>8

(* What the retry loop removes was taken over. *)
LEMMA RetryStays ==
    ASSUME TaskInv, TakenOver, Next, NEW s \in Stream, NEW k \in Num, InRetry(s, k)
    PROVE  InRetry(s, k)' \/ InEntry(s, k)' \/ local'[s] >= k \/ Excused(s)'
  <1>0. /\ Num \subseteq Int /\ retry \in Seq(Item)
        /\ \A i \in 1 .. Len(retry) : retry[i].num # Nil /\ retry[i].num \in Num
        /\ \A t \in tasks : t.stream \in Stream /\ t.rec \in Num
        /\ \A z \in Stream : /\ entry[z].inProgress \in Num /\ entry[z].next \in Num
                            /\ local[z] \in Num
    BY Numbers
  <1>1. PICK j \in 1 .. Len(retry) : retry[j].stream = s /\ retry[j].num >= k
    BY DEF InRetry
  <1>2. CASE \E t \in tasks : RetryLater(t)
    <2>1. PICK t \in tasks : RetryLater(t)
      BY <1>2
    <2> DEFINE rec == RecordToRetry(entry[t.stream], t.rec)
    <2>2. retry' = AddRetry(retry, t.stream, rec) /\ Fits(t) /\ t.pc = "failed"
      BY <2>1 DEF RetryLater, Runs, TaskInv
    <2>3. rec \in Num /\ rec # Nil
      <3>1. t.rec # Nil
        BY <2>2 DEF Fits
      <3> QED BY <1>0, <3>1, ReconciliationAssumption DEF RecordToRetry, Later, Num, Nil
    <2> HIDE DEF rec
    <2>4. /\ retry' \in Seq(Item) /\ Len(retry') >= Len(retry)
          /\ retry'[j].stream = retry[j].stream /\ retry'[j].num >= retry[j].num
      BY <1>0, <2>2, <2>3, AddRetryFacts
    <2>5. j \in 1 .. Len(retry')
      BY <1>0, <2>4
    <2>6. retry'[j].num \in Int /\ retry[j].num \in Int /\ k \in Int
      <3>1. retry'[j] \in Item
        BY <2>4, <2>5
      <3> QED BY <1>0, <3>1 DEF Item
    <2>7. retry'[j].num >= k
      BY <1>1, <2>4, <2>6
    <2> QED BY <1>1, <2>4, <2>5, <2>7 DEF InRetry
  <1>3. CASE \E i \in 1 .. Len(retry) : BecomesDue(i)
    <2>1. PICK i \in 1 .. Len(retry) : retry' = [retry EXCEPT ![i].due = TRUE]
      BY <1>3 DEF BecomesDue
    <2>2. \A x \in 1 .. Len(retry) : retry[x] \in Item
      BY <1>0
    <2>3. retry'[j].stream = retry[j].stream /\ retry'[j].num = retry[j].num
      BY <1>0, <2>1, <2>2 DEF Item
    <2>4. Len(retry') = Len(retry)
      BY <1>0, <2>1
    <2> QED BY <1>1, <2>3, <2>4 DEF InRetry
  <1>4. CASE Remove
    <2>1. /\ retry' = RemoveRetry(retry, retrier) /\ retrier.pc = "remove"
          /\ UNCHANGED <<local, entry, stopped, panicked, raced, dropped>>
      BY <1>4 DEF Remove
    <2>2. retrier \in Retrier /\ retrier.stream \in Stream /\ retrier.num \in Num
      BY <2>1 DEF TaskInv, Typed, Retrier
    <2>3. CASE \E i \in 1 .. Len(retry') : retry'[i] = retry[j]
      BY <1>1, <2>3 DEF InRetry
    <2>4. CASE retry[j].stream = retrier.stream /\ retry[j].num <= retrier.num
      <3>1. s = retrier.stream /\ retrier.num >= k /\ retrier.num \in Int /\ k \in Int
        <4>1. retry[j].num \in Int /\ retrier.num \in Int /\ k \in Int
          BY <1>0, <2>2
        <4>2. retry[j].num >= k /\ retry[j].num <= retrier.num
          BY <1>1, <2>4
        <4>3. retrier.num >= k
          BY <4>1, <4>2
        <4> QED BY <1>1, <2>4, <4>1, <4>3
      <3>2. Excused(s) \/ local[s] >= retrier.num \/ entry[s].inProgress >= retrier.num
                \/ entry[s].next >= retrier.num
        BY <2>1, <3>1 DEF TakenOver
      <3>3. local[s] \in Int /\ entry[s].inProgress \in Int /\ entry[s].next \in Int
        BY <1>0
      <3>4. Excused(s) \/ local[s] >= k \/ entry[s].inProgress >= k \/ entry[s].next >= k
        BY <3>1, <3>2, <3>3
      <3> QED BY <2>1, <3>4 DEF InEntry, Excused
    <2> QED BY <1>0, <2>1, <2>2, <2>3, <2>4, RemoveRetryFacts
  <1>5. CASE retry' = retry
    BY <1>5 DEF InRetry
  <1> QED BY <1>2, <1>3, <1>4, <1>5 DEF Next, TaskStep, CloseInitialPool, SetStopped, StopPools,
         Peek, Register, Promote, SubmitGetRecord, SubmitRecord, GetRecordStart, GetRecordRead,
         GetRecordFails, GetRecordSubmit, ReconcileStart, SyncOk, SyncFails, ReconcileDone, Resubmit

LEMMA TakenOverStep ==
    ASSUME TaskInv, DoneIsLocal, TakenOver, Next
    PROVE  TakenOver'
  <1>0. /\ Num \subseteq Int /\ entry \in [Stream -> Entry]
        /\ \A z \in Stream : local[z] \in Num /\ entry[z] \in Entry
    BY Numbers
  <1>1. CASE Resubmit
    <2>1. /\ retrier.stream \in Stream /\ retrier.num \in Num /\ retrier.num # Nil
          /\ retrier'.stream = retrier.stream /\ retrier'.num = retrier.num
      BY <1>1 DEF Resubmit, TaskInv, Typed, Retrier
    <2>2. entry'[retrier.stream] = Merged(entry[retrier.stream], retrier.num)
      BY <1>0, <1>1, <2>1 DEF Resubmit, SubmitReconciliation
    <2>3. \/ entry'[retrier.stream].inProgress >= retrier.num
          \/ entry'[retrier.stream].next >= retrier.num
      BY <1>0, <2>1, <2>2, MergedFacts
    <2> QED BY <2>1, <2>3 DEF TakenOver
  <1>2. CASE retrier' = retrier /\ retrier.pc = "remove"
    <2> DEFINE s == retrier.stream
               k == retrier.num
    <2>1. s \in Stream /\ k \in Num
      BY <1>2 DEF TaskInv, Typed, Retrier
    <2>2. local'[s] >= local[s] /\ (Excused(s) => Excused(s)')
      <3>1. \A z : Excused(z) => Excused(z)'
        BY Grows
      <3>2. local'[s] >= local[s]
        BY <2>1, Grows
      <3> QED BY <1>2, <3>1, <3>2 DEF Excused
    <2>3. local[s] \in Int /\ local'[s] \in Int /\ k \in Int
      <3>1. TaskInv'
        BY TaskInvStep
      <3>2. local' \in [Stream -> Num]
        BY <3>1 DEF TaskInv, Typed, TypeOK
      <3> QED BY <1>0, <2>1, <3>2
    <2>4. CASE Excused(s)
      BY <1>2, <2>2, <2>4 DEF TakenOver, Excused
    <2>5. CASE local[s] >= k
      BY <1>2, <2>2, <2>3, <2>5 DEF TakenOver
    <2>6. CASE InEntry(s, k)
      <3>1. PICK z \in Stream, n \in Num : z = s /\ n = k
        BY <2>1
      <3>2. \/ InEntry(z, n)' \/ local'[z] >= n
            \/ InRetry(z, n)' /\ \E t \in tasks : t.stream = z /\ RetryLater(t)
        BY <2>6, <3>1, EntryStays
      <3>3. CASE \E t \in tasks : t.stream = z /\ RetryLater(t)
        <4>1. z \in raced'
          BY <1>2, <3>1, <3>3 DEF RetryLater
        <4> QED BY <1>2, <3>1, <4>1 DEF TakenOver, Excused
      <3>4. CASE InEntry(z, n)' \/ local'[z] >= n
        BY <1>2, <3>1, <3>4 DEF TakenOver, InEntry
      <3> QED BY <3>2, <3>3, <3>4
    <2> QED BY <1>2, <2>4, <2>5, <2>6 DEF TakenOver, InEntry
  <1>3. CASE retrier'.pc # "remove"
    BY <1>3 DEF TakenOver
  <1>4. CASE Peek \/ Remove
    BY <1>3, <1>4 DEF Peek, Remove, Idle
  <1>5. CASE retrier' = retrier
    BY <1>2, <1>3, <1>5
  <1> QED BY <1>1, <1>4, <1>5 DEF Next, TaskStep, CloseInitialPool, SetStopped, StopPools,
         Register, Promote, SubmitGetRecord, SubmitRecord, BecomesDue, GetRecordStart, GetRecordRead,
         GetRecordFails, GetRecordSubmit, ReconcileStart, SyncOk, SyncFails, RetryLater, ReconcileDone

(* A number that exists stays underway until it is there. *)
LEMMA UnderwayStays ==
    ASSUME LostInv, Next, NEW s \in Stream, NEW k \in Num, k <= record[s], Underway(s, k)
    PROVE  Underway(s, k)' \/ Excused(s)'
  <1>1. CASE local[s] >= k
    <2>1. local'[s] >= local[s]
      BY Grows DEF LostInv
    <2>2. local[s] \in Int /\ local'[s] \in Int /\ k \in Int
      <3>1. TaskInv'
        BY TaskInvStep DEF LostInv
      <3>2. local' \in [Stream -> Num]
        BY <3>1 DEF TaskInv, Typed, TypeOK
      <3> QED BY <3>2, Numbers DEF LostInv
    <2>3. local'[s] >= k
      BY <1>1, <2>1, <2>2
    <2> QED BY <2>3 DEF Underway
  <1>2. CASE s \in scheduled
    <2>1. CASE \E t \in tasks : GetRecordStart(t) /\ t.stream = s
      <3>1. PICK t \in tasks : GetRecordStart(t) /\ t.stream = s
        BY <2>1
      <3> DEFINE x == [t EXCEPT !.pc = "read", !.rec = Nil]
      <3>2. t \in Task /\ t.kind = "getRecord" /\ x \in tasks'
        BY <3>1, Numbers DEF LostInv, GetRecordStart, Becomes, Runs
      <3>3. x.kind = "getRecord" /\ x.pc = "read" /\ x.stream = s
        BY <3>1, <3>2 DEF Task
      <3> HIDE DEF x
      <3> QED BY <3>2, <3>3 DEF Underway
    <2>2. CASE ~ \E t \in tasks : GetRecordStart(t) /\ t.stream = s
      <3>1. s \in scheduled'
        BY <1>2, <2>2 DEF Next, TaskStep, CloseInitialPool, SetStopped, StopPools, Peek, Remove,
           Register, Promote, SubmitGetRecord, SubmitRecord, BecomesDue, GetRecordStart, Unscheduled,
           GetRecordRead, GetRecordFails, GetRecordSubmit, ReconcileStart, SyncOk, SyncFails,
           RetryLater, ReconcileDone, Resubmit
      <3> QED BY <3>1 DEF Underway
    <2> QED BY <2>1, <2>2
  <1>3. CASE InEntry(s, k)
    <2>1. InEntry(s, k)' \/ local'[s] >= k \/ InRetry(s, k)'
      BY <1>3, EntryStays DEF LostInv
    <2> QED BY <2>1 DEF Underway, InEntry, InRetry
  <1>4. CASE InTask(s, k)
    <2>1. InTask(s, k)' \/ InEntry(s, k)' \/ Excused(s)'
      BY <1>4, TaskStays DEF LostInv
    <2> QED BY <2>1 DEF Underway, InEntry, InTask
  <1>5. CASE InRetry(s, k)
    <2>1. InRetry(s, k)' \/ InEntry(s, k)' \/ local'[s] >= k \/ Excused(s)'
      BY <1>5, RetryStays DEF LostInv
    <2> QED BY <2>1 DEF Underway, InEntry, InRetry
  <1> QED BY <1>1, <1>2, <1>3, <1>4, <1>5 DEF Underway, InEntry, InTask, InRetry

LEMMA LostInvStep == LostInv /\ [Next]_vars => LostInv'
  <1> SUFFICES ASSUME LostInv, [Next]_vars PROVE LostInv'
    OBVIOUS
  <1>1. CASE vars' = vars
    <2>1. TaskInv'
      BY TaskInvStep DEF LostInv
    <2> QED BY <1>1, <2>1 DEF LostInv, DoneIsLocal, WantedExists, NothingLost, TakenOver, Excused,
               Underway, vars
  <1>2. CASE Next
    <2>1. TaskInv' /\ DoneIsLocal' /\ WantedExists' /\ TakenOver'
      BY <1>2, TaskInvStep, DoneStep, WantedStep, TakenOverStep DEF LostInv
    <2>2. ASSUME NEW s \in Stream PROVE Underway(s, wanted[s])' \/ Excused(s)'
      <3>0. /\ wanted \in [Stream -> Num] /\ record[s] \in Num /\ Num \subseteq Int
            /\ entry \in [Stream -> Entry] /\ entry[s] \in Entry
        BY Numbers DEF LostInv
      <3>1. CASE wanted'[s] = wanted[s]
        <4>1. PICK k \in Num : k = wanted[s] /\ k <= record[s]
          BY <3>0 DEF LostInv, WantedExists
        <4>2. CASE Excused(s)
          BY <1>2, <4>2, Grows DEF LostInv
        <4>3. CASE Underway(s, k)
          <5>1. Underway(s, k)' \/ Excused(s)'
            BY <1>2, <4>1, <4>3, UnderwayStays
          <5> QED BY <3>1, <4>1, <5>1 DEF Underway
        <4> QED BY <4>1, <4>2, <4>3 DEF LostInv, NothingLost
      <3>2. CASE SubmitGetRecord(s)
        BY <3>2 DEF SubmitGetRecord, Underway
      <3>3. CASE SubmitRecord(s)
        <4>1. wanted'[s] = record[s] /\ entry'[s] = Merged(entry[s], record[s]) /\ record[s] # Nil
          BY <3>0, <3>3 DEF SubmitRecord, SubmitReconciliation, LostInv, TaskInv, Typed
        <4>2. entry'[s].inProgress >= wanted'[s] \/ entry'[s].next >= wanted'[s]
          BY <3>0, <4>1, MergedFacts
        <4> QED BY <4>2 DEF Underway
      <3>4. CASE \E z \in Stream \ {s} : SubmitGetRecord(z) \/ SubmitRecord(z)
        BY <3>0, <3>1, <3>4 DEF SubmitGetRecord, SubmitRecord
      <3>5. CASE wanted' = wanted
        BY <3>1, <3>5
      <3> QED BY <1>2, <3>2, <3>3, <3>4, <3>5 DEF Next, TaskStep, CloseInitialPool, SetStopped,
             StopPools, Peek, Remove, Register, Promote, BecomesDue, GetRecordStart, GetRecordRead,
             GetRecordFails, GetRecordSubmit, ReconcileStart, SyncOk, SyncFails, RetryLater,
             ReconcileDone, Resubmit
    <2> QED BY <2>1, <2>2 DEF LostInv, NothingLost
  <1> QED BY <1>1, <1>2

(* A requested record is never lost between the maps, the pools and the    *)
(* tasks to retry, but for the race of the retry loop with a failing task, *)
(* an error that is not retried, and a shutdown.                           *)
THEOREM LostTheorem == Spec => []LostOnlyInRetryLoop
  <1>1. Init => LostInv
    <2> SUFFICES ASSUME Init PROVE LostInv
      OBVIOUS
    <2>1. TaskInv
      BY TaskInvInit
    <2>2. DoneIsLocal
      BY DEF Init, DoneIsLocal, NewTask
    <2>3. WantedExists
      <3>1. ASSUME NEW s \in Stream PROVE wanted[s] <= record[s]
        BY DEF Init, Nil
      <3> QED BY <3>1 DEF WantedExists
    <2>4. NothingLost
      <3>1. ASSUME NEW s \in Stream PROVE local[s] >= wanted[s] \/ entry[s].next >= wanted[s]
        BY DEF Init, Merged, NotLoaded, Nil
      <3> QED BY <3>1 DEF NothingLost, Underway
    <2>5. TakenOver
      BY DEF Init, TakenOver, Idle
    <2> QED BY <2>1, <2>2, <2>3, <2>4, <2>5 DEF LostInv
  <1>2. LostInv => LostOnlyInRetryLoop
    BY DEF LostInv, NothingLost, LostOnlyInRetryLoop, Excused
  <1> QED BY <1>1, <1>2, LostInvStep, PTL DEF Spec
============================================================================

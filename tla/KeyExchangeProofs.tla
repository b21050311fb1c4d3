------------------------- MODULE KeyExchangeProofs -------------------------
(* Proofs about KeyExchange, for any number of devices, sessions, messages,    *)
(* solicitations and faults.                                                   *)
(*                                                                             *)
(* The argument follows a session from the solicitation to the device: what a  *)
(* fulfillment takes off the solicitation is part of what its sender goes on   *)
(* to send, what was sent is imported or still in the queue, and only what was *)
(* imported is acknowledged, so that a restart takes the rest again.           *)
EXTENDS KeyExchange, TLAPS

(* A step that names no prover is tried with these, in this order. *)
USE ZenonT(3), SMTT(20), SMTT(21), ZenonT(20)

Jobs == {Idle} \cup [at : {"fulfill", "share"}, reply : SUBSET Session, ids : SUBSET Session]

Askers == {Idle} \cup [at : {"import"}, ids : SUBSET Session]
            \cup [at : {"ask"}, ids : SUBSET Session, isNew : BOOLEAN]

\* The types the argument needs.
Typed ==
    /\ inbox \in Seq(SUBSET Session)
    /\ acked \in Nat /\ done \in Nat /\ acked <= done /\ done <= Len(inbox)
    /\ known \in [Responder -> SUBSET Session]
    /\ job \in [Responder -> Jobs]
    /\ asker \in Askers

\* A fulfillment takes nothing off the solicitation that is not sent.
JobsFit == \A r \in Responder : job[r].at # "idle" => job[r].ids \subseteq job[r].reply

\* Messages taken off the queue are imported, but for the one in progress, which is
\* not acknowledged.
TakenIsImported ==
    /\ asker.at = "import" => acked < done /\ asker.ids = inbox[done]
    /\ \A i \in 1 .. done :
          inbox[i] \subseteq keys \cup lost \/ (asker.at = "import" /\ i = done)

\* FulfilledIsShared, with what the device that answers took off the solicitation.
Covered(s) ==
    \/ s \in request.ids \/ s \in keys \/ s \in lost
    \/ \E r \in Responder : job[r].at = "share" /\ s \in job[r].ids
    \/ \E i \in (done + 1) .. Len(inbox) : s \in inbox[i]
    \/ asker.at = "import" /\ s \in asker.ids

KeysInv == Typed /\ JobsFit /\ TakenIsImported /\ \A s \in asked : Covered(s)

----------------------------------------------------------------------------
LEMMA KeysInvInit == ASSUME Init PROVE KeysInv
  <1>1. known \in [Responder -> SUBSET Session]
    BY ExchangeAssumption DEF Init
  <1> QED BY <1>1 DEF Init, KeysInv, Typed, JobsFit, TakenIsImported, Jobs, Askers, Idle

\* The variables of the argument that are not those of the stream.
keysCore == <<inbox, acked, done, known, job, asker, keys, lost, asked>>

\* Steps that only deliver events and messages, or count failures.
LEMMA OthersKeepKeys ==
    ASSUME \/ \E s \in Session : NewContent(s) \/ ProcessContent(s)
           \/ RetryDecryptionFailures \/ \E d \in Device : Sync(d)
           \/ vars' = vars
    PROVE  UNCHANGED keysCore /\ UNCHANGED request
  <1>1. CASE \E s \in Session : NewContent(s)
    BY <1>1 DEF NewContent, keysCore, streamVars, inboxVars, answerVars, ghosts
  <1>2. CASE \E s \in Session : ProcessContent(s)
    BY <1>2 DEF ProcessContent, keysCore, streamVars, inboxVars, answerVars, ghosts
  <1>3. CASE RetryDecryptionFailures
    BY <1>3 DEF RetryDecryptionFailures, keysCore, streamVars, inboxVars, answerVars, ghosts
  <1>4. CASE \E d \in Device : Sync(d)
    BY <1>4 DEF Sync, keysCore, streamVars, deviceVars, inboxVars, ghosts
  <1>5. CASE vars' = vars
    BY <1>5 DEF vars, keysCore, streamVars, deviceVars, inboxVars, answerVars, ghosts
  <1> QED BY <1>1, <1>2, <1>3, <1>4, <1>5

LEMMA KeysUnchanged ==
    ASSUME KeysInv, UNCHANGED keysCore, UNCHANGED request PROVE KeysInv'
  BY DEF KeysInv, keysCore, Typed, JobsFit, TakenIsImported, Covered

\* The device takes a message and imports its keys, or fails to.
LEMMA ImportSteps ==
    ASSUME KeysInv, ProcessNewGroupSession \/ ImportSessionKeys \/ ImportFails
    PROVE  KeysInv'
  <1> USE DEF KeysInv, Typed
  <1>1. UNCHANGED <<inbox, known, job, request, asked>>
    BY DEF ProcessNewGroupSession, ImportSessionKeys, ImportFails, streamVars, answerVars
  <1>2. JobsFit'
    BY <1>1 DEF JobsFit
  <1>3. CASE ProcessNewGroupSession
    <2>1. done' = done + 1 /\ done < Len(inbox) /\ asker = Idle /\ UNCHANGED <<acked, keys, lost>>
      BY <1>3 DEF ProcessNewGroupSession, TakeSession, deviceVars, ghosts
    <2>2. inbox[done + 1] \in SUBSET Session
      BY <2>1
    <2>3. asker' = IF inbox[done + 1] \subseteq keys THEN Idle
                   ELSE [at |-> "import", ids |-> inbox[done + 1]]
      BY <1>3 DEF ProcessNewGroupSession
    <2>4. Typed'
      BY <1>1, <2>1, <2>2, <2>3 DEF Askers
    <2>5. TakenIsImported'
      BY <1>1, <2>1, <2>3 DEF TakenIsImported, Idle
    <2>6. ASSUME NEW s \in asked PROVE Covered(s)'
      <3>1. Covered(s)
        OBVIOUS
      <3>2. CASE \E i \in (done + 1) .. Len(inbox) : s \in inbox[i]
        <4>1. PICK i \in (done + 1) .. Len(inbox) : s \in inbox[i]
          BY <3>2
        <4>2. CASE i = done + 1
          BY <1>1, <2>1, <2>3, <4>1, <4>2 DEF Covered
        <4>3. CASE i # done + 1
          <5>1. i \in (done' + 1) .. Len(inbox')
            BY <1>1, <2>1, <4>1, <4>3
          <5> QED BY <1>1, <4>1, <5>1 DEF Covered
        <4> QED BY <4>2, <4>3
      <3> QED BY <1>1, <2>1, <3>1, <3>2 DEF Covered, Idle
    <2> QED BY <1>1, <1>2, <2>4, <2>5, <2>6
  <1>4. CASE ImportSessionKeys \/ ImportFails
    <2>1. /\ asker.at = "import" /\ asker' = Idle /\ done' = done
          /\ acked' \in acked..done
      BY <1>1, <1>4 DEF ImportSessionKeys, ImportFails, Ack
    <2>2. keys \cup lost \cup asker.ids \subseteq (keys \cup lost)' /\ keys \subseteq keys' /\ lost \subseteq lost'
      BY <1>4 DEF ImportSessionKeys, ImportFails, deviceVars, ghosts
    <2>3. Typed'
      BY <1>1, <2>1 DEF Askers
    <2>4. TakenIsImported'
      BY <1>1, <2>1, <2>2 DEF TakenIsImported, Idle
    <2>5. ASSUME NEW s \in asked PROVE Covered(s)'
      BY <1>1, <2>1, <2>2 DEF Covered
    <2> QED BY <1>1, <1>2, <2>3, <2>4, <2>5
  <1> QED BY <1>3, <1>4

\* The device asks, does not get to ask, or starts again.
LEMMA AskSteps ==
    ASSUME KeysInv, ProcessMissingKeys \/ SendKeySolicitation \/ SendKeySolicitationFails \/ Restart
    PROVE  KeysInv'
  <1> USE DEF KeysInv, Typed
  <1>1. UNCHANGED <<inbox, acked, known, job, keys>> /\ lost \subseteq lost'
    BY DEF ProcessMissingKeys, SendKeySolicitation, SendKeySolicitationFails, Restart,
           inboxVars, answerVars, deviceVars, ghosts
  <1>2. JobsFit'
    BY <1>1 DEF JobsFit
  <1>3. CASE ProcessMissingKeys \/ SendKeySolicitation \/ SendKeySolicitationFails
    <2>1. done' = done /\ asker.at # "import"
      BY <1>3 DEF ProcessMissingKeys, SendKeySolicitation, SendKeySolicitationFails, TakeMissing,
                  Idle, inboxVars
    <2>2. asker' \in Askers /\ asker'.at # "import"
      <3>1. CASE ProcessMissingKeys
        <4> DEFINE ids == TakeFirst(MaxKeys, Failures)
        <4>1. ids \in SUBSET Session
          BY DEF TakeFirst, Failures
        <4>2. asker' = Idle \/ asker' = [at |-> "ask", ids |-> ids, isNew |-> keys = {}]
          BY <3>1 DEF ProcessMissingKeys
        <4>3. \E b \in BOOLEAN : asker' = Idle \/ asker' = [at |-> "ask", ids |-> ids, isNew |-> b]
          BY <4>2, Zenon
        <4> HIDE DEF ids
        <4> QED BY <4>1, <4>3 DEF Askers, Idle
      <3>2. CASE SendKeySolicitation \/ SendKeySolicitationFails
        BY <3>2 DEF SendKeySolicitation, SendKeySolicitationFails, Askers, Idle
      <3> QED BY <1>3, <3>1, <3>2
    <2>3. TakenIsImported'
      BY <1>1, <2>1, <2>2 DEF TakenIsImported
    <2>4. CASE SendKeySolicitation
      <3>1. asked' = asker.ids /\ request'.ids = asker.ids
        BY <2>4 DEF SendKeySolicitation, AddEvent, ApplyEvent
      <3> QED BY <1>1, <1>2, <2>1, <2>2, <2>3, <3>1 DEF Covered
    <2>5. CASE ProcessMissingKeys \/ SendKeySolicitationFails
      <3>1. UNCHANGED <<asked, request>>
        BY <2>5 DEF ProcessMissingKeys, SendKeySolicitationFails, streamVars
      <3> QED BY <1>1, <1>2, <2>1, <2>2, <2>3, <3>1 DEF Covered
    <2> QED BY <1>3, <2>4, <2>5
  <1>4. CASE Restart
    <2>1. done' = acked /\ asker' = Idle /\ UNCHANGED <<asked, request>>
      BY <1>4 DEF Restart, streamVars
    <2>2. Typed'
      BY <1>1, <2>1 DEF Askers
    <2>3. TakenIsImported'
      BY <1>1, <2>1 DEF TakenIsImported, Idle
    <2>4. ASSUME NEW s \in asked PROVE Covered(s)'
      <3>1. Covered(s)
        OBVIOUS
      <3>2. CASE asker.at = "import" /\ s \in asker.ids
        <4>1. done \in (done' + 1) .. Len(inbox') /\ s \in inbox'[done]
          BY <1>1, <2>1, <3>2 DEF TakenIsImported
        <4> QED BY <4>1 DEF Covered
      <3>3. CASE \E i \in (done + 1) .. Len(inbox) : s \in inbox[i]
        <4>1. PICK i \in (done + 1) .. Len(inbox) : s \in inbox[i]
          BY <3>3
        <4>2. i \in (done' + 1) .. Len(inbox') /\ s \in inbox'[i]
          BY <1>1, <2>1, <4>1
        <4> QED BY <4>2 DEF Covered
      <3> QED BY <1>1, <2>1, <3>1, <3>2, <3>3 DEF Covered
    <2> QED BY <1>2, <2>1, <2>2, <2>3, <2>4
  <1> QED BY <1>3, <1>4

\* A device that answers looks up the keys, or gives up before the fulfillment.
LEMMA LookupSteps ==
    ASSUME KeysInv, NEW r \in Responder, ProcessKeySolicitation(r) \/ NotEntitled(r)
    PROVE  KeysInv'
  <1> USE DEF KeysInv, Typed
  <1>1. UNCHANGED <<inbox, acked, done, known, asker, keys, asked, request>> /\ lost \subseteq lost'
    BY DEF ProcessKeySolicitation, NotEntitled, streamVars, deviceVars, inboxVars, ghosts
  <1>2. job' \in [Responder -> Jobs] /\ JobsFit' /\ job[r].at # "share"
        /\ \A q \in Responder \ {r} : job'[q] = job[q]
    <2>1. CASE ProcessKeySolicitation(r)
      <3> DEFINE reply == IF item[r].isNew THEN known[r] ELSE known[r] \intersect item[r].ids
                 new == [at |-> "fulfill", reply |-> reply, ids |-> Fulfilled(reply, item[r].ids)]
      <3>1. reply \in SUBSET Session
        OBVIOUS
      <3>2. new \in Jobs /\ new.ids \subseteq new.reply
        <4> HIDE DEF reply
        <4> QED BY <3>1 DEF Jobs, Fulfilled
      <3>3. job[r] = Idle /\ (job' = job \/ job' = [job EXCEPT ![r] = new])
        BY <2>1 DEF ProcessKeySolicitation
      <3> HIDE DEF new
      <3> QED BY <3>2, <3>3 DEF JobsFit, Idle
    <2>2. CASE NotEntitled(r)
      <3>1. job[r].at = "fulfill" /\ job' = [job EXCEPT ![r] = Idle]
        BY <2>2 DEF NotEntitled
      <3> QED BY <3>1 DEF JobsFit, Idle, Jobs
    <2> QED BY <2>1, <2>2
  <1>3. TakenIsImported'
    BY <1>1 DEF TakenIsImported
  <1>4. ASSUME NEW s \in asked PROVE Covered(s)'
    <2>1. Covered(s)
      OBVIOUS
    <2>2. CASE \E q \in Responder : job[q].at = "share" /\ s \in job[q].ids
      <3>1. PICK q \in Responder : job[q].at = "share" /\ s \in job[q].ids
        BY <2>2
      <3>2. job'[q] = job[q]
        BY <1>2, <3>1
      <3> QED BY <3>1, <3>2 DEF Covered
    <2> QED BY <1>1, <2>1, <2>2 DEF Covered
  <1> QED BY <1>1, <1>2, <1>3, <1>4

\* The fulfillment takes sessions off the solicitation, and makes them a debt of r.
LEMMA FulfillStep ==
    ASSUME KeysInv, NEW r \in Responder, SendKeyFulfillment(r)
    PROVE  KeysInv'
  <1> USE DEF KeysInv, Typed
  <1>1. UNCHANGED <<inbox, acked, done, known, asker, keys, lost, asked>> /\ job[r].at = "fulfill"
    BY DEF SendKeyFulfillment, deviceVars, inboxVars, ghosts
  <1>2. /\ job' \in [Responder -> Jobs] /\ JobsFit'
        /\ \A q \in Responder : job[q].at = "share" => job'[q] = job[q]
    BY <1>1 DEF SendKeyFulfillment, JobsFit, Jobs, Idle
  <1>3. \/ request' = request
        \/ /\ request'.ids = request.ids \ job[r].ids
           /\ job'[r].at = "share" /\ job'[r].ids = job[r].ids
    BY <1>1 DEF SendKeyFulfillment, AddEvent, ApplyEvent, Jobs, Idle
  <1>4. TakenIsImported'
    BY <1>1 DEF TakenIsImported
  <1>5. ASSUME NEW s \in asked PROVE Covered(s)'
    <2>1. Covered(s)
      OBVIOUS
    <2>2. CASE s \in request.ids
      BY <1>3, <2>2 DEF Covered
    <2>3. CASE \E q \in Responder : job[q].at = "share" /\ s \in job[q].ids
      BY <1>2, <2>3 DEF Covered
    <2> QED BY <1>1, <2>1, <2>2, <2>3 DEF Covered
  <1> QED BY <1>1, <1>2, <1>4, <1>5

\* The keys are sent to the inbox.
LEMMA ShareStep ==
    ASSUME KeysInv, NEW r \in Responder, ShareGroupSessions(r)
    PROVE  KeysInv'
  <1> USE DEF KeysInv, Typed
  <1>1. /\ UNCHANGED <<acked, done, known, asker, keys, lost, asked, request>>
        /\ job[r].at = "share" /\ job' = [job EXCEPT ![r] = Idle]
        /\ inbox' = Append(inbox, job[r].reply)
    BY DEF ShareGroupSessions, streamVars, deviceVars, ghosts
  <1>2. job[r].reply \in SUBSET Session /\ job[r].ids \subseteq job[r].reply
    BY <1>1 DEF JobsFit, Jobs, Idle
  <1>3. /\ inbox' \in Seq(SUBSET Session) /\ Len(inbox') = Len(inbox) + 1
        /\ \A i \in 1 .. Len(inbox) : inbox'[i] = inbox[i]
        /\ inbox'[Len(inbox) + 1] = job[r].reply
    BY <1>1, <1>2
  <1>4. Typed' /\ JobsFit'
    BY <1>1, <1>3 DEF JobsFit, Jobs, Idle
  <1>5. TakenIsImported'
    BY <1>1, <1>3 DEF TakenIsImported
  <1>6. ASSUME NEW s \in asked PROVE Covered(s)'
    <2>1. Covered(s)
      OBVIOUS
    <2>2. CASE \E q \in Responder : job[q].at = "share" /\ s \in job[q].ids
      <3>1. PICK q \in Responder : job[q].at = "share" /\ s \in job[q].ids
        BY <2>2
      <3>2. CASE q = r
        <4>1. Len(inbox) + 1 \in (done' + 1) .. Len(inbox') /\ s \in inbox'[Len(inbox) + 1]
          BY <1>1, <1>2, <1>3, <3>1, <3>2
        <4> QED BY <4>1 DEF Covered
      <3>3. CASE q # r
        BY <1>1, <3>1, <3>3 DEF Covered
      <3> QED BY <3>2, <3>3
    <2>3. CASE \E i \in (done + 1) .. Len(inbox) : s \in inbox[i]
      <3>1. PICK i \in (done + 1) .. Len(inbox) : s \in inbox[i]
        BY <2>3
      <3>2. i \in (done' + 1) .. Len(inbox') /\ s \in inbox'[i]
        BY <1>1, <1>3, <3>1
      <3> QED BY <3>2 DEF Covered
    <2> QED BY <1>1, <2>1, <2>2, <2>3 DEF Covered
  <1> QED BY <1>1, <1>4, <1>5, <1>6

\* A device that answers fails after the fulfillment: the keys are lost.
LEMMA LosingSteps ==
    ASSUME KeysInv, NEW r \in Responder, ShareFails(r) \/ RestartResponder(r)
    PROVE  KeysInv'
  <1> USE DEF KeysInv, Typed
  <1>1. /\ UNCHANGED <<inbox, acked, done, known, asker, keys, asked, request>>
        /\ job' = [job EXCEPT ![r] = Idle] /\ lost \subseteq lost'
        /\ job[r].at = "share" => job[r].ids \subseteq lost'
    BY DEF ShareFails, RestartResponder, streamVars, deviceVars, inboxVars
  <1>2. Typed' /\ JobsFit'
    BY <1>1 DEF JobsFit, Jobs, Idle
  <1>3. TakenIsImported'
    BY <1>1 DEF TakenIsImported
  <1>4. ASSUME NEW s \in asked PROVE Covered(s)'
    <2>1. Covered(s)
      OBVIOUS
    <2>2. CASE \E q \in Responder : job[q].at = "share" /\ s \in job[q].ids
      <3>1. PICK q \in Responder : job[q].at = "share" /\ s \in job[q].ids
        BY <2>2
      <3>2. q = r \/ job'[q] = job[q]
        BY <1>1
      <3> QED BY <1>1, <3>1, <3>2 DEF Covered
    <2> QED BY <1>1, <2>1, <2>2 DEF Covered
  <1> QED BY <1>1, <1>2, <1>3, <1>4

LEMMA KeysInvStep == ASSUME KeysInv, [Next]_vars PROVE KeysInv'
  <1>1. CASE \/ \E s \in Session : NewContent(s) \/ ProcessContent(s)
             \/ RetryDecryptionFailures \/ \E d \in Device : Sync(d)
             \/ vars' = vars
    BY <1>1, OthersKeepKeys, KeysUnchanged
  <1>2. CASE ProcessNewGroupSession \/ ImportSessionKeys \/ ImportFails
    BY <1>2, ImportSteps
  <1>3. CASE ProcessMissingKeys \/ SendKeySolicitation \/ SendKeySolicitationFails \/ Restart
    BY <1>3, AskSteps
  <1>4. CASE \E r \in Responder :
               ResponderStep(r) \/ ShareFails(r) \/ NotEntitled(r) \/ RestartResponder(r)
    <2>1. PICK r \in Responder :
               ResponderStep(r) \/ ShareFails(r) \/ NotEntitled(r) \/ RestartResponder(r)
      BY <1>4
    <2> QED BY <2>1, LookupSteps, FulfillStep, ShareStep, LosingSteps DEF ResponderStep
  <1> QED BY <1>1, <1>2, <1>3, <1>4 DEF Next, AskerStep

----------------------------------------------------------------------------
\* What ackNewGroupSession acknowledges was imported, or importSessionKeys threw: a
\* restart, which takes up the inbox behind the acknowledgement, skips no key.
THEOREM AckTheorem == Spec => []AckedIsImported
  <1>1. KeysInv => AckedIsImported
    BY DEF KeysInv, Typed, TakenIsImported, AckedIsImported
  <1> QED BY <1>1, KeysInvInit, KeysInvStep, PTL DEF Spec

\* What sendKeyFulfillment takes off the last solicitation has reached the device or is
\* on its way, unless the device that answered failed before it sent the keys.
THEOREM ShareTheorem == Spec => []FulfilledIsShared
  <1>1. KeysInv => FulfilledIsShared
    <2> SUFFICES ASSUME KeysInv, NEW s \in asked
                 PROVE  s \in request.ids \/ s \in keys \/ s \in lost \/ OnItsWay(s)
      BY DEF FulfilledIsShared
    <2>1. Covered(s) /\ JobsFit
      BY DEF KeysInv
    <2> QED BY <2>1 DEF Covered, JobsFit, OnItsWay
  <1> QED BY <1>1, KeysInvInit, KeysInvStep, PTL DEF Spec

\* A device goes on from processKeySolicitation to send keys only if its fulfillment took
\* something off the solicitation, whatever the others that answer do in between.
THEOREM ProgressTheorem == Spec => AnswersMakeProgress
  <1> DEFINE Progress == \A r \in Responder :
               job[r].at = "fulfill" /\ job'[r].at = "share" => request' # request
  <1>1. ASSUME KeysInv, [Next]_vars PROVE Progress
    <2> SUFFICES ASSUME NEW r \in Responder, job[r].at = "fulfill", job'[r].at = "share"
                 PROVE  request' # request
      OBVIOUS
    <2>1. job \in [Responder -> Jobs]
      BY <1>1 DEF KeysInv, Typed
    <2>2. CASE SendKeyFulfillment(r)
      <3>1. ValidKeyFulfillment(job[r].ids)
            /\ request' = [isNew |-> FALSE, ids |-> request.ids \ job[r].ids]
        BY <2>1, <2>2 DEF SendKeyFulfillment, AddEvent, ApplyEvent, Idle
      <3> QED BY <3>1 DEF ValidKeyFulfillment
    <2>3. CASE UNCHANGED job
      BY <2>3
    <2>4. CASE \E q \in Responder :
                 \/ ProcessKeySolicitation(q) \/ SendKeyFulfillment(q) \/ ShareGroupSessions(q)
                 \/ ShareFails(q) \/ NotEntitled(q) \/ RestartResponder(q)
      <3>1. PICK q \in Responder :
                 \/ ProcessKeySolicitation(q) \/ SendKeyFulfillment(q) \/ ShareGroupSessions(q)
                 \/ ShareFails(q) \/ NotEntitled(q) \/ RestartResponder(q)
        BY <2>4
      <3>2. CASE SendKeyFulfillment(q)
        BY <2>1, <2>2, <3>2 DEF SendKeyFulfillment
      <3>3. CASE ProcessKeySolicitation(q)
        BY <2>1, <3>3 DEF ProcessKeySolicitation
      <3>4. CASE ShareGroupSessions(q) \/ ShareFails(q) \/ NotEntitled(q) \/ RestartResponder(q)
        BY <2>1, <3>4 DEF ShareGroupSessions, ShareFails, NotEntitled, RestartResponder, Idle
      <3> QED BY <3>1, <3>2, <3>3, <3>4
    <2>5. CASE \/ \E s \in Session : NewContent(s) \/ ProcessContent(s)
               \/ RetryDecryptionFailures \/ \E d \in Device : Sync(d)
               \/ vars' = vars
      BY <2>3, <2>5, OthersKeepKeys DEF keysCore
    <2>6. CASE \/ ProcessNewGroupSession \/ ImportSessionKeys \/ ImportFails
               \/ ProcessMissingKeys \/ SendKeySolicitation \/ SendKeySolicitationFails \/ Restart
      BY <2>3, <2>6 DEF ProcessNewGroupSession, ImportSessionKeys, ImportFails, ProcessMissingKeys,
                        SendKeySolicitation, SendKeySolicitationFails, Restart, answerVars
    <2> QED BY <1>1, <2>4, <2>5, <2>6 DEF Next, AskerStep, ResponderStep
  <1>2. ASSUME KeysInv, [Next]_vars PROVE [Progress]_vars
    BY <1>1, <1>2
  <1> QED BY <1>2, KeysInvInit, KeysInvStep, PTL DEF Spec, AnswersMakeProgress
----------------------------------------------------------------------------
(* Where a key that was asked for and that some device has can be.            *)

Requests == [isNew : BOOLEAN, ids : SUBSET Session]
Events == [ask : {TRUE}, isNew : BOOLEAN, ids : SUBSET Session]
            \cup [ask : {FALSE}, ids : SUBSET Session]
Items == {NoItem} \cup [open : {TRUE}, isNew : BOOLEAN, ids : SUBSET Session]

ViewsTyped ==
    /\ request \in Requests /\ view \in [Device -> Requests]
    /\ news \in [Device -> Seq(Events)]
    /\ item \in [Responder -> Items]

\* The event leaves s out of the solicitation.
Removes(e, s) == IF e.ask THEN s \notin e.ids ELSE s \in e.ids

\* An event that asks for s is on its way to r, and none behind it takes s back.
Coming(r, s) ==
    \E i \in DOMAIN news[r] :
        /\ news[r][i].ask
        /\ \A j \in DOMAIN news[r] : j >= i => ~Removes(news[r][j], s)

\* r has seen the solicitation of s, and nothing on its way takes s back.
Heard(r, s) ==
    /\ s \in view[r].ids
    /\ \A i \in DOMAIN news[r] : ~Removes(news[r][i], s)

\* r has yet to answer, or its answer was lost.
InHand(r, s) ==
    \/ item[r].open /\ s \in item[r].ids
    \/ job[r].at = "fulfill" /\ s \in job[r].ids
    \/ s \in lost

\* A device that has a key of the open solicitation is going to answer.
Pending ==
    \A r \in Responder : \A s \in request.ids \cap known[r] :
        Coming(r, s) \/ (Heard(r, s) /\ InHand(r, s))

\* Keys of failures were asked for, or are about to be.
AskedFor ==
    /\ ~missing /\ asker.at # "ask" => Failures \subseteq lost \cup skipped \cup asked
    /\ asker.at = "ask" => Failures \subseteq asker.ids \cup skipped

\* What could not be decrypted still cannot.
Unreadable == Failures \cap keys = {}

RestInv ==
    /\ KeysInv /\ ViewsTyped /\ Pending
    /\ failed \in [Session -> Nat] /\ AskedFor /\ Unreadable

\* Steps of the devices that answer and of the network.
Elsewhere ==
    \/ \E s \in Session : NewContent(s)
    \/ \E d \in Device : Sync(d)
    \/ \E r \in Responder :
          ResponderStep(r) \/ ShareFails(r) \/ NotEntitled(r) \/ RestartResponder(r)
    \/ vars' = vars

LEMMA ElsewhereKeeps ==
    ASSUME Elsewhere
    PROVE  UNCHANGED <<failed, keys, missing, asker, skipped, asked>> /\ lost \subseteq lost'
  <1>1. CASE \E s \in Session : NewContent(s)
    BY <1>1 DEF NewContent, streamVars, ghosts
  <1>2. CASE \E d \in Device : Sync(d)
    BY <1>2 DEF Sync, streamVars, deviceVars, ghosts
  <1>3. CASE \E r \in Responder : ResponderStep(r)
    BY <1>3 DEF ResponderStep, ProcessKeySolicitation, SendKeyFulfillment, ShareGroupSessions,
                streamVars, deviceVars, ghosts
  <1>4. CASE \E r \in Responder : ShareFails(r) \/ NotEntitled(r) \/ RestartResponder(r)
    BY <1>4 DEF ShareFails, NotEntitled, RestartResponder, streamVars, deviceVars
  <1>5. CASE vars' = vars
    BY <1>5 DEF vars, streamVars, deviceVars, ghosts
  <1> QED BY <1>1, <1>2, <1>3, <1>4, <1>5 DEF Elsewhere

\* What the asking device knows of its failures.
LEMMA AskedForStep ==
    ASSUME Typed, failed \in [Session -> Nat], AskedFor, Unreadable, [Next]_vars
    PROVE  failed' \in [Session -> Nat] /\ AskedFor' /\ Unreadable'
  <1>1. CASE Elsewhere
    <2>1. UNCHANGED <<failed, keys, missing, asker, skipped, asked>> /\ lost \subseteq lost'
      BY <1>1, ElsewhereKeeps
    <2>2. Failures' = Failures
      BY <2>1 DEF Failures
    <2> QED BY <2>1, <2>2 DEF AskedFor, Unreadable
  <1>2. ASSUME NEW s \in Session, ProcessContent(s)
        PROVE  failed' \in [Session -> Nat] /\ AskedFor' /\ Unreadable'
    <2>1. UNCHANGED <<keys, asker, lost, skipped, asked>> /\ asker = Idle
      BY <1>2 DEF ProcessContent, TakeContent, streamVars, ghosts
    <2>2. CASE s \in keys
      <3>1. UNCHANGED <<failed, missing>>
        BY <1>2, <2>2 DEF ProcessContent
      <3>2. Failures' = Failures
        BY <3>1 DEF Failures
      <3> QED BY <2>1, <3>1, <3>2 DEF AskedFor, Unreadable
    <2>3. CASE s \notin keys
      <3>1. failed' = [failed EXCEPT ![s] = @ + 1] /\ missing' = TRUE
        BY <1>2, <2>3 DEF ProcessContent
      <3>2. failed' \in [Session -> Nat] /\ Failures' \subseteq Failures \cup {s}
        BY <3>1 DEF Failures
      <3>3. asker'.at # "ask"
        BY <2>1 DEF Idle
      <3> QED BY <2>1, <2>3, <3>1, <3>2, <3>3 DEF AskedFor, Unreadable
    <2> QED BY <2>2, <2>3
  <1>3. CASE ProcessNewGroupSession
    <2>1. UNCHANGED <<failed, keys, missing, lost, skipped, asked>> /\ asker = Idle
      BY <1>3 DEF ProcessNewGroupSession, TakeSession, streamVars, deviceVars, ghosts
    <2>2. asker'.at # "ask" /\ asker.at # "ask"
      BY <1>3, <2>1 DEF ProcessNewGroupSession, Idle
    <2>3. Failures' = Failures
      BY <2>1 DEF Failures
    <2> QED BY <2>1, <2>2, <2>3 DEF AskedFor, Unreadable
  <1>4. CASE ImportSessionKeys
    <2>1. /\ UNCHANGED <<missing, lost, skipped, asked>>
          /\ asker.at = "import" /\ asker' = Idle /\ keys' = keys \cup asker.ids
          /\ failed' = [s \in Session |-> IF s \in asker.ids THEN 0 ELSE failed[s]]
      BY <1>4 DEF ImportSessionKeys, streamVars, ghosts
    <2>2. failed' \in [Session -> Nat] /\ Failures' = Failures \ asker.ids
      BY <2>1 DEF Failures
    <2>3. asker'.at # "ask" /\ asker.at # "ask"
      BY <2>1 DEF Idle
    <2> QED BY <2>1, <2>2, <2>3 DEF AskedFor, Unreadable
  <1>5. CASE ImportFails \/ SendKeySolicitationFails
    <2>1. /\ UNCHANGED <<failed, keys, missing, skipped, asked>> /\ asker' = Idle
          /\ lost' = lost \cup asker.ids
      BY <1>5 DEF ImportFails, SendKeySolicitationFails, streamVars, deviceVars
    <2>2. Failures' = Failures /\ asker'.at # "ask"
      BY <2>1 DEF Failures, Idle
    <2> QED BY <2>1, <2>2 DEF AskedFor, Unreadable
  <1>6. CASE ProcessMissingKeys
    <2> DEFINE ids == TakeFirst(MaxKeys, Failures)
               asks == ids # {} /\ ~view["asker"].isNew /\ view["asker"].ids # ids
    <2>1. /\ UNCHANGED <<failed, keys, lost, asked>>
          /\ asker' = IF asks THEN [at |-> "ask", ids |-> ids, isNew |-> keys = {}] ELSE Idle
          /\ skipped' = Failures \ (IF asks THEN ids ELSE asked)
      BY <1>6, Zenon DEF ProcessMissingKeys, streamVars
    <2>2. Failures' = Failures
      BY <2>1 DEF Failures
    <2> HIDE DEF ids
    <2>3. CASE asks
      <3>1. asker'.at = "ask" /\ asker'.ids = ids /\ skipped' = Failures \ ids
        BY <2>1, <2>3
      <3> QED BY <2>1, <2>2, <3>1 DEF AskedFor, Unreadable
    <2>4. CASE ~asks
      <3>1. asker'.at # "ask" /\ skipped' = Failures \ asked
        BY <2>1, <2>4 DEF Idle
      <3> QED BY <2>1, <2>2, <3>1 DEF AskedFor, Unreadable
    <2> QED BY <2>3, <2>4
  <1>7. CASE RetryDecryptionFailures
    <2>1. UNCHANGED <<failed, keys, asker, lost, skipped, asked>> /\ missing' = TRUE
      BY <1>7 DEF RetryDecryptionFailures, streamVars, ghosts
    <2>2. Failures' = Failures
      BY <2>1 DEF Failures
    <2> QED BY <2>1, <2>2 DEF AskedFor, Unreadable
  <1>8. CASE SendKeySolicitation
    <2>1. /\ UNCHANGED <<failed, keys, missing, lost, skipped>>
          /\ asker.at = "ask" /\ asker' = Idle /\ asked' = asker.ids
      BY <1>8 DEF SendKeySolicitation, deviceVars, ghosts
    <2>2. Failures' = Failures /\ asker'.at # "ask"
      BY <2>1 DEF Failures, Idle
    <2> QED BY <2>1, <2>2 DEF AskedFor, Unreadable
  <1>9. CASE Restart
    <2>1. failed' = [s \in Session |-> 0]
      BY <1>9 DEF Restart
    <2>2. failed' \in [Session -> Nat] /\ Failures' = {}
      BY <2>1 DEF Failures
    <2> QED BY <2>2 DEF AskedFor, Unreadable
  <1> QED BY <1>1, <1>2, <1>3, <1>4, <1>5, <1>6, <1>7, <1>8, <1>9
          DEF Next, AskerStep, Elsewhere

\* What an event leaves in the solicitation.
LEMMA EventEffect ==
    ASSUME NEW old \in Requests, NEW e \in Events
    PROVE  /\ ApplyEvent(old, e) \in Requests
           /\ \A s : s \in ApplyEvent(old, e).ids <=> ~Removes(e, s) /\ (s \in old.ids \/ e.ask)
  <1>1. CASE e \in [ask : {TRUE}, isNew : BOOLEAN, ids : SUBSET Session]
    <2>1. ApplyEvent(old, e) = [isNew |-> e.isNew, ids |-> e.ids] /\ e.ask
      BY <1>1 DEF ApplyEvent
    <2> QED BY <1>1, <2>1 DEF Requests, Removes
  <1>2. CASE e \in [ask : {FALSE}, ids : SUBSET Session]
    <2>1. ApplyEvent(old, e) = [isNew |-> FALSE, ids |-> old.ids \ e.ids] /\ ~e.ask
      BY <1>2 DEF ApplyEvent
    <2> QED BY <1>2, <2>1 DEF Requests, Removes
  <1> QED BY <1>1, <1>2 DEF Events

\* An event is added to the stream: a session that is still asked for afterwards is in
\* the event, or was asked for before and the event does not take it back.
LEMMA Added ==
    ASSUME ViewsTyped, NEW e \in Events, AddEvent(e), UNCHANGED view, NEW r \in Responder,
           NEW s \in request'.ids
    PROVE  \/ Coming(r, s)'
           \/ /\ s \in request.ids
              /\ Heard(r, s) => Heard(r, s)'
              /\ Coming(r, s) => Coming(r, s)'
  <1> DEFINE q == news[r]
             n == Len(news[r]) + 1
  <1>1. ~Removes(e, s) /\ (s \in request.ids \/ e.ask)
    <2>1. request' = ApplyEvent(request, e) /\ request \in Requests
      BY DEF AddEvent, ViewsTyped
    <2> QED BY <2>1, EventEffect
  <1>2. q \in Seq(Events) /\ news'[r] = Append(q, e)
    BY DEF ViewsTyped, AddEvent, Device
  <1>3. /\ DOMAIN news'[r] = DOMAIN q \cup {n} /\ news'[r][n] = e
        /\ \A i \in DOMAIN q : i \in Nat /\ i < n /\ news'[r][i] = q[i]
    BY <1>2
  <1>4. n \in Nat
    BY <1>2
  <1> HIDE DEF n
  <1>5. CASE e.ask
    <2>1. \A j \in DOMAIN news'[r] : j >= n => j = n
      BY <1>3, <1>4
    <2> QED BY <1>1, <1>3, <1>5, <2>1 DEF Coming
  <1>6. CASE s \in request.ids
    <2>1. Heard(r, s) => Heard(r, s)'
      BY <1>1, <1>3 DEF Heard
    <2>2. Coming(r, s) => Coming(r, s)'
      <3> SUFFICES ASSUME Coming(r, s) PROVE Coming(r, s)'
        OBVIOUS
      <3>1. PICK i \in DOMAIN q : q[i].ask /\ \A j \in DOMAIN q : j >= i => ~Removes(q[j], s)
        BY DEF Coming
      <3>2. i \in DOMAIN news'[r] /\ news'[r][i].ask
        BY <1>3, <3>1
      <3>3. \A j \in DOMAIN news'[r] : j >= i => ~Removes(news'[r][j], s)
        BY <1>1, <1>3, <3>1
      <3> QED BY <3>2, <3>3 DEF Coming
    <2> QED BY <1>6, <2>1, <2>2
  <1> QED BY <1>1, <1>5, <1>6

\* A device applies the next event: the solicitation of s gets to its view and its queue.
LEMMA Delivered ==
    ASSUME ViewsTyped, NEW r \in Responder, Sync(r), NEW s, Coming(r, s) \/ Heard(r, s)
    PROVE  \/ Coming(r, s)'
           \/ Heard(r, s)' /\ item'[r].open /\ s \in item'[r].ids
  <1> DEFINE q == news[r]
             v == ApplyEvent(view[r], q[1])
  <1>1. r \in Device /\ r # "asker"
    BY ExchangeAssumption DEF Device
  <1>2. q \in Seq(Events) /\ q # <<>> /\ view[r] \in Requests
    BY <1>1 DEF ViewsTyped, Sync
  <1>3. q[1] \in Events /\ Len(q) \in Nat /\ Len(q) >= 1
    BY <1>2
  <1>4. news'[r] = Tail(q) /\ view'[r] = v
    BY <1>1, <1>2 DEF ViewsTyped, Sync
  <1>5. item'[r] = IF v.isNew \/ v.ids # {} THEN Item(v.isNew, v.ids) ELSE NoItem
    BY <1>1, <1>4 DEF ViewsTyped, Sync
  <1>6. \A j \in DOMAIN news'[r] : j \in Nat /\ j + 1 \in DOMAIN q /\ news'[r][j] = q[j + 1]
    BY <1>2, <1>4
  <1>7. s \in v.ids <=> ~Removes(q[1], s) /\ (s \in view[r].ids \/ q[1].ask)
    BY <1>2, <1>3, EventEffect
  <1>8. 1 \in DOMAIN q
    BY <1>2, <1>3
  <1> HIDE DEF v
  <1>9. ASSUME s \in v.ids, \A j \in DOMAIN q : ~Removes(q[j], s)
        PROVE  Heard(r, s)' /\ item'[r].open /\ s \in item'[r].ids
    <2>1. item'[r] = Item(v.isNew, v.ids)
      BY <1>5, <1>9
    <2>2. Heard(r, s)'
      BY <1>4, <1>6, <1>9 DEF Heard
    <2> QED BY <1>9, <2>1, <2>2 DEF Item
  <1>10. CASE Heard(r, s)
    BY <1>7, <1>8, <1>9, <1>10 DEF Heard
  <1>11. CASE Coming(r, s)
    <2>1. PICK i \in DOMAIN q : q[i].ask /\ \A j \in DOMAIN q : j >= i => ~Removes(q[j], s)
      BY <1>11 DEF Coming
    <2>2. i \in Nat /\ i >= 1
      BY <1>2
    <2>3. CASE i = 1
      <3>1. \A j \in DOMAIN q : j >= 1
        BY <1>2
      <3> QED BY <1>7, <1>8, <1>9, <2>1, <2>3, <3>1
    <2>4. CASE i # 1
      <3>1. i - 1 \in DOMAIN news'[r] /\ (i - 1) + 1 = i
        BY <1>2, <1>4, <2>2, <2>4
      <3>2. news'[r][i - 1].ask
        BY <1>6, <2>1, <3>1
      <3>3. \A j \in DOMAIN news'[r] : j >= i - 1 => ~Removes(news'[r][j], s)
        BY <1>6, <2>1, <2>2
      <3> QED BY <3>1, <3>2, <3>3 DEF Coming
    <2> QED BY <2>3, <2>4
  <1> QED BY <1>10, <1>11

\* An event typed and added keeps the types.
LEMMA AddedTyped ==
    ASSUME ViewsTyped, NEW e \in Events, AddEvent(e), UNCHANGED <<view, item>>
    PROVE  ViewsTyped'
  <1>1. request' \in Requests
    BY EventEffect DEF AddEvent, ViewsTyped
  <1>2. ASSUME NEW d \in Device PROVE Append(news[d], e) \in Seq(Events)
    BY DEF ViewsTyped
  <1>3. news' \in [Device -> Seq(Events)]
    BY <1>2 DEF AddEvent
  <1> QED BY <1>1, <1>3 DEF ViewsTyped

\* The solicitation that is sent, and the fulfillment of r.
LEMMA EventsSent ==
    ASSUME Typed
    PROVE  /\ asker.at = "ask" =>
                 [ask |-> TRUE, isNew |-> asker.isNew, ids |-> asker.ids] \in Events
           /\ \A r \in Responder : job[r].at = "fulfill" =>
                 [ask |-> FALSE, ids |-> job[r].ids] \in Events
  <1>1. asker.at = "ask" => asker \in [at : {"ask"}, ids : SUBSET Session, isNew : BOOLEAN]
    BY DEF Typed, Askers, Idle
  <1>2. \A r \in Responder : job[r].at = "fulfill" => job[r].ids \in SUBSET Session
    BY DEF Typed, Jobs, Idle
  <1> QED BY <1>1, <1>2 DEF Events

\* The steps that leave the stream and the views of the devices that answer alone.
Aside ==
    \/ \E s \in Session : NewContent(s) \/ ProcessContent(s)
    \/ ProcessNewGroupSession \/ ImportSessionKeys \/ ImportFails
    \/ ProcessMissingKeys \/ RetryDecryptionFailures \/ SendKeySolicitationFails
    \/ vars' = vars

LEMMA AsideKeeps ==
    ASSUME Aside
    PROVE  UNCHANGED <<request, news, view, item, job, known>> /\ lost \subseteq lost'
  <1>1. CASE \E s \in Session : NewContent(s) \/ ProcessContent(s)
    BY <1>1 DEF NewContent, ProcessContent, streamVars, answerVars, ghosts
  <1>2. CASE ProcessNewGroupSession \/ ImportSessionKeys \/ ImportFails
    BY <1>2 DEF ProcessNewGroupSession, ImportSessionKeys, ImportFails, streamVars, answerVars, ghosts
  <1>3. CASE ProcessMissingKeys \/ RetryDecryptionFailures \/ SendKeySolicitationFails
    BY <1>3 DEF ProcessMissingKeys, RetryDecryptionFailures, SendKeySolicitationFails,
                streamVars, answerVars, ghosts
  <1>4. CASE vars' = vars
    BY <1>4 DEF vars, streamVars, answerVars, ghosts
  <1> QED BY <1>1, <1>2, <1>3, <1>4 DEF Aside

\* A device that answers and that the step does not concern.
LEMMA PendingKept ==
    ASSUME Pending, NEW r \in Responder,
           known' = known, lost \subseteq lost', request'.ids \subseteq request.ids,
           news'[r] = news[r], view'[r] = view[r], item'[r] = item[r], job'[r] = job[r]
    PROVE  \A s \in request'.ids \cap known'[r] :
               Coming(r, s)' \/ (Heard(r, s) /\ InHand(r, s))'
  BY DEF Pending, Coming, Heard, InHand

LEMMA ViewsAside ==
    ASSUME ViewsTyped, Pending, Aside PROVE ViewsTyped' /\ Pending'
  <1>1. UNCHANGED <<request, news, view, item, job, known>> /\ lost \subseteq lost'
    BY AsideKeeps
  <1>2. ViewsTyped'
    BY <1>1 DEF ViewsTyped
  <1>3. ASSUME NEW r \in Responder
        PROVE  \A s \in request'.ids \cap known'[r] :
                   Coming(r, s)' \/ (Heard(r, s) /\ InHand(r, s))'
    BY <1>1, PendingKept
  <1> QED BY <1>2, <1>3 DEF Pending

LEMMA ViewsSolicit ==
    ASSUME Typed, ViewsTyped, Pending, SendKeySolicitation PROVE ViewsTyped' /\ Pending'
  <1> DEFINE e == [ask |-> TRUE, isNew |-> asker.isNew, ids |-> asker.ids]
  <1>1. e \in Events /\ AddEvent(e) /\ UNCHANGED <<view, item, job, known, lost>>
    BY EventsSent DEF SendKeySolicitation, answerVars, ghosts
  <1> HIDE DEF e
  <1>2. ViewsTyped'
    BY <1>1, AddedTyped
  <1>3. ASSUME NEW r \in Responder, NEW s \in request'.ids \cap known'[r]
        PROVE  Coming(r, s)' \/ (Heard(r, s) /\ InHand(r, s))'
    <2>1. InHand(r, s) => InHand(r, s)'
      BY <1>1 DEF InHand
    <2>2. \/ Coming(r, s)'
          \/ /\ s \in request.ids
             /\ Heard(r, s) => Heard(r, s)'
             /\ Coming(r, s) => Coming(r, s)'
      BY <1>1, Added
    <2>3. s \in request.ids => Coming(r, s) \/ (Heard(r, s) /\ InHand(r, s))
      BY <1>1 DEF Pending
    <2> QED BY <2>1, <2>2, <2>3
  <1> QED BY <1>2, <1>3 DEF Pending

\* The asking device starts again, or applies an event.
LEMMA ViewsAsker ==
    ASSUME ViewsTyped, Pending, Restart \/ Sync("asker") PROVE ViewsTyped' /\ Pending'
  <1>1. UNCHANGED <<request, item, job, known, lost>>
    BY DEF Restart, Sync, streamVars, answerVars, ghosts
  <1>2. \A r \in Responder : news'[r] = news[r] /\ view'[r] = view[r]
    BY ExchangeAssumption DEF Restart, Sync, ViewsTyped, Device
  <1>3. ViewsTyped'
    <2>1. "asker" \in Device
      BY DEF Device
    <2>2. CASE Restart
      BY <1>1, <2>1, <2>2 DEF Restart, ViewsTyped
    <2>3. CASE Sync("asker")
      <3>1. news["asker"] \in Seq(Events) /\ news["asker"] # <<>> /\ view["asker"] \in Requests
        BY <2>1, <2>3 DEF Sync, ViewsTyped
      <3>2. Head(news["asker"]) \in Events /\ Tail(news["asker"]) \in Seq(Events)
        BY <3>1
      <3>3. ApplyEvent(view["asker"], Head(news["asker"])) \in Requests
        BY <3>1, <3>2, EventEffect
      <3> QED BY <1>1, <2>1, <2>3, <3>2, <3>3 DEF Sync, ViewsTyped
    <2> QED BY <2>2, <2>3
  <1>4. ASSUME NEW r \in Responder
        PROVE  \A s \in request'.ids \cap known'[r] :
                   Coming(r, s)' \/ (Heard(r, s) /\ InHand(r, s))'
    BY <1>1, <1>2, PendingKept
  <1> QED BY <1>3, <1>4 DEF Pending

\* A device that answers applies an event.
LEMMA ViewsSync ==
    ASSUME ViewsTyped, Pending, NEW r \in Responder, Sync(r) PROVE ViewsTyped' /\ Pending'
  <1>1. UNCHANGED <<request, job, known, lost>> /\ r \in Device /\ r # "asker"
    BY ExchangeAssumption DEF Sync, streamVars, ghosts, Device
  <1> DEFINE v == ApplyEvent(view[r], Head(news[r]))
             i == IF v.isNew \/ v.ids # {} THEN Item(v.isNew, v.ids) ELSE NoItem
  <1>2. /\ news' = [news EXCEPT ![r] = Tail(@)] /\ view' = [view EXCEPT ![r] = v]
        /\ item' = [item EXCEPT ![r] = i]
    <2>1. news' = [news EXCEPT ![r] = Tail(@)] /\ view' = [view EXCEPT ![r] = v]
      BY DEF Sync
    <2>2. view'[r] = v
      BY <1>1, <2>1 DEF ViewsTyped
    <2> HIDE DEF v
    <2>3. item' = [item EXCEPT ![r] = IF view'[r].isNew \/ view'[r].ids # {}
                                      THEN Item(view'[r].isNew, view'[r].ids) ELSE NoItem]
      BY <1>1 DEF Sync
    <2> QED BY <2>1, <2>2, <2>3
  <1>3. news[r] \in Seq(Events) /\ news[r] # <<>> /\ view[r] \in Requests
    BY <1>1 DEF Sync, ViewsTyped
  <1>4. Head(news[r]) \in Events /\ Tail(news[r]) \in Seq(Events)
    BY <1>3
  <1>5. v \in Requests
    BY <1>3, <1>4, EventEffect
  <1> HIDE DEF v
  <1>6. i \in Items
    BY <1>5 DEF Items, Item, Requests
  <1> HIDE DEF i
  <1>7. ViewsTyped'
    BY <1>1, <1>2, <1>4, <1>5, <1>6 DEF ViewsTyped
  <1>8. ASSUME NEW q \in Responder \ {r}
        PROVE  \A s \in request'.ids \cap known'[q] :
                   Coming(q, s)' \/ (Heard(q, s) /\ InHand(q, s))'
    <2>1. news'[q] = news[q] /\ view'[q] = view[q] /\ item'[q] = item[q]
      BY <1>2 DEF ViewsTyped, Device
    <2> QED BY <1>1, <2>1, PendingKept
  <1>9. ASSUME NEW s \in request'.ids \cap known'[r]
        PROVE  Coming(r, s)' \/ (Heard(r, s) /\ InHand(r, s))'
    <2>1. Coming(r, s) \/ Heard(r, s)
      BY <1>1 DEF Pending
    <2>2. Coming(r, s)' \/ (Heard(r, s)' /\ item'[r].open /\ s \in item'[r].ids)
      BY <2>1, Delivered
    <2> QED BY <2>2 DEF InHand
  <1> QED BY <1>7, <1>8, <1>9 DEF Pending

\* A device takes the solicitation off its queue, loses its answer or sends the keys.
LEMMA ViewsAnswer ==
    ASSUME Typed, JobsFit, ViewsTyped, Pending, NEW r \in Responder,
           ProcessKeySolicitation(r) \/ ShareGroupSessions(r) \/ ShareFails(r) \/ NotEntitled(r)
    PROVE  ViewsTyped' /\ Pending'
  <1>1. UNCHANGED <<request, news, view, known>> /\ lost \subseteq lost'
    BY DEF ProcessKeySolicitation, ShareGroupSessions, ShareFails, NotEntitled, streamVars, ghosts
  <1>2. ViewsTyped'
    <2>1. item' = item \/ item' = [item EXCEPT ![r] = NoItem]
      BY DEF ProcessKeySolicitation, ShareGroupSessions, ShareFails, NotEntitled
    <2>2. item' \in [Responder -> Items]
      BY <2>1 DEF ViewsTyped, Items
    <2> QED BY <1>1, <2>2 DEF ViewsTyped
  <1>3. ASSUME NEW q \in Responder \ {r}
        PROVE  \A s \in request'.ids \cap known'[q] :
                   Coming(q, s)' \/ (Heard(q, s) /\ InHand(q, s))'
    <2>1. item'[q] = item[q] /\ job'[q] = job[q]
      BY DEF ProcessKeySolicitation, ShareGroupSessions, ShareFails, NotEntitled, ViewsTyped, Typed
    <2> QED BY <1>1, <2>1, PendingKept
  <1>4. ASSUME NEW s \in request'.ids \cap known'[r]
        PROVE  Coming(r, s)' \/ (Heard(r, s) /\ InHand(r, s))'
    <2>1. Coming(r, s) \/ (Heard(r, s) /\ InHand(r, s))
      BY <1>1 DEF Pending
    <2>2. (Coming(r, s) => Coming(r, s)') /\ (Heard(r, s) => Heard(r, s)')
      BY <1>1 DEF Coming, Heard
    <2>3. ASSUME InHand(r, s) PROVE InHand(r, s)'
      <3>1. CASE s \in lost
        BY <1>1, <3>1 DEF InHand
      <3>2. CASE ProcessKeySolicitation(r) /\ item[r].open /\ s \in item[r].ids
        <4> DEFINE reply == IF item[r].isNew THEN known[r] ELSE known[r] \cap item[r].ids
        <4>1. s \in reply /\ s \in Fulfilled(reply, item[r].ids)
          BY <1>1, <1>4, <3>2 DEF Fulfilled
        <4>2. job' = IF reply = {} THEN job
                     ELSE [job EXCEPT ![r] = [at |-> "fulfill", reply |-> reply,
                                              ids |-> Fulfilled(reply, item[r].ids)]]
          BY <3>2 DEF ProcessKeySolicitation
        <4> HIDE DEF reply
        <4>3. job'[r] = [at |-> "fulfill", reply |-> reply, ids |-> Fulfilled(reply, item[r].ids)]
          BY <4>1, <4>2 DEF Typed
        <4> QED BY <4>1, <4>3 DEF InHand
      <3>3. CASE ProcessKeySolicitation(r) /\ ~(item[r].open /\ s \in item[r].ids)
        <4>1. job[r].at # "fulfill"
          BY <3>3 DEF ProcessKeySolicitation, Idle
        <4> QED BY <2>3, <3>1, <3>3, <4>1 DEF InHand
      <3>4. CASE ShareGroupSessions(r) \/ ShareFails(r)
        <4>1. job[r].at # "fulfill" /\ item' = item
          BY <3>4 DEF ShareGroupSessions, ShareFails
        <4> QED BY <2>3, <3>1, <4>1 DEF InHand
      <3>5. CASE NotEntitled(r)
        <4>1. job[r].at = "fulfill" /\ item' = item /\ lost' = lost \cup job[r].reply
          BY <3>5 DEF NotEntitled
        <4>2. job[r].ids \subseteq job[r].reply
          BY <4>1 DEF JobsFit
        <4> QED BY <2>3, <3>1, <4>1, <4>2 DEF InHand
      <3> QED BY <3>2, <3>3, <3>4, <3>5
    <2> QED BY <2>1, <2>2, <2>3
  <1> QED BY <1>2, <1>3, <1>4 DEF Pending

\* A fulfillment takes its sessions off the solicitation, unless someone else did.
LEMMA ViewsFulfill ==
    ASSUME Typed, ViewsTyped, Pending, NEW r \in Responder, SendKeyFulfillment(r)
    PROVE  ViewsTyped' /\ Pending'
  <1> DEFINE ids == job[r].ids
             e == [ask |-> FALSE, ids |-> ids]
  <1>1. UNCHANGED <<view, item, known, lost>> /\ job[r].at = "fulfill"
    BY DEF SendKeyFulfillment, ghosts
  <1>2. e \in Events
    BY <1>1, EventsSent
  <1>3. ASSUME NEW q \in Responder \ {r} PROVE job'[q] = job[q]
    BY DEF SendKeyFulfillment, Typed
  <1>4. CASE ValidKeyFulfillment(ids)
    <2>1. AddEvent(e) /\ job' = [job EXCEPT ![r].at = "share"]
      BY <1>4 DEF SendKeyFulfillment
    <2>2. request'.ids = request.ids \ ids
      BY <2>1 DEF AddEvent, ApplyEvent
    <2> HIDE DEF e
    <2>3. ViewsTyped'
      BY <1>1, <1>2, <2>1, AddedTyped
    <2>4. ASSUME NEW q \in Responder, NEW s \in request'.ids \cap known'[q]
          PROVE  Coming(q, s)' \/ (Heard(q, s) /\ InHand(q, s))'
      <3>1. \/ Coming(q, s)'
            \/ /\ s \in request.ids
               /\ Heard(q, s) => Heard(q, s)'
               /\ Coming(q, s) => Coming(q, s)'
        BY <1>1, <1>2, <2>1, Added
      <3>2. InHand(q, s) => InHand(q, s)'
        <4>1. q = r => s \notin job[q].ids
          BY <2>2
        <4> QED BY <1>1, <1>3, <4>1 DEF InHand
      <3>3. s \in request.ids => Coming(q, s) \/ (Heard(q, s) /\ InHand(q, s))
        BY <1>1 DEF Pending
      <3> QED BY <3>1, <3>2, <3>3
    <2> QED BY <2>3, <2>4 DEF Pending
  <1>5. CASE ~ValidKeyFulfillment(ids)
    <2>1. UNCHANGED <<request, news>> /\ request.ids \cap ids = {}
      BY <1>5 DEF SendKeyFulfillment, ValidKeyFulfillment
    <2>2. ViewsTyped'
      BY <1>1, <2>1 DEF ViewsTyped
    <2>3. ASSUME NEW q \in Responder, NEW s \in request'.ids \cap known'[q]
          PROVE  Coming(q, s)' \/ (Heard(q, s) /\ InHand(q, s))'
      <3>1. (Coming(q, s) => Coming(q, s)') /\ (Heard(q, s) => Heard(q, s)')
        BY <1>1, <2>1 DEF Coming, Heard
      <3>2. InHand(q, s) => InHand(q, s)'
        <4>1. q = r => s \notin job[q].ids
          BY <2>1
        <4> QED BY <1>1, <1>3, <4>1 DEF InHand
      <3>3. Coming(q, s) \/ (Heard(q, s) /\ InHand(q, s))
        BY <1>1, <2>1 DEF Pending
      <3> QED BY <3>1, <3>2, <3>3
    <2> QED BY <2>2, <2>3 DEF Pending
  <1> QED BY <1>4, <1>5

\* A device that starts again finds the solicitation in the stream.
LEMMA ViewsRestart ==
    ASSUME ViewsTyped, Pending, Typed, NEW r \in Responder, RestartResponder(r)
    PROVE  ViewsTyped' /\ Pending'
  <1> DEFINE i == IF request.ids = {} THEN NoItem ELSE Item(request.isNew, request.ids)
  <1>1. /\ UNCHANGED <<request, known>> /\ lost \subseteq lost' /\ r \in Device
        /\ view' = [view EXCEPT ![r] = request] /\ news' = [news EXCEPT ![r] = <<>>]
        /\ item' = [item EXCEPT ![r] = i] /\ job' = [job EXCEPT ![r] = Idle]
    BY DEF RestartResponder, streamVars, Device
  <1>2. i \in Items
    BY DEF ViewsTyped, Requests, Items, Item
  <1>3. \A s \in request.ids : i.open /\ s \in i.ids
    BY DEF Item
  <1> HIDE DEF i
  <1>4. ViewsTyped'
    <2>1. <<>> \in Seq(Events)
      OBVIOUS
    <2> QED BY <1>1, <1>2, <2>1 DEF ViewsTyped
  <1>5. ASSUME NEW q \in Responder \ {r}
        PROVE  \A s \in request'.ids \cap known'[q] :
                   Coming(q, s)' \/ (Heard(q, s) /\ InHand(q, s))'
    <2>1. /\ news'[q] = news[q] /\ view'[q] = view[q] /\ item'[q] = item[q] /\ job'[q] = job[q]
      BY <1>1 DEF ViewsTyped, Typed, Device
    <2> QED BY <1>1, <2>1, PendingKept
  <1>6. ASSUME NEW s \in request'.ids PROVE Heard(r, s)' /\ InHand(r, s)'
    <2>1. news'[r] = <<>> /\ view'[r] = request /\ item'[r] = i
      BY <1>1 DEF ViewsTyped
    <2>2. Heard(r, s)'
      BY <1>1, <2>1 DEF Heard
    <2> QED BY <1>1, <1>3, <2>1, <2>2 DEF InHand
  <1> QED BY <1>4, <1>5, <1>6 DEF Pending

LEMMA RestInvInit == ASSUME Init PROVE RestInv
  <1>1. KeysInv
    BY KeysInvInit
  <1>2. ViewsTyped
    <2>1. NoRequest \in Requests /\ <<>> \in Seq(Events) /\ NoItem \in Items
      BY DEF NoRequest, Requests, Items
    <2> QED BY <2>1 DEF Init, ViewsTyped
  <1>3. Pending
    BY DEF Init, Pending, NoRequest
  <1>4. failed \in [Session -> Nat] /\ Failures = {}
    BY DEF Init, Failures
  <1> QED BY <1>1, <1>2, <1>3, <1>4 DEF RestInv, AskedFor, Unreadable

LEMMA RestInvStep == ASSUME RestInv, [Next]_vars PROVE RestInv'
  <1>1. KeysInv'
    BY KeysInvStep DEF RestInv
  <1>2. Typed /\ JobsFit /\ ViewsTyped /\ Pending
    BY DEF RestInv, KeysInv
  <1>3. failed' \in [Session -> Nat] /\ AskedFor' /\ Unreadable'
    BY <1>2, AskedForStep DEF RestInv
  <1>4. ViewsTyped' /\ Pending'
    <2>1. CASE Aside
      BY <1>2, <2>1, ViewsAside
    <2>2. CASE SendKeySolicitation
      BY <1>2, <2>2, ViewsSolicit
    <2>3. CASE Restart \/ Sync("asker")
      BY <1>2, <2>3, ViewsAsker
    <2>4. ASSUME NEW r \in Responder,
                 Sync(r) \/ ResponderStep(r) \/ ShareFails(r) \/ NotEntitled(r)
                         \/ RestartResponder(r)
          PROVE  ViewsTyped' /\ Pending'
      BY <1>2, <2>4, ViewsSync, ViewsAnswer, ViewsFulfill, ViewsRestart DEF ResponderStep
    <2> QED BY <2>1, <2>2, <2>3, <2>4 DEF Next, AskerStep, Aside, Device
  <1> QED BY <1>1, <1>3, <1>4 DEF RestInv

\* At rest every failure was asked for, lost or left out; what was asked for and is
\* still unreadable is in the solicitation, which every device has seen, so none that has
\* its key is left without an answer.
LEMMA RestMeansAnswered == ASSUME RestInv PROVE NoKeyForgotten
  <1> SUFFICES ASSUME Quiet, NEW s \in Failures, NEW r \in Responder, s \in known[r],
                      s \notin lost \cup skipped
               PROVE  FALSE
    BY DEF NoKeyForgotten
  <1>1. asker.at = "idle" /\ job[r].at = "idle" /\ ~item[r].open /\ ~missing
    BY DEF Quiet, Idle
  <1>2. s \in asked
    BY <1>1 DEF RestInv, AskedFor
  <1>3. s \in request.ids
    <2>1. s \notin keys
      BY DEF RestInv, Unreadable
    <2>2. \A q \in Responder : job[q].at # "share"
      BY DEF Quiet, Idle
    <2>3. (done + 1) .. Len(inbox) = {}
      BY DEF Quiet, RestInv, KeysInv, Typed
    <2> QED BY <1>1, <1>2, <2>1, <2>2, <2>3 DEF RestInv, KeysInv, Covered
  <1>4. news[r] = <<>>
    BY DEF Quiet, Device
  <1>5. ~Coming(r, s)
    BY <1>4 DEF Coming
  <1>6. InHand(r, s)
    BY <1>3, <1>5 DEF RestInv, Pending
  <1> QED BY <1>1, <1>6 DEF InHand

\* Whenever the exchange of decryptionExtensions.ts comes to rest, a message that could
\* not be decrypted has a session whose key no device has, was lost, or was left out of
\* the solicitation.
THEOREM RestTheorem == Spec => []NoKeyForgotten
  <1>1. Init => RestInv
    BY RestInvInit
  <1>2. RestInv /\ [Next]_vars => RestInv'
    BY RestInvStep
  <1>3. RestInv => NoKeyForgotten
    BY RestMeansAnswered
  <1> QED BY <1>1, <1>2, <1>3, PTL DEF Spec
============================================================================

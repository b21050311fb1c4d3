---------------------------- MODULE KeyExchange ----------------------------
(* How a device gets the keys of messages it cannot read                       *)
(* (packages/sdk/src/decryptionExtensions.ts, clientDecryptionExtensions.ts,    *)
(* streamStateView_Members_Solicitations.ts, streamStateView_UserInbox.ts,      *)
(* client.ts).  One device asks in one stream; others answer.                   *)
(*                                                                            *)
(* The asking device adds a key solicitation to the stream.  A device that has  *)
(* some of the keys first adds a fulfillment, which the node takes only if the  *)
(* solicitation is still open, and then sends the keys to the inbox of the user. *)
(* Each step of a tick up to the next await is an action.                       *)
EXTENDS Integers, Sequences, FiniteSets

CONSTANTS
    Responder,   \* devices that may answer
    Session,     \* group sessions, numbers in the order of their ids
    MaxKeys,     \* the 100 of processMissingKeys
    Start,       \* who may have which keys at the start
    MaxContent,  \* bound: messages of each session
    MaxLag,      \* bound: events a device has not yet received
    Fault,       \* the kinds of fault that may happen
    MaxFault     \* bound: faults in a behaviour

ASSUME ExchangeAssumption ==
    /\ Session \subseteq Nat /\ "asker" \notin Responder
    /\ Start \subseteq [keys : SUBSET Session, known : [Responder -> SUBSET Session]]
    /\ MaxContent \in [Session -> Nat]
    /\ MaxKeys \in Nat \ {0} /\ MaxLag \in Nat \ {0} /\ MaxFault \in Nat

VARIABLES
    request,   \* the solicitation of the device in the state of the stream at the node
    news,      \* news[d]: solicitations and fulfillments the device has not yet applied
    view,      \* view[d]: the solicitation in the device's view of the stream
    inbox,     \* sets of sessions sent to the inbox of the asking user: those the device
               \* has not taken are its queue newGroupSession
    acked,     \* messages of the inbox that the device has acknowledged
    arrived,   \* arrived[s]: messages of s that have reached the device
    read,      \* read[s]: those it has decrypted
    failed,    \* failed[s]: decryptionFailures; the others are in encryptedContent
    keys,      \* sessions the device has keys of
    missing,   \* isMissingKeys
    done,      \* messages taken off the queue
    asker,     \* what the tick in progress waits for
    item,      \* item[r]: the solicitation in the queue of r
    job,       \* job[r]: the solicitation r is processing
    known,     \* known[r]: sessions r has keys of
    lost,      \* sessions whose keys, or whose request, were lost
    skipped,   \* failed sessions that are not in the last solicitation
    asked,     \* the sessions of the device's last solicitation
    faults

streamVars == <<request, asked>>
deviceVars == <<arrived, read, failed, keys, missing>>
inboxVars == <<inbox, acked, done>>
answerVars == <<item, job, known>>
ghosts == <<lost, skipped>>
vars == <<streamVars, deviceVars, inboxVars, asker, news, view, answerVars, ghosts, faults>>

Device == {"asker"} \union Responder
Idle == [at |-> "idle"]
NoItem == [open |-> FALSE]
Item(isNewDevice, ids) == [open |-> TRUE, isNew |-> isNewDevice, ids |-> ids]
NoRequest == [isNew |-> FALSE, ids |-> {}]
Fails(kind) == kind \in Fault /\ faults < MaxFault /\ faults' = faults + 1

\* Mutant of ApplyEvent: a fulfillment closes the solicitation.
ApplyEventCloses(old, e) ==
    IF e.ask THEN [isNew |-> e.isNew, ids |-> e.ids] ELSE NoRequest

\* applySolicitation and applyFulfillment.
ApplyEvent(old, e) ==
    IF e.ask THEN [isNew |-> e.isNew, ids |-> e.ids]
             ELSE [isNew |-> FALSE, ids |-> old.ids \ e.ids]

\* The node adds an event, which goes to every device.
AddEvent(e) ==
    /\ \A d \in Device : Len(news[d]) < MaxLag
    /\ request' = ApplyEvent(request, e)
    /\ news' = [d \in Device |-> Append(news[d], e)]

Failures == {s \in Session : failed[s] > 0}
Queued(s) == arrived[s] - read[s] - failed[s]
----------------------------------------------------------------------------
(* The device that asks.                                                       *)

\* A message arrives: enqueueNewEncryptedContent.
NewContent(s) ==
    /\ arrived[s] < MaxContent[s]
    /\ arrived' = [arrived EXCEPT ![s] = @ + 1]
    /\ UNCHANGED <<streamVars, read, failed, keys, missing, inboxVars, asker, news, view, answerVars,
                   ghosts, faults>>

\* tick: new sessions go before content, content before missing keys.
TakeSession == asker = Idle /\ done < Len(inbox)
TakeContent == asker = Idle /\ done = Len(inbox) /\ \E s \in Session : Queued(s) > 0
TakeMissing == asker = Idle /\ done = Len(inbox) /\ \A s \in Session : Queued(s) = 0

\* processNewGroupSession up to importSessionKeys.  Keys the device has are skipped.
ProcessNewGroupSession ==
    /\ TakeSession
    /\ done' = done + 1
    /\ asker' = IF inbox[done + 1] \subseteq keys THEN Idle
                ELSE [at |-> "import", ids |-> inbox[done + 1]]
    /\ UNCHANGED <<streamVars, deviceVars, inbox, acked, news, view, answerVars, ghosts, faults>>

\* Mutant of Ack: messages in the queue are acknowledged too.
AckAll == acked' = Len(inbox)

\* The acknowledgement covers the messages of the miniblocks of the view, and is only
\* sent when no message waits in the queue.
Ack ==
    IF done = Len(inbox) THEN acked' \in acked..done ELSE UNCHANGED acked

\* importSessionKeys returns: failures of these sessions are queued again.
ImportSessionKeys ==
    /\ asker.at = "import"
    /\ keys' = keys \union asker.ids
    /\ failed' = [s \in Session |-> IF s \in asker.ids THEN 0 ELSE failed[s]]
    /\ asker' = Idle
    /\ Ack
    /\ UNCHANGED <<streamVars, arrived, read, missing, inbox, done, news, view, answerVars, ghosts,
                   faults>>

\* importSessionKeys throws.
ImportFails ==
    /\ asker.at = "import"
    /\ Fails("import")
    /\ lost' = lost \union asker.ids
    /\ asker' = Idle
    /\ Ack
    /\ UNCHANGED <<streamVars, deviceVars, inbox, done, news, view, answerVars, skipped>>

\* processEncryptedContentItem.
ProcessContent(s) ==
    /\ TakeContent /\ Queued(s) > 0
    /\ IF s \in keys
       THEN read' = [read EXCEPT ![s] = @ + 1] /\ UNCHANGED <<failed, missing>>
       ELSE failed' = [failed EXCEPT ![s] = @ + 1] /\ missing' = TRUE /\ UNCHANGED read
    /\ UNCHANGED <<streamVars, arrived, keys, inboxVars, asker, news, view, answerVars, ghosts, faults>>

\* The first sessions in the order of their ids.
TakeFirst(n, set) == {s \in set : Cardinality({t \in set : t < s}) < n}

\* processMissingKeys up to sendKeySolicitation.
ProcessMissingKeys ==
    LET ids == TakeFirst(MaxKeys, Failures)
        open == view["asker"]
        asks == ids # {} /\ ~open.isNew /\ open.ids # ids IN
    /\ TakeMissing /\ missing
    /\ missing' = FALSE
    /\ asker' = IF asks THEN [at |-> "ask", ids |-> ids, isNew |-> keys = {}] ELSE Idle
    /\ skipped' = Failures \ (IF asks THEN ids ELSE asked)
    /\ UNCHANGED <<streamVars, arrived, read, failed, keys, inboxVars, news, view, answerVars, lost, faults>>

\* retryDecryptionFailures, on a change of the user's membership.
RetryDecryptionFailures ==
    /\ Failures # {} /\ ~missing
    /\ Fails("member")
    /\ missing' = TRUE
    /\ UNCHANGED <<streamVars, arrived, read, failed, keys, inboxVars, asker, news, view, answerVars,
                   ghosts>>

SendKeySolicitation ==
    /\ asker.at = "ask"
    /\ AddEvent([ask |-> TRUE, isNew |-> asker.isNew, ids |-> asker.ids])
    /\ asked' = asker.ids
    /\ asker' = Idle
    /\ UNCHANGED <<deviceVars, inboxVars, view, answerVars, ghosts, faults>>

\* The event is not added: the tick ends and nothing asks again.
SendKeySolicitationFails ==
    /\ asker.at = "ask"
    /\ Fails("solicit")
    /\ lost' = lost \union asker.ids
    /\ asker' = Idle
    /\ UNCHANGED <<streamVars, deviceVars, inboxVars, news, view, answerVars, skipped>>

\* The device starts again.  Keys, decrypted text and acknowledgements are stored;
\* content that is not decrypted, and messages of the inbox, come again.
Restart ==
    /\ Fails("restart")
    /\ asker' = Idle
    /\ failed' = [s \in Session |-> 0]
    /\ missing' = FALSE
    /\ done' = acked
    /\ view' = [view EXCEPT !["asker"] = request]
    /\ news' = [news EXCEPT !["asker"] = <<>>]
    /\ UNCHANGED <<streamVars, arrived, read, keys, inbox, acked, answerVars, ghosts>>
----------------------------------------------------------------------------
(* The devices that answer.                                                    *)

\* The device applies the next event of the stream: enqueueKeySolicitation.
Sync(d) ==
    /\ news[d] # <<>>
    /\ news' = [news EXCEPT ![d] = Tail(@)]
    /\ view' = [view EXCEPT ![d] = ApplyEvent(@, Head(news[d]))]
    /\ item' = IF d = "asker" THEN item
               ELSE [item EXCEPT ![d] = IF view'[d].isNew \/ view'[d].ids # {}
                                        THEN Item(view'[d].isNew, view'[d].ids) ELSE NoItem]
    /\ UNCHANGED <<streamVars, deviceVars, inboxVars, asker, job, known, ghosts, faults>>

\* Mutant of Fulfilled: all that was asked for.
FulfilledAll(reply, ids) == ids

\* The session ids of the fulfillment.
Fulfilled(reply, ids) == reply \intersect ids

\* processKeySolicitation up to sendKeyFulfillment, when its respondAfter has come.
ProcessKeySolicitation(r) ==
    LET reply == IF item[r].isNew THEN known[r] ELSE known[r] \intersect item[r].ids IN
    /\ job[r] = Idle /\ item[r].open
    /\ item' = [item EXCEPT ![r] = NoItem]
    /\ job' = IF reply = {} THEN job
              ELSE [job EXCEPT ![r] = [at |-> "fulfill", reply |-> reply,
                                       ids |-> Fulfilled(reply, item[r].ids)]]
    /\ UNCHANGED <<streamVars, deviceVars, inboxVars, asker, news, view, known, ghosts, faults>>

\* validKeyFulfillment.
ValidKeyFulfillment(ids) ==
    request.isNew \/ request.ids \intersect ids # {}

\* sendKeyFulfillment.  If someone else has answered, that is all.
SendKeyFulfillment(r) ==
    /\ job[r].at = "fulfill"
    /\ IF ValidKeyFulfillment(job[r].ids)
       THEN /\ AddEvent([ask |-> FALSE, ids |-> job[r].ids])
            /\ job' = [job EXCEPT ![r].at = "share"]
       ELSE job' = [job EXCEPT ![r] = Idle] /\ UNCHANGED <<request, news>>
    /\ UNCHANGED <<asked, deviceVars, inboxVars, asker, view, item, known, ghosts, faults>>

\* encryptAndShareGroupSessions
ShareGroupSessions(r) ==
    /\ job[r].at = "share"
    /\ inbox' = Append(inbox, job[r].reply)
    /\ job' = [job EXCEPT ![r] = Idle]
    /\ UNCHANGED <<streamVars, deviceVars, acked, done, asker, news, view, item, known, ghosts, faults>>

\* The keys cannot be sent, which is logged.
ShareFails(r) ==
    /\ job[r].at = "share"
    /\ Fails("share")
    /\ lost' = lost \union job[r].ids
    /\ job' = [job EXCEPT ![r] = Idle]
    /\ UNCHANGED <<streamVars, deviceVars, inboxVars, asker, news, view, item, known, skipped>>

\* The user is not entitled, or an await before the fulfillment throws.
NotEntitled(r) ==
    /\ job[r].at = "fulfill"
    /\ Fails("entitled")
    /\ lost' = lost \union job[r].reply
    /\ job' = [job EXCEPT ![r] = Idle]
    /\ UNCHANGED <<streamVars, deviceVars, inboxVars, asker, news, view, item, known, skipped>>

\* A device that answers starts again: enqueueInitKeySolicitations.
RestartResponder(r) ==
    /\ Fails("crash")
    /\ view' = [view EXCEPT ![r] = request]
    /\ news' = [news EXCEPT ![r] = <<>>]
    /\ item' = [item EXCEPT ![r] = IF request.ids = {} THEN NoItem
                                   ELSE Item(request.isNew, request.ids)]
    /\ job' = [job EXCEPT ![r] = Idle]
    /\ lost' = IF job[r].at = "share" THEN lost \union job[r].ids ELSE lost
    /\ UNCHANGED <<streamVars, deviceVars, inboxVars, asker, known, skipped>>
----------------------------------------------------------------------------
Init ==
    /\ request = NoRequest /\ asked = {}
    /\ inbox = <<>> /\ acked = 0 /\ done = 0
    /\ arrived = [s \in Session |-> 0]
    /\ read = arrived /\ failed = arrived
    /\ missing = FALSE
    /\ asker = Idle
    /\ news = [d \in Device |-> <<>>] /\ view = [d \in Device |-> NoRequest]
    /\ item = [r \in Responder |-> NoItem] /\ job = [r \in Responder |-> Idle]
    /\ \E start \in Start : keys = start.keys /\ known = start.known
    /\ lost = {} /\ skipped = {}
    /\ faults = 0

AskerStep ==
    \/ ProcessNewGroupSession \/ ImportSessionKeys \/ (\E s \in Session : ProcessContent(s))
    \/ ProcessMissingKeys \/ SendKeySolicitation

ResponderStep(r) ==
    ProcessKeySolicitation(r) \/ SendKeyFulfillment(r) \/ ShareGroupSessions(r)

Next ==
    \/ \E s \in Session : NewContent(s)
    \/ AskerStep
    \/ ImportFails \/ SendKeySolicitationFails \/ Restart \/ RetryDecryptionFailures
    \/ \E d \in Device : Sync(d)
    \/ \E r \in Responder :
          ResponderStep(r) \/ ShareFails(r) \/ NotEntitled(r) \/ RestartResponder(r)

Spec == Init /\ [][Next]_vars

----------------------------------------------------------------------------
\* The variables keep their types.
TypeOK ==
    /\ acked \in 0..done /\ done \in 0..Len(inbox)
    /\ \A s \in Session : Queued(s) >= 0
    /\ asker.at \in {"idle", "import", "ask"}
    /\ \A r \in Responder : job[r].at \in {"idle", "fulfill", "share"}
    /\ keys \subseteq Session /\ lost \subseteq Session /\ skipped \subseteq Session

OnItsWay(s) ==
    \/ \E r \in Responder : job[r].at = "share" /\ s \in job[r].reply
    \/ \E i \in (done + 1)..Len(inbox) : s \in inbox[i]
    \/ asker.at = "import" /\ s \in asker.ids

\* A session of the last solicitation that processKeySolicitation of some device took
\* off it (sendKeyFulfillment comes before the keys are sent) has reached the device, or
\* its keys are on the way to it, unless the answering device failed in between.
FulfilledIsShared ==
    \A s \in asked :
        s \in request.ids \/ s \in keys \/ s \in lost \/ OnItsWay(s)

\* Devices that race to answer do not send the same keys over and over: one that goes
\* on to send keys has taken a session, or the mark of a new device, off the solicitation.
AnswersMakeProgress ==
    [][\A r \in Responder :
          job[r].at = "fulfill" /\ job'[r].at = "share" => request' # request]_vars

\* What ackNewGroupSession acknowledges need not be read again after a restart: its keys
\* were imported, or importSessionKeys threw.
AckedIsImported ==
    \A i \in 1..acked : inbox[i] \subseteq keys \union lost

\* Nothing is left to do: no queue holds anything, nothing is awaited or on its way.
Quiet ==
    /\ asker = Idle /\ ~missing /\ done = Len(inbox) /\ \A s \in Session : Queued(s) = 0
    /\ \A d \in Device : news[d] = <<>>
    /\ \A r \in Responder : job[r] = Idle /\ ~item[r].open

\* The exchange does not come to rest with a message that some device could help the
\* device read, unless the key or its request was lost, or processMissingKeys left its
\* session out: because the request of a new device was open, or as more sessions had
\* failed than a solicitation names.
NoKeyForgotten ==
    Quiet => \A s \in Failures :
        \/ \A r \in Responder : s \notin known[r]
        \/ s \in lost \union skipped
============================================================================

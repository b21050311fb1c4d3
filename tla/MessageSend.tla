---------------------------- MODULE MessageSend ----------------------------
(* Sending a message from the client: the local event that stands for it in   *)
(* the view (streamStateView.ts, stream.ts), the call that makes, sends and   *)
(* re-makes the event (client.ts), the retries of the transport               *)
(* (rpcInterceptors.ts), the node's addEvent, and the sync updates and view    *)
(* resets that run between any two awaits of the call.                         *)
(*                                                                            *)
(* The k-th event made for message m is [m, k]; k = 0 is the local id.  A      *)
(* message is sent by call 1 (sendChannelMessage), the later calls are         *)
(* retrySendMessage.                                                           *)
EXTENDS Integers, Sequences

CONSTANTS
    Msg,          \* messages
    MaxCall,      \* bound: calls for a message
    MaxTries,     \* the 3 of "retryCount < 3"
    MaxAttempts,  \* retryParams.maxAttempts
    MaxHeight,    \* bound: number of the last miniblock
    Fault,        \* the kinds of fault that may happen
    MaxFault      \* bound: faults in a behaviour

ASSUME SendAssumption ==
    /\ MaxCall \in Nat \ {0} /\ MaxTries \in Nat /\ MaxAttempts \in Nat
    /\ MaxHeight \in Nat /\ MaxFault \in Nat

VARIABLES
    height,    \* last miniblock on the node
    recent,    \* oldest miniblock that a new event may refer to
    accepted,  \* events the node has taken
    npool,     \* those of its minipool
    log,       \* what the node sends to a sync session: events and headers
    air,       \* addEvent requests the node has not handled
    cursor,    \* how much of log the client has applied
    tip,       \* prevMiniblockNum of the view
    item,      \* item[m]: the local event of m
    remote,    \* events of the timeline that have no local event
    call,      \* call[m][c]: a send call
    made,      \* made[m]: events made for m
    blot,      \* what has happened to a message: see Blots
    faults

nodeVars == <<height, recent, accepted, npool, log>>
viewVars == <<cursor, tip, remote>>
vars == <<nodeVars, air, viewVars, item, call, made, blot, faults>>

Calls == 1..MaxCall

\* The call was given up before a request was made; the outcome of a request that
\* the node took was not reported; the view was initialized anew.
Blots == {"unsent", "unsure", "reset"}
Blot(m, what) == blot' = [blot EXCEPT ![m] = @ \union {what}]

Event(m, k) == [m |-> m, k |-> k]
Fails(kind) == kind \in Fault /\ faults < MaxFault /\ faults' = faults + 1

NoItem == [shown |-> FALSE, pooled |-> FALSE, k |-> 0, remote |-> FALSE, status |-> "none"]
NoCall == [at |-> "none", id |-> 0, k |-> 0, ref |-> 0, tries |-> 0, attempt |-> 0,
           answer |-> "none", expected |-> 0]
----------------------------------------------------------------------------
(* The send call.                                                              *)

\* Mutants of Found: any local event will do; only the old id is looked up.
FoundAny(m, id, k) == item[m].pooled
FoundOld(m, id, k) == item[m].pooled /\ item[m].k = id

\* updateLocalEvent finds the local event under its old or its new id.
Found(m, id, k) == item[m].pooled /\ item[m].k \in {id, k}

UpdateLocalEvent(m, id, k, status) ==
    item' = IF Found(m, id, k)
            THEN [item EXCEPT ![m] = [@ EXCEPT !.k = k, !.status = status]]
            ELSE item

Request(m, c) ==
    [m |-> m, c |-> c, k |-> call[m][c].k, ref |-> call[m][c].ref, attempt |-> call[m][c].attempt]

\* appendLocalEvent, then the awaits before the event is made.
SendChannelMessage(m) ==
    /\ call[m][1].at = "none"
    /\ item' = [item EXCEPT ![m] = [NoItem EXCEPT !.shown = TRUE, !.pooled = TRUE,
                                                  !.status = "sending"]]
    /\ call' = [call EXCEPT ![m][1] = [NoCall EXCEPT !.at = "prepare"]]
    /\ UNCHANGED <<nodeVars, air, viewVars, made, blot, faults>>

\* The status is compared before the first await only.
RetrySendMessage(m, c) ==
    /\ c > 1 /\ call[m][c].at = "none" /\ call[m][c - 1].at # "none"
    /\ item[m].pooled /\ item[m].status = "failed"
    /\ call' = [call EXCEPT ![m][c] = [NoCall EXCEPT !.at = "prepare", !.id = item[m].k]]
    /\ UNCHANGED <<nodeVars, air, viewVars, item, made, blot, faults>>

\* Not entitled, or encryption fails: the local event is left as it is.
PrepareFails(m, c) ==
    /\ call[m][c].at = "prepare"
    /\ Fails("prepare")
    /\ call' = [call EXCEPT ![m][c].at = "threw"]
    /\ Blot(m, "unsent")
    /\ UNCHANGED <<nodeVars, air, viewVars, item, made>>

\* makeEventWithHashAndAddToStream up to the request.  saveCleartext may throw.
MakeEvent(m, c, id, ref, tries) ==
    LET k == made[m] + 1
        new == [NoCall EXCEPT !.id = id, !.k = k, !.ref = ref, !.tries = tries, !.attempt = 1]
    IN
    /\ made' = [made EXCEPT ![m] = k]
    /\ UpdateLocalEvent(m, id, k, "sending")
    /\ IF ~Found(m, id, k)
       THEN /\ call' = [call EXCEPT ![m][c] = [new EXCEPT !.at = "threw"]]
            /\ UNCHANGED <<air, blot, faults>>
       ELSE \/ /\ call' = [call EXCEPT ![m][c] = [new EXCEPT !.at = "request"]]
               /\ air' = air \union {[m |-> m, c |-> c, k |-> k, ref |-> ref, attempt |-> 1]}
               /\ UNCHANGED <<blot, faults>>
            \/ /\ Fails("store")
               /\ call' = [call EXCEPT ![m][c] = [new EXCEPT !.at = "threw"]]
               /\ Blot(m, "unsent")
               /\ UNCHANGED air

\* makeEventAndAddToStream refers to the last miniblock of the view.
Prepared(m, c) ==
    /\ call[m][c].at = "prepare"
    /\ MakeEvent(m, c, call[m][c].id, tip, 0)
    /\ UNCHANGED <<nodeVars, viewVars>>

\* addEvent returns.  When the local event is gone, the update throws inside the
\* try block, and so does the update to 'failed' in the catch block.
AddEventReturns(m, c) ==
    LET k == call[m][c].k IN
    /\ call[m][c].at = "request" /\ call[m][c].answer = "ok"
    /\ UpdateLocalEvent(m, call[m][c].id, k, "sent")
    /\ call' = [call EXCEPT ![m][c].at = IF Found(m, call[m][c].id, k) THEN "done" ELSE "threw"]
    /\ UNCHANGED <<nodeVars, air, viewVars, made, blot, faults>>

\* BAD_PREV_MINIBLOCK_HASH: a new event, for the miniblock the node names.
RetryBadPrev(m, c) ==
    /\ call[m][c].at = "request" /\ call[m][c].answer = "badPrev" /\ call[m][c].tries < MaxTries
    /\ MakeEvent(m, c, call[m][c].k, call[m][c].expected, call[m][c].tries + 1)
    /\ UNCHANGED <<nodeVars, viewVars>>

\* MINIBLOCK_TOO_NEW, and PERMISSION_DENIED for a transaction that is not confirmed:
\* a new event after a delay.  Only the second is counted.
RetryLater(m, c) ==
    /\ call[m][c].at = "request"
    /\ \/ call[m][c].answer = "tooNew"
       \/ call[m][c].answer = "unconfirmed" /\ call[m][c].tries < MaxTries
    /\ MakeEvent(m, c, call[m][c].k, call[m][c].ref, call[m][c].tries + 1)
    /\ UNCHANGED <<nodeVars, viewVars>>

\* Mutant of SendFails: errors that were tried again too often are not failures, and the
\* local event is not marked.
SendFailsSilently(m, c) ==
    /\ call[m][c].at = "request" /\ call[m][c].answer = "error"
    /\ call' = [call EXCEPT ![m][c].at = "threw"]
    /\ UNCHANGED <<nodeVars, air, viewVars, item, made, blot, faults>>

\* Any other error, or too many of these.
SendFails(m, c) ==
    /\ call[m][c].at = "request"
    /\ \/ call[m][c].answer = "error"
       \/ call[m][c].answer \in {"badPrev", "unconfirmed"} /\ call[m][c].tries >= MaxTries
    /\ UpdateLocalEvent(m, call[m][c].id, call[m][c].k, "failed")
    /\ call' = [call EXCEPT ![m][c].at = "threw"]
    /\ UNCHANGED <<nodeVars, air, viewVars, made, blot, faults>>

\* retryInterceptor: no answer in time, or one that says to try again.  The node may
\* have handled the request or may still handle it.
Timeout(m, c) ==
    /\ call[m][c].at = "request" /\ call[m][c].answer \in {"none", "ok"}
    /\ Fails("timeout")
    /\ IF call[m][c].attempt > MaxAttempts
       THEN /\ call' = [call EXCEPT ![m][c].answer = "error"]
            /\ UNCHANGED air
       ELSE LET again == call[m][c].attempt + 1 IN
            /\ call' = [call EXCEPT ![m][c] = [@ EXCEPT !.answer = "none", !.attempt = again]]
            /\ air' = air \union {[Request(m, c) EXCEPT !.attempt = again]}
    /\ Blot(m, "unsure")
    /\ UNCHANGED <<nodeVars, viewVars, item, made>>
----------------------------------------------------------------------------
(* The node.                                                                   *)

\* Mutant of Answer: a late answer is taken for the answer of the request that waits.
AnswerLate(q, answer) ==
    LET w == call[q.m][q.c] IN
    call' = IF w.at = "request"
            THEN [call EXCEPT ![q.m][q.c] = [w EXCEPT !.answer = answer, !.expected = height]]
            ELSE call

\* The answer reaches the call if it still waits for this attempt.
Answer(q, answer) ==
    LET w == call[q.m][q.c] IN
    call' = IF w.at = "request" /\ w.k = q.k /\ w.attempt = q.attempt
            THEN [call EXCEPT ![q.m][q.c] = [w EXCEPT !.answer = answer, !.expected = height]]
            ELSE call

\* Mutant of Take: the event is not sent to sync sessions.
TakeQuietly(e) ==
    /\ accepted' = accepted \union {e}
    /\ npool' = npool \union {e}
    /\ UNCHANGED log

\* addEventLocked: a duplicate is not an error.
Take(e) ==
    IF e \in accepted
    THEN UNCHANGED <<accepted, npool, log>>
    ELSE /\ accepted' = accepted \union {e}
         /\ npool' = npool \union {e}
         /\ log' = Append(log, [header |-> FALSE, events |-> {e}])

\* ValidateNextEvent compares the reference before it looks for a duplicate.
AddEvent(q) ==
    /\ q \in air
    /\ air' = air \ {q}
    /\ IF q.ref < recent
       THEN Answer(q, "badPrev") /\ UNCHANGED <<accepted, npool, log>>
       ELSE Answer(q, "ok") /\ Take(Event(q.m, q.k))
    /\ UNCHANGED <<height, recent, viewVars, item, made, blot, faults>>

\* The node refuses, or reports an error of a request that some replicas have taken.
AddEventFails(q) ==
    /\ q \in air
    /\ Fails("node")
    /\ air' = air \ {q}
    /\ \/ /\ \E answer \in {"tooNew", "unconfirmed", "error"} : Answer(q, answer)
          /\ UNCHANGED <<accepted, npool, log, blot>>
       \/ /\ q.ref >= recent
          /\ Answer(q, "error") /\ Take(Event(q.m, q.k)) /\ Blot(q.m, "unsure")
    /\ UNCHANGED <<height, recent, viewVars, item, made>>

\* A miniblock with the events of the minipool, which may be those of others.
NewBlock ==
    /\ height < MaxHeight
    /\ height' = height + 1
    /\ npool' = {}
    /\ log' = Append(log, [header |-> TRUE, events |-> npool])
    /\ UNCHANGED <<recent, accepted, air, viewVars, item, call, made, blot, faults>>

\* isRecentBlock: time passes.
BlocksAge ==
    /\ recent < height
    /\ recent' \in (recent + 1)..height
    /\ UNCHANGED <<height, accepted, npool, log, air, viewVars, item, call, made, blot, faults>>
----------------------------------------------------------------------------
(* Sync.                                                                       *)

\* appendStreamAndCookie and processMiniblockHeader.
SyncUpdate ==
    /\ cursor < Len(log)
    /\ cursor' = cursor + 1
    /\ LET u == log[cursor + 1]
           local == {m \in Msg : item[m].pooled /\ Event(m, item[m].k) \in u.events}
           known == {Event(m, item[m].k) : m \in local} IN
       IF u.header
       THEN /\ tip' = tip + 1
            /\ item' = [m \in Msg |-> IF m \in local THEN [item[m] EXCEPT !.pooled = FALSE]
                                                     ELSE item[m]]
            /\ UNCHANGED remote
       ELSE /\ item' = [m \in Msg |-> IF m \in local THEN [item[m] EXCEPT !.remote = TRUE]
                                                     ELSE item[m]]
            /\ remote' = remote \union (u.events \ known)
            /\ UNCHANGED tip
    /\ UNCHANGED <<nodeVars, air, call, made, blot, faults>>

\* Mutant of SyncReset: the new view has the events of the old one.
SyncResetStale ==
    /\ Fails("reset")
    /\ cursor' = Len(log) /\ tip' = height
    /\ item' = [m \in Msg |-> [NoItem EXCEPT !.status = item[m].status]]
    /\ blot' = [m \in Msg |-> blot[m] \union {"reset"}]
    /\ UNCHANGED <<nodeVars, air, remote, call, made>>

\* Stream.initialize: the new view keeps the local events that have no hash yet in
\* its timeline, but not in its minipool.
SyncReset ==
    /\ Fails("reset")
    /\ cursor' = Len(log)
    /\ tip' = height
    /\ remote' = accepted
    /\ item' = [m \in Msg |-> [item[m] EXCEPT !.shown = item[m].pooled /\ item[m].k = 0,
                                              !.pooled = FALSE, !.remote = FALSE]]
    /\ blot' = [m \in Msg |-> blot[m] \union {"reset"}]
    /\ UNCHANGED <<nodeVars, air, call, made>>
----------------------------------------------------------------------------
Init ==
    /\ height = 0 /\ recent = 0 /\ accepted = {} /\ npool = {} /\ log = <<>> /\ air = {}
    /\ cursor = 0 /\ tip = 0 /\ remote = {}
    /\ item = [m \in Msg |-> NoItem]
    /\ call = [m \in Msg |-> [c \in Calls |-> NoCall]]
    /\ made = [m \in Msg |-> 0]
    /\ blot = [m \in Msg |-> {}]
    /\ faults = 0

CallStep(m, c) ==
    \/ Prepared(m, c) \/ AddEventReturns(m, c) \/ RetryBadPrev(m, c) \/ RetryLater(m, c)
    \/ SendFails(m, c)

Next ==
    \/ \E m \in Msg : SendChannelMessage(m)
    \/ \E m \in Msg, c \in Calls :
          RetrySendMessage(m, c) \/ PrepareFails(m, c) \/ Timeout(m, c) \/ CallStep(m, c)
    \/ \E q \in air : AddEvent(q) \/ AddEventFails(q)
    \/ NewBlock \/ BlocksAge \/ SyncUpdate \/ SyncReset

Spec == Init /\ [][Next]_vars

\* A call that can go on does, the node handles what reaches it and the sync session
\* goes on.  Faults, retries of the user, and the age of blocks need not happen.
Fairness ==
    /\ WF_vars(SyncUpdate)
    /\ \A m \in Msg, c \in Calls :
          /\ WF_vars(CallStep(m, c))
          /\ WF_vars(\E q \in air : q.m = m /\ q.c = c /\ AddEvent(q))

FairSpec == Spec /\ Fairness
----------------------------------------------------------------------------
\* The variables keep their types.
TypeOK ==
    /\ height \in 0..MaxHeight /\ recent \in 0..height /\ tip \in 0..height
    /\ npool \subseteq accepted /\ remote \subseteq accepted
    /\ cursor \in 0..Len(log)
    /\ \A m \in Msg : item[m].status \in {"none", "sending", "sent", "failed"}
    /\ \A m \in Msg, c \in Calls :
          call[m][c].at \in {"none", "prepare", "request", "done", "threw"}
    /\ blot \in [Msg -> SUBSET Blots]

Posted(m) == {e \in accepted : e.m = m}
Applied == UNION {log[i].events : i \in 1..cursor}
Confirmed == UNION {log[i].events : i \in {j \in 1..cursor : log[j].header}}

\* A message that is shown as sent, and a call that returned, have their event in
\* the stream.
SentIsDelivered ==
    \A m \in Msg :
        /\ item[m].status = "sent" => Event(m, item[m].k) \in accepted
        /\ \A c \in Calls : call[m][c].at = "done" => Event(m, call[m][c].k) \in accepted

\* A message is posted twice only when the outcome of a request that the node took was
\* not reported: the retries of the code, and retries of the user that overlap, never
\* post it again by themselves.
PostedTwiceOnlyIfUnsure ==
    \A m \in Msg : (\E e, f \in Posted(m) : e # f) => "unsure" \in blot[m]

\* An event that the view has applied is in its timeline, with or without a local
\* event, unless the message was made anew after a lost answer and the local event
\* of the first one has taken the id of the second.
AppliedIsShown ==
    \A e \in Applied :
        \/ e \in remote
        \/ item[e.m].shown /\ item[e.m].k = e.k
        \/ item[e.m].k > e.k /\ "unsure" \in blot[e.m]

\* No message is in the timeline twice, unless it was posted twice or may be.
ShownOnce ==
    \A m \in Msg :
        item[m].shown /\ (\E e \in remote : e.m = m) => "unsure" \in blot[m]

\* The timeline shows a message that has arrived, and shows it once, whether its
\* local event was confirmed, had no id yet or was lost to a reset when sync brought
\* the event.
ShownExactlyOnce == AppliedIsShown /\ ShownOnce

\* A call whose event is in the stream rejects only when the view had confirmed the
\* event before addEvent returned, the view was reset, or an answer was lost.
RejectedOnlyByRace ==
    \A m \in Msg, c \in Calls :
        call[m][c].at = "threw" /\ Event(m, call[m][c].k) \in accepted =>
            Event(m, call[m][c].k) \in Confirmed \/ blot[m] \intersect {"unsure", "reset"} # {}

\* updateLocalEvent: 'Local event not found'.  A call that has made its request ends
\* with its local event.
LocalEventFound ==
    \A m \in Msg, c \in Calls :
        call[m][c].at = "request" => Found(m, call[m][c].id, call[m][c].k)

\* A message does not stay in 'sending': it is sent, marked as failed or arrives by
\* sync, unless the call gave up before the request or the view was reset.
SendingEnds ==
    \A m \in Msg :
        (item[m].status = "sending") ~>
            (item[m].status # "sending" \/ item[m].remote \/ blot[m] \intersect {"unsent", "reset"} # {})

\* What the node has taken is shown in the end.
DeliveredIsShown ==
    \A m \in Msg :
        (Posted(m) # {}) ~> (item[m].remote \/ \E e \in remote : e.m = m)
============================================================================

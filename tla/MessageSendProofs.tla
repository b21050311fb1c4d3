------------------------- MODULE MessageSendProofs -------------------------
(* Proofs about MessageSend, for any number of messages, calls, attempts,      *)
(* miniblocks and faults.                                                      *)
(*                                                                             *)
(* The argument: of the calls for a message at most one waits for the node,    *)
(* and the local event has the id of what it sent.  A call that has not made   *)
(* its event yet knows the local event by an older id, unless the message has  *)
(* failed.  As long as no answer is lost, the only request under way is the    *)
(* one of the call that waits, so that nothing is sent after the node has      *)
(* taken an event of the message.                                              *)
(*                                                                             *)
(* For the timeline: the node lists an event before the header that contains   *)
(* it, and what the view has been given is shown, as itself or as the local    *)
(* event it confirmed.  For rejected calls: each call sends events of its own, *)
(* so that its local event goes only for a reason that is on record.           *)
EXTENDS MessageSend, TLAPS

\* A step that names no prover is tried with these, in this order.
USE ZenonT(3), SMTT(20), SMTT(21), ZenonT(20)

CallStates == [at : {"none", "prepare", "request", "done", "threw"}, id : Nat, k : Nat, ref : Nat,
               tries : Nat, attempt : Nat,
               answer : {"none", "ok", "badPrev", "tooNew", "unconfirmed", "error"},
               expected : Nat]

Requests == [m : Msg, c : Calls, k : Nat \ {0}, ref : Nat, attempt : Nat]

Fields == {"shown", "pooled", "k", "remote", "status"}

\* The types the argument needs.
Typed ==
    /\ height \in Nat /\ tip \in Nat
    /\ accepted \subseteq [m : Msg, k : Nat \ {0}]
    /\ air \subseteq Requests
    /\ call \in [Msg -> [Calls -> CallStates]]
    /\ made \in [Msg -> Nat]
    /\ DOMAIN item = Msg
    /\ \A m \in Msg : DOMAIN item[m] = Fields /\ item[m].k \in Nat
    /\ blot \in [Msg -> SUBSET Blots]

Waits(m, c) == call[m][c].at = "request"

\* Nothing has happened for a message that was not sent.
StartsFirst(m) ==
    /\ \A c \in Calls : call[m][c].at # "none" => call[m][1].at # "none"
    /\ call[m][1].at = "none" => made[m] = 0 /\ Posted(m) = {} /\ \A q \in air : q.m # m

\* Ids are fresh; one call waits, and the local event has the id of what it sent; a call
\* that still prepares its event has an older id or found the message failed.
OneWaits(m) ==
    /\ item[m].k <= made[m]
    /\ \A c \in Calls :
          /\ call[m][c].at = "prepare" =>
                /\ call[m][c].id <= made[m]
                /\ call[m][c].id = item[m].k => item[m].status = "failed" \/ item[m].k = 0
          /\ Waits(m, c) => /\ call[m][c].k = item[m].k /\ item[m].k # 0
                            /\ item[m].status = "sending"
    /\ \A c, d \in Calls : Waits(m, c) /\ Waits(m, d) => c = d

\* While no answer is lost: a request under way is that of a call that waits, and once
\* the node has taken an event nothing more is sent.
SentOnce(m) ==
    "unsure" \notin blot[m] =>
        /\ \A q \in air : q.m = m =>
              /\ Waits(m, q.c) /\ call[m][q.c].k = q.k /\ call[m][q.c].ref = q.ref
              /\ call[m][q.c].attempt = q.attempt /\ call[m][q.c].answer = "none"
        /\ \A e \in Posted(m) : e.k = item[m].k
        /\ Posted(m) # {} =>
              /\ \A c \in Calls : Waits(m, c) => call[m][c].answer = "ok"
              /\ \/ ~item[m].pooled \/ item[m].status = "sent"
                 \/ \E c \in Calls : Waits(m, c)

SendInv == Typed /\ \A m \in Msg : StartsFirst(m) /\ OneWaits(m) /\ SentOnce(m)

\* An answer "ok" is that of the request the call waits for.
Delivered(m) ==
    /\ item[m].status = "sent" => Event(m, item[m].k) \in accepted
    /\ \A c \in Calls :
          call[m][c].at = "done" \/ (Waits(m, c) /\ call[m][c].answer = "ok") =>
              Event(m, call[m][c].k) \in accepted

DeliveryInv == SendInv /\ \A m \in Msg : Delivered(m)

----------------------------------------------------------------------------
\* What a change of one call is to the others.
LEMMA OneCall ==
    ASSUME Typed, NEW m \in Msg, NEW c \in Calls, NEW w \in CallStates,
           call' = [call EXCEPT ![m][c] = w]
    PROVE  /\ call' \in [Msg -> [Calls -> CallStates]]
           /\ call'[m][c] = w
           /\ \A d \in Calls \ {c} : call'[m][d] = call[m][d]
           /\ \A n \in Msg \ {m} : call'[n] = call[n]
  BY DEF Typed

\* What updateLocalEvent changes.
LEMMA OneItem ==
    ASSUME Typed, NEW m \in Msg, NEW id \in Nat, NEW k \in Nat, NEW status,
           UpdateLocalEvent(m, id, k, status)
    PROVE  /\ DOMAIN item' = Msg
           /\ \A n \in Msg : DOMAIN item'[n] = Fields /\ item'[n].k \in Nat
           /\ \A n \in Msg \ {m} : item'[n] = item[n]
           /\ Found(m, id, k) => /\ item'[m].k = k /\ item'[m].status = status
                                 /\ item'[m].pooled = item[m].pooled
           /\ ~Found(m, id, k) => item' = item
  <1>1. CASE Found(m, id, k)
    <2>1. item' = [item EXCEPT ![m] = [item[m] EXCEPT !.k = k, !.status = status]]
      BY <1>1 DEF UpdateLocalEvent
    <2> QED BY <1>1, <2>1 DEF Typed, Fields
  <1>2. CASE ~Found(m, id, k)
    BY <1>2 DEF UpdateLocalEvent, Typed
  <1> QED BY <1>1, <1>2

\* What makeEventWithHashAndAddToStream changes.
LEMMA MakeEventChanges ==
    ASSUME Typed, NEW m \in Msg, NEW c \in Calls, NEW id \in Nat, NEW ref \in Nat, NEW tries \in Nat,
           MakeEvent(m, c, id, ref, tries)
    PROVE  LET k == made[m] + 1 IN
           /\ made' = [made EXCEPT ![m] = k]
           /\ call' \in [Msg -> [Calls -> CallStates]]
           /\ \A d \in Calls \ {c} : call'[m][d] = call[m][d]
           /\ \A n \in Msg \ {m} : call'[n] = call[n]
           /\ UpdateLocalEvent(m, id, k, "sending") /\ call'[m][c].k = k
           /\ \/ /\ call'[m][c].at = "threw" /\ air' = air
                 /\ ~Found(m, id, k) /\ blot' = blot
              \/ /\ call'[m][c].at = "threw" /\ air' = air
                 /\ Found(m, id, k) /\ Blot(m, "unsent")
              \/ /\ Found(m, id, k) /\ blot' = blot
                 /\ call'[m][c].at = "request" /\ call'[m][c].k = k /\ call'[m][c].ref = ref
                 /\ call'[m][c].attempt = 1 /\ call'[m][c].answer = "none"
                 /\ air' = air \cup {[m |-> m, c |-> c, k |-> k, ref |-> ref, attempt |-> 1]}
  <1> DEFINE k == made[m] + 1
             new == [NoCall EXCEPT !.id = id, !.k = k, !.ref = ref, !.tries = tries, !.attempt = 1]
  <1>1. k \in Nat
    BY DEF Typed
  <1>2. /\ new \in CallStates /\ new.k = k /\ new.ref = ref /\ new.attempt = 1 /\ new.answer = "none"
        /\ [new EXCEPT !.at = "threw"] \in CallStates
        /\ [new EXCEPT !.at = "request"] \in CallStates
    <2> HIDE DEF k
    <2> QED BY <1>1 DEF CallStates, NoCall
  <1>0. made' = [made EXCEPT ![m] = k] /\ UpdateLocalEvent(m, id, k, "sending")
    BY DEF MakeEvent
  <1>3. CASE ~Found(m, id, k)
    <2>1. call' = [call EXCEPT ![m][c] = [new EXCEPT !.at = "threw"]] /\ air' = air /\ blot' = blot
      BY <1>3 DEF MakeEvent
    <2>2. [new EXCEPT !.at = "threw"].at = "threw" /\ [new EXCEPT !.at = "threw"].k = new.k
      BY DEF NoCall
    <2> HIDE DEF new
    <2> DEFINE w == [new EXCEPT !.at = "threw"]
    <2>3. /\ call' \in [Msg -> [Calls -> CallStates]] /\ call'[m][c] = w
          /\ \A d \in Calls \ {c} : call'[m][d] = call[m][d]
          /\ \A n \in Msg \ {m} : call'[n] = call[n]
      <3>1. w \in CallStates /\ call' = [call EXCEPT ![m][c] = w]
        BY <1>2, <1>3, <2>1
      <3> HIDE DEF w
      <3> QED BY <3>1 DEF Typed
    <2> QED BY <1>0, <1>2, <1>3, <2>1, <2>2, <2>3
  <1>4. CASE Found(m, id, k) /\ call' = [call EXCEPT ![m][c] = [new EXCEPT !.at = "request"]]
    <2>1. [new EXCEPT !.at = "request"].at = "request"
          /\ \A f \in {"k", "ref", "attempt", "answer"} : [new EXCEPT !.at = "request"][f] = new[f]
      BY DEF NoCall
    <2>2. /\ blot' = blot
          /\ air' = air \cup {[m |-> m, c |-> c, k |-> k, ref |-> ref, attempt |-> 1]}
      <3>1. [new EXCEPT !.at = "request"] # [new EXCEPT !.at = "threw"]
        BY DEF NoCall
      <3>2. call' # [call EXCEPT ![m][c] = [new EXCEPT !.at = "threw"]]
        <4> HIDE DEF new
        <4> QED BY <1>2, <1>4, <3>1 DEF Typed
      <3> QED BY <1>4, <3>2 DEF MakeEvent
    <2> HIDE DEF new
    <2> DEFINE w == [new EXCEPT !.at = "request"]
    <2>3. /\ call' \in [Msg -> [Calls -> CallStates]] /\ call'[m][c] = w
          /\ \A d \in Calls \ {c} : call'[m][d] = call[m][d]
          /\ \A n \in Msg \ {m} : call'[n] = call[n]
      <3>1. w \in CallStates /\ call' = [call EXCEPT ![m][c] = w]
        BY <1>2, <1>4, <2>1
      <3> HIDE DEF w
      <3> QED BY <3>1 DEF Typed
    <2> QED BY <1>0, <1>2, <1>4, <2>1, <2>2, <2>3
  <1>5. CASE Found(m, id, k) /\ call' = [call EXCEPT ![m][c] = [new EXCEPT !.at = "threw"]]
    <2>1. /\ [new EXCEPT !.at = "threw"].at = "threw" /\ [new EXCEPT !.at = "request"].at = "request"
          /\ [new EXCEPT !.at = "threw"].k = new.k
      BY DEF NoCall
    <2>2. Blot(m, "unsent") /\ air' = air
      <3>1. [new EXCEPT !.at = "request"] # [new EXCEPT !.at = "threw"]
        BY DEF NoCall
      <3>2. call' # [call EXCEPT ![m][c] = [new EXCEPT !.at = "request"]]
        <4> HIDE DEF new
        <4> QED BY <1>2, <1>5, <3>1 DEF Typed
      <3> QED BY <1>5, <3>2 DEF MakeEvent
    <2> HIDE DEF new
    <2> DEFINE w == [new EXCEPT !.at = "threw"]
    <2>3. /\ call' \in [Msg -> [Calls -> CallStates]] /\ call'[m][c] = w
          /\ \A d \in Calls \ {c} : call'[m][d] = call[m][d]
          /\ \A n \in Msg \ {m} : call'[n] = call[n]
      <3>1. w \in CallStates /\ call' = [call EXCEPT ![m][c] = w]
        BY <1>2, <1>5, <2>1
      <3> HIDE DEF w
      <3> QED BY <3>1 DEF Typed
    <2> QED BY <1>0, <1>2, <1>5, <2>1, <2>2, <2>3
  <1> QED BY <1>3, <1>4, <1>5 DEF MakeEvent

MsgInv(m) == StartsFirst(m) /\ OneWaits(m) /\ SentOnce(m)

\* A message that the step is not about.
LEMMA MsgUnchanged ==
    ASSUME NEW n \in Msg, MsgInv(n),
           call'[n] = call[n], item'[n] = item[n], made'[n] = made[n], blot'[n] = blot[n],
           Posted(n)' = Posted(n), \A q \in air' : q.m = n => q \in air
    PROVE  MsgInv(n)'
  BY DEF MsgInv, StartsFirst, OneWaits, SentOnce, Waits

\* The number 1 is a call.
LEMMA FirstCall == 1 \in Calls
  BY SendAssumption DEF Calls

\* An event is made: by a call that finds the local event under the id it knows.
LEMMA MakeEventStep ==
    ASSUME SendInv, NEW m \in Msg, NEW c \in Calls, NEW id \in Nat, NEW ref \in Nat, NEW tries \in Nat,
           MakeEvent(m, c, id, ref, tries), UNCHANGED <<nodeVars, viewVars>>,
           \/ call[m][c].at = "prepare" /\ id = call[m][c].id
           \/ Waits(m, c) /\ id = call[m][c].k /\ call[m][c].answer \notin {"none", "ok"}
    PROVE  SendInv'
  <1> DEFINE k == made[m] + 1
  <1>0. Typed /\ MsgInv(m) /\ \A n \in Msg : MsgInv(n)
    BY DEF SendInv, MsgInv
  <1>1. /\ made' = [made EXCEPT ![m] = k]
        /\ call' \in [Msg -> [Calls -> CallStates]]
        /\ \A d \in Calls \ {c} : call'[m][d] = call[m][d]
        /\ \A n \in Msg \ {m} : call'[n] = call[n]
        /\ UpdateLocalEvent(m, id, k, "sending")
    BY <1>0, MakeEventChanges
  <1>2. k \in Nat \ {0} /\ made'[m] = k /\ made' \in [Msg -> Nat]
    BY <1>0, <1>1 DEF Typed
  <1>3. UNCHANGED <<height, tip, accepted>> /\ \A n \in Msg : Posted(n)' = Posted(n)
    BY DEF nodeVars, viewVars, Posted
  <1>4. /\ DOMAIN item' = Msg
        /\ \A n \in Msg : DOMAIN item'[n] = Fields /\ item'[n].k \in Nat
        /\ \A n \in Msg \ {m} : item'[n] = item[n]
        /\ Found(m, id, k) => /\ item'[m].k = k /\ item'[m].status = "sending"
                              /\ item'[m].pooled = item[m].pooled
        /\ ~Found(m, id, k) => item' = item
    BY <1>0, <1>1, <1>2, OneItem
  <1>5. item[m].k \in Nat /\ call[m][c] \in CallStates /\ blot[m] \in SUBSET Blots
    BY <1>0 DEF Typed
  <1>6. Found(m, id, k) => item[m].pooled /\ item[m].k = id
    BY <1>0, <1>2, <1>5 DEF Found, MsgInv, OneWaits, Typed
  <1>7. Found(m, id, k) => \A d \in Calls \ {c} : ~Waits(m, d)
    BY <1>0, <1>6 DEF MsgInv, OneWaits, Waits
  <1>8. Found(m, id, k) /\ "unsure" \notin blot[m] =>
            Posted(m) = {} /\ \A q \in air : q.m # m
    <2> SUFFICES ASSUME Found(m, id, k), "unsure" \notin blot[m]
                 PROVE  Posted(m) = {} /\ \A q \in air : q.m # m
      OBVIOUS
    <2>1. ASSUME NEW q \in air, q.m = m PROVE FALSE
      <3>1. q.c \in Calls /\ Waits(m, q.c) /\ call[m][q.c].answer = "none"
        BY <1>0, <2>1 DEF MsgInv, SentOnce, Typed, Requests
      <3>2. q.c = c
        BY <1>7, <3>1
      <3> QED BY <3>1, <3>2 DEF Waits
    <2>2. ASSUME NEW e \in Posted(m) PROVE FALSE
      <3>1. e.k = item[m].k /\ e.k # 0
        BY <1>0, <2>2 DEF MsgInv, SentOnce, Typed, Posted
      <3>2. CASE Waits(m, c) /\ call[m][c].answer \notin {"none", "ok"}
        BY <1>0, <3>2, <2>2 DEF MsgInv, SentOnce
      <3>3. CASE call[m][c].at = "prepare" /\ id = call[m][c].id
        <4>1. item[m].status = "failed"
          BY <1>0, <1>6, <3>1, <3>3 DEF MsgInv, OneWaits
        <4> QED BY <1>0, <1>6, <1>7, <2>2, <3>3, <4>1 DEF MsgInv, SentOnce, Waits
      <3> QED BY <3>2, <3>3
    <2> QED BY <2>1, <2>2
  <1>9. \/ /\ call'[m][c].at = "threw" /\ air' = air
           /\ ~Found(m, id, k) /\ blot' = blot
        \/ /\ call'[m][c].at = "threw" /\ air' = air
           /\ Found(m, id, k) /\ Blot(m, "unsent")
        \/ /\ Found(m, id, k) /\ blot' = blot
           /\ call'[m][c].at = "request" /\ call'[m][c].k = k /\ call'[m][c].ref = ref
           /\ call'[m][c].attempt = 1 /\ call'[m][c].answer = "none"
           /\ air' = air \cup {[m |-> m, c |-> c, k |-> k, ref |-> ref, attempt |-> 1]}
    BY <1>0, MakeEventChanges
  <1>10. /\ blot' \in [Msg -> SUBSET Blots] /\ \A n \in Msg \ {m} : blot'[n] = blot[n]
         /\ blot[m] \subseteq blot'[m] /\ ("unsure" \in blot'[m] => "unsure" \in blot[m])
    BY <1>0, <1>9 DEF Typed, Blot, Blots
  <1>11. air' \subseteq Requests /\ \A n \in Msg \ {m} : \A q \in air' : q.m = n => q \in air
    <2> HIDE DEF k
    <2>1. [m |-> m, c |-> c, k |-> k, ref |-> ref, attempt |-> 1] \in Requests
      BY <1>2 DEF Requests
    <2> QED BY <1>0, <1>9, <2>1 DEF Typed
  <1>12. Typed'
    BY <1>0, <1>1, <1>2, <1>3, <1>4, <1>10, <1>11 DEF Typed
  <1>13. ASSUME NEW n \in Msg \ {m} PROVE MsgInv(n)'
    <2>1. made'[n] = made[n]
      BY <1>0, <1>1 DEF Typed
    <2> QED BY <1>0, <1>1, <1>3, <1>4, <1>10, <1>11, <2>1, MsgUnchanged
  <1>14. StartsFirst(m)'
    <2>1. call[m][c].at # "none" /\ call'[m][c].at # "none" /\ call[m][1].at # "none"
      BY <1>0, <1>9 DEF Waits, MsgInv, StartsFirst
    <2>2. call'[m][1].at # "none"
      BY <1>1, <2>1, FirstCall
    <2> QED BY <2>2 DEF StartsFirst
  <1>15. OneWaits(m)'
    <2>1. CASE ~Found(m, id, k)
      <3>1. item' = item /\ call'[m][c].at = "threw" /\ made[m] <= made'[m] /\ made[m] \in Nat
        BY <1>0, <1>2, <1>4, <1>9, <2>1 DEF Typed
      <3>2. \A d \in Calls : call'[m][d].at \in {"prepare", "request"} => call'[m][d] = call[m][d]
        BY <1>1, <3>1
      <3>3. ASSUME NEW d \in Calls, call'[m][d].at = "prepare"
            PROVE  /\ call'[m][d].id <= made'[m]
                   /\ call'[m][d].id = item'[m].k => item'[m].status = "failed" \/ item'[m].k = 0
        <4>1. call'[m][d] = call[m][d] /\ call[m][d].id \in Nat
          BY <1>0, <3>2, <3>3 DEF Typed, CallStates
        <4> QED BY <1>0, <1>2, <3>1, <3>3, <4>1 DEF MsgInv, OneWaits
      <3>4. item'[m].k <= made'[m]
        BY <1>0, <1>2, <1>5, <3>1 DEF MsgInv, OneWaits
      <3> QED BY <1>0, <3>1, <3>2, <3>3, <3>4 DEF MsgInv, OneWaits, Waits
    <2>2. CASE Found(m, id, k)
      <3>1. item'[m].k = k /\ item'[m].status = "sending" /\ k # 0 /\ made'[m] = k
        BY <1>2, <1>4, <2>2
      <3>2. ASSUME NEW d \in Calls, call'[m][d].at = "prepare"
            PROVE  call'[m][d].id <= k /\ call'[m][d].id # k
        <4>1. d # c /\ call'[m][d] = call[m][d] /\ call[m][d] \in CallStates
          BY <1>0, <1>1, <1>9, <3>2 DEF Typed
        <4>2. call[m][d].id <= made[m] /\ call[m][d].id \in Nat /\ made[m] \in Nat
          BY <1>0, <3>2, <4>1 DEF MsgInv, OneWaits, Typed, CallStates
        <4> QED BY <4>1, <4>2
      <3>3. \A d \in Calls : Waits(m, d)' => d = c /\ call'[m][d].k = k
        BY <1>1, <1>7, <1>9, <2>2 DEF Waits
      <3> HIDE DEF k
      <3> QED BY <1>2, <3>1, <3>2, <3>3 DEF OneWaits
    <2> QED BY <2>1, <2>2
  <1>16. SentOnce(m)'
    <2> SUFFICES ASSUME "unsure" \notin blot'[m] PROVE SentOnce(m)'
      BY DEF SentOnce
    <2>0. "unsure" \notin blot[m]
      BY <1>10
    <2>1. CASE Found(m, id, k)
      <3>1. Posted(m)' = {} /\ \A q \in air : q.m # m
        BY <1>3, <1>8, <2>0, <2>1
      <3>2. ASSUME NEW q \in air', q.m = m
            PROVE  /\ Waits(m, q.c)' /\ call'[m][q.c].k = q.k /\ call'[m][q.c].ref = q.ref
                   /\ call'[m][q.c].attempt = q.attempt /\ call'[m][q.c].answer = "none"
        BY <1>9, <3>1, <3>2 DEF Waits
      <3> QED BY <3>1, <3>2 DEF SentOnce
    <2>2. CASE ~Found(m, id, k)
      <3>1. item' = item /\ air' = air /\ call'[m][c].at = "threw"
        BY <1>4, <1>9, <2>2
      <3>2. call[m][c].at = "prepare" \/ call[m][c].answer \notin {"none", "ok"}
        OBVIOUS
      <3>3. \A q \in air' : q.m = m => q.c \in Calls \ {c} /\ q \in air
        BY <1>0, <2>0, <3>1, <3>2 DEF MsgInv, SentOnce, Waits, Typed, Requests
      <3>4. Posted(m) # {} => ~Waits(m, c)
        BY <1>0, <2>0, <3>2 DEF MsgInv, SentOnce, Waits
      <3>5. \A d \in Calls : Waits(m, d)' => Waits(m, d) /\ call'[m][d] = call[m][d]
        BY <1>1, <3>1 DEF Waits
      <3>6. \A d \in Calls : Waits(m, d) /\ d # c => Waits(m, d)' /\ call'[m][d] = call[m][d]
        BY <1>1 DEF Waits
      <3>7. /\ \A q \in air : q.m = m =>
                  /\ Waits(m, q.c) /\ call[m][q.c].k = q.k /\ call[m][q.c].ref = q.ref
                  /\ call[m][q.c].attempt = q.attempt /\ call[m][q.c].answer = "none"
            /\ \A e \in Posted(m) : e.k = item[m].k
            /\ Posted(m) # {} =>
                  /\ \A d \in Calls : Waits(m, d) => call[m][d].answer = "ok"
                  /\ ~item[m].pooled \/ item[m].status = "sent" \/ \E d \in Calls : Waits(m, d)
        BY <1>0, <2>0 DEF MsgInv, SentOnce
      <3>8. \A q \in air' : q.m = m =>
                  /\ Waits(m, q.c)' /\ call'[m][q.c].k = q.k /\ call'[m][q.c].ref = q.ref
                  /\ call'[m][q.c].attempt = q.attempt /\ call'[m][q.c].answer = "none"
        BY <3>3, <3>6, <3>7
      <3>9. Posted(m)' # {} =>
                  /\ \A d \in Calls : Waits(m, d)' => call'[m][d].answer = "ok"
                  /\ ~item'[m].pooled \/ item'[m].status = "sent" \/ \E d \in Calls : Waits(m, d)'
        BY <1>3, <3>1, <3>4, <3>5, <3>6, <3>7
      <3> QED BY <1>3, <3>1, <3>7, <3>8, <3>9 DEF SentOnce
    <2> QED BY <2>1, <2>2
  <1> QED BY <1>12, <1>13, <1>14, <1>15, <1>16 DEF SendInv, MsgInv

\* The user sends a message, or sends one again that has failed.
LEMMA StartSteps ==
    ASSUME SendInv, NEW m \in Msg, NEW c \in Calls,
           (SendChannelMessage(m) /\ c = 1) \/ RetrySendMessage(m, c)
    PROVE  SendInv'
  <1>0. Typed /\ MsgInv(m) /\ \A n \in Msg : MsgInv(n)
    BY DEF SendInv, MsgInv
  <1>1. /\ UNCHANGED <<height, tip, accepted, air, made, blot>> /\ call[m][c].at = "none"
        /\ \A n \in Msg : Posted(n)' = Posted(n)
    BY DEF SendChannelMessage, RetrySendMessage, nodeVars, viewVars, Posted
  <1>2. item[m].k \in Nat
    BY <1>0 DEF Typed
  <1>3. PICK w \in CallStates :
               /\ w.at = "prepare" /\ w.id = (IF c = 1 THEN 0 ELSE item[m].k)
               /\ call' = [call EXCEPT ![m][c] = w]
    <2>1. CASE SendChannelMessage(m) /\ c = 1
      <3> DEFINE v == [NoCall EXCEPT !.at = "prepare"]
      <3>1. v \in CallStates /\ v.at = "prepare" /\ v.id = 0
        BY DEF CallStates, NoCall
      <3>2. call' = [call EXCEPT ![m][c] = v]
        BY <2>1 DEF SendChannelMessage
      <3> HIDE DEF v
      <3> QED BY <2>1, <3>1, <3>2
    <2>2. CASE RetrySendMessage(m, c)
      <3> DEFINE v == [NoCall EXCEPT !.at = "prepare", !.id = item[m].k]
      <3>0. c # 1
        BY <2>2, SendAssumption DEF RetrySendMessage, Calls
      <3>1. v \in CallStates /\ v.at = "prepare" /\ v.id = item[m].k
        BY <1>2 DEF CallStates, NoCall
      <3>2. call' = [call EXCEPT ![m][c] = v]
        BY <2>2 DEF RetrySendMessage
      <3> HIDE DEF v
      <3> QED BY <3>0, <3>1, <3>2
    <2> QED BY <2>1, <2>2
  <1>5. /\ call' \in [Msg -> [Calls -> CallStates]]
        /\ call'[m][c] = w
        /\ \A d \in Calls \ {c} : call'[m][d] = call[m][d]
        /\ \A n \in Msg \ {m} : call'[n] = call[n]
    BY <1>0, <1>3, OneCall
  <1>6. /\ DOMAIN item' = Msg
        /\ \A n \in Msg : DOMAIN item'[n] = Fields /\ item'[n].k \in Nat
        /\ \A n \in Msg \ {m} : item'[n] = item[n]
    <2>1. CASE SendChannelMessage(m)
      BY <1>0, <2>1 DEF SendChannelMessage, NoItem, Typed, Fields
    <2>2. CASE RetrySendMessage(m, c)
      BY <1>0, <2>2 DEF RetrySendMessage, Typed
    <2> QED BY <2>1, <2>2
  <1>7. Typed'
    BY <1>0, <1>1, <1>5, <1>6 DEF Typed
  <1>8. ASSUME NEW n \in Msg \ {m} PROVE MsgInv(n)'
    BY <1>0, <1>1, <1>5, <1>6, MsgUnchanged
  <1>9. MsgInv(m)'
    <2>1. CASE SendChannelMessage(m) /\ c = 1
      <3>1. item'[m].k = 0 /\ call'[m][1] = w /\ w.id = 0
        BY <1>0, <1>3, <1>5, <2>1 DEF SendChannelMessage, NoItem, Typed
      <3>2. \A d \in Calls : call[m][d].at = "none"
        BY <1>0, <1>1, <2>1 DEF MsgInv, StartsFirst
      <3>3. made'[m] = 0 /\ Posted(m)' = {} /\ \A q \in air' : q.m # m
        BY <1>0, <1>1, <2>1 DEF MsgInv, StartsFirst
      <3>4. \A d \in Calls : d # 1 => call'[m][d].at = "none"
        BY <1>5, <2>1, <3>2
      <3>5. StartsFirst(m)'
        BY <1>3, <3>1 DEF StartsFirst
      <3>6. OneWaits(m)'
        BY <1>3, <3>1, <3>3, <3>4 DEF OneWaits, Waits
      <3>7. SentOnce(m)'
        BY <3>3 DEF SentOnce
      <3> QED BY <3>5, <3>6, <3>7 DEF MsgInv
    <2>2. CASE RetrySendMessage(m, c)
      <3>1. item' = item /\ item[m].status = "failed" /\ c # 1 /\ w.id = item[m].k
        BY <1>3, <2>2 DEF RetrySendMessage, Calls
      <3>2. call[m][1].at # "none" /\ call'[m][1].at # "none"
        <4>1. c - 1 \in Calls /\ call[m][c - 1].at # "none"
          BY <2>2, SendAssumption DEF RetrySendMessage, Calls
        <4>2. call[m][1].at # "none"
          BY <1>0, <4>1 DEF MsgInv, StartsFirst
        <4> QED BY <1>5, <3>1, <4>2, FirstCall
      <3>3. StartsFirst(m)'
        BY <3>2 DEF StartsFirst
      <3>4. \A d \in Calls : Waits(m, d)' <=> Waits(m, d)
        BY <1>1, <1>3, <1>5 DEF Waits
      <3>5. \A d \in Calls : Waits(m, d) => call'[m][d] = call[m][d]
        BY <1>1, <1>5 DEF Waits
      <3>6. OneWaits(m)'
        <4>1. ASSUME NEW d \in Calls, call'[m][d].at = "prepare"
              PROVE  /\ call'[m][d].id <= made'[m]
                     /\ call'[m][d].id = item'[m].k => item'[m].status = "failed" \/ item'[m].k = 0
          <5>1. CASE d = c
            BY <1>0, <1>1, <1>5, <3>1, <5>1 DEF MsgInv, OneWaits
          <5>2. CASE d # c
            <6>1. call'[m][d] = call[m][d]
              BY <1>5, <5>2
            <6> QED BY <1>0, <1>1, <3>1, <4>1, <6>1 DEF MsgInv, OneWaits
          <5> QED BY <5>1, <5>2
        <4> QED BY <1>0, <1>1, <3>1, <3>4, <3>5, <4>1 DEF MsgInv, OneWaits
      <3>7. SentOnce(m)'
        <4>1. \A q \in air' : q.m = m => q.c \in Calls
          BY <1>0, <1>1 DEF Typed, Requests
        <4> QED BY <1>0, <1>1, <3>1, <3>4, <3>5, <4>1 DEF MsgInv, SentOnce
      <3> QED BY <3>3, <3>6, <3>7 DEF MsgInv
    <2> QED BY <2>1, <2>2
  <1> QED BY <1>7, <1>8, <1>9 DEF SendInv, MsgInv

\* A call ends: before it made its event, or with the answer of the node.
LEMMA EndSteps ==
    ASSUME SendInv, NEW m \in Msg, NEW c \in Calls,
           PrepareFails(m, c) \/ AddEventReturns(m, c) \/ SendFails(m, c)
    PROVE  SendInv'
  <1>0. Typed /\ MsgInv(m) /\ \A n \in Msg : MsgInv(n)
    BY DEF SendInv, MsgInv
  <1>1. /\ UNCHANGED <<height, tip, accepted, air, made>>
        /\ \A n \in Msg : Posted(n)' = Posted(n)
    BY DEF PrepareFails, AddEventReturns, SendFails, nodeVars, viewVars, Posted
  <1>2. call[m][c] \in CallStates /\ item[m].k \in Nat
    BY <1>0 DEF Typed
  <1>3. PICK x \in {"threw", "done"} : call' = [call EXCEPT ![m][c] = [call[m][c] EXCEPT !.at = x]]
    BY DEF PrepareFails, AddEventReturns, SendFails
  <1>4. [call[m][c] EXCEPT !.at = x] \in CallStates /\ [call[m][c] EXCEPT !.at = x].at = x
    BY <1>2 DEF CallStates
  <1>5. /\ call' \in [Msg -> [Calls -> CallStates]]
        /\ call'[m][c].at = x
        /\ \A d \in Calls \ {c} : call'[m][d] = call[m][d]
        /\ \A n \in Msg \ {m} : call'[n] = call[n]
    BY <1>0, <1>3, <1>4, OneCall
  <1>6. /\ blot' \in [Msg -> SUBSET Blots] /\ \A n \in Msg \ {m} : blot'[n] = blot[n]
        /\ "unsure" \in blot'[m] <=> "unsure" \in blot[m]
    BY <1>0 DEF Typed, Blot, Blots, PrepareFails, AddEventReturns, SendFails
  <1>7. /\ DOMAIN item' = Msg
        /\ \A n \in Msg : DOMAIN item'[n] = Fields /\ item'[n].k \in Nat
        /\ \A n \in Msg \ {m} : item'[n] = item[n]
        /\ item'[m].k = item[m].k /\ (item'[m].pooled <=> item[m].pooled)
        /\ \/ call[m][c].at = "prepare" /\ item'[m].status = item[m].status
           \/ /\ Waits(m, c) /\ call[m][c].answer # "none"
              /\ item'[m].status # item[m].status => item'[m].status \in {"sent", "failed"}
              /\ call[m][c].answer = "ok" => item'[m].status = "sent" \/ ~item[m].pooled
    <2>1. CASE PrepareFails(m, c)
      BY <1>0, <2>1 DEF PrepareFails, Typed
    <2>2. ASSUME Waits(m, c), NEW status, UpdateLocalEvent(m, call[m][c].id, call[m][c].k, status)
          PROVE  /\ DOMAIN item' = Msg
                 /\ \A n \in Msg : DOMAIN item'[n] = Fields /\ item'[n].k \in Nat
                 /\ \A n \in Msg \ {m} : item'[n] = item[n]
                 /\ item'[m].k = item[m].k /\ (item'[m].pooled <=> item[m].pooled)
                 /\ item[m].pooled => item'[m].status = status
                 /\ item'[m].status = item[m].status \/ item'[m].status = status
      <3>1. call[m][c].id \in Nat /\ call[m][c].k \in Nat
        BY <1>2 DEF CallStates
      <3>2. call[m][c].k = item[m].k
        BY <1>0, <2>2 DEF MsgInv, OneWaits
      <3>3. Found(m, call[m][c].id, call[m][c].k) <=> item[m].pooled
        BY <3>2 DEF Found
      <3>4. CASE item[m].pooled
        BY <1>0, <2>2, <3>1, <3>2, <3>3, <3>4, OneItem
      <3>5. CASE ~item[m].pooled
        BY <1>0, <2>2, <3>1, <3>2, <3>3, <3>5, OneItem
      <3> QED BY <3>4, <3>5
    <2>3. CASE AddEventReturns(m, c)
      <3>1. /\ Waits(m, c) /\ call[m][c].answer = "ok"
            /\ UpdateLocalEvent(m, call[m][c].id, call[m][c].k, "sent")
        BY <2>3 DEF AddEventReturns, Waits
      <3> QED BY <2>2, <3>1
    <2>4. CASE SendFails(m, c)
      <3>1. /\ Waits(m, c) /\ call[m][c].answer \notin {"none", "ok"}
            /\ UpdateLocalEvent(m, call[m][c].id, call[m][c].k, "failed")
        BY <2>4 DEF SendFails, Waits
      <3> QED BY <2>2, <3>1
    <2> QED BY <2>1, <2>3, <2>4
  <1>8. Typed'
    BY <1>0, <1>1, <1>5, <1>6, <1>7 DEF Typed
  <1>9. ASSUME NEW n \in Msg \ {m} PROVE MsgInv(n)'
    BY <1>0, <1>1, <1>5, <1>6, <1>7, MsgUnchanged
  <1>10. \A d \in Calls : call'[m][d].at \in {"prepare", "request"} =>
             d # c /\ call'[m][d] = call[m][d]
    BY <1>5
  <1>11. StartsFirst(m)'
    <2>1. call[m][1].at # "none"
      BY <1>0, <1>7 DEF MsgInv, StartsFirst, Waits
    <2>2. call'[m][1].at # "none"
      BY <1>5, <2>1, FirstCall
    <2> QED BY <2>2 DEF StartsFirst
  <1>12. OneWaits(m)'
    <2>1. ASSUME NEW d \in Calls, call'[m][d].at = "prepare"
          PROVE  /\ call'[m][d].id <= made'[m]
                 /\ call'[m][d].id = item'[m].k => item'[m].status = "failed" \/ item'[m].k = 0
      BY <1>0, <1>1, <1>7, <1>10, <2>1 DEF MsgInv, OneWaits
    <2>2. ASSUME NEW d \in Calls, Waits(m, d)'
          PROVE  /\ Waits(m, d) /\ call'[m][d].k = item'[m].k /\ item'[m].k # 0
                 /\ item'[m].status = "sending"
      <3>1. d # c /\ call'[m][d] = call[m][d] /\ Waits(m, d)
        BY <1>10, <2>2 DEF Waits
      <3>2. ~Waits(m, c)
        BY <1>0, <3>1 DEF MsgInv, OneWaits
      <3> QED BY <1>0, <1>7, <3>1, <3>2 DEF MsgInv, OneWaits
    <2> QED BY <1>0, <1>1, <1>7, <2>1, <2>2 DEF MsgInv, OneWaits
  <1>13. SentOnce(m)'
    <2> SUFFICES ASSUME "unsure" \notin blot[m] PROVE SentOnce(m)'
      BY <1>6 DEF SentOnce
    <2>1. ASSUME NEW q \in air', q.m = m
          PROVE  /\ Waits(m, q.c)' /\ call'[m][q.c].k = q.k /\ call'[m][q.c].ref = q.ref
                 /\ call'[m][q.c].attempt = q.attempt /\ call'[m][q.c].answer = "none"
      <3>1. /\ q.c \in Calls /\ Waits(m, q.c) /\ call[m][q.c].k = q.k /\ call[m][q.c].ref = q.ref
            /\ call[m][q.c].attempt = q.attempt /\ call[m][q.c].answer = "none"
        BY <1>0, <1>1, <2>1 DEF MsgInv, SentOnce, Typed, Requests
      <3>2. q.c # c
        BY <1>7, <3>1 DEF Waits
      <3> QED BY <1>5, <3>1, <3>2 DEF Waits
    <2>2. \A e \in Posted(m)' : e.k = item'[m].k
      BY <1>0, <1>1, <1>7 DEF MsgInv, SentOnce
    <2>3. ASSUME Posted(m)' # {}
          PROVE  /\ \A d \in Calls : Waits(m, d)' => call'[m][d].answer = "ok"
                 /\ ~item'[m].pooled \/ item'[m].status = "sent" \/ \E d \in Calls : Waits(m, d)'
      <3>1. /\ \A d \in Calls : Waits(m, d) => call[m][d].answer = "ok"
            /\ ~item[m].pooled \/ item[m].status = "sent" \/ \E d \in Calls : Waits(m, d)
        BY <1>0, <1>1, <2>3 DEF MsgInv, SentOnce
      <3>2. \A d \in Calls : Waits(m, d)' => call'[m][d].answer = "ok"
        BY <1>10, <3>1 DEF Waits
      <3>3. CASE Waits(m, c)
        BY <1>7, <3>1, <3>2, <3>3 DEF Waits
      <3>4. CASE ~Waits(m, c)
        BY <1>5, <1>7, <3>1, <3>2, <3>4 DEF Waits
      <3> QED BY <3>3, <3>4
    <2> QED BY <2>1, <2>2, <2>3 DEF SentOnce
  <1> QED BY <1>8, <1>9, <1>11, <1>12, <1>13 DEF SendInv, MsgInv

\* What differs between two calls is at most the answer, or the attempt and the answer.
Alike(w, v) == w.at = v.at /\ w.id = v.id /\ w.k = v.k /\ w.ref = v.ref

\* A step that changes no local event, makes no event and blots the message as unsure.
LEMMA UnsureStep ==
    ASSUME SendInv, NEW m \in Msg, UNCHANGED <<item, made>>,
           \A d \in Calls : Alike(call'[m][d], call[m][d]), "unsure" \in blot'[m],
           call[m][1].at # "none"
    PROVE  MsgInv(m)'
  <1>1. MsgInv(m)
    BY DEF SendInv, MsgInv
  <1>2. \A d \in Calls : Waits(m, d)' <=> Waits(m, d)
    BY DEF Alike, Waits
  <1>3. StartsFirst(m)'
    <2>1. call'[m][1].at # "none"
      BY FirstCall DEF Alike
    <2> QED BY <2>1 DEF StartsFirst
  <1>4. OneWaits(m)'
    BY <1>1, <1>2 DEF MsgInv, OneWaits, Alike
  <1>5. SentOnce(m)'
    BY DEF SentOnce
  <1> QED BY <1>3, <1>4, <1>5 DEF MsgInv

\* No answer in time.
LEMMA TimeoutStep ==
    ASSUME SendInv, NEW m \in Msg, NEW c \in Calls, Timeout(m, c)
    PROVE  SendInv'
  <1>0. Typed /\ MsgInv(m) /\ \A n \in Msg : MsgInv(n)
    BY DEF SendInv, MsgInv
  <1>1. /\ UNCHANGED <<height, tip, accepted, made, item>> /\ Waits(m, c)
        /\ \A n \in Msg : Posted(n)' = Posted(n)
    BY DEF Timeout, nodeVars, viewVars, Posted, Waits
  <1>2. call[m][c] \in CallStates /\ call[m][c].k # 0
    BY <1>0, <1>1 DEF Typed, MsgInv, OneWaits
  <1>3. PICK w \in CallStates : /\ Alike(w, call[m][c]) /\ call' = [call EXCEPT ![m][c] = w]
                                /\ air' = air \/ air' = air \cup {[m |-> m, c |-> c, k |-> w.k, ref |-> w.ref,
                                                                  attempt |-> w.attempt]}
    <2>1. CASE call[m][c].attempt > MaxAttempts
      <3> DEFINE w == [call[m][c] EXCEPT !.answer = "error"]
      <3>1. w \in CallStates /\ Alike(w, call[m][c])
        BY <1>2 DEF CallStates, Alike
      <3>2. call' = [call EXCEPT ![m][c] = w] /\ air' = air
        BY <2>1 DEF Timeout
      <3> HIDE DEF w
      <3> QED BY <3>1, <3>2
    <2>2. CASE ~(call[m][c].attempt > MaxAttempts)
      <3> DEFINE again == call[m][c].attempt + 1
                 w == [call[m][c] EXCEPT !.answer = "none", !.attempt = again]
      <3>0. again \in Nat
        BY <1>2 DEF CallStates
      <3>1. /\ w \in CallStates /\ Alike(w, call[m][c]) /\ w.attempt = again
            /\ w.k = call[m][c].k /\ w.ref = call[m][c].ref
        <4> HIDE DEF again
        <4> QED BY <1>2, <3>0 DEF CallStates, Alike
      <3>2. call' = [call EXCEPT ![m][c] = w]
        BY <2>2 DEF Timeout
      <3>3. air' = air \cup {[Request(m, c) EXCEPT !.attempt = again]}
        BY <2>2 DEF Timeout
      <3>4. [Request(m, c) EXCEPT !.attempt = again] =
            [m |-> m, c |-> c, k |-> w.k, ref |-> w.ref, attempt |-> w.attempt]
        BY <3>1 DEF Request
      <3> HIDE DEF w
      <3> QED BY <3>1, <3>2, <3>3, <3>4
    <2> QED BY <2>1, <2>2
  <1>4. /\ call' \in [Msg -> [Calls -> CallStates]]
        /\ call'[m][c] = w
        /\ \A d \in Calls \ {c} : call'[m][d] = call[m][d]
        /\ \A n \in Msg \ {m} : call'[n] = call[n]
    BY <1>0, <1>3, OneCall
  <1>5. /\ blot' \in [Msg -> SUBSET Blots] /\ \A n \in Msg \ {m} : blot'[n] = blot[n]
        /\ "unsure" \in blot'[m]
    BY <1>0 DEF Typed, Blot, Blots, Timeout
  <1>6. air' \subseteq Requests /\ \A n \in Msg \ {m} : \A q \in air' : q.m = n => q \in air
    <2>1. w.k \in Nat \ {0} /\ w.ref \in Nat /\ w.attempt \in Nat
      BY <1>2, <1>3 DEF Alike, CallStates
    <2>2. [m |-> m, c |-> c, k |-> w.k, ref |-> w.ref, attempt |-> w.attempt] \in Requests
      BY <2>1 DEF Requests
    <2> QED BY <1>0, <1>3, <2>2 DEF Typed
  <1>7. Typed'
    BY <1>0, <1>1, <1>4, <1>5, <1>6 DEF Typed
  <1>8. ASSUME NEW n \in Msg \ {m} PROVE MsgInv(n)'
    BY <1>0, <1>1, <1>4, <1>5, <1>6, MsgUnchanged
  <1>9. MsgInv(m)'
    <2>1. \A d \in Calls : Alike(call'[m][d], call[m][d])
      BY <1>3, <1>4 DEF Alike
    <2>2. call[m][1].at # "none"
      BY <1>0, <1>1 DEF MsgInv, StartsFirst, Waits
    <2> QED BY <1>1, <1>5, <2>1, <2>2, UnsureStep
  <1> QED BY <1>7, <1>8, <1>9 DEF SendInv, MsgInv

\* What an answer changes.
LEMMA AnswerChanges ==
    ASSUME Typed, NEW q \in air,
           NEW answer \in {"ok", "badPrev", "tooNew", "unconfirmed", "error"}, Answer(q, answer)
    PROVE  /\ call' \in [Msg -> [Calls -> CallStates]]
           /\ \A n \in Msg, d \in Calls : /\ Alike(call'[n][d], call[n][d])
                                           /\ call'[n][d].attempt = call[n][d].attempt
           /\ \A n \in Msg, d \in Calls : n # q.m \/ d # q.c => call'[n][d] = call[n][d]
           /\ \/ /\ Waits(q.m, q.c) /\ call[q.m][q.c].k = q.k
                 /\ call[q.m][q.c].attempt = q.attempt /\ call'[q.m][q.c].answer = answer
              \/ /\ ~(/\ Waits(q.m, q.c) /\ call[q.m][q.c].k = q.k
                      /\ call[q.m][q.c].attempt = q.attempt)
                 /\ call' = call
  <1> DEFINE w == call[q.m][q.c]
             v == [w EXCEPT !.answer = answer, !.expected = height]
  <1>1. q.m \in Msg /\ q.c \in Calls /\ w \in CallStates /\ height \in Nat
    BY DEF Typed, Requests
  <1>2. v \in CallStates /\ v.answer = answer /\ Alike(v, w) /\ v.attempt = w.attempt
    <2> HIDE DEF w
    <2> QED BY <1>1 DEF CallStates, Alike
  <1>3. CASE Waits(q.m, q.c) /\ w.k = q.k /\ w.attempt = q.attempt
    <2>1. call' = [call EXCEPT ![q.m][q.c] = v]
      BY <1>3 DEF Answer, Waits
    <2> HIDE DEF v
    <2>2. /\ call' \in [Msg -> [Calls -> CallStates]]
          /\ call'[q.m][q.c] = v
          /\ \A d \in Calls \ {q.c} : call'[q.m][d] = call[q.m][d]
          /\ \A n \in Msg \ {q.m} : call'[n] = call[n]
      BY <1>1, <1>2, <2>1, OneCall
    <2> QED BY <1>1, <1>2, <1>3, <2>2 DEF Alike
  <1>4. CASE ~(Waits(q.m, q.c) /\ w.k = q.k /\ w.attempt = q.attempt)
    <2>1. call' = call
      BY <1>4 DEF Answer, Waits
    <2> QED BY <1>4, <2>1 DEF Alike, Typed
  <1> QED BY <1>3, <1>4

\* The cases of AddEvent and AddEventFails.
LEMMA NodeChanges ==
    ASSUME NEW q \in air, AddEvent(q) \/ AddEventFails(q)
    PROVE  /\ air' = air \ {q} /\ UNCHANGED <<height, tip, item, made>>
           /\ \E answer \in {"ok", "badPrev", "tooNew", "unconfirmed", "error"} :
                 /\ Answer(q, answer)
                 /\ \/ accepted' = accepted /\ answer # "ok" /\ blot' = blot
                    \/ /\ accepted' = accepted \cup {Event(q.m, q.k)}
                       /\ (answer = "ok" /\ blot' = blot) \/ Blot(q.m, "unsure")
  <1>1. ASSUME Take(Event(q.m, q.k)) PROVE accepted' = accepted \cup {Event(q.m, q.k)}
    BY <1>1 DEF Take
  <1>2. CASE AddEvent(q)
    BY <1>1, <1>2 DEF AddEvent, viewVars
  <1>3. CASE AddEventFails(q)
    BY <1>1, <1>3 DEF AddEventFails, viewVars
  <1> QED BY <1>2, <1>3

\* The node handles a request.
LEMMA NodeStep ==
    ASSUME SendInv, NEW q \in air, AddEvent(q) \/ AddEventFails(q)
    PROVE  SendInv'
  <1> DEFINE m == q.m
             c == q.c
             e == Event(m, q.k)
  <1>0. Typed /\ \A n \in Msg : MsgInv(n)
    BY DEF SendInv, MsgInv
  <1>1. q \in Requests /\ m \in Msg /\ c \in Calls /\ q.k \in Nat \ {0}
    BY <1>0 DEF Typed, Requests
  <1>2. air' = air \ {q} /\ UNCHANGED <<height, tip, item, made>>
    BY NodeChanges
  <1>3. PICK answer \in {"ok", "badPrev", "tooNew", "unconfirmed", "error"} :
                 /\ Answer(q, answer)
                 /\ \/ accepted' = accepted /\ answer # "ok" /\ blot' = blot
                    \/ /\ accepted' = accepted \cup {e}
                       /\ (answer = "ok" /\ blot' = blot) \/ Blot(m, "unsure")
    BY NodeChanges
  <1>4. /\ call' \in [Msg -> [Calls -> CallStates]]
        /\ \A n \in Msg, d \in Calls : /\ Alike(call'[n][d], call[n][d])
                                        /\ call'[n][d].attempt = call[n][d].attempt
        /\ \A n \in Msg, d \in Calls : n # m \/ d # c => call'[n][d] = call[n][d]
        /\ \/ /\ Waits(m, c) /\ call[m][c].k = q.k
              /\ call[m][c].attempt = q.attempt /\ call'[m][c].answer = answer
           \/ ~(Waits(m, c) /\ call[m][c].k = q.k /\ call[m][c].attempt = q.attempt) /\ call' = call
    BY <1>0, <1>3, AnswerChanges
  <1>5. /\ blot' \in [Msg -> SUBSET Blots] /\ \A n \in Msg \ {m} : blot'[n] = blot[n]
        /\ blot[m] \subseteq blot'[m]
    BY <1>0, <1>1, <1>3 DEF Typed, Blot, Blots
  <1>6. e \in [m : Msg, k : Nat \ {0}] /\ e.m = m /\ e.k = q.k
    BY <1>1 DEF Event
  <1>7. Typed'
    BY <1>0, <1>2, <1>3, <1>4, <1>5, <1>6 DEF Typed
  <1>8. ASSUME NEW n \in Msg \ {m} PROVE MsgInv(n)'
    <2>1. call'[n] = call[n]
      BY <1>0, <1>4 DEF Typed
    <2>2. Posted(n)' = Posted(n)
      BY <1>3, <1>6 DEF Posted
    <2> QED BY <1>0, <1>2, <1>5, <2>1, <2>2, MsgUnchanged
  <1>9. MsgInv(m)'
    <2>0. MsgInv(m) /\ call[m][1].at # "none"
      BY <1>0, <1>1 DEF MsgInv, StartsFirst
    <2>1. CASE "unsure" \in blot'[m]
      BY <1>1, <1>2, <1>4, <2>0, <2>1, UnsureStep
    <2>2. CASE "unsure" \notin blot'[m]
      <3>1. "unsure" \notin blot[m] /\ (accepted' = accepted \/ answer = "ok")
        BY <1>0, <1>1, <1>3, <1>5, <2>2 DEF Blot, Typed
      <3>2. /\ Waits(m, c) /\ call[m][c].k = q.k /\ call[m][c].ref = q.ref
            /\ call[m][c].attempt = q.attempt /\ call[m][c].answer = "none"
        BY <2>0, <3>1 DEF MsgInv, SentOnce
      <3>3. Posted(m) = {}
        BY <1>1, <2>0, <3>1, <3>2 DEF MsgInv, SentOnce
      <3>4. \A d \in Calls : Waits(m, d)' <=> d = c
        <4>1. \A d \in Calls : Waits(m, d) <=> d = c
          BY <1>1, <2>0, <3>2 DEF MsgInv, OneWaits
        <4>2. \A d \in Calls : Waits(m, d)' <=> Waits(m, d)
          BY <1>1, <1>4 DEF Waits, Alike
        <4> QED BY <4>1, <4>2
      <3>5. call'[m][c].answer = answer
        BY <1>4, <3>2
      <3>6. StartsFirst(m)'
        <4>1. call'[m][1].at # "none"
          BY <1>1, <1>4, <2>0, FirstCall DEF Alike
        <4> QED BY <4>1 DEF StartsFirst
      <3>7. OneWaits(m)'
        <4>1. \A d \in Calls : Alike(call'[m][d], call[m][d]) /\ (Waits(m, d)' <=> Waits(m, d))
          BY <1>1, <1>4 DEF Alike, Waits
        <4> HIDE DEF m, c
        <4> QED BY <1>2, <2>0, <4>1 DEF MsgInv, OneWaits, Alike
      <3>8. \A p \in air' : p.m # m
        <4> SUFFICES ASSUME NEW p \in air, p.m = m, p # q PROVE FALSE
          BY <1>2
        <4>1. /\ Waits(m, p.c) /\ call[m][p.c].k = p.k /\ call[m][p.c].ref = p.ref
              /\ call[m][p.c].attempt = p.attempt
          BY <2>0, <3>1 DEF MsgInv, SentOnce
        <4>2. p \in Requests /\ p.c \in Calls
          BY <1>0 DEF Typed, Requests
        <4>3. p.c = c
          BY <1>1, <2>0, <3>2, <4>1, <4>2 DEF MsgInv, OneWaits
        <4>4. p = q
          BY <1>1, <3>2, <4>1, <4>2, <4>3 DEF Requests
        <4> QED BY <4>4
      <3>9. Posted(m)' = {} \/ (Posted(m)' = {e} /\ answer = "ok")
        <4>1. CASE accepted' = accepted
          BY <3>3, <4>1 DEF Posted
        <4>2. CASE accepted' = accepted \cup {e} /\ answer = "ok"
          BY <1>6, <3>3, <4>2 DEF Posted
        <4> QED BY <1>3, <3>1, <4>1, <4>2
      <3>10. e.k = item'[m].k
        BY <1>1, <1>2, <1>6, <2>0, <3>2 DEF MsgInv, OneWaits
      <3>11. SentOnce(m)'
        <4> HIDE DEF e, m, c
        <4> QED BY <1>1, <3>4, <3>5, <3>8, <3>9, <3>10 DEF SentOnce
      <3> QED BY <3>6, <3>7, <3>11 DEF MsgInv
    <2> QED BY <2>1, <2>2
  <1> QED BY <1>7, <1>8, <1>9 DEF SendInv, MsgInv

\* Steps that neither send nor answer: miniblocks, sync, and an idle step.
LEMMA ViewChanges ==
    ASSUME Typed, NewBlock \/ BlocksAge \/ SyncUpdate \/ SyncReset \/ vars' = vars
    PROVE  /\ UNCHANGED <<accepted, air, call, made>> /\ height' \in Nat /\ tip' \in Nat
           /\ \A n \in Msg : Posted(n)' = Posted(n)
           /\ blot' \in [Msg -> SUBSET Blots]
           /\ \A n \in Msg : "unsure" \in blot'[n] <=> "unsure" \in blot[n]
           /\ DOMAIN item' = Msg
           /\ \A n \in Msg : /\ DOMAIN item'[n] = Fields /\ item'[n].k = item[n].k
                             /\ item'[n].status = item[n].status
                             /\ ~item[n].pooled => ~item'[n].pooled
  <1>1. /\ UNCHANGED <<accepted, air, call, made>> /\ height' \in Nat /\ tip' \in Nat
        /\ \A n \in Msg : Posted(n)' = Posted(n)
    <2>1. UNCHANGED <<accepted, air, call, made>>
      BY DEF NewBlock, BlocksAge, SyncUpdate, SyncReset, vars, nodeVars, viewVars
    <2>2. height' \in {height, height + 1} /\ tip' \in {tip, tip + 1, height}
      <3>1. CASE NewBlock
        BY <3>1 DEF NewBlock, viewVars
      <3>2. CASE BlocksAge \/ vars' = vars
        BY <3>2 DEF BlocksAge, vars, nodeVars, viewVars
      <3>3. CASE SyncUpdate
        BY <3>3 DEF SyncUpdate, nodeVars
      <3>4. CASE SyncReset
        BY <3>4 DEF SyncReset, nodeVars
      <3> QED BY <3>1, <3>2, <3>3, <3>4
    <2> QED BY <2>1, <2>2 DEF Typed, Posted
  <1>2. /\ blot' \in [Msg -> SUBSET Blots]
        /\ \A n \in Msg : "unsure" \in blot'[n] <=> "unsure" \in blot[n]
    <2>1. CASE SyncReset
      <3>1. blot' = [m \in Msg |-> blot[m] \cup {"reset"}]
        BY <2>1 DEF SyncReset
      <3> QED BY <3>1 DEF Typed, Blots
    <2>2. CASE NewBlock \/ BlocksAge \/ SyncUpdate \/ vars' = vars
      BY <2>2 DEF NewBlock, BlocksAge, SyncUpdate, vars, Typed
    <2> QED BY <2>1, <2>2
  <1>3. /\ DOMAIN item' = Msg
        /\ \A n \in Msg : /\ DOMAIN item'[n] = Fields /\ item'[n].k = item[n].k
                          /\ item'[n].status = item[n].status
                          /\ ~item[n].pooled => ~item'[n].pooled
    <2>1. CASE NewBlock \/ BlocksAge \/ vars' = vars
      BY <2>1 DEF NewBlock, BlocksAge, vars, Typed
    <2>2. CASE SyncUpdate
      <3>1. PICK local : \/ item' = [n \in Msg |-> IF n \in local THEN [item[n] EXCEPT !.pooled = FALSE]
                                                                  ELSE item[n]]
                         \/ item' = [n \in Msg |-> IF n \in local THEN [item[n] EXCEPT !.remote = TRUE]
                                                                  ELSE item[n]]
        BY <2>2 DEF SyncUpdate
      <3> QED BY <3>1 DEF Typed, Fields
    <2>3. CASE SyncReset
      <3>1. item' = [n \in Msg |-> [item[n] EXCEPT !.shown = item[n].pooled /\ item[n].k = 0,
                                                   !.pooled = FALSE, !.remote = FALSE]]
        BY <2>3 DEF SyncReset
      <3> QED BY <3>1 DEF Typed, Fields
    <2> QED BY <2>1, <2>2, <2>3
  <1> QED BY <1>1, <1>2, <1>3

LEMMA ViewSteps ==
    ASSUME SendInv, NewBlock \/ BlocksAge \/ SyncUpdate \/ SyncReset \/ vars' = vars
    PROVE  SendInv'
  <1>0. Typed /\ \A n \in Msg : MsgInv(n)
    BY DEF SendInv, MsgInv
  <1>1. /\ UNCHANGED <<accepted, air, call, made>> /\ height' \in Nat /\ tip' \in Nat
        /\ \A n \in Msg : Posted(n)' = Posted(n)
    BY <1>0, ViewChanges
  <1>2. /\ blot' \in [Msg -> SUBSET Blots]
        /\ \A n \in Msg : "unsure" \in blot'[n] <=> "unsure" \in blot[n]
    BY <1>0, ViewChanges
  <1>3. /\ DOMAIN item' = Msg
        /\ \A n \in Msg : /\ DOMAIN item'[n] = Fields /\ item'[n].k = item[n].k
                          /\ item'[n].status = item[n].status
                          /\ ~item[n].pooled => ~item'[n].pooled
    BY <1>0, ViewChanges
  <1>4. Typed'
    BY <1>0, <1>1, <1>2, <1>3 DEF Typed
  <1>5. ASSUME NEW n \in Msg PROVE MsgInv(n)'
    <2>1. StartsFirst(n)'
      BY <1>0, <1>1 DEF MsgInv, StartsFirst
    <2>2. OneWaits(n)'
      BY <1>0, <1>1, <1>3 DEF MsgInv, OneWaits, Waits
    <2>3. SentOnce(n)'
      BY <1>0, <1>1, <1>2, <1>3 DEF MsgInv, SentOnce, Waits
    <2> QED BY <2>1, <2>2, <2>3 DEF MsgInv
  <1> QED BY <1>4, <1>5 DEF SendInv, MsgInv

LEMMA SendInvInit == ASSUME Init PROVE SendInv
  <1>1. Typed
    BY DEF Init, Typed, CallStates, NoCall, NoItem, Fields
  <1>2. ASSUME NEW m \in Msg PROVE StartsFirst(m) /\ OneWaits(m) /\ SentOnce(m)
    <2>1. /\ \A c \in Calls : call[m][c].at = "none"
          /\ item[m].k = 0 /\ ~ item[m].pooled /\ made[m] = 0 /\ Posted(m) = {} /\ air = {}
      BY DEF Init, Posted, NoCall, NoItem
    <2> QED BY <2>1, FirstCall DEF StartsFirst, OneWaits, SentOnce, Waits
  <1> QED BY <1>1, <1>2 DEF SendInv

LEMMA SendInvStep == ASSUME SendInv, [Next]_vars PROVE SendInv'
  <1>1. CASE \E m \in Msg : SendChannelMessage(m)
    BY <1>1, StartSteps, FirstCall
  <1>2. CASE \E m \in Msg, c \in Calls :
               RetrySendMessage(m, c) \/ PrepareFails(m, c) \/ Timeout(m, c) \/ CallStep(m, c)
    <2>1. PICK m \in Msg, c \in Calls :
               RetrySendMessage(m, c) \/ PrepareFails(m, c) \/ Timeout(m, c) \/ CallStep(m, c)
      BY <1>2
    <2>2. call[m][c] \in CallStates /\ tip \in Nat
      BY DEF SendInv, Typed
    <2>3. CASE Prepared(m, c)
      BY <2>2, <2>3, MakeEventStep DEF Prepared, CallStates
    <2>4. CASE RetryBadPrev(m, c)
      <3>1. call[m][c].tries + 1 \in Nat /\ call[m][c].k \in Nat /\ call[m][c].expected \in Nat
        BY <2>2 DEF CallStates
      <3> QED BY <2>4, <3>1, MakeEventStep DEF RetryBadPrev, Waits
    <2>5. CASE RetryLater(m, c)
      <3>1. call[m][c].tries + 1 \in Nat /\ call[m][c].k \in Nat /\ call[m][c].ref \in Nat
        BY <2>2 DEF CallStates
      <3>2. Waits(m, c) /\ call[m][c].answer \notin {"none", "ok"}
        BY <2>5 DEF RetryLater, Waits
      <3> QED BY <2>5, <3>1, <3>2, MakeEventStep DEF RetryLater
    <2> QED BY <2>1, <2>3, <2>4, <2>5, StartSteps, EndSteps, TimeoutStep DEF CallStep
  <1>3. CASE \E q \in air : AddEvent(q) \/ AddEventFails(q)
    BY <1>3, NodeStep
  <1>4. CASE NewBlock \/ BlocksAge \/ SyncUpdate \/ SyncReset \/ vars' = vars
    BY <1>4, ViewSteps
  <1> QED BY <1>1, <1>2, <1>3, <1>4 DEF Next

\* makeAndSendChannelMessageEvent, its retries and the retries of the user never put a
\* message into the stream twice, unless an answer was lost or reported an error for an
\* event that the node took.
THEOREM PostedOnceTheorem == Spec => []PostedTwiceOnlyIfUnsure
  <1>1. SendInv => PostedTwiceOnlyIfUnsure
    <2> SUFFICES ASSUME SendInv, NEW m \in Msg, "unsure" \notin blot[m]
                 PROVE  \A e, f \in Posted(m) : e = f
      BY DEF PostedTwiceOnlyIfUnsure
    <2>1. \A e \in Posted(m) : e = [m |-> m, k |-> item[m].k]
      BY DEF SendInv, SentOnce, Typed, Posted
    <2> QED BY <2>1
  <1> QED BY <1>1, SendInvInit, SendInvStep, PTL DEF Spec

----------------------------------------------------------------------------
\* The answer "ok" and the status "sent" stand for an event of the stream.
LEMMA DeliveryStep == ASSUME DeliveryInv, [Next]_vars PROVE \A m \in Msg : Delivered(m)'
  <1>0. SendInv /\ Typed /\ \A m \in Msg : Delivered(m) /\ OneWaits(m)
    BY DEF DeliveryInv, SendInv
  <1>1. ASSUME accepted \subseteq accepted', NEW m \in Msg,
               item'[m].status = "sent" => item'[m].k = item[m].k /\ item[m].status = "sent",
               \A c \in Calls : call'[m][c].at = "done" => call'[m][c] = call[m][c],
               \A c \in Calls : Waits(m, c)' /\ call'[m][c].answer = "ok" => call'[m][c] = call[m][c]
        PROVE  Delivered(m)'
    BY <1>0, <1>1 DEF Delivered, Waits
  <1>2. ASSUME accepted' = accepted, NEW m \in Msg, NEW c \in Calls,
               NEW id \in Nat, NEW ref \in Nat, NEW tries \in Nat, MakeEvent(m, c, id, ref, tries)
        PROVE  \A n \in Msg : Delivered(n)'
    <2>0. made[m] + 1 \in Nat
      BY <1>0, <1>2 DEF Typed
    <2>1. /\ UpdateLocalEvent(m, id, made[m] + 1, "sending")
          /\ call'[m][c].at = "threw" \/ call'[m][c].answer = "none"
          /\ call'[m][c].at \in {"threw", "request"}
          /\ \A d \in Calls \ {c} : call'[m][d] = call[m][d]
          /\ \A n \in Msg \ {m} : call'[n] = call[n]
      <3>1. DOMAIN call' = Msg /\ Typed
        BY <1>0, <1>2, MakeEventChanges
      <3> QED BY <1>2, <3>1, MakeEventChanges
    <2>2. /\ \A n \in Msg \ {m} : item'[n] = item[n]
          /\ item'[m] = item[m] \/ item'[m].status = "sending"
      BY <1>0, <1>2, <2>0, <2>1, OneItem
    <2>3. Delivered(m)'
      BY <1>1, <1>2, <2>1, <2>2 DEF Waits
    <2>4. \A n \in Msg \ {m} : Delivered(n)'
      BY <1>1, <1>2, <2>1, <2>2
    <2> QED BY <2>3, <2>4
  <1>3. ASSUME NEW m \in Msg, NEW c \in Calls, (SendChannelMessage(m) /\ c = 1) \/ RetrySendMessage(m, c)
        PROVE  \A n \in Msg : Delivered(n)'
    <2>1. /\ accepted' = accepted
          /\ \A n \in Msg : item'[n] = item[n] \/ item'[n].status = "sending"
      BY <1>0, <1>3 DEF SendChannelMessage, RetrySendMessage, nodeVars, NoItem, Typed
    <2>2. \A n \in Msg, d \in Calls : call'[n][d] = call[n][d] \/ call'[n][d].at = "prepare"
      <3>1. CASE SendChannelMessage(m) /\ c = 1
        <4>1. call' = [call EXCEPT ![m][c] = [NoCall EXCEPT !.at = "prepare"]]
          BY <3>1 DEF SendChannelMessage
        <4> QED BY <1>0, <4>1 DEF NoCall, Typed
      <3>2. CASE RetrySendMessage(m, c)
        <4>1. call' = [call EXCEPT ![m][c] = [NoCall EXCEPT !.at = "prepare", !.id = item[m].k]]
          BY <3>2 DEF RetrySendMessage
        <4> QED BY <1>0, <4>1 DEF NoCall, Typed
      <3> QED BY <1>3, <3>1, <3>2
    <2> QED BY <1>1, <2>1, <2>2 DEF Waits
  <1>4. ASSUME NEW m \in Msg, NEW c \in Calls, PrepareFails(m, c)
        PROVE  \A n \in Msg : Delivered(n)'
    <2>1. accepted' = accepted /\ item' = item
      BY <1>4 DEF PrepareFails, nodeVars
    <2>2. \A n \in Msg, d \in Calls : call'[n][d] = call[n][d] \/ call'[n][d].at = "threw"
      BY <1>0, <1>4 DEF PrepareFails, Typed, CallStates
    <2> QED BY <1>1, <2>1, <2>2 DEF Waits
  <1>5. ASSUME NEW m \in Msg, NEW c \in Calls, SendFails(m, c)
        PROVE  \A n \in Msg : Delivered(n)'
    <2>1. /\ accepted' = accepted
          /\ UpdateLocalEvent(m, call[m][c].id, call[m][c].k, "failed")
          /\ call[m][c].id \in Nat /\ call[m][c].k \in Nat
      BY <1>0, <1>5 DEF SendFails, nodeVars, Typed, CallStates
    <2>2. \A n \in Msg : item'[n] = item[n] \/ item'[n].status = "failed"
      BY <1>0, <2>1, OneItem
    <2>3. \A n \in Msg, d \in Calls : call'[n][d] = call[n][d] \/ call'[n][d].at = "threw"
      BY <1>0, <1>5 DEF SendFails, Typed, CallStates
    <2> QED BY <1>1, <2>1, <2>2, <2>3 DEF Waits
  <1>6. ASSUME NEW m \in Msg, NEW c \in Calls, AddEventReturns(m, c)
        PROVE  \A n \in Msg : Delivered(n)'
    <2>1. /\ accepted' = accepted /\ Waits(m, c) /\ call[m][c].answer = "ok"
          /\ UpdateLocalEvent(m, call[m][c].id, call[m][c].k, "sent")
          /\ call[m][c] \in CallStates /\ call[m][c].id \in Nat /\ call[m][c].k \in Nat
      BY <1>0, <1>6 DEF AddEventReturns, nodeVars, Typed, CallStates, Waits
    <2>2. Event(m, call[m][c].k) \in accepted
      BY <1>0, <2>1 DEF Delivered
    <2>3. /\ \A n \in Msg \ {m} : item'[n] = item[n]
          /\ item'[m] = item[m] \/ item'[m].k = call[m][c].k
      BY <1>0, <2>1, OneItem
    <2>4. PICK x \in {"done", "threw"} : call' = [call EXCEPT ![m][c] = [call[m][c] EXCEPT !.at = x]]
      BY <1>6 DEF AddEventReturns
    <2>5. /\ [call[m][c] EXCEPT !.at = x] \in CallStates /\ [call[m][c] EXCEPT !.at = x].at = x
          /\ [call[m][c] EXCEPT !.at = x].k = call[m][c].k
      BY <2>1 DEF CallStates
    <2>6. /\ call'[m][c].at = x /\ call'[m][c].k = call[m][c].k
          /\ \A d \in Calls \ {c} : call'[m][d] = call[m][d]
          /\ \A n \in Msg \ {m} : call'[n] = call[n]
      BY <1>0, <2>4, <2>5, OneCall
    <2>7. Delivered(m)'
      BY <1>0, <2>1, <2>2, <2>3, <2>6 DEF Delivered, Waits
    <2>8. \A n \in Msg \ {m} : Delivered(n)'
      BY <1>1, <2>1, <2>3, <2>6
    <2> QED BY <2>7, <2>8
  <1>7. ASSUME NEW m \in Msg, NEW c \in Calls, Timeout(m, c)
        PROVE  \A n \in Msg : Delivered(n)'
    <2>1. accepted' = accepted /\ item' = item /\ Waits(m, c) /\ call[m][c] \in CallStates
      BY <1>0, <1>7 DEF Timeout, nodeVars, Waits, Typed
    <2>2. \A n \in Msg, d \in Calls :
             call'[n][d] = call[n][d] \/ (call'[n][d].at = "request" /\ call'[n][d].answer # "ok")
      <3>1. PICK v : /\ v.at = "request" /\ v.answer # "ok"
                     /\ call' = [call EXCEPT ![m][c] = v]
        <4>1. CASE call[m][c].attempt > MaxAttempts
          <5> DEFINE v == [call[m][c] EXCEPT !.answer = "error"]
          <5>1. v.at = "request" /\ v.answer # "ok"
            BY <2>1 DEF Waits, CallStates
          <5>2. call' = [call EXCEPT ![m][c] = v]
            BY <1>7, <4>1 DEF Timeout
          <5> HIDE DEF v
          <5> QED BY <5>1, <5>2
        <4>2. CASE ~(call[m][c].attempt > MaxAttempts)
          <5> DEFINE again == call[m][c].attempt + 1
                     v == [call[m][c] EXCEPT !.answer = "none", !.attempt = again]
          <5>1. v.at = "request" /\ v.answer # "ok"
            <6> HIDE DEF again
            <6> QED BY <2>1 DEF Waits, CallStates
          <5>2. call' = [call EXCEPT ![m][c] = v]
            BY <1>7, <4>2 DEF Timeout
          <5> HIDE DEF v
          <5> QED BY <5>1, <5>2
        <4> QED BY <4>1, <4>2
      <3> QED BY <1>0, <3>1 DEF Typed
    <2> QED BY <1>1, <2>1, <2>2 DEF Waits
  <1>8. ASSUME NEW q \in air, AddEvent(q) \/ AddEventFails(q)
        PROVE  \A n \in Msg : Delivered(n)'
    <2>1. PICK answer \in {"ok", "badPrev", "tooNew", "unconfirmed", "error"} :
             /\ Answer(q, answer) /\ item' = item
             /\ \/ accepted' = accepted /\ answer # "ok"
                \/ accepted' = accepted \cup {Event(q.m, q.k)}
      BY <1>8, NodeChanges
    <2>2. /\ \A n \in Msg, d \in Calls : Alike(call'[n][d], call[n][d])
          /\ \A n \in Msg, d \in Calls : n # q.m \/ d # q.c => call'[n][d] = call[n][d]
          /\ \/ /\ Waits(q.m, q.c) /\ call[q.m][q.c].k = q.k /\ call'[q.m][q.c].answer = answer
             \/ call' = call
      BY <1>0, <2>1, AnswerChanges
    <2> SUFFICES ASSUME NEW n \in Msg PROVE Delivered(n)'
      OBVIOUS
    <2>3. ASSUME NEW d \in Calls,
                 call'[n][d].at = "done" \/ (Waits(n, d)' /\ call'[n][d].answer = "ok")
          PROVE  Event(n, call'[n][d].k) \in accepted'
      <3>1. CASE call'[n][d] = call[n][d]
        BY <1>0, <2>1, <2>3, <3>1 DEF Delivered, Waits
      <3>2. CASE call'[n][d] # call[n][d]
        BY <2>1, <2>2, <2>3, <3>2 DEF Alike, Waits
      <3> QED BY <3>1, <3>2
    <2> QED BY <1>0, <2>1, <2>3 DEF Delivered
  <1>9. ASSUME NewBlock \/ BlocksAge \/ SyncUpdate \/ SyncReset \/ vars' = vars
        PROVE  \A n \in Msg : Delivered(n)'
    <2>1. /\ accepted' = accepted /\ call' = call
          /\ \A n \in Msg : item'[n].k = item[n].k /\ item'[n].status = item[n].status
      BY <1>0, <1>9, ViewChanges
    <2> QED BY <1>1, <2>1
  <1>10. ASSUME NEW m \in Msg, NEW c \in Calls, Prepared(m, c) \/ RetryBadPrev(m, c) \/ RetryLater(m, c)
         PROVE  \A n \in Msg : Delivered(n)'
    <2>1. accepted' = accepted
      BY <1>10 DEF Prepared, RetryBadPrev, RetryLater, nodeVars
    <2>2. /\ call[m][c].id \in Nat /\ call[m][c].k \in Nat /\ call[m][c].ref \in Nat /\ tip \in Nat
          /\ call[m][c].expected \in Nat /\ call[m][c].tries + 1 \in Nat
      BY <1>0 DEF Typed, CallStates
    <2> QED BY <1>2, <1>10, <2>1, <2>2 DEF Prepared, RetryBadPrev, RetryLater
  <1> QED BY <1>3, <1>4, <1>5, <1>6, <1>7, <1>8, <1>9, <1>10, FirstCall DEF Next, CallStep

\* A message that updateLocalEvent shows as sent, and one whose call has returned, are in
\* the stream, whatever answers were late and whatever calls overlapped.
THEOREM DeliveryTheorem == Spec => []SentIsDelivered
  <1>1. Init => DeliveryInv
    <2>1. ASSUME Init, NEW m \in Msg PROVE Delivered(m)
      BY <2>1 DEF Init, Delivered, Waits, NoCall, NoItem
    <2> QED BY <2>1, SendInvInit DEF DeliveryInv
  <1>2. DeliveryInv /\ [Next]_vars => DeliveryInv'
    BY DeliveryStep, SendInvStep DEF DeliveryInv
  <1>3. DeliveryInv => SentIsDelivered
    BY DEF DeliveryInv, Delivered, SentIsDelivered
  <1> QED BY <1>1, <1>2, <1>3, PTL DEF Spec

----------------------------------------------------------------------------
(* The timeline.  An event reaches the sync session once by itself, and again  *)
(* in the header of the miniblock that contains it, which comes later.         *)

Events == [m : Msg, k : Nat \ {0}]
Entries == [header : BOOLEAN, events : SUBSET Events]

\* e is an entry of its own among the first n of the log.
Listed(e, n) == \E j \in 1..n : ~log[j].header /\ e \in log[j].events

LogOK ==
    /\ log \in Seq(Entries) /\ cursor \in Nat /\ cursor <= Len(log)
    /\ \A e \in npool : Listed(e, Len(log))
    /\ \A i \in 1..Len(log) :
          /\ log[i].events \subseteq accepted
          /\ log[i].header => \A e \in log[i].events : Listed(e, i)
    /\ \A i, j \in 1..Len(log) :
          ~log[i].header /\ ~log[j].header /\ log[i].events \cap log[j].events # {} => i = j

\* A local event is in the timeline; one that the view has confirmed was listed.
LocalOK(m) ==
    /\ item[m].pooled => item[m].shown
    /\ item[m].shown /\ ~item[m].pooled /\ item[m].k # 0 => Listed(Event(m, item[m].k), cursor)

Shown(e) ==
    \/ e \in remote
    \/ item[e.m].shown /\ item[e.m].k = e.k
    \/ item[e.m].k > e.k /\ "unsure" \in blot[e.m]

ShownInv ==
    /\ SendInv /\ LogOK /\ \A m \in Msg : LocalOK(m)
    /\ remote \subseteq accepted
    /\ \A e \in accepted : Listed(e, cursor) => Shown(e)
    /\ ShownOnce

\* Every call sends events of its own.
OwnIds(m) ==
    /\ \A c \in Calls : /\ call[m][c].k <= made[m]
                        /\ call[m][c].at \in {"none", "prepare"} => call[m][c].k = 0
    /\ \A c, d \in Calls : call[m][c].k = call[m][d].k => c = d \/ call[m][c].k = 0

\* The local event of a message leaves the minipool of the view only when the view
\* confirms it or is initialized anew.
Explained(m, k) == Event(m, k) \in Confirmed \/ blot[m] \cap {"unsure", "reset"} # {}

RaceInv(m) ==
    /\ OwnIds(m)
    /\ call[m][1].at # "none" /\ ~item[m].pooled => Explained(m, item[m].k)
    /\ \A c \in Calls :
          call[m][c].at = "threw" /\ Event(m, call[m][c].k) \in accepted => Explained(m, call[m][c].k)

\* The log only gets longer, by one entry, and the view does not go back.
LogGrows ==
    /\ log' = log \/ \E x : log' = Append(log, x)
    /\ cursor' = cursor \/ (cursor < Len(log) /\ cursor' = cursor + 1) \/ cursor' = Len(log)

\* Which entries an older part of the log has does not change.
LEMMA ListedKept ==
    ASSUME log \in Seq(Entries), log' = log \/ \E x : log' = Append(log, x)
    PROVE  /\ Len(log) \in Nat /\ Len(log') \in Nat /\ Len(log) <= Len(log')
           /\ \A j \in 1..Len(log) : log'[j] = log[j]
           /\ \A n \in Nat : \A e : n <= Len(log) => (Listed(e, n)' <=> Listed(e, n))
  <1>1. /\ Len(log) \in Nat /\ Len(log') \in Nat /\ Len(log) <= Len(log')
        /\ \A j \in 1..Len(log) : log'[j] = log[j]
    <2>1. CASE log' = log
      BY <2>1
    <2>2. ASSUME NEW x, log' = Append(log, x)
          PROVE  /\ Len(log') = Len(log) + 1 /\ Len(log) \in Nat
                 /\ \A j \in 1..Len(log) : log'[j] = log[j]
      BY <2>2
    <2> QED BY <2>1, <2>2
  <1>2. ASSUME NEW n \in Nat, NEW e, n <= Len(log) PROVE Listed(e, n)' <=> Listed(e, n)
    <2>1. \A j \in 1..n : j \in 1..Len(log) /\ log'[j] = log[j]
      BY <1>1, <1>2
    <2> QED BY <2>1 DEF Listed
  <1> QED BY <1>1, <1>2

\* An entry of a longer part of the log.
LEMMA ListedLonger ==
    ASSUME NEW n \in Nat, NEW i \in Nat, n <= i, NEW e, Listed(e, n) PROVE Listed(e, i)
  BY DEF Listed

\* A node takes a new event or makes a miniblock.
LEMMA LogAppended ==
    ASSUME LogOK, NEW x \in Entries, log' = Append(log, x), cursor' = cursor,
           accepted \subseteq accepted', x.events \subseteq accepted',
           x.header => x.events \subseteq npool /\ npool' = {},
           ~x.header => x.events \cap accepted = {} /\ npool' \subseteq npool \cup x.events
    PROVE  LogOK'
  <1>0. PICK n : n = Len(log) + 1
    OBVIOUS
  <1>1. /\ log \in Seq(Entries) /\ log' \in Seq(Entries) /\ n \in Nat /\ Len(log) \in Nat
        /\ Len(log') = n /\ log'[n] = x /\ \A j \in 1..Len(log) : log'[j] = log[j]
    BY <1>0 DEF LogOK
  <1>2. \A i \in Nat : \A e : i <= Len(log) => (Listed(e, i)' <=> Listed(e, i))
    BY <1>1, ListedKept
  <1>3. \A i \in 1..n : i \in Nat /\ (i \in 1..Len(log) \/ i = n) /\ (i \in 1..Len(log) => i <= Len(log))
    BY <1>0, <1>1
  <1>4. n \in 1..n /\ Len(log) <= n
    BY <1>0, <1>1
  <1>5. \A e \in x.events : ~x.header => Listed(e, n)'
    BY <1>1, <1>4 DEF Listed
  <1>6. \A e : Listed(e, Len(log)) => Listed(e, n)'
    <2> SUFFICES ASSUME NEW e, Listed(e, Len(log)) PROVE Listed(e, n)'
      OBVIOUS
    <2>1. PICK j \in 1..Len(log) : ~log[j].header /\ e \in log[j].events
      BY DEF Listed
    <2>2. j \in 1..n
      BY <1>1, <1>4
    <2> QED BY <1>1, <2>1, <2>2 DEF Listed
  <1>7. \A e \in npool' : Listed(e, Len(log))'
    BY <1>1, <1>5, <1>6 DEF LogOK
  <1>8. ASSUME NEW i \in 1..n
        PROVE  /\ log'[i].events \subseteq accepted'
               /\ log'[i].header => \A e \in log'[i].events : Listed(e, i)'
    <2>1. CASE i \in 1..Len(log)
      BY <1>1, <1>2, <1>3, <2>1 DEF LogOK
    <2>2. CASE i = n
      BY <1>1, <1>6, <2>2 DEF LogOK
    <2> QED BY <1>3, <2>1, <2>2
  <1>9. ASSUME NEW i \in 1..n, NEW j \in 1..n, ~log'[i].header, ~log'[j].header,
               log'[i].events \cap log'[j].events # {}
        PROVE  i = j
    <2>1. ASSUME NEW a \in 1..Len(log), ~x.header PROVE log[a].events \cap x.events = {}
      BY <2>1 DEF LogOK
    <2>2. CASE i \in 1..Len(log) /\ j \in 1..Len(log)
      BY <1>1, <1>9, <2>2 DEF LogOK
    <2>3. CASE i = n \/ j = n
      BY <1>1, <1>3, <1>9, <2>1, <2>3
    <2> QED BY <1>3, <2>2, <2>3
  <1>10. cursor' \in Nat /\ cursor' <= Len(log')
    BY <1>1, <1>4 DEF LogOK
  <1> QED BY <1>1, <1>7, <1>8, <1>9, <1>10 DEF LogOK

\* Steps that do not add to the log.
LEMMA LogSame ==
    ASSUME LogOK, UNCHANGED <<log, npool>>, accepted \subseteq accepted', LogGrows
    PROVE  LogOK'
  <1>1. log \in Seq(Entries) /\ Len(log) \in Nat /\ \A e, n : Listed(e, n)' <=> Listed(e, n)
    BY DEF LogOK, Listed
  <1>2. cursor' \in Nat /\ cursor' <= Len(log')
    BY <1>1 DEF LogOK, LogGrows
  <1> QED BY <1>1, <1>2 DEF LogOK

\* A request is handled.
LEMMA LogNode ==
    ASSUME Typed, LogOK, NEW q \in air, AddEvent(q) \/ AddEventFails(q)
    PROVE  LogOK' /\ LogGrows /\ cursor' = cursor /\ accepted \subseteq accepted' /\ remote' = remote
  <1> DEFINE e == Event(q.m, q.k)
  <1>1. e \in Events
    BY DEF Typed, Requests, Events, Event
  <1>2. cursor' = cursor /\ remote' = remote
    BY DEF AddEvent, AddEventFails, viewVars
  <1>3. UNCHANGED <<accepted, npool, log>> \/ Take(e)
    BY DEF AddEvent, AddEventFails
  <1> HIDE DEF e
  <1>4. CASE UNCHANGED <<accepted, npool, log>>
    <2>1. LogGrows
      BY <1>2, <1>4 DEF LogGrows
    <2> QED BY <1>2, <1>4, <2>1, LogSame
  <1>5. CASE e \notin accepted /\ Take(e)
    <2> DEFINE x == [header |-> FALSE, events |-> {e}]
    <2>1. /\ accepted' = accepted \cup {e} /\ npool' = npool \cup {e} /\ log' = Append(log, x)
      BY <1>5 DEF Take
    <2>2. x \in Entries /\ ~x.header /\ x.events = {e}
      BY <1>1 DEF Entries
    <2> HIDE DEF x
    <2>3. x.events \subseteq accepted' /\ x.events \cap accepted = {}
      BY <1>5, <2>1, <2>2
    <2>4. LogOK'
      BY <1>2, <2>1, <2>2, <2>3, LogAppended
    <2> QED BY <1>2, <2>1, <2>4 DEF LogGrows
  <1> QED BY <1>3, <1>4, <1>5 DEF Take

\* Every other step.
LEMMA LogOther ==
    ASSUME LogOK, [Next]_vars, ~\E q \in air : AddEvent(q) \/ AddEventFails(q)
    PROVE  LogOK' /\ LogGrows
  <1>1. CASE NewBlock
    <2> DEFINE x == [header |-> TRUE, events |-> npool]
    <2>1. log' = Append(log, x) /\ npool' = {} /\ cursor' = cursor /\ accepted' = accepted
      BY <1>1 DEF NewBlock, viewVars
    <2>2. npool \subseteq accepted /\ npool \subseteq Events
      <3> SUFFICES ASSUME NEW e \in npool PROVE e \in accepted /\ e \in Events
        OBVIOUS
      <3>1. PICK j \in 1..Len(log) : e \in log[j].events
        BY DEF LogOK, Listed
      <3>2. log[j] \in Entries
        BY DEF LogOK
      <3> QED BY <3>1, <3>2 DEF LogOK, Entries
    <2>3. x \in Entries /\ x.header /\ x.events = npool
      BY <2>2 DEF Entries
    <2> HIDE DEF x
    <2>4. LogOK'
      BY <2>1, <2>2, <2>3, LogAppended
    <2> QED BY <2>1, <2>4 DEF LogGrows
  <1>2. CASE SyncUpdate \/ SyncReset
    <2>1. UNCHANGED <<log, npool, accepted>> /\ LogGrows
      BY <1>2 DEF SyncUpdate, SyncReset, nodeVars, LogGrows
    <2> QED BY <2>1, LogSame
  <1>3. CASE BlocksAge \/ vars' = vars \/ \E m \in Msg : SendChannelMessage(m)
    <2>1. UNCHANGED <<log, npool, accepted>> /\ LogGrows
      BY <1>3 DEF BlocksAge, SendChannelMessage, vars, nodeVars, viewVars, LogGrows
    <2> QED BY <2>1, LogSame
  <1>4. CASE \E m \in Msg, c \in Calls :
               RetrySendMessage(m, c) \/ PrepareFails(m, c) \/ Timeout(m, c) \/ CallStep(m, c)
    <2>1. UNCHANGED <<log, npool, accepted>> /\ LogGrows
      BY <1>4 DEF RetrySendMessage, PrepareFails, Timeout, CallStep, Prepared, AddEventReturns,
                  RetryBadPrev, RetryLater, SendFails, nodeVars, viewVars, LogGrows
    <2> QED BY <2>1, LogSame
  <1> QED BY <1>1, <1>2, <1>3, <1>4 DEF Next

\* What a step that is not one of the sync session may do to a local event: it appears,
\* or gets a new id; an id that the node has taken is only given up after a lost answer.
ItemKept(m) ==
    /\ item'[m].shown = item[m].shown /\ item'[m].pooled = item[m].pooled
    /\ \/ item'[m].k = item[m].k
       \/ /\ item[m].pooled /\ item'[m].k > item[m].k
          /\ Posted(m) # {} => "unsure" \in blot[m]

ItemAppears(m) == item'[m].shown /\ item'[m].pooled /\ Posted(m) = {}

LEMMA ItemUpdated ==
    ASSUME Typed, NEW m \in Msg, NEW id \in Nat, NEW k \in Nat, NEW status,
           UpdateLocalEvent(m, id, k, status)
    PROVE  /\ item'[m].shown = item[m].shown /\ item'[m].pooled = item[m].pooled
           /\ \A n \in Msg \ {m} : item'[n] = item[n]
           /\ item'[m].k = item[m].k \/ (Found(m, id, k) /\ item'[m].k = k)
  <1>1. CASE Found(m, id, k)
    <2>1. item' = [item EXCEPT ![m] = [item[m] EXCEPT !.k = k, !.status = status]]
      BY <1>1 DEF UpdateLocalEvent
    <2> QED BY <1>1, <2>1 DEF Typed, Fields
  <1>2. CASE ~Found(m, id, k)
    BY <1>2 DEF UpdateLocalEvent
  <1> QED BY <1>1, <1>2

LEMMA ItemMakes ==
    ASSUME SendInv, NEW m \in Msg, NEW c \in Calls, NEW id \in Nat,
           UpdateLocalEvent(m, id, made[m] + 1, "sending"),
           \/ call[m][c].at = "prepare" /\ id = call[m][c].id
           \/ Waits(m, c) /\ id = call[m][c].k /\ call[m][c].answer \notin {"none", "ok"}
    PROVE  \A n \in Msg : ItemKept(n)
  <1> DEFINE k == made[m] + 1
  <1>1. Typed /\ OneWaits(m) /\ SentOnce(m) /\ k \in Nat /\ made[m] \in Nat
    BY DEF SendInv, Typed
  <1>2. item[m].k \in Nat /\ item[m].k <= made[m]
    BY <1>1 DEF OneWaits, Typed
  <1>3. /\ item'[m].shown = item[m].shown /\ item'[m].pooled = item[m].pooled
        /\ \A n \in Msg \ {m} : item'[n] = item[n]
        /\ item'[m].k = item[m].k \/ (Found(m, id, k) /\ item'[m].k = k)
    <2> HIDE DEF k
    <2>1. UpdateLocalEvent(m, id, k, "sending")
      BY DEF k
    <2> QED BY <1>1, <2>1, ItemUpdated
  <1>4. k > item[m].k /\ k # item[m].k
    BY <1>1, <1>2
  <1> HIDE DEF k
  <1>5. ASSUME Found(m, id, k), "unsure" \notin blot[m], NEW e \in Posted(m) PROVE FALSE
    <2>1. item[m].pooled /\ item[m].k = id
      BY <1>4, <1>5 DEF Found
    <2>2. e.k = item[m].k /\ e.k # 0
      BY <1>1, <1>5 DEF SentOnce, Posted, Typed
    <2>3. \/ item[m].status = "sent"
          \/ \E d \in Calls : Waits(m, d) /\ call[m][d].answer = "ok"
      BY <1>1, <1>5, <2>1 DEF SentOnce
    <2>4. CASE call[m][c].at = "prepare" /\ id = call[m][c].id
      <3>1. item[m].status = "failed"
        BY <1>1, <2>1, <2>2, <2>4 DEF OneWaits
      <3> QED BY <1>1, <2>3, <3>1 DEF OneWaits
    <2>5. CASE Waits(m, c) /\ call[m][c].answer \notin {"none", "ok"}
      BY <1>1, <1>5, <2>5 DEF SentOnce
    <2> QED BY <2>4, <2>5
  <1>6. ItemKept(m)
    BY <1>3, <1>4, <1>5 DEF ItemKept, Found
  <1>7. ASSUME NEW n \in Msg \ {m} PROVE ItemKept(n)
    BY <1>3 DEF ItemKept
  <1> QED BY <1>6, <1>7

LEMMA ItemSteps ==
    ASSUME SendInv, [Next]_vars, ~SyncUpdate, ~SyncReset
    PROVE  /\ \A n \in Msg : ItemKept(n) \/ ItemAppears(n)
           /\ \A n \in Msg : blot[n] \subseteq blot'[n]
  <1>0. Typed /\ \A n \in Msg : StartsFirst(n) /\ OneWaits(n)
    BY DEF SendInv
  <1>1. ASSUME item' = item PROVE \A n \in Msg : ItemKept(n)
    BY <1>1 DEF ItemKept
  <1>2. ASSUME NEW m \in Msg, SendChannelMessage(m)
        PROVE  /\ \A n \in Msg : ItemKept(n) \/ ItemAppears(n)
               /\ blot' = blot
    <2>1. /\ item' = [item EXCEPT ![m] = [NoItem EXCEPT !.shown = TRUE, !.pooled = TRUE,
                                                        !.status = "sending"]]
          /\ call[m][1].at = "none" /\ blot' = blot
      BY <1>2 DEF SendChannelMessage
    <2>2. item'[m].shown /\ item'[m].pooled /\ \A n \in Msg \ {m} : item'[n] = item[n]
      BY <1>0, <2>1 DEF Typed, NoItem
    <2>3. Posted(m) = {}
      BY <1>0, <2>1 DEF StartsFirst
    <2> QED BY <2>1, <2>2, <2>3 DEF ItemKept, ItemAppears
  <1>3. ASSUME NEW m \in Msg, NEW c \in Calls, RetrySendMessage(m, c) \/ PrepareFails(m, c) \/ Timeout(m, c)
        PROVE  item' = item /\ \A n \in Msg : blot[n] \subseteq blot'[n]
    BY <1>0, <1>3 DEF RetrySendMessage, PrepareFails, Timeout, Blot, Typed
  <1>4. ASSUME NEW m \in Msg, NEW c \in Calls, AddEventReturns(m, c) \/ SendFails(m, c)
        PROVE  (\A n \in Msg : ItemKept(n)) /\ blot' = blot
    <2>1. PICK status : UpdateLocalEvent(m, call[m][c].id, call[m][c].k, status)
      BY <1>4 DEF AddEventReturns, SendFails
    <2>2. Waits(m, c) /\ blot' = blot
      BY <1>4 DEF AddEventReturns, SendFails, Waits
    <2>3. call[m][c].id \in Nat /\ call[m][c].k \in Nat
      BY <1>0 DEF Typed, CallStates
    <2>4. call[m][c].k = item[m].k
      BY <1>0, <2>2 DEF OneWaits
    <2>5. /\ item'[m].shown = item[m].shown /\ item'[m].pooled = item[m].pooled
          /\ \A n \in Msg \ {m} : item'[n] = item[n]
          /\ item'[m].k = item[m].k
      BY <1>0, <2>1, <2>3, <2>4, ItemUpdated
    <2> QED BY <2>2, <2>5 DEF ItemKept
  <1>5. ASSUME NEW m \in Msg, NEW c \in Calls, Prepared(m, c) \/ RetryBadPrev(m, c) \/ RetryLater(m, c)
        PROVE  /\ \A n \in Msg : ItemKept(n)
               /\ \A n \in Msg : blot[n] \subseteq blot'[n]
    <2>1. PICK id, ref, tries :
              /\ id \in {call[m][c].id, call[m][c].k} /\ MakeEvent(m, c, id, ref, tries)
              /\ \/ call[m][c].at = "prepare" /\ id = call[m][c].id
                 \/ Waits(m, c) /\ id = call[m][c].k /\ call[m][c].answer \notin {"none", "ok"}
      BY <1>5 DEF Prepared, RetryBadPrev, RetryLater, Waits
    <2>2. id \in Nat
      BY <1>0, <2>1 DEF Typed, CallStates
    <2>3. UpdateLocalEvent(m, id, made[m] + 1, "sending") /\ (blot' = blot \/ Blot(m, "unsent"))
      BY <2>1 DEF MakeEvent
    <2>4. \A n \in Msg : blot[n] \subseteq blot'[n]
      BY <1>0, <2>3 DEF Blot, Typed
    <2> QED BY <2>1, <2>2, <2>3, <2>4, ItemMakes
  <1>6. ASSUME NEW q \in air, AddEvent(q) \/ AddEventFails(q)
        PROVE  item' = item /\ \A n \in Msg : blot[n] \subseteq blot'[n]
    <2>1. item' = item /\ (blot' = blot \/ Blot(q.m, "unsure"))
      BY <1>6, NodeChanges
    <2> QED BY <1>0, <2>1 DEF Blot, Typed
  <1>7. ASSUME NewBlock \/ BlocksAge \/ vars' = vars PROVE item' = item /\ blot' = blot
    BY <1>7 DEF NewBlock, BlocksAge, vars
  <1> QED BY <1>1, <1>2, <1>3, <1>4, <1>5, <1>6, <1>7 DEF Next, CallStep

\* Steps of the calls and of the node leave what is in the timeline there.
LEMMA ShownKept ==
    ASSUME ShownInv, SendInv', [Next]_vars, ~SyncUpdate, ~SyncReset
    PROVE  ShownInv'
  <1>1. /\ SendInv /\ Typed /\ LogOK /\ remote \subseteq accepted /\ ShownOnce
        /\ \A m \in Msg : LocalOK(m)
        /\ \A e \in accepted : Listed(e, cursor) => Shown(e)
    BY DEF ShownInv, SendInv
  <1>2. /\ LogOK' /\ LogGrows /\ cursor' = cursor /\ remote' = remote /\ accepted \subseteq accepted'
    <2>1. CASE \E q \in air : AddEvent(q) \/ AddEventFails(q)
      BY <1>1, <2>1, LogNode
    <2>2. CASE ~\E q \in air : AddEvent(q) \/ AddEventFails(q)
      <3>1. LogOK' /\ LogGrows
        BY <1>1, <2>2, LogOther
      <3>2. UNCHANGED <<cursor, remote, accepted>>
        <4>1. CASE NewBlock \/ BlocksAge \/ vars' = vars \/ \E m \in Msg : SendChannelMessage(m)
          BY <4>1 DEF NewBlock, BlocksAge, SendChannelMessage, vars, nodeVars, viewVars
        <4>2. CASE \E m \in Msg, c \in Calls :
                     RetrySendMessage(m, c) \/ PrepareFails(m, c) \/ Timeout(m, c) \/ CallStep(m, c)
          BY <4>2 DEF RetrySendMessage, PrepareFails, Timeout, CallStep, Prepared, AddEventReturns,
                      RetryBadPrev, RetryLater, SendFails, nodeVars, viewVars
        <4> QED BY <2>2, <4>1, <4>2 DEF Next
      <3> QED BY <3>1, <3>2
    <2> QED BY <2>1, <2>2
  <1>3. \A e : Listed(e, cursor)' <=> Listed(e, cursor)
    <2>1. cursor \in Nat /\ cursor <= Len(log) /\ log \in Seq(Entries)
      BY <1>1 DEF LogOK
    <2>2. \A n \in Nat : \A e : n <= Len(log) => (Listed(e, n)' <=> Listed(e, n))
      BY <1>2, <2>1, ListedKept DEF LogGrows
    <2>3. \A e : \E n : n = cursor /\ (Listed(e, n)' <=> Listed(e, n))
      BY <2>1, <2>2
    <2> QED BY <1>2, <2>3 DEF Listed
  <1>4. /\ \A n \in Msg : ItemKept(n) \/ ItemAppears(n)
        /\ \A n \in Msg : blot[n] \subseteq blot'[n]
    BY <1>1, ItemSteps
  <1>5. \A m \in Msg : item[m].k \in Nat
    BY <1>1 DEF Typed
  <1>6. ASSUME NEW m \in Msg PROVE LocalOK(m)'
    <2>1. CASE ItemAppears(m)
      BY <2>1 DEF LocalOK, ItemAppears
    <2>2. CASE ItemKept(m)
      <3>1. LocalOK(m)
        BY <1>1
      <3>2. item'[m].pooled => item'[m].shown
        BY <2>2, <3>1 DEF LocalOK, ItemKept
      <3>3. ASSUME item'[m].shown, ~item'[m].pooled, item'[m].k # 0
            PROVE  Listed(Event(m, item[m].k), cursor)'
        <4>1. item[m].shown /\ ~item[m].pooled /\ item'[m].k = item[m].k
          BY <2>2, <3>3 DEF ItemKept
        <4>2. PICK e : e = Event(m, item[m].k)
          OBVIOUS
        <4>3. Listed(e, cursor)
          BY <3>1, <3>3, <4>1, <4>2 DEF LocalOK
        <4>4. Listed(e, cursor)'
          BY <1>3, <4>3
        <4> QED BY <4>1, <4>2, <4>4 DEF Listed, Event
      <3> QED BY <3>2, <3>3 DEF LocalOK
    <2> QED BY <1>4, <2>1, <2>2
  <1>7. ASSUME NEW e \in accepted', Listed(e, cursor)' PROVE Shown(e)'
    <2>1. Listed(e, cursor)
      BY <1>3, <1>7
    <2>2. e \in accepted
      <3>1. PICK j \in 1..cursor : e \in log[j].events
        BY <2>1 DEF Listed
      <3>2. j \in 1..Len(log)
        BY <1>1, <3>1 DEF LogOK
      <3> QED BY <1>1, <3>1, <3>2 DEF LogOK
    <2>3. Shown(e) /\ e.m \in Msg /\ e.k \in Nat /\ e \in Posted(e.m)
      BY <1>1, <2>1, <2>2 DEF Typed, Posted
    <2>4. ItemKept(e.m)
      BY <1>4, <2>3 DEF ItemAppears
    <2>5. item'[e.m].k \in Nat
      BY <2>3 DEF SendInv, Typed
    <2>6. CASE e \in remote
      BY <1>2, <2>6 DEF Shown
    <2>7. CASE item[e.m].shown /\ item[e.m].k = e.k
      BY <1>4, <2>3, <2>4, <2>7 DEF Shown, ItemKept
    <2>8. CASE item[e.m].k > e.k /\ "unsure" \in blot[e.m]
      <3>1. item'[e.m].k > e.k
        BY <1>5, <2>3, <2>4, <2>5, <2>8 DEF ItemKept
      <3> QED BY <1>4, <2>3, <2>8, <3>1 DEF Shown
    <2> QED BY <2>3, <2>6, <2>7, <2>8 DEF Shown
  <1>8. ShownOnce'
    <2> SUFFICES ASSUME NEW m \in Msg, item'[m].shown, NEW e \in remote', e.m = m
                 PROVE  "unsure" \in blot'[m]
      BY DEF ShownOnce
    <2>1. e \in remote /\ e \in Posted(m)
      BY <1>1, <1>2 DEF Posted
    <2>2. item[m].shown
      BY <1>4, <2>1 DEF ItemKept, ItemAppears
    <2> QED BY <1>1, <1>4, <2>1, <2>2 DEF ShownOnce
  <1>9. remote' \subseteq accepted'
    BY <1>1, <1>2
  <1> QED BY <1>2, <1>6, <1>7, <1>8, <1>9 DEF ShownInv

\* The sync session applies an entry of the log.
LEMMA ShownUpdate ==
    ASSUME ShownInv, SendInv', SyncUpdate PROVE ShownInv'
  <1> DEFINE u == log[cursor + 1]
             local == {m \in Msg : item[m].pooled /\ Event(m, item[m].k) \in u.events}
             known == {Event(m, item[m].k) : m \in local}
  <1>1. /\ SendInv /\ Typed /\ LogOK /\ remote \subseteq accepted /\ ShownOnce
        /\ \A m \in Msg : LocalOK(m)
        /\ \A e \in accepted : Listed(e, cursor) => Shown(e)
    BY DEF ShownInv, SendInv
  <1>2. UNCHANGED <<log, npool, accepted, blot>> /\ cursor < Len(log) /\ cursor' = cursor + 1
    BY DEF SyncUpdate, nodeVars
  <1>3. LogOK'
    BY <1>1, <1>2, LogSame DEF LogGrows
  <1>4. cursor \in Nat /\ cursor + 1 \in 1..Len(log) /\ cursor + 1 \in Nat
    BY <1>1, <1>2 DEF LogOK
  <1>5. u \in Entries /\ u.events \subseteq accepted
    BY <1>1, <1>4 DEF LogOK
  <1>6. \A e : Listed(e, cursor)' <=> Listed(e, cursor) \/ (~u.header /\ e \in u.events)
    <2>1. \A j : j \in 1..(cursor + 1) <=> j \in 1..cursor \/ j = cursor + 1
      BY <1>4
    <2> QED BY <1>2, <2>1 DEF Listed
  <1>7. CASE u.header
    <2>1. /\ item' = [m \in Msg |-> IF m \in local THEN [item[m] EXCEPT !.pooled = FALSE] ELSE item[m]]
          /\ remote' = remote
      BY <1>7 DEF SyncUpdate
    <2>2. ASSUME NEW m \in Msg
          PROVE  /\ item'[m].shown = item[m].shown /\ item'[m].k = item[m].k
                 /\ m \in local => ~item'[m].pooled
                 /\ m \notin local => item'[m] = item[m]
      <3>1. DOMAIN item[m] = Fields
        BY <1>1 DEF Typed
      <3> HIDE DEF local
      <3> QED BY <2>1, <3>1 DEF Fields
    <2>3. ASSUME NEW m \in Msg PROVE LocalOK(m)'
      <3>1. CASE m \in local
        <4>1. Event(m, item[m].k) \in u.events
          BY <3>1
        <4>2. Listed(Event(m, item[m].k), cursor + 1)
          BY <1>1, <1>4, <1>7, <4>1 DEF LogOK
        <4>3. Listed(Event(m, item[m].k), cursor)'
          BY <1>2, <2>2, <4>2 DEF Listed
        <4> HIDE DEF local
        <4> QED BY <2>2, <3>1, <4>3 DEF LocalOK
      <3>2. CASE m \notin local
        <4> HIDE DEF local
        <4>1. item'[m] = item[m] /\ LocalOK(m)
          BY <1>1, <2>2, <3>2
        <4>2. LET e == Event(m, item[m].k) IN Listed(e, cursor) => Listed(e, cursor)'
          BY <1>6, <4>1
        <4> QED BY <4>1, <4>2 DEF LocalOK
      <3> QED BY <3>1, <3>2
    <2>4. ASSUME NEW e \in accepted', Listed(e, cursor)' PROVE Shown(e)'
      <3>1. Shown(e) /\ e.m \in Msg
        BY <1>1, <1>2, <1>6, <1>7, <2>4 DEF Typed
      <3> HIDE DEF local
      <3> QED BY <1>2, <2>1, <2>2, <3>1 DEF Shown
    <2>5. ShownOnce'
      <3> HIDE DEF local
      <3> QED BY <1>1, <1>2, <2>1, <2>2 DEF ShownOnce
    <2> QED BY <1>1, <1>2, <1>3, <2>1, <2>3, <2>4, <2>5 DEF ShownInv
  <1>8. CASE ~u.header
    <2>1. /\ item' = [m \in Msg |-> IF m \in local THEN [item[m] EXCEPT !.remote = TRUE] ELSE item[m]]
          /\ remote' = remote \cup (u.events \ known)
      BY <1>8 DEF SyncUpdate
    <2>2. ASSUME NEW m \in Msg
          PROVE  /\ item'[m].shown = item[m].shown /\ item'[m].k = item[m].k
                 /\ item'[m].pooled = item[m].pooled
      <3>1. DOMAIN item[m] = Fields
        BY <1>1 DEF Typed
      <3> HIDE DEF local
      <3> QED BY <2>1, <3>1 DEF Fields
    <2>3. ASSUME NEW m \in Msg PROVE LocalOK(m)'
      <3>1. LocalOK(m)
        BY <1>1
      <3>2. Listed(Event(m, item[m].k), cursor) => Listed(Event(m, item[m].k), cursor)'
        <4>1. \A e : Listed(e, cursor) => Listed(e, cursor + 1)
          BY <1>4, ListedLonger
        <4> QED BY <1>2, <2>2, <4>1 DEF Listed
      <3> QED BY <2>2, <3>1, <3>2 DEF LocalOK
    <2>4. ASSUME NEW e \in accepted', Listed(e, cursor)' PROVE Shown(e)'
      <3>1. e \in Events /\ e.m \in Msg
        BY <1>1, <1>2, <2>4 DEF Typed, Events
      <3>2. CASE Listed(e, cursor)
        <4>1. Shown(e)
          BY <1>1, <1>2, <2>4, <3>2
        <4> HIDE DEF known
        <4> QED BY <1>2, <2>1, <2>2, <3>1, <4>1 DEF Shown
      <3>3. CASE e \in u.events /\ e \notin known
        <4> HIDE DEF known
        <4> QED BY <2>1, <3>3 DEF Shown
      <3>4. CASE e \in known
        <4>1. PICK m \in local : e = Event(m, item[m].k)
          BY <3>4
        <4>2. e.m = m /\ e.k = item[m].k /\ item[m].shown /\ m \in Msg
          BY <1>1, <4>1 DEF Event, LocalOK
        <4> HIDE DEF local, known
        <4> QED BY <2>2, <4>2 DEF Shown
      <3> HIDE DEF known
      <3> QED BY <1>6, <2>4, <3>2, <3>3, <3>4
    <2>5. ShownOnce'
      <3> SUFFICES ASSUME NEW m \in Msg, item'[m].shown, NEW e \in remote', e.m = m,
                          "unsure" \notin blot'[m]
                   PROVE  FALSE
        BY DEF ShownOnce
      <3>1. item[m].shown /\ "unsure" \notin blot[m]
        BY <1>2, <2>2
      <3>2. e \notin remote
        BY <1>1, <3>1 DEF ShownOnce
      <3>3. e \in u.events /\ e \notin known
        <4> HIDE DEF known
        <4> QED BY <2>1, <3>2
      <3>4. e \in Posted(m) /\ e \in Events
        BY <1>1, <1>5, <3>3 DEF Posted, Typed, Events
      <3>5. e.k = item[m].k /\ e.k # 0
        BY <1>1, <3>1, <3>4 DEF SendInv, SentOnce, Events
      <3>6. e = Event(m, item[m].k)
        BY <3>4, <3>5 DEF Events, Event
      <3>7. ~item[m].pooled
        BY <3>3, <3>6
      <3>8. Listed(e, cursor)
        BY <1>1, <3>1, <3>5, <3>6, <3>7 DEF LocalOK
      <3>9. PICK j \in 1..cursor : ~log[j].header /\ e \in log[j].events
        BY <3>8 DEF Listed
      <3>10. j \in 1..Len(log) /\ j # cursor + 1
        BY <1>4, <3>9
      <3>11. log[j].events \cap u.events # {}
        BY <3>3, <3>9
      <3> QED BY <1>1, <1>4, <1>8, <3>9, <3>10, <3>11 DEF LogOK
    <2>6. remote' \subseteq accepted'
      <3> HIDE DEF known
      <3> QED BY <1>1, <1>2, <1>5, <2>1
    <2> QED BY <1>3, <2>3, <2>4, <2>5, <2>6 DEF ShownInv
  <1> QED BY <1>7, <1>8

\* The view is initialized anew.
LEMMA ShownReset ==
    ASSUME ShownInv, SendInv', SyncReset PROVE ShownInv'
  <1>1. SendInv /\ Typed /\ LogOK
    BY DEF ShownInv, SendInv
  <1>2. UNCHANGED <<log, npool, accepted>> /\ cursor' = Len(log) /\ remote' = accepted
    BY DEF SyncReset, nodeVars
  <1>3. LogOK'
    BY <1>1, <1>2, LogSame DEF LogGrows
  <1>4. ASSUME NEW m \in Msg
        PROVE  /\ item'[m].shown = (item[m].pooled /\ item[m].k = 0) /\ item'[m].k = item[m].k
               /\ ~item'[m].pooled
    BY <1>1 DEF SyncReset, Typed, Fields
  <1>5. ASSUME NEW m \in Msg PROVE LocalOK(m)'
    BY <1>4 DEF LocalOK
  <1>6. ASSUME NEW e \in accepted' PROVE Shown(e)'
    BY <1>2 DEF Shown
  <1>7. ShownOnce'
    <2> SUFFICES ASSUME NEW m \in Msg, item'[m].shown, NEW e \in accepted, e.m = m
                 PROVE  "unsure" \in blot'[m]
      BY <1>2 DEF ShownOnce
    <2>1. item[m].k = 0 /\ e.k # 0 /\ e \in Posted(m)
      BY <1>1, <1>4 DEF Typed, Posted
    <2>2. "unsure" \in blot[m]
      BY <1>1, <2>1 DEF SendInv, SentOnce
    <2> QED BY <1>1, <2>2 DEF SyncReset, Typed
  <1> QED BY <1>2, <1>3, <1>5, <1>6, <1>7 DEF ShownInv

LEMMA ShownInvInit == ASSUME Init PROVE ShownInv
  <1>1. /\ log = <<>> /\ cursor = 0 /\ npool = {} /\ accepted = {} /\ remote = {}
        /\ \A m \in Msg : ~item[m].shown /\ ~item[m].pooled
    BY DEF Init, NoItem
  <1>2. LogOK
    BY <1>1 DEF LogOK
  <1> QED BY <1>1, <1>2, SendInvInit DEF ShownInv, LocalOK, ShownOnce

LEMMA ShownInvStep == ASSUME ShownInv, [Next]_vars PROVE ShownInv'
  <1>1. SendInv'
    BY SendInvStep DEF ShownInv
  <1> QED BY <1>1, ShownKept, ShownUpdate, ShownReset

\* appendStreamAndCookie, processMiniblockHeader and updateLocalEvent show every message
\* that has arrived, and none of them twice, whatever order the answer of addEvent, the
\* sync updates and a new initialization of the view come in.
THEOREM ShownTheorem == Spec => []ShownExactlyOnce
  <1>1. ShownInv => ShownExactlyOnce
    <2> SUFFICES ASSUME ShownInv, NEW e \in Applied PROVE Shown(e)
      BY DEF ShownExactlyOnce, AppliedIsShown, Shown, ShownInv
    <2>1. PICK i \in 1..cursor : e \in log[i].events
      BY DEF Applied
    <2>2. i \in 1..Len(log) /\ i \in Nat /\ cursor \in Nat /\ i <= cursor
      BY DEF ShownInv, LogOK
    <2>3. e \in accepted
      BY <2>1, <2>2 DEF ShownInv, LogOK
    <2>4. Listed(e, cursor)
      <3>1. CASE log[i].header
        <4>1. Listed(e, i)
          BY <2>1, <2>2, <3>1 DEF ShownInv, LogOK
        <4> QED BY <2>2, <4>1, ListedLonger
      <3>2. CASE ~log[i].header
        BY <2>1, <3>2 DEF Listed
      <3> QED BY <3>1, <3>2
    <2> QED BY <2>3, <2>4 DEF ShownInv
  <1> QED BY <1>1, ShownInvInit, ShownInvStep, PTL DEF Spec

----------------------------------------------------------------------------
(* Calls that reject although their event is in the stream.                    *)

RejectInv == SendInv /\ LogOK /\ \A m \in Msg : RaceInv(m)

\* What is confirmed stays confirmed, and what has happened to a message is not forgotten.
LEMMA ExplainedKept ==
    ASSUME SendInv, LogOK, [Next]_vars
    PROVE  /\ LogOK' /\ LogGrows
           /\ \A m \in Msg : blot[m] \subseteq blot'[m]
           /\ \A m \in Msg : \A k : Explained(m, k) => Explained(m, k)'
  <1>1. Typed
    BY DEF SendInv
  <1>2. LogOK' /\ LogGrows
    BY <1>1, LogNode, LogOther
  <1>3. \A m \in Msg : blot[m] \subseteq blot'[m]
    <2>1. CASE SyncUpdate
      BY <2>1 DEF SyncUpdate
    <2>2. CASE SyncReset
      BY <1>1, <2>2 DEF SyncReset, Typed
    <2> QED BY <2>1, <2>2, ItemSteps
  <1>4. ASSUME NEW e \in Confirmed PROVE e \in Confirmed'
    <2>1. PICK i \in 1..cursor : log[i].header /\ e \in log[i].events
      BY <1>4 DEF Confirmed
    <2>2. /\ cursor \in Nat /\ cursor' \in Nat /\ cursor <= cursor' /\ i \in 1..Len(log)
          /\ Len(log) \in Nat /\ log \in Seq(Entries)
      BY <1>2 DEF LogOK, LogGrows
    <2>3. log'[i] = log[i] /\ i \in 1..cursor'
      BY <1>2, <2>2, ListedKept DEF LogGrows
    <2> QED BY <2>1, <2>3 DEF Confirmed
  <1>5. ASSUME NEW m \in Msg, NEW k, Explained(m, k) PROVE Explained(m, k)'
    <2>1. Event(m, k) \in Confirmed => Event(m, k) \in Confirmed'
      BY <1>4
    <2> QED BY <1>3, <1>5, <2>1 DEF Explained, Event
  <1> QED BY <1>2, <1>3, <1>5

\* A step that makes a call reject has a reason; a message has a local event in the
\* minipool of the view when its first call starts.
CallEnds(m) ==
    \A c \in Calls : call'[m][c].at = "threw" =>
        \/ call[m][c].at = "threw" /\ call'[m][c].k = call[m][c].k
        \/ \A k : k = call'[m][c].k /\ Event(m, k) \in accepted' => Explained(m, k)

CallStarts(m) == call'[m][1].at # "none" => call[m][1].at # "none" \/ item'[m].pooled

LEMMA CallsAlike ==
    ASSUME NEW m \in Msg, OwnIds(m), made'[m] = made[m],
           \A c \in Calls : call'[m][c].at = call[m][c].at /\ call'[m][c].k = call[m][c].k
    PROVE  OwnIds(m)' /\ CallEnds(m) /\ CallStarts(m)
  BY FirstCall DEF OwnIds, CallEnds, CallStarts

\* One call changes.
LEMMA CallMoves ==
    ASSUME Typed, NEW m \in Msg, NEW c \in Calls, NEW w \in CallStates,
           \A n \in Msg : OwnIds(n), made' = made, call' = [call EXCEPT ![m][c] = w],
           w.k = 0 \/ (w.k = call[m][c].k /\ w.at \notin {"none", "prepare"}),
           w.at = "threw" => \A k : k = w.k /\ Event(m, k) \in accepted' => Explained(m, k),
           c = 1 => call[m][1].at # "none" \/ item'[m].pooled
    PROVE  \A n \in Msg : OwnIds(n)' /\ CallEnds(n) /\ CallStarts(n)
  <1>1. /\ call'[m][c] = w /\ \A d \in Calls \ {c} : call'[m][d] = call[m][d]
        /\ \A n \in Msg \ {m} : call'[n] = call[n]
    BY OneCall
  <1>2. ASSUME NEW n \in Msg \ {m} PROVE OwnIds(n)' /\ CallEnds(n) /\ CallStarts(n)
    BY <1>1, CallsAlike
  <1>3. made[m] \in Nat
    BY DEF Typed
  <1>4. OwnIds(m)'
    BY <1>1, <1>3 DEF OwnIds
  <1>5. CallEnds(m)
    BY <1>1 DEF CallEnds
  <1>6. CallStarts(m)
    BY <1>1, FirstCall DEF CallStarts
  <1> QED BY <1>2, <1>4, <1>5, <1>6

\* A call makes its event: the id is new.
LEMMA CallMakes ==
    ASSUME SendInv, \A n \in Msg : OwnIds(n), NEW m \in Msg, NEW c \in Calls,
           NEW id \in Nat, NEW ref \in Nat, NEW tries \in Nat, MakeEvent(m, c, id, ref, tries),
           accepted' = accepted, call[m][c].at # "none"
    PROVE  \A n \in Msg : OwnIds(n)' /\ CallEnds(n) /\ CallStarts(n)
  <1> DEFINE k == made[m] + 1
  <1>1. Typed /\ OneWaits(m) /\ SentOnce(m) /\ StartsFirst(m) /\ made[m] \in Nat /\ k \in Nat
    BY DEF SendInv, Typed
  <1>2. /\ made' = [made EXCEPT ![m] = k]
        /\ \A d \in Calls \ {c} : call'[m][d] = call[m][d]
        /\ \A n \in Msg \ {m} : call'[n] = call[n]
        /\ call'[m][c].k = k /\ call'[m][c].at \in {"threw", "request"}
    BY <1>1, MakeEventChanges
  <1>3. made'[m] = k /\ \A n \in Msg \ {m} : made'[n] = made[n]
    <2> HIDE DEF k
    <2> QED BY <1>1, <1>2 DEF Typed
  <1>4. ASSUME NEW n \in Msg \ {m} PROVE OwnIds(n)' /\ CallEnds(n) /\ CallStarts(n)
    BY <1>2, <1>3, CallsAlike
  <1>5. OwnIds(m)'
    <2>1. \A d \in Calls : call[m][d].k \in Nat /\ call[m][d].k <= made[m]
      BY <1>1 DEF Typed, CallStates, OwnIds
    <2>2. \A d \in Calls \ {c} : call'[m][d].k < k /\ call'[m][d].k <= k
      BY <1>1, <1>2, <2>1
    <2>3. k <= k
      BY <1>1
    <2> HIDE DEF k
    <2>4. \A d \in Calls \ {c} : call'[m][d].k # k
      BY <1>1, <1>2, <2>1, <2>2
    <2>5. \A d \in Calls : /\ call'[m][d].k <= made'[m]
                           /\ call'[m][d].at \in {"none", "prepare"} => call'[m][d].k = 0
      BY <1>2, <1>3, <2>2, <2>3 DEF OwnIds
    <2>6. ASSUME NEW b \in Calls, NEW d \in Calls, call'[m][b].k = call'[m][d].k
          PROVE  b = d \/ call'[m][b].k = 0
      BY <1>2, <2>4, <2>6 DEF OwnIds
    <2> QED BY <2>5, <2>6 DEF OwnIds
  <1>6. "unsure" \notin blot[m] => Event(m, k) \notin accepted
    <2>1. item[m].k # k
      BY <1>1 DEF OneWaits, Typed
    <2>2. Event(m, k).m = m /\ Event(m, k).k = k
      BY DEF Event
    <2> HIDE DEF k
    <2> QED BY <1>1, <2>1, <2>2 DEF SentOnce, Posted
  <1>7. CallEnds(m)
    <2> HIDE DEF k
    <2>1. Event(m, k) \in accepted' => Explained(m, k)
      BY <1>6 DEF Explained
    <2> QED BY <1>2, <2>1 DEF CallEnds
  <1>8. CallStarts(m)
    BY <1>1 DEF StartsFirst, CallStarts
  <1> QED BY <1>4, <1>5, <1>7, <1>8

LEMMA CallRaces ==
    ASSUME RejectInv, [Next]_vars
    PROVE  \A n \in Msg : OwnIds(n)' /\ CallEnds(n) /\ CallStarts(n)
  <1>0. /\ SendInv /\ Typed /\ \A m \in Msg : StartsFirst(m) /\ OneWaits(m) /\ SentOnce(m)
        /\ \A m \in Msg : RaceInv(m) /\ OwnIds(m)
    BY DEF RejectInv, SendInv, RaceInv
  <1>1. ASSUME NEW m \in Msg, SendChannelMessage(m)
        PROVE  \A n \in Msg : OwnIds(n)' /\ CallEnds(n) /\ CallStarts(n)
    <2> DEFINE w == [NoCall EXCEPT !.at = "prepare"]
    <2>1. w \in CallStates /\ w.at = "prepare" /\ w.k = 0
      BY DEF CallStates, NoCall
    <2>2. call' = [call EXCEPT ![m][1] = w] /\ made' = made
      BY <1>1 DEF SendChannelMessage
    <2>3. item'[m].pooled
      BY <1>0, <1>1 DEF SendChannelMessage, NoItem, Typed
    <2> HIDE DEF w
    <2> QED BY <1>0, <2>1, <2>2, <2>3, CallMoves, FirstCall
  <1>2. ASSUME NEW m \in Msg, NEW c \in Calls, RetrySendMessage(m, c)
        PROVE  \A n \in Msg : OwnIds(n)' /\ CallEnds(n) /\ CallStarts(n)
    <2> DEFINE w == [NoCall EXCEPT !.at = "prepare", !.id = item[m].k]
    <2>1. w \in CallStates /\ w.at = "prepare" /\ w.k = 0
      <3>1. item[m].k \in Nat
        BY <1>0 DEF Typed
      <3> QED BY <3>1 DEF CallStates, NoCall
    <2>2. call' = [call EXCEPT ![m][c] = w] /\ made' = made
      BY <1>2 DEF RetrySendMessage
    <2>3. c # 1
      BY <1>2 DEF RetrySendMessage, Calls
    <2> HIDE DEF w
    <2> QED BY <1>0, <2>1, <2>2, <2>3, CallMoves
  <1>3. ASSUME NEW m \in Msg, NEW c \in Calls, NEW x \in {"done", "threw"},
               call' = [call EXCEPT ![m][c].at = x], made' = made, accepted' = accepted,
               call[m][c].at # "none",
               x = "threw" => \A k : k = call[m][c].k /\ Event(m, k) \in accepted => Explained(m, k)
        PROVE  \A n \in Msg : OwnIds(n)' /\ CallEnds(n) /\ CallStarts(n)
    <2> DEFINE w == [call[m][c] EXCEPT !.at = x]
    <2>1. w \in CallStates /\ w.at = x /\ w.k = call[m][c].k
      <3>1. call[m][c] \in CallStates
        BY <1>0 DEF Typed
      <3> QED BY <1>3, <3>1 DEF CallStates
    <2>2. call' = [call EXCEPT ![m][c] = w] /\ made' = made
      BY <1>3
    <2> HIDE DEF w
    <2>3. c = 1 => call[m][1].at # "none" \/ item'[m].pooled
      BY <1>3
    <2>4. w.at = "threw" => \A k : k = w.k /\ Event(m, k) \in accepted' => Explained(m, k)
      BY <1>3, <2>1
    <2>5. w.k = 0 \/ (w.k = call[m][c].k /\ w.at \notin {"none", "prepare"})
      BY <1>3, <2>1
    <2>6. w \in CallStates
      BY <2>1
    <2> QED BY <1>0, <2>2, <2>3, <2>4, <2>5, <2>6, CallMoves
  <1>4. ASSUME NEW m \in Msg, NEW c \in Calls, PrepareFails(m, c)
        PROVE  \A n \in Msg : OwnIds(n)' /\ CallEnds(n) /\ CallStarts(n)
    <2>1. /\ call' = [call EXCEPT ![m][c].at = "threw"] /\ made' = made /\ accepted' = accepted
          /\ call[m][c].at = "prepare"
      BY <1>4 DEF PrepareFails, nodeVars
    <2>2. call[m][c].k = 0
      BY <1>0, <2>1 DEF OwnIds
    <2>3. Event(m, 0) \notin accepted
      BY <1>0 DEF Typed, Event
    <2> QED BY <1>3, <2>1, <2>2, <2>3
  <1>5. ASSUME NEW m \in Msg, NEW c \in Calls, SendFails(m, c)
        PROVE  \A n \in Msg : OwnIds(n)' /\ CallEnds(n) /\ CallStarts(n)
    <2>1. /\ call' = [call EXCEPT ![m][c].at = "threw"] /\ made' = made /\ accepted' = accepted
          /\ Waits(m, c) /\ call[m][c].answer # "ok"
      BY <1>5 DEF SendFails, nodeVars, Waits
    <2>2. ASSUME NEW k, Event(m, k) \in accepted PROVE Explained(m, k)
      <3>1. Event(m, k) \in Posted(m)
        BY <2>2 DEF Posted, Event
      <3>2. "unsure" \in blot[m]
        BY <1>0, <2>1, <3>1 DEF SentOnce
      <3> QED BY <3>2 DEF Explained
    <2>3. call[m][c].at # "none"
      BY <2>1 DEF Waits
    <2> QED BY <1>3, <2>1, <2>2, <2>3
  <1>6. ASSUME NEW m \in Msg, NEW c \in Calls, AddEventReturns(m, c)
        PROVE  \A n \in Msg : OwnIds(n)' /\ CallEnds(n) /\ CallStarts(n)
    <2> DEFINE x == IF Found(m, call[m][c].id, call[m][c].k) THEN "done" ELSE "threw"
    <2>1. /\ call' = [call EXCEPT ![m][c].at = x] /\ made' = made /\ accepted' = accepted
          /\ Waits(m, c) /\ x \in {"done", "threw"}
      BY <1>6 DEF AddEventReturns, nodeVars, Waits
    <2>2. call[m][c].k = item[m].k /\ call[m][1].at # "none" /\ call[m][c].at # "none"
      BY <1>0, <2>1 DEF OneWaits, StartsFirst, Waits
    <2>3. x = "threw" => Explained(m, call[m][c].k)
      <3>1. x = "threw" => ~item[m].pooled
        BY <2>2 DEF Found
      <3>2. ~item[m].pooled => Explained(m, item[m].k)
        BY <1>0, <2>2 DEF RaceInv
      <3> QED BY <2>2, <3>1, <3>2
    <2> HIDE DEF x
    <2> QED BY <1>3, <2>1, <2>2, <2>3
  <1>7. ASSUME NEW m \in Msg, NEW c \in Calls, Prepared(m, c) \/ RetryBadPrev(m, c) \/ RetryLater(m, c)
        PROVE  \A n \in Msg : OwnIds(n)' /\ CallEnds(n) /\ CallStarts(n)
    <2>1. accepted' = accepted /\ call[m][c].at # "none"
      BY <1>7 DEF Prepared, RetryBadPrev, RetryLater, nodeVars
    <2>2. /\ call[m][c].id \in Nat /\ call[m][c].k \in Nat /\ call[m][c].ref \in Nat /\ tip \in Nat
          /\ call[m][c].expected \in Nat /\ call[m][c].tries + 1 \in Nat
      BY <1>0 DEF Typed, CallStates
    <2>3. PICK id \in Nat, ref \in Nat, tries \in Nat : MakeEvent(m, c, id, ref, tries)
      BY <1>7, <2>2 DEF Prepared, RetryBadPrev, RetryLater
    <2> QED BY <1>0, <2>1, <2>3, CallMakes
  <1>8. ASSUME NEW m \in Msg, NEW c \in Calls, Timeout(m, c)
        PROVE  \A n \in Msg : OwnIds(n)' /\ CallEnds(n) /\ CallStarts(n)
    <2>1. made' = made /\ call[m][c] \in CallStates
      BY <1>0, <1>8 DEF Timeout, Typed
    <2>2. PICK w \in CallStates : /\ w.at = call[m][c].at /\ w.k = call[m][c].k
                                  /\ call' = [call EXCEPT ![m][c] = w]
      <3>1. CASE call[m][c].attempt > MaxAttempts
        <4> DEFINE w == [call[m][c] EXCEPT !.answer = "error"]
        <4>1. w \in CallStates /\ w.at = call[m][c].at /\ w.k = call[m][c].k
          BY <2>1 DEF CallStates
        <4>2. call' = [call EXCEPT ![m][c] = w]
          BY <1>8, <3>1 DEF Timeout
        <4> HIDE DEF w
        <4> QED BY <4>1, <4>2
      <3>2. CASE ~(call[m][c].attempt > MaxAttempts)
        <4> DEFINE again == call[m][c].attempt + 1
                   w == [call[m][c] EXCEPT !.answer = "none", !.attempt = again]
        <4>0. again \in Nat
          BY <2>1 DEF CallStates
        <4>1. w \in CallStates /\ w.at = call[m][c].at /\ w.k = call[m][c].k
          <5> HIDE DEF again
          <5> QED BY <2>1, <4>0 DEF CallStates
        <4>2. call' = [call EXCEPT ![m][c] = w]
          BY <1>8, <3>2 DEF Timeout
        <4> HIDE DEF w
        <4> QED BY <4>1, <4>2
      <3> QED BY <3>1, <3>2
    <2>3. /\ call'[m][c] = w /\ \A d \in Calls \ {c} : call'[m][d] = call[m][d]
          /\ \A n \in Msg \ {m} : call'[n] = call[n]
      BY <1>0, <2>2, OneCall
    <2>4. \A n \in Msg, d \in Calls : call'[n][d].at = call[n][d].at /\ call'[n][d].k = call[n][d].k
      BY <2>2, <2>3
    <2> QED BY <1>0, <2>1, <2>4, CallsAlike
  <1>9. ASSUME NEW q \in air, AddEvent(q) \/ AddEventFails(q)
        PROVE  \A n \in Msg : OwnIds(n)' /\ CallEnds(n) /\ CallStarts(n)
    <2>1. made' = made /\ \E answer \in {"ok", "badPrev", "tooNew", "unconfirmed", "error"} : Answer(q, answer)
      BY <1>9, NodeChanges
    <2>2. \A n \in Msg, d \in Calls : call'[n][d].at = call[n][d].at /\ call'[n][d].k = call[n][d].k
      BY <1>0, <2>1, AnswerChanges DEF Alike
    <2> QED BY <1>0, <2>1, <2>2, CallsAlike
  <1>10. ASSUME NewBlock \/ BlocksAge \/ SyncUpdate \/ SyncReset \/ vars' = vars
         PROVE  \A n \in Msg : OwnIds(n)' /\ CallEnds(n) /\ CallStarts(n)
    <2>1. made' = made /\ call' = call
      BY <1>0, <1>10, ViewChanges
    <2> QED BY <1>0, <2>1, CallsAlike
  <1> QED BY <1>1, <1>2, <1>4, <1>5, <1>6, <1>7, <1>8, <1>9, <1>10 DEF Next, CallStep

\* A local event leaves the minipool of the view for a reason.
LEMMA PoolLeft ==
    ASSUME RejectInv, [Next]_vars, NEW m \in Msg, call'[m][1].at # "none", ~item'[m].pooled,
           CallStarts(m)
    PROVE  Explained(m, item[m].k)'
  <1>0. SendInv /\ Typed /\ LogOK /\ RaceInv(m)
    BY DEF RejectInv, SendInv
  <1>1. call[m][1].at # "none"
    BY DEF CallStarts
  <1>2. ASSUME ~item[m].pooled, item'[m].k = item[m].k PROVE Explained(m, item[m].k)'
    <2>1. PICK k : k = item[m].k
      OBVIOUS
    <2>2. Explained(m, k)
      BY <1>0, <1>1, <1>2, <2>1 DEF RaceInv
    <2>3. Explained(m, k)'
      BY <1>0, <2>2, ExplainedKept
    <2> QED BY <1>2, <2>1, <2>3 DEF Explained, Event
  <1>3. CASE SyncReset
    <2>1. "reset" \in blot'[m]
      BY <1>3 DEF SyncReset
    <2> QED BY <2>1 DEF Explained
  <1>4. CASE SyncUpdate
    <2> DEFINE u == log[cursor + 1]
               local == {n \in Msg : item[n].pooled /\ Event(n, item[n].k) \in u.events}
    <2>1. /\ cursor < Len(log) /\ cursor' = cursor + 1 /\ log' = log
          /\ \/ /\ u.header
                /\ item' = [n \in Msg |-> IF n \in local THEN [item[n] EXCEPT !.pooled = FALSE] ELSE item[n]]
             \/ item' = [n \in Msg |-> IF n \in local THEN [item[n] EXCEPT !.remote = TRUE] ELSE item[n]]
      BY <1>4 DEF SyncUpdate, nodeVars
    <2>2. item'[m].k = item[m].k
      BY <1>0, <1>4, ViewChanges
    <2>3. CASE item[m].pooled
      <3>1. DOMAIN item[m] = Fields
        BY <1>0 DEF Typed
      <3>2. u.header /\ m \in local
        <4> HIDE DEF u, local
        <4> QED BY <2>1, <2>3, <3>1 DEF Fields
      <3>3. Event(m, item[m].k) \in u.events
        BY <3>2
      <3>4. cursor + 1 \in 1..cursor'
        BY <1>0, <2>1 DEF LogOK
      <3>5. Event(m, item'[m].k) \in Confirmed'
        BY <2>1, <2>2, <3>2, <3>3, <3>4 DEF Confirmed
      <3> QED BY <3>5 DEF Explained
    <2>4. CASE ~item[m].pooled
      BY <1>2, <2>2, <2>4
    <2> QED BY <2>3, <2>4
  <1>5. CASE ~SyncUpdate /\ ~SyncReset
    <2>1. ItemKept(m)
      BY <1>0, <1>5, ItemSteps DEF ItemAppears
    <2> QED BY <1>2, <2>1 DEF ItemKept
  <1> QED BY <1>3, <1>4, <1>5

LEMMA RejectInvStep == ASSUME RejectInv, [Next]_vars PROVE RejectInv'
  <1>0. SendInv /\ Typed /\ LogOK /\ \A m \in Msg : RaceInv(m) /\ OwnIds(m) /\ SentOnce(m)
    BY DEF RejectInv, SendInv, RaceInv
  <1>1. SendInv'
    BY <1>0, SendInvStep
  <1>2. /\ LogOK' /\ \A m \in Msg : blot[m] \subseteq blot'[m]
        /\ \A m \in Msg : \A k : Explained(m, k) => Explained(m, k)'
    BY <1>0, ExplainedKept
  <1>3. \A m \in Msg : OwnIds(m)' /\ CallEnds(m) /\ CallStarts(m)
    BY CallRaces
  <1>4. ASSUME NEW m \in Msg PROVE RaceInv(m)'
    <2>1. call'[m][1].at # "none" /\ ~item'[m].pooled => Explained(m, item[m].k)'
      BY <1>3, PoolLeft
    <2>2. ASSUME NEW c \in Calls, call'[m][c].at = "threw", NEW k, k = call'[m][c].k,
                 Event(m, k) \in accepted'
          PROVE  Explained(m, k)'
      <3>1. CASE Event(m, k) \in accepted \/ ~(call[m][c].at = "threw" /\ k = call[m][c].k)
        <4>1. Explained(m, k)
          BY <1>0, <1>3, <2>2, <3>1 DEF RaceInv, CallEnds
        <4> QED BY <1>2, <4>1
      <3>2. CASE Event(m, k) \notin accepted /\ call[m][c].at = "threw" /\ k = call[m][c].k
        <4>1. PICK q \in air : AddEvent(q) \/ AddEventFails(q)
          <5>1. CASE NewBlock \/ BlocksAge \/ SyncUpdate \/ SyncReset \/ vars' = vars
            BY <1>0, <2>2, <3>2, <5>1, ViewChanges
          <5>2. CASE \E n \in Msg : SendChannelMessage(n)
            BY <2>2, <3>2, <5>2 DEF SendChannelMessage, nodeVars
          <5>3. CASE \E n \in Msg, d \in Calls :
                       RetrySendMessage(n, d) \/ PrepareFails(n, d) \/ Timeout(n, d) \/ CallStep(n, d)
            BY <2>2, <3>2, <5>3 DEF RetrySendMessage, PrepareFails, Timeout, CallStep, Prepared,
                                    AddEventReturns, RetryBadPrev, RetryLater, SendFails, nodeVars
          <5> QED BY <5>1, <5>2, <5>3 DEF Next
        <4>2. accepted' = accepted \/ accepted' = accepted \cup {Event(q.m, q.k)}
          BY <4>1, NodeChanges
        <4>3. Event(m, k) = Event(q.m, q.k)
          BY <2>2, <3>2, <4>2
        <4>4. q.m = m /\ q.k = k /\ q.c \in Calls /\ q.k # 0
          BY <1>0, <4>3 DEF Event, Typed, Requests
        <4>5. "unsure" \in blot[m]
          <5> SUFFICES ASSUME "unsure" \notin blot[m] PROVE FALSE
            OBVIOUS
          <5>1. call[m][q.c].at = "request" /\ call[m][q.c].k = q.k
            BY <1>0, <4>1, <4>4 DEF SentOnce, Waits
          <5> QED BY <1>0, <3>2, <4>4, <5>1 DEF OwnIds
        <4>6. "unsure" \in blot'[m]
          BY <1>2, <4>5
        <4> QED BY <4>6 DEF Explained
      <3> QED BY <3>1, <3>2
    <2>3. ASSUME NEW c \in Calls, call'[m][c].at = "threw", Event(m, call'[m][c].k) \in accepted'
          PROVE  Explained(m, call[m][c].k)'
      <3>1. PICK k : k = call'[m][c].k
        OBVIOUS
      <3>2. Explained(m, k)'
        BY <2>2, <2>3, <3>1
      <3> QED BY <3>1, <3>2 DEF Explained, Event
    <2>4. OwnIds(m)'
      BY <1>3
    <2> QED BY <2>1, <2>3, <2>4 DEF RaceInv, Event
  <1> QED BY <1>1, <1>2, <1>4 DEF RejectInv

\* The call of a message that the node has taken rejects in the catch block of
\* makeEventWithHashAndAddToStream only when processMiniblockHeader was faster than the
\* answer of addEvent, the view was initialized anew, or an answer was lost.
THEOREM RejectTheorem == Spec => []RejectedOnlyByRace
  <1>1. ASSUME Init PROVE RejectInv
    <2>1. SendInv /\ LogOK
      BY <1>1, SendInvInit, ShownInvInit DEF ShownInv
    <2>2. \A m \in Msg, c \in Calls : call[m][c].at = "none" /\ call[m][c].k = 0 /\ made[m] = 0
      BY <1>1 DEF Init, NoCall
    <2>3. ASSUME NEW m \in Msg PROVE RaceInv(m)
      BY <2>2, FirstCall DEF RaceInv, OwnIds
    <2> QED BY <2>1, <2>3 DEF RejectInv
  <1>2. RejectInv => RejectedOnlyByRace
    BY DEF RejectInv, RaceInv, Explained, RejectedOnlyByRace
  <1> QED BY <1>1, <1>2, RejectInvStep, PTL DEF Spec
============================================================================

---------------------------- MODULE Zotero_proofs ----------------------------
(* Proofs about the calls to a Zotero library, for any calls, keys, modes, *)
(* requests and bounds, with answers lost and requests that arrive late.   *)
EXTENDS ZoteroBackend, TLAPS

CallFields == {"at", "request", "step", "attempt", "answer", "result"}
IsCall(x) == x = [f \in CallFields |-> x[f]]

Op(c) == call[c].request.op
Changing == {"update_collection", "update_item", "delete_collection", "delete_item"}
Creating == {"create_collection", "create_item"}

(* The API has not acted on a call and will not without its next request.  *)
Fresh(c) == Effects(c) = {} /\ c \notin late

Acted(c) == Effects(c) # {} /\ c \notin late

(* What a call may be, by where it is.                                     *)
Waiting(c) ==
  /\ call[c].step \in 1..Len(Exchanges(Op(c)))
  /\ Op(c) \notin Writes => Fresh(c)
  /\ Op(c) \in Writes /\ call[c].step = 1 => Fresh(c)
  /\ Op(c) \in Writes /\ call[c].step = 2 => Op(c) = "update_item" /\ Acted(c)

Answered(c) ==
  /\ call[c].step \in 1..Len(Exchanges(Op(c)))
  /\ Op(c) \notin Writes => Fresh(c)
  /\ Op(c) \in Writes /\ call[c].step = 1 =>
       /\ call[c].answer \in {"ok", "unreadable"} => Acted(c)
       /\ call[c].answer \in {"status", "busy", "nothing_saved"} => Fresh(c)
  /\ Op(c) \in Writes /\ call[c].step = 2 => Op(c) = "update_item" /\ Acted(c)

Done(c) ==
  /\ Op(c) \notin Writes => Fresh(c)
  /\ call[c].result = "ok" /\ Op(c) \in Writes => Acted(c)
  /\ call[c].result = "invalid" => Fresh(c)
  /\ call[c].result = "api" /\ Op(c) # "update_item" => Fresh(c)

CallOK(c) ==
  /\ IsCall(call[c])
  /\ call[c].at \in {"idle", "send", "sent", "answered", "sleeping", "done"}
  /\ call[c].at = "idle" => Fresh(c)
  /\ call[c].at \in {"send", "sent", "sleeping"} => Waiting(c)
  /\ call[c].at = "answered" => Answered(c)
  /\ call[c].at = "done" => Done(c)
  /\ c \in late => Effects(c) = {} /\ call[c].at \in {"answered", "done"}

CallsInv ==
  /\ call = [c \in Calls |-> call[c]]
  /\ late \subseteq Calls
  /\ \A e \in effects : e.call \in Calls
  /\ ChangesOnce
  /\ \A c \in Calls : CallOK(c)

-----------------------------------------------------------------------------
(* The exchanges of an operation.                                          *)
LEMMA Steps ==
  ASSUME NEW op
  PROVE  /\ Len(Exchanges(op)) \in 1..2
         /\ op \in Writes => /\ Exchanges(op)[1] = "write"
                             /\ Len(Exchanges(op)) = 2 => /\ op = "update_item"
                                                          /\ Exchanges(op)[2] = "get"
         /\ op \notin Writes => \A i \in 1..Len(Exchanges(op)) : Exchanges(op)[i] # "write"
<1>1. CASE op = "update_item"
  <2>1. Exchanges(op) = <<"write", "get">>
    BY <1>1 DEF Exchanges, WriteExchanges, Writes
  <2> QED BY <1>1, <2>1 DEF Writes
<1>2. CASE op \in Writes /\ op # "update_item"
  <2>1. Exchanges(op) = <<"write">>
    BY <1>2 DEF Exchanges, WriteExchanges
  <2> QED BY <1>2, <2>1
<1>3. CASE op \notin Writes
  <2>1. Exchanges(op) \in {<<"get", "get">>, <<"fetch">>, <<"get">>}
    BY <1>3 DEF Exchanges, ReadExchanges
  <2> QED BY <1>3, <2>1
<1> QED BY <1>1, <1>2, <1>3

LEMMA StepRange ==
  ASSUME NEW op, NEW step \in 1..Len(Exchanges(op))
  PROVE  step \in 1..2 /\ (step = 1 \/ (step = 2 /\ Len(Exchanges(op)) = 2))
<1>1. PICK n : n = Len(Exchanges(op)) /\ n \in 1..2
  BY Steps
<1> QED BY <1>1

(* A step of one call that does not touch the library.                     *)
LEMMA OneCallSteps ==
  ASSUME CallsInv, NEW c \in Calls, NEW next, call' = [call EXCEPT ![c] = next],
         UNCHANGED <<late, effects>>, CallOK(c)'
  PROVE  CallsInv'
<1>1. \A d \in Calls : d # c => call'[d] = call[d]
  BY DEF CallsInv
<1>2. \A d : Effects(d)' = Effects(d)
  BY DEF Effects
<1>3. ASSUME NEW d \in Calls, d # c PROVE CallOK(d)'
  BY <1>1, <1>2, <1>3 DEF CallsInv, CallOK, Waiting, Answered, Done, Fresh, Acted, Op
<1> QED BY <1>3 DEF CallsInv, ChangesOnce

LEMMA BeginSteps ==
  ASSUME CallsInv, NEW c \in Calls, Begin(c)
  PROVE  CallsInv'
<1>1. PICK r \in Requests : call' = [call EXCEPT ![c] =
            [Idle EXCEPT !.request = r, !.step = 1,
               !.at = IF Refused(r) THEN "done" ELSE "send",
               !.result = IF Refused(r) THEN "invalid" ELSE NONE]]
  BY DEF Begin
<1> DEFINE next == [Idle EXCEPT !.request = r, !.step = 1,
               !.at = IF Refused(r) THEN "done" ELSE "send",
               !.result = IF Refused(r) THEN "invalid" ELSE NONE]
<1>2. /\ IsCall(next) /\ next.request = r /\ next.step = 1
      /\ next.at = IF Refused(r) THEN "done" ELSE "send"
      /\ next.result = IF Refused(r) THEN "invalid" ELSE NONE
  BY DEF IsCall, CallFields, Idle
<1>3. call'[c] = next /\ UNCHANGED <<late, effects>>
  BY <1>1 DEF CallsInv, Begin
<1> HIDE DEF next
<1>4. Fresh(c)'
  BY <1>3 DEF Begin, CallsInv, CallOK, Fresh, Effects
<1>5. Refused(r) => Done(c)'
  BY <1>2, <1>3, <1>4 DEF Done, Op
<1>6. ~Refused(r) => Waiting(c)'
  <2>1. 1 \in 1..Len(Exchanges(r.op))
    BY Steps
  <2>2. call'[c].request.op = r.op /\ call'[c].step = 1
    BY <1>2, <1>3
  <2> QED BY <1>4, <2>1, <2>2 DEF Waiting, Op
<1>7. CallOK(c)'
  BY <1>2, <1>3, <1>4, <1>5, <1>6 DEF CallOK, Fresh
<1> QED BY <1>1, <1>3, <1>7, OneCallSteps DEF next

(* A call that goes on to another stage of the same exchange.              *)
LEMMA StageSteps ==
  ASSUME CallsInv, NEW c \in Calls, NEW at \in {"send", "sent", "sleeping"},
         NEW next, next = [call[c] EXCEPT !.at = at] \/ \E n : next = [call[c] EXCEPT !.at = at, !.attempt = n],
         call' = [call EXCEPT ![c] = next], UNCHANGED <<late, effects>>,
         call[c].at \in {"send", "sent", "sleeping"} \/ (call[c].at = "answered" /\ Kind(c) = "get")
  PROVE  CallsInv'
<1>1. CallOK(c) /\ IsCall(call[c])
  BY DEF CallsInv, CallOK
<1>2. /\ IsCall(next) /\ next.at = at /\ next.request = call[c].request
      /\ next.step = call[c].step
  BY <1>1 DEF IsCall, CallFields
<1>3. call'[c] = next
  BY DEF CallsInv
<1>4. Effects(c)' = Effects(c) /\ Fresh(c)' = Fresh(c) /\ Acted(c)' = Acted(c)
  BY DEF Effects, Fresh, Acted
<1>5. CASE call[c].at \in {"send", "sent", "sleeping"}
  BY <1>1, <1>2, <1>3, <1>4, <1>5, OneCallSteps DEF CallOK, Waiting, Op
<1>6. CASE call[c].at = "answered" /\ Kind(c) = "get"
  <2>1. Answered(c)
    BY <1>1, <1>6 DEF CallOK
  <2>2. Op(c) \in Writes => call[c].step # 1
    BY <1>6, Steps DEF Kind, Op
  <2>3. Waiting(c)'
    BY <1>2, <1>3, <1>4, <2>1, <2>2 DEF Answered, Waiting, Op
  <2>4. Op(c) \notin Writes \/ call[c].step = 2
    BY <2>1, <2>2, StepRange DEF Answered
  <2>5. c \notin late
    BY <2>1, <2>4 DEF Answered, Fresh, Acted
  <2>6. CallOK(c)'
    BY <1>2, <1>3, <2>3, <2>5 DEF CallOK
  <2> QED BY <2>6, OneCallSteps
<1> QED BY <1>5, <1>6

(* A call that ends, or goes on to the exchange that follows.              *)
LEMMA EndSteps ==
  ASSUME CallsInv, NEW c \in Calls, NEW result, End(c, result), UNCHANGED <<late, effects>>,
         Op(c) \notin Writes => Fresh(c),
         result = "ok" /\ Op(c) \in Writes => Acted(c),
         result = "invalid" => Fresh(c),
         result = "api" /\ Op(c) # "update_item" => Fresh(c),
         c \in late => Effects(c) = {}
  PROVE  CallsInv'
<1> DEFINE next == [Idle EXCEPT !.at = "done", !.request = call[c].request, !.result = result]
<1>1. IsCall(next) /\ next.at = "done" /\ next.request = call[c].request /\ next.result = result
  BY DEF IsCall, CallFields, Idle
<1>2. call' = [call EXCEPT ![c] = next] /\ call'[c] = next
  BY DEF End, CallsInv
<1> HIDE DEF next
<1>3. Effects(c)' = Effects(c) /\ Fresh(c)' = Fresh(c) /\ Acted(c)' = Acted(c)
  BY DEF Effects, Fresh, Acted
<1>4. Done(c)'
  BY <1>1, <1>2, <1>3 DEF Done, Op
<1>5. CallOK(c)'
  BY <1>1, <1>2, <1>3, <1>4 DEF CallOK
<1> QED BY <1>2, <1>5, OneCallSteps

LEMMA ProceedSteps ==
  ASSUME CallsInv, NEW c \in Calls, Proceed(c), UNCHANGED <<late, effects>>,
         call[c].at = "answered",
         Op(c) \in Writes => Acted(c)
  PROVE  CallsInv'
<1>1. CallOK(c) /\ IsCall(call[c]) /\ Answered(c)
  BY DEF CallsInv, CallOK
<1>2. CASE call[c].step < Len(Exchanges(call[c].request.op))
  <2> DEFINE next == [call[c] EXCEPT !.at = "send", !.step = @ + 1, !.attempt = 0]
  <2>1. call' = [call EXCEPT ![c] = next] /\ call'[c] = next
    BY <1>2 DEF Proceed, CallsInv
  <2>2. /\ IsCall(next) /\ next.at = "send" /\ next.request = call[c].request
        /\ next.step = call[c].step + 1
    BY <1>1 DEF IsCall, CallFields
  <2> HIDE DEF next
  <2>3. next.step = 2 /\ Len(Exchanges(Op(c))) = 2
    <3>1. call[c].step \in 1..Len(Exchanges(Op(c))) /\ call[c].step < Len(Exchanges(Op(c)))
      BY <1>1, <1>2 DEF Answered, Op
    <3>2. PICK n : n = Len(Exchanges(Op(c))) /\ n \in 1..2
      BY Steps
    <3>3. call[c].step \in 1..n /\ call[c].step < n
      BY <3>1, <3>2
    <3>4. call[c].step + 1 = 2 /\ n = 2
      <4>1. n \in 1..2
        BY <3>2
      <4> QED BY <3>3, <4>1
    <3> QED BY <2>2, <3>2, <3>4
  <2>4. Op(c) \in Writes => Op(c) = "update_item"
    BY <2>3, Steps
  <2>5. Effects(c)' = Effects(c) /\ Fresh(c)' = Fresh(c) /\ Acted(c)' = Acted(c)
    BY DEF Effects, Fresh, Acted
  <2>6. Waiting(c)'
    <3>1. call'[c].request.op = Op(c) /\ call'[c].step = 2
      BY <2>1, <2>2, <2>3 DEF Op
    <3>2. 2 \in 1..Len(Exchanges(Op(c)))
      BY <2>3
    <3>3. Op(c)' = Op(c)
      BY <3>1 DEF Op
    <3> QED BY <1>1, <2>4, <2>5, <3>1, <3>2, <3>3 DEF Answered, Waiting
  <2>7. c \notin late
    BY <1>1 DEF Answered, Fresh, Acted
  <2>8. CallOK(c)'
    BY <2>1, <2>2, <2>6, <2>7 DEF CallOK
  <2> QED BY <2>1, <2>8, OneCallSteps
<1>3. CASE ~(call[c].step < Len(Exchanges(call[c].request.op)))
  BY <1>1, <1>3, EndSteps DEF Proceed, Answered, Fresh, Acted
<1> QED BY <1>2, <1>3

LEMMA ClientSteps ==
  ASSUME CallsInv, NEW c \in Calls, Client(c)
  PROVE  CallsInv'
<1>0. CallOK(c) /\ UNCHANGED <<late, effects>>
  BY DEF Client, Send, RetryGet, Wake, EndRead, EndWrite, CallsInv
<1>1. CASE Send(c)
  <2>1. PICK next : next = [call[c] EXCEPT !.at = "sent"]
    OBVIOUS
  <2> QED BY <1>0, <1>1, <2>1, StageSteps DEF Send, Continue
<1>2. CASE RetryGet(c)
  <2>1. PICK next : next = [call[c] EXCEPT !.at = "sleeping", !.attempt = call[c].attempt + 1]
    OBVIOUS
  <2>2. call' = [call EXCEPT ![c] = next]
    BY <1>2, <2>1 DEF RetryGet
  <2> QED BY <1>0, <1>2, <2>1, <2>2, StageSteps DEF RetryGet
<1>3. CASE Wake(c)
  <2>1. PICK next : next = [call[c] EXCEPT !.at = "send"]
    OBVIOUS
  <2> QED BY <1>0, <1>3, <2>1, StageSteps DEF Wake, Continue
<1>4. CASE EndRead(c)
  <2>1. Answered(c) /\ call[c].at = "answered"
    BY <1>0, <1>4 DEF EndRead, CallOK
  <2>2. Op(c) \in Writes => call[c].step # 1
    BY <1>4, Steps DEF EndRead, Kind, Op
  <2>3. Op(c) \notin Writes \/ call[c].step = 2
    BY <2>1, <2>2, StepRange DEF Answered
  <2>4. /\ Op(c) \in Writes => Op(c) = "update_item" /\ Acted(c)
        /\ Op(c) \notin Writes => Fresh(c)
        /\ c \notin late
    BY <2>1, <2>3 DEF Answered, Fresh, Acted
  <2>5. CASE Proceed(c)
    BY <1>0, <2>1, <2>4, <2>5, ProceedSteps
  <2>6. CASE End(c, Failure(call[c].answer))
    <3>1. Failure(call[c].answer) \in {"api", "failed"}
      BY DEF Failure
    <3> QED BY <1>0, <2>4, <2>6, <3>1, EndSteps
  <2> QED BY <1>4, <2>5, <2>6 DEF EndRead
<1>5. CASE EndWrite(c)
  <2>1. Answered(c) /\ call[c].at = "answered"
    BY <1>0, <1>5 DEF EndWrite, CallOK
  <2>2. Op(c) \in Writes /\ call[c].step = 1
    <3>1. call[c].step \in 1..Len(Exchanges(Op(c)))
      BY <2>1 DEF Answered
    <3>2. Kind(c) = "write"
      BY <1>5 DEF EndWrite
    <3>3. Op(c) \in Writes
      BY <3>1, <3>2, Steps DEF Kind, Op
    <3>4. call[c].step = 1 \/ (call[c].step = 2 /\ Len(Exchanges(Op(c))) = 2)
      BY <3>1, StepRange
    <3>5. call[c].step # 2 \/ Len(Exchanges(Op(c))) # 2
      BY <3>2, <3>3, Steps DEF Kind, Op
    <3> QED BY <3>3, <3>4, <3>5
  <2>3. CASE Saved(c) /\ Proceed(c)
    <3>1. Acted(c)
      BY <2>1, <2>2, <2>3 DEF Saved, Answered
    <3> QED BY <1>0, <2>1, <2>3, <3>1, ProceedSteps
  <2>4. CASE End(c, Failure(call[c].answer))
    <3>1. /\ Failure(call[c].answer) \in {"api", "failed"}
          /\ Failure(call[c].answer) = "api" => Fresh(c)
      BY <2>1, <2>2 DEF Failure, Answered
    <3>2. c \in late => Effects(c) = {}
      BY <1>0 DEF CallOK
    <3> QED BY <1>0, <2>2, <2>4, <3>1, <3>2, EndSteps
  <2> QED BY <1>5, <2>3, <2>4 DEF EndWrite
<1> QED BY <1>1, <1>2, <1>3, <1>4, <1>5 DEF Client

(* The API answers.                                                        *)
LEMMA AnswerShape ==
  ASSUME CallsInv, NEW c \in Calls, NEW a, Answer(c, a)
  PROVE  /\ call' = [call EXCEPT ![c] = [call[c] EXCEPT !.at = "answered", !.answer = a]]
         /\ call' = [d \in Calls |-> call'[d]]
         /\ \A d \in Calls : d # c => call'[d] = call[d]
         /\ IsCall(call'[c]) /\ call'[c].at = "answered" /\ call'[c].answer = a
         /\ call'[c].request = call[c].request /\ call'[c].step = call[c].step
<1> DEFINE next == [call[c] EXCEPT !.at = "answered", !.answer = a]
<1>1. call' = [call EXCEPT ![c] = next] /\ call'[c] = next
  BY DEF Answer, CallsInv
<1>2. IsCall(call[c])
  BY DEF CallsInv, CallOK
<1>3. /\ IsCall(next) /\ next.at = "answered" /\ next.answer = a
      /\ next.request = call[c].request /\ next.step = call[c].step
  BY <1>2 DEF IsCall, CallFields
<1> HIDE DEF next
<1>4. call' = [d \in Calls |-> call'[d]] /\ \A d \in Calls : d # c => call'[d] = call[d]
  BY <1>1 DEF CallsInv
<1> QED BY <1>1, <1>3, <1>4 DEF next

(* The effects of the other calls stay when one call changes the library.  *)
LEMMA ApplyEffects ==
  ASSUME CallsInv, NEW c \in Calls, Effects(c) = {}, Apply(c)
  PROVE  /\ Effects(c)' # {}
         /\ \A d \in Calls : d # c => Effects(d)' = Effects(d)
         /\ \A e \in effects' : e.call \in Calls
         /\ ChangesOnce'
<1>1. PICK k \in Keys : effects' = effects \cup {[call |-> c, key |-> k, from |-> library[k]]}
  BY DEF Apply
<1> DEFINE new == [call |-> c, key |-> k, from |-> library[k]]
<1>2. new.call = c /\ effects' = effects \cup {new}
  BY <1>1
<1> HIDE DEF new
<1>3. new \in Effects(c)'
  BY <1>2 DEF Effects
<1>4. \A d \in Calls : d # c => Effects(d)' = Effects(d)
  BY <1>2 DEF Effects
<1>5. ChangesOnce'
  BY <1>2 DEF ChangesOnce, CallsInv, Effects
<1> QED BY <1>2, <1>3, <1>4, <1>5 DEF CallsInv

LEMMA OthersStay ==
  ASSUME CallsInv, NEW c \in Calls, NEW d \in Calls, d # c, call'[d] = call[d],
         Effects(d)' = Effects(d), (d \in late') <=> (d \in late)
  PROVE  CallOK(d)'
BY DEF CallsInv, CallOK, Waiting, Answered, Done, Fresh, Acted, Op

LEMMA ServeSteps ==
  ASSUME CallsInv, NEW c \in Calls, Api(c)
  PROVE  CallsInv'
<1>0. CallOK(c) /\ Waiting(c) /\ c \notin late
  BY DEF Api, ServeWrite, ServeRead, CallsInv, CallOK
<1>1. CASE ServeRead(c)
  <2>1. PICK a : Answer(c, a)
    BY <1>1 DEF ServeRead
  <2>2. UNCHANGED <<late, effects>> /\ Kind(c) # "write"
    BY <1>1 DEF ServeRead
  <2>3. Effects(c)' = Effects(c) /\ Fresh(c)' = Fresh(c) /\ Acted(c)' = Acted(c)
    BY <2>2 DEF Effects, Fresh, Acted
  <2>4. ~(Op(c) \in Writes /\ call[c].step = 1)
    BY <2>2, Steps DEF Kind, Op
  <2>5. Op(c)' = Op(c)
    BY <2>1, AnswerShape DEF Op
  <2>6. Answered(c)'
    BY <1>0, <2>1, <2>3, <2>4, <2>5, AnswerShape DEF Waiting, Answered
  <2>7. CallOK(c)'
    BY <1>0, <2>1, <2>2, <2>6, AnswerShape DEF CallOK
  <2>8. PICK next : call' = [call EXCEPT ![c] = next]
    BY <2>1, AnswerShape
  <2> QED BY <2>2, <2>7, <2>8, OneCallSteps
<1>2. CASE ServeWrite(c)
  <2>0. Op(c) \in Writes /\ call[c].step = 1 /\ Fresh(c)
    <3>1. call[c].step \in 1..Len(Exchanges(Op(c)))
      BY <1>0 DEF Waiting
    <3>2. Kind(c) = "write"
      BY <1>2 DEF ServeWrite
    <3>3. Op(c) \in Writes
      BY <3>1, <3>2, Steps DEF Kind, Op
    <3>4. call[c].step = 1 \/ (call[c].step = 2 /\ Len(Exchanges(Op(c))) = 2)
      BY <3>1, StepRange
    <3>5. call[c].step # 2 \/ Len(Exchanges(Op(c))) # 2
      BY <3>2, <3>3, Steps DEF Kind, Op
    <3> QED BY <1>0, <3>3, <3>4, <3>5 DEF Waiting
  <2>1. ASSUME Apply(c), UNCHANGED late, NEW a \in {"ok", "unreadable", "broken"}, Answer(c, a)
        PROVE  CallsInv'
    <3>1. Acted(c)' /\ ~Fresh(c)'
      BY <2>0, <2>1, ApplyEffects DEF Acted, Fresh
    <3>2. Op(c)' = Op(c)
      BY <2>1, AnswerShape DEF Op
    <3>3. Answered(c)'
      BY <1>0, <2>0, <2>1, <3>1, <3>2, AnswerShape DEF Waiting, Answered
    <3>4. CallOK(c)'
      BY <1>0, <2>1, <3>3, AnswerShape DEF CallOK
    <3>5. ASSUME NEW d \in Calls, d # c PROVE CallOK(d)'
      BY <2>0, <2>1, <3>5, AnswerShape, ApplyEffects, OthersStay DEF Fresh
    <3> QED BY <2>0, <2>1, <3>4, <3>5, AnswerShape, ApplyEffects DEF CallsInv, Fresh
  <2>2. ASSUME NEW a \in {"status", "busy", "nothing_saved", "broken"}, Answer(c, a),
               UNCHANGED <<late, effects>>
        PROVE  CallsInv'
    <3>1. Effects(c)' = Effects(c) /\ Fresh(c)'
      BY <2>0, <2>2 DEF Effects, Fresh
    <3>2. Op(c)' = Op(c)
      BY <2>2, AnswerShape DEF Op
    <3>3. Answered(c)'
      <4>1. call'[c].step = 1 /\ call'[c].answer = a
        BY <2>0, <2>2, AnswerShape
      <4>2. 1 \in 1..Len(Exchanges(Op(c)'))
        BY <1>0, <2>0, <3>2 DEF Waiting
      <4>3. a \notin {"ok", "unreadable"}
        BY <2>2
      <4> QED BY <2>0, <3>1, <3>2, <4>1, <4>2, <4>3 DEF Answered
    <3>4. CallOK(c)'
      BY <1>0, <2>2, <3>3, AnswerShape DEF CallOK
    <3> QED BY <2>2, <3>4, AnswerShape, OneCallSteps
  <2>3. ASSUME Answer(c, "broken"), late' = late \cup {c}, UNCHANGED effects
        PROVE  CallsInv'
    <3>1. \A d : Effects(d)' = Effects(d)
      BY <2>3 DEF Effects
    <3>2. Op(c)' = Op(c)
      BY <2>3, AnswerShape DEF Op
    <3>3. Answered(c)'
      <4>1. call'[c].step = 1 /\ call'[c].answer = "broken"
        BY <2>0, <2>3, AnswerShape
      <4>2. 1 \in 1..Len(Exchanges(Op(c)'))
        BY <1>0, <2>0, <3>2 DEF Waiting
      <4> QED BY <2>0, <3>2, <4>1, <4>2 DEF Answered
    <3>4. CallOK(c)'
      BY <2>0, <2>3, <3>1, <3>3, AnswerShape DEF CallOK, Fresh
    <3>5. ASSUME NEW d \in Calls, d # c PROVE CallOK(d)'
      BY <2>3, <3>1, <3>5, AnswerShape, OthersStay
    <3> QED BY <2>3, <3>4, <3>5, AnswerShape DEF CallsInv, ChangesOnce
  <2> QED BY <1>2, <2>1, <2>2, <2>3 DEF ServeWrite
<1> QED BY <1>1, <1>2 DEF Api

(* A write that arrives after its caller gave up acts only once, and only  *)
(* on calls that were told that they failed.                               *)
LEMMA LateSteps ==
  ASSUME CallsInv, NEW c \in Calls, ArriveLate(c)
  PROVE  CallsInv'
<1>1. CallOK(c) /\ c \in late /\ Effects(c) = {} /\ ~Fresh(c) /\ ~Acted(c)
  BY DEF ArriveLate, CallsInv, CallOK, Fresh, Acted
<1>2. Acted(c)' /\ UNCHANGED call /\ c \notin late'
  BY <1>1, ApplyEffects DEF ArriveLate, Acted
<1>3. CallOK(c)'
  BY <1>1, <1>2 DEF CallOK, Waiting, Answered, Done, Op
<1>4. ASSUME NEW d \in Calls, d # c PROVE CallOK(d)'
  BY <1>1, <1>4, ApplyEffects, OthersStay DEF ArriveLate
<1> QED BY <1>1, <1>2, <1>3, <1>4, ApplyEffects DEF ArriveLate, CallsInv

LEMMA CallsInvInit == Init => CallsInv
<1> SUFFICES ASSUME Init PROVE CallsInv
  OBVIOUS
<1>1. IsCall(Idle) /\ Idle.at = "idle"
  BY DEF IsCall, CallFields, Idle
<1> QED BY <1>1 DEF Init, CallsInv, ChangesOnce, CallOK, Fresh, Effects

LEMMA CallsInvNext == CallsInv /\ [Next]_vars => CallsInv'
<1> SUFFICES ASSUME CallsInv, [Next]_vars PROVE CallsInv'
  OBVIOUS
<1>1. CASE UNCHANGED <<call, late, effects>>
  BY <1>1 DEF CallsInv, ChangesOnce, CallOK, Waiting, Answered, Done, Fresh, Acted, Op, Effects
<1> QED BY <1>1, BeginSteps, ClientSteps, ServeSteps, LateSteps DEF Next, Edit, vars

(* Whatever answers are lost and whenever requests arrive, a call changes  *)
(* the library once at most.                                               *)
THEOREM NoWriteIsRepeated == Spec => []ChangesOnce
<1>1. CallsInv => ChangesOnce
  BY DEF CallsInv
<1> QED BY <1>1, CallsInvInit, CallsInvNext, PTL DEF Spec

(* A caller who hears of success has changed the library, and one who is   *)
(* refused has not and will not.                                           *)
THEOREM AnswersAreHonest == Spec => []HonestAnswers
<1>1. CallsInv => HonestAnswers
  <2> SUFFICES ASSUME CallsInv, NEW c \in Calls, call[c].at = "done"
               PROVE /\ call[c].result = "ok" /\ call[c].request.op \in Writes => Effects(c) # {}
                     /\ call[c].result = "invalid" => Effects(c) = {} /\ c \notin late
                     /\ call[c].result = "api" /\ call[c].request.op # "update_item" =>
                          Effects(c) = {} /\ c \notin late
    BY DEF HonestAnswers
  <2> QED BY DEF CallsInv, CallOK, Done, Fresh, Acted, Op
<1> QED BY <1>1, CallsInvInit, CallsInvNext, PTL DEF Spec

-----------------------------------------------------------------------------
(* A caller names a version that it has read. It stays behind that of the  *)
(* object unless the object is gone, so a precondition that holds when the *)
(* request arrives names the version that is there.                        *)
VersionKept(r) ==
  r.op \in Changing /\ r.key \in Keys /\ r.version # NONE =>
    /\ r.version \in Nat /\ r.version <= clock
    /\ library[r.key] = 0 \/ r.version <= library[r.key]

UpdateInv ==
  /\ library = [k \in Keys |-> library[k]] /\ clock \in Nat
  /\ \A k \in Keys : library[k] \in Nat /\ library[k] <= clock
  /\ \A c \in Calls : call[c].at # "idle" => VersionKept(call[c].request)
  /\ \A e \in effects : call[e.call].at # "idle"
  /\ NoLostUpdate

(* Every step but the first leaves a call its request.                     *)
LEMMA RequestStays ==
  ASSUME CallsInv, NEW c \in Calls, Client(c) \/ Api(c) \/ ArriveLate(c)
  PROVE  \A d \in Calls : /\ call'[d].request = call[d].request
                          /\ call'[d].at = "idle" <=> call[d].at = "idle"
<1>1. call = [d \in Calls |-> call[d]] /\ IsCall(call[c])
  BY DEF CallsInv, CallOK
<1>2. ASSUME NEW next, call' = [call EXCEPT ![c] = next], next.request = call[c].request,
             next.at # "idle", call[c].at # "idle"
      PROVE  \A d \in Calls : /\ call'[d].request = call[d].request
                              /\ call'[d].at = "idle" <=> call[d].at = "idle"
  BY <1>1, <1>2
<1>3. ASSUME NEW at, at # "idle", call' = [call EXCEPT ![c].at = at], call[c].at # "idle"
      PROVE  \A d \in Calls : /\ call'[d].request = call[d].request
                              /\ call'[d].at = "idle" <=> call[d].at = "idle"
  <2>1. PICK next : next = [call[c] EXCEPT !.at = at]
    OBVIOUS
  <2>2. next.request = call[c].request /\ next.at = at
    BY <1>1, <2>1 DEF IsCall, CallFields
  <2> QED BY <1>2, <1>3, <2>1, <2>2
<1>4. ASSUME NEW at, at # "idle", NEW n, NEW step, call[c].at # "idle",
             call' = [call EXCEPT ![c].at = at, ![c].step = step, ![c].attempt = n]
      PROVE  \A d \in Calls : /\ call'[d].request = call[d].request
                              /\ call'[d].at = "idle" <=> call[d].at = "idle"
  <2>1. PICK next : next = [call[c] EXCEPT !.at = at, !.step = step, !.attempt = n]
    OBVIOUS
  <2>2. next.request = call[c].request /\ next.at = at
    BY <1>1, <2>1 DEF IsCall, CallFields
  <2>3. call' = [call EXCEPT ![c] = next]
    BY <1>1, <1>4, <2>1
  <2> QED BY <1>2, <1>4, <2>2, <2>3
<1>5. ASSUME NEW result, End(c, result), call[c].at # "idle"
      PROVE  \A d \in Calls : /\ call'[d].request = call[d].request
                              /\ call'[d].at = "idle" <=> call[d].at = "idle"
  <2>1. PICK next : next = [Idle EXCEPT !.at = "done", !.request = call[c].request,
                                        !.result = result]
    OBVIOUS
  <2>2. next.request = call[c].request /\ next.at = "done"
    BY <2>1 DEF Idle
  <2> QED BY <1>2, <1>5, <2>1, <2>2 DEF End
<1>6. CASE Send(c) \/ Wake(c)
  BY <1>3, <1>6 DEF Send, Wake, Continue
<1>7. CASE RetryGet(c)
  <2>1. PICK next : next = [call[c] EXCEPT !.at = "sleeping", !.attempt = call[c].attempt + 1]
    OBVIOUS
  <2>2. next.request = call[c].request /\ next.at = "sleeping"
    BY <1>1, <2>1 DEF IsCall, CallFields
  <2>3. call' = [call EXCEPT ![c] = next]
    BY <1>7, <2>1 DEF RetryGet
  <2> QED BY <1>2, <1>7, <2>2, <2>3 DEF RetryGet
<1>8. ASSUME Proceed(c), call[c].at # "idle"
      PROVE  \A d \in Calls : /\ call'[d].request = call[d].request
                              /\ call'[d].at = "idle" <=> call[d].at = "idle"
  <2>1. CASE call[c].step < Len(Exchanges(call[c].request.op))
    <3>1. PICK next : next = [call[c] EXCEPT !.at = "send", !.step = call[c].step + 1, !.attempt = 0]
      OBVIOUS
    <3>2. next.request = call[c].request /\ next.at = "send"
      BY <1>1, <3>1 DEF IsCall, CallFields
    <3>3. call' = [call EXCEPT ![c] = next]
      BY <1>8, <2>1, <3>1 DEF Proceed
    <3> QED BY <1>2, <1>8, <3>2, <3>3
  <2>2. CASE ~(call[c].step < Len(Exchanges(call[c].request.op)))
    BY <1>5, <1>8, <2>2 DEF Proceed
  <2> QED BY <2>1, <2>2
<1>9. CASE EndRead(c) \/ EndWrite(c)
  BY <1>5, <1>8, <1>9 DEF EndRead, EndWrite
<1>10. CASE Api(c)
  <2>1. call[c].at # "idle"
    BY <1>10 DEF Api, ServeRead, ServeWrite
  <2>2. PICK a : Answer(c, a)
    BY <1>10 DEF Api, ServeRead, ServeWrite
  <2>3. /\ \A d \in Calls : d # c => call'[d] = call[d]
        /\ call'[c].request = call[c].request /\ call'[c].at = "answered"
    BY <2>2, AnswerShape, Zenon
  <2> QED BY <2>1, <2>3
<1>11. CASE ArriveLate(c)
  BY <1>11 DEF ArriveLate
<1> QED BY <1>6, <1>7, <1>9, <1>10, <1>11 DEF Client

(* What the API accepts it applies to the version that the request names,  *)
(* and versions only grow.                                                 *)
LEMMA ApplyKeeps ==
  ASSUME CallsInv, UpdateInv, NEW c \in Calls, call[c].at # "idle",
         Accepts(call[c].request), Apply(c),
         \A d \in Calls : /\ call'[d].request = call[d].request
                          /\ call'[d].at = "idle" <=> call[d].at = "idle"
  PROVE  UpdateInv'
<1> DEFINE r == call[c].request
<1>1. PICK k \in Keys :
        /\ r.op \in Creating \/ k = r.key
        /\ library' = [library EXCEPT ![k] =
             IF r.op \in {"delete_collection", "delete_item"} THEN 0 ELSE clock']
        /\ effects' = effects \cup {[call |-> c, key |-> k, from |-> library[k]]}
  BY DEF Apply, Creating
<1>2. clock' = clock + 1 /\ clock \in Nat
  BY DEF Apply, UpdateInv
<1>3. /\ library' = [j \in Keys |-> library'[j]]
      /\ \A j \in Keys : j # k => library'[j] = library[j]
      /\ library'[k] \in {0, clock'}
  BY <1>1 DEF UpdateInv
<1>4. \A j \in Keys : library'[j] \in Nat /\ library'[j] <= clock'
  BY <1>2, <1>3 DEF UpdateInv
<1>5. ASSUME NEW d \in Calls, call'[d].at # "idle" PROVE VersionKept(call[d].request)'
  <2>1. VersionKept(call[d].request)
    BY <1>5 DEF UpdateInv
  <2>2. call'[d].request = call[d].request
    OBVIOUS
  <2> QED BY <1>2, <1>3, <2>1, <2>2 DEF VersionKept
<1>6. r.op \in Changing => library[k] = r.version
  <2> SUFFICES ASSUME r.op \in Changing PROVE library[k] = r.version
    OBVIOUS
  <2>1. k = r.key /\ library[k] \in 1..IfUnmodifiedSince(r)
    BY <1>1 DEF Accepts, Changing, Creating
  <2>2. library[k] \in Nat /\ library[k] <= clock
    BY DEF UpdateInv
  <2>3. r.version # NONE /\ library[k] \in 1..r.version
    BY <2>1, <2>2 DEF IfUnmodifiedSince
  <2>4. r.version \in Nat /\ (library[k] = 0 \/ r.version <= library[k])
    BY <2>1, <2>3 DEF UpdateInv, VersionKept
  <2> QED BY <2>2, <2>3, <2>4
<1>7. PICK new : /\ new.call = c /\ new.from = library[k]
                 /\ effects' = effects \cup {new}
  <2> WITNESS [call |-> c, key |-> k, from |-> library[k]]
  <2> QED BY <1>1
<1>8. \A e \in effects' : call'[e.call].at # "idle"
  BY <1>7 DEF UpdateInv, CallsInv
<1>9. NoLostUpdate'
  BY <1>6, <1>7 DEF NoLostUpdate, UpdateInv, CallsInv, Changing
<1> QED BY <1>2, <1>3, <1>4, <1>5, <1>8, <1>9 DEF UpdateInv

(* A step that leaves the library and the effects.                         *)
LEMMA QuietKeeps ==
  ASSUME CallsInv, UpdateInv, UNCHANGED <<library, clock, effects>>,
         \A d \in Calls : /\ call'[d].request = call[d].request
                          /\ call'[d].at = "idle" <=> call[d].at = "idle"
  PROVE  UpdateInv'
<1>1. \A c \in Calls : call'[c].at # "idle" => VersionKept(call[c].request)'
  BY DEF UpdateInv, VersionKept
<1>2. \A e \in effects : call'[e.call].at # "idle"
  BY DEF UpdateInv, CallsInv
<1>3. NoLostUpdate'
  BY DEF UpdateInv, CallsInv, NoLostUpdate
<1> QED BY <1>1, <1>2, <1>3 DEF UpdateInv

LEMMA UpdateInvNext == CallsInv /\ UpdateInv /\ [Next]_vars => UpdateInv'
<1> SUFFICES ASSUME CallsInv, UpdateInv, [Next]_vars PROVE UpdateInv'
  OBVIOUS
<1>1. CASE UNCHANGED vars
  BY <1>1, QuietKeeps DEF vars
<1>2. CASE Edit
  <2>1. PICK k \in Keys, v \in {0, clock + 1} : library' = [library EXCEPT ![k] = v]
    BY <1>2 DEF Edit
  <2>2. clock' = clock + 1 /\ clock \in Nat /\ UNCHANGED <<call, effects>>
    BY <1>2 DEF Edit, UpdateInv
  <2>3. /\ library' = [j \in Keys |-> library'[j]]
        /\ \A j \in Keys : j # k => library'[j] = library[j]
        /\ library'[k] \in {0, clock'}
    BY <2>1, <2>2 DEF UpdateInv
  <2>4. \A j \in Keys : library'[j] \in Nat /\ library'[j] <= clock'
    BY <2>2, <2>3 DEF UpdateInv
  <2>5. ASSUME NEW d \in Calls, call[d].at # "idle" PROVE VersionKept(call[d].request)'
    <3>1. VersionKept(call[d].request)
      BY <2>5 DEF UpdateInv
    <3> QED BY <2>2, <2>3, <3>1 DEF VersionKept
  <2> QED BY <2>2, <2>3, <2>4, <2>5 DEF UpdateInv, NoLostUpdate
<1>3. ASSUME NEW c \in Calls, Begin(c) PROVE UpdateInv'
  <2>1. PICK r, next :
          /\ r.key \in Keys => Known(r)
          /\ call' = [call EXCEPT ![c] = next] /\ next.request = r /\ next.at # "idle"
    <3>1. PICK r \in Requests :
            /\ r.key \in Keys => Known(r)
            /\ call' = [call EXCEPT ![c] =
                 [Idle EXCEPT !.request = r, !.step = 1,
                    !.at = IF Refused(r) THEN "done" ELSE "send",
                    !.result = IF Refused(r) THEN "invalid" ELSE NONE]]
      BY <1>3, Zenon DEF Begin
    <3>2. PICK next : next = [Idle EXCEPT !.request = r, !.step = 1,
                    !.at = IF Refused(r) THEN "done" ELSE "send",
                    !.result = IF Refused(r) THEN "invalid" ELSE NONE]
      OBVIOUS
    <3>3. next.request = r /\ next.at # "idle"
      BY <3>2 DEF Idle
    <3> QED BY <3>1, <3>2, <3>3
  <2>2. /\ call'[c] = next
        /\ \A d \in Calls : d # c => call'[d] = call[d]
        /\ UNCHANGED <<library, clock, effects>> /\ Effects(c) = {}
    BY <1>3, <2>1 DEF Begin, CallsInv, CallOK, Fresh
  <2>3. VersionKept(r)
    BY <2>1 DEF Known, VersionKept, UpdateInv
  <2>4. \A d \in Calls : call'[d].at # "idle" => VersionKept(call[d].request)'
    BY <2>1, <2>2, <2>3 DEF UpdateInv, VersionKept
  <2>5. \A e \in effects : e.call \in Calls /\ e.call # c
    BY <2>2 DEF Effects, CallsInv
  <2> QED BY <2>2, <2>4, <2>5 DEF UpdateInv, NoLostUpdate
<1>4. ASSUME NEW c \in Calls, Client(c) PROVE UpdateInv'
  <2>1. UNCHANGED <<library, clock, effects>>
    BY <1>4 DEF Client, Send, RetryGet, Wake, EndRead, EndWrite
  <2> QED BY <1>4, <2>1, RequestStays, QuietKeeps
<1>5. ASSUME NEW c \in Calls, Api(c) \/ ArriveLate(c) PROVE UpdateInv'
  <2>1. call[c].at # "idle"
    BY <1>5 DEF Api, ServeRead, ServeWrite, ArriveLate, CallsInv, CallOK
  <2>2. \/ UNCHANGED <<library, clock, effects>>
        \/ Accepts(call[c].request) /\ Apply(c)
    BY <1>5 DEF Api, ServeRead, ServeWrite, ArriveLate
  <2> QED BY <1>5, <2>1, <2>2, RequestStays, QuietKeeps, ApplyKeeps
<1> QED BY <1>1, <1>2, <1>3, <1>4, <1>5 DEF Next

LEMMA UpdateInvInit == Init => UpdateInv
BY DEF Init, UpdateInv, NoLostUpdate, Idle

(* An update or a deletion that reaches the library changes the version    *)
(* that its caller had read, whoever writes in between and however late it *)
(* arrives.                                                                *)
THEOREM UpdatesAreNotLost == Spec => []NoLostUpdate
<1>1. UpdateInv => NoLostUpdate
  BY DEF UpdateInv
<1> QED BY <1>1, CallsInvInit, CallsInvNext, UpdateInvInit, UpdateInvNext, PTL DEF Spec

=============================================================================

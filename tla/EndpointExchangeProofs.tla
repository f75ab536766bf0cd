----------------------- MODULE EndpointExchangeProofs -----------------------
(***************************************************************************)
(* For any number of concurrent calls: types, who closes the bodies, when  *)
(* a body is whole, and that the client is told the truth.                 *)
(***************************************************************************)
EXTENDS EndpointExchange, TLAPS

Over(c) == at[c] \in {"sending", "returned"}

Refused(c) == onStatus = "default" /\ encoding = "json" /\ answer[c].status = "bad"

\* Response r is what the parser or the status handler made of the answer of c.
From(c, r) ==
  /\ Over(c) /\ answer[c] \in Answer
  /\ encoding = "no-op" => /\ r.io = c /\ r.data = "empty"
                           /\ body[c] = "open" \/ CallDone(c)
  /\ encoding = "json" => IF r.data = "error" THEN onStatus = "details" /\ ~r.complete
                          ELSE answer[c].status = "ok" /\ answer[c].content = r.data

\* What is there of a call at each place of the HTTP proxy.
CallInv(c) ==
  /\ at[c] \in {"idle", "call"} => body[c] = "none" /\ closer[c] = "none" /\ answer[c] = Nil
  /\ at[c] \in {"answered", "parse"} => body[c] = "open" /\ closer[c] = "none" /\ answer[c] \in Answer
  /\ at[c] = "parse" => encoding = "no-op" \/ answer[c].status = "ok"
  /\ Over(c) => /\ result[c] \in Result
                /\ result[c].resp = Nil <=> result[c].err # Nil
                /\ result[c].resp # Nil => From(c, result[c].resp)
                /\ body[c] = "open" => closer[c] = "waiting" \/ CallDone(c) \/ Refused(c)

Backed(r) == \E c \in Call : From(c, r)

\* The handler gives no answer that no call has, and ends the request last.
HandlerInv ==
  /\ handler = "start" => \A c \in Call : at[c] = "idle"
  /\ request = "canceled" => handler = "done"
  /\ handler = "done" => request # "live" \/ \A c \in Call : at[c] = "idle"
  /\ handler \in {"reply", "copy"} =>
       /\ got \in Result
       /\ got.resp # Nil => Backed(got.resp)
       /\ got.resp # Nil \/ got.err # Nil
  /\ handler = "copy" => /\ encoding = "no-op" /\ reply \in Reply
                         /\ reply.body = "none" /\ reply.status # "ok" /\ ~reply.completed
  /\ handler \in {"start", "proxy", "reply"} => reply = Nil

IInv == /\ TypeOK /\ (\A c \in Call : CallInv(c)) /\ HandlerInv
        /\ WholeBody /\ SuccessNeedsAnswer

LEMMA Initially == Init => IInv
<1> SUFFICES ASSUME Init PROVE IInv
  OBVIOUS
<1> USE DEF Init
<1>1. TypeOK
  BY DEF TypeOK
<1>2. \A c \in Call : CallInv(c)
  BY DEF CallInv, Over
<1>3. HandlerInv /\ WholeBody /\ SuccessNeedsAnswer
  BY DEF HandlerInv, WholeBody, NoOpBodyArrives, SuccessNeedsAnswer
<1> QED
  BY <1>1, <1>2, <1>3 DEF IInv

---------------------------------------------------------------------------
(* What the handler relies on while it does not step itself.               *)

\* What was made of an answer stays that, whoever else steps.
Keeps(c) == /\ CallDone(c) => CallDone(c)'
            /\ Over(c) => Over(c)' /\ (body'[c] = body[c] \/ CallDone(c)')
            /\ answer[c] # Nil => answer'[c] = answer[c]
            /\ at[c] = "idle" <=> at'[c] = "idle"

\* A context ends once, and not before there is a call.
RequestKeeps == \/ request' = request
                \/ /\ request = "live" /\ request' \in {"timeout", "left"}
                   /\ \E c \in Call : at[c] # "idle"

LEMMA NilIsNoAnswer == Nil \notin Answer /\ Nil \notin Response /\ Nil \notin Errors
BY NilIsNothing

LEMMA HandlerKeeps ==
  ASSUME IInv, UNCHANGED <<conf, handler, got, reply>>, RequestKeeps, \A c \in Call : Keeps(c)
  PROVE  HandlerInv' /\ WholeBody' /\ SuccessNeedsAnswer'
<1>1. got.resp # Nil /\ Backed(got.resp) => Backed(got.resp)'
  <2> SUFFICES ASSUME NEW c \in Call, From(c, got.resp) PROVE From(c, got.resp)'
    BY DEF Backed
  <2>1. Keeps(c) /\ answer[c] # Nil
    BY NilIsNoAnswer DEF From
  <2>2. Over(c)' /\ answer'[c] = answer[c] /\ (body'[c] = body[c] \/ CallDone(c)')
        /\ (CallDone(c) => CallDone(c)')
    BY <2>1 DEF From, Keeps
  <2> QED
    BY <2>2 DEF From, conf
<1>2. HandlerInv'
  <2>1. (\A c \in Call : at[c] = "idle") <=> (\A c \in Call : at'[c] = "idle")
    BY DEF Keeps
  <2>2. HandlerInv
    BY DEF IInv
  <2> QED
    BY <1>1, <2>1, <2>2 DEF HandlerInv, RequestKeeps, conf
<1>3. WholeBody'
  <2>1. NoOpBodyArrives => NoOpBodyArrives'
    BY DEF NoOpBodyArrives, RequestKeeps
  <2> QED
    BY <2>1 DEF IInv, WholeBody, conf
<1>4. SuccessNeedsAnswer'
  <2>1. \A c \in Call : answer[c] # Nil => answer'[c] = answer[c]
    BY DEF Keeps
  <2> QED
    BY <2>1 DEF IInv, SuccessNeedsAnswer, conf
<1> QED
  BY <1>2, <1>3, <1>4

\* The invariant of a call stays when its context ends.
LEMMA CallKeeps ==
  ASSUME NEW c \in Call, CallInv(c), UNCHANGED conf, CallDone(c) => CallDone(c)',
         /\ at'[c] = at[c] /\ answer'[c] = answer[c] /\ body'[c] = body[c]
         /\ closer'[c] = closer[c] /\ result'[c] = result[c]
  PROVE  CallInv(c)' /\ Keeps(c)
<1>1. From(c, result[c].resp) => From(c, result[c].resp)'
  BY DEF From, Over, conf
<1>2. Over(c)' <=> Over(c)
  BY DEF Over
<1>3. Refused(c)' <=> Refused(c)
  BY DEF Refused, conf
<1>4. CallInv(c)'
  BY <1>1, <1>2, <1>3 DEF CallInv, conf
<1> QED
  BY <1>2, <1>4 DEF Keeps

---------------------------------------------------------------------------
(* Contexts end and stay ended.                                            *)

LEMMA ContextStep ==
  ASSUME IInv,
         \/ \E why \in {"timeout", "left"} : RequestDone(why)
         \/ LocalDone
         \/ \E c \in Call : CallCancels(c)
  PROVE  IInv'
<1>1. UNCHANGED <<conf, calls, handler, got, reply>>
  BY DEF RequestDone, LocalDone, CallCancels
<1>2. TypeOK'
  BY DEF IInv, TypeOK, RequestDone, LocalDone, CallCancels, conf, calls
<1>3. RequestKeeps
  BY DEF RequestDone, LocalDone, CallCancels, RequestKeeps
<1>4. ASSUME NEW c \in Call PROVE CallInv(c)' /\ Keeps(c)
  <2>1. CallDone(c) => CallDone(c)'
    BY DEF CallDone, RequestDone, LocalDone, CallCancels, IInv, TypeOK, conf
  <2>2. CallInv(c)
    BY DEF IInv
  <2> QED
    BY <1>1, <2>1, <2>2, CallKeeps DEF calls
<1> QED
  BY <1>1, <1>2, <1>3, <1>4, HandlerKeeps DEF IInv
---------------------------------------------------------------------------
(* One call of the HTTP proxy.                                             *)

OthersStay(c) ==
  /\ UNCHANGED <<conf, contexts, handler, got, reply>>
  /\ \A d \in Call \ {c} : /\ at'[d] = at[d] /\ answer'[d] = answer[d] /\ body'[d] = body[d]
                           /\ closer'[d] = closer[d] /\ result'[d] = result[d]

LEMMA OneCall ==
  ASSUME IInv, NEW c \in Call, OthersStay(c), TypeOK', CallInv(c)', Keeps(c)
  PROVE  IInv'
<1>1. ASSUME NEW d \in Call PROVE CallInv(d)' /\ Keeps(d)
  <2>1. CallDone(d) => CallDone(d)'
    BY DEF OthersStay, contexts, conf, CallDone
  <2>2. CASE d # c
    BY <2>1, <2>2, CallKeeps DEF OthersStay, IInv
  <2> QED
    BY <2>2
<1>2. RequestKeeps
  BY DEF RequestKeeps, OthersStay, contexts
<1> QED
  BY <1>1, <1>2, HandlerKeeps DEF IInv, OthersStay

\* The parts of the type invariant that the proxy changes.
LEMMA CallTypes ==
  ASSUME IInv, NEW c \in Call, UNCHANGED <<conf, contexts, handler, got, reply>>,
         at' \in [Call -> {"idle", "call", "answered", "parse", "sending", "returned"}],
         answer' \in [Call -> {Nil} \cup Answer],
         body' \in [Call -> {"none", "open", "closed"}],
         closer' \in [Call -> {"none", "waiting", "ended"}],
         result' \in [Call -> {Nil} \cup Result]
  PROVE  TypeOK'
BY DEF IInv, TypeOK, conf, contexts

LEMMA AnswersStep == ASSUME IInv, NEW c \in Call, Answers(c) PROVE IInv'
<1>1. TypeOK' /\ OthersStay(c)
  BY CallTypes DEF Answers, Moves, OthersStay, IInv, TypeOK
<1>2. /\ at[c] = "call" /\ at'[c] = "answered" /\ answer'[c] \in Answer
      /\ body'[c] = "open" /\ closer'[c] = closer[c]
  BY DEF Answers, Moves, IInv, TypeOK
<1>3. answer[c] = Nil /\ closer[c] = "none"
  BY <1>2 DEF IInv, CallInv
<1>4. CallInv(c)' /\ Keeps(c)
  BY <1>1, <1>2, <1>3 DEF CallInv, Keeps, Over, OthersStay, CallDone, conf, contexts
<1> QED
  BY <1>1, <1>4, OneCall

LEMMA AcceptStep == ASSUME IInv, NEW c \in Call, Accept(c) PROVE IInv'
<1>1. TypeOK' /\ OthersStay(c)
  BY CallTypes DEF Accept, Moves, OthersStay, IInv, TypeOK
<1>2. /\ at[c] = "answered" /\ at'[c] = "parse" /\ UNCHANGED <<answer, body, closer, conf>>
      /\ encoding = "no-op" \/ answer[c].status = "ok"
  BY DEF Accept, Moves, IInv, TypeOK
<1>3. CallInv(c)
  BY DEF IInv
<1>4. CallInv(c)' /\ Keeps(c)
  BY <1>1, <1>2, <1>3 DEF CallInv, Keeps, Over, OthersStay, CallDone, conf, contexts
<1> QED
  BY <1>1, <1>4, OneCall

\* closeOnCancel closes a body only when its context is done.
LEMMA CloseStep == ASSUME IInv, NEW c \in Call, CloseOnCancel(c) PROVE IInv'
<1>1. TypeOK' /\ OthersStay(c)
  BY CallTypes DEF CloseOnCancel, contexts, OthersStay, IInv, TypeOK
<1>2. /\ closer[c] = "waiting" /\ CallDone(c) /\ closer'[c] = "ended" /\ body'[c] = "closed"
      /\ UNCHANGED <<conf, contexts, at, answer, result>>
  BY DEF CloseOnCancel, IInv, TypeOK
<1>3. CallInv(c) /\ at[c] \in {"idle", "call", "answered", "parse", "sending", "returned"}
  BY DEF IInv, TypeOK
<1>4. CallDone(c)'
  BY <1>2 DEF CallDone, conf, contexts
<1>5. Over(c) /\ Over(c)'
  BY <1>2, <1>3 DEF CallInv, Over
<1>6. From(c, result[c].resp) => From(c, result[c].resp)'
  BY <1>2, <1>4 DEF From, Over, conf
<1>7. CallInv(c)'
  BY <1>2, <1>3, <1>4, <1>5, <1>6 DEF CallInv, Over, conf
<1>8. Keeps(c)
  BY <1>2, <1>4, <1>5 DEF Keeps
<1> QED
  BY <1>1, <1>7, <1>8, OneCall

LEMMA SendingStep == ASSUME IInv, NEW c \in Call, SendResult(c) \/ GiveUp(c) PROVE IInv'
<1>1. TypeOK' /\ OthersStay(c)
  <2>1. Failed("error") \in Result
    BY DEF Failed, Result, Errors
  <2> QED
    BY <2>1, CallTypes DEF SendResult, GiveUp, Moves, OthersStay, IInv, TypeOK
<1>2. /\ at[c] = "sending" /\ at'[c] = "returned"
      /\ UNCHANGED <<conf, contexts, answer, body, closer>>
      /\ result'[c] = result[c] \/ result'[c] = Failed("error")
  BY DEF SendResult, GiveUp, Moves, IInv, TypeOK
<1>3. CallInv(c) /\ Over(c) /\ Over(c)' /\ (CallDone(c) <=> CallDone(c)')
  BY <1>2 DEF IInv, Over, CallDone, conf, contexts
<1>4. Keeps(c)
  BY <1>2, <1>3 DEF Keeps
<1>5. Failed("error") \in Result /\ Failed("error").resp = Nil /\ Failed("error").err # Nil
  BY NilIsNoAnswer DEF Failed, Result, Errors
<1>6. result'[c] = result[c] /\ From(c, result[c].resp) => From(c, result[c].resp)'
  BY <1>2, <1>3 DEF From, conf
<1>7. Refused(c) <=> Refused(c)'
  BY <1>2 DEF Refused, conf
<1>8. CallInv(c)'
  <2>1. CASE result'[c] = result[c]
    BY <1>2, <1>3, <1>6, <1>7, <2>1 DEF CallInv
  <2>2. CASE result'[c] = Failed("error")
    BY <1>2, <1>3, <1>5, <1>7, <2>2 DEF CallInv
  <2> QED
    BY <1>2, <2>1, <2>2
<1> QED
  BY <1>1, <1>4, <1>8, OneCall

\* What has to be known of the result of a call that returns.
LEMMA ReturnsStep ==
  ASSUME IInv, NEW c \in Call, OthersStay(c), TypeOK',
         at[c] \in {"call", "answered", "parse"}, at'[c] \in {"sending", "returned"},
         UNCHANGED answer, result'[c] \in Result,
         result'[c].resp = Nil <=> result'[c].err # Nil,
         result'[c].resp # Nil => From(c, result[c].resp)',
         body'[c] = "open" => closer'[c] = "waiting" \/ CallDone(c) \/ Refused(c)
  PROVE  IInv'
<1>1. (CallDone(c) <=> CallDone(c)') /\ (Refused(c) <=> Refused(c)')
  BY DEF OthersStay, CallDone, Refused, conf, contexts
<1>2. CallInv(c)'
  BY <1>1 DEF CallInv, Over
<1>3. Keeps(c)
  BY <1>1 DEF Keeps, Over
<1> QED
  BY <1>2, <1>3, OneCall

\* The moves of Returns, and their types.
LEMMA ReturnsMoves ==
  ASSUME IInv, NEW c \in Call, NEW from \in {"call", "answered", "parse"},
         NEW STATE r, r \in Result, Returns(c, from, r),
         body' \in [Call -> {"none", "open", "closed"}],
         closer' \in [Call -> {"none", "waiting", "ended"}],
         \A d \in Call \ {c} : body'[d] = body[d] /\ closer'[d] = closer[d]
  PROVE  /\ TypeOK' /\ OthersStay(c)
         /\ at[c] = from /\ at'[c] \in {"sending", "returned"}
         /\ UNCHANGED answer /\ result'[c] = r
<1>1. /\ at' \in [Call -> {"idle", "call", "answered", "parse", "sending", "returned"}]
      /\ result' \in [Call -> {Nil} \cup Result]
  BY DEF Returns, Moves, IInv, TypeOK
<1>2. answer' \in [Call -> {Nil} \cup Answer]
  BY DEF Returns, IInv, TypeOK
<1>3. OthersStay(c)
  BY DEF Returns, Moves, OthersStay, IInv, TypeOK
<1>4. TypeOK'
  BY <1>1, <1>2, <1>3, CallTypes DEF OthersStay
<1> QED
  BY <1>3, <1>4 DEF Returns, Moves, IInv, TypeOK

LEMMA Failure == \A e \in Errors : /\ Failed(e) \in Result
                                   /\ Failed(e).resp = Nil /\ Failed(e).err # Nil
BY NilIsNoAnswer DEF Failed, Result

LEMMA FailsStep == ASSUME IInv, NEW c \in Call,
                          ClientFails(c) \/ DoneAfterAnswer(c) \/ DecodeFails(c)
                   PROVE  IInv'
<1>1. Failed("error") \in Result /\ Failed("error").resp = Nil /\ Failed("error").err # Nil
  BY Failure DEF Errors
<1>2. /\ body' \in [Call -> {"none", "open", "closed"}]
      /\ closer' \in [Call -> {"none", "waiting", "ended"}]
      /\ \A d \in Call \ {c} : body'[d] = body[d] /\ closer'[d] = closer[d]
      /\ body'[c] \in {body[c], "closed"}
  BY DEF ClientFails, DoneAfterAnswer, DecodeFails, IInv, TypeOK
<1>3. PICK from \in {"call", "answered", "parse"} : Returns(c, from, Failed("error"))
  BY DEF ClientFails, DoneAfterAnswer, DecodeFails
<1>4. /\ TypeOK' /\ OthersStay(c)
      /\ at[c] = from /\ at'[c] \in {"sending", "returned"}
      /\ UNCHANGED answer /\ result'[c] = Failed("error")
  BY <1>1, <1>2, <1>3, ReturnsMoves
<1>5. body'[c] = "open" => CallDone(c)
  BY <1>2, <1>4 DEF ClientFails, DoneAfterAnswer, DecodeFails, Returns, Moves, IInv, TypeOK, CallInv
<1> QED
  BY <1>1, <1>4, <1>5, ReturnsStep

LEMMA RefuseStep == ASSUME IInv, NEW c \in Call, Refuse(c) PROVE IInv'
<1> DEFINE r == CASE onStatus = "default" -> Failed("error")
                  [] onStatus = "code" -> Failed("status")
                  [] onStatus = "details" ->
                       [resp |-> [io |-> 0, data |-> "error", complete |-> FALSE], err |-> Nil]
           details == [io |-> 0, data |-> "error", complete |-> FALSE]
<1>1. CallInv(c) /\ onStatus \in {"default", "code", "details"}
  BY DEF IInv, TypeOK
<1>2. at[c] = "answered" /\ encoding = "json" /\ answer[c].status = "bad" /\ Returns(c, "answered", r)
  BY DEF Refuse
<1>3. details \in Response /\ details # Nil /\ details.data = "error" /\ details.complete = FALSE
  <2>1. details \in Response
    BY DEF Response
  <2> QED
    BY <2>1, NilIsNoAnswer
<1>4. r \in Result /\ (r.resp = Nil <=> r.err # Nil)
      /\ (r.resp # Nil => onStatus = "details" /\ r.resp = details)
  <2>1. CASE onStatus = "default"
    BY <2>1, Failure DEF Errors
  <2>2. CASE onStatus = "code"
    BY <2>2, Failure DEF Errors
  <2>3. CASE onStatus = "details"
    BY <2>3, <1>3 DEF Result
  <2> QED
    BY <1>1, <2>1, <2>2, <2>3
<1>5. /\ body' \in [Call -> {"none", "open", "closed"}]
      /\ closer' \in [Call -> {"none", "waiting", "ended"}]
      /\ \A d \in Call \ {c} : body'[d] = body[d] /\ closer'[d] = closer[d]
      /\ body'[c] = "open" => Refused(c)
  BY <1>2 DEF Refuse, Refused, IInv, TypeOK
<1> HIDE DEF r
<1>6. /\ TypeOK' /\ OthersStay(c) /\ at'[c] \in {"sending", "returned"}
      /\ UNCHANGED answer /\ result'[c] = r
  BY <1>2, <1>4, <1>5, ReturnsMoves
<1> HIDE DEF details
<1>7. result'[c].resp # Nil => From(c, result[c].resp)'
  BY <1>1, <1>2, <1>3, <1>4, <1>6 DEF From, Over, CallInv, OthersStay, conf
<1> QED
  BY <1>2, <1>4, <1>5, <1>6, <1>7, ReturnsStep

LEMMA ParseNoOpStep == ASSUME IInv, NEW c \in Call, ParseNoOp(c) PROVE IInv'
<1> DEFINE copied == [io |-> c, data |-> "empty", complete |-> TRUE]
           r == [resp |-> copied, err |-> Nil]
<1>1. CallInv(c)
  BY DEF IInv
<1>2. at[c] = "parse" /\ encoding = "no-op" /\ Returns(c, "parse", r)
  BY DEF ParseNoOp, Returns, Moves
<1>3. copied \in Response /\ copied # Nil /\ r \in Result /\ r.err = Nil /\ r.resp = copied
  <2>1. copied \in Response
    BY DEF Response
  <2>2. r \in Result
    BY <2>1 DEF Result
  <2> QED
    BY <2>1, <2>2, NilIsNoAnswer
<1>4. /\ body' \in [Call -> {"none", "open", "closed"}]
      /\ closer' \in [Call -> {"none", "waiting", "ended"}]
      /\ \A d \in Call \ {c} : body'[d] = body[d] /\ closer'[d] = closer[d]
      /\ body'[c] = body[c] /\ closer'[c] = "waiting"
  BY DEF ParseNoOp, IInv, TypeOK
<1> HIDE DEF r
<1>5. /\ TypeOK' /\ OthersStay(c) /\ at'[c] \in {"sending", "returned"}
      /\ UNCHANGED answer /\ result'[c] = r
  BY <1>2, <1>3, <1>4, ReturnsMoves
<1>6. From(c, result[c].resp)'
  BY <1>1, <1>2, <1>3, <1>4, <1>5 DEF From, Over, CallInv, OthersStay, conf
<1> QED
  BY <1>2, <1>3, <1>4, <1>5, <1>6, ReturnsStep

LEMMA DecodeStep == ASSUME IInv, NEW c \in Call, Decode(c) PROVE IInv'
<1> DEFINE decoded == [io |-> 0, data |-> answer[c].content, complete |-> TRUE]
           r == [resp |-> decoded, err |-> Nil]
<1>1. CallInv(c)
  BY DEF IInv
<1>2. /\ at[c] = "parse" /\ encoding = "json" /\ Returns(c, "parse", r)
      /\ answer[c].content # "garbage"
  BY DEF Decode
<1>3. answer[c] \in Answer /\ answer[c].status = "ok"
  BY <1>1, <1>2 DEF CallInv
<1>4. decoded \in Response /\ decoded # Nil /\ r \in Result /\ r.err = Nil /\ r.resp = decoded
      /\ decoded.data # "error" /\ decoded.data = answer[c].content
  <2>1. answer[c].content \in {"some", "empty"}
    BY <1>2, <1>3 DEF Answer, Content
  <2>2. decoded \in Response
    BY <2>1 DEF Response
  <2>3. r \in Result
    BY <2>2 DEF Result
  <2> QED
    BY <2>1, <2>2, <2>3, NilIsNoAnswer
<1>5. /\ body' \in [Call -> {"none", "open", "closed"}]
      /\ closer' \in [Call -> {"none", "waiting", "ended"}]
      /\ \A d \in Call \ {c} : body'[d] = body[d] /\ closer'[d] = closer[d]
      /\ body'[c] = "closed"
  BY DEF Decode, IInv, TypeOK
<1> HIDE DEF r
<1>6. /\ TypeOK' /\ OthersStay(c) /\ at'[c] \in {"sending", "returned"}
      /\ UNCHANGED answer /\ result'[c] = r
  BY <1>2, <1>4, <1>5, ReturnsMoves
<1>7. From(c, result[c].resp)'
  BY <1>1, <1>2, <1>3, <1>4, <1>6 DEF From, Over, CallInv, OthersStay, conf
<1> QED
  BY <1>2, <1>4, <1>5, <1>6, <1>7, ReturnsStep

LEMMA CallStep == ASSUME IInv, NEW c \in Call, Answers(c) \/ HTTPProxy(c) \/ CloseOnCancel(c)
                  PROVE  IInv'
BY AnswersStep, FailsStep, RefuseStep, AcceptStep, ParseNoOpStep, DecodeStep, SendingStep, CloseStep
   DEF HTTPProxy

---------------------------------------------------------------------------
(* The handler.                                                            *)

\* It may end contexts, and leaves the calls alone once they run.
Leaves == /\ request # "live" => request' # "live"
          /\ local # "live" => local' # "live"
          /\ UNCHANGED <<conf, callCtx, calls>>

LEMMA CallsKeep == ASSUME IInv, Leaves PROVE \A c \in Call : CallInv(c)' /\ Keeps(c)
<1> SUFFICES ASSUME NEW c \in Call PROVE CallInv(c)' /\ Keeps(c)
  OBVIOUS
<1>1. CallDone(c) => CallDone(c)'
  BY DEF Leaves, CallDone, conf
<1> QED
  BY <1>1, CallKeeps DEF IInv, Leaves, calls

\* What the handler got stays backed by the same answer.
LEMMA GotKeeps == ASSUME IInv, Leaves, UNCHANGED got, Backed(got.resp) PROVE Backed(got.resp)'
<1>1. PICK c \in Call : From(c, got.resp)
  BY DEF Backed
<1>2. Keeps(c) /\ UNCHANGED <<conf, calls>>
  BY CallsKeep DEF Leaves
<1>3. From(c, got.resp)'
  BY <1>1, <1>2 DEF From, Keeps, Over, conf, calls
<1> QED
  BY <1>3 DEF Backed

LEMMA HandlerTypes ==
  ASSUME IInv, UNCHANGED <<conf, callCtx, calls>>,
         request' \in {request, "canceled"}, local' \in {local, "done"},
         handler' \in {"start", "proxy", "reply", "copy", "done"},
         got' \in {Nil} \cup Result, reply' \in {Nil} \cup Reply
  PROVE  TypeOK'
BY DEF IInv, TypeOK, conf, calls

\* Before there is a call.
LEMMA MethodStep == ASSUME IInv, MethodNotAllowed PROVE IInv'
<1> DEFINE told == [completed |-> FALSE, status |-> "error", body |-> "none"]
<1>1. /\ handler = "start" /\ handler' = "done" /\ reply' = told
      /\ UNCHANGED <<conf, callCtx, calls, request, local, got>>
  BY DEF MethodNotAllowed, Handles, calls
<1>2. told \in Reply /\ told # Nil
  <2>1. told \in Reply
    BY DEF Reply
  <2> QED
    BY <2>1, NilIsNothing
<1>3. TypeOK'
  BY <1>1, <1>2, HandlerTypes DEF IInv, TypeOK
<1>4. \A c \in Call : CallInv(c)'
  BY <1>1, CallsKeep DEF Leaves
<1>5. HandlerInv' /\ WholeBody' /\ SuccessNeedsAnswer'
  BY <1>1 DEF IInv, HandlerInv, WholeBody, NoOpBodyArrives, SuccessNeedsAnswer, calls
<1> QED
  BY <1>3, <1>4, <1>5 DEF IInv

LEMMA CallProxyStep == ASSUME IInv, CallProxy PROVE IInv'
<1>1. /\ handler = "start" /\ handler' = "proxy"
      /\ at' = [c \in Call |-> IF c <= ConcurrentCalls THEN "call" ELSE "idle"]
      /\ UNCHANGED <<conf, contexts, answer, body, closer, result, got, reply>>
  BY DEF CallProxy, Handles, contexts
<1>2. (\A c \in Call : at[c] = "idle") /\ reply = Nil /\ request # "canceled"
  BY <1>1 DEF IInv, HandlerInv
<1>3. \A c \in Call : at'[c] \in {"idle", "call"}
  BY <1>1
<1>4. TypeOK'
  BY <1>1, <1>3 DEF IInv, TypeOK, conf, contexts
<1>5. ASSUME NEW c \in Call PROVE CallInv(c)'
  BY <1>1, <1>2, <1>3 DEF IInv, CallInv, Over
<1>6. HandlerInv' /\ WholeBody' /\ SuccessNeedsAnswer'
  BY <1>1, <1>2 DEF IInv, HandlerInv, WholeBody, NoOpBodyArrives, SuccessNeedsAnswer, contexts
<1> QED
  BY <1>4, <1>5, <1>6 DEF IInv

\* What select on requestCtx makes of it.
LEMMA CheckedType ==
  ASSUME NEW r \in Result
  PROVE  /\ Checked(r) \in Result /\ Checked(r).resp = r.resp
         /\ r.resp # Nil \/ r.err # Nil \/ request # "live" =>
              Checked(r).resp # Nil \/ Checked(r).err # Nil
<1>1. "error" \in Errors /\ "error" # Nil
  BY NilIsNoAnswer DEF Errors
<1> QED
  BY <1>1 DEF Checked, Result

\* What the proxy may return: an answer of some call, or none and an error.
LEMMA ProxyReturnsStep ==
  ASSUME IInv, NEW STATE r, r \in Result, ProxyReturns(r),
         r.resp # Nil => Backed(r.resp),
         r.resp # Nil \/ r.err # Nil \/ request # "live"
  PROVE  IInv'
<1>1. /\ handler = "proxy" /\ handler' = "reply" /\ got' = Checked(r)
      /\ local' \in {local, "done"}
      /\ UNCHANGED <<conf, callCtx, calls, request, reply>>
  BY DEF ProxyReturns, Handles, calls
<1>2. /\ got' \in Result /\ got'.resp = r.resp
      /\ got'.resp # Nil \/ got'.err # Nil
  BY <1>1, CheckedType
<1>3. TypeOK'
  BY <1>1, <1>2, HandlerTypes DEF IInv, TypeOK
<1>4. Leaves
  BY <1>1 DEF Leaves, IInv, TypeOK
<1>5. \A c \in Call : CallInv(c)' /\ Keeps(c)
  BY <1>4, CallsKeep
<1>6. got'.resp # Nil => Backed(got.resp)'
  <2> SUFFICES ASSUME NEW c \in Call, From(c, r.resp) PROVE From(c, got.resp)'
    BY <1>2 DEF Backed
  <2>1. Keeps(c)
    BY <1>5
  <2> QED
    BY <1>1, <1>2, <2>1 DEF From, Keeps, Over, conf, calls
<1>7. HandlerInv' /\ WholeBody' /\ SuccessNeedsAnswer'
  BY <1>1, <1>2, <1>6 DEF IInv, HandlerInv, WholeBody, NoOpBodyArrives, SuccessNeedsAnswer, calls
<1> QED
  BY <1>3, <1>5, <1>7 DEF IInv

LEMMA CallReturnsStep == ASSUME IInv, CallReturns PROVE IInv'
<1>1. PICK c \in Returned : ProxyReturns(result[c])
  BY DEF CallReturns
<1>2. c \in Call /\ Over(c) /\ CallInv(c)
  BY DEF Returned, Over, IInv
<1>3. /\ result[c] \in Result /\ (result[c].resp = Nil <=> result[c].err # Nil)
      /\ result[c].resp # Nil => Backed(result[c].resp)
  BY <1>2 DEF CallInv, Backed
<1> QED
  BY <1>1, <1>3, ProxyReturnsStep

\* The last response and the last error are each one of a call.
LEMMA ConcurrentEndsStep == ASSUME IInv, ConcurrentEnds PROVE IInv'
<1>1. PICK heard \in SUBSET (Incomplete \cup Errored) :
        /\ heard = 1..ConcurrentCalls \/ request # "live"
        /\ \E r \in IF heard \cap Incomplete = {} THEN {Nil}
                      ELSE {result[c].resp : c \in heard \cap Incomplete},
               e \in IF heard \cap Errored = {} THEN {Nil}
                      ELSE {result[c].err : c \in heard \cap Errored} :
              ProxyReturns([resp |-> r, err |-> e])
  BY DEF ConcurrentEnds
<1>2. PICK r \in IF heard \cap Incomplete = {} THEN {Nil}
                   ELSE {result[c].resp : c \in heard \cap Incomplete},
           e \in IF heard \cap Errored = {} THEN {Nil}
                   ELSE {result[c].err : c \in heard \cap Errored} :
        ProxyReturns([resp |-> r, err |-> e])
  BY <1>1
<1>3. ASSUME NEW c \in Incomplete \cup Errored
      PROVE  /\ result[c] \in Result /\ (result[c].resp = Nil <=> result[c].err # Nil)
             /\ result[c].resp # Nil => Backed(result[c].resp)
  <2>1. c \in Call /\ Over(c) /\ CallInv(c)
    BY DEF Incomplete, Errored, Returned, Over, IInv
  <2> QED
    BY <2>1 DEF CallInv, Backed
<1>4. /\ r \in {Nil} \cup Response /\ (r # Nil => Backed(r))
      /\ heard \cap Incomplete # {} => r # Nil
  <2>1. CASE heard \cap Incomplete = {}
    BY <1>2, <2>1
  <2>2. CASE heard \cap Incomplete # {}
    <3>1. PICK c \in heard \cap Incomplete : r = result[c].resp
      BY <1>2, <2>2
    <3>2. c \in Incomplete /\ result[c].resp # Nil
      BY DEF Incomplete
    <3> QED
      BY <1>3, <3>1, <3>2 DEF Result
  <2> QED
    BY <2>1, <2>2
<1>5. /\ e \in {Nil} \cup Errors
      /\ heard \cap Errored # {} => e # Nil
  <2>1. CASE heard \cap Errored = {}
    BY <1>2, <2>1
  <2>2. CASE heard \cap Errored # {}
    <3>1. PICK c \in heard \cap Errored : e = result[c].err
      BY <1>2, <2>2
    <3>2. c \in Errored /\ result[c].resp = Nil
      BY DEF Errored
    <3> QED
      BY <1>3, <3>1, <3>2 DEF Result
  <2> QED
    BY <2>1, <2>2
<1>6. request # "live" \/ heard # {}
  <2>1. 1 \in 1..ConcurrentCalls
    BY NAssumption DEF ConcurrentEnds, IInv, TypeOK, Call
  <2> QED
    BY <1>1, <2>1
<1>7. request # "live" \/ r # Nil \/ e # Nil
  BY <1>4, <1>5, <1>6
<1>8. [resp |-> r, err |-> e] \in Result
  BY <1>4, <1>5 DEF Result
<1> QED
  BY <1>2, <1>4, <1>7, <1>8, ProxyReturnsStep

\* The last steps of a handler: it replies, and cancels the request's context.
Replies == /\ handler \in {"reply", "copy"}
           /\ request' \in {request, "canceled"} /\ (request # "live" => request' = request)
           /\ UNCHANGED <<conf, callCtx, calls, local, got>>

LEMMA RepliesStep ==
  ASSUME IInv, Replies, reply' \in Reply,
         \/ handler' = "done" /\ request' # "live"
         \/ /\ handler' = "copy" /\ encoding = "no-op" /\ UNCHANGED request
            /\ reply'.body = "none" /\ reply'.status # "ok" /\ ~reply'.completed,
         WholeBody', SuccessNeedsAnswer'
  PROVE  IInv'
<1>1. TypeOK'
  BY HandlerTypes DEF Replies, IInv, TypeOK
<1>2. Leaves
  BY DEF Leaves, Replies
<1>3. got \in Result /\ (got.resp # Nil => Backed(got.resp)) /\ (got.resp # Nil \/ got.err # Nil)
        /\ request # "canceled"
  BY DEF IInv, HandlerInv, Replies
<1>4. got.resp # Nil => Backed(got.resp)'
  BY <1>2, <1>3, GotKeeps DEF Replies
<1>5. HandlerInv'
  BY <1>3, <1>4 DEF HandlerInv, Replies, conf
<1>6. \A c \in Call : CallInv(c)'
  BY <1>2, CallsKeep
<1> QED
  BY <1>1, <1>5, <1>6 DEF IInv

LEMMA CancelEnds == ASSUME IInv, Cancel
                    PROVE  /\ request' \in {request, "canceled"} /\ request' # "live"
                           /\ request # "live" => request' = request
BY DEF Cancel, IInv, TypeOK

LEMMA ReplyErrorStep == ASSUME IInv, ReplyError PROVE IInv'
<1>1. Replies /\ handler' = "done" /\ request' # "live"
  BY CancelEnds DEF ReplyError, Handles, Replies, calls
<1>2. /\ reply' \in Reply /\ reply'.body = "none" /\ reply'.status # "ok" /\ ~reply'.completed
  BY DEF ReplyError, Reply
<1>3. WholeBody' /\ SuccessNeedsAnswer'
  BY <1>2 DEF WholeBody, NoOpBodyArrives, SuccessNeedsAnswer
<1> QED
  BY <1>1, <1>2, <1>3, RepliesStep

\* 200 is told with a response in hand, and that is what was made of an answer.
LEMMA RenderJSONStep == ASSUME IInv, RenderJSON PROVE IInv'
<1>1. Replies /\ handler' = "done" /\ request' # "live" /\ handler = "reply"
  BY CancelEnds DEF RenderJSON, Handles, Replies, calls
<1>2. /\ reply' = [completed |-> Header, status |-> "ok",
                   body |-> IF HasData THEN "data" ELSE "none"]
      /\ ~RepliesError /\ encoding = "json" /\ UNCHANGED <<answer, conf>>
  BY DEF RenderJSON, Handles
<1>3. got \in Result /\ got.resp # Nil /\ Backed(got.resp)
  <2>1. /\ got \in Result /\ (got.resp # Nil => Backed(got.resp))
        /\ got.resp # Nil \/ got.err # Nil
    BY <1>1 DEF IInv, HandlerInv
  <2> QED
    BY <1>2, <2>1 DEF RepliesError, HasData
<1>4. got.resp \in Response /\ Header \in BOOLEAN
  BY <1>3 DEF Result, Response, Header, HasData
<1>5. reply' \in Reply
  BY <1>2, <1>4 DEF Reply
<1>6. PICK c \in Call : From(c, got.resp)
  BY <1>3 DEF Backed
<1>7. /\ answer[c] \in Answer /\ answer[c] # Nil
      /\ IF got.resp.data = "error" THEN onStatus = "details" /\ ~got.resp.complete
         ELSE answer[c].status = "ok" /\ answer[c].content = got.resp.data
  BY <1>2, <1>6, NilIsNoAnswer DEF From
<1>8. WholeBody'
  BY <1>2 DEF WholeBody, NoOpBodyArrives
<1>9. SuccessNeedsAnswer'
  <2>1. answer[c].status = "ok" \/ onStatus = "details"
    BY <1>7
  <2>2. reply'.body = "none" => answer[c].content = "empty"
    BY <1>2, <1>3, <1>7 DEF HasData
  <2>3. reply'.completed => answer[c].status = "ok" /\ answer[c].content = "some"
    BY <1>2, <1>4, <1>7 DEF Header, HasData, Response
  <2> QED
    BY <1>2, <1>7, <2>1, <2>2, <2>3 DEF SuccessNeedsAnswer, conf
<1> QED
  BY <1>1, <1>5, <1>8, <1>9, RepliesStep

\* A no-op response has no data, hence is never announced as complete.
LEMMA NoOpHasNoData == ASSUME IInv, handler = "reply", encoding = "no-op" PROVE ~HasData
<1>1. got.resp # Nil => Backed(got.resp)
  BY DEF IInv, HandlerInv
<1> QED
  BY <1>1 DEF HasData, Backed, From

LEMMA RenderNoOpStep == ASSUME IInv, RenderNoOp PROVE IInv'
<1>1. /\ Replies /\ handler = "reply" /\ handler' = "copy" /\ encoding = "no-op"
      /\ UNCHANGED request /\ reply' = NoOpReply
  BY DEF RenderNoOp, Handles, Replies, calls
<1>2. Header = FALSE
  BY <1>1, NoOpHasNoData DEF Header
<1>3. reply' \in Reply /\ reply'.body = "none" /\ reply'.status # "ok" /\ ~reply'.completed
  BY <1>1, <1>2 DEF NoOpReply, Reply
<1>4. WholeBody' /\ SuccessNeedsAnswer'
  BY <1>3 DEF WholeBody, NoOpBodyArrives, SuccessNeedsAnswer
<1> QED
  BY <1>1, <1>3, <1>4, RepliesStep

\* The body of the only call is open until its context is done, and then the
\* request has ended, which was not by the handler.
LEMMA CopyStep == ASSUME IInv, Copy PROVE IInv'
<1>1. Replies /\ handler = "copy" /\ handler' = "done" /\ request' # "live"
  BY CancelEnds DEF Copy, Handles, Replies, calls
<1>2. /\ encoding = "no-op" /\ reply \in Reply /\ reply.status # "ok" /\ ~reply.completed
      /\ reply.body = "none" /\ request # "canceled"
  BY <1>1 DEF IInv, HandlerInv
<1>3. /\ reply' = [reply EXCEPT !.body = IF got.resp = Nil THEN @
                                           ELSE IF CanRead(got.resp.io) THEN "whole" ELSE "partial"]
      /\ UNCHANGED conf
  BY DEF Copy, Handles
<1>4. reply' \in Reply /\ reply'.status # "ok" /\ ~reply'.completed
  BY <1>2, <1>3 DEF Reply
<1>5. SuccessNeedsAnswer'
  BY <1>4 DEF SuccessNeedsAnswer
<1>6. WholeBody'
  <2> SUFFICES ASSUME ConcurrentCalls = 1, reply'.body = "partial"
               PROVE  request' \in {"timeout", "left"}
    BY <1>3 DEF WholeBody, NoOpBodyArrives, conf
  <2>1. got.resp # Nil /\ ~CanRead(got.resp.io)
    BY <1>2, <1>3 DEF Reply
  <2>2. PICK c \in Call : From(c, got.resp)
    BY <1>1, <2>1 DEF IInv, HandlerInv, Backed
  <2>3. got.resp.io = c /\ (body[c] = "open" \/ CallDone(c))
    BY <1>2, <2>2 DEF From
  <2>4. CallDone(c)
    BY <2>1, <2>3 DEF CanRead
  <2>5. request # "live"
    BY <2>4 DEF CallDone
  <2> QED
    BY <1>1, <1>2, <2>5 DEF Replies, IInv, TypeOK
<1> QED
  BY <1>1, <1>4, <1>5, <1>6, RepliesStep

---------------------------------------------------------------------------

LEMMA Inductive == IInv /\ [Next]_vars => IInv'
<1> SUFFICES ASSUME IInv, [Next]_vars PROVE IInv'
  OBVIOUS
<1>1. CASE (\E why \in {"timeout", "left"} : RequestDone(why)) \/ LocalDone
             \/ \E c \in Call : CallCancels(c)
  BY <1>1, ContextStep
<1>2. CASE \E c \in Call : Answers(c) \/ HTTPProxy(c) \/ CloseOnCancel(c)
  BY <1>2, CallStep
<1>3. CASE Handler
  BY <1>3, MethodStep, CallProxyStep, CallReturnsStep, ConcurrentEndsStep, ReplyErrorStep,
     RenderJSONStep, RenderNoOpStep, CopyStep DEF Handler
<1>4. CASE Terminated \/ UNCHANGED vars
  <2>1. UNCHANGED <<conf, contexts, calls, handler, got, reply>>
    BY <1>4 DEF Terminated, vars
  <2>2. TypeOK' /\ Leaves /\ RequestKeeps
    BY <2>1 DEF IInv, TypeOK, Leaves, RequestKeeps, conf, contexts, calls
  <2> QED
    BY <2>1, <2>2, CallsKeep, HandlerKeeps DEF IInv
<1> QED
  BY <1>1, <1>2, <1>3, <1>4 DEF Next

LEMMA Invariance == Spec => []IInv
<1>1. Init => IInv
  BY Initially
<1>2. IInv /\ [Next]_vars => IInv'
  BY Inductive
<1> QED
  BY <1>1, <1>2, PTL DEF Spec

\* Everything a request goes through has its type.
THEOREM TypeCorrect == Spec => []TypeOK
<1>1. IInv => TypeOK
  BY DEF IInv
<1> QED
  BY <1>1, Invariance, PTL

\* Without concurrent calls a no-op body is copied to its end, unless the
\* request timed out or its client left while it was (mux/render.go:140).
THEOREM BodiesArriveWhole == Spec => []WholeBody
<1>1. IInv => WholeBody
  BY DEF IInv
<1> QED
  BY <1>1, Invariance, PTL

\* 200 and X-Krakend-Completed: true are only told of what some backend
\* answered (mux/endpoint.go:61-94, gin/endpoint.go:57-85).
THEOREM ClientsAreToldTheTruth == Spec => []SuccessNeedsAnswer
<1>1. IInv => SuccessNeedsAnswer
  BY DEF IInv
<1> QED
  BY <1>1, Invariance, PTL

\* When the handler has returned, every context it started is done, and a body
\* that is open has its closer, a done context or a refusal to account for it
\* (http.go:112-132, http_response.go:35).
THEOREM NothingStaysOpen == Spec => []OpenBodiesAreAccounted
<1>1. IInv => OpenBodiesAreAccounted
  <2> SUFFICES ASSUME IInv PROVE OpenBodiesAreAccounted
    OBVIOUS
  <2>1. handler = "done" => \A c \in Call : at[c] # "idle" => CallDone(c)
    BY DEF IInv, HandlerInv, CallDone
  <2>2. ASSUME NEW c \in Call, at[c] = "returned", body[c] = "open"
        PROVE  closer[c] = "waiting" \/ CallDone(c) \/ Refused(c)
    BY <2>2 DEF IInv, CallInv, Over
  <2> QED
    BY <2>1, <2>2 DEF OpenBodiesAreAccounted, Refused
<1> QED
  BY <1>1, Invariance, PTL
=============================================================================

-------------------------- MODULE EndpointExchange --------------------------
(***************************************************************************)
(* A request from the endpoint handler (of package mux or gin) to one      *)
(* backend and back: HTTP client, status handler, response parser, render. *)
(* With several calls the concurrent middleware is between handler and     *)
(* HTTP proxy.                                                             *)
(*                                                                         *)
(* The subject is who ends contexts and closes bodies, when, and what the  *)
(* client is told.  The concurrent middleware appears as the contract that *)
(* module ConcurrentCalls shows: a complete response, or the last one once *)
(* all calls ended, or (nil, nil) if the parent's context is done.         *)
(***************************************************************************)
EXTENDS Naturals, FiniteSets

CONSTANTS N,    \* the most concurrent calls a backend is configured with
          Nil

ASSUME NAssumption == N \in Nat /\ N > 0

Call == 1..N

VARIABLES
  router,   \* "mux" or "gin"
  encoding, \* of the backend and of the output: "no-op" or "json"
  ConcurrentCalls, \* of the backend; 1: no concurrent middleware
  onStatus, \* the status handler: "default", "code" or "details"
  request,  \* requestCtx: "live" or why it is done
  local,    \* localCtx of the concurrent middleware
  callCtx,  \* the contexts of processConcurrentCall
  at,       \* where each call of the HTTP proxy stands
  answer,   \* what the backend answered it
  body,     \* the answer's body: "none", "open", "closed"
  closer,   \* its closeOnCancel goroutine
  result,   \* what the proxy returned: [resp, err]
  handler,  \* where the handler stands
  got,      \* what it got: [resp, err]
  reply     \* what the client is told

conf == <<router, encoding, ConcurrentCalls, onStatus>>
contexts == <<request, local, callCtx>>
calls == <<at, answer, body, closer, result>>
vars == <<conf, contexts, calls, handler, got, reply>>

Status == {"ok", "bad"}
Content == {"some", "empty", "garbage"}  \* a document, {}, or no JSON
Answer == [status : Status, content : Content]

\* Error is any error without a status code, StatusError one that has it.
Errors == {"error", "status"}
Response == [io : {0} \cup Call, data : {"some", "empty", "error"}, complete : BOOLEAN]
Result == [resp : {Nil} \cup Response, err : {Nil} \cup Errors]
Reply == [completed : BOOLEAN, status : {"ok", "backend", "error"},
          body : {"none", "data", "whole", "partial"}]

ASSUME NilIsNothing == Nil \notin Answer \cup Errors \cup Response \cup Result \cup Reply

CallDone(c) == request # "live" \/ (ConcurrentCalls > 1 /\ (local # "live" \/ callCtx[c] # "live"))

Init == /\ router \in {"mux", "gin"}
        /\ encoding \in {"no-op", "json"}
        /\ ConcurrentCalls \in Call
        /\ onStatus \in {"default", "code", "details"}
        /\ encoding = "no-op" => onStatus = "default"
        /\ request = "live" /\ local = "live"
        /\ callCtx = [c \in Call |-> "live"]
        /\ at = [c \in Call |-> "idle"]
        /\ answer = [c \in Call |-> Nil]
        /\ body = [c \in Call |-> "none"]
        /\ closer = [c \in Call |-> "none"]
        /\ result = [c \in Call |-> Nil]
        /\ handler = "start"
        /\ got = Nil
        /\ reply = Nil

---------------------------------------------------------------------------
(* Contexts.                                                               *)

\* The endpoint's timeout, or the client leaves.
RequestDone(why) == /\ \E c \in Call : at[c] # "idle"
                    /\ request = "live"
                    /\ request' = why
                    /\ UNCHANGED <<conf, local, callCtx, calls, handler, got, reply>>

\* The timeout of the concurrent middleware.
LocalDone == /\ ConcurrentCalls > 1 /\ handler = "proxy"
             /\ local = "live"
             /\ local' = "done"
             /\ UNCHANGED <<conf, request, callCtx, calls, handler, got, reply>>

---------------------------------------------------------------------------
(* NewHTTPProxyDetailed, in the handler's goroutine or in one per call.    *)

Moves(c, from, to) == /\ at[c] = from
                      /\ at' = [at EXCEPT ![c] = to]
                      /\ UNCHANGED <<conf, contexts, handler, got, reply>>

\* processConcurrentCall still has to send a response.
Returns(c, from, r) == /\ Moves(c, from, IF ConcurrentCalls > 1 /\ r.resp # Nil THEN "sending" ELSE "returned")
                       /\ result' = [result EXCEPT ![c] = r]
                       /\ UNCHANGED answer

Failed(e) == [resp |-> Nil, err |-> e]

\* External: the backend answers, the client of net/http returns.
Answers(c) == /\ Moves(c, "call", "answered")
              /\ \E a \in Answer : answer' = [answer EXCEPT ![c] = a]
              /\ body' = [body EXCEPT ![c] = "open"]
              /\ UNCHANGED <<closer, result>>

\* Mutated form of ClientFails: the client does not look at the context.
ClientFailsAlone(c) == /\ ~CallDone(c)
                       /\ Returns(c, "call", Failed("error"))
                       /\ UNCHANGED <<body, closer>>

\* The backend fails, or the context of the request is done.
ClientFails(c) == /\ Returns(c, "call", Failed("error"))
                  /\ UNCHANGED <<body, closer>>

\* case <-ctx.Done(): the answer is dropped with its body open.
DoneAfterAnswer(c) == /\ CallDone(c)
                      /\ Returns(c, "answered", Failed("error"))
                      /\ UNCHANGED <<body, closer>>

\* The status handler refuses.  The default one leaves the body open, the
\* others have read and closed it; only a named error becomes a response.
Refuse(c) ==
  /\ at[c] = "answered" /\ ~CallDone(c)
  /\ encoding = "json" /\ answer[c].status = "bad"
  /\ Returns(c, "answered",
             CASE onStatus = "default" -> Failed("error")
               [] onStatus = "code" -> Failed("status")
               [] onStatus = "details" ->
                    [resp |-> [io |-> 0, data |-> "error", complete |-> FALSE], err |-> Nil])
  /\ body' = [body EXCEPT ![c] = IF onStatus = "default" THEN "open" ELSE "closed"]
  /\ UNCHANGED closer

Accept(c) == /\ at[c] = "answered" /\ ~CallDone(c)
             /\ encoding = "no-op" \/ answer[c].status = "ok"
             /\ Moves(c, "answered", "parse")
             /\ UNCHANGED <<answer, body, closer, result>>

\* NoOpHTTPResponseParser and NewReadCloserWrapper.
ParseNoOp(c) == /\ encoding = "no-op"
                /\ Returns(c, "parse", [resp |-> [io |-> c, data |-> "empty", complete |-> TRUE],
                                        err |-> Nil])
                /\ closer' = [closer EXCEPT ![c] = "waiting"]
                /\ UNCHANGED body

\* Mutated form of DecodeFails: only a decoded body is closed.
DecodeFailsOpen(c) == /\ at[c] = "parse" /\ encoding = "json"
                      /\ answer[c].content = "garbage" \/ CallDone(c)
                      /\ Returns(c, "parse", Failed("error"))
                      /\ UNCHANGED <<body, closer>>

\* DefaultHTTPResponseParserFactory: the deferred Close in any case.
DecodeFails(c) == /\ at[c] = "parse" /\ encoding = "json"
                  /\ answer[c].content = "garbage" \/ CallDone(c)
                  /\ Returns(c, "parse", Failed("error"))
                  /\ body' = [body EXCEPT ![c] = "closed"]
                  /\ UNCHANGED closer

Decode(c) == /\ at[c] = "parse" /\ encoding = "json"
             /\ answer[c].content # "garbage"
             /\ Returns(c, "parse", [resp |-> [io |-> 0, data |-> answer[c].content, complete |-> TRUE],
                                     err |-> Nil])
             /\ body' = [body EXCEPT ![c] = "closed"]
             /\ UNCHANGED closer

\* closeOnCancel
CloseOnCancel(c) == /\ closer[c] = "waiting"
                    /\ CallDone(c)
                    /\ closer' = [closer EXCEPT ![c] = "ended"]
                    /\ body' = [body EXCEPT ![c] = "closed"]
                    /\ UNCHANGED <<conf, contexts, at, answer, result, handler, got, reply>>

\* processConcurrentCall: out <- result, or ctx.Done().
SendResult(c) == /\ Moves(c, "sending", "returned")
                 /\ UNCHANGED <<answer, body, closer, result>>

GiveUp(c) == /\ local # "live" \/ request # "live"
             /\ Moves(c, "sending", "returned")
             /\ result' = [result EXCEPT ![c] = Failed("error")]
             /\ UNCHANGED <<answer, body, closer>>

\* Then it cancels the call's context.
CallCancels(c) == /\ ConcurrentCalls > 1
                  /\ at[c] = "returned" /\ callCtx[c] = "live"
                  /\ callCtx' = [callCtx EXCEPT ![c] = "done"]
                  /\ UNCHANGED <<conf, request, local, calls, handler, got, reply>>

---------------------------------------------------------------------------
(* The handler.                                                            *)

Handles(from, to) == /\ handler = from
                     /\ handler' = to
                     /\ UNCHANGED <<conf, callCtx, answer, body, closer, result>>

\* mux answers other methods itself; gin does not route them here.
MethodNotAllowed == /\ router = "mux"
                    /\ Handles("start", "done")
                    /\ reply' = [completed |-> FALSE, status |-> "error", body |-> "none"]
                    /\ UNCHANGED <<request, local, at, got>>

CallProxy == /\ Handles("start", "proxy")
             /\ at' = [c \in Call |-> IF c <= ConcurrentCalls THEN "call" ELSE "idle"]
             /\ UNCHANGED <<request, local, got, reply>>

\* Mutated form of Checked: the handler does not look at requestCtx.
CheckedNever(r) == r

\* select on requestCtx.Done()
Checked(r) == IF request # "live" /\ r.err = Nil THEN [r EXCEPT !.err = "error"] ELSE r

Returned == {c \in Call : at[c] = "returned"}
Incomplete == {c \in Returned : result[c].resp # Nil /\ ~result[c].resp.complete}
Errored == {c \in Returned : result[c].resp = Nil}

ProxyReturns(r) == /\ Handles("proxy", "reply")
                   /\ local' = IF ConcurrentCalls > 1 THEN "done" ELSE local
                   /\ got' = Checked(r)
                   /\ UNCHANGED <<request, at, reply>>

\* The only call returned, or the concurrent middleware has a complete response.
CallReturns == \E c \in Returned :
  /\ ConcurrentCalls > 1 => c \notin Incomplete \cup Errored
  /\ ProxyReturns(result[c])

\* The concurrent middleware heard every call, or the end of its parent's
\* context in place of some: the last response and the last error it heard.
ConcurrentEnds ==
  /\ ConcurrentCalls > 1
  /\ \E heard \in SUBSET (Incomplete \cup Errored) :
       /\ heard = 1..ConcurrentCalls \/ request # "live"
       /\ \E r \in IF heard \cap Incomplete = {} THEN {Nil}
                    ELSE {result[c].resp : c \in heard \cap Incomplete},
             e \in IF heard \cap Errored = {} THEN {Nil}
                    ELSE {result[c].err : c \in heard \cap Errored} :
            ProxyReturns([resp |-> r, err |-> e])

HasData == got.resp # Nil /\ got.resp.data # "empty"

\* The condition under which the handler writes the error itself.
RepliesError == got.err # Nil /\ IF router = "mux" THEN ~HasData ELSE got.resp = Nil

Cancel == request' = IF request = "live" THEN "canceled" ELSE request

ReplyError == /\ Handles("reply", "done")
              /\ RepliesError
              /\ reply' = [completed |-> FALSE,
                           status |-> IF got.err = "status" THEN "backend" ELSE "error",
                           body |-> "none"]
              /\ Cancel
              /\ UNCHANGED <<local, at, got>>

Header == HasData /\ got.resp.complete

\* jsonRender: {} for no response.
RenderJSON == /\ Handles("reply", "done")
              /\ ~RepliesError /\ encoding = "json"
              /\ reply' = [completed |-> Header, status |-> "ok",
                           body |-> IF HasData THEN "data" ELSE "none"]
              /\ Cancel
              /\ UNCHANGED <<local, at, got>>

\* noopRender: an error for no response, else the backend's status and headers.
NoOpReply == [completed |-> Header, status |-> IF got.resp = Nil THEN "error" ELSE "backend",
              body |-> "none"]

\* Mutated form of RenderNoOp: cancel() before the copy.
RenderNoOpCancels == /\ Handles("reply", "copy")
                     /\ ~RepliesError /\ encoding = "no-op"
                     /\ reply' = NoOpReply
                     /\ Cancel
                     /\ UNCHANGED <<local, at, got>>

RenderNoOp == /\ Handles("reply", "copy")
              /\ ~RepliesError /\ encoding = "no-op"
              /\ reply' = NoOpReply
              /\ UNCHANGED <<request, local, at, got>>

\* io.Copy from the body reads all of it while it is open and its context
\* lives, and an error otherwise.
CanRead(c) == body[c] = "open" /\ ~CallDone(c)

Copy == /\ Handles("copy", "done")
        /\ reply' = [reply EXCEPT !.body = IF got.resp = Nil THEN @
                                            ELSE IF CanRead(got.resp.io) THEN "whole" ELSE "partial"]
        /\ Cancel
        /\ UNCHANGED <<local, at, got>>

---------------------------------------------------------------------------

HTTPProxy(c) == \/ ClientFails(c) \/ DoneAfterAnswer(c) \/ Refuse(c) \/ Accept(c)
                \/ ParseNoOp(c) \/ DecodeFails(c) \/ Decode(c)
                \/ SendResult(c) \/ GiveUp(c)

Handler == \/ MethodNotAllowed \/ CallProxy
           \/ CallReturns \/ ConcurrentEnds
           \/ ReplyError \/ RenderJSON \/ RenderNoOp \/ Copy

Terminated == /\ handler = "done"
              /\ \A c \in Call : at[c] \in {"idle", "returned"} /\ closer[c] # "waiting"
              /\ UNCHANGED vars

Next == \/ \E why \in {"timeout", "left"} : RequestDone(why)
        \/ LocalDone
        \/ \E c \in Call : Answers(c) \/ HTTPProxy(c) \/ CloseOnCancel(c) \/ CallCancels(c)
        \/ Handler
        \/ Terminated

\* Goroutines run; timers fire; the client of net/http returns when the
\* context of its request is done.  Backends need not answer.
Fairness == /\ WF_vars(RequestDone("timeout"))
            /\ WF_vars(Handler)
            /\ \A c \in Call : /\ WF_vars(at[c] # "call" /\ HTTPProxy(c))
                               /\ WF_vars(CallDone(c) /\ ClientFails(c))
                               /\ WF_vars(CloseOnCancel(c))
                               /\ WF_vars(CallCancels(c))

Spec == Init /\ [][Next]_vars /\ Fairness

---------------------------------------------------------------------------

TypeOK == /\ router \in {"mux", "gin"} /\ encoding \in {"no-op", "json"}
          /\ ConcurrentCalls \in Call
          /\ onStatus \in {"default", "code", "details"}
          /\ request \in {"live", "timeout", "left", "canceled"} /\ local \in {"live", "done"}
          /\ callCtx \in [Call -> {"live", "done"}]
          /\ at \in [Call -> {"idle", "call", "answered", "parse", "sending", "returned"}]
          /\ answer \in [Call -> {Nil} \cup Answer]
          /\ body \in [Call -> {"none", "open", "closed"}]
          /\ closer \in [Call -> {"none", "waiting", "ended"}]
          /\ result \in [Call -> {Nil} \cup Result]
          /\ handler \in {"start", "proxy", "reply", "copy", "done"}
          /\ got \in {Nil} \cup Result
          /\ reply \in {Nil} \cup Reply

\* When the handler has returned, nothing it started can wait for long: the
\* context of every call is done (cancel() on each path of the handlers), and
\* a body that is still open is one the status handler refused, one that a
\* done context made the proxy drop, or one whose closer is about to run.
\* Before that the proxy returns an open body only to a closer, or in those two
\* cases (http.go:112-132, http_response.go:35, proxy.go:43, status.go:80-83).
OpenBodiesAreAccounted ==
  /\ handler = "done" => \A c \in Call : at[c] # "idle" => CallDone(c)
  /\ \A c \in Call : at[c] = "returned" /\ body[c] = "open" =>
       \/ closer[c] = "waiting"
       \/ CallDone(c)
       \/ onStatus = "default" /\ encoding = "json" /\ answer[c].status = "bad"

\* The parser "just copies the http response body into the proxy response IO"
\* (http_response.go:61-62): the body is cut short only because the request
\* ended while it was copied, by its timeout or its client.
NoOpBodyArrives == reply # Nil /\ reply.body = "partial" => request \in {"timeout", "left"}

\* Without concurrent calls that is so (mux/render.go:140 before endpoint.go:94).
WholeBody == ConcurrentCalls = 1 => NoOpBodyArrives

\* A client that is told 200 by jsonRender gets the answer of a backend, or the
\* details of its refusal: never {} for an error, a timeout or (nil, nil).
\* X-Krakend-Completed: true is only sent for an answer with a good status that
\* was decoded to the end.
SuccessNeedsAnswer ==
  /\ reply # Nil /\ reply.status = "ok" =>
       \E c \in Call : /\ answer[c] # Nil
                       /\ answer[c].status = "ok" \/ onStatus = "details"
                       /\ reply.body = "none" => answer[c].content = "empty"
  /\ reply # Nil /\ reply.completed =>
       \E c \in Call : answer[c] # Nil /\ answer[c].status = "ok" /\ answer[c].content = "some"

\* The client is answered, whatever the backend does: the endpoint's timeout
\* (mux/endpoint.go:55, gin/endpoint.go:50) reaches the client of net/http
\* (executor.go:19) and ends the handler.
Answered == <>(handler = "done")

=============================================================================

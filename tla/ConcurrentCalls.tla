-------------------------- MODULE ConcurrentCalls --------------------------
(***************************************************************************)
(* The concurrent middleware of proxy/concurrent.go: the same request is   *)
(* sent ConcurrentCalls times and the first complete response wins.  The   *)
(* caller receives from two buffered channels and from the done channel of *)
(* the parent context, at most once per call it started, and may leave     *)
(* while goroutines (processConcurrentCall) are still running.             *)
(*                                                                         *)
(* A response is abstracted to whether it is complete, an error to its     *)
(* origin.  localCtx is done when the parent is, when its own timeout of   *)
(* 75% of the backend's fires, or once the caller cancels it.              *)
(***************************************************************************)
EXTENDS Integers, Sequences, FiniteSets

CONSTANT ConcurrentCalls

ASSUME ConcurrentCallsAssumption == ConcurrentCalls \in Nat \ {0, 1}

Call == 1..ConcurrentCalls

VARIABLES parentDone, \* the request's own context is done
          ctx,        \* localCtx: "live", or the reason it is done
          pc,         \* the caller: "start", "receive", "returned"
          i,          \* index of the caller's current loop
          call,       \* where each processConcurrentCall stands
          held,       \* what each of them is about to send
          results,    \* chan *Response
          failed,     \* chan error
          response,   \* the variable response of the caller
          err,        \* the variable err of the caller
          outcome,    \* what the caller returned
          lateDones   \* history: receives from the parent's done channel

callVars == <<parentDone, ctx, pc, i, call, held, results, failed, response, err,
              outcome, lateDones>>

Response == {"complete", "partial"}
Error    == {"backend", "null", "deadline", "canceled"}

\* make(chan ..., remote.ConcurrentCalls)
ChanCap == ConcurrentCalls

Nothing == [response |-> "nil", err |-> "nil"]

---------------------------------------------------------------------------
CallsInit == /\ parentDone = FALSE
             /\ ctx = "live"
             /\ pc = "start" /\ i = 0
             /\ call = [c \in Call |-> "idle"]
             /\ held = [c \in Call |-> "nil"]
             /\ results = << >> /\ failed = << >>
             /\ response = "nil" /\ err = "nil"
             /\ outcome = Nothing
             /\ lateDones = 0

---------------------------------------------------------------------------
(* The caller.                                                             *)

\* go processConcurrentCall(...): the last one gets the request itself, the
\* others a clone of it.
StartCall == /\ pc = "start" /\ i < ConcurrentCalls
             /\ call' = [call EXCEPT ![i + 1] = "calling"]
             /\ i' = i + 1
             /\ UNCHANGED <<parentDone, ctx, pc, held, results, failed,
                            response, err, outcome, lateDones>>

AllStarted == /\ pc = "start" /\ i = ConcurrentCalls
              /\ pc' = "receive" /\ i' = 0
              /\ UNCHANGED <<parentDone, ctx, call, held, results, failed,
                             response, err, outcome, lateDones>>

\* cancel(); return res, e
ReturnWith(res, e) ==
  /\ outcome' = [response |-> res, err |-> e]
  /\ ctx' = IF ctx = "live" THEN "canceled" ELSE ctx
  /\ pc' = "returned"

Receiving == pc = "receive" /\ i < ConcurrentCalls

\* case response = <-results, and it is complete
ReceiveComplete ==
  /\ Receiving /\ results # << >> /\ Head(results) = "complete"
  /\ response' = Head(results)
  /\ results' = Tail(results)
  /\ ReturnWith("complete", "nil")
  /\ UNCHANGED <<parentDone, i, call, held, failed, err, lateDones>>

\* case response = <-results, and it is not
ReceivePartial ==
  /\ Receiving /\ results # << >> /\ Head(results) # "complete"
  /\ response' = Head(results)
  /\ results' = Tail(results)
  /\ i' = i + 1
  /\ UNCHANGED <<parentDone, ctx, pc, call, held, failed, err, outcome,
                 lateDones>>

\* Mutated form of ReceiveError: err := <-failed, a variable of its own.
ReceiveErrorShadows ==
  /\ Receiving /\ failed # << >>
  /\ failed' = Tail(failed)
  /\ i' = i + 1
  /\ UNCHANGED <<parentDone, ctx, pc, call, held, results, response, err, outcome,
                 lateDones>>

\* case err = <-failed
ReceiveError ==
  /\ Receiving /\ failed # << >>
  /\ err' = Head(failed)
  /\ failed' = Tail(failed)
  /\ i' = i + 1
  /\ UNCHANGED <<parentDone, ctx, pc, call, held, results, response, outcome,
                 lateDones>>

\* Mutated form of ReceiveDone: listens to localCtx.
ReceiveLocalDone ==
  /\ Receiving /\ ctx # "live"
  /\ i' = i + 1
  /\ lateDones' = lateDones + 1
  /\ UNCHANGED <<parentDone, ctx, pc, call, held, results, failed, response,
                 err, outcome>>

\* case <-ctx.Done(): the parent's; nothing is remembered of it
ReceiveDone ==
  /\ Receiving /\ parentDone
  /\ i' = i + 1
  /\ lateDones' = lateDones + 1
  /\ UNCHANGED <<parentDone, ctx, pc, call, held, results, failed, response,
                 err, outcome>>

\* The loop ran out: whatever the variables hold.
Return == /\ pc = "receive" /\ i = ConcurrentCalls
          /\ ReturnWith(response, err)
          /\ UNCHANGED <<parentDone, i, call, held, results, failed, response,
                         err, lateDones>>

---------------------------------------------------------------------------
(* processConcurrentCall.                                                  *)

Hold(c, msg, next) ==
  /\ held' = [held EXCEPT ![c] = msg]
  /\ call' = [call EXCEPT ![c] = next]
  /\ UNCHANGED <<parentDone, ctx, pc, i, results, failed, response, err,
                 outcome, lateDones>>

\* next[0](localCtx, request) returns an error or (nil, nil) ...
NextFails(c) == /\ call[c] = "calling"
                /\ \/ Hold(c, "backend", "failing")
                   \/ Hold(c, "null", "failing")
                   \/ ctx # "live" /\ Hold(c, ctx, "failing")

\* ... or a response.
NextResponds(c) == /\ call[c] = "calling"
                   /\ \E res \in Response : Hold(c, res, "sending")

\* case out <- result
SendResult(c) == /\ call[c] = "sending" /\ Len(results) < ChanCap
                 /\ results' = Append(results, held[c])
                 /\ call' = [call EXCEPT ![c] = "done"]
                 /\ UNCHANGED <<parentDone, ctx, pc, i, held, failed, response,
                                err, outcome, lateDones>>

\* Mutated form of GiveUp: the request is sent again.
GiveUpRetries(c) == /\ call[c] = "sending" /\ ctx # "live"
                    /\ Hold(c, held[c], "calling")

\* case <-ctx.Done()
GiveUp(c) == call[c] = "sending" /\ ctx # "live" /\ Hold(c, ctx, "failing")

\* failed <- err
SendError(c) == /\ call[c] = "failing" /\ Len(failed) < ChanCap
                /\ failed' = Append(failed, held[c])
                /\ call' = [call EXCEPT ![c] = "done"]
                /\ UNCHANGED <<parentDone, ctx, pc, i, held, results, response,
                               err, outcome, lateDones>>

---------------------------------------------------------------------------
(* The contexts.                                                           *)

Timeout == /\ ctx = "live"
           /\ ctx' = "deadline"
           /\ UNCHANGED <<parentDone, pc, i, call, held, results, failed,
                          response, err, outcome, lateDones>>

\* The client left or the endpoint's timeout fired: both contexts are done.
ParentDone(cause) ==
  /\ ~parentDone
  /\ parentDone' = TRUE
  /\ ctx' = IF ctx = "live" THEN cause ELSE ctx
  /\ UNCHANGED <<pc, i, call, held, results, failed, response, err, outcome,
                 lateDones>>

CallsTerminated == /\ pc = "returned" /\ \A c \in Call : call[c] = "done"
                   /\ UNCHANGED callVars

Caller == \/ StartCall \/ AllStarted \/ ReceiveComplete \/ ReceivePartial
          \/ ReceiveError \/ ReceiveDone \/ Return

NextReturns(c) == NextFails(c) \/ NextResponds(c)

Send(c) == SendResult(c) \/ GiveUp(c) \/ SendError(c)

CallsNext == \/ Caller
             \/ \E c \in Call : NextReturns(c) \/ Send(c)
             \/ Timeout
             \/ \E cause \in {"deadline", "canceled"} : ParentDone(cause)
             \/ CallsTerminated

\* Goroutines that can run do, the timer of localCtx fires, and the proxy below
\* returns once its context is done; until then it may keep silent.
CallsFairness == /\ WF_callVars(Caller)
                 /\ \A c \in Call : /\ WF_callVars(Send(c))
                                    /\ WF_callVars(ctx # "live" /\ NextReturns(c))
                 /\ WF_callVars(Timeout)

CallsSpec == CallsInit /\ [][CallsNext]_callVars

---------------------------------------------------------------------------
(* Properties.                                                             *)

CallsTypeOK == /\ parentDone \in BOOLEAN
               /\ ctx \in {"live", "deadline", "canceled"}
               /\ pc \in {"start", "receive", "returned"}
               /\ i \in 0..ConcurrentCalls
               /\ call \in [Call -> {"idle", "calling", "sending", "failing", "done"}]
               /\ held \in [Call -> Response \cup Error \cup {"nil"}]
               /\ results \in Seq(Response)
               /\ failed \in Seq(Error)
               /\ response \in Response \cup {"nil"}
               /\ err \in Error \cup {"nil"}
               /\ outcome \in [response : Response \cup {"nil"}, err : Error \cup {"nil"}]
               /\ lateDones \in 0..ConcurrentCalls

Done == {c \in Call : call[c] = "done"}

\* The caller may be gone: every goroutine still finds room for its message
\* (lines 34-35), so none outlives its call to the proxy below.
SendNeverBlocks ==
  \A c \in Call : /\ call[c] = "sending" => Len(results) < ChanCap
                  /\ call[c] = "failing" => Len(failed) < ChanCap

\* A complete response that made it into the channel is not lost: the caller
\* returns one unless its own context is done.
CompleteResponseWins ==
  (pc = "returned" /\ outcome.response # "complete" /\ ~parentDone)
    => /\ \A c \in Call : call[c] = "done" /\ held[c] # "complete"
       /\ results = << >> /\ failed = << >>

\* The caller returns a complete response without an error, and otherwise
\* something: (nil, nil) needs as many receives from the done channel as calls.
NilNilOnlyIfParentDone ==
  pc = "returned" =>
    /\ outcome.response = "complete" => outcome.err = "nil"
    /\ outcome = Nothing => lateDones = ConcurrentCalls

\* The request is answered, and every goroutine ends, even if the backend
\* keeps silent until the timeout.
AllCallsEnd == <>[](pc = "returned" /\ \A c \in Call : call[c] = "done")

---------------------------------------------------------------------------
(* The inductive invariant behind them.                                    *)

\* What was sent is queued or was received; lateDones of the caller's i
\* receives took nothing out of a channel.
Balance == Len(results) + Len(failed) + (i - lateDones)

CallerInv ==
  /\ pc = "start" => /\ response = "nil" /\ err = "nil" /\ lateDones = 0
                     /\ \A c \in Call : c > i => call[c] = "idle"
                     /\ Len(results) + Len(failed) = Cardinality(Done)
  /\ pc = "receive" => Balance = Cardinality(Done)
  /\ pc # "start" => lateDones <= i
  /\ pc # "returned" => outcome = Nothing /\ response # "complete"
  /\ pc = "returned" =>
       /\ Len(results) + Len(failed) <= Cardinality(Done)
       /\ IF response = "complete"
            THEN outcome = [response |-> "complete", err |-> "nil"]
            ELSE /\ outcome = [response |-> response, err |-> err]
                 /\ i = ConcurrentCalls /\ Balance = Cardinality(Done)
  /\ (pc # "start" /\ response = "nil" /\ err = "nil") => i = lateDones
  /\ ~parentDone => lateDones = 0

HeldInv == \A c \in Call : /\ call[c] = "sending" => held[c] \in Response
                           /\ call[c] = "failing" => held[c] \in Error

\* A complete response that was sent stays in the channel until the caller
\* returns one.
QueuedInv ==
  response # "complete" =>
    \A c \in Done : held[c] = "complete" =>
      \E j \in 1..Len(results) : results[j] = "complete"

CallsInv == CallsTypeOK /\ CallerInv /\ HeldInv /\ QueuedInv
===========================================================================

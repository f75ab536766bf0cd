----------------------- MODULE ConcurrentCallsProofs -----------------------
(***************************************************************************)
(* The concurrent middleware is correct for every number of calls.         *)
(***************************************************************************)
EXTENDS ConcurrentCalls, FiniteSetTheorems, TLAPS

---------------------------------------------------------------------------
(* Counting calls.                                                         *)

\* Sets of calls are finite, and smaller than ConcurrentCalls if one is missing.
LEMMA CallSets ==
  ASSUME NEW S \in SUBSET Call
  PROVE  /\ IsFiniteSet(S) /\ Cardinality(S) \in 0..ConcurrentCalls
         /\ Cardinality(S) = ConcurrentCalls => S = Call
<1>1. IsFiniteSet(Call) /\ Cardinality(Call) = ConcurrentCalls
  BY ConcurrentCallsAssumption, FS_Interval DEF Call
<1>2. /\ IsFiniteSet(S) /\ Cardinality(S) <= ConcurrentCalls
      /\ Cardinality(S) = ConcurrentCalls => S = Call
  BY <1>1, FS_Subset
<1>3. Cardinality(S) \in Nat
  BY <1>2, FS_CardinalityType
<1> QED
  BY <1>2, <1>3, ConcurrentCallsAssumption

\* A call outside a set of calls leaves room for one more.
LEMMA MissingCall ==
  ASSUME NEW S \in SUBSET Call, NEW c \in Call, c \notin S
  PROVE  /\ Cardinality(S) < ConcurrentCalls
         /\ Cardinality(S \cup {c}) = Cardinality(S) + 1
BY CallSets, FS_AddElement, ConcurrentCallsAssumption

\* A received element leaves the channel; the rest keeps its order.
LEMMA Received ==
  ASSUME NEW S, NEW q \in Seq(S), q # << >>
  PROVE  /\ Head(q) = q[1] /\ Head(q) \in S
         /\ Tail(q) \in Seq(S) /\ Len(Tail(q)) = Len(q) - 1 /\ Len(q) \in Nat \ {0}
         /\ \A j \in 1..Len(q) : j # 1 => j - 1 \in 1..Len(Tail(q)) /\ Tail(q)[j - 1] = q[j]
OBVIOUS

\* The sum of what is queued and what was taken never exceeds what was sent.
LEMMA QueuedBound ==
  ASSUME CallsInv
  PROVE  /\ Len(results) \in Nat /\ Len(failed) \in Nat
         /\ Len(results) + Len(failed) <= Cardinality(Done)
         /\ Done \in SUBSET Call /\ Cardinality(Done) \in 0..ConcurrentCalls
<1>1. Done \in SUBSET Call
  BY DEF Done
<1>2. Cardinality(Done) \in 0..ConcurrentCalls
  BY <1>1, CallSets
<1> QED
  BY <1>1, <1>2, ConcurrentCallsAssumption DEF CallsInv, CallsTypeOK, CallerInv, Balance

---------------------------------------------------------------------------
(* The invariant holds initially and is preserved by every action.         *)

\* Nothing has been started.
LEMMA InitIInv == CallsInit => CallsInv
<1> SUFFICES ASSUME CallsInit PROVE CallsInv
  OBVIOUS
<1> USE ConcurrentCallsAssumption
<1>1. Done = {} /\ Cardinality({}) = 0
  BY FS_EmptySet DEF CallsInit, Done
<1>2. CallsTypeOK
  <2>1. /\ call \in [Call -> {"idle", "calling", "sending", "failing", "done"}]
        /\ held \in [Call -> Response \cup Error \cup {"nil"}]
    BY DEF CallsInit
  <2>2. outcome \in [response : Response \cup {"nil"}, err : Error \cup {"nil"}]
    BY DEF CallsInit, Nothing
  <2>3. parentDone \in BOOLEAN /\ ctx \in {"live", "deadline", "canceled"}
        /\ pc \in {"start", "receive", "returned"}
    BY DEF CallsInit
  <2>4. results \in Seq(Response) /\ failed \in Seq(Error)
    BY DEF CallsInit
  <2>5. i \in 0..ConcurrentCalls /\ lateDones \in 0..ConcurrentCalls
    BY DEF CallsInit
  <2>6. response \in Response \cup {"nil"} /\ err \in Error \cup {"nil"}
    BY DEF CallsInit
  <2> QED
    BY <2>1, <2>2, <2>3, <2>4, <2>5, <2>6 DEF CallsTypeOK
<1>3. CallerInv
  BY <1>1 DEF CallsInit, CallerInv, Nothing, Call
<1>4. HeldInv /\ QueuedInv
  BY <1>1 DEF CallsInit, HeldInv, QueuedInv
<1> QED
  BY <1>2, <1>3, <1>4 DEF CallsInv

\* Starting a call (lines 37-43).
LEMMA StartCallStep == CallsInv /\ StartCall => CallsInv'
<1> SUFFICES ASSUME CallsInv, StartCall PROVE CallsInv'
  OBVIOUS
<1> USE ConcurrentCallsAssumption
<1>1. i + 1 \in Call /\ call[i + 1] = "idle" /\ i \in 0..ConcurrentCalls
      /\ call' = [call EXCEPT ![i + 1] = "calling"]
  BY DEF StartCall, CallsInv, CallsTypeOK, CallerInv, Call
<1>2. Done' = Done
  BY <1>1 DEF Done, CallsInv, CallsTypeOK
<1>3. CallsTypeOK'
  BY <1>1 DEF StartCall, CallsInv, CallsTypeOK
<1>4. CallerInv'
  <2>1. \A c \in Call : c > i' => call'[c] = "idle"
    <3> SUFFICES ASSUME NEW c \in Call, c > i + 1 PROVE call'[c] = "idle"
      BY DEF StartCall
    <3>1. c > i /\ c # i + 1
      BY <1>1 DEF Call
    <3> QED
      BY <1>1, <3>1 DEF StartCall, CallsInv, CallsTypeOK, CallerInv
  <2> QED
    BY <1>2, <2>1 DEF StartCall, CallsInv, CallerInv
<1>5. HeldInv' /\ QueuedInv'
  BY <1>1, <1>2 DEF StartCall, CallsInv, CallsTypeOK, HeldInv, QueuedInv
<1> QED
  BY <1>3, <1>4, <1>5 DEF CallsInv

\* The loop counter restarts for the receives (line 48).
LEMMA AllStartedStep == CallsInv /\ AllStarted => CallsInv'
<1> SUFFICES ASSUME CallsInv, AllStarted PROVE CallsInv'
  OBVIOUS
<1> USE ConcurrentCallsAssumption
<1>1. Done' = Done
  BY DEF AllStarted, Done
<1>2. CallsTypeOK'
  BY DEF AllStarted, CallsInv, CallsTypeOK
<1>3. CallerInv'
  BY <1>1, QueuedBound DEF AllStarted, CallsInv, CallsTypeOK, CallerInv, Balance
<1>4. HeldInv' /\ QueuedInv'
  BY <1>1 DEF AllStarted, CallsInv, HeldInv, QueuedInv
<1> QED
  BY <1>2, <1>3, <1>4 DEF CallsInv

\* Receiving a complete response ends the request (lines 50-54).
LEMMA ReceiveCompleteStep == CallsInv /\ ReceiveComplete => CallsInv'
<1> SUFFICES ASSUME CallsInv, ReceiveComplete PROVE CallsInv'
  OBVIOUS
<1> USE ConcurrentCallsAssumption
<1>1. Done' = Done /\ pc' = "returned" /\ response' = "complete"
      /\ outcome' = [response |-> "complete", err |-> "nil"]
  BY DEF ReceiveComplete, ReturnWith, Done
<1>2. results' \in Seq(Response) /\ Len(results') = Len(results) - 1
  BY Received DEF ReceiveComplete, CallsInv, CallsTypeOK
<1>3. CallsTypeOK'
  BY <1>1, <1>2 DEF ReceiveComplete, ReturnWith, CallsInv, CallsTypeOK, Response
<1>4. CallerInv'
  BY <1>1, <1>2, QueuedBound DEF ReceiveComplete, Receiving, CallsInv, CallsTypeOK, CallerInv
<1>5. HeldInv' /\ QueuedInv'
  BY <1>1 DEF ReceiveComplete, CallsInv, HeldInv, QueuedInv
<1> QED
  BY <1>3, <1>4, <1>5 DEF CallsInv

\* Receiving an incomplete response (line 50).
LEMMA ReceivePartialStep == CallsInv /\ ReceivePartial => CallsInv'
<1> SUFFICES ASSUME CallsInv, ReceivePartial PROVE CallsInv'
  OBVIOUS
<1> USE ConcurrentCallsAssumption
<1>1. Done' = Done
  BY DEF ReceivePartial, Done
<1>2. /\ results' \in Seq(Response) /\ Len(results') = Len(results) - 1
      /\ Len(results) \in Nat \ {0}
      /\ response' = results[1] /\ results[1] = "partial"
      /\ \A j \in 1..Len(results) : j # 1 => /\ j - 1 \in 1..Len(results')
                                             /\ results'[j - 1] = results[j]
  BY Received DEF ReceivePartial, CallsInv, CallsTypeOK, Response
<1>3. CallsTypeOK'
  BY <1>2 DEF ReceivePartial, Receiving, CallsInv, CallsTypeOK, Response
<1>4. CallerInv'
  BY <1>1, <1>2 DEF ReceivePartial, Receiving, CallsInv, CallsTypeOK, CallerInv, Balance
<1>5. QueuedInv'
  <2> SUFFICES ASSUME NEW c \in Done, held[c] = "complete"
               PROVE  \E j \in 1..Len(results') : results'[j] = "complete"
    BY <1>1 DEF QueuedInv, ReceivePartial
  <2>1. response # "complete"
    BY DEF ReceivePartial, Receiving, CallsInv, CallerInv
  <2>2. PICK j \in 1..Len(results) : results[j] = "complete"
    BY <2>1 DEF CallsInv, QueuedInv
  <2>3. j # 1
    BY <1>2, <2>2
  <2> QED
    BY <1>2, <2>2, <2>3
<1>6. HeldInv'
  BY DEF ReceivePartial, CallsInv, HeldInv
<1> QED
  BY <1>3, <1>4, <1>5, <1>6 DEF CallsInv

\* Receiving an error (line 55).
LEMMA ReceiveErrorStep == CallsInv /\ ReceiveError => CallsInv'
<1> SUFFICES ASSUME CallsInv, ReceiveError PROVE CallsInv'
  OBVIOUS
<1> USE ConcurrentCallsAssumption
<1>1. Done' = Done
  BY DEF ReceiveError, Done
<1>2. /\ failed' \in Seq(Error) /\ Len(failed') = Len(failed) - 1
      /\ Len(failed) \in Nat \ {0} /\ err' \in Error
  BY Received DEF ReceiveError, CallsInv, CallsTypeOK
<1>3. CallsTypeOK'
  BY <1>2 DEF ReceiveError, Receiving, CallsInv, CallsTypeOK
<1>4. CallerInv'
  BY <1>1, <1>2 DEF ReceiveError, Receiving, CallsInv, CallsTypeOK, CallerInv, Balance, Error
<1>5. HeldInv' /\ QueuedInv'
  BY <1>1 DEF ReceiveError, CallsInv, HeldInv, QueuedInv
<1> QED
  BY <1>3, <1>4, <1>5 DEF CallsInv

\* Receiving from the parent's done channel (line 56).
LEMMA ReceiveDoneStep == CallsInv /\ ReceiveDone => CallsInv'
<1> SUFFICES ASSUME CallsInv, ReceiveDone PROVE CallsInv'
  OBVIOUS
<1> USE ConcurrentCallsAssumption
<1>1. Done' = Done
  BY DEF ReceiveDone, Done
<1>2. lateDones <= i /\ i < ConcurrentCalls
  BY DEF ReceiveDone, Receiving, CallsInv, CallerInv
<1>3. CallsTypeOK'
  BY <1>2 DEF ReceiveDone, CallsInv, CallsTypeOK
<1>4. CallerInv'
  BY <1>1 DEF ReceiveDone, Receiving, CallsInv, CallsTypeOK, CallerInv, Balance
<1>5. HeldInv' /\ QueuedInv'
  BY <1>1 DEF ReceiveDone, CallsInv, HeldInv, QueuedInv
<1> QED
  BY <1>3, <1>4, <1>5 DEF CallsInv

\* The loop ran out (lines 59-60).
LEMMA ReturnStep == CallsInv /\ Return => CallsInv'
<1> SUFFICES ASSUME CallsInv, Return PROVE CallsInv'
  OBVIOUS
<1> USE ConcurrentCallsAssumption
<1>1. Done' = Done
  BY DEF Return, Done
<1>2. CallsTypeOK'
  BY DEF Return, ReturnWith, CallsInv, CallsTypeOK
<1>3. CallerInv'
  BY <1>1, QueuedBound DEF Return, ReturnWith, CallsInv, CallsTypeOK, CallerInv, Balance
<1>4. HeldInv' /\ QueuedInv'
  BY <1>1 DEF Return, CallsInv, HeldInv, QueuedInv
<1> QED
  BY <1>2, <1>3, <1>4 DEF CallsInv

\* A goroutine learns what it will send (lines 76-92).
LEMMA HoldStep ==
  ASSUME CallsInv, NEW c \in Call, call[c] \in {"calling", "sending"},
         NEW msg \in Response \cup Error, NEW next \in {"sending", "failing"},
         next = "sending" => msg \in Response, next = "failing" => msg \in Error,
         Hold(c, msg, next)
  PROVE  CallsInv'
<1> USE ConcurrentCallsAssumption
<1>1. /\ held' = [held EXCEPT ![c] = msg] /\ call' = [call EXCEPT ![c] = next]
      /\ UNCHANGED <<parentDone, ctx, pc, i, results, failed, response, err,
                     outcome, lateDones>>
  BY DEF Hold
<1>2. Done' = Done /\ c \notin Done
  BY <1>1 DEF Done, CallsInv, CallsTypeOK
<1>3. CallsTypeOK'
  BY <1>1 DEF CallsInv, CallsTypeOK
<1>4. CallerInv'
  BY <1>1, <1>2 DEF CallsInv, CallsTypeOK, CallerInv, Balance
<1>5. HeldInv'
  BY <1>1 DEF CallsInv, CallsTypeOK, HeldInv
<1>6. QueuedInv'
  BY <1>1, <1>2 DEF CallsInv, CallsTypeOK, QueuedInv, Done
<1> QED
  BY <1>3, <1>4, <1>5, <1>6 DEF CallsInv

\* The proxy below returned, or the select took ctx.Done().
LEMMA NextReturnsStep ==
  ASSUME CallsInv, NEW c \in Call, NextReturns(c) \/ GiveUp(c)
  PROVE  CallsInv'
<1>1. {"backend", "null", "deadline", "canceled"} = Error /\ ctx \in Error \cup {"live"}
  BY DEF Error, CallsInv, CallsTypeOK
<1>2. CASE NextFails(c)
  BY <1>1, <1>2, HoldStep DEF NextFails
<1>3. CASE NextResponds(c)
  BY <1>3, HoldStep DEF NextResponds
<1>4. CASE GiveUp(c)
  BY <1>1, <1>4, HoldStep DEF GiveUp
<1> QED
  BY <1>2, <1>3, <1>4 DEF NextReturns

\* out <- result (line 88).
LEMMA SendResultStep ==
  ASSUME CallsInv, NEW c \in Call, SendResult(c)
  PROVE  CallsInv'
<1> USE ConcurrentCallsAssumption
<1>1. /\ call' = [call EXCEPT ![c] = "done"] /\ call[c] = "sending"
      /\ results' = Append(results, held[c]) /\ held[c] \in Response
      /\ results \in Seq(Response)
  BY DEF SendResult, CallsInv, HeldInv, CallsTypeOK
<1>2. Done' = Done \cup {c} /\ c \notin Done
  BY <1>1 DEF Done, CallsInv, CallsTypeOK
<1>3. Cardinality(Done') = Cardinality(Done) + 1 /\ Cardinality(Done) \in Nat
  BY <1>2, MissingCall, QueuedBound
<1>4. /\ results' \in Seq(Response) /\ Len(results') = Len(results) + 1
      /\ \A j \in 1..Len(results) : results'[j] = results[j]
      /\ results'[Len(results) + 1] = held[c] /\ Len(results) \in Nat
  BY <1>1
<1>5. CallsTypeOK'
  BY <1>1, <1>4 DEF SendResult, CallsInv, CallsTypeOK
<1>6. CallerInv'
  BY <1>1, <1>3, <1>4 DEF SendResult, CallsInv, CallsTypeOK, CallerInv, Balance
<1>7. HeldInv'
  BY <1>1 DEF SendResult, CallsInv, CallsTypeOK, HeldInv
<1>8. QueuedInv'
  BY <1>2, <1>4 DEF SendResult, CallsInv, QueuedInv
<1> QED
  BY <1>5, <1>6, <1>7, <1>8 DEF CallsInv

\* failed <- err (lines 78, 83, 90).
LEMMA SendErrorStep ==
  ASSUME CallsInv, NEW c \in Call, SendError(c)
  PROVE  CallsInv'
<1> USE ConcurrentCallsAssumption
<1>1. /\ call' = [call EXCEPT ![c] = "done"] /\ call[c] = "failing"
      /\ failed' = Append(failed, held[c]) /\ held[c] \in Error
      /\ failed \in Seq(Error)
  BY DEF SendError, CallsInv, HeldInv, CallsTypeOK
<1>2. Done' = Done \cup {c} /\ c \notin Done
  BY <1>1 DEF Done, CallsInv, CallsTypeOK
<1>3. Cardinality(Done') = Cardinality(Done) + 1 /\ Cardinality(Done) \in Nat
  BY <1>2, MissingCall, QueuedBound
<1>4. failed' \in Seq(Error) /\ Len(failed') = Len(failed) + 1 /\ Len(failed) \in Nat
  BY <1>1
<1>5. CallsTypeOK'
  BY <1>1, <1>4 DEF SendError, CallsInv, CallsTypeOK
<1>6. CallerInv'
  BY <1>1, <1>3, <1>4 DEF SendError, CallsInv, CallsTypeOK, CallerInv, Balance
<1>7. HeldInv'
  BY <1>1 DEF SendError, CallsInv, CallsTypeOK, HeldInv
<1>8. QueuedInv'
  BY <1>1, <1>2 DEF SendError, CallsInv, QueuedInv, Error
<1> QED
  BY <1>5, <1>6, <1>7, <1>8 DEF CallsInv

\* Every step of the program preserves the invariant.
THEOREM Inductive == CallsInv /\ [CallsNext]_callVars => CallsInv'
<1> SUFFICES ASSUME CallsInv, [CallsNext]_callVars PROVE CallsInv'
  OBVIOUS
<1>1. CASE Caller
  BY <1>1, StartCallStep, AllStartedStep, ReceiveCompleteStep, ReceivePartialStep,
     ReceiveErrorStep, ReceiveDoneStep, ReturnStep DEF Caller
<1>2. CASE \E c \in Call : NextReturns(c) \/ Send(c)
  BY <1>2, NextReturnsStep, SendResultStep, SendErrorStep DEF Send
<1>3. CASE Timeout \/ \E cause \in {"deadline", "canceled"} : ParentDone(cause)
  <2>1. /\ UNCHANGED <<pc, i, call, held, results, failed, response, err, outcome,
                       lateDones>>
        /\ ctx' \in {"live", "deadline", "canceled"} /\ parentDone' \in BOOLEAN
        /\ parentDone' = FALSE => parentDone = FALSE
    BY <1>3 DEF Timeout, ParentDone, CallsInv, CallsTypeOK
  <2>2. Done' = Done
    BY <2>1 DEF Done
  <2>3. CallsTypeOK' /\ HeldInv' /\ QueuedInv'
    BY <2>1, <2>2 DEF CallsInv, CallsTypeOK, HeldInv, QueuedInv
  <2>4. CallerInv'
    BY <2>1, <2>2 DEF CallsInv, CallsTypeOK, CallerInv, Balance
  <2> QED
    BY <2>3, <2>4 DEF CallsInv
<1>4. CASE UNCHANGED callVars
  <2>1. Done' = Done
    BY <1>4 DEF callVars, Done
  <2>2. CallsTypeOK' /\ HeldInv' /\ QueuedInv' /\ CallerInv'
    BY <1>4, <2>1 DEF callVars, CallsInv, CallsTypeOK, HeldInv, QueuedInv, CallerInv, Balance
  <2> QED
    BY <2>2 DEF CallsInv
<1> QED
  BY <1>1, <1>2, <1>3, <1>4 DEF CallsNext, CallsTerminated

THEOREM Invariance == CallsSpec => []CallsInv
BY InitIInv, Inductive, PTL DEF CallsSpec

---------------------------------------------------------------------------
(* The properties the runs check, for every number of calls.               *)

\* Every variable keeps its type.
THEOREM TypeCorrect == CallsSpec => []CallsTypeOK
<1>1. CallsInv => CallsTypeOK
  BY DEF CallsInv
<1> QED
  BY <1>1, Invariance, PTL

\* No processConcurrentCall ever blocks on a send, even after the caller left.
THEOREM SendsNeverBlock == CallsSpec => []SendNeverBlocks
<1>1. CallsInv => SendNeverBlocks
  <2> SUFFICES ASSUME CallsInv, NEW c \in Call, call[c] # "done"
               PROVE  Len(results) < ChanCap /\ Len(failed) < ChanCap
    BY DEF SendNeverBlocks
  <2>1. Done \in SUBSET Call /\ c \notin Done
    BY DEF Done
  <2>2. Cardinality(Done) < ConcurrentCalls
    BY <2>1, MissingCall
  <2>3. Cardinality(Done) \in Nat
    BY QueuedBound
  <2> QED
    BY <2>2, <2>3, QueuedBound, ConcurrentCallsAssumption DEF ChanCap
<1> QED
  BY <1>1, Invariance, PTL

\* While the request's own context lives a complete response is never lost.
THEOREM CompleteWins == CallsSpec => []CompleteResponseWins
<1>1. CallsInv => CompleteResponseWins
  <2> SUFFICES ASSUME CallsInv, pc = "returned", outcome.response # "complete", ~parentDone
               PROVE  /\ \A c \in Call : call[c] = "done" /\ held[c] # "complete"
                      /\ results = << >> /\ failed = << >>
    BY DEF CompleteResponseWins
  <2>1. /\ response # "complete" /\ i = ConcurrentCalls /\ lateDones = 0
        /\ Len(results) + Len(failed) + (i - lateDones) = Cardinality(Done)
    BY DEF CallsInv, CallerInv, Balance
  <2>2. /\ Len(results) = 0 /\ Len(failed) = 0
        /\ Cardinality(Done) = ConcurrentCalls
    BY <2>1, QueuedBound, ConcurrentCallsAssumption
  <2>3. Done = Call
    BY <2>2, QueuedBound, CallSets
  <2>4. results = << >> /\ failed = << >>
    BY <2>2 DEF CallsInv, CallsTypeOK
  <2>5. \A c \in Call : held[c] # "complete"
    BY <2>1, <2>2, <2>3 DEF CallsInv, QueuedInv
  <2> QED
    BY <2>3, <2>4, <2>5 DEF Done
<1> QED
  BY <1>1, Invariance, PTL

\* (nil, nil) is returned only after every receive found the parent done.
THEOREM NilNilNeedsParentDone == CallsSpec => []NilNilOnlyIfParentDone
<1>1. CallsInv => NilNilOnlyIfParentDone
  BY DEF NilNilOnlyIfParentDone, CallsInv, CallsTypeOK, CallerInv, Nothing
<1> QED
  BY <1>1, Invariance, PTL
===========================================================================

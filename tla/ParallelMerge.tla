--------------------------- MODULE ParallelMerge ---------------------------
(***************************************************************************)
(* parallelMerge of proxy/merging.go: one request is forked to the         *)
(* backends of an endpoint, one goroutine (requestPart) per backend, and   *)
(* the caller's goroutine collects exactly as many answers as it forked    *)
(* goroutines, from two buffered channels, into the accumulator.           *)
(*                                                                         *)
(* The caller never listens to the context while it collects: a timeout    *)
(* reaches it only through the goroutines, each of which may find both     *)
(* its send and ctx.Done() ready and then takes either.                    *)
(***************************************************************************)
EXTENDS MergeAccumulator, FiniteSets

CONSTANTS N,          \* number of backends, in the order of next
          Filterable  \* backends with a non-nil BackendFilterer

Backend == 1..N

ASSUME NAssumption == N \in Nat \ {0}
ASSUME FilterableAssumption == Filterable \subseteq Backend

VARIABLES ctx,        \* localCtx: "live", or the reason it is done
          pc,         \* the caller: "fork", "collect", "returned"
          at,         \* index of the fork loop
          proxyCount, \* answers to collect
          collected,  \* answers collected
          worker,     \* where each requestPart stands
          held,       \* the message each requestPart is about to send
          parts,      \* chan *Response
          failed,     \* chan error
          acc,        \* the accumulator
          outcome,    \* what the caller returned
          heard       \* history: the messages taken out of the channels

vars == <<ctx, pc, at, proxyCount, collected, worker, held, parts, failed,
          acc, outcome, heard>>

\* A channel element, tagged with the goroutine that sent it: parts carries
\* the res field, failed the err field.
Message == [from : Backend,
            res  : Response \cup {NilResponse},
            err  : ErrorKind \cup {NoError}]

Part(b, res)   == [from |-> b, res |-> res, err |-> NoError]
Failure(b, err) == [from |-> b, res |-> NilResponse, err |-> err]

\* make(chan ..., proxyCount), made before the filters lower proxyCount
ChanCap == N

WorkerState == {"idle", "calling", "sending", "failing", "done"}

FJ == INSTANCE ForkJoin WITH
        stage   <- IF pc = "collect" THEN "join" ELSE pc,
        asked   <- {b \in Backend : worker[b] # "idle"},
        answers <- heard

---------------------------------------------------------------------------
Init == /\ ctx = "live"
        /\ pc = "fork"
        /\ at = 1
        /\ proxyCount = N
        /\ collected = 0
        /\ worker = [b \in Backend |-> "idle"]
        /\ held = [b \in Backend |-> Part(b, NilResponse)]
        /\ parts = << >>
        /\ failed = << >>
        /\ acc = newIncrementalMergeAccumulator(N)
        /\ outcome = [resp |-> NilResponse, errs |-> << >>]
        /\ heard = {}

---------------------------------------------------------------------------
(* The caller's goroutine.                                                 *)

\* The filter, if there is one, lets the request through: go requestPart(...)
Fork == /\ pc = "fork"
        /\ at <= N
        /\ worker' = [worker EXCEPT ![at] = "calling"]
        /\ at' = at + 1
        /\ UNCHANGED <<ctx, pc, proxyCount, collected, held, parts, failed,
                       acc, outcome, heard>>

\* filters[i](request) is false
Skip == /\ pc = "fork"
        /\ at <= N
        /\ at \in Filterable
        /\ proxyCount' = proxyCount - 1
        /\ at' = at + 1
        /\ UNCHANGED <<ctx, pc, collected, worker, held, parts, failed, acc,
                       outcome, heard>>

StartCollecting == /\ pc = "fork"
                   /\ at > N
                   /\ pc' = "collect"
                   /\ acc' = newIncrementalMergeAccumulator(proxyCount)
                   /\ UNCHANGED <<ctx, at, proxyCount, collected, worker, held,
                                  parts, failed, outcome, heard>>

\* case err := <-failed
CollectFailure ==
  /\ pc = "collect"
  /\ collected < proxyCount
  /\ failed # << >>
  /\ acc' = Merge(acc, NilResponse, Head(failed).err)
  /\ heard' = heard \cup {Head(failed)}
  /\ failed' = Tail(failed)
  /\ collected' = collected + 1
  /\ UNCHANGED <<ctx, pc, at, proxyCount, worker, held, parts, outcome>>

\* case response := <-parts
CollectPart ==
  /\ pc = "collect"
  /\ collected < proxyCount
  /\ parts # << >>
  /\ acc' = Merge(acc, Head(parts).res, NoError)
  /\ heard' = heard \cup {Head(parts)}
  /\ parts' = Tail(parts)
  /\ collected' = collected + 1
  /\ UNCHANGED <<ctx, pc, at, proxyCount, worker, held, failed, outcome>>

\* Mutated form of Return: the collecting loop also ends with the context.
ReturnOnDone == /\ pc = "collect"
                /\ collected < proxyCount => ctx # "live"
                /\ outcome' = Result(acc)
                /\ ctx' = IF ctx = "live" THEN "canceled" ELSE ctx
                /\ pc' = "returned"
                /\ UNCHANGED <<at, proxyCount, collected, worker, held, parts,
                               failed, acc, heard>>

\* result, err := acc.Result(); cancel(); return result, err
Return == /\ pc = "collect"
          /\ ~(collected < proxyCount)
          /\ outcome' = Result(acc)
          /\ ctx' = IF ctx = "live" THEN "canceled" ELSE ctx
          /\ pc' = "returned"
          /\ UNCHANGED <<at, proxyCount, collected, worker, held, parts,
                         failed, acc, heard>>

---------------------------------------------------------------------------
(* requestPart, one goroutine per forked backend.                          *)

Hold(b, msg, next) ==
  /\ held' = [held EXCEPT ![b] = msg]
  /\ worker' = [worker EXCEPT ![b] = next]

\* next(localCtx, request) returns an error, (nil, nil), or a response.  The
\* proxy below is code of its own; a backend that reports its context's
\* end does so as the error it returns.
NextFails(b) == /\ worker[b] = "calling"
                /\ \/ Hold(b, Failure(b, "backend"), "failing")
                   \/ /\ ctx # "live"
                      /\ Hold(b, Failure(b, ctx), "failing")
                /\ UNCHANGED <<ctx, pc, at, proxyCount, collected, parts,
                               failed, acc, outcome, heard>>

NextReturnsNil(b) == /\ worker[b] = "calling"
                     /\ Hold(b, Failure(b, "null"), "failing")
                     /\ UNCHANGED <<ctx, pc, at, proxyCount, collected, parts,
                                    failed, acc, outcome, heard>>

NextResponds(b) == /\ worker[b] = "calling"
                   /\ \E res \in Response : Hold(b, Part(b, res), "sending")
                   /\ UNCHANGED <<ctx, pc, at, proxyCount, collected, parts,
                                  failed, acc, outcome, heard>>

\* case out <- in
SendPart(b) == /\ worker[b] = "sending"
               /\ Len(parts) < ChanCap
               /\ parts' = Append(parts, held[b])
               /\ worker' = [worker EXCEPT ![b] = "done"]
               /\ UNCHANGED <<ctx, pc, at, proxyCount, collected, held,
                              failed, acc, outcome, heard>>

\* Mutated form of GiveUp: the request is sent again.
GiveUpRetries(b) == /\ worker[b] = "sending" /\ ctx # "live"
                    /\ worker' = [worker EXCEPT ![b] = "calling"]
                    /\ UNCHANGED <<ctx, pc, at, proxyCount, collected, held, parts,
                                   failed, acc, outcome, heard>>

\* case <-ctx.Done(): the response is dropped for the context's error
GiveUp(b) == /\ worker[b] = "sending"
             /\ ctx # "live"
             /\ Hold(b, Failure(b, ctx), "failing")
             /\ UNCHANGED <<ctx, pc, at, proxyCount, collected, parts, failed,
                            acc, outcome, heard>>

\* failed <- err
SendFailure(b) == /\ worker[b] = "failing"
                  /\ Len(failed) < ChanCap
                  /\ failed' = Append(failed, held[b])
                  /\ worker' = [worker EXCEPT ![b] = "done"]
                  /\ UNCHANGED <<ctx, pc, at, proxyCount, collected, held,
                                 parts, acc, outcome, heard>>

NextReturns(b) == NextFails(b) \/ NextReturnsNil(b) \/ NextResponds(b)

Worker(b) == NextReturns(b) \/ SendPart(b) \/ GiveUp(b) \/ SendFailure(b)

---------------------------------------------------------------------------
(* The context: the merge timeout fires, or the client's request ends.     *)

CtxDone(cause) == /\ ctx = "live"
                  /\ ctx' = cause
                  /\ UNCHANGED <<pc, at, proxyCount, collected, worker, held,
                                 parts, failed, acc, outcome, heard>>

Terminated == /\ pc = "returned"
              /\ \A b \in Backend : worker[b] \in {"idle", "done"}
              /\ UNCHANGED vars

Caller == Fork \/ Skip \/ StartCollecting \/ CollectFailure \/ CollectPart \/ Return

Next == \/ Caller
        \/ \E b \in Backend : Worker(b)
        \/ \E cause \in {"deadline", "canceled"} : CtxDone(cause)
        \/ Terminated

(***************************************************************************)
(* The Go scheduler runs every goroutine that can run, and the timer of    *)
(* context.WithTimeout fires.  A backend may keep silent for as long as    *)
(* the context lives; once it is done the proxy below returns.             *)
(***************************************************************************)
Fairness == /\ WF_vars(Caller)
            /\ \A b \in Backend :
                 /\ WF_vars(SendPart(b) \/ GiveUp(b) \/ SendFailure(b))
                 /\ WF_vars(ctx # "live" /\ NextReturns(b))
            /\ WF_vars(CtxDone("deadline"))

Spec == Init /\ [][Next]_vars

FairSpec == Spec /\ Fairness

---------------------------------------------------------------------------
(* Properties.                                                             *)

TypeOK == /\ ctx \in {"live", "deadline", "canceled"}
          /\ pc \in {"fork", "collect", "returned"}
          /\ at \in 1..(N + 1)
          /\ proxyCount \in 0..N
          /\ collected \in 0..N
          /\ worker \in [Backend -> WorkerState]
          /\ held \in [Backend -> Message]
          /\ parts \in Seq(Message)
          /\ failed \in Seq(Message)
          /\ acc \in Accumulator
          /\ outcome \in Outcome
          /\ heard \in SUBSET Message

\* No requestPart ever waits for room in a channel: whenever one is about to
\* send there is a free slot (lines 285-286: both channels are as long as next).
SendNeverBlocks ==
  \A b \in Backend : /\ worker[b] = "sending" => Len(parts) < ChanCap
                     /\ worker[b] = "failing" => Len(failed) < ChanCap

\* When parallelMerge returns nothing it started is still running and nothing
\* is left in a channel: the count it collects is the count it forked.
NoStragglers ==
  pc = "returned" => /\ \A b \in Backend : worker[b] \in {"idle", "done"}
                     /\ parts = << >> /\ failed = << >>

\* (nil, nil), which the formatters and renderers behind the merge dereference
\* or report as an empty answer, comes out only when every backend was filtered.
NilNilOnlyWhenAllSkipped ==
  (pc = "returned" /\ outcome.resp = NilResponse /\ outcome.errs = << >>)
    => proxyCount = 0

\* The outcome is the fork-join merge of the answers, in whatever order the
\* channels delivered them.
ImplementsForkJoin == FJ!FJSpec

\* The request is answered, and every goroutine it started ends, even if all
\* the backends keep silent until the timeout.
Answered == <>(pc = "returned")
---------------------------------------------------------------------------
(* The inductive invariant behind the properties.                          *)

Asked == {b \in Backend : worker[b] # "idle"}
Done  == {b \in Backend : worker[b] = "done"}
HeardFrom == {m.from : m \in heard}

\* Every backend below the fork index was forked or taken off proxyCount.
ForkInv == /\ pc = "fork" => heard = {} /\ collected = 0
           /\ pc # "fork" => at = N + 1
           /\ pc = "returned" => collected = proxyCount
           /\ collected <= proxyCount
           /\ \A b \in Backend : b >= at => worker[b] = "idle"
           /\ proxyCount = Cardinality(Asked) + (N + 1 - at)

IsPart(m)    == m.err = NoError /\ m.res \in Response
IsFailure(m) == m.err \in ErrorKind

\* What is held, queued or heard is well formed and comes from its sender.
MessageInv ==
  /\ \A b \in Backend : /\ held[b].from = b
                        /\ worker[b] = "sending" => IsPart(held[b])
                        /\ worker[b] = "failing" => IsFailure(held[b])
  /\ \A j \in 1..Len(parts) : IsPart(parts[j]) /\ parts[j].from \in Done
  /\ \A j \in 1..Len(failed) : IsFailure(failed[j]) /\ failed[j].from \in Done
  /\ \A m \in heard : (IsPart(m) \/ IsFailure(m)) /\ m.from \in Done

\* A goroutine's message is in one place only: it is sent once, heard once.
OnceInv ==
  /\ \A i, j \in 1..Len(parts) : parts[i].from = parts[j].from => i = j
  /\ \A i, j \in 1..Len(failed) : failed[i].from = failed[j].from => i = j
  /\ \A i \in 1..Len(parts), j \in 1..Len(failed) : parts[i].from # failed[j].from
  /\ \A i \in 1..Len(parts) : parts[i].from \notin HeardFrom
  /\ \A i \in 1..Len(failed) : failed[i].from \notin HeardFrom
  /\ \A m, n \in heard : m.from = n.from => m = n

\* Conservation: what was sent is queued or was collected.
CountInv == /\ collected = Cardinality(HeardFrom)
            /\ Len(parts) + Len(failed) + collected = Cardinality(Done)

\* Accumulator c holds the merge of the answers A.  While an error is pending
\* in errs the flag of data may still be TRUE: Result() lowers it.
Accumulates(A, c) ==
  /\ c.data = NilResponse <=> FJ!Good(A) = {}
  /\ c.errs = << >> <=> FJ!Bad(A) = {}
  /\ c.data # NilResponse =>
       /\ FJ!Bad(A) = {} => (c.data.IsComplete <=> FJ!AllComplete(A))
       /\ c.data.Data = NilData <=>
            \E a \in FJ!Good(A) : FJ!Good(A) = {a} /\ a.res.Data = NilData
       /\ KeysOf(c.data) = UNION {KeysOf(a.res) : a \in FJ!Good(A)}
       /\ \A k \in KeysOf(c.data) :
            \E a \in FJ!Good(A) : k \in KeysOf(a.res) /\ a.res.Data[k] = c.data.Data[k]

AccInv == /\ pc # "fork" => /\ Accumulates(heard, acc)
                            /\ acc.pending = proxyCount - collected
          /\ pc = "returned" => FJ!MergeOf(heard, outcome)

IInv == TypeOK /\ ForkInv /\ MessageInv /\ OnceInv /\ CountInv /\ AccInv
===========================================================================

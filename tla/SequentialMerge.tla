-------------------------- MODULE SequentialMerge --------------------------
(***************************************************************************)
(* sequentialMerge of proxy/merging.go: the backends of an endpoint are    *)
(* called one after the other, each call may use values of the responses   *)
(* before it ({{.Resp0_name}} in its URL), and the chain stops at the      *)
(* first error or incomplete response.                                     *)
(*                                                                         *)
(* combineData writes the later responses into the map of the first one,   *)
(* and parts[i] still points to that response.  owner names the backend    *)
(* whose map the accumulator is writing into, 0 if that map is nobody's.   *)
(*                                                                         *)
(* A dotted source path (Resp0_a.b) is one key here; SequentialSources has *)
(* the paths.                                                              *)
(***************************************************************************)
EXTENDS MergeAccumulator, SequencesExt

CONSTANTS N,          \* number of backends, in the order of next
          Filterable, \* backends with a non-nil BackendFilterer
          Endpoints,  \* configurations: references in URLs, propagated params
          FullBody,   \* source of a replacement by the whole response body
          Body,       \* what the body streams (Io) hold
          Empty,      \* the parameter value ""
          Unset       \* no such parameter, no body stream

Backend == 1..N

\* sequentialBackendReplacement; the destination name is made of index and
\* source, so the pair stands for it.
Replacement == [backendIndex : Nat \ {0}, source : Key \cup {FullBody}]

\* A URL can only name a key of a response, {{.Resp0_name}}; an entry of
\* sequential_propagated_params also the whole of it, resp0.
Endpoint == [urls : [Backend -> Seq([backendIndex : Nat \ {0}, source : Key])],
             propagated : Seq(Replacement)]

ASSUME SequentialAssumption ==
  /\ N \in Nat \ {0}
  /\ Filterable \subseteq Backend
  /\ Endpoints \subseteq Endpoint
  /\ Body \subseteq Value /\ Empty \in Value /\ Unset \notin Value /\ FullBody \notin Key

VARIABLES ctx,      \* localCtx: "live", or the reason it is done
          repl,     \* sequentialReplacements of this endpoint
          pc,       \* "replace", "calling", "sending", "failing", "receive",
                    \* "result", "returned"
          i,        \* index of the loop over next
          r,        \* index of the loop over the replacements of i
          parts,    \* responses later backends may refer to
          io,       \* Io of each response: what is left to read in it
          registry, \* sequentialMergeRegistry
          params,   \* the replacement entries of request.Params
          held,     \* what sequentialRequestPart is about to send
          out,      \* chan *Response
          errCh,    \* chan error
          acc,      \* the accumulator
          owner,    \* whose map acc.data.Data is
          outcome,  \* what the caller gets; plain for the first backend's error
          asked,    \* history: backends that were called
          got       \* history: the responses as they were received

requestVars == <<repl, io, registry, params>>
vars == <<ctx, requestVars, pc, i, r, parts, held, out, errCh, acc, owner,
          outcome, asked, got>>

\* The replacement of one more propagated parameter, of a backend that exists.
Propagate(replacements, p) ==
  IF p.backendIndex <= N THEN Append(replacements, p) ELSE replacements

\* The replacements of each backend: those of its own URL, then the propagated
\* ones, which the first backend does not get.
sequentialMergerConfig(e) ==
  [b \in Backend |-> IF b = 1 THEN e.urls[b]
                    ELSE FoldLeft(Propagate, e.urls[b], e.propagated)]

Configs == {sequentialMergerConfig(e) : e \in Endpoints}

Destination == UNION {UNION {{c[b][j] : j \in DOMAIN c[b]} : b \in Backend} : c \in Configs}

\* Capacity of out and errCh
ChanCap == 1

\* Mutated form of LiveData: always read from the merged data.
LiveDataOfAll(b) == IF acc.data = NilResponse THEN parts[b].Data ELSE acc.data.Data

\* The map behind parts[b]: the accumulator's own if it took b's over.
LiveData(b) == IF b = owner THEN acc.data.Data ELSE parts[b].Data

---------------------------------------------------------------------------
Init == /\ ctx = "live"
        /\ repl \in Configs
        /\ pc = "replace" /\ i = 1 /\ r = 1
        /\ parts = [b \in Backend |-> NilResponse]
        /\ io = [b \in Backend |-> Unset]
        /\ registry = [d \in Destination |-> Empty]
        /\ params = [d \in Destination |-> Unset]
        /\ held = [res |-> NilResponse, err |-> NoError]
        /\ out = << >> /\ errCh = << >>
        /\ acc = newIncrementalMergeAccumulator(N)
        /\ owner = 0
        /\ outcome = [resp |-> NilResponse, errs |-> << >>, plain |-> FALSE]
        /\ asked = {}
        /\ got = [b \in Backend |-> NilResponse]

---------------------------------------------------------------------------
(* The loop over the replacements of backend i.                            *)

Replacing == pc = "replace" /\ i <= N /\ i > 1 /\ r \in DOMAIN repl[i]

\* The first backend has nobody to refer to, its replacements are not looked at.
ReplacementsDone == pc = "replace" /\ i <= N /\ (i = 1 \/ r \notin DOMAIN repl[i])

\* Mutated form of Available: the previous backend is taken for the current one.
AvailableLate(d) == d.backendIndex \in 1..(i - 2) /\ parts[d.backendIndex] # NilResponse

\* not (r.backendIndex >= i || parts[r.backendIndex] == nil)
Available(d) == d.backendIndex \in 1..(i - 1) /\ parts[d.backendIndex] # NilResponse

Provide(d, v) == /\ params' = [params EXCEPT ![d] = v]
                 /\ registry' = [registry EXCEPT ![d] = v]

\* The lookup in the data of the named backend.
ReplaceFromData(d) ==
  LET data == LiveData(d.backendIndex) IN
  IF data # NilData /\ d.source \in DOMAIN data
    THEN Provide(d, data[d.source]) /\ UNCHANGED io
    ELSE UNCHANGED <<io, registry, params>>

\* io.ReadAll on the response's Io; nothing without one, or on a read error
ReplaceFromBody(d) ==
  \/ /\ io[d.backendIndex] # Unset
     /\ Provide(d, io[d.backendIndex])
     /\ io' = [io EXCEPT ![d.backendIndex] = Empty]
  \/ UNCHANGED <<io, registry, params>>

\* Mutated form of Known: the registry is never asked.
NeverKnown(d) == FALSE

\* sequentialMergeRegistry[r.destination] != ""
Known(d) == registry[d] # Empty

\* One iteration of the loop for replacement d.
Replace(d) ==
  \/ /\ ~Available(d)
     /\ UNCHANGED <<io, registry, params>>
  \/ /\ Available(d) /\ Known(d)
     /\ params' = [params EXCEPT ![d] = registry[d]]
     /\ UNCHANGED <<io, registry>>
  \/ Available(d) /\ ~Known(d) /\ d.source = FullBody /\ ReplaceFromBody(d)
  \/ Available(d) /\ ~Known(d) /\ d.source # FullBody /\ ReplaceFromData(d)

Substitute == /\ Replacing
              /\ Replace(repl[i][r])
              /\ r' = r + 1
              /\ UNCHANGED <<ctx, repl, pc, i, parts, held, out, errCh, acc,
                             owner, outcome, asked, got>>

---------------------------------------------------------------------------
(* The call of backend i.                                                  *)

NextBackend == i' = i + 1 /\ r' = 1 /\ pc' = "replace"

\* Mutated form of Skip: the accumulator goes on waiting for the backend.
SkipStillPending ==
  /\ ReplacementsDone
  /\ i \in Filterable
  /\ parts' = [parts EXCEPT ![i] = [Data |-> [k \in {} |-> NilData],
                                    IsComplete |-> TRUE]]
  /\ NextBackend
  /\ UNCHANGED <<ctx, requestVars, held, out, errCh, acc, owner, outcome, asked,
                 got>>

\* filters[i](request) is false: later backends find an empty, complete part.
Skip == /\ ReplacementsDone
        /\ i \in Filterable
        /\ parts' = [parts EXCEPT ![i] = [Data |-> [k \in {} |-> NilData],
                                          IsComplete |-> TRUE]]
        /\ acc' = [acc EXCEPT !.pending = @ - 1]
        /\ NextBackend
        /\ UNCHANGED <<ctx, requestVars, held, out, errCh, owner, outcome,
                       asked, got>>

\* sequentialRequestPart runs in the same goroutine.
Call == /\ ReplacementsDone
        /\ pc' = "calling"
        /\ asked' = asked \cup {i}
        /\ UNCHANGED <<ctx, requestVars, i, r, parts, held, out, errCh, acc,
                       owner, outcome, got>>

Fail(err) == /\ pc' = "failing"
             /\ held' = [res |-> NilResponse, err |-> err]
             /\ UNCHANGED <<ctx, requestVars, i, r, parts, out, errCh, acc,
                            owner, outcome, asked, got>>

NextFails == /\ pc = "calling"
             /\ Fail("backend") \/ Fail("null") \/ (ctx # "live" /\ Fail(ctx))

\* The response of a no-op backend also has a body stream, Io.
NextResponds == /\ pc = "calling"
                /\ pc' = "sending"
                /\ \E res \in Response : held' = [res |-> res, err |-> NoError]
                /\ \E body \in Body \cup {Unset} : io' = [io EXCEPT ![i] = body]
                /\ UNCHANGED <<ctx, repl, registry, params, i, r, parts, out,
                               errCh, acc, owner, outcome, asked, got>>

\* case out <- in
SendPart == /\ pc = "sending" /\ Len(out) < ChanCap
            /\ out' = Append(out, held.res)
            /\ pc' = "receive"
            /\ UNCHANGED <<ctx, requestVars, i, r, parts, held, errCh, acc,
                           owner, outcome, asked, got>>

\* case <-ctx.Done()
GiveUp == pc = "sending" /\ ctx # "live" /\ Fail(ctx)

\* failed <- err
SendFailure == /\ pc = "failing" /\ Len(errCh) < ChanCap
               /\ errCh' = Append(errCh, held.err)
               /\ pc' = "receive"
               /\ UNCHANGED <<ctx, requestVars, i, r, parts, held, out, acc,
                              owner, outcome, asked, got>>

---------------------------------------------------------------------------
(* The answer of backend i.                                                *)

\* The first backend's error is returned as it is.
ReceiveFirstFailure ==
  /\ pc = "receive" /\ errCh # << >> /\ i = 1
  /\ outcome' = [resp |-> NilResponse, errs |-> <<Head(errCh)>>, plain |-> TRUE]
  /\ errCh' = Tail(errCh)
  /\ ctx' = IF ctx = "live" THEN "canceled" ELSE ctx
  /\ pc' = "returned"
  /\ UNCHANGED <<requestVars, i, r, parts, held, out, acc, owner, asked, got>>

ReceiveFailure ==
  /\ pc = "receive" /\ errCh # << >> /\ i > 1
  /\ acc' = Merge(acc, NilResponse, Head(errCh))
  /\ errCh' = Tail(errCh)
  /\ pc' = "result"
  /\ UNCHANGED <<ctx, requestVars, i, r, parts, held, out, owner, outcome,
                 asked, got>>

\* Whose map acc.data.Data is once res, the response of i, is merged.
OwnerAfter(res) ==
  IF acc.data = NilResponse \/ (acc.data.Data = NilData /\ res.Data # NilData)
    THEN IF res.Data = NilData THEN 0 ELSE i
    ELSE owner

ReceivePart ==
  /\ pc = "receive" /\ out # << >>
  /\ LET res == Head(out) IN
       /\ acc' = Merge(acc, res, NoError)
       /\ owner' = OwnerAfter(res)
       /\ got' = [got EXCEPT ![i] = res]
       /\ IF res.IsComplete
            THEN parts' = [parts EXCEPT ![i] = res] /\ NextBackend
            ELSE pc' = "result" /\ UNCHANGED <<parts, i, r>>
  /\ out' = Tail(out)
  /\ UNCHANGED <<ctx, requestVars, held, errCh, outcome, asked>>

\* The loop ran through.
LoopEnds == /\ pc = "replace" /\ i > N
            /\ pc' = "result"
            /\ UNCHANGED <<ctx, requestVars, i, r, parts, held, out, errCh, acc,
                           owner, outcome, asked, got>>

\* result, err := acc.Result(); cancel()
Return == /\ pc = "result"
          /\ outcome' = [resp |-> Result(acc).resp, errs |-> Result(acc).errs,
                         plain |-> FALSE]
          /\ ctx' = IF ctx = "live" THEN "canceled" ELSE ctx
          /\ pc' = "returned"
          /\ UNCHANGED <<requestVars, i, r, parts, held, out, errCh, acc, owner,
                         asked, got>>

CtxDone(cause) == /\ ctx = "live"
                  /\ ctx' = cause
                  /\ UNCHANGED <<requestVars, pc, i, r, parts, held, out, errCh,
                                 acc, owner, outcome, asked, got>>

Terminated == pc = "returned" /\ UNCHANGED vars

Caller == \/ Substitute \/ Skip \/ Call \/ SendPart \/ GiveUp \/ SendFailure
          \/ ReceiveFirstFailure \/ ReceiveFailure \/ ReceivePart
          \/ LoopEnds \/ Return

Next == \/ Caller
        \/ NextFails \/ NextResponds
        \/ \E cause \in {"deadline", "canceled"} : CtxDone(cause)
        \/ Terminated

Spec == Init /\ [][Next]_vars

---------------------------------------------------------------------------
(* Properties.                                                             *)

TypeOK == /\ ctx \in {"live", "deadline", "canceled"}
          /\ repl \in Configs
          /\ pc \in {"replace", "calling", "sending", "failing", "receive",
                     "result", "returned"}
          /\ i \in 1..(N + 1)
          /\ r \in Nat
          /\ parts \in [Backend -> Response \cup {NilResponse}]
          /\ io \in [Backend -> Value \cup {Unset}]
          /\ registry \in [Destination -> Value]
          /\ params \in [Destination -> Value \cup {Unset}]
          /\ held \in [res : Response \cup {NilResponse},
                       err : ErrorKind \cup {NoError}]
          /\ out \in Seq(Response)
          /\ errCh \in Seq(ErrorKind)
          /\ acc \in Accumulator
          /\ owner \in 0..N
          /\ outcome \in [resp : Response \cup {NilResponse},
                          errs : Seq(ErrorKind), plain : BOOLEAN]
          /\ asked \in SUBSET Backend
          /\ got \in [Backend -> Response \cup {NilResponse}]

Received == {b \in Backend : got[b] # NilResponse}

\* The merged response is complete exactly when every backend was filtered
\* out or answered with a complete response (and, if several answered, each
\* had a body): no stop of the chain goes unnoticed and filters cost nothing.
CompleteIffAllAnswered ==
  (pc = "returned" /\ outcome.resp # NilResponse)
    => (outcome.resp.IsComplete
          <=> \A b \in Backend :
                \/ b \notin asked /\ parts[b] # NilResponse
                \/ /\ b \in Received /\ got[b].IsComplete
                   /\ got[b].Data # NilData \/ Received = {b})

\* Several backends may return one key; in a sequential merge the last one
\* in the order of the configuration wins, and no key gets lost.
LastBackendWins ==
  (pc = "returned" /\ outcome.resp # NilResponse) =>
    /\ KeysOf(outcome.resp) = UNION {KeysOf(got[b]) : b \in Received}
    /\ \A k \in KeysOf(outcome.resp) : \E b \in Received :
         /\ k \in KeysOf(got[b])
         /\ outcome.resp.Data[k] = got[b].Data[k]
         /\ \A c \in Received : c > b => k \notin KeysOf(got[c])

\* A replacement's value does not change between two backends of a request:
\* the registry hides that the map it is read from is being written to.
ParamsStable ==
  [][\A d \in Destination :
       params[d] \notin {Unset, Empty} => params'[d] = params[d]]_vars

\* A replacement carries a value that the named backend returned under its key,
\* or one that a later backend of the chain did: never one from before it.
ParamsHaveASource ==
  \A d \in Destination :
    (params[d] # Unset /\ d.source # FullBody) =>
      /\ d.backendIndex \in Received
      /\ \E b \in Received : /\ b >= d.backendIndex
                             /\ d.source \in KeysOf(got[b])
                             /\ got[b].Data[d.source] = params[d]

\* When a backend is called, every key it refers to that the named backend
\* did return is in the parameters.
ParamsDelivered ==
  [][\A b \in asked' \ asked : \A j \in DOMAIN repl[b] :
       LET d == repl[b][j] IN
         (/\ b > 1 /\ d.backendIndex < b /\ d.source # FullBody
          /\ d.backendIndex \in Received
          /\ d.source \in KeysOf(got[d.backendIndex]))
            => params[d] # Unset]_vars

\* Resp<n>_<key> is what backend n returned under that key, as the tests of the
\* sequential merge expect (merging_test.go:193 and following).
ParamIsFromNamedBackend ==
  \A d \in Destination :
    (params[d] # Unset /\ d.source # FullBody) =>
      /\ d.source \in KeysOf(got[d.backendIndex])
      /\ params[d] = got[d.backendIndex].Data[d.source]

===========================================================================

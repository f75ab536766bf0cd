---------------------------- MODULE EndpointPipe ----------------------------
(***************************************************************************)
(* What an endpoint's stack (proxy/factory.go: New, newMulti, newSingle)   *)
(* makes of its backends' answers: the merge, the flatmap formatter, the   *)
(* modifier plugins, the static data, and the handler that replies.        *)
(*                                                                         *)
(* Data is the set of its origins.  The backends are called in parallel;   *)
(* a call whose turn it was not (a backend filter) is "skipped".  A        *)
(* plugin is what it is registered for and what its modifier does; plugins *)
(* do not complete a response.                                             *)
(***************************************************************************)
EXTENDS Integers, Sequences, FiniteSets, SequencesExt

CONSTANTS Nil, NilMap, \* a nil response or error; a nil map
          MaxSteps      \* bound on the answers and settings of an endpoint

Nothing == [resp |-> Nil, err |-> Nil]
Panic == [resp |-> Nil, err |-> "panic"]

Merging == INSTANCE MergeAccumulator WITH
             Key <- {"backend"}, Value <- {1}, NilData <- NilMap, NilResponse <- Nil, NoError <- Nil

ASSUME NilsAssumption ==
  /\ NilMap \notin Merging!Map
  /\ Nil \notin Merging!Response \cup [data : SUBSET {"backend", "plugin", "static"}, complete : BOOLEAN]
  /\ Nil \notin {"backend", "null", "deadline", "canceled", "merge", "plugin", "panic"}

----------------------------------------------------------------------------
(* The stacks of the backends. *)

Body == [Data |-> [k \in {"backend"} |-> 1], IsComplete |-> TRUE]

\* What requestPart makes of an answer, for the merge.
requestPart(a) == CASE a = "complete" -> [resp |-> Body, err |-> Nil]
             [] a = "partial"  -> [resp |-> [Body EXCEPT !.IsComplete = FALSE], err |-> Nil]
             [] a = "null"     -> [resp |-> [Body EXCEPT !.Data = NilMap], err |-> Nil]
             [] a = "failed"   -> [resp |-> Nil, err |-> "backend"]

\* One more backend, if it is asked.
Hear(acc, a) == IF a = "skipped" THEN acc ELSE Merging!Merge(acc, requestPart(a).resp, requestPart(a).err)

parallelMerge(answers) ==
  LET asked == {i \in DOMAIN answers : answers[i] # "skipped"}
      acc == Merging!newIncrementalMergeAccumulator(Cardinality(asked))
      r == Merging!Result(FoldLeft(Hear, acc, answers))
  IN [resp |-> r.resp, err |-> IF r.errs = << >> THEN Nil ELSE "merge"]

\* A concurrent middleware whose parent's context ended may have nothing, or
\* the partial response of one call with the error of another.
Single(a) == CASE a = "skipped" -> Nothing
               [] a = "both" -> [requestPart("partial") EXCEPT !.err = "backend"]
               [] OTHER -> requestPart(a)

\* The data of a response, by origin.
ByOrigin(out) ==
  IF out.resp = Nil THEN out
  ELSE [out EXCEPT !.resp = [data |-> Merging!KeysOf(out.resp), complete |-> out.resp.IsComplete]]

----------------------------------------------------------------------------
(* The middlewares of the endpoint. *)

\* newMulti only; *resp is read if there is no error.
Flatmap(operations, out) ==
  IF operations /\ out.err = Nil /\ out.resp = Nil THEN Panic ELSE out

\* A plugin registered for both sides modifies requests.
ModifiesRequests(p) == "request" \in p.registered /\ p.does # "nothing"
ModifiesResponses(p) == p.registered = {"response"} /\ p.does # "nothing"

\* A modifier that returns something else than a wrapper is ignored.
Modify(out, p) ==
  IF out.err # Nil \/ ~ModifiesResponses(p) THEN out
  ELSE CASE p.does = "fails" -> [resp |-> Nil, err |-> "plugin"]
         [] p.does = "foreign" -> out
         [] p.does = "adds" -> [out EXCEPT !.resp.data = @ \cup {"plugin"}]

executeResponseModifiers(plugins, out) ==
  IF out.resp = Nil THEN Panic ELSE FoldLeft(Modify, out, plugins)

\* newPluginMiddleware: a request modifier that fails keeps the request from
\* the backends; responses are modified if there is no error.
Plugins(plugins, out) ==
  IF \E p \in Range(plugins) : ModifiesRequests(p) /\ p.does = "fails"
    THEN [resp |-> Nil, err |-> "plugin"]
  ELSE IF out.err # Nil \/ ~ \E p \in Range(plugins) : ModifiesResponses(p) THEN out
  ELSE executeResponseModifiers(plugins, out)

Match(strategy, out) ==
  CASE strategy = "none" -> FALSE
    [] strategy = "always" -> TRUE
    [] strategy = "success" -> out.err = Nil
    [] strategy = "errored" -> out.err # Nil
    [] strategy = "complete" -> out.err = Nil /\ out.resp # Nil /\ out.resp.complete
    [] strategy = "incomplete" -> out.resp = Nil \/ ~out.resp.complete

\* NewStaticMiddleware
Static(strategy, out) ==
  IF out = Panic \/ ~Match(strategy, out) THEN out
  ELSE IF out.resp = Nil
         THEN [out EXCEPT !.resp = [data |-> {"static"}, complete |-> FALSE]]
         ELSE [out EXCEPT !.resp.data = @ \cup {"static"}]

\* Mutated form of New: the static data is added below the plugins.
NewSwapped(e, answers) ==
  LET inner == IF Len(answers) = 1 THEN ByOrigin(Single(answers[1]))
               ELSE Flatmap(e.flatmap, ByOrigin(parallelMerge(answers)))
  IN Plugins(e.plugins, Static(e.static, inner))

\* defaultFactory.New
New(e, answers) ==
  LET inner == IF Len(answers) = 1 THEN ByOrigin(Single(answers[1]))
               ELSE Flatmap(e.flatmap, ByOrigin(parallelMerge(answers)))
  IN Static(e.static, Plugins(e.plugins, inner))

\* The handlers of mux and gin: error or render, and X-Krakend-Completed.
Reply(router, out) ==
  LET hasData == out.resp # Nil /\ out.resp.data # {}
  IN IF out.err # Nil /\ IF router = "mux" THEN ~hasData ELSE out.resp = Nil
       THEN [status |-> "error", completed |-> FALSE, data |-> {}]
       ELSE [status |-> "ok", completed |-> hasData /\ out.resp.complete,
             data |-> IF hasData THEN out.resp.data ELSE {}]

----------------------------------------------------------------------------
(* Endpoints and the answers of their backends, built step by step. *)

VARIABLES pipe, answered

pipeVars == <<pipe, answered>>

Plugin == [registered : {{"request"}, {"response"}, {"request", "response"}},
           does : {"nothing", "fails", "foreign", "adds"}]

NoPipe == pipe = [flatmap |-> FALSE, plugins |-> << >>, static |-> "none"] /\ answered = << >>

Steps == Len(answered) + Len(pipe.plugins) + (IF pipe.flatmap THEN 1 ELSE 0)
           + (IF pipe.static = "none" THEN 0 ELSE 1)

AnyPipe ==
  /\ Steps < MaxSteps
  /\ \/ /\ \E a \in {"complete", "partial", "null", "failed", "skipped", "both"} :
             answered' = Append(answered, a)
        /\ UNCHANGED pipe
     \/ /\ \/ \E p \in Plugin : pipe' = [pipe EXCEPT !.plugins = Append(@, p)]
           \/ pipe' = [pipe EXCEPT !.flatmap = TRUE]
           \/ \E s \in {"always", "success", "errored", "complete", "incomplete"} :
                pipe.static = "none" /\ pipe' = [pipe EXCEPT !.static = s]
        /\ UNCHANGED answered

PipeSpec == NoPipe /\ [][AnyPipe]_pipeVars

\* Two answers of one call are the concurrent middleware's only.
Possible == answered # << >> /\ (Len(answered) > 1 => "both" \notin Range(answered))

\* Neither *resp in the flatmap middleware (formatter.go:340-345) nor the
\* fields that executeResponseModifiers reads (plugin.go:158-170) meet a nil
\* response, however backends and plugins fail, unless no backend was asked
\* or the only one returned nothing at all.
\* X-Krakend-Completed is true only if no backend that was asked failed or
\* answered partially, whatever plugins and static data add; and where static
\* data is promised for failures ("always", "errored", "incomplete"), every
\* failure of a backend or a plugin that leaves an error is answered with it,
\* at 200, by both routers (factory.go:73-74, static.go:38-55, plugin.go:88-126,
\* mux/endpoint.go:67-91, gin/endpoint.go:63-110).
HonestReply ==
  LET out == New(pipe, answered) IN
  Possible =>
    /\ out = Panic => Range(answered) = {"skipped"}
    /\ out # Panic => \A router \in {"mux", "gin"} :
         LET reply == Reply(router, out) IN
         /\ reply.completed => Range(answered) \subseteq {"complete", "null", "skipped"}
         /\ out.err # Nil => ~reply.completed
         /\ out.err # Nil /\ pipe.static \in {"always", "errored", "incomplete"} =>
              reply.status = "ok" /\ "static" \in reply.data
=============================================================================

----------------------------- MODULE ForkJoin -----------------------------
(***************************************************************************)
(* What merging several backends promises, whatever the order in which     *)
(* they answer: every backend that was asked is heard exactly once, and    *)
(* the outcome is a function of the set of answers up to the choice of a   *)
(* winner for the keys that several backends return.                       *)
(***************************************************************************)
EXTENDS MergeAccumulator

CONSTANT Backend

VARIABLES stage,    \* "fork", "join", "returned"
          asked,    \* backends the request was sent to
          answers,  \* the answers heard so far
          outcome   \* what the caller gets

fjVars == <<stage, asked, answers, outcome>>

\* A backend's answer as the merger sees it: a response or an error.
Answer == [from : Backend,
           res  : Response \cup {NilResponse},
           err  : ErrorKind \cup {NoError}]

Good(A) == {a \in A : a.err = NoError}
Bad(A)  == {a \in A : a.err # NoError}

NoOutcome == [resp |-> NilResponse, errs |-> << >>]

\* A complete merge needs every answer to be a complete response; one without
\* a body is tolerated only when there is nothing else to merge it with.
AllComplete(A) ==
  /\ Bad(A) = {}
  /\ \A a \in Good(A) : a.res.IsComplete /\ (a.res.Data # NilData \/ Good(A) = {a})

MergeOf(A, o) ==
  /\ o.resp = NilResponse <=> Good(A) = {}
  /\ o.errs = << >> <=> Bad(A) = {}
  /\ o.resp # NilResponse =>
       /\ o.resp.IsComplete <=> AllComplete(A)
       /\ KeysOf(o.resp) = UNION {KeysOf(a.res) : a \in Good(A)}
       /\ \A k \in KeysOf(o.resp) :
            \E a \in Good(A) : k \in KeysOf(a.res) /\ a.res.Data[k] = o.resp.Data[k]

---------------------------------------------------------------------------
FJInit == /\ stage = "fork" /\ asked = {} /\ answers = {}
          /\ outcome = NoOutcome

Ask(b) == /\ stage = "fork" /\ b \notin asked
          /\ asked' = asked \cup {b}
          /\ UNCHANGED <<stage, answers, outcome>>

AllAsked == /\ stage = "fork" /\ stage' = "join"
            /\ UNCHANGED <<asked, answers, outcome>>

Hear(a) == /\ stage = "join"
           /\ a.from \in asked
           /\ \A x \in answers : x.from # a.from
           /\ answers' = answers \cup {a}
           /\ UNCHANGED <<stage, asked, outcome>>

Deliver == /\ stage = "join"
           /\ \A b \in asked : \E a \in answers : a.from = b
           /\ stage' = "returned"
           /\ outcome' \in Outcome
           /\ MergeOf(answers, outcome')
           /\ UNCHANGED <<asked, answers>>

FJNext == \/ \E b \in Backend : Ask(b)
          \/ AllAsked
          \/ \E a \in Answer : Hear(a)
          \/ Deliver

FJSpec == FJInit /\ [][FJNext]_fjVars
===========================================================================

---------------------------- MODULE ShadowProxy ----------------------------
(***************************************************************************)
(* An endpoint some of whose backends are shadows (proxy/shadow.go): the   *)
(* factory splits the backends into two stacks, and each request goes to   *)
(* both.  The handler waits for the regular one only; the shadow runs in a *)
(* goroutine, with a context that inherits values but not the end of the   *)
(* handler's.  Like any stack, that of several shadows merges them, under  *)
(* a timeout of its own, and so does a backend that is called more than    *)
(* once: the contexts of a request are a tree.                             *)
(*                                                                         *)
(* Which call the mergers make when, and what they make of the answers, is *)
(* the subject of ParallelMerge and SequentialMerge: here the calls of     *)
(* several shadows are made, or skipped, in any order, which covers both.  *)
(* What the requests share is RequestSharing's subject.                    *)
(*                                                                         *)
(* Time passes for a shadow in steps, up to the end of its context.        *)
(* ServerLifecycle lets requests in.                                       *)
(***************************************************************************)
EXTENDS Integers, Sequences, FiniteSetsExt, SequencesExt

CONSTANTS Request,
          Timeout,        \* of the endpoint, which its backends inherit
          ShadowTimeouts, \* values of shadow_timeout
          Unset,          \* there is none, or one that is no duration
          MaxDuration,    \* that a time.Duration can hold
          MaxBackends

ASSUME DurationAssumption ==
  /\ MaxDuration \in Nat /\ Timeout \in 0..MaxDuration
  /\ \A d \in ShadowTimeouts : d \in Int /\ d <= MaxDuration

VARIABLES backends, \* of the endpoint's configuration
          at,       \* where the handler of each request is
          shadow,   \* the goroutine of its shadow
          calls,    \* those of the shadow backends
          done,     \* the contexts of the request that have ended
          since,    \* when they were made
          lived     \* time since the shadow's was

requestVars == <<at, shadow, calls, done, since, lived>>
shadowVars == <<backends, requestVars>>

\* ConcurrentCalls > 1 counts for a shadow only: regular backends have no time.
Regular == [shadow |-> FALSE, shadowTimeout |-> Unset, concurrent |-> FALSE]
Backend == {Regular} \cup [shadow : {TRUE}, shadowTimeout : {Unset} \cup ShadowTimeouts,
                           concurrent : BOOLEAN]

\* The second result of isShadowBackend, and the first.
isShadowBackend(b) == b.shadow
Duration(b) == IF b.shadowTimeout = Unset THEN Timeout ELSE b.shadowTimeout

regular == {i \in DOMAIN backends : ~isShadowBackend(backends[i])}
shadows == {i \in DOMAIN backends : isShadowBackend(backends[i])}
Several == \E i, j \in shadows : i # j

maxTimeout == Max({0} \cup {Duration(backends[i]) : i \in shadows})

---------------------------------------------------------------------------
(* The contexts of a request: its handler's, the shadow's, that of the merge *)
(* of several shadows, and those of the calls, named as the backends are.  *)

RequestCtx == -2
ShadowCtx == -1
MergeCtx == 0
Background == -3
Context == {RequestCtx, ShadowCtx, MergeCtx} \cup DOMAIN backends

\* Mutated form of Parent: the shadow's derives from the handler's.
ParentHandler(c) ==
  IF c = ShadowCtx THEN RequestCtx
  ELSE IF c = RequestCtx THEN Background
  ELSE IF c = MergeCtx \/ ~Several THEN ShadowCtx ELSE MergeCtx

\* newContextWrapperWithTimeout derives the shadow's from Background().
Parent(c) == IF c \in {RequestCtx, ShadowCtx} THEN Background
             ELSE IF c = MergeCtx \/ ~Several THEN ShadowCtx ELSE MergeCtx

\* context.WithTimeout; a call that is made once has the context of its parent,
\* or one that only its own return cancels.
HasTimer(c) == c \in {ShadowCtx, MergeCtx} \/ (c \in shadows /\ backends[c].concurrent)

TimeoutOf(c) == CASE c = ShadowCtx -> maxTimeout
                  [] c = MergeCtx  -> (85 * Timeout) \div 100
                  [] OTHER         -> (75 * Timeout) \div 100

\* There, and not yet cancelled by who made it.
InUse(r, c) == \/ c = ShadowCtx /\ shadow[r] \in {"starting", "running"}
               \/ c = MergeCtx /\ Several /\ shadow[r] = "running"
               \/ c \in shadows /\ calls[r][c] = "open"

\* Mutated form of Expired: without timeouts.
ExpiredNever(r, c) == FALSE

Expired(r, c) == HasTimer(c) /\ lived[r] - since[r][c] >= TimeoutOf(c)

\* A timer fires, or the end of the parent is noticed.
CtxEnds(r, c) == /\ InUse(r, c) /\ c \notin done[r]
                 /\ Expired(r, c) \/ Parent(c) \in done[r]
                 /\ done' = [done EXCEPT ![r] = @ \cup {c}]
                 /\ UNCHANGED <<backends, at, shadow, calls, since, lived>>

---------------------------------------------------------------------------

NoShadow == /\ shadow = [r \in Request |-> "none"]
            /\ calls = [r \in Request |-> [i \in DOMAIN backends |-> "none"]]
            /\ done = [r \in Request |-> {}]
            /\ since = [r \in Request |-> [c \in Context |-> 0]]
            /\ lived = [r \in Request |-> 0]

InitRequests == /\ backends \in BoundedSeq(Backend, MaxBackends) \ {<< >>}
                /\ at = [r \in Request |-> "idle"]
                /\ NoShadow

Moves(r, from, to) == /\ at[r] = from
                      /\ at' = [at EXCEPT ![r] = to]
                      /\ UNCHANGED backends

(* The handler. *)

Arrive(r) == /\ Moves(r, "idle", "proxy")
             /\ UNCHANGED <<shadow, calls, done, since, lived>>

\* The regular proxy returned, with an answer or not; the reply is written,
\* cancel() is called.
Reply(r) == /\ Moves(r, "call", "done")
            /\ done' = [done EXCEPT ![r] = @ \cup {RequestCtx}]
            /\ UNCHANGED <<shadow, calls, since, lived>>

\* Without regular backends the factory returns ErrNoBackends beside a proxy,
\* and no router uses that: gin answers 500, mux does not know the path.
Refuse(r) == /\ regular = {}
             /\ Moves(r, "proxy", "done")
             /\ UNCHANGED <<shadow, calls, done, since, lived>>

\* NewShadowProxyWithTimeout, if there are shadows: context, clone, goroutine.
CallProxies(r) == /\ regular # {}
                  /\ Moves(r, "proxy", "call")
                  /\ shadow' = [shadow EXCEPT ![r] = IF shadows = {} THEN @ ELSE "starting"]
                  /\ UNCHANGED <<calls, done, since, lived>>

\* External: the endpoint's timeout, or the client leaves.
CtxDone(r) == /\ at[r] \in {"proxy", "call"} /\ RequestCtx \notin done[r]
              /\ done' = [done EXCEPT ![r] = @ \cup {RequestCtx}]
              /\ UNCHANGED <<backends, at, shadow, calls, since, lived>>

---------------------------------------------------------------------------
(* The shadow. *)

ShadowTime(r) == /\ shadow[r] \in {"starting", "running"}
                 /\ lived[r] < maxTimeout
                 /\ lived' = [lived EXCEPT ![r] = @ + 1]
                 /\ UNCHANGED <<backends, at, shadow, calls, done, since>>

\* The goroutine calls p2: several shadows are merged, under a timeout.
CallShadows(r) == /\ shadow[r] = "starting"
                  /\ shadow' = [shadow EXCEPT ![r] = "running"]
                  /\ since' = [since EXCEPT ![r][MergeCtx] = lived[r]]
                  /\ UNCHANGED <<backends, at, calls, done, lived>>

Calls(r, i, from, to) == /\ shadow[r] = "running" /\ i \in shadows /\ calls[r][i] = from
                         /\ calls' = [calls EXCEPT ![r][i] = to]
                         /\ UNCHANGED <<backends, at, shadow, lived>>

CallBackend(r, i) == /\ Calls(r, i, "none", "open")
                     /\ since' = [since EXCEPT ![r][i] = lived[r]]
                     /\ UNCHANGED done

\* By a filter, or after a failure or a partial answer in a sequence.
SkipBackend(r, i) == Several /\ Calls(r, i, "none", "skipped") /\ UNCHANGED <<done, since>>

\* The call answers or fails by itself, which nobody learns, or its context
\* ends; what made a context for it cancels that.
Returned(r, i, how) == /\ Calls(r, i, "open", how)
                       /\ done' = [done EXCEPT ![r] = @ \cup {i}]
                       /\ UNCHANGED since

BackendHeard(r, i) == Returned(r, i, "heard")
BackendCut(r, i) == i \in done[r] /\ Returned(r, i, "cut")

\* p2 returns, the merge cancelled its context; then cancel().
ShadowReturns(r) == /\ shadow[r] = "running"
                    /\ \A i \in shadows : calls[r][i] \notin {"none", "open"}
                    /\ shadow' = [shadow EXCEPT ![r] = "ended"]
                    /\ done' = [done EXCEPT ![r] = @ \cup {ShadowCtx, MergeCtx}]
                    /\ UNCHANGED <<backends, at, calls, since, lived>>

ShadowGoes(r) == \/ ShadowTime(r) \/ CallShadows(r) \/ ShadowReturns(r)
                 \/ \E c \in Context : CtxEnds(r, c)
                 \/ \E i \in shadows : CallBackend(r, i) \/ SkipBackend(r, i) \/ BackendCut(r, i)

Handler(r) == Refuse(r) \/ CallProxies(r) \/ Reply(r)
Shadow(r) == ShadowGoes(r) \/ \E i \in shadows : BackendHeard(r, i)

\* A backend may be silent until the context of its call ends.
RequestFairness(r) == /\ WF_requestVars(Refuse(r) \/ CallProxies(r))
                      /\ WF_requestVars(CtxDone(r))
                      /\ WF_requestVars(RequestCtx \in done[r] /\ Reply(r))
                      /\ WF_requestVars(ShadowGoes(r))

Running(r) == at[r] \in {"proxy", "call"}
ShadowRuns(r) == shadow[r] \in {"starting", "running"}

RequestStep(r) == Arrive(r) \/ CtxDone(r) \/ Handler(r) \/ Shadow(r)

\* The requests alone, whatever lets them in.
ShadowSpec == /\ InitRequests /\ [][\E r \in Request : RequestStep(r)]_shadowVars
              /\ \A r \in Request : RequestFairness(r)

---------------------------------------------------------------------------

Cut(r, i) == calls[r][i] = "open" /\ calls'[r][i] = "cut"

\* The shadow's context is detached from the handler's (shadow.go:112-124,
\* 168-174): neither that the client leaves, the endpoint's timeout fires or
\* the handler has replied and cancels, nor another call that returns, cuts a
\* call.  It is cut only after the longest time that a shadow asks for; beside
\* other shadows, after 85 percent of the endpoint's timeout (merging.go:29);
\* called more than once, after 75 percent of its own (concurrent.go:22).
ShadowIsDetached ==
  [][\A r \in Request, i \in shadows : Cut(r, i) =>
       \/ \A j \in shadows : lived[r] >= Duration(backends[j])
       \/ Several /\ lived[r] - since[r][MergeCtx] >= (85 * Timeout) \div 100
       \/ backends[i].concurrent /\ lived[r] - since[r][i] >= (75 * Timeout) \div 100]_shadowVars
=============================================================================

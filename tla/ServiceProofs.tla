---------------------------- MODULE ServiceProofs ----------------------------
(***************************************************************************)
(* The service, from its configuration to the end of its server.           *)
(*                                                                         *)
(* For every configuration that can be written, of any size: Init accepts  *)
(* exactly what can be served, hands its values down to every backend, and *)
(* leaves no placeholder that a router cannot fill.  For any number of     *)
(* requests, any backends and any timeouts: RunServer returns after a      *)
(* shutdown only when every request that is the server's was served, or    *)
(* the configured duration is over, and nothing but a timeout cuts the     *)
(* call of a shadow.  For any number of async agents and factories: each   *)
(* is started as it is configured.                                         *)
(***************************************************************************)
EXTENDS ServerLifecycle, AsyncAgents, GraphQLExtractor, MergeAccumulatorProofs,
        SequenceTheorems, FiniteSetTheorems, TLAPS

\* What RunServer knows at each point: before the listener runs nobody can
\* have been accepted; only a configured duration gives Shutdown a context
\* that can end; what it returned says why.
ServerInv ==
  /\ server = "start" => listener = "none" /\ \A r \in Request : ~Running(r)
  /\ shutdown \in {"live", "done"} => MaxShutdownDuration # 0
  /\ server \in {"start", "select", "shutdown"} => err = "none"
  /\ hijacked => UseH2C /\ server # "start"
  /\ \A r \in Request : via[r] = "h2c" => hijacked

IInv == TypeOK /\ ServerInv /\ GracefulShutdown

\* The invariants hold before anything happened.
LEMMA Initially == Init => IInv
<1> SUFFICES ASSUME Init PROVE IInv
  OBVIOUS
<1>1. TypeOK
  <2>1. backends \in Seq(Backend)
    BY DEF Init, InitRequests, NoShadow, BoundedSeq, SeqOf
  <2>2. calls \in [Request -> [DOMAIN backends -> {"none", "open", "skipped", "heard", "cut"}]]
    BY DEF Init, InitRequests, NoShadow
  <2>3. since \in [Request -> [Context -> Nat]] /\ done \in [Request -> SUBSET Context]
    BY DEF Init, InitRequests, NoShadow
  <2> QED
    BY <2>1, <2>2, <2>3 DEF Init, InitRequests, NoShadow, ParseTLSConfig, TypeOK
<1>2. ServerInv /\ GracefulShutdown
  BY DEF Init, InitRequests, NoShadow, ServerInv, GracefulShutdown, Running
<1> QED
  BY <1>1, <1>2 DEF IInv

\* The steps of RunServer do not touch a request.
LEMMA ServerStep == ASSUME IInv, RunServer PROVE IInv'
<1> USE DEF IInv, TypeOK, Serves, conf, requestVars, Context
<1>1. CASE ConfigFails
  BY <1>1 DEF ConfigFails, ServerInv, GracefulShutdown, Running
<1>2. CASE StartListener
  BY <1>2 DEF StartListener, ServerInv, GracefulShutdown, Running
<1>3. CASE ListenerReports
  BY <1>3 DEF ListenerReports, ServerInv, GracefulShutdown, Running
<1>4. CASE BeginShutdown
  BY <1>4 DEF BeginShutdown, ServerInv, GracefulShutdown, Running
<1>5. CASE Drained
  <2>1. TypeOK' /\ ServerInv'
    BY <1>5 DEF Drained, ServerInv, Running
  <2>2. \A r \in Request : Running(r)' => UseH2C /\ via[r] = "h2c"
    <3> SUFFICES ASSUME NEW r \in Request, Running(r)' PROVE UseH2C /\ via[r] = "h2c"
      OBVIOUS
    <3>1. Running(r)
      BY <1>5 DEF Drained, Running
    <3>2. via[r] # "server" /\ via[r] \in {"server", "h2c"}
      BY <1>5, <3>1 DEF Drained
    <3> QED
      BY <3>2 DEF ServerInv
  <2>3. GracefulShutdown'
    BY <1>5, <2>2 DEF Drained, GracefulShutdown
  <2> QED
    BY <2>1, <2>3
<1>6. CASE ShutdownExpires
  BY <1>6 DEF ShutdownExpires, ServerInv, GracefulShutdown, Running
<1> QED
  BY <1>1, <1>2, <1>3, <1>4, <1>5, <1>6 DEF RunServer

\* The variables of the requests have their types.
RequestsOK ==
  /\ backends \in Seq(Backend)
  /\ at \in [Request -> {"idle", "proxy", "call", "done"}]
  /\ shadow \in [Request -> {"none", "starting", "running", "ended"}]
  /\ calls \in [Request -> [DOMAIN backends -> {"none", "open", "skipped", "heard", "cut"}]]
  /\ done \in [Request -> SUBSET Context]
  /\ since \in [Request -> [Context -> Nat]]
  /\ lived \in [Request -> Nat]

\* A shadow backend has a context for its call.
LEMMA ContextsAre ==
  /\ RequestCtx \in Context /\ ShadowCtx \in Context /\ MergeCtx \in Context
  /\ shadows \subseteq DOMAIN backends /\ shadows \subseteq Context
<1> QED
  BY DEF Context, shadows

\* What a request does to its own variables.
LEMMA RequestType ==
  ASSUME RequestsOK, NEW r \in Request, RequestStep(r)
  PROVE  RequestsOK' /\ backends' = backends
<1> USE ContextsAre
<1>1. ASSUME backends' = backends PROVE Context' = Context
  BY <1>1 DEF Context, RequestCtx, ShadowCtx, MergeCtx
<1>2. ASSUME NEW from, NEW to \in {"idle", "proxy", "call", "done"}, Moves(r, from, to)
      PROVE  /\ at' \in [Request -> {"idle", "proxy", "call", "done"}]
             /\ backends' = backends
  BY <1>2 DEF Moves, RequestsOK
<1>3. CASE Arrive(r) \/ Refuse(r) \/ CallProxies(r) \/ Reply(r)
  <2>1. at' \in [Request -> {"idle", "proxy", "call", "done"}] /\ backends' = backends
    BY <1>2, <1>3 DEF Arrive, Refuse, CallProxies, Reply
  <2>2. UNCHANGED <<calls, since, lived>>
    BY <1>3 DEF Arrive, Refuse, CallProxies, Reply
  <2>3. shadow' \in [Request -> {"none", "starting", "running", "ended"}]
    BY <1>3 DEF Arrive, Refuse, CallProxies, Reply, RequestsOK
  <2>4. done' \in [Request -> SUBSET Context]
    <3>1. CASE Reply(r)
      BY <3>1 DEF Reply, RequestsOK
    <3>2. CASE done' = done
      BY <3>2 DEF RequestsOK
    <3> QED
      BY <1>3, <3>1, <3>2 DEF Arrive, Refuse, CallProxies
  <2> QED
    BY <1>1, <2>1, <2>2, <2>3, <2>4 DEF RequestsOK
<1>4. CASE CtxDone(r)
  <2>1. done' \in [Request -> SUBSET Context]
    BY <1>4 DEF CtxDone, RequestsOK
  <2> QED
    BY <1>1, <1>4, <2>1 DEF CtxDone, RequestsOK
<1>5. CASE ShadowTime(r)
  <2>1. lived' \in [Request -> Nat]
    BY <1>5 DEF ShadowTime, RequestsOK
  <2> QED
    BY <1>1, <1>5, <2>1 DEF ShadowTime, RequestsOK
<1>6. CASE CallShadows(r)
  <2>1. since' \in [Request -> [Context -> Nat]]
    BY <1>6 DEF CallShadows, RequestsOK
  <2>2. shadow' \in [Request -> {"none", "starting", "running", "ended"}]
    BY <1>6 DEF CallShadows, RequestsOK
  <2> QED
    BY <1>1, <1>6, <2>1, <2>2 DEF CallShadows, RequestsOK
<1>7. CASE ShadowReturns(r)
  <2>1. done' \in [Request -> SUBSET Context]
    BY <1>7 DEF ShadowReturns, RequestsOK
  <2>2. shadow' \in [Request -> {"none", "starting", "running", "ended"}]
    BY <1>7 DEF ShadowReturns, RequestsOK
  <2> QED
    BY <1>1, <1>7, <2>1, <2>2 DEF ShadowReturns, RequestsOK
<1>8. ASSUME NEW c \in Context, CtxEnds(r, c) PROVE RequestsOK' /\ backends' = backends
  <2>1. done' \in [Request -> SUBSET Context]
    BY <1>8 DEF CtxEnds, RequestsOK
  <2> QED
    BY <1>1, <1>8, <2>1 DEF CtxEnds, RequestsOK
<1>9. ASSUME NEW i \in shadows,
             CallBackend(r, i) \/ SkipBackend(r, i) \/ BackendCut(r, i) \/ BackendHeard(r, i)
      PROVE  RequestsOK' /\ backends' = backends
  <2>1. PICK to \in {"open", "skipped", "heard", "cut"} : \E from : Calls(r, i, from, to)
    BY <1>9 DEF CallBackend, SkipBackend, BackendCut, BackendHeard, Returned
  <2>2. /\ backends' = backends
        /\ calls' \in [Request -> [DOMAIN backends -> {"none", "open", "skipped", "heard", "cut"}]]
        /\ UNCHANGED <<at, shadow, lived>>
    BY <2>1 DEF Calls, RequestsOK
  <2>3. done' \in [Request -> SUBSET Context] /\ since' \in [Request -> [Context -> Nat]]
    <3>1. CASE CallBackend(r, i)
      BY <3>1 DEF CallBackend, RequestsOK
    <3>2. CASE SkipBackend(r, i)
      BY <3>2 DEF SkipBackend, RequestsOK
    <3>3. CASE BackendCut(r, i) \/ BackendHeard(r, i)
      <4>1. done' = [done EXCEPT ![r] = @ \cup {i}] /\ since' = since
        BY <3>3 DEF BackendCut, BackendHeard, Returned
      <4>2. i \in Context
        BY ContextsAre
      <4> QED
        BY <4>1, <4>2 DEF RequestsOK
    <3> QED
      BY <1>9, <3>1, <3>2, <3>3
  <2> QED
    BY <1>1, <2>2, <2>3 DEF RequestsOK
<1> QED
  BY <1>3, <1>4, <1>5, <1>6, <1>7, <1>8, <1>9 DEF RequestStep, Handler, Shadow, ShadowGoes

\* The types of all are those of the requests and of the server.
LEMMA TypeParts ==
  ASSUME TypeOK, RequestsOK', UNCHANGED conf,
         service' \in {"live", "done"} /\ server' \in {"start", "select", "shutdown", "returned"},
         listener' \in {"none", "serving", "sending", "ended"},
         shutdown' \in {"none", "background", "live", "done"},
         err' \in {"none", "config", "listen", "deadline"},
         hijacked' \in BOOLEAN /\ via' \in [Request -> {"server", "h2c"}]
  PROVE  TypeOK'
<1> QED
  BY DEF TypeOK, RequestsOK, conf

\* Only Arrive makes a handler run.
LEMMA RunsOnlyIfAccepted ==
  ASSUME TypeOK, NEW r \in Request, CtxDone(r) \/ Handler(r) \/ Shadow(r),
         NEW q \in Request, Running(q)'
  PROVE  Running(q)
<1> USE DEF TypeOK, Moves, Running
<1>1. CASE CtxDone(r)
  BY <1>1 DEF CtxDone
<1>2. CASE Handler(r)
  BY <1>2 DEF Handler, Refuse, CallProxies, Reply
<1>3. CASE Shadow(r)
  <2>1. at' = at
    BY <1>3 DEF Shadow, ShadowGoes, ShadowTime, CallShadows, ShadowReturns, CtxEnds, CallBackend,
                SkipBackend, BackendCut, BackendHeard, Returned, Calls
  <2> QED
    BY <2>1
<1> QED
  BY <1>1, <1>2, <1>3

\* Every step of the server, of the requests and of their shadows keeps them.
LEMMA Inductive == IInv /\ [Next]_vars => IInv'
<1> SUFFICES ASSUME IInv, [Next]_vars PROVE IInv'
  OBVIOUS
<1>0. RequestsOK
  BY DEF IInv, TypeOK, RequestsOK
<1>1. CASE RunServer
  BY <1>1, ServerStep
<1>2. CASE ListenerStops \/ ServiceDone \/ ShutdownTimer \/ Hijack
  <2>1. UNCHANGED <<backends, requestVars, conf>> /\ UNCHANGED <<err, via>>
    BY <1>2 DEF ListenerStops, ServiceDone, ShutdownTimer, Hijack
  <2>2. RequestsOK'
    BY <1>0, <2>1 DEF RequestsOK, requestVars, Context
  <2>3. /\ service' \in {"live", "done"} /\ server' \in {"start", "select", "shutdown", "returned"}
        /\ listener' \in {"none", "serving", "sending", "ended"}
        /\ shutdown' \in {"none", "background", "live", "done"} /\ hijacked' \in BOOLEAN
    BY <1>2 DEF ListenerStops, ServiceDone, ShutdownTimer, Hijack, IInv, TypeOK
  <2>4. err' \in {"none", "config", "listen", "deadline"} /\ via' \in [Request -> {"server", "h2c"}]
    BY <2>1 DEF IInv, TypeOK
  <2>5. TypeOK'
    BY <2>1, <2>2, <2>3, <2>4, TypeParts DEF IInv
  <2>6. ServerInv' /\ GracefulShutdown'
    BY <1>2, <2>1 DEF ListenerStops, ServiceDone, ShutdownTimer, Hijack, IInv, TypeOK, ServerInv,
                      GracefulShutdown, Running, conf, requestVars
  <2> QED
    BY <2>5, <2>6 DEF IInv
<1>3. ASSUME NEW r \in Request, Accept(r) PROVE IInv'
  <2>1. TypeOK'
    <3>1. RequestsOK'
      BY <1>0, <1>3, RequestType DEF Accept, RequestStep
    <3> QED
      BY <1>3, <3>1, TypeParts DEF Accept, IInv, TypeOK, conf, serverVars
  <2>2. ServerInv' /\ GracefulShutdown'
    BY <1>3 DEF Accept, IInv, ServerInv, GracefulShutdown, conf, serverVars
  <2> QED
    BY <2>1, <2>2 DEF IInv
<1>4. CASE Requests
  <2>1. PICK r \in Request : /\ CtxDone(r) \/ Handler(r) \/ Shadow(r)
                             /\ UNCHANGED <<conf, serverVars>>
    BY <1>4 DEF Requests
  <2>2. TypeOK'
    <3>1. RequestsOK'
      BY <1>0, <2>1, RequestType DEF RequestStep
    <3> QED
      BY <2>1, <3>1, TypeParts DEF IInv, TypeOK, conf, serverVars
  <2>3. \A q \in Request : Running(q)' => Running(q)
    BY <2>1, RunsOnlyIfAccepted DEF IInv
  <2>4. ServerInv' /\ GracefulShutdown'
    BY <2>1, <2>3 DEF IInv, ServerInv, GracefulShutdown, conf, serverVars
  <2> QED
    BY <2>2, <2>4 DEF IInv
<1>5. ASSUME NEW r \in Request, AcceptH2C(r) PROVE IInv'
  <2>1. /\ via' = [via EXCEPT ![r] = "h2c"] /\ hijacked
        /\ UNCHANGED <<conf, service, server, listener, shutdown, err, hijacked>>
    BY <1>5 DEF AcceptH2C
  <2>2. TypeOK'
    <3>1. RequestsOK'
      BY <1>0, <1>5, RequestType DEF AcceptH2C, RequestStep
    <3>2. via' \in [Request -> {"server", "h2c"}]
      BY <2>1 DEF IInv, TypeOK
    <3> QED
      BY <2>1, <3>1, <3>2, TypeParts DEF IInv, TypeOK, conf
  <2>3. \A q \in Request : q # r => via'[q] = via[q] /\ (Running(q)' => Running(q))
    BY <1>5, <2>1 DEF AcceptH2C, Arrive, Moves, Running, IInv, TypeOK
  <2>4. via'[r] = "h2c" /\ UseH2C /\ server # "start"
    BY <2>1 DEF IInv, TypeOK, ServerInv
  <2>5. ServerInv'
    BY <2>1, <2>3, <2>4 DEF IInv, ServerInv, conf
  <2>6. GracefulShutdown'
    <3> SUFFICES ASSUME server' = "returned", NEW q \in Request, Running(q)'
                 PROVE  \/ err' = "deadline" /\ MaxShutdownDuration' # 0
                        \/ err' = "listen"
                        \/ UseH2C' /\ via'[q] = "h2c"
      BY DEF GracefulShutdown
    <3>1. CASE q = r
      BY <2>1, <2>4, <3>1 DEF conf
    <3>2. CASE q # r
      BY <2>1, <2>3, <3>2 DEF conf, IInv, GracefulShutdown
    <3> QED
      BY <3>1, <3>2
  <2> QED
    BY <2>2, <2>5, <2>6 DEF IInv
<1>6. CASE UNCHANGED vars
  <2>1. RequestsOK'
    BY <1>0, <1>6 DEF RequestsOK, vars, requestVars, Context
  <2>2. TypeOK'
    BY <1>6, <2>1, TypeParts DEF vars, serverVars, IInv, TypeOK
  <2>3. ServerInv' /\ GracefulShutdown'
    BY <1>6 DEF vars, conf, serverVars, requestVars, IInv, ServerInv, GracefulShutdown, Running
  <2> QED
    BY <2>2, <2>3 DEF IInv
<1> QED
  BY <1>1, <1>2, <1>3, <1>4, <1>5, <1>6 DEF Next, Terminated

\* So they hold throughout.
LEMMA Invariance == Spec => []IInv
<1> QED
  BY Initially, Inductive, PTL DEF Spec

\* Every variable of the server and of the requests keeps its type.
THEOREM TypeCorrect == Spec => []TypeOK
<1>1. IInv => TypeOK
  BY DEF IInv
<1> QED
  BY <1>1, Invariance, PTL

\* However many requests race with the end of the service's context: RunServer
\* returns before one is served only for the reasons that GracefulShutdown names
\* (server.go:149-159), of which use_h2c is one that the documentation does not.
THEOREM ServesBeforeReturning == Spec => []GracefulShutdown
<1>1. IInv => GracefulShutdown
  BY DEF IInv
<1> QED
  BY <1>1, Invariance, PTL

---------------------------------------------------------------------------
(* The contexts of a shadow.                                               *)

\* A set of numbers with a bound, 0 among them, has a greatest element: the
\* one that is nearest to the bound.
LEMMA MaxExists ==
  ASSUME NEW D, \A d \in D : d \in Int /\ d <= MaxDuration, 0 \in D
  PROVE  Max(D) \in D /\ \A d \in D : Max(D) >= d
<1> DEFINE Below == {MaxDuration - d : d \in D}
<1>1. Below \subseteq Nat /\ Below # {}
  BY DurationAssumption
<1>2. PICK m \in Below : \A x \in Below : ~(<<x, m>> \in OpToRel(<, Nat))
  BY <1>1, NatLessThanWellFounded, WFMin
<1>3. \A x \in Below : ~(x < m)
  BY <1>1, <1>2 DEF OpToRel
<1>4. PICK g \in D : m = MaxDuration - g
  OBVIOUS
<1>5. \A d \in D : g >= d
  <2> SUFFICES ASSUME NEW d \in D PROVE g >= d
    OBVIOUS
  <2>1. MaxDuration - d \in Below
    OBVIOUS
  <2> HIDE DEF Below
  <2> QED
    BY <1>3, <1>4, <2>1, DurationAssumption
<1> QED
  BY <1>5 DEF Max

\* Every backend has a duration.
LEMMA DurationType ==
  ASSUME NEW b \in Backend
  PROVE  Duration(b) \in Int /\ Duration(b) <= MaxDuration
<1>1. b.shadowTimeout \in {Unset} \cup ShadowTimeouts
  <2>1. CASE b \in {Regular}
    BY <2>1 DEF Regular
  <2>2. CASE b \in [shadow : {TRUE}, shadowTimeout : {Unset} \cup ShadowTimeouts,
                    concurrent : BOOLEAN]
    BY <2>2
  <2> QED
    BY <2>1, <2>2 DEF Backend
<1> QED
  BY <1>1, DurationAssumption DEF Duration

\* The longest time that a shadow of the endpoint asks for (lines 40-43).
LEMMA MaxTimeout ==
  ASSUME RequestsOK
  PROVE  maxTimeout \in Nat /\ \A i \in shadows : /\ Duration(backends[i]) \in Int
                                                  /\ maxTimeout >= Duration(backends[i])
<1> DEFINE D == {0} \cup {Duration(backends[i]) : i \in shadows}
<1>1. \A i \in shadows : backends[i] \in Backend
  BY DEF shadows, RequestsOK
<1>2. \A i \in shadows : Duration(backends[i]) \in Int /\ Duration(backends[i]) <= MaxDuration
  BY <1>1, DurationType
<1>3. \A d \in D : d \in Int /\ d <= MaxDuration
  BY <1>2, DurationAssumption
<1>4. Max(D) \in D /\ \A d \in D : Max(D) >= d
  <2> HIDE DEF D
  <2>1. 0 \in D
    BY DEF D
  <2> QED
    BY <1>3, <2>1, MaxExists
<1>5. maxTimeout = Max(D)
  BY DEF maxTimeout
<1>6. 0 \in D /\ \A i \in shadows : Duration(backends[i]) \in D
  OBVIOUS
<1> HIDE DEF D
<1> QED
  BY <1>2, <1>3, <1>4, <1>5, <1>6

\* What a request does to a context depends on the configuration, which stays.
LEMMA ConfigStays ==
  ASSUME backends' = backends
  PROVE  /\ shadows' = shadows /\ Several' = Several /\ maxTimeout' = maxTimeout
         /\ Context' = Context
         /\ \A c : Parent(c)' = Parent(c) /\ HasTimer(c)' = HasTimer(c) /\ TimeoutOf(c)' = TimeoutOf(c)
<1>1. shadows' = shadows
  BY DEF shadows
<1>2. Several' = Several
  BY <1>1 DEF Several
<1>3. maxTimeout' = maxTimeout
  BY <1>1 DEF maxTimeout
<1>4. Context' = Context
  BY DEF Context, RequestCtx, ShadowCtx, MergeCtx
<1>5. ASSUME NEW c
      PROVE  Parent(c)' = Parent(c) /\ HasTimer(c)' = HasTimer(c) /\ TimeoutOf(c)' = TimeoutOf(c)
  <2>1. Parent(c)' = Parent(c)
    BY <1>2 DEF Parent, RequestCtx, ShadowCtx, MergeCtx, Background
  <2>2. HasTimer(c)' = HasTimer(c)
    BY <1>1 DEF HasTimer, ShadowCtx, MergeCtx
  <2>3. TimeoutOf(c)' = TimeoutOf(c)
    BY <1>3 DEF TimeoutOf, ShadowCtx, MergeCtx
  <2> QED
    BY <2>1, <2>2, <2>3
<1> QED
  BY <1>1, <1>2, <1>3, <1>4, <1>5

\* A context that is in use and has ended did so by its timer or its parent's end.
EndedOK(r, c) == InUse(r, c) /\ c \in done[r] => Expired(r, c) \/ Parent(c) \in done[r]

\* None has ended before it was made, and no call is open without its parent's.
ContextOK(r) ==
  /\ at[r] \in {"idle", "proxy"} => shadow[r] = "none"
  /\ ShadowCtx \in done[r] => shadow[r] # "none"
  /\ MergeCtx \in done[r] => shadow[r] \in {"running", "ended"}
  /\ \A i \in shadows : i \in done[r] => calls[r][i] # "none"
  /\ \A i \in shadows : calls[r][i] = "open" => shadow[r] = "running"
  /\ \A c \in Context : EndedOK(r, c)

ContextInv == RequestsOK /\ \A r \in Request : ContextOK(r)

\* Nothing has ended at first.
LEMMA ContextInit == InitRequests => ContextInv
<1> SUFFICES ASSUME InitRequests PROVE ContextInv
  OBVIOUS
<1>1. backends \in Seq(Backend)
  BY DEF InitRequests, NoShadow, BoundedSeq, SeqOf
<1>2. calls \in [Request -> [DOMAIN backends -> {"none", "open", "skipped", "heard", "cut"}]]
  BY DEF InitRequests, NoShadow
<1>3. since \in [Request -> [Context -> Nat]] /\ done \in [Request -> SUBSET Context]
  BY DEF InitRequests, NoShadow
<1>4. RequestsOK
  BY <1>1, <1>2, <1>3 DEF InitRequests, NoShadow, RequestsOK
<1>5. ASSUME NEW r \in Request PROVE ContextOK(r)
  <2>1. shadow[r] = "none" /\ done[r] = {} /\ \A i \in shadows : calls[r][i] = "none"
    BY DEF InitRequests, NoShadow, shadows
  <2> QED
    BY <2>1 DEF ContextOK, EndedOK
<1> QED
  BY <1>4, <1>5 DEF ContextInv

\* A request has contexts of its own.
LEMMA OthersStay ==
  ASSUME RequestsOK, NEW r \in Request, RequestStep(r), NEW q \in Request, q # r
  PROVE  /\ at'[q] = at[q]
         /\ shadow'[q] = shadow[q] /\ calls'[q] = calls[q] /\ done'[q] = done[q]
         /\ since'[q] = since[q] /\ lived'[q] = lived[q]
<1> USE DEF RequestsOK
<1>1. CASE Arrive(r) \/ CtxDone(r) \/ Handler(r)
  BY <1>1 DEF Arrive, CtxDone, Handler, Refuse, CallProxies, Reply, Moves
<1>2. CASE ShadowTime(r) \/ CallShadows(r) \/ ShadowReturns(r)
  BY <1>2 DEF ShadowTime, CallShadows, ShadowReturns
<1>3. ASSUME NEW c \in Context, CtxEnds(r, c)
      PROVE  /\ at'[q] = at[q]
             /\ shadow'[q] = shadow[q] /\ calls'[q] = calls[q] /\ done'[q] = done[q]
             /\ since'[q] = since[q] /\ lived'[q] = lived[q]
  BY <1>3 DEF CtxEnds
<1>4. ASSUME NEW i \in shadows,
             CallBackend(r, i) \/ SkipBackend(r, i) \/ BackendCut(r, i) \/ BackendHeard(r, i)
      PROVE  /\ at'[q] = at[q]
             /\ shadow'[q] = shadow[q] /\ calls'[q] = calls[q] /\ done'[q] = done[q]
             /\ since'[q] = since[q] /\ lived'[q] = lived[q]
  BY <1>4 DEF CallBackend, SkipBackend, BackendCut, BackendHeard, Returned, Calls
<1> QED
  BY <1>1, <1>2, <1>3, <1>4 DEF RequestStep, Shadow, ShadowGoes

\* ContextOK speaks of one request only, and of the configuration.
LEMMA SameContexts ==
  ASSUME NEW q \in Request, backends' = backends, ContextOK(q),
         at'[q] = at[q], shadow'[q] = shadow[q], calls'[q] = calls[q], done'[q] = done[q],
         since'[q] = since[q], lived'[q] = lived[q]
  PROVE  ContextOK(q)'
<1>1. \A c \in Context : EndedOK(q, c)' = EndedOK(q, c)
  <2> TAKE c \in Context
  <2>1. InUse(q, c)' = InUse(q, c)
    BY ConfigStays DEF InUse, ShadowCtx, MergeCtx
  <2>2. Expired(q, c)' = Expired(q, c)
    BY ConfigStays DEF Expired
  <2> QED
    BY <2>1, <2>2, ConfigStays DEF EndedOK
<1> QED
  BY <1>1, ConfigStays DEF ContextOK, ShadowCtx, MergeCtx

\* Numbers of backends are not those of the other contexts.
LEMMA Distinct ==
  ASSUME RequestsOK
  PROVE  /\ \A i \in shadows : i \notin {RequestCtx, ShadowCtx, MergeCtx, Background}
         /\ RequestCtx # ShadowCtx /\ RequestCtx # MergeCtx /\ ShadowCtx # MergeCtx
         /\ \A r \in Request : Background \notin done[r]
<1>1. DOMAIN backends = 1..Len(backends) /\ Len(backends) \in Nat
  BY DEF RequestsOK
<1>2. \A i \in DOMAIN backends : i \in Nat /\ i > 0
  BY <1>1
<1>3. Background \notin Context
  BY <1>2 DEF Context, RequestCtx, ShadowCtx, MergeCtx, Background
<1> QED
  BY <1>2, <1>3 DEF shadows, RequestsOK, RequestCtx, ShadowCtx, MergeCtx, Background

\* Contexts in use are the shadow's and what is below it.
LEMMA UsedContexts ==
  ASSUME NEW r, NEW c, InUse(r, c)
  PROVE  c \in {ShadowCtx, MergeCtx} \cup shadows
<1> QED
  BY DEF InUse

\* Time that passes brings no context back, and makes none younger.
LEMMA TimeStep ==
  ASSUME ContextInv, NEW r \in Request, ShadowTime(r)
  PROVE  ContextOK(r)'
<1>1. /\ lived'[r] = lived[r] + 1 /\ lived[r] \in Nat
      /\ UNCHANGED <<backends, at, shadow, calls, done, since>>
  BY DEF ShadowTime, ContextInv, RequestsOK
<1>2. ASSUME NEW c \in Context PROVE EndedOK(r, c)'
  <2>1. InUse(r, c)' = InUse(r, c) /\ Parent(c)' = Parent(c)
    BY <1>1, ConfigStays DEF InUse, ShadowCtx, MergeCtx
  <2>2. since[r][c] \in Nat /\ maxTimeout \in Nat
    BY MaxTimeout DEF ContextInv, RequestsOK
  <2>3. TimeoutOf(c) \in Int
    BY <2>2, DurationAssumption DEF TimeoutOf
  <2>4. Expired(r, c) => Expired(r, c)'
    BY <1>1, <2>2, <2>3, ConfigStays DEF Expired
  <2> QED
    BY <1>1, <2>1, <2>4 DEF EndedOK, ContextInv, ContextOK
<1> QED
  BY <1>1, <1>2, ConfigStays DEF ContextInv, ContextOK, ShadowCtx, MergeCtx

\* A context that ends has a reason to.
LEMMA EndStep ==
  ASSUME ContextInv, NEW r \in Request, NEW c \in Context, CtxEnds(r, c)
  PROVE  ContextOK(r)'
<1>1. /\ done'[r] = done[r] \cup {c} /\ InUse(r, c)
      /\ Expired(r, c) \/ Parent(c) \in done[r]
      /\ UNCHANGED <<backends, at, shadow, calls, since, lived>>
  BY DEF CtxEnds, ContextInv, RequestsOK
<1>2. ASSUME NEW d \in Context PROVE EndedOK(r, d)'
  <2>1. InUse(r, d)' = InUse(r, d) /\ Parent(d)' = Parent(d)
    BY <1>1, ConfigStays DEF InUse, ShadowCtx, MergeCtx
  <2>2. Expired(r, d)' = Expired(r, d)
    BY <1>1, ConfigStays DEF Expired
  <2>3. EndedOK(r, d)
    BY DEF ContextInv, ContextOK
  <2> QED
    BY <1>1, <2>1, <2>2, <2>3 DEF EndedOK
<1>3. /\ ShadowCtx \in done'[r] => shadow'[r] # "none"
      /\ MergeCtx \in done'[r] => shadow'[r] \in {"running", "ended"}
  <2>1. ShadowCtx = c => shadow[r] # "none"
    BY <1>1, Distinct DEF InUse, ContextInv
  <2>2. MergeCtx = c => shadow[r] = "running"
    BY <1>1, Distinct DEF InUse, ContextInv
  <2> QED
    BY <1>1, <2>1, <2>2 DEF ContextInv, ContextOK
<1>4. \A i \in shadows : i \in done'[r] => calls'[r][i] # "none"
  <2> SUFFICES ASSUME NEW i \in shadows, i \in done'[r] PROVE calls'[r][i] # "none"
    OBVIOUS
  <2>1. CASE i = c
    BY <1>1, <2>1, Distinct DEF InUse, ContextInv
  <2>2. CASE i # c
    BY <1>1, <2>2 DEF ContextInv, ContextOK
  <2> QED
    BY <2>1, <2>2
<1> QED
  BY <1>1, <1>2, <1>3, <1>4, ConfigStays DEF ContextInv, ContextOK, ShadowCtx, MergeCtx

\* A context that is made has not ended.
LEMMA CallStep ==
  ASSUME ContextInv, NEW r \in Request, NEW i \in shadows, CallBackend(r, i)
  PROVE  ContextOK(r)'
<1>1. /\ shadow[r] = "running" /\ calls[r][i] = "none"
      /\ calls'[r] = [calls[r] EXCEPT ![i] = "open"]
      /\ since'[r] = [since[r] EXCEPT ![i] = lived[r]]
      /\ UNCHANGED <<backends, at, shadow, done, lived>>
  BY DEF CallBackend, Calls, ContextInv, RequestsOK
<1>2. i \notin done[r]
  BY <1>1 DEF ContextInv, ContextOK
<1>3. \A j \in shadows : calls'[r][j] = IF j = i THEN "open" ELSE calls[r][j]
  BY <1>1 DEF ContextInv, RequestsOK, shadows
<1>4. \A c \in Context : c # i => since'[r][c] = since[r][c]
  BY <1>1 DEF ContextInv, RequestsOK
<1>5. ASSUME NEW c \in Context PROVE EndedOK(r, c)'
  <2>1. CASE c = i
    BY <1>1, <1>2, <2>1 DEF EndedOK
  <2>2. CASE c # i
    <3>1. InUse(r, c)' = InUse(r, c) /\ Parent(c)' = Parent(c)
      BY <1>1, <1>3, <2>2, ConfigStays DEF InUse, ShadowCtx, MergeCtx
    <3>2. Expired(r, c)' = Expired(r, c)
      BY <1>1, <1>4, <2>2, ConfigStays DEF Expired
    <3> QED
      BY <1>1, <3>1, <3>2 DEF EndedOK, ContextInv, ContextOK
  <2> QED
    BY <2>1, <2>2
<1> QED
  BY <1>1, <1>2, <1>3, <1>5, ConfigStays DEF ContextInv, ContextOK, ShadowCtx, MergeCtx

\* One that was skipped or has returned is not used any more.
LEMMA ReturnStep ==
  ASSUME ContextInv, NEW r \in Request, NEW i \in shadows,
         SkipBackend(r, i) \/ BackendHeard(r, i) \/ BackendCut(r, i)
  PROVE  ContextOK(r)'
<1>1. PICK to \in {"skipped", "heard", "cut"} : \E from : Calls(r, i, from, to)
  BY DEF SkipBackend, BackendHeard, BackendCut, Returned
<1>2. /\ shadow[r] = "running" /\ calls'[r] = [calls[r] EXCEPT ![i] = to]
      /\ UNCHANGED <<backends, at, shadow, lived>>
  BY <1>1 DEF Calls, ContextInv, RequestsOK
<1>3. /\ since' = since /\ done[r] \subseteq done'[r] /\ done'[r] \subseteq done[r] \cup {i}
  BY DEF SkipBackend, BackendHeard, BackendCut, Returned, ContextInv, RequestsOK
<1>4. \A j \in shadows : calls'[r][j] = IF j = i THEN to ELSE calls[r][j]
  BY <1>2 DEF ContextInv, RequestsOK, shadows
<1>5. i # ShadowCtx /\ i # MergeCtx
  BY Distinct DEF ContextInv
<1>6. ASSUME NEW c \in Context PROVE EndedOK(r, c)'
  <2>1. CASE c = i
    <3>1. ~InUse(r, c)'
      BY <1>1, <1>2, <1>4, <1>5, <2>1, ConfigStays DEF InUse, ShadowCtx, MergeCtx
    <3> QED
      BY <3>1 DEF EndedOK
  <2>2. CASE c # i
    <3>1. InUse(r, c)' = InUse(r, c) /\ Parent(c)' = Parent(c)
      BY <1>2, <1>4, <2>2, ConfigStays DEF InUse, ShadowCtx, MergeCtx
    <3>2. Expired(r, c)' = Expired(r, c)
      BY <1>2, <1>3, ConfigStays DEF Expired
    <3>3. EndedOK(r, c)
      BY DEF ContextInv, ContextOK
    <3> QED
      BY <1>3, <2>2, <3>1, <3>2, <3>3 DEF EndedOK
  <2> QED
    BY <2>1, <2>2
<1>7. /\ ShadowCtx \in done'[r] => shadow'[r] # "none"
      /\ MergeCtx \in done'[r] => shadow'[r] \in {"running", "ended"}
  BY <1>2 DEF ContextInv
<1>8. \A j \in shadows : j \in done'[r] => calls'[r][j] # "none"
  BY <1>1, <1>3, <1>4 DEF ContextInv, ContextOK
<1>9. \A j \in shadows : calls'[r][j] = "open" => shadow'[r] = "running"
  BY <1>2
<1>10. at'[r] \notin {"idle", "proxy"}
  BY <1>2 DEF ContextInv, ContextOK
<1> QED
  BY <1>2, <1>6, <1>7, <1>8, <1>9, <1>10, ConfigStays DEF ContextOK, ShadowCtx, MergeCtx

\* The merge makes its context before there is a call.
LEMMA MergeStep ==
  ASSUME ContextInv, NEW r \in Request, CallShadows(r)
  PROVE  ContextOK(r)'
<1>1. /\ shadow[r] = "starting" /\ shadow'[r] = "running"
      /\ since'[r] = [since[r] EXCEPT ![MergeCtx] = lived[r]]
      /\ UNCHANGED <<backends, at, calls, done, lived>>
  BY DEF CallShadows, ContextInv, RequestsOK
<1>2. MergeCtx \notin done[r] /\ \A i \in shadows : calls[r][i] # "open"
  BY <1>1 DEF ContextInv, ContextOK
<1>3. \A c \in Context : c # MergeCtx => since'[r][c] = since[r][c]
  BY <1>1 DEF ContextInv, RequestsOK
<1>4. ASSUME NEW c \in Context PROVE EndedOK(r, c)'
  <2>1. CASE c = ShadowCtx
    <3>1. InUse(r, c) /\ Parent(c)' = Parent(c) /\ c # MergeCtx
      BY <1>1, <2>1, ConfigStays, Distinct DEF InUse, ContextInv
    <3>2. Expired(r, c)' = Expired(r, c)
      BY <1>1, <1>3, <3>1, ConfigStays DEF Expired
    <3> QED
      BY <1>1, <3>1, <3>2 DEF EndedOK, ContextInv, ContextOK
  <2>2. CASE c # ShadowCtx
    <3>1. InUse(r, c)' => c = MergeCtx
      BY <1>1, <1>2, <2>2, ConfigStays DEF InUse, ShadowCtx, MergeCtx
    <3> QED
      BY <1>1, <1>2, <3>1 DEF EndedOK, MergeCtx
  <2> QED
    BY <2>1, <2>2
<1> QED
  BY <1>1, <1>2, <1>4, ConfigStays DEF ContextInv, ContextOK, ShadowCtx, MergeCtx

\* No call is open when the shadow returns and cancels.
LEMMA EndOfShadow ==
  ASSUME ContextInv, NEW r \in Request, ShadowReturns(r)
  PROVE  ContextOK(r)'
<1>1. /\ shadow'[r] = "ended" /\ done'[r] = done[r] \cup {ShadowCtx, MergeCtx}
      /\ \A i \in shadows : calls[r][i] \notin {"none", "open"}
      /\ UNCHANGED <<backends, at, calls, since, lived>>
  BY DEF ShadowReturns, ContextInv, RequestsOK
<1>2. \A c \in Context : ~InUse(r, c)'
  BY <1>1, ConfigStays DEF InUse, ShadowCtx, MergeCtx
<1>3. \A c \in Context : EndedOK(r, c)'
  BY <1>2 DEF EndedOK
<1>4. at'[r] \notin {"idle", "proxy"}
  <2>1. shadow[r] = "running"
    BY DEF ShadowReturns
  <2> QED
    BY <1>1, <2>1 DEF ContextInv, ContextOK
<1> QED
  BY <1>1, <1>3, <1>4, ConfigStays DEF ContextOK, ShadowCtx, MergeCtx

\* What the handler does, or is done to its context, is nothing to the shadow's.
LEMMA HandlerStep ==
  ASSUME ContextInv, NEW r \in Request, Arrive(r) \/ CtxDone(r) \/ Handler(r)
  PROVE  ContextOK(r)'
<1>1. /\ UNCHANGED <<backends, calls, since, lived>>
      /\ done[r] \subseteq done'[r] /\ done'[r] \subseteq done[r] \cup {RequestCtx}
  BY DEF Arrive, CtxDone, Handler, Refuse, CallProxies, Reply, Moves, ContextInv, RequestsOK
<1>2. \/ shadow'[r] = shadow[r] /\ (at'[r] = at[r] \/ at[r] = "idle" \/ at'[r] \notin {"idle", "proxy"})
      \/ shadow'[r] = "starting" /\ at[r] = "proxy" /\ at'[r] = "call"
  BY DEF Arrive, CtxDone, Handler, Refuse, CallProxies, Reply, Moves, ContextInv, RequestsOK
<1>3. /\ ShadowCtx \in done'[r] => ShadowCtx \in done[r]
      /\ MergeCtx \in done'[r] => MergeCtx \in done[r]
      /\ \A i \in shadows : i \in done'[r] => i \in done[r]
  BY <1>1, Distinct DEF ContextInv
<1>4. CASE shadow'[r] = shadow[r] /\ (at'[r] = at[r] \/ at[r] = "idle" \/ at'[r] \notin {"idle", "proxy"})
  <2>1. ASSUME NEW c \in Context PROVE EndedOK(r, c)'
    <3>1. InUse(r, c)' = InUse(r, c) /\ Parent(c)' = Parent(c)
      BY <1>1, <1>4, ConfigStays DEF InUse, ShadowCtx, MergeCtx
    <3>2. Expired(r, c)' = Expired(r, c)
      BY <1>1, ConfigStays DEF Expired
    <3>3. InUse(r, c) /\ c \in done'[r] => c \in done[r]
      BY <1>3, UsedContexts
    <3> QED
      BY <1>1, <3>1, <3>2, <3>3 DEF EndedOK, ContextInv, ContextOK
  <2> QED
    BY <1>1, <1>3, <1>4, <2>1, ConfigStays DEF ContextInv, ContextOK, ShadowCtx, MergeCtx
<1>5. CASE shadow'[r] = "starting" /\ at[r] = "proxy" /\ at'[r] = "call"
  <2>1. /\ shadow[r] = "none" /\ ShadowCtx \notin done[r] /\ MergeCtx \notin done[r]
        /\ \A i \in shadows : calls[r][i] # "open"
    BY <1>5 DEF ContextInv, ContextOK
  <2>2. ASSUME NEW c \in Context PROVE EndedOK(r, c)'
    <3>1. InUse(r, c)' => c = ShadowCtx
      BY <1>1, <1>5, <2>1, ConfigStays DEF InUse, ShadowCtx, MergeCtx
    <3> QED
      BY <1>3, <2>1, <3>1 DEF EndedOK
  <2> QED
    BY <1>1, <1>3, <1>5, <2>1, <2>2, ConfigStays DEF ContextInv, ContextOK, ShadowCtx, MergeCtx
<1> QED
  BY <1>2, <1>4, <1>5

\* Every step of a request keeps what is said of its contexts, and of others'.
LEMMA ContextStep ==
  ASSUME ContextInv, [\E r \in Request : RequestStep(r)]_shadowVars
  PROVE  ContextInv'
<1>1. CASE UNCHANGED shadowVars
  <2>1. RequestsOK'
    BY <1>1 DEF shadowVars, requestVars, ContextInv, RequestsOK, Context
  <2>2. \A q \in Request : ContextOK(q)'
    BY <1>1, SameContexts DEF shadowVars, requestVars, ContextInv
  <2> QED
    BY <2>1, <2>2 DEF ContextInv
<1>2. ASSUME NEW r \in Request, RequestStep(r) PROVE ContextInv'
  <2>1. RequestsOK' /\ backends' = backends
    BY <1>2, RequestType DEF ContextInv
  <2>2. ASSUME NEW q \in Request, q # r PROVE ContextOK(q)'
    BY <1>2, <2>1, <2>2, OthersStay, SameContexts DEF ContextInv
  <2>3. ContextOK(r)'
    BY <1>2, HandlerStep, TimeStep, MergeStep, EndOfShadow, EndStep, CallStep, ReturnStep
       DEF RequestStep, Shadow, ShadowGoes
  <2> QED
    BY <2>1, <2>2, <2>3 DEF ContextInv
<1> QED
  BY <1>1, <1>2

\* A call is cut when its context has ended.
LEMMA CutWhenDone ==
  ASSUME RequestsOK, NEW q \in Request, RequestStep(q),
         NEW r \in Request, NEW i \in shadows, Cut(r, i)
  PROVE  i \in done[r]
<1>0. calls[r][i] = "open" /\ calls'[r][i] = "cut"
  BY DEF Cut
<1>1. CASE Arrive(q) \/ CtxDone(q) \/ Handler(q)
  BY <1>0, <1>1 DEF Arrive, CtxDone, Handler, Refuse, CallProxies, Reply
<1>2. CASE ShadowTime(q) \/ CallShadows(q) \/ ShadowReturns(q)
  BY <1>0, <1>2 DEF ShadowTime, CallShadows, ShadowReturns
<1>3. ASSUME NEW c \in Context, CtxEnds(q, c) PROVE i \in done[r]
  BY <1>0, <1>3 DEF CtxEnds
<1>4. ASSUME NEW j \in shadows, NEW from, NEW to, Calls(q, j, from, to)
      PROVE  r = q /\ i = j /\ to = "cut"
  <2>1. calls' = [calls EXCEPT ![q][j] = to] /\ calls'[r][i] # calls[r][i]
    BY <1>0, <1>4 DEF Calls
  <2>2. r = q
    BY <2>1 DEF RequestsOK
  <2>3. i = j
    BY <2>1, <2>2 DEF RequestsOK
  <2>4. calls'[q][j] = to
    BY <2>1 DEF RequestsOK, shadows
  <2> QED
    BY <1>0, <2>2, <2>3, <2>4
<1>5. ASSUME NEW j \in shadows,
             CallBackend(q, j) \/ SkipBackend(q, j) \/ BackendHeard(q, j)
      PROVE  FALSE
  BY <1>4, <1>5 DEF CallBackend, SkipBackend, BackendHeard, Returned
<1>6. ASSUME NEW j \in shadows, BackendCut(q, j) PROVE i \in done[r]
  BY <1>4, <1>6 DEF BackendCut, Returned
<1> QED
  BY <1>1, <1>2, <1>3, <1>5, <1>6 DEF RequestStep, Shadow, ShadowGoes

\* Up the tree, from the call that is cut to the timer that fired.
LEMMA EndHasReason ==
  ASSUME ContextInv, NEW r \in Request, NEW i \in shadows,
         calls[r][i] = "open", i \in done[r]
  PROVE  \/ \A j \in shadows : lived[r] >= Duration(backends[j])
         \/ Several /\ lived[r] - since[r][MergeCtx] >= (85 * Timeout) \div 100
         \/ backends[i].concurrent /\ lived[r] - since[r][i] >= (75 * Timeout) \div 100
<1>1. /\ shadow[r] = "running" /\ i \in Context
      /\ \A c \in Context : EndedOK(r, c)
  BY ContextsAre DEF ContextInv, ContextOK
<1>2. /\ i # ShadowCtx /\ i # MergeCtx /\ i # RequestCtx /\ ShadowCtx # MergeCtx
      /\ Background \notin done[r]
  BY Distinct DEF ContextInv
<1>3. /\ InUse(r, i) /\ InUse(r, ShadowCtx)
      /\ Several => InUse(r, MergeCtx)
  BY <1>1 DEF InUse
<1>4. CASE Expired(r, i)
  BY <1>2, <1>4 DEF Expired, HasTimer, TimeoutOf
<1>5. CASE Several /\ MergeCtx \in done[r] /\ Expired(r, MergeCtx)
  BY <1>2, <1>5 DEF Expired, TimeoutOf
<1>6. CASE ShadowCtx \in done[r]
  <2>1. Expired(r, ShadowCtx)
    <3>1. EndedOK(r, ShadowCtx) /\ Parent(ShadowCtx) = Background
      BY <1>1, ContextsAre DEF Parent
    <3> QED
      BY <1>2, <1>3, <1>6, <3>1 DEF EndedOK
  <2>2. lived[r] - since[r][ShadowCtx] >= maxTimeout
    BY <1>2, <2>1 DEF Expired, TimeoutOf
  <2>3. lived[r] \in Nat /\ since[r][ShadowCtx] \in Nat
    BY ContextsAre DEF ContextInv, RequestsOK
  <2> QED
    BY <2>2, <2>3, MaxTimeout DEF ContextInv
<1>7. Parent(i) = (IF Several THEN MergeCtx ELSE ShadowCtx)
  BY <1>2 DEF Parent
<1>8. Parent(MergeCtx) = ShadowCtx
  BY <1>2, Distinct DEF Parent, ContextInv
<1>9. Expired(r, i) \/ Parent(i) \in done[r]
  BY <1>1, <1>3 DEF EndedOK
<1>10. Several /\ MergeCtx \in done[r] => Expired(r, MergeCtx) \/ ShadowCtx \in done[r]
  BY <1>1, <1>3, <1>8, ContextsAre DEF EndedOK
<1> QED
  BY <1>4, <1>5, <1>6, <1>7, <1>9, <1>10

\* The steps of the server are those of the requests, or none of theirs.
LEMMA ServerLetsIn ==
  /\ Init => InitRequests
  /\ [Next]_vars => [\E r \in Request : RequestStep(r)]_shadowVars
<1>1. Init => InitRequests
  BY DEF Init
<1>2. ASSUME [Next]_vars PROVE [\E r \in Request : RequestStep(r)]_shadowVars
  <2>1. CASE RunServer
    BY <2>1 DEF RunServer, ConfigFails, StartListener, ListenerReports, BeginShutdown, Drained,
                ShutdownExpires, Serves, shadowVars
  <2>2. CASE ListenerStops \/ ServiceDone \/ ShutdownTimer \/ Hijack
    BY <2>2 DEF ListenerStops, ServiceDone, ShutdownTimer, Hijack, shadowVars
  <2>3. ASSUME NEW r \in Request, Accept(r) \/ AcceptH2C(r)
        PROVE  \E q \in Request : RequestStep(q)
    BY <2>3 DEF Accept, AcceptH2C, RequestStep
  <2>4. CASE Requests
    BY <2>4 DEF Requests, RequestStep
  <2>5. CASE UNCHANGED vars
    BY <2>5 DEF vars, shadowVars
  <2> QED
    BY <1>2, <2>1, <2>2, <2>3, <2>4, <2>5 DEF Next, Terminated
<1> QED
  BY <1>1, <1>2

\* For any configuration and any number of requests, alone or let in by the
\* server: a shadow's call is cut only after the longest time that any shadow
\* asks for, or the merge's or its own share of the timeout; never because the
\* handler's context ended (shadow.go:112-124, 168-174).
THEOREM ShadowsAreDetached == (ShadowSpec \/ Spec) => ShadowIsDetached
<1> DEFINE Steps == \E r \in Request : RequestStep(r)
           Detached ==
             [\A r \in Request, i \in shadows : Cut(r, i) =>
                \/ \A j \in shadows : lived[r] >= Duration(backends[j])
                \/ Several /\ lived[r] - since[r][MergeCtx] >= (85 * Timeout) \div 100
                \/ backends[i].concurrent
                   /\ lived[r] - since[r][i] >= (75 * Timeout) \div 100]_shadowVars
<1>1. InitRequests => ContextInv
  BY ContextInit
<1>2. ContextInv /\ [Steps]_shadowVars => ContextInv'
  BY ContextStep
<1>3. ASSUME ContextInv, [Steps]_shadowVars PROVE Detached
  <2>1. CASE UNCHANGED shadowVars
    BY <2>1
  <2>2. ASSUME NEW q \in Request, RequestStep(q), NEW r \in Request, NEW i \in shadows, Cut(r, i)
        PROVE  \/ \A j \in shadows : lived[r] >= Duration(backends[j])
               \/ Several /\ lived[r] - since[r][MergeCtx] >= (85 * Timeout) \div 100
               \/ backends[i].concurrent /\ lived[r] - since[r][i] >= (75 * Timeout) \div 100
    <3>1. i \in done[r] /\ calls[r][i] = "open"
      BY <1>3, <2>2, CutWhenDone DEF ContextInv, Cut
    <3> QED
      BY <1>3, <3>1, EndHasReason
  <2> QED
    BY <1>3, <2>1, <2>2
<1>4. /\ Init => InitRequests
      /\ [Next]_vars => [Steps]_shadowVars
  BY ServerLetsIn
<1>5. InitRequests /\ [][Steps]_shadowVars => ShadowIsDetached
  BY <1>1, <1>2, <1>3, PTL DEF ShadowIsDetached
<1>6. ShadowSpec => InitRequests /\ [][Steps]_shadowVars
  BY PTL DEF ShadowSpec
<1>7. Spec => InitRequests /\ [][Steps]_shadowVars
  BY <1>4, PTL DEF Spec
<1> QED
  BY <1>5, <1>6, <1>7, PTL

---------------------------------------------------------------------------
(* The async agents.                                                       *)

Configurations == [pipe : BOOLEAN, retries : Retries, strategy : Strategies,
                   acceptedBy : SUBSET (1..Factories)]

AgentsTypeOK ==
  /\ factories \in {0, Factories}
  /\ agents \in [Agent -> Configurations]
  /\ MaxRetries \in [Agent -> Int]
  /\ starter \in [agent : 1..(Agents + 1), factory : 0..Factories]
  /\ runs \in [Agent -> {"none", "connects", "pauses", "consumes", "ended"}]
  /\ factory \in [Agent -> 0..Factories]
  /\ attempts \in [Agent -> Nat]
  /\ DOMAIN pause = Agent
  /\ groupErr \in 0..Agents

\* What Start owes to agent a once it is past it.
StartedOK(a) ==
  IF factories > 0 /\ starter.agent > a /\ agents[a].pipe /\ agents[a].acceptedBy # {}
    THEN /\ runs[a] # "none" /\ factory[a] \in agents[a].acceptedBy
         /\ \A f \in agents[a].acceptedBy : factory[a] <= f
    ELSE runs[a] = "none"

\* The limit that an agent was started with.
Limit(a) == IF agents[a].retries <= 0 THEN MaxInt ELSE agents[a].retries

LimitOK(a) == /\ MaxRetries[a] \in {agents[a].retries, Limit(a)}
              /\ runs[a] # "none" => MaxRetries[a] = Limit(a)

\* What agent a made of it; the one whose error the group keeps has ended.
RetriesOK(a) ==
  /\ attempts[a] <= MaxInt
  /\ agents[a].retries > 0 => attempts[a] <= agents[a].retries + 1
  /\ groupErr = a => /\ runs[a] = "ended"
                     /\ agents[a].retries > 0 /\ attempts[a] = agents[a].retries + 1
  /\ pause[a] > 0 \/ (agents[a].strategy = "linear" /\ attempts[a] = 1)

\* Start asks the factories in their order, with the limit already stored.
StarterOK ==
  starter.factory > 0 =>
    /\ factories > 0 /\ starter.factory <= factories
    /\ starter.agent \in Agent
    /\ agents[starter.agent].pipe
    /\ MaxRetries[starter.agent] = Limit(starter.agent)
    /\ \A f \in agents[starter.agent].acceptedBy : starter.factory <= f

AgentsInv == /\ AgentsTypeOK /\ StarterOK
             /\ \A a \in Agent : StartedOK(a) /\ LimitOK(a) /\ RetriesOK(a)

\* A configured number of retries is below the greatest int.
LEMMA RetriesBound == \A n \in Retries : n \in Int /\ n < MaxInt
BY AgentsAssumption

\* The invariant of the agents holds before Start runs.
LEMMA AgentsInitially == AgentsInit => AgentsInv
<1> SUFFICES ASSUME AgentsInit PROVE AgentsInv
  OBVIOUS
<1> USE AgentsAssumption DEF AgentsInit, AnyAgents, NoAgents
<1>1. AgentsTypeOK
  <2>1. ASSUME NEW a \in Agent PROVE agents[a].retries \in Int
    OBVIOUS
  <2> QED
    BY <2>1 DEF AgentsTypeOK, Configurations, Agent
<1>2. StarterOK
  BY DEF StarterOK
<1>3. ASSUME NEW a \in Agent
      PROVE  StartedOK(a) /\ LimitOK(a) /\ RetriesOK(a)
  <2>1. agents[a].retries \in Int /\ ~(1 > a) /\ a # 0
    <3>1. agents[a].retries \in Retries
      BY <1>3
    <3>2. PICK n \in Retries : n = agents[a].retries
      BY <3>1
    <3>3. n \in Int
      BY RetriesBound
    <3>4. a \in Nat /\ a > 0
      BY <1>3 DEF Agent
    <3> QED
      BY <3>2, <3>3, <3>4
  <2>2. /\ starter.agent = 1 /\ runs[a] = "none" /\ MaxRetries[a] = agents[a].retries
        /\ attempts[a] = 0 /\ pause[a] = 1 /\ groupErr = 0
    BY <1>3
  <2>3. StartedOK(a)
    BY <2>1, <2>2 DEF StartedOK
  <2>4. LimitOK(a)
    BY <2>1, <2>2 DEF LimitOK
  <2>5. RetriesOK(a)
    BY <2>1, <2>2 DEF RetriesOK
  <2> QED
    BY <2>3, <2>4, <2>5
<1> QED
  BY <1>1, <1>2, <1>3 DEF AgentsInv

\* What is known of the types of one agent.
LEMMA OneAgent ==
  ASSUME AgentsTypeOK, NEW a \in Agent
  PROVE  /\ a \in Nat \ {0} /\ agents[a] \in Configurations /\ agents[a].retries \in Int
         /\ agents[a].retries < MaxInt /\ agents[a].acceptedBy \subseteq 1..Factories
         /\ Limit(a) \in Int /\ MaxRetries[a] \in Int /\ attempts[a] \in Nat
         /\ starter.agent \in Nat /\ starter.factory \in Nat
<1>1. a \in Nat \ {0}
  BY AgentsAssumption DEF Agent
<1>2. agents[a] \in Configurations
  BY DEF AgentsTypeOK
<1>3. agents[a].retries \in Retries /\ agents[a].acceptedBy \in SUBSET (1..Factories)
  BY <1>2 DEF Configurations
<1>4. agents[a].retries \in Int /\ agents[a].retries < MaxInt /\ MaxInt \in Int
  <2>1. PICK n \in Retries : n = agents[a].retries
    BY <1>3
  <2>2. n \in Int /\ n < MaxInt
    BY RetriesBound
  <2> QED
    BY <2>1, <2>2, AgentsAssumption
<1>5. Limit(a) \in Int
  BY <1>4 DEF Limit
<1>6. MaxRetries[a] \in Int /\ attempts[a] \in Nat
  BY DEF AgentsTypeOK
<1>7. starter.agent \in Nat /\ starter.factory \in Nat
  BY AgentsAssumption DEF AgentsTypeOK
<1> QED
  BY <1>1, <1>2, <1>3, <1>4, <1>5, <1>6, <1>7

\* The next agent (asyncagent.go:60-82): its pipe cannot be built.
LEMMA PipeFailsStep == ASSUME AgentsInv, PipeFails PROVE AgentsInv'
<1> USE AgentsAssumption DEF PipeFails, Starting, NextAgent, agentConf
<1>1. AgentsTypeOK'
  BY DEF AgentsInv, AgentsTypeOK
<1>2. StarterOK'
  BY DEF StarterOK
<1>3. ASSUME NEW a \in Agent PROVE (StartedOK(a) /\ LimitOK(a) /\ RetriesOK(a))'
  <2>1. LimitOK(a)' /\ RetriesOK(a)'
    BY <1>3 DEF AgentsInv, LimitOK, Limit, RetriesOK
  <2>2. starter'.agent = starter.agent + 1 /\ (starter'.agent > a => starter.agent > a \/ starter.agent = a)
    <3>1. a \in Nat /\ starter.agent \in Nat
      BY <1>3, OneAgent DEF AgentsInv
    <3>2. starter'.agent = starter.agent + 1
      BY ONLY PipeFails DEF PipeFails, NextAgent
    <3> QED
      BY ONLY <3>1, <3>2
  <2>3. starter.agent > a => starter'.agent > a
    BY <1>3, <2>2, OneAgent DEF AgentsInv
  <2>4. StartedOK(a)'
    BY <1>3, <2>2, <2>3 DEF AgentsInv, StartedOK
  <2> QED
    BY <2>1, <2>4
<1> QED
  BY <1>1, <1>2, <1>3 DEF AgentsInv

\* The default of MaxRetries is stored (asyncagent.go:84-86).
LEMMA PipeIsBuiltStep == ASSUME AgentsInv, PipeIsBuilt PROVE AgentsInv'
<1> USE AgentsAssumption DEF PipeIsBuilt, Starting, agentConf
<1> DEFINE s == starter.agent
<1>1. s \in Agent /\ starter'.agent = s /\ starter'.factory = 1
  BY DEF AgentsInv, AgentsTypeOK, Agent
<1>2. factories = Factories /\ Factories > 0
  BY DEF AgentsInv, AgentsTypeOK
<1>3. runs[s] = "none"
  <2>1. ~(starter.agent > s)
    BY <1>1, OneAgent DEF AgentsInv
  <2> QED
    BY <1>1, <2>1 DEF AgentsInv, StartedOK
<1>4. MaxRetries' = [MaxRetries EXCEPT ![s] = IF MaxRetries[s] <= 0 THEN MaxInt ELSE MaxRetries[s]]
  OBVIOUS
<1>5. AgentsTypeOK'
  BY <1>1, <1>2, <1>4 DEF AgentsInv, AgentsTypeOK
<1>6. \A a \in Agent : MaxRetries'[a] # MaxRetries[a] => a = s /\ MaxRetries[s] <= 0 /\ MaxRetries'[s] = MaxInt
  BY <1>1, <1>4 DEF AgentsInv, AgentsTypeOK
<1>7. MaxRetries'[s] = Limit(s)
  <2>1. MaxRetries[s] \in {agents[s].retries, Limit(s)} /\ agents[s].retries \in Int
    BY <1>1, OneAgent DEF AgentsInv, LimitOK
  <2>2. MaxRetries'[s] = IF MaxRetries[s] <= 0 THEN MaxInt ELSE MaxRetries[s]
    BY <1>1, <1>4 DEF AgentsInv, AgentsTypeOK
  <2> QED
    BY <2>1, <2>2 DEF Limit
<1>8. StarterOK'
  <2>1. \A f \in agents[s].acceptedBy : 1 <= f
    BY <1>1, OneAgent DEF AgentsInv
  <2> QED
    BY <1>1, <1>2, <1>7, <2>1 DEF StarterOK, Limit
<1>9. ASSUME NEW a \in Agent PROVE (StartedOK(a) /\ LimitOK(a) /\ RetriesOK(a))'
  <2>1. StartedOK(a)' /\ RetriesOK(a)'
    BY <1>1, <1>9 DEF AgentsInv, StartedOK, RetriesOK
  <2>2. LimitOK(a)'
    <3>1. CASE a = s
      BY <1>1, <1>3, <1>7, <1>9, <3>1 DEF LimitOK, Limit
    <3>2. CASE a # s
      BY <1>6, <1>9, <3>2 DEF AgentsInv, LimitOK, Limit
    <3> QED
      BY <3>1, <3>2
  <2> QED
    BY <2>1, <2>2
<1> QED
  BY <1>5, <1>8, <1>9 DEF AgentsInv

\* The factories are asked in their order, until one accepts (asyncagent.go:99-103).
LEMMA CallFactoryStep == ASSUME AgentsInv, CallFactory PROVE AgentsInv'
<1> USE AgentsAssumption DEF Starting, agentConf
<1> DEFINE s == starter.agent
           f == starter.factory
<1>1. /\ s \in Agent /\ f > 0 /\ f <= factories /\ factories = Factories /\ agents[s].pipe
      /\ MaxRetries[s] = Limit(s) /\ \A g \in agents[s].acceptedBy : f <= g
  BY DEF CallFactory, AgentsInv, AgentsTypeOK, StarterOK
<1>2. /\ s \in Nat /\ f \in Nat /\ starter = [agent |-> s, factory |-> f]
      /\ agents[s].acceptedBy \subseteq 1..Factories
  BY <1>1, OneAgent DEF AgentsInv, AgentsTypeOK
<1>3. UNCHANGED <<agents, factories, MaxRetries, attempts, pause, groupErr>>
  BY DEF CallFactory
<1>4. ASSUME NEW a \in Agent, a # s
      PROVE  a \in Nat /\ (s + 1 > a <=> s > a)
  BY <1>2, <1>4, OneAgent DEF AgentsInv
<1>5. runs[s] = "none"
  <2>1. ~(starter.agent > s)
    BY <1>2
  <2> QED
    BY <1>1, <2>1 DEF AgentsInv, StartedOK
<1>6. CASE f \in agents[s].acceptedBy
  <2>1. /\ runs' = [runs EXCEPT ![s] = "connects"] /\ factory' = [factory EXCEPT ![s] = f]
        /\ starter' = [agent |-> s + 1, factory |-> 0]
    BY <1>6 DEF CallFactory, NextAgent
  <2>2. AgentsTypeOK'
    BY <1>1, <1>2, <1>3, <2>1 DEF AgentsInv, AgentsTypeOK, Agent
  <2>3. StarterOK'
    BY <2>1 DEF StarterOK
  <2>4. ASSUME NEW a \in Agent PROVE (StartedOK(a) /\ LimitOK(a) /\ RetriesOK(a))'
    <3>1. CASE a = s
      <4>1. runs'[a] = "connects" /\ factory'[a] = f
        BY <1>1, <2>1, <3>1 DEF AgentsInv, AgentsTypeOK
      <4>2. StartedOK(a)'
        BY <1>1, <1>2, <1>3, <1>6, <2>1, <3>1, <4>1 DEF StartedOK
      <4>3. LimitOK(a)'
        BY <1>1, <1>3, <3>1, <4>1 DEF AgentsInv, LimitOK, Limit
      <4>4. RetriesOK(a)'
        BY <1>1, <1>3, <1>5, <3>1, <4>1 DEF AgentsInv, RetriesOK
      <4> QED
        BY <4>2, <4>3, <4>4
    <3>2. CASE a # s
      <4>1. runs'[a] = runs[a] /\ factory'[a] = factory[a] /\ (starter'.agent > a <=> starter.agent > a)
        BY <1>4, <2>1, <2>4, <3>2 DEF AgentsInv, AgentsTypeOK
      <4> QED
        BY <1>3, <2>4, <4>1 DEF AgentsInv, StartedOK, LimitOK, Limit, RetriesOK
    <3> QED
      BY <3>1, <3>2
  <2> QED
    BY <2>2, <2>3, <2>4 DEF AgentsInv
<1>7. CASE f \notin agents[s].acceptedBy /\ f < factories
  <2>1. UNCHANGED <<runs, factory>> /\ starter' = [agent |-> s, factory |-> f + 1]
    BY <1>2, <1>7 DEF CallFactory
  <2>2. AgentsTypeOK'
    BY <1>1, <1>2, <1>3, <1>7, <2>1 DEF AgentsInv, AgentsTypeOK, Agent
  <2>3. \A g \in agents[s].acceptedBy : f + 1 <= g
    BY <1>1, <1>2, <1>7
  <2>4. StarterOK'
    BY <1>1, <1>2, <1>3, <1>7, <2>1, <2>3 DEF StarterOK, Limit
  <2>5. ASSUME NEW a \in Agent PROVE (StartedOK(a) /\ LimitOK(a) /\ RetriesOK(a))'
    BY <1>3, <2>1, <2>5 DEF AgentsInv, StartedOK, LimitOK, Limit, RetriesOK
  <2> QED
    BY <2>2, <2>4, <2>5 DEF AgentsInv
<1>8. CASE f \notin agents[s].acceptedBy /\ ~(f < factories)
  <2>1. UNCHANGED <<runs, factory>> /\ starter' = [agent |-> s + 1, factory |-> 0]
    BY <1>8 DEF CallFactory, NextAgent
  <2>2. AgentsTypeOK'
    BY <1>1, <1>2, <1>3, <2>1 DEF AgentsInv, AgentsTypeOK, Agent
  <2>3. StarterOK'
    BY <2>1 DEF StarterOK
  <2>4. agents[s].acceptedBy = {}
    BY <1>1, <1>2, <1>8
  <2>5. ASSUME NEW a \in Agent PROVE (StartedOK(a) /\ LimitOK(a) /\ RetriesOK(a))'
    <3>1. LimitOK(a)' /\ RetriesOK(a)'
      BY <1>3, <2>1, <2>5 DEF AgentsInv, LimitOK, Limit, RetriesOK
    <3>2. CASE a = s
      BY <1>3, <1>5, <2>1, <2>4, <3>1, <3>2 DEF StartedOK
    <3>3. CASE a # s
      BY <1>3, <1>4, <2>1, <2>5, <3>1, <3>3 DEF AgentsInv, StartedOK
    <3> QED
      BY <3>2, <3>3, <3>1
  <2> QED
    BY <2>2, <2>3, <2>5 DEF AgentsInv
<1> QED
  BY <1>6, <1>7, <1>8

\* Steps that touch neither an agent nor what was started.
LEMMA OthersKeep ==
  ASSUME AgentsInv,
         UNCHANGED <<agentConf, MaxRetries, starter, runs, factory, attempts, pause, groupErr>>
  PROVE  AgentsInv'
<1>1. AgentsTypeOK' /\ StarterOK'
  BY DEF AgentsInv, AgentsTypeOK, StarterOK, Limit, agentConf
<1>2. ASSUME NEW a \in Agent PROVE (StartedOK(a) /\ LimitOK(a) /\ RetriesOK(a))'
  BY <1>2 DEF AgentsInv, StartedOK, LimitOK, Limit, RetriesOK, agentConf
<1> QED
  BY <1>1, <1>2 DEF AgentsInv

\* A running agent that goes on running, or ends.
LEMMA MovesKeep ==
  ASSUME AgentsInv, NEW a \in Agent, runs[a] # "none", runs[a] # "ended",
         NEW to \in {"connects", "pauses", "consumes", "ended"}, runs' = [runs EXCEPT ![a] = to],
         AgentsTypeOK', RetriesOK(a)',
         \A b \in Agent : b # a => attempts'[b] = attempts[b] /\ pause'[b] = pause[b],
         groupErr' \in {groupErr, a},
         UNCHANGED <<agentConf, MaxRetries, starter, factory>>
  PROVE  AgentsInv'
<1>1. StarterOK'
  BY DEF AgentsInv, StarterOK, Limit, agentConf
<1>2. ASSUME NEW b \in Agent
      PROVE  runs'[b] = "none" <=> runs[b] = "none"
  BY <1>2 DEF AgentsInv, AgentsTypeOK
<1>3. ASSUME NEW b \in Agent PROVE StartedOK(b)' /\ LimitOK(b)'
  BY <1>2, <1>3 DEF AgentsInv, StartedOK, LimitOK, Limit, agentConf
<1>4. ASSUME NEW b \in Agent, b # a PROVE RetriesOK(b)'
  <2>1. runs'[b] = runs[b] /\ (groupErr' = b => groupErr = b)
    BY <1>4 DEF AgentsInv, AgentsTypeOK
  <2> QED
    BY <1>4, <2>1 DEF AgentsInv, RetriesOK, agentConf
<1> QED
  BY <1>1, <1>3, <1>4 DEF AgentsInv

\* Its limit, and what it has used of it.
LEMMA Running1 ==
  ASSUME AgentsInv, NEW a \in Agent, runs[a] # "none", runs[a] # "ended"
  PROVE  /\ MaxRetries[a] = Limit(a) /\ groupErr # a
         /\ attempts[a] \in Nat /\ attempts[a] <= MaxInt /\ a \in Nat \ {0}
         /\ agents[a].retries \in Int /\ agents[a].retries < MaxInt
         /\ agents[a].retries > 0 => attempts[a] <= agents[a].retries + 1
BY OneAgent DEF AgentsInv, LimitOK, RetriesOK

\* Only the linear strategy has an empty pause, its first (backoff.go:57-74).
LEMMA Pauses ==
  ASSUME NEW strategy, NEW n \in Nat, NEW d \in Backoff(strategy, n)
  PROVE  d > 0 \/ (strategy = "linear" /\ n = 0)
<1> USE AgentsAssumption
<1>1. ASSUME NEW m \in Int, d \in jitter(m) PROVE d > 0
  <2>1. m * Second \in Int /\ (m * Second) \div 3 + 1 \in Int
    OBVIOUS
  <2> QED
    BY <1>1, <2>1 DEF jitter
<1>2. CASE strategy = "linear"
  <2>1. d = n * Second
    BY <1>2 DEF Backoff
  <2>2. n > 0 => n * Second > 0
    OBVIOUS
  <2> QED
    BY <1>2, <2>1, <2>2
<1>3. CASE strategy = "linear-jitter"
  BY <1>1, <1>3 DEF Backoff
<1>4. CASE strategy = "exponential-jitter"
  <2>1. 2 ^ n \in Int
    OBVIOUS
  <2> QED
    BY <1>1, <1>4, <2>1 DEF Backoff
<1>5. CASE strategy \notin {"linear", "linear-jitter", "exponential-jitter"}
  BY <1>5 DEF Backoff
<1> QED
  BY <1>2, <1>3, <1>4, <1>5

\* ShouldContinue (asyncagent.go:94) lets it try again, after a pause.
LEMMA RetryStep == ASSUME AgentsInv, NEW a \in Agent, Retry(a) PROVE AgentsInv'
<1> USE AgentsAssumption
<1>1. /\ runs[a] = "connects" /\ runs' = [runs EXCEPT ![a] = "pauses"]
      /\ attempts[a] <= MaxRetries[a]
      /\ UNCHANGED <<agentConf, MaxRetries, starter, factory, parent, groupCtx, groupErr, wait>>
  BY DEF Retry, Runs, ShouldContinue
<1>2. PICK d \in Backoff(agents[a].strategy, attempts[a]) : pause' = [pause EXCEPT ![a] = d]
  BY DEF Retry
<1>3. attempts' = [attempts EXCEPT ![a] = IF @ < MaxInt THEN @ + 1 ELSE @]
  BY DEF Retry
<1>4. /\ MaxRetries[a] = Limit(a) /\ groupErr # a
      /\ attempts[a] \in Nat /\ attempts[a] <= MaxInt
      /\ agents[a].retries \in Int /\ agents[a].retries < MaxInt
  BY <1>1, Running1
<1>5. attempts \in [Agent -> Nat] /\ DOMAIN pause = Agent
  BY DEF AgentsInv, AgentsTypeOK
<1>6. /\ attempts'[a] = IF attempts[a] < MaxInt THEN attempts[a] + 1 ELSE attempts[a]
      /\ attempts' \in [Agent -> Nat]
      /\ \A b \in Agent : b # a => attempts'[b] = attempts[b]
  BY <1>3, <1>5
<1>7. pause'[a] = d /\ DOMAIN pause' = Agent /\ \A b \in Agent : b # a => pause'[b] = pause[b]
  BY <1>2, <1>5
<1>8. d > 0 \/ (agents[a].strategy = "linear" /\ attempts[a] = 0)
  BY <1>4, Pauses
<1>9. attempts'[a] <= MaxInt
        /\ (agents[a].retries > 0 => attempts'[a] <= agents[a].retries + 1)
        /\ (attempts[a] = 0 => attempts'[a] = 1)
  BY <1>1, <1>4, <1>6 DEF Limit
<1>10. RetriesOK(a)'
  BY <1>1, <1>4, <1>7, <1>8, <1>9 DEF RetriesOK, agentConf
<1>11. AgentsTypeOK'
  BY <1>1, <1>6, <1>7 DEF AgentsInv, AgentsTypeOK, agentConf
<1> QED
  BY <1>1, <1>6, <1>7, <1>10, <1>11, MovesKeep

\* Its last error ends the group (errgroup keeps the first).
LEMMA GivesUpStep == ASSUME AgentsInv, NEW a \in Agent, GivesUp(a) PROVE AgentsInv'
<1> USE AgentsAssumption
<1>1. /\ runs[a] = "connects" /\ runs' = [runs EXCEPT ![a] = "ended"]
      /\ ~(attempts[a] <= MaxRetries[a])
      /\ groupErr' = IF groupErr = 0 THEN a ELSE groupErr
      /\ UNCHANGED <<agentConf, MaxRetries, starter, factory, attempts, pause>>
  BY DEF GivesUp, Runs, ShouldContinue
<1>2. /\ MaxRetries[a] = Limit(a) /\ groupErr # a
      /\ attempts[a] \in Nat /\ attempts[a] <= MaxInt
      /\ agents[a].retries \in Int /\ agents[a].retries < MaxInt
      /\ agents[a].retries > 0 => attempts[a] <= agents[a].retries + 1
  BY <1>1, Running1
<1>3. agents[a].retries > 0 /\ attempts[a] = agents[a].retries + 1
  BY <1>1, <1>2 DEF Limit
<1>4. runs'[a] = "ended"
  BY <1>1 DEF AgentsInv, AgentsTypeOK
<1>5. RetriesOK(a)'
  BY <1>1, <1>2, <1>3, <1>4 DEF AgentsInv, RetriesOK, agentConf
<1>6. AgentsTypeOK'
  BY <1>1 DEF AgentsInv, AgentsTypeOK, agentConf, Agent
<1> QED
  BY <1>1, <1>5, <1>6, MovesKeep

\* An agent connects, resumes, or hears of the end of its context.
LEMMA MoveStep ==
  ASSUME AgentsInv, NEW a \in Agent, Connects(a) \/ Resumes(a) \/ Stops(a)
  PROVE  AgentsInv'
<1>1. PICK to \in {"connects", "consumes", "ended"} :
        /\ runs[a] \in {"connects", "pauses", "consumes"} /\ runs' = [runs EXCEPT ![a] = to]
        /\ UNCHANGED <<agentConf, MaxRetries, starter, factory, attempts, pause, groupErr>>
  BY DEF Connects, Resumes, Stops, Runs
<1>2. groupErr # a
  BY <1>1, Running1
<1>3. RetriesOK(a)'
  BY <1>1, <1>2 DEF AgentsInv, RetriesOK, agentConf
<1>4. AgentsTypeOK'
  BY <1>1 DEF AgentsInv, AgentsTypeOK, agentConf
<1> QED
  BY <1>1, <1>3, <1>4, MovesKeep

\* Every step of Start, of an agent and of its pipe keeps it.
LEMMA AgentsInductive == AgentsInv /\ [AgentsNext]_agentVars => AgentsInv'
<1> SUFFICES ASSUME AgentsInv, [AgentsNext]_agentVars PROVE AgentsInv'
  OBVIOUS
<1>1. CASE NoFactory \/ Wait \/ ParentDone \/ UNCHANGED agentVars
  BY <1>1, OthersKeep DEF NoFactory, Wait, ParentDone, agentVars
<1>2. ASSUME NEW a \in Agent, Goroutine(a) PROVE AgentsInv'
  BY <1>2, RetryStep, GivesUpStep, MoveStep DEF Goroutine
<1> QED
  BY <1>1, <1>2, PipeFailsStep, PipeIsBuiltStep, CallFactoryStep DEF AgentsNext, Start, AgentsEnded

\* Whatever the other agents do, the loop of Start (asyncagent.go:60-105) starts
\* each one with its own limit and the first factory that accepts it, and
\* ShouldContinue (line 94) gives it as many retries as are configured.
THEOREM EachAgentAsConfigured == AgentsSpec => []AgentsAsConfigured
<1>1. AgentsInv => AgentsAsConfigured
  BY DEF AgentsInv, StartedOK, RetriesOK, AgentsAsConfigured
<1>2. AgentsSpec => []AgentsInv
  BY AgentsInitially, AgentsInductive, PTL DEF AgentsSpec
<1> QED
  BY <1>1, <1>2, PTL

---------------------------------------------------------------------------
(* ConfigInit: what can be written.                                        *)

Written == {"", "1s", "3s", "-1s", "soon"}
HostKinds == {"clean", "bare", "bad"}
Methods == {"", "POST"}
Encodings == {"", "json", "no-op"}
Schemes == {"", "http"}
Params == {P \in SUBSET Names : IsFiniteSet(P)}

BackendT == [Host : Seq(HostKinds), HostSanitizationDisabled : BOOLEAN, Method : Methods,
             Encoding : Encodings, URLPattern : Seq(Names), URLKeys : {<< >>}, SDScheme : Schemes,
             Timeout : {0}, ConcurrentCalls : {0}]

\* T is Written before parseDuration, Int after it.
EndpointT(T) == [forbidden : BOOLEAN, params : Params, Method : Methods, Timeout : T,
                 ConcurrentCalls : Nat, OutputEncoding : Encodings, Backend : Seq(BackendT)]

AgentT(T) == [Timeout : T, Backend : Seq(BackendT)]

ServiceT(T) == [Version : {"supported", "other"}, Address : {"", "bad"}, Host : Seq(HostKinds), Timeout : T,
                OutputEncoding : Encodings, AsyncAgents : Seq(AgentT(T)),
                Endpoints : Seq(EndpointT(T))]

\* One element of a sequence is replaced.
LEMMA SetItem ==
  ASSUME NEW S, NEW s \in Seq(S), NEW i \in DOMAIN s, NEW x \in S
  PROVE  [s EXCEPT ![i] = x] \in Seq(S)
BY ExceptSeq

\* One element is added to a sequence.
LEMMA AddItem ==
  ASSUME NEW S, NEW s \in Seq(S), NEW x \in S
  PROVE  Append(s, x) \in Seq(S)
OBVIOUS

\* The elements of a sequence.
LEMMA ItemType ==
  ASSUME NEW S, NEW s \in Seq(S), NEW i \in DOMAIN s
  PROVE  s[i] \in S
OBVIOUS

\* A sequence of one element.
LEMMA OneItem ==
  ASSUME NEW S, NEW x \in S
  PROVE  <<x>> \in Seq(S)
OBVIOUS

\* What is added to a configuration has its type.
LEMMA BlankTypes ==
  /\ AnyBackend \in BackendT
  /\ AnyEndpoint \in EndpointT(Written)
  /\ AnyAgent \in AgentT(Written)
<1>1. << >> \in Seq(HostKinds) /\ << >> \in Seq(Names) /\ << >> \in {<< >>}
  OBVIOUS
<1>2. /\ "" \in Methods /\ "" \in Encodings /\ "" \in Schemes /\ "" \in Written
      /\ 0 \in {0} /\ 0 \in Nat /\ FALSE \in BOOLEAN /\ {} \in Params
  BY FS_EmptySet DEF Methods, Encodings, Schemes, Written, Params
<1>3. AnyBackend \in BackendT
  BY <1>1, <1>2 DEF AnyBackend, BackendT
<1>4. << >> \in Seq(BackendT) /\ <<AnyBackend>> \in Seq(BackendT)
  BY <1>3, OneItem
<1>5. AnyEndpoint \in EndpointT(Written)
  BY <1>2, <1>4 DEF AnyEndpoint, EndpointT
<1>6. AnyAgent \in AgentT(Written)
  BY <1>2, <1>4 DEF AnyAgent, AgentT
<1> QED
  BY <1>3, <1>5, <1>6

\* So does the configuration before anything is set.
LEMMA ServiceInit == NoService => config \in ServiceT(Written)
<1>1. << >> \in Seq(HostKinds) /\ << >> \in Seq(AgentT(Written)) /\ << >> \in Seq(EndpointT(Written))
  OBVIOUS
<1>2. "" \in Encodings /\ "" \in Written
  BY DEF Encodings, Written
<1> SUFFICES ASSUME NoService PROVE config \in ServiceT(Written)
  OBVIOUS
<1> QED
  BY <1>1, <1>2 DEF NoService, ServiceT

\* Setting a field of an endpoint, and of a backend.
LEMMA SetEndpointType ==
  ASSUME config \in ServiceT(Written), NEW i \in DOMAIN config.Endpoints,
         NEW e \in EndpointT(Written),
         config' = [config EXCEPT !.Endpoints[i] = e]
  PROVE  config' \in ServiceT(Written)
<1>1. config.Endpoints \in Seq(EndpointT(Written))
  BY DEF ServiceT
<1>2. [config.Endpoints EXCEPT ![i] = e] \in Seq(EndpointT(Written))
  BY <1>1, SetItem
<1>3. config' = [config EXCEPT !.Endpoints = [config.Endpoints EXCEPT ![i] = e]]
  OBVIOUS
<1> QED
  BY <1>2, <1>3 DEF ServiceT

\* A backend of an endpoint is replaced.
LEMMA SetBackendType ==
  ASSUME config \in ServiceT(Written), NEW i \in DOMAIN config.Endpoints,
         NEW j \in DOMAIN config.Endpoints[i].Backend,
         NEW b \in BackendT,
         config' = [config EXCEPT !.Endpoints[i].Backend[j] = b]
  PROVE  config' \in ServiceT(Written)
<1> DEFINE e == config.Endpoints[i]
<1>1. config.Endpoints \in Seq(EndpointT(Written))
  BY DEF ServiceT
<1>2. e \in EndpointT(Written)
  BY <1>1, ItemType
<1>3. e.Backend \in Seq(BackendT)
  BY <1>2 DEF EndpointT
<1>4. [e.Backend EXCEPT ![j] = b] \in Seq(BackendT)
  BY <1>3, SetItem
<1>5. [e EXCEPT !.Backend = [e.Backend EXCEPT ![j] = b]] \in EndpointT(Written)
  BY <1>2, <1>4 DEF EndpointT
<1>6. config' = [config EXCEPT !.Endpoints[i] = [e EXCEPT !.Backend = [e.Backend EXCEPT ![j] = b]]]
  OBVIOUS
<1> QED
  BY <1>5, <1>6, SetEndpointType

\* A field of the service is set.
LEMMA SetServiceStep == config \in ServiceT(Written) /\ SetService => config' \in ServiceT(Written)
<1> SUFFICES ASSUME config \in ServiceT(Written), SetService PROVE config' \in ServiceT(Written)
  OBVIOUS
<1>1. CASE config' = [config EXCEPT !.Version = "other"]
  BY <1>1 DEF ServiceT
<1>2. CASE config' = [config EXCEPT !.Address = "bad"]
  BY <1>2 DEF ServiceT
<1>3. ASSUME NEW h \in {"bare", "bad"}, config' = [config EXCEPT !.Host = <<h>>]
      PROVE  config' \in ServiceT(Written)
  <2>1. <<h>> \in Seq(HostKinds)
    BY OneItem DEF HostKinds
  <2> QED
    BY <1>3, <2>1 DEF ServiceT
<1>4. ASSUME NEW t \in {"3s", "-1s"}, config' = [config EXCEPT !.Timeout = t]
      PROVE  config' \in ServiceT(Written)
  <2>1. t \in Written
    BY DEF Written
  <2> QED
    BY <1>4, <2>1 DEF ServiceT
<1>5. CASE config' = [config EXCEPT !.OutputEncoding = "no-op"]
  <2>1. "no-op" \in Encodings
    BY DEF Encodings
  <2> QED
    BY <1>5, <2>1 DEF ServiceT
<1> QED
  BY <1>1, <1>2, <1>3, <1>4, <1>5 DEF SetService, Set

\* An endpoint is added.
LEMMA AddEndpointStep == config \in ServiceT(Written) /\ AddEndpoint => config' \in ServiceT(Written)
<1> SUFFICES ASSUME config \in ServiceT(Written), AddEndpoint PROVE config' \in ServiceT(Written)
  OBVIOUS
<1>1. PICK n \in 0..1 :
        config' = [config EXCEPT !.Endpoints =
                      Append(@, [AnyEndpoint EXCEPT !.Backend = [j \in 1..n |-> AnyBackend]])]
  BY DEF AddEndpoint, Set
<1>2. [j \in 1..n |-> AnyBackend] \in Seq(BackendT)
  BY BlankTypes
<1>3. [AnyEndpoint EXCEPT !.Backend = [j \in 1..n |-> AnyBackend]] \in EndpointT(Written)
  BY <1>2, BlankTypes DEF EndpointT
<1>4. config.Endpoints \in Seq(EndpointT(Written))
  BY DEF ServiceT
<1>5. Append(config.Endpoints, [AnyEndpoint EXCEPT !.Backend = [j \in 1..n |-> AnyBackend]])
        \in Seq(EndpointT(Written))
  BY <1>3, <1>4, AddItem
<1> QED
  BY <1>1, <1>5 DEF ServiceT

\* A field of an endpoint is set.
LEMMA SetEndpointStep == config \in ServiceT(Written) /\ SetEndpoint => config' \in ServiceT(Written)
<1> SUFFICES ASSUME config \in ServiceT(Written), NEW i \in DOMAIN config.Endpoints,
                    \/ Set([config EXCEPT !.Endpoints[i].forbidden = TRUE])
                    \/ \E p \in Names : ~p.sequential /\ Set([config EXCEPT !.Endpoints[i].params = @ \cup {p}])
                    \/ Set([config EXCEPT !.Endpoints[i].Method = "POST"])
                    \/ \E t \in {"1s", "soon"} : Set([config EXCEPT !.Endpoints[i].Timeout = t])
                    \/ Set([config EXCEPT !.Endpoints[i].ConcurrentCalls = 2])
                    \/ \E o \in {"json", "no-op"} : Set([config EXCEPT !.Endpoints[i].OutputEncoding = o])
                    \/ Set([config EXCEPT !.Endpoints[i].Backend = Append(@, AnyBackend)])
             PROVE  config' \in ServiceT(Written)
  BY DEF SetEndpoint
<1> DEFINE e == config.Endpoints[i]
<1>1. e \in EndpointT(Written)
  BY ItemType DEF ServiceT
<1>2. CASE config' = [config EXCEPT !.Endpoints[i].forbidden = TRUE]
  <2>1. config' = [config EXCEPT !.Endpoints[i] = [e EXCEPT !.forbidden = TRUE]]
    BY <1>2
  <2>2. [e EXCEPT !.forbidden = TRUE] \in EndpointT(Written)
    BY <1>1 DEF EndpointT
  <2> QED
    BY <2>1, <2>2, SetEndpointType
<1>3. ASSUME NEW p \in Names, config' = [config EXCEPT !.Endpoints[i].params = @ \cup {p}]
      PROVE  config' \in ServiceT(Written)
  <2>1. config' = [config EXCEPT !.Endpoints[i] = [e EXCEPT !.params = e.params \cup {p}]]
    BY <1>3
  <2>2. [e EXCEPT !.params = e.params \cup {p}] \in EndpointT(Written)
    <3>1. e.params \in Params
      BY <1>1 DEF EndpointT
    <3>2. PICK P \in Params : P = e.params \cup {p}
      BY <3>1, FS_AddElement DEF Params
    <3> QED
      BY <1>1, <3>2 DEF EndpointT
  <2> QED
    BY <2>1, <2>2, SetEndpointType
<1>4. CASE config' = [config EXCEPT !.Endpoints[i].Method = "POST"]
  <2>1. config' = [config EXCEPT !.Endpoints[i] = [e EXCEPT !.Method = "POST"]]
    BY <1>4
  <2>2. [e EXCEPT !.Method = "POST"] \in EndpointT(Written)
    BY <1>1 DEF EndpointT, Methods
  <2> QED
    BY <2>1, <2>2, SetEndpointType
<1>5. ASSUME NEW t \in {"1s", "soon"}, config' = [config EXCEPT !.Endpoints[i].Timeout = t]
      PROVE  config' \in ServiceT(Written)
  <2>1. config' = [config EXCEPT !.Endpoints[i] = [e EXCEPT !.Timeout = t]] /\ t \in Written
    BY <1>5 DEF Written
  <2>2. [e EXCEPT !.Timeout = t] \in EndpointT(Written)
    BY <1>1, <2>1 DEF EndpointT
  <2> QED
    BY <2>1, <2>2, SetEndpointType
<1>6. CASE config' = [config EXCEPT !.Endpoints[i].ConcurrentCalls = 2]
  <2>1. config' = [config EXCEPT !.Endpoints[i] = [e EXCEPT !.ConcurrentCalls = 2]]
    BY <1>6
  <2>2. [e EXCEPT !.ConcurrentCalls = 2] \in EndpointT(Written)
    BY <1>1 DEF EndpointT
  <2> QED
    BY <2>1, <2>2, SetEndpointType
<1>7. ASSUME NEW o \in {"json", "no-op"}, config' = [config EXCEPT !.Endpoints[i].OutputEncoding = o]
      PROVE  config' \in ServiceT(Written)
  <2>1. config' = [config EXCEPT !.Endpoints[i] = [e EXCEPT !.OutputEncoding = o]] /\ o \in Encodings
    BY <1>7 DEF Encodings
  <2>2. [e EXCEPT !.OutputEncoding = o] \in EndpointT(Written)
    BY <1>1, <2>1 DEF EndpointT
  <2> QED
    BY <2>1, <2>2, SetEndpointType
<1>8. CASE config' = [config EXCEPT !.Endpoints[i].Backend = Append(@, AnyBackend)]
  <2>1. config' = [config EXCEPT !.Endpoints[i] = [e EXCEPT !.Backend = Append(e.Backend, AnyBackend)]]
    BY <1>8
  <2>2. Append(e.Backend, AnyBackend) \in Seq(BackendT)
    BY <1>1, BlankTypes, AddItem DEF EndpointT
  <2>3. [e EXCEPT !.Backend = Append(e.Backend, AnyBackend)] \in EndpointT(Written)
    BY <1>1, <2>2 DEF EndpointT
  <2> QED
    BY <2>1, <2>3, SetEndpointType
<1> QED
  BY <1>2, <1>3, <1>4, <1>5, <1>6, <1>7, <1>8 DEF Set

\* A field of a backend is set.
LEMMA SetBackendStep == config \in ServiceT(Written) /\ SetBackend => config' \in ServiceT(Written)
<1> SUFFICES ASSUME config \in ServiceT(Written), NEW i \in DOMAIN config.Endpoints,
                    NEW j \in DOMAIN config.Endpoints[i].Backend,
                    \/ \E h \in {"bare", "bad"} : Set([config EXCEPT !.Endpoints[i].Backend[j].Host = <<h>>])
                    \/ Set([config EXCEPT !.Endpoints[i].Backend[j].HostSanitizationDisabled = TRUE])
                    \/ Set([config EXCEPT !.Endpoints[i].Backend[j].Method = "POST"])
                    \/ \E p \in Names : Set([config EXCEPT !.Endpoints[i].Backend[j].URLPattern = Append(@, p)])
             PROVE  config' \in ServiceT(Written)
  BY DEF SetBackend
<1> DEFINE b == config.Endpoints[i].Backend[j]
<1>1. b \in BackendT
  <2>1. config.Endpoints[i] \in EndpointT(Written)
    BY ItemType DEF ServiceT
  <2> QED
    BY <2>1, ItemType DEF EndpointT
<1>2. ASSUME NEW h \in {"bare", "bad"}, config' = [config EXCEPT !.Endpoints[i].Backend[j].Host = <<h>>]
      PROVE  config' \in ServiceT(Written)
  <2>1. config' = [config EXCEPT !.Endpoints[i].Backend[j] = [b EXCEPT !.Host = <<h>>]]
    BY <1>2
  <2>2. <<h>> \in Seq(HostKinds)
    BY OneItem DEF HostKinds
  <2>3. [b EXCEPT !.Host = <<h>>] \in BackendT
    BY <1>1, <2>2 DEF BackendT
  <2> QED
    BY <2>1, <2>3, SetBackendType
<1>3. CASE config' = [config EXCEPT !.Endpoints[i].Backend[j].HostSanitizationDisabled = TRUE]
  <2>1. config' = [config EXCEPT !.Endpoints[i].Backend[j] = [b EXCEPT !.HostSanitizationDisabled = TRUE]]
    BY <1>3
  <2>2. [b EXCEPT !.HostSanitizationDisabled = TRUE] \in BackendT
    BY <1>1 DEF BackendT
  <2> QED
    BY <2>1, <2>2, SetBackendType
<1>4. CASE config' = [config EXCEPT !.Endpoints[i].Backend[j].Method = "POST"]
  <2>1. config' = [config EXCEPT !.Endpoints[i].Backend[j] = [b EXCEPT !.Method = "POST"]]
    BY <1>4
  <2>2. [b EXCEPT !.Method = "POST"] \in BackendT
    BY <1>1 DEF BackendT, Methods
  <2> QED
    BY <2>1, <2>2, SetBackendType
<1>5. ASSUME NEW p \in Names, config' = [config EXCEPT !.Endpoints[i].Backend[j].URLPattern = Append(@, p)]
      PROVE  config' \in ServiceT(Written)
  <2>1. config' = [config EXCEPT !.Endpoints[i].Backend[j] = [b EXCEPT !.URLPattern = Append(b.URLPattern, p)]]
    BY <1>5
  <2>2. Append(b.URLPattern, p) \in Seq(Names)
    BY <1>1, AddItem DEF BackendT
  <2>3. [b EXCEPT !.URLPattern = Append(b.URLPattern, p)] \in BackendT
    BY <1>1, <2>2 DEF BackendT
  <2> QED
    BY <2>1, <2>3, SetBackendType
<1> QED
  BY <1>2, <1>3, <1>4, <1>5 DEF Set

\* An agent is added, or a field of one is set.
LEMMA SetAgentStep == config \in ServiceT(Written) /\ SetAgent => config' \in ServiceT(Written)
<1> SUFFICES ASSUME config \in ServiceT(Written), SetAgent PROVE config' \in ServiceT(Written)
  OBVIOUS
<1>1. config.AsyncAgents \in Seq(AgentT(Written))
  BY DEF ServiceT
<1>2. CASE config' = [config EXCEPT !.AsyncAgents = Append(@, AnyAgent)]
  <2>1. Append(config.AsyncAgents, AnyAgent) \in Seq(AgentT(Written))
    BY <1>1, BlankTypes, AddItem
  <2> QED
    BY <1>2, <2>1 DEF ServiceT
<1>3. ASSUME NEW i \in DOMAIN config.AsyncAgents, NEW a \in AgentT(Written),
             config' = [config EXCEPT !.AsyncAgents[i] = a]
      PROVE  config' \in ServiceT(Written)
  <2>1. [config.AsyncAgents EXCEPT ![i] = a] \in Seq(AgentT(Written))
    BY <1>1, SetItem
  <2> QED
    BY <1>3, <2>1 DEF ServiceT
<1>4. ASSUME NEW i \in DOMAIN config.AsyncAgents,
             config' = [config EXCEPT !.AsyncAgents[i].Timeout = "1s"]
      PROVE  config' \in ServiceT(Written)
  <2> DEFINE a == config.AsyncAgents[i]
  <2>1. a \in AgentT(Written) /\ "1s" \in Written
    BY <1>1, ItemType DEF Written
  <2>2. [a EXCEPT !.Timeout = "1s"] \in AgentT(Written)
    BY <2>1 DEF AgentT
  <2>3. config' = [config EXCEPT !.AsyncAgents[i] = [a EXCEPT !.Timeout = "1s"]]
    BY <1>4
  <2> QED
    BY <1>3, <2>2, <2>3
<1>5. ASSUME NEW i \in DOMAIN config.AsyncAgents, NEW h \in {"bare", "bad"},
             config' = [config EXCEPT !.AsyncAgents[i].Backend[1].Host = <<h>>]
      PROVE  config' \in ServiceT(Written)
  <2> DEFINE a == config.AsyncAgents[i]
  <2>0. a \in AgentT(Written)
    BY <1>1, ItemType
  <2>1. a \in AgentT(Written) /\ a.Backend \in Seq(BackendT)
    BY <2>0 DEF AgentT
  <2>2. config' = [config EXCEPT !.AsyncAgents[i] =
                      [a EXCEPT !.Backend = [a.Backend EXCEPT ![1] = [a.Backend[1] EXCEPT !.Host = <<h>>]]]]
    BY <1>5
  <2>3. [a.Backend EXCEPT ![1] = [a.Backend[1] EXCEPT !.Host = <<h>>]] \in Seq(BackendT)
    <3>1. CASE 1 \in DOMAIN a.Backend
      <4>1. a.Backend[1] \in BackendT
        BY <2>1, <3>1, ItemType
      <4>2. <<h>> \in Seq(HostKinds)
        BY OneItem DEF HostKinds
      <4>3. [a.Backend[1] EXCEPT !.Host = <<h>>] \in BackendT
        BY <4>1, <4>2 DEF BackendT
      <4> QED
        BY <2>1, <3>1, <4>3, SetItem
    <3>2. CASE 1 \notin DOMAIN a.Backend
      <4>1. a.Backend = [k \in DOMAIN a.Backend |-> a.Backend[k]]
        BY <2>1
      <4>2. [a.Backend EXCEPT ![1] = [a.Backend[1] EXCEPT !.Host = <<h>>]] = a.Backend
        BY <3>2, <4>1
      <4> QED
        BY <2>1, <4>2
    <3> QED
      BY <3>1, <3>2
  <2>4. [a EXCEPT !.Backend = [a.Backend EXCEPT ![1] = [a.Backend[1] EXCEPT !.Host = <<h>>]]] \in AgentT(Written)
    BY <2>1, <2>3 DEF AgentT
  <2> QED
    BY <1>3, <2>2, <2>4
<1> QED
  BY <1>2, <1>4, <1>5 DEF SetAgent, Set

ServiceType == config \in ServiceT(Written)

\* Whatever is set or added.
LEMMA ServiceStep ==
  /\ config \in ServiceT(Written)
  /\ [SetService \/ AddEndpoint \/ SetEndpoint \/ SetBackend \/ SetAgent]_configVars
  => config' \in ServiceT(Written)
BY SetServiceStep, AddEndpointStep, SetEndpointStep, SetBackendStep, SetAgentStep DEF configVars

---------------------------------------------------------------------------
(* ConfigInit: conversion and defaults.                                    *)

BackendInitT == [Host : Seq(HostKinds), HostSanitizationDisabled : BOOLEAN,
                 Method : {"", "POST", "GET"}, Encoding : Encodings, URLPattern : Seq(Names),
                 URLKeys : {<< >>}, SDScheme : Schemes, Timeout : Int, ConcurrentCalls : Nat]

\* Durations are read as numbers.
LEMMA ParsedDuration == ASSUME NEW v PROVE parseDuration(v) \in Int
BY DEF parseDuration

\* A function over the items of a list.
LEMMA MapItems ==
  ASSUME NEW S, NEW T, NEW s \in Seq(S), NEW t, DOMAIN t = DOMAIN s,
         t = [i \in DOMAIN s |-> t[i]], \A i \in DOMAIN s : t[i] \in T
  PROVE  t \in Seq(T)
<1>1. DOMAIN s = 1..Len(s) /\ Len(s) \in Nat
  OBVIOUS
<1> QED
  BY <1>1

\* SafeCleanHosts leaves as many hosts, all of them clean.
LEMMA CleanHosts ==
  ASSUME NEW hosts \in Seq(HostKinds)
  PROVE  /\ SafeCleanHosts(hosts) \in Seq(HostKinds)
         /\ Range(SafeCleanHosts(hosts)) \subseteq {"clean"}
         /\ SafeCleanHosts(hosts) = << >> <=> hosts = << >>
<1>1. SafeCleanHosts(hosts) = [i \in DOMAIN hosts |-> "clean"] /\ "clean" \in HostKinds
  BY DEF SafeCleanHosts, HostKinds
<1>2. SafeCleanHosts(hosts) \in Seq(HostKinds)
  BY <1>1, MapItems
<1>3. Range(SafeCleanHosts(hosts)) \subseteq {"clean"}
  BY <1>1 DEF Range
<1>4. DOMAIN hosts = 1..Len(hosts) /\ DOMAIN SafeCleanHosts(hosts) = DOMAIN hosts
  BY <1>1
<1>5. \A h \in Seq(HostKinds) : h = << >> <=> DOMAIN h = {}
  OBVIOUS
<1> QED
  BY <1>2, <1>3, <1>4, <1>5

\* What the conversion leaves of a backend,
LEMMA NormalBackend ==
  ASSUME NEW b \in BackendT
  PROVE  /\ normalizeBackend(b) \in BackendT
         /\ normalizeBackend(b).SDScheme = "http"
         /\ normalizeBackend(b).Host = b.Host
         /\ normalizeBackend(b).HostSanitizationDisabled = b.HostSanitizationDisabled
         /\ normalizeBackend(b).Method = b.Method
         /\ normalizeBackend(b).URLPattern = b.URLPattern
BY DEF normalizeBackend, BackendT, Or, Schemes

\* of the backends of an endpoint or an agent,
LEMMA NormalBackends ==
  ASSUME NEW bs \in Seq(BackendT)
  PROVE  [j \in DOMAIN bs |-> normalizeBackend(bs[j])] \in Seq(BackendT)
<1>1. \A j \in DOMAIN bs : normalizeBackend(bs[j]) \in BackendT
  BY ItemType, NormalBackend
<1> QED
  BY <1>1, MapItems

\* of an endpoint,
LEMMA NormalEndpoint ==
  ASSUME NEW e \in EndpointT(Written)
  PROVE  /\ normalizeEndpoint(e) \in EndpointT(Int)
         /\ normalizeEndpoint(e).Timeout = parseDuration(e.Timeout)
         /\ normalizeEndpoint(e).forbidden = e.forbidden
         /\ normalizeEndpoint(e).params = e.params
         /\ normalizeEndpoint(e).Method = e.Method
         /\ normalizeEndpoint(e).ConcurrentCalls = e.ConcurrentCalls
         /\ normalizeEndpoint(e).OutputEncoding = e.OutputEncoding
         /\ DOMAIN normalizeEndpoint(e).Backend = DOMAIN e.Backend
         /\ \A j \in DOMAIN e.Backend :
              e.Backend[j] \in BackendT /\ normalizeEndpoint(e).Backend[j] = normalizeBackend(e.Backend[j])
<1> DEFINE bs == [j \in DOMAIN e.Backend |-> normalizeBackend(e.Backend[j])]
           t == parseDuration(e.Timeout)
<1>1. e.Backend \in Seq(BackendT)
  BY DEF EndpointT
<1>2. bs \in Seq(BackendT)
  BY <1>1, NormalBackends
<1>3. t \in Int
  BY ParsedDuration
<1>4. normalizeEndpoint(e) = [e EXCEPT !.Timeout = t, !.Backend = bs]
  BY DEF normalizeEndpoint
<1>5. DOMAIN bs = DOMAIN e.Backend /\ \A j \in DOMAIN e.Backend : bs[j] = normalizeBackend(e.Backend[j])
  OBVIOUS
<1>6. \A j \in DOMAIN e.Backend : e.Backend[j] \in BackendT
  BY <1>1, ItemType
<1> HIDE DEF bs, t
<1>7. /\ normalizeEndpoint(e).Timeout = t
      /\ normalizeEndpoint(e).forbidden = e.forbidden
      /\ normalizeEndpoint(e).params = e.params
      /\ normalizeEndpoint(e).Method = e.Method
      /\ normalizeEndpoint(e).ConcurrentCalls = e.ConcurrentCalls
      /\ normalizeEndpoint(e).OutputEncoding = e.OutputEncoding
      /\ normalizeEndpoint(e).Backend = bs
  BY <1>4 DEF EndpointT
<1>8. normalizeEndpoint(e) \in EndpointT(Int)
  BY <1>2, <1>3, <1>4 DEF EndpointT
<1> QED
  BY <1>4, <1>5, <1>6, <1>7, <1>8 DEF t

\* of an agent,
LEMMA NormalAgent ==
  ASSUME NEW a \in AgentT(Written)
  PROVE  /\ normalizeAgent(a) \in AgentT(Int)
         /\ normalizeAgent(a).Timeout = parseDuration(a.Timeout)
         /\ DOMAIN normalizeAgent(a).Backend = DOMAIN a.Backend
         /\ \A j \in DOMAIN a.Backend :
              a.Backend[j] \in BackendT /\ normalizeAgent(a).Backend[j] = normalizeBackend(a.Backend[j])
<1> DEFINE bs == [j \in DOMAIN a.Backend |-> normalizeBackend(a.Backend[j])]
           t == parseDuration(a.Timeout)
<1>1. a.Backend \in Seq(BackendT)
  BY DEF AgentT
<1>2. bs \in Seq(BackendT)
  BY <1>1, NormalBackends
<1>3. t \in Int
  BY ParsedDuration
<1>4. normalizeAgent(a) = [a EXCEPT !.Timeout = t, !.Backend = bs]
  BY DEF normalizeAgent
<1>5. DOMAIN bs = DOMAIN a.Backend /\ \A j \in DOMAIN a.Backend : bs[j] = normalizeBackend(a.Backend[j])
  OBVIOUS
<1>6. \A j \in DOMAIN a.Backend : a.Backend[j] \in BackendT
  BY <1>1, ItemType
<1> HIDE DEF bs, t
<1>7. normalizeAgent(a).Timeout = t /\ normalizeAgent(a).Backend = bs
  BY <1>4 DEF AgentT
<1>8. normalizeAgent(a) \in AgentT(Int)
  BY <1>2, <1>3, <1>4 DEF AgentT
<1> QED
  BY <1>4, <1>5, <1>6, <1>7, <1>8 DEF t

\* What parsing leaves of what is written.
Converted == normalizeService(config)

\* and of the service.
LEMMA ConvertedFields ==
  ASSUME config \in ServiceT(Written)
  PROVE  /\ Converted \in ServiceT(Int)
         /\ Converted.Version = config.Version /\ Converted.Address = config.Address
         /\ Converted.Host = config.Host
         /\ Converted.Timeout = parseDuration(config.Timeout)
         /\ Converted.OutputEncoding = config.OutputEncoding
         /\ DOMAIN Converted.Endpoints = DOMAIN config.Endpoints
         /\ \A i \in DOMAIN config.Endpoints :
              /\ config.Endpoints[i] \in EndpointT(Written)
              /\ Converted.Endpoints[i] = normalizeEndpoint(config.Endpoints[i])
         /\ DOMAIN Converted.AsyncAgents = DOMAIN config.AsyncAgents
         /\ \A i \in DOMAIN config.AsyncAgents :
              /\ config.AsyncAgents[i] \in AgentT(Written)
              /\ Converted.AsyncAgents[i] = normalizeAgent(config.AsyncAgents[i])
<1> DEFINE es == [i \in DOMAIN config.Endpoints |-> normalizeEndpoint(config.Endpoints[i])]
           as == [i \in DOMAIN config.AsyncAgents |-> normalizeAgent(config.AsyncAgents[i])]
           t == parseDuration(config.Timeout)
<1>1. /\ config.Endpoints \in Seq(EndpointT(Written))
      /\ config.AsyncAgents \in Seq(AgentT(Written))
  BY DEF ServiceT
<1>2. /\ \A i \in DOMAIN config.Endpoints : config.Endpoints[i] \in EndpointT(Written)
      /\ \A i \in DOMAIN config.AsyncAgents : config.AsyncAgents[i] \in AgentT(Written)
  BY <1>1, ItemType
<1>3. es \in Seq(EndpointT(Int))
  <2>1. \A i \in DOMAIN config.Endpoints : normalizeEndpoint(config.Endpoints[i]) \in EndpointT(Int)
    BY <1>2, NormalEndpoint
  <2> QED
    BY <1>1, <2>1, MapItems
<1>4. as \in Seq(AgentT(Int))
  <2>1. \A i \in DOMAIN config.AsyncAgents : normalizeAgent(config.AsyncAgents[i]) \in AgentT(Int)
    BY <1>2, NormalAgent
  <2> QED
    BY <1>1, <2>1, MapItems
<1>5. t \in Int
  BY ParsedDuration
<1>6. Converted = [config EXCEPT !.Timeout = t, !.Endpoints = es, !.AsyncAgents = as]
  BY DEF Converted, normalizeService
<1>7. /\ DOMAIN es = DOMAIN config.Endpoints
      /\ \A i \in DOMAIN config.Endpoints : es[i] = normalizeEndpoint(config.Endpoints[i])
      /\ DOMAIN as = DOMAIN config.AsyncAgents
      /\ \A i \in DOMAIN config.AsyncAgents : as[i] = normalizeAgent(config.AsyncAgents[i])
  OBVIOUS
<1> HIDE DEF es, as, t
<1>8. Converted = [Version |-> config.Version, Address |-> config.Address, Host |-> config.Host,
                   Timeout |-> t, OutputEncoding |-> config.OutputEncoding, AsyncAgents |-> as,
                   Endpoints |-> es]
  BY <1>6 DEF ServiceT
<1>9. Converted \in ServiceT(Int)
  BY <1>3, <1>4, <1>5, <1>8 DEF ServiceT
<1> QED
  BY <1>2, <1>7, <1>8, <1>9 DEF t

\* What initGlobalParams (config.go:446-466) makes of a converted service.
Global == initGlobalParams(Converted)

\* What initGlobalParams adds to it.
LEMMA GlobalFields ==
  ASSUME config \in ServiceT(Written)
  PROVE  /\ Global \in ServiceT(Int)
         /\ Global.Timeout = Or(parseDuration(config.Timeout), 0, DefaultTimeout)
         /\ Global.Host = SafeCleanHosts(config.Host)
         /\ Global.OutputEncoding = config.OutputEncoding
         /\ DOMAIN Global.Endpoints = DOMAIN config.Endpoints
         /\ \A i \in DOMAIN config.Endpoints :
              /\ config.Endpoints[i] \in EndpointT(Written)
              /\ Global.Endpoints[i] = normalizeEndpoint(config.Endpoints[i])
         /\ DOMAIN Global.AsyncAgents = DOMAIN config.AsyncAgents
         /\ \A i \in DOMAIN config.AsyncAgents :
              /\ config.AsyncAgents[i] \in AgentT(Written)
              /\ Global.AsyncAgents[i] = normalizeAgent(config.AsyncAgents[i])
<1>1. PICK h : h = SafeCleanHosts(config.Host)
  OBVIOUS
<1>2. PICK t : t = Or(parseDuration(config.Timeout), 0, DefaultTimeout)
  OBVIOUS
<1>3. h \in Seq(HostKinds) /\ t \in Int
  <2>1. config.Host \in Seq(HostKinds)
    BY DEF ServiceT
  <2> QED
    BY <1>1, <1>2, <2>1, ParsedDuration, CleanHosts DEF Or, DefaultTimeout
<1>4. Global = [Converted EXCEPT !.Timeout = t, !.Host = h]
  BY <1>1, <1>2, ConvertedFields DEF Global, initGlobalParams, ServiceT
<1>5. /\ Global \in ServiceT(Int) /\ Global.Timeout = t /\ Global.Host = h
      /\ Global.OutputEncoding = Converted.OutputEncoding
      /\ Global.Endpoints = Converted.Endpoints /\ Global.AsyncAgents = Converted.AsyncAgents
  BY <1>3, <1>4, ConvertedFields DEF ServiceT
<1> QED
  BY <1>1, <1>2, <1>5, ConvertedFields

EndpointInitT == [forbidden : BOOLEAN, params : Params, Method : {"POST", "GET"},
                  Timeout : Int, ConcurrentCalls : Nat, OutputEncoding : Encodings,
                  Backend : Seq(BackendT)]

\* What an endpoint is after initEndpointDefaults,
LEMMA DefaultEndpoint ==
  ASSUME NEW g \in ServiceT(Int), NEW e \in EndpointT(Int),
         NEW d, d = initEndpointDefaults(g, e)
  PROVE  /\ d \in EndpointInitT
         /\ d.Method # ""
         /\ d.Timeout = Or(e.Timeout, 0, g.Timeout)
         /\ d.ConcurrentCalls >= 1
         /\ d.OutputEncoding = Or(e.OutputEncoding, "", Or(g.OutputEncoding, "", "json"))
         /\ d.params = e.params
         /\ d.Backend = e.Backend
<1> DEFINE m == Or(e.Method, "", "GET")
           t == Or(e.Timeout, 0, g.Timeout)
           c == Or(e.ConcurrentCalls, 0, 1)
           o == Or(e.OutputEncoding, "", Or(g.OutputEncoding, "", "json"))
<1>1. m \in {"POST", "GET"}
  BY DEF EndpointT, Or, Methods
<1>2. t \in Int
  BY DEF EndpointT, ServiceT, Or
<1>3. c \in Nat /\ c >= 1
  BY DEF EndpointT, Or
<1>4. o \in Encodings
  BY DEF EndpointT, ServiceT, Or, Encodings
<1>5. d = [e EXCEPT !.Method = m, !.Timeout = t, !.ConcurrentCalls = c, !.OutputEncoding = o]
  BY DEF initEndpointDefaults
<1> HIDE DEF m, t, c, o
<1>6. /\ d.Method = m /\ d.Timeout = t /\ d.ConcurrentCalls = c /\ d.OutputEncoding = o
      /\ d.params = e.params /\ d.Backend = e.Backend /\ d.forbidden = e.forbidden
  BY <1>5 DEF EndpointT
<1>7. d \in EndpointInitT
  BY <1>1, <1>2, <1>3, <1>4, <1>5 DEF EndpointT, EndpointInitT
<1> QED
  BY <1>1, <1>3, <1>6, <1>7 DEF t, o

\* The hosts of a backend (config.go:468-497, 606-616): its own, or the service's.
LEMMA HostsOfBackend ==
  ASSUME config \in ServiceT(Written), NEW b \in BackendT,
         NEW h, h = BackendHosts(Global, b)
  PROVE  /\ h \in Seq(HostKinds)
         /\ config.Host # << >> => h # << >>
         /\ b.HostSanitizationDisabled \/ Range(h) \subseteq {"clean"}
<1>1. b.Host \in Seq(HostKinds) /\ config.Host \in Seq(HostKinds)
  BY DEF BackendT, ServiceT
<1>2. Global.Host = SafeCleanHosts(config.Host)
  BY GlobalFields
<1> QED
  BY <1>1, <1>2, CleanHosts DEF BackendHosts

\* a backend after initBackendDefaults,
LEMMA DefaultBackend ==
  ASSUME config \in ServiceT(Written), NEW d \in EndpointInitT, NEW b \in BackendT,
         NEW f, f = initBackendDefaults(Global, d, b)
  PROVE  /\ f \in BackendInitT
         /\ f.Host = BackendHosts(Global, b)
         /\ f.HostSanitizationDisabled = b.HostSanitizationDisabled
         /\ f.Method = Or(b.Method, "", d.Method)
         /\ d.OutputEncoding = "no-op" => f.Encoding = "no-op"
         /\ f.Timeout = d.Timeout
         /\ f.ConcurrentCalls = d.ConcurrentCalls
         /\ f.SDScheme = b.SDScheme
         /\ f.URLPattern = b.URLPattern
<1> DEFINE h == BackendHosts(Global, b)
           m == Or(b.Method, "", d.Method)
           n == IF d.OutputEncoding = "no-op" THEN "no-op" ELSE b.Encoding
<1>1. h \in Seq(HostKinds)
  BY HostsOfBackend
<1>2. m \in {"", "POST", "GET"}
  BY DEF BackendT, EndpointInitT, Methods, Or
<1>3. n \in Encodings /\ d.Timeout \in Int /\ d.ConcurrentCalls \in Nat
  BY DEF BackendT, EndpointInitT, Encodings
<1>4. f = [b EXCEPT !.Host = h, !.Method = m, !.Encoding = n, !.Timeout = d.Timeout,
                    !.ConcurrentCalls = d.ConcurrentCalls]
  BY DEF initBackendDefaults
<1>5. d.OutputEncoding = "no-op" => n = "no-op"
  OBVIOUS
<1> HIDE DEF h, m, n
<1>6. /\ f.Host = h /\ f.Method = m /\ f.Encoding = n /\ f.Timeout = d.Timeout
      /\ f.ConcurrentCalls = d.ConcurrentCalls /\ f.SDScheme = b.SDScheme
      /\ f.URLPattern = b.URLPattern /\ f.HostSanitizationDisabled = b.HostSanitizationDisabled
  BY <1>4 DEF BackendT
<1>7. f \in BackendInitT
  BY <1>1, <1>2, <1>3, <1>4 DEF BackendT, BackendInitT
<1> QED
  BY <1>5, <1>6, <1>7 DEF h, m

\* The keys that a backend's URL is filled by.
KeysFor(pattern) ==
  [k \in DOMAIN uniqueOutput(pattern).names |-> TitleFirst(uniqueOutput(pattern).names[k])]

\* and after initBackendURLMappings.
LEMMA MappedBackend ==
  ASSUME NEW f \in BackendInitT, NEW inputs, NEW m, m = initBackendURLMappings(f, inputs)
  PROVE  /\ m.Host = f.Host /\ m.HostSanitizationDisabled = f.HostSanitizationDisabled
         /\ m.Method = f.Method /\ m.Encoding = f.Encoding /\ m.Timeout = f.Timeout
         /\ m.ConcurrentCalls = f.ConcurrentCalls /\ m.SDScheme = f.SDScheme
         /\ m.URLPattern = f.URLPattern
         /\ m.URLKeys = KeysFor(f.URLPattern)
<1> DEFINE keys == KeysFor(f.URLPattern)
<1>1. m = [f EXCEPT !.URLKeys = keys]
  BY DEF initBackendURLMappings, KeysFor
<1> HIDE DEF keys
<1>2. /\ m.Host = f.Host /\ m.HostSanitizationDisabled = f.HostSanitizationDisabled
      /\ m.Method = f.Method /\ m.Encoding = f.Encoding /\ m.Timeout = f.Timeout
      /\ m.ConcurrentCalls = f.ConcurrentCalls /\ m.SDScheme = f.SDScheme
      /\ m.URLPattern = f.URLPattern /\ m.URLKeys = keys
  BY <1>1 DEF BackendInitT
<1> QED
  BY <1>2 DEF keys

HostsFollow(b) ==
  /\ config.Host # << >> => b.Host # << >>
  /\ b.HostSanitizationDisabled \/ Range(b.Host) \subseteq {"clean"}

TimeoutGiven(written) ==
  Or(parseDuration(written), 0, Or(parseDuration(config.Timeout), 0, DefaultTimeout))

\* What an endpoint, written w, hands down to a backend, written v.
HandsDown(e, v, b) ==
  /\ v \in BackendT
  /\ b.Timeout = e.Timeout /\ b.ConcurrentCalls = e.ConcurrentCalls
  /\ b.Method = Or(v.Method, "", e.Method) /\ b.Method # ""
  /\ b.SDScheme = "http"
  /\ e.OutputEncoding = "no-op" => b.Encoding = "no-op"
  /\ HostsFollow(b)
  /\ b.URLPattern = v.URLPattern
  /\ b.URLKeys = KeysFor(v.URLPattern)

\* What an agent does.
AgentHandsDown(a, b) == b.Timeout = a.Timeout /\ b.Method # "" /\ b.SDScheme = "http" /\ HostsFollow(b)

\* What Parse makes of endpoint i, written w, and of its backends.
EndpointParsed(w, e) ==
  /\ w \in EndpointT(Written)
  /\ e.Timeout = TimeoutGiven(w.Timeout)
  /\ e.ConcurrentCalls >= 1
  /\ e.params = w.params
  /\ DOMAIN e.Backend = DOMAIN w.Backend
  /\ \A j \in DOMAIN w.Backend : HandsDown(e, w.Backend[j], e.Backend[j])

\* Init gives every endpoint, and every backend of it, what it should.
LEMMA ParsedEndpoint ==
  ASSUME config \in ServiceT(Written), NEW i \in DOMAIN config.Endpoints,
         NEW w, w = config.Endpoints[i], NEW e, e = Parse(config).Endpoints[i]
  PROVE  EndpointParsed(w, e)
<1> DEFINE n == normalizeEndpoint(w)
           d == initEndpointDefaults(Global, n)
           bs == [j \in DOMAIN d.Backend |->
                    initBackendURLMappings(initBackendDefaults(Global, d, d.Backend[j]), d.params)]
<1>1. Parse(config) = [Global EXCEPT !.AsyncAgents = [k \in DOMAIN @ |-> initAsyncAgent(Global, @[k])],
                                      !.Endpoints = [k \in DOMAIN @ |-> initEndpoint(Global, @[k])]]
  BY DEF Parse, InitService, Global, Converted
<1>2. Parse(config).Endpoints = [k \in DOMAIN Global.Endpoints |-> initEndpoint(Global, Global.Endpoints[k])]
  BY <1>1, GlobalFields DEF ServiceT
<1>3. /\ w \in EndpointT(Written) /\ Global \in ServiceT(Int)
      /\ DOMAIN Parse(config).Endpoints = DOMAIN config.Endpoints
      /\ e = initEndpoint(Global, n)
  BY <1>2, GlobalFields
<1>4. n \in EndpointT(Int) /\ n.Timeout = parseDuration(w.Timeout) /\ n.params = w.params
      /\ DOMAIN n.Backend = DOMAIN w.Backend
      /\ \A j \in DOMAIN w.Backend : w.Backend[j] \in BackendT /\ n.Backend[j] = normalizeBackend(w.Backend[j])
  BY <1>3, NormalEndpoint
<1>5. /\ d \in EndpointInitT /\ d.Method # "" /\ d.Timeout = Or(n.Timeout, 0, Global.Timeout)
      /\ d.ConcurrentCalls >= 1 /\ d.params = n.params /\ d.Backend = n.Backend
  <2> HIDE DEF n
  <2> QED
    BY <1>3, <1>4, DefaultEndpoint
<1>6. e = [d EXCEPT !.Backend = bs]
  BY <1>3 DEF initEndpoint
<1> HIDE DEF n, d
<1>7. DOMAIN bs = DOMAIN w.Backend /\ \A j \in DOMAIN w.Backend :
        bs[j] = initBackendURLMappings(initBackendDefaults(Global, d, normalizeBackend(w.Backend[j])), d.params)
  BY <1>4, <1>5
<1> HIDE DEF bs
<1>8. /\ e.Timeout = d.Timeout /\ e.ConcurrentCalls = d.ConcurrentCalls /\ e.params = d.params
      /\ e.Method = d.Method /\ e.OutputEncoding = d.OutputEncoding /\ e.Backend = bs
  BY <1>5, <1>6 DEF EndpointInitT
<1>9. ASSUME NEW j \in DOMAIN w.Backend, NEW v, v = w.Backend[j], NEW b, b = e.Backend[j]
      PROVE  HandsDown(e, v, b)
  <2> DEFINE u == normalizeBackend(v)
  <2>0. PICK f : f = initBackendDefaults(Global, d, u)
    OBVIOUS
  <2>1. /\ v \in BackendT /\ u \in BackendT /\ u.SDScheme = "http" /\ u.Host = v.Host
        /\ u.HostSanitizationDisabled = v.HostSanitizationDisabled /\ u.Method = v.Method
        /\ u.URLPattern = v.URLPattern
    BY <1>4, <1>9, NormalBackend
  <2>2. PICK inputs : b = initBackendURLMappings(f, inputs)
    BY <1>7, <1>8, <1>9, <2>0
  <2> HIDE DEF u
  <2>3. /\ f \in BackendInitT /\ f.Host = BackendHosts(Global, u)
        /\ f.HostSanitizationDisabled = u.HostSanitizationDisabled
        /\ f.Method = Or(u.Method, "", d.Method)
        /\ d.OutputEncoding = "no-op" => f.Encoding = "no-op"
        /\ f.Timeout = d.Timeout /\ f.ConcurrentCalls = d.ConcurrentCalls
        /\ f.SDScheme = u.SDScheme /\ f.URLPattern = u.URLPattern
    BY <1>3, <1>5, <2>0, <2>1, DefaultBackend
  <2>4. /\ config.Host # << >> => f.Host # << >>
        /\ f.HostSanitizationDisabled \/ Range(f.Host) \subseteq {"clean"}
    BY <2>1, <2>3, HostsOfBackend
  <2>5. /\ b.Host = f.Host /\ b.HostSanitizationDisabled = f.HostSanitizationDisabled
        /\ b.Method = f.Method /\ b.Encoding = f.Encoding /\ b.Timeout = f.Timeout
        /\ b.ConcurrentCalls = f.ConcurrentCalls /\ b.SDScheme = f.SDScheme
        /\ b.URLPattern = f.URLPattern
        /\ b.URLKeys = KeysFor(f.URLPattern)
    <3>1. f \in BackendInitT
      BY <2>3
    <3> QED
      BY ONLY <2>2, <3>1, MappedBackend
  <2>6. b.Method # ""
    BY <1>5, <2>3, <2>5 DEF Or
  <2>7. /\ b.Timeout = e.Timeout /\ b.ConcurrentCalls = e.ConcurrentCalls
        /\ b.Method = Or(v.Method, "", e.Method) /\ b.SDScheme = "http"
        /\ e.OutputEncoding = "no-op" => b.Encoding = "no-op"
        /\ b.URLPattern = v.URLPattern
    BY <1>8, <2>1, <2>3, <2>5
  <2>8. b.URLKeys = KeysFor(v.URLPattern)
    BY <2>1, <2>3, <2>5
  <2> QED
    BY <2>1, <2>4, <2>5, <2>6, <2>7, <2>8 DEF HandsDown, HostsFollow
<1>10. e.Timeout = TimeoutGiven(w.Timeout)
  <2>1. Global.Timeout = Or(parseDuration(config.Timeout), 0, DefaultTimeout)
    BY GlobalFields
  <2> QED
    BY <1>4, <1>5, <1>8, <2>1 DEF TimeoutGiven
<1> QED
  BY <1>3, <1>4, <1>5, <1>7, <1>8, <1>9, <1>10 DEF EndpointParsed

\* What Parse makes of agent i and of its backends.
LEMMA ParsedAgent ==
  ASSUME config \in ServiceT(Written), NEW i \in DOMAIN config.AsyncAgents,
         NEW w, w = config.AsyncAgents[i], NEW a, a = Parse(config).AsyncAgents[i]
  PROVE  /\ w \in AgentT(Written)
         /\ DOMAIN Parse(config).AsyncAgents = DOMAIN config.AsyncAgents
         /\ a.Timeout = TimeoutGiven(w.Timeout)
         /\ DOMAIN a.Backend = DOMAIN w.Backend
         /\ \A j \in DOMAIN w.Backend : AgentHandsDown(a, a.Backend[j])
<1> DEFINE n == normalizeAgent(w)
           t == Or(n.Timeout, 0, Global.Timeout)
           d == [n EXCEPT !.Timeout = t]
           bs == [j \in DOMAIN d.Backend |-> initAsyncBackend(Global, d, d.Backend[j])]
<1>1. Parse(config) = [Global EXCEPT !.AsyncAgents = [k \in DOMAIN @ |-> initAsyncAgent(Global, @[k])],
                                      !.Endpoints = [k \in DOMAIN @ |-> initEndpoint(Global, @[k])]]
  BY DEF Parse, InitService, Global, Converted
<1>2. Parse(config).AsyncAgents
        = [k \in DOMAIN Global.AsyncAgents |-> initAsyncAgent(Global, Global.AsyncAgents[k])]
  BY <1>1, GlobalFields DEF ServiceT
<1>3. /\ w \in AgentT(Written) /\ Global \in ServiceT(Int)
      /\ DOMAIN Parse(config).AsyncAgents = DOMAIN config.AsyncAgents
      /\ a = initAsyncAgent(Global, n)
  BY <1>2, GlobalFields
<1>4. n \in AgentT(Int) /\ n.Timeout = parseDuration(w.Timeout)
      /\ DOMAIN n.Backend = DOMAIN w.Backend
      /\ \A j \in DOMAIN w.Backend : w.Backend[j] \in BackendT /\ n.Backend[j] = normalizeBackend(w.Backend[j])
  BY <1>3, NormalAgent
<1>5. a = [d EXCEPT !.Backend = bs]
  BY <1>3, <1>4 DEF initAsyncAgent, AgentT
<1> HIDE DEF n
<1>6. t \in Int
  BY <1>3, <1>4 DEF AgentT, ServiceT, Or
<1> HIDE DEF t
<1>7. d \in AgentT(Int) /\ d.Timeout = t /\ d.Backend = n.Backend
  BY <1>4, <1>6 DEF AgentT
<1> HIDE DEF d
<1>8. DOMAIN bs = DOMAIN w.Backend
  BY <1>4, <1>7
<1>9. ASSUME NEW j \in DOMAIN w.Backend, NEW b, b = bs[j]
      PROVE  b.Timeout = t /\ b.Method # "" /\ b.SDScheme = "http" /\ HostsFollow(b)
  <2> DEFINE u == normalizeBackend(w.Backend[j])
             h == BackendHosts(Global, u)
             m == Or(u.Method, "", "GET")
  <2>1. u \in BackendT /\ u.SDScheme = "http" /\ d.Backend[j] = u
    BY <1>4, <1>7, <1>9, NormalBackend
  <2>2. b = [u EXCEPT !.Host = h, !.Method = m, !.Timeout = t]
    BY <1>4, <1>7, <1>9, <2>1 DEF initAsyncBackend
  <2> HIDE DEF u
  <2>3. m # ""
    BY DEF Or
  <2>4. /\ config.Host # << >> => h # << >>
        /\ u.HostSanitizationDisabled \/ Range(h) \subseteq {"clean"}
    BY <2>1, HostsOfBackend
  <2> HIDE DEF h, m
  <2>5. /\ b.Host = h /\ b.Method = m /\ b.Timeout = t /\ b.SDScheme = u.SDScheme
        /\ b.HostSanitizationDisabled = u.HostSanitizationDisabled
    BY <2>1, <2>2 DEF BackendT
  <2> QED
    BY <2>1, <2>3, <2>4, <2>5 DEF HostsFollow
<1> HIDE DEF bs
<1>10. a.Timeout = t /\ a.Backend = bs
  BY <1>5, <1>7 DEF AgentT
<1>11. t = TimeoutGiven(w.Timeout)
  BY <1>4, GlobalFields DEF t, TimeoutGiven
<1>12. \A j \in DOMAIN w.Backend : AgentHandsDown(a, a.Backend[j])
  BY <1>9, <1>10 DEF AgentHandsDown
<1> QED
  BY <1>3, <1>8, <1>10, <1>11, <1>12

\* Init leaves as many endpoints and agents.
LEMMA SameItems ==
  ASSUME config \in ServiceT(Written)
  PROVE  /\ DOMAIN Parse(config).Endpoints = DOMAIN config.Endpoints
         /\ DOMAIN Parse(config).AsyncAgents = DOMAIN config.AsyncAgents
<1>1. Parse(config) = [Global EXCEPT !.AsyncAgents = [k \in DOMAIN @ |-> initAsyncAgent(Global, @[k])],
                                      !.Endpoints = [k \in DOMAIN @ |-> initEndpoint(Global, @[k])]]
  BY DEF Parse, InitService, Global, Converted
<1>2. /\ Parse(config).Endpoints
           = [k \in DOMAIN Global.Endpoints |-> initEndpoint(Global, Global.Endpoints[k])]
      /\ Parse(config).AsyncAgents
           = [k \in DOMAIN Global.AsyncAgents |-> initAsyncAgent(Global, Global.AsyncAgents[k])]
  BY <1>1, GlobalFields DEF ServiceT
<1> QED
  BY <1>2, GlobalFields

\* Accepted or not: what Init hands down, it hands down.
LEMMA AllFollow == config \in ServiceT(Written) => BackendsFollow
<1> SUFFICES ASSUME config \in ServiceT(Written) PROVE BackendsFollow
  OBVIOUS
<1> DEFINE HasHosts(b) == /\ config.Host # << >> => b.Host # << >>
                          /\ b.HostSanitizationDisabled \/ Range(b.Host) \subseteq {"clean"}
           Follows(t, written) ==
             IF parseDuration(written) # 0 THEN t = parseDuration(written)
             ELSE t = Or(parseDuration(config.Timeout), 0, DefaultTimeout)
<1>1. ASSUME NEW i \in DOMAIN Parse(config).Endpoints, NEW e, e = Parse(config).Endpoints[i]
      PROVE  /\ Follows(e.Timeout, config.Endpoints[i].Timeout) /\ e.ConcurrentCalls >= 1
             /\ \A j \in DOMAIN e.Backend : LET b == e.Backend[j] IN
                  /\ b.Timeout = e.Timeout /\ b.ConcurrentCalls = e.ConcurrentCalls
                  /\ b.Method = Or(config.Endpoints[i].Backend[j].Method, "", e.Method)
                  /\ b.Method # "" /\ b.SDScheme # ""
                  /\ e.OutputEncoding = "no-op" => b.Encoding = "no-op"
                  /\ HasHosts(b)
  <2>1. i \in DOMAIN config.Endpoints
    BY <1>1, SameItems
  <2>2. PICK w : w = config.Endpoints[i]
    OBVIOUS
  <2>3. EndpointParsed(w, e)
    BY <1>1, <2>1, <2>2, ParsedEndpoint
  <2>4. Follows(e.Timeout, w.Timeout)
    BY <2>3 DEF Or, TimeoutGiven, EndpointParsed
  <2> HIDE DEF Follows
  <2> QED
    BY <2>2, <2>3, <2>4 DEF HandsDown, HostsFollow, EndpointParsed
<1>2. ASSUME NEW i \in DOMAIN Parse(config).AsyncAgents, NEW a, a = Parse(config).AsyncAgents[i]
      PROVE  \A j \in DOMAIN a.Backend : LET b == a.Backend[j] IN
               /\ b.Timeout = a.Timeout /\ Follows(b.Timeout, config.AsyncAgents[i].Timeout)
               /\ b.Method # "" /\ b.SDScheme # "" /\ HasHosts(b)
  <2>1. i \in DOMAIN config.AsyncAgents
    BY <1>2, SameItems
  <2>2. PICK w : w = config.AsyncAgents[i]
    OBVIOUS
  <2>3. /\ a.Timeout = TimeoutGiven(w.Timeout)
        /\ DOMAIN a.Backend = DOMAIN w.Backend
        /\ \A j \in DOMAIN w.Backend : AgentHandsDown(a, a.Backend[j])
    BY <1>2, <2>1, <2>2, ParsedAgent
  <2>4. Follows(a.Timeout, w.Timeout)
    BY <2>3 DEF Or, TimeoutGiven
  <2> HIDE DEF Follows
  <2> QED
    BY <2>2, <2>3, <2>4 DEF AgentHandsDown, HostsFollow
<1> QED
  BY <1>1, <1>2 DEF BackendsFollow

\* Every configuration that can be written has its type.
LEMMA ServiceIsTyped == ConfigSpec => []ServiceType
<1>1. NoService => ServiceType
  BY ServiceInit DEF ServiceType
<1>2. ServiceType /\ [SetService \/ AddEndpoint \/ SetEndpoint \/ SetBackend \/ SetAgent]_configVars
      => ServiceType'
  BY ServiceStep DEF ServiceType
<1> QED
  BY <1>1, <1>2, PTL DEF ConfigSpec

\* Init (config.go:409-628) hands the service's values down, whatever is written
\* in a configuration.
THEOREM ValuesAreHandedDown == ConfigSpec => []BackendsFollow
<1>1. ServiceType => BackendsFollow
  BY AllFollow DEF ServiceType
<1> QED
  BY <1>1, ServiceIsTyped, PTL

\* Names in the order of sort.Strings.
Ordered(s) == \A i, j \in DOMAIN s : i < j => Place[s[i]] <= Place[s[j]]

\* A list of names can be sorted: each goes to the place that the number of
\* those before it says.
LEMMA CanBeSorted ==
  ASSUME NEW s \in Seq(Names)
  PROVE  \E p \in Bijection(DOMAIN s, DOMAIN s) :
           \A i, j \in DOMAIN s : i < j => Place[s[p[i]]] <= Place[s[p[j]]]
<1> DEFINE n == Len(s)
           Before(i) == {j \in 1..n : Place[s[j]] < Place[s[i]] \/ (Place[s[j]] = Place[s[i]] /\ j < i)}
           rank == [i \in 1..n |-> Cardinality(Before(i)) + 1]
<1>1. n \in Nat /\ DOMAIN s = 1..n /\ IsFiniteSet(1..n) /\ Cardinality(1..n) = n
  <2>1. n \in Nat /\ DOMAIN s = 1..n
    OBVIOUS
  <2> HIDE DEF n
  <2>2. IsFiniteSet(1..n) /\ Cardinality(1..n) = IF 1 > n THEN 0 ELSE n - 1 + 1
    BY <2>1, FS_Interval
  <2> QED
    BY <2>1, <2>2
<1>2. \A i \in 1..n : Place[s[i]] \in Int
  BY NamesAssumption DEF Injection, IsInjective
<1> HIDE DEF n
<1>3. ASSUME NEW i \in 1..n PROVE IsFiniteSet(Before(i)) /\ i \notin Before(i) /\ Before(i) \in SUBSET (1..n)
  <2>1. Before(i) \in SUBSET (1..n) /\ i \notin Before(i)
    BY <1>2
  <2> HIDE DEF Before
  <2> QED
    BY <1>1, <2>1, FS_Subset
<1>4. ASSUME NEW i \in 1..n PROVE Cardinality(Before(i)) \in 0..(n - 1)
  <2> HIDE DEF Before
  <2>1. IsFiniteSet((1..n) \ {i}) /\ Cardinality((1..n) \ {i}) = n - 1
    BY <1>1, FS_RemoveElement
  <2>2. Before(i) \in SUBSET ((1..n) \ {i})
    BY <1>3
  <2>3. Cardinality(Before(i)) <= n - 1
    BY <2>1, <2>2, FS_Subset
  <2> QED
    BY <1>1, <1>3, <2>3, FS_CardinalityType
<1>5. rank \in [1..n -> 1..n]
  <2> HIDE DEF Before
  <2> QED
    BY <1>1, <1>4
<1>6. ASSUME NEW i \in 1..n, NEW j \in 1..n, i \in Before(j)
      PROVE  rank[i] < rank[j]
  <2>1. Before(i) \in SUBSET Before(j)
    BY <1>1, <1>2, <1>6
  <2>2. i \notin Before(i)
    BY <1>3
  <2> HIDE DEF Before
  <2>3. /\ Cardinality(Before(i)) <= Cardinality(Before(j))
        /\ Cardinality(Before(i)) # Cardinality(Before(j))
    BY <1>3, <1>6, <2>1, <2>2, FS_Subset
  <2> QED
    BY <1>4, <2>3
<1>7. ASSUME NEW i \in 1..n, NEW j \in 1..n, i # j
      PROVE  i \in Before(j) \/ j \in Before(i)
  BY <1>1, <1>2, <1>7
<1> HIDE DEF rank
<1>8. \A i, j \in 1..n : rank[i] = rank[j] => i = j
  <2> HIDE DEF Before
  <2>1. \A i \in 1..n : rank[i] \in Int
    BY <1>1, <1>5
  <2> QED
    BY <1>6, <1>7, <2>1
<1>9. rank \in Injection(1..n, 1..n) /\ rank \in Surjection(1..n, 1..n)
  <2>1. rank \in Injection(1..n, 1..n)
    BY <1>5, <1>8 DEF Injection, IsInjective
  <2> QED
    BY <1>1, <2>1, FS_Injection
<1> DEFINE p == [k \in 1..n |-> CHOOSE i \in 1..n : rank[i] = k]
<1>10. ASSUME NEW k \in 1..n PROVE p[k] \in 1..n /\ rank[p[k]] = k
  BY <1>9 DEF Surjection
<1> HIDE DEF p
<1>11. p \in [1..n -> 1..n]
  BY <1>10 DEF p
<1>12. p \in Injection(1..n, 1..n)
  BY <1>10, <1>11 DEF Injection, IsInjective
<1>13. p \in Bijection(1..n, 1..n)
  <2>1. p \in Surjection(1..n, 1..n)
    BY <1>1, <1>12, FS_Injection
  <2> QED
    BY <1>12, <2>1 DEF Bijection
<1>14. ASSUME NEW i \in 1..n, NEW j \in 1..n, i < j
       PROVE  Place[s[p[i]]] <= Place[s[p[j]]]
  <2>1. p[i] # p[j] /\ rank[p[i]] = i /\ rank[p[j]] = j /\ p[i] \in 1..n /\ p[j] \in 1..n
    BY <1>10, <1>14
  <2>2. p[j] \notin Before(p[i])
    <3> HIDE DEF Before
    <3> QED
      BY <1>1, <1>6, <1>14, <2>1
  <2>3. p[i] \in Before(p[j])
    <3> HIDE DEF Before
    <3> QED
      BY <1>7, <2>1, <2>2
  <2> QED
    BY <1>2, <2>1, <2>3
<1> QED
  BY <1>1, <1>13, <1>14

\* sort.Strings orders the names it is given.
LEMMA SortedList ==
  ASSUME NEW s \in Seq(Names), NEW t, t = Sorted(s)
  PROVE  t \in Seq(Names) /\ Len(t) = Len(s) /\ Range(t) = Range(s) /\ Ordered(t)
<1> DEFINE Good(p) == \A i, j \in DOMAIN s : i < j => Place[s[p[i]]] <= Place[s[p[j]]]
           order == CHOOSE p \in Bijection(DOMAIN s, DOMAIN s) : Good(p)
<1>1. order \in Bijection(DOMAIN s, DOMAIN s) /\ Good(order)
  BY CanBeSorted
<1>2. t = [i \in DOMAIN s |-> s[order[i]]]
  BY DEF Sorted
<1> HIDE DEF order
<1>3. order \in [DOMAIN s -> DOMAIN s] /\ \A i \in DOMAIN s : \E j \in DOMAIN s : order[j] = i
  BY <1>1 DEF Bijection, Injection, Surjection
<1>4. DOMAIN s = 1..Len(s) /\ Len(s) \in Nat
  OBVIOUS
<1>5. t \in Seq(Names) /\ Len(t) = Len(s)
  BY <1>2, <1>3, <1>4
<1>6. Range(t) = Range(s)
  BY <1>2, <1>3 DEF Range
<1>7. Ordered(t)
  BY <1>1, <1>2, <1>3 DEF Ordered
<1> QED
  BY <1>5, <1>6, <1>7

---------------------------------------------------------------------------
(* ConfigInit: uniqueOutput (config.go:680-698).                            *)

Found == [names : Seq(Names) \ {<< >>}, size : Nat]

\* The kept names that are counted: all but the last, if no response has them.
Counted(names) == {a \in 1..(Len(names) - 1) : ~names[a].sequential}

\* What is kept once the first k names of t are met.
Met(t, u, k) ==
  /\ u \in Found
  /\ Range(u.names) = {t[j] : j \in 1..k}
  /\ u.names[Len(u.names)] = t[k]
  /\ \A a, b \in DOMAIN u.names : a < b => Place[u.names[a]] < Place[u.names[b]]
  /\ u.size = Cardinality(Counted(u.names))

\* The names that count are finite in number.
LEMMA CountedIsFinite ==
  ASSUME NEW names \in Seq(Names)
  PROVE  IsFiniteSet(Counted(names)) /\ Cardinality(Counted(names)) \in Nat
<1>1. Len(names) - 1 \in Int /\ Counted(names) \in SUBSET (1..(Len(names) - 1))
  BY DEF Counted
<1>2. IsFiniteSet(1..(Len(names) - 1))
  BY <1>1, FS_Interval
<1> QED
  BY <1>1, <1>2, FS_Subset, FS_CardinalityType

\* The loop of uniqueOutput keeps its types.
LEMMA MetType ==
  ASSUME NEW u \in Found, NEW o \in Names
  PROVE  Meet(u, o) \in Found
<1>1. u.names \in Seq(Names) /\ u.size \in Nat /\ u \in [names : Seq(Names) \ {<< >>}, size : Nat]
  BY DEF Found
<1>2. Append(u.names, o) \in Seq(Names) \ {<< >>}
  BY <1>1
<1>3. u.size + (IF Last(u.names).sequential THEN 0 ELSE 1) \in Nat
  BY <1>1
<1> QED
  BY <1>1, <1>2, <1>3 DEF Meet, Found

\* No two names have the same place.
LEMMA Places ==
  /\ \A x \in Names : Place[x] \in Int
  /\ \A x, y \in Names : Place[x] = Place[y] => x = y
BY NamesAssumption DEF Injection, IsInjective

\* One turn of the loop: what it knows of the names it has met stays true.
LEMMA MeetNext ==
  ASSUME NEW t \in Seq(Names), Ordered(t), NEW k \in 1..(Len(t) - 1), NEW u, Met(t, u, k),
         NEW o, o = t[k + 1]
  PROVE  Met(t, Meet(u, o), k + 1)
<1>1. PICK q : q = u.names
  OBVIOUS
<1>2. PICK m : m = Len(q)
  OBVIOUS
<1>3. /\ u \in Found /\ q \in Seq(Names) /\ q # << >> /\ u.size \in Nat
      /\ o \in Names /\ k \in Nat /\ k \in DOMAIN t /\ k + 1 \in DOMAIN t
  BY <1>1 DEF Met, Found
<1>4. m \in Nat /\ m >= 1 /\ DOMAIN q = 1..m /\ Last(u.names) = q[m] /\ q[m] \in Names
  BY <1>1, <1>2, <1>3 DEF Last
<1>5. /\ Range(q) = {t[j] : j \in 1..k} /\ q[m] = t[k]
      /\ \A a, b \in 1..m : a < b => Place[q[a]] < Place[q[b]]
      /\ u.size = Cardinality(Counted(q))
  BY <1>1, <1>2, <1>4 DEF Met
<1>6. {t[j] : j \in 1..(k + 1)} = {t[j] : j \in 1..k} \cup {o}
  BY <1>3
<1>7. CASE q[m] = o
  <2>1. Meet(u, o) = u
    BY <1>4, <1>7 DEF Meet
  <2>2. o \in Range(q)
    BY <1>4, <1>7 DEF Range
  <2>3. Range(u.names) = {t[j] : j \in 1..(k + 1)}
    BY <1>1, <1>5, <1>6, <2>2
  <2>4. u.names[Len(u.names)] = t[k + 1]
    BY <1>1, <1>2, <1>7
  <2> QED
    BY <2>1, <2>3, <2>4 DEF Met
<1>8. CASE q[m] # o
  <2>1. PICK v : v = Meet(u, o)
    OBVIOUS
  <2>2. PICK names : names = Append(q, o)
    OBVIOUS
  <2>3. v \in Found /\ v.names = names /\ v.size = u.size + (IF q[m].sequential THEN 0 ELSE 1)
    BY <1>1, <1>3, <1>4, <1>8, <2>1, <2>2, MetType DEF Meet
  <2>4. /\ names \in Seq(Names) /\ Len(names) = m + 1 /\ DOMAIN names = 1..(m + 1)
        /\ names[m + 1] = o /\ \A a \in 1..m : names[a] = q[a]
    BY <1>2, <1>3, <1>4, <2>2
  <2>5. Range(names) = Range(q) \cup {o}
    BY <1>4, <2>4 DEF Range
  <2>6. Place[q[m]] < Place[o]
    <3>1. Place[t[k]] <= Place[o]
      BY <1>3 DEF Ordered
    <3> QED
      BY <1>3, <1>4, <1>5, <1>8, <3>1, Places
  <2>7. ASSUME NEW a \in DOMAIN names, NEW b \in DOMAIN names, a < b
        PROVE  Place[names[a]] < Place[names[b]]
    <3>1. a \in 1..m /\ names[a] = q[a] /\ q[a] \in Names
      BY <1>3, <1>4, <2>4, <2>7
    <3>2. CASE b = m + 1
      <4>1. a = m \/ Place[q[a]] < Place[q[m]]
        BY <1>4, <1>5, <3>1
      <4> QED
        BY <1>3, <1>4, <2>4, <2>6, <3>1, <3>2, <4>1, Places
    <3>3. CASE b # m + 1
      <4>1. b \in 1..m /\ names[b] = q[b]
        BY <1>4, <2>4, <3>3
      <4> QED
        BY <1>5, <2>7, <3>1, <4>1
    <3> QED
      BY <3>2, <3>3
  <2>8. v.size = Cardinality(Counted(names))
    <3>1. PICK c : c = Counted(q)
      OBVIOUS
    <3>2. IsFiniteSet(c) /\ u.size = Cardinality(c)
      BY <1>3, <1>5, <3>1, CountedIsFinite
    <3>3. m \notin c
      BY <1>2, <1>4, <3>1 DEF Counted
    <3>4. Counted(names) = IF q[m].sequential THEN c ELSE c \cup {m}
      BY <1>2, <1>4, <2>4, <3>1 DEF Counted
    <3>5. CASE q[m].sequential
      BY <1>3, <2>3, <3>2, <3>4, <3>5
    <3>6. CASE ~q[m].sequential
      <4>1. Cardinality(c \cup {m}) = Cardinality(c) + 1
        BY <3>2, <3>3, FS_AddElement
      <4> QED
        BY <2>3, <3>2, <3>4, <3>6, <4>1
    <3> QED
      BY <3>5, <3>6
  <2>9. Met(t, v, k + 1)
    BY <1>5, <1>6, <2>3, <2>4, <2>5, <2>7, <2>8 DEF Met
  <2> QED
    BY <2>1, <2>9
<1> QED
  BY <1>7, <1>8

\* What the loop over the sorted names t leaves (config.go:686-697).
LEMMA MetAll ==
  ASSUME NEW t \in Seq(Names), Ordered(t), NEW n \in Nat, Len(t) = n + 1
  PROVE  Met(t, FoldLeft(Meet, [names |-> <<Head(t)>>, size |-> 0], Tail(t)), n + 1)
<1> DEFINE s == Tail(t)
           base == [names |-> <<Head(t)>>, size |-> 0]
           G == [x \in Found \X (1..n) |-> Meet(x[1], s[x[2]])]
           It(h) == h = [r \in SUBSET DOMAIN s |->
                           IF r = {} THEN base ELSE Meet(h[r \ {Max(r)}], s[Max(r)])]
<1>1. /\ s \in Seq(Names) /\ DOMAIN s = 1..n /\ \A j \in 1..n : s[j] = t[j + 1]
      /\ Head(t) = t[1] /\ t[1] \in Names /\ n \in 0..n
  OBVIOUS
<1>2. Met(t, base, 1)
  <2>1. PICK q : q = <<t[1]>>
    OBVIOUS
  <2>2. q \in Seq(Names) \ {<< >>} /\ Len(q) = 1 /\ DOMAIN q = 1..1 /\ q[1] = t[1]
    BY <1>1, <2>1
  <2>3. base.names = q /\ base.size = 0
    BY <1>1, <2>1
  <2>4. base \in Found
    BY <1>1, <2>1, <2>2 DEF Found
  <2> HIDE DEF base
  <2>5. Counted(q) = {}
    BY <2>2 DEF Counted
  <2>6. Range(q) = {t[j] : j \in 1..1}
    BY <2>2 DEF Range
  <2>7. \A a, b \in DOMAIN q : ~(a < b)
    BY <2>2
  <2> QED
    BY <2>2, <2>3, <2>4, <2>5, <2>6, <2>7, FS_EmptySet DEF Met
<1> HIDE DEF s, base
<1>3. base \in Found /\ \A a \in Found, j \in 1..n : Meet(a, s[j]) \in Found
  BY <1>1, <1>2, MetType DEF Met
<1>4. G \in [Found \X (1..n) -> Found]
  BY <1>3
<1>5. \A a \in Found, j \in 1..n : G[<<a, j>>] = Meet(a, s[j])
  OBVIOUS
<1> HIDE DEF G
<1>6. PICK it : Folds(it, Found, base, G, n)
  BY <1>3, <1>4, FoldExists
<1>7. It(it)
  <2>1. ASSUME NEW r \in SUBSET (1..n), r # {}
        PROVE  it[r] = Meet(it[r \ {Max(r)}], s[Max(r)])
    <3>1. Max(r) \in r /\ Max(r) \in 1..n /\ \A y \in r : Max(r) >= y
      BY <2>1, Greatest DEF Max
    <3>2. it[r] = G[<<it[r \ {Max(r)}], Max(r)>>] /\ it[r \ {Max(r)}] \in Found
      BY <3>1, <1>6 DEF Folds
    <3> QED
      BY <3>1, <3>2, <1>5
  <2>2. it = [r \in SUBSET (1..n) |-> it[r]] /\ it[{}] = base
    BY <1>6 DEF Folds
  <2> QED
    BY <2>1, <2>2, <1>1
<1> DEFINE fold == CHOOSE h : It(h)
<1>8. It(fold)
  BY <1>7
<1>9. FoldLeft(Meet, base, s) = fold[1..n]
  BY <1>1 DEF FoldLeft, MapThenFoldSet
<1> HIDE DEF fold
<1> DEFINE P == {k \in 0..n : Met(t, fold[1..k], k + 1)}
<1>10. 0 \in P
  <2>1. fold[1..0] = base
    BY <1>1, <1>8
  <2> QED
    BY <1>1, <1>2, <2>1
<1>11. ASSUME NEW k \in 1..n, k - 1 \in P PROVE k \in P
  <2>1. 1..k \in SUBSET DOMAIN s /\ 1..k # {} /\ (1..k) \ {k} = 1..(k - 1)
    BY <1>1, Prefix
  <2>2. Max(1..k) = k
    BY <1>1, Prefix DEF Max
  <2>3. fold[1..k] = Meet(fold[1..(k - 1)], s[k])
    BY <1>8, <2>1, <2>2
  <2>4. Met(t, fold[1..(k - 1)], k)
    BY <1>11
  <2>5. Met(t, Meet(fold[1..(k - 1)], s[k]), k + 1)
    <3>1. k \in 1..(Len(t) - 1) /\ s[k] = t[k + 1]
      BY <1>1
    <3> QED
      BY <2>4, <3>1, MeetNext
  <2> QED
    BY <2>3, <2>5
<1> HIDE DEF P
<1>12. n \in P
  BY <1>1, <1>10, <1>11, ByPrefixes
<1> QED
  BY <1>9, <1>12 DEF P, base, s

\* The kept names are those that were asked for, each once, and no more are
\* counted than are no names of earlier responses.
LEMMA UniqueNames ==
  ASSUME NEW s \in Seq(Names), NEW u, u = uniqueOutput(s)
  PROVE  /\ u.names \in Seq(Names) /\ u.size \in Nat
         /\ Range(u.names) = Range(s)
         /\ Len(u.names) = Cardinality(Range(s))
         /\ \A P : IsFiniteSet(P) /\ {x \in Range(s) : ~x.sequential} \subseteq P
                   => u.size <= Cardinality(P)
<1>1. CASE s = << >>
  <2>1. u.names = << >> /\ u.size = 0 /\ Range(s) = {}
    BY <1>1 DEF uniqueOutput, Range
  <2>2. Range(u.names) = {} /\ Len(u.names) = 0 /\ u.names \in Seq(Names)
    BY <2>1 DEF Range
  <2> QED
    BY <2>1, <2>2, FS_EmptySet, FS_CardinalityType
<1>2. CASE s # << >>
  <2>1. PICK t : t = Sorted(s)
    OBVIOUS
  <2>2. t \in Seq(Names) /\ Len(t) = Len(s) /\ Range(t) = Range(s) /\ Ordered(t)
    BY <2>1, SortedList
  <2>3. PICK n \in Nat : Len(t) = n + 1
    <3>1. Len(s) \in Nat /\ Len(s) # 0
      BY <1>2
    <3>2. Len(s) - 1 \in Nat /\ Len(s) = (Len(s) - 1) + 1
      BY <3>1
    <3> QED
      BY <2>2, <3>2
  <2>4. Met(t, u, n + 1)
    BY <1>2, <2>1, <2>2, <2>3, MetAll DEF uniqueOutput
  <2>5. PICK q : q = u.names
    OBVIOUS
  <2>6. /\ q \in Seq(Names) /\ u.size \in Nat /\ Range(q) = {t[j] : j \in 1..(n + 1)}
        /\ \A a, b \in DOMAIN q : a < b => Place[q[a]] < Place[q[b]]
        /\ u.size = Cardinality(Counted(q))
    BY <2>4, <2>5 DEF Met, Found
  <2>7. Range(q) = Range(s)
    <3>1. Range(t) = {t[j] : j \in 1..(n + 1)}
      BY <2>2, <2>3 DEF Range
    <3> QED
      BY <2>2, <2>6, <3>1
  <2>8. DOMAIN q = 1..Len(q) /\ Len(q) \in Nat /\ \A a \in DOMAIN q : q[a] \in Names
    BY <2>6
  <2>9. \A a, b \in DOMAIN q : q[a] = q[b] => a = b
    <3>1. \A a, b \in DOMAIN q : a < b => q[a] # q[b]
      <4>1. \A a \in DOMAIN q : Place[q[a]] \in Int
        BY <2>8, Places
      <4> QED
        BY <2>6, <4>1
    <3>2. \A a, b \in DOMAIN q : a < b \/ b < a \/ a = b
      BY <2>8
    <3> QED
      BY <3>1, <3>2
  <2>10. Len(q) = Cardinality(Range(q))
    <3>1. IsFiniteSet(DOMAIN q) /\ Cardinality(DOMAIN q) = Len(q)
      <4>1. PICK m \in Nat : m = Len(q)
        BY <2>8
      <4>2. IsFiniteSet(1..m) /\ Cardinality(1..m) = IF 1 > m THEN 0 ELSE m - 1 + 1
        BY FS_Interval
      <4> QED
        BY <2>8, <4>1, <4>2
    <3>2. q \in Injection(DOMAIN q, Range(q)) /\ q \in Surjection(DOMAIN q, Range(q))
      BY <2>6, <2>9 DEF Injection, IsInjective, Surjection, Range
    <3> QED
      BY <3>1, <3>2, FS_Surjection
  <2>11. ASSUME NEW P, IsFiniteSet(P), {x \in Range(s) : ~x.sequential} \subseteq P
         PROVE  u.size <= Cardinality(P)
    <3>1. PICK f : f = [a \in Counted(q) |-> q[a]]
      OBVIOUS
    <3>2. \A a \in Counted(q) : a \in DOMAIN q /\ ~q[a].sequential
      BY <2>8 DEF Counted
    <3>3. \A a \in Counted(q) : q[a] \in P
      BY <2>7, <2>11, <3>2 DEF Range
    <3>4. f \in [Counted(q) -> P]
      BY <3>1, <3>3
    <3>5. f \in Injection(Counted(q), P)
      BY <2>9, <3>1, <3>2, <3>4 DEF Injection, IsInjective
    <3> QED
      BY <2>6, <2>11, <3>5, FS_Injection
  <2> QED
    BY <2>5, <2>6, <2>7, <2>10, <2>11
<1> QED
  BY <1>1, <1>2

---------------------------------------------------------------------------
(* ConfigInit: what Init accepts.                                          *)

Errors == {None, "host", "version", "address", "path", "no backends", "no-op",
           "wrong number of params", "undefined param"}

\* A nonempty set of numbers has a least one.
LEMMA Least ==
  ASSUME NEW s \in SUBSET Nat, s # {}
  PROVE  Min(s) \in s
<1>1. PICK m \in s : \A x \in s : ~(<<x, m>> \in OpToRel(<, Nat))
  BY NatLessThanWellFounded, WFMin
<1>2. \A x \in s : ~(x < m)
  BY <1>1 DEF OpToRel
<1>3. \A x \in s : m <= x
  BY <1>2
<1> QED
  BY <1>3 DEF Min

\* The first error is none when there is none.
LEMMA NoErrors ==
  ASSUME NEW errors \in Seq(Errors)
  PROVE  /\ FirstError(errors) \in Errors
         /\ FirstError(errors) = None <=> \A i \in DOMAIN errors : errors[i] = None
<1> DEFINE failed == {i \in DOMAIN errors : errors[i] # None}
<1>1. CASE failed = {}
  BY <1>1 DEF FirstError, Errors
<1>2. CASE failed # {}
  <2>1. failed \in SUBSET Nat
    OBVIOUS
  <2>2. Min(failed) \in failed
    <3> HIDE DEF failed
    <3> QED
      BY <1>2, <2>1, Least
  <2>3. FirstError(errors) = errors[Min(failed)]
    BY <1>2 DEF FirstError
  <2>4. PICK m : m = Min(failed)
    OBVIOUS
  <2>5. m \in DOMAIN errors /\ errors[m] # None /\ FirstError(errors) = errors[m]
    BY <2>2, <2>3, <2>4
  <2> QED
    BY <2>5
<1> QED
  BY <1>1, <1>2

\* Two lists of errors, one after the other.
LEMMA NoErrorsIn ==
  ASSUME NEW p \in Seq(Errors), NEW q \in Seq(Errors)
  PROVE  /\ p \o q \in Seq(Errors)
         /\ FirstError(p \o q) = None <=> FirstError(p) = None /\ FirstError(q) = None
<1>1. /\ p \o q \in Seq(Errors)
      /\ DOMAIN (p \o q) = 1..(Len(p) + Len(q)) /\ DOMAIN p = 1..Len(p) /\ DOMAIN q = 1..Len(q)
      /\ Len(p) \in Nat /\ Len(q) \in Nat
      /\ \A i \in DOMAIN p : (p \o q)[i] = p[i]
      /\ \A i \in DOMAIN q : (p \o q)[i + Len(p)] = q[i]
  OBVIOUS
<1>2. PICK r : r = p \o q
  OBVIOUS
<1>3. (\A i \in DOMAIN r : r[i] = None) => (\A i \in DOMAIN p : p[i] = None) /\ (\A i \in DOMAIN q : q[i] = None)
  <2> SUFFICES ASSUME \A i \in DOMAIN r : r[i] = None
               PROVE  (\A i \in DOMAIN p : p[i] = None) /\ (\A i \in DOMAIN q : q[i] = None)
    OBVIOUS
  <2>1. \A i \in DOMAIN p : p[i] = None
    BY <1>1, <1>2
  <2>2. \A i \in DOMAIN q : q[i] = None
    <3> SUFFICES ASSUME NEW i \in DOMAIN q PROVE q[i] = None
      OBVIOUS
    <3>1. i + Len(p) \in DOMAIN r /\ r[i + Len(p)] = q[i]
      BY <1>1, <1>2
    <3> QED
      BY <3>1
  <2> QED
    BY <2>1, <2>2
<1>4. (\A i \in DOMAIN p : p[i] = None) /\ (\A i \in DOMAIN q : q[i] = None) => \A i \in DOMAIN r : r[i] = None
  <2> SUFFICES ASSUME \A i \in DOMAIN p : p[i] = None, \A i \in DOMAIN q : q[i] = None,
                      NEW i \in DOMAIN r
               PROVE  r[i] = None
    OBVIOUS
  <2>1. CASE i \in DOMAIN p
    BY <1>1, <1>2, <2>1
  <2>2. CASE i \notin DOMAIN p
    <3>1. PICK k \in DOMAIN q : i = k + Len(p)
      <4>1. i - Len(p) \in DOMAIN q /\ i = (i - Len(p)) + Len(p)
        BY <1>1, <1>2, <2>2
      <4> QED
        BY <4>1
    <3> QED
      BY <1>1, <1>2, <3>1
  <2> QED
    BY <2>1, <2>2
<1> QED
  BY <1>1, <1>2, <1>3, <1>4, NoErrors

\* One error for each element of a list.
LEMMA ErrorsOf ==
  ASSUME NEW T, NEW s \in Seq(T), NEW errors, errors = [i \in DOMAIN s |-> errors[i]],
         \A i \in DOMAIN s : errors[i] \in Errors
  PROVE  /\ errors \in Seq(Errors)
         /\ FirstError(errors) \in Errors
         /\ FirstError(errors) = None <=> \A i \in DOMAIN s : errors[i] = None
<1>1. errors \in Seq(Errors) /\ DOMAIN errors = DOMAIN s
  BY MapItems
<1> QED
  BY <1>1, NoErrors

\* Two checks, one after the other.
LEMMA TwoErrors ==
  ASSUME NEW x \in Errors, NEW y \in Errors
  PROVE  /\ <<x, y>> \in Seq(Errors) /\ FirstError(<<x, y>>) \in Errors
         /\ FirstError(<<x, y>>) = None <=> x = None /\ y = None
<1>1. PICK e : e = <<x, y>>
  OBVIOUS
<1>2. e \in Seq(Errors) /\ DOMAIN e = 1..2 /\ e[1] = x /\ e[2] = y
  BY <1>1
<1>3. (\A i \in 1..2 : e[i] = None) <=> x = None /\ y = None
  BY <1>2
<1> QED
  BY <1>1, <1>2, <1>3, NoErrors

\* Three checks, one after the other.
LEMMA ThreeErrors ==
  ASSUME NEW x \in Errors, NEW y \in Errors, NEW z \in Errors
  PROVE  /\ <<x, y, z>> \in Seq(Errors)
         /\ FirstError(<<x, y, z>>) = None <=> x = None /\ y = None /\ z = None
<1>1. PICK e : e = <<x, y, z>>
  OBVIOUS
<1>2. e \in Seq(Errors) /\ DOMAIN e = 1..3 /\ e[1] = x /\ e[2] = y /\ e[3] = z
  BY <1>1
<1>3. (\A i \in 1..3 : e[i] = None) <=> x = None /\ y = None /\ z = None
  BY <1>2
<1> QED
  BY <1>1, <1>2, <1>3, NoErrors

\* The count of names never rejects what the look at each of them accepts
\* (config.go:630-656).
LEMMA MappingIsExact ==
  ASSUME NEW b, b.URLPattern \in Seq(Names), NEW inputs \in Params
  PROVE  /\ MappingError(b, inputs) \in Errors
         /\ MappingError(b, inputs) = None
              <=> \A p \in Range(b.URLPattern) : p.sequential \/ p \in inputs
<1>1. PICK u : u = uniqueOutput(b.URLPattern)
  OBVIOUS
<1>2. /\ Range(u.names) = Range(b.URLPattern) /\ u.size \in Nat
      /\ \A P : IsFiniteSet(P) /\ {x \in Range(b.URLPattern) : ~x.sequential} \subseteq P
                => u.size <= Cardinality(P)
  BY <1>1, UniqueNames
<1>3. IsFiniteSet(inputs) /\ Cardinality(inputs) \in Nat
  BY FS_CardinalityType DEF Params
<1>4. MappingError(b, inputs) =
        IF u.size > Cardinality(inputs) THEN "wrong number of params"
        ELSE IF \E o \in Range(u.names) : ~o.sequential /\ o \notin inputs THEN "undefined param" ELSE None
  BY <1>1 DEF MappingError
<1>5. (\A p \in Range(b.URLPattern) : p.sequential \/ p \in inputs) => u.size <= Cardinality(inputs)
  BY <1>2, <1>3
<1>6. CASE \A p \in Range(b.URLPattern) : p.sequential \/ p \in inputs
  <2>1. MappingError(b, inputs) = None
    <3>1. ~(u.size > Cardinality(inputs))
      BY <1>2, <1>3, <1>5, <1>6
    <3>2. ~\E o \in Range(u.names) : ~o.sequential /\ o \notin inputs
      BY <1>2, <1>6
    <3> QED
      BY <1>4, <3>1, <3>2
  <2> QED
    BY <1>6, <2>1 DEF Errors
<1>7. CASE \E p \in Range(b.URLPattern) : ~p.sequential /\ p \notin inputs
  <2>1. MappingError(b, inputs) \in {"wrong number of params", "undefined param"}
    BY <1>2, <1>4, <1>7
  <2> QED
    BY <1>7, <2>1 DEF Errors, None
<1> QED
  BY <1>6, <1>7

\* The hosts of a backend are refused if they are not cleaned and one is bad.
LEMMA HostsAreChecked ==
  ASSUME NEW b
  PROVE  /\ BackendHostsError(b) \in Errors
         /\ BackendHostsError(b) = None <=> GoodHosts(b)
BY DEF BackendHostsError, HostsError, GoodHosts, Errors, None

\* initAsyncAgents (config.go:485-516) checks the hosts of each backend.
LEMMA AgentIsChecked ==
  ASSUME NEW w \in AgentT(Written), NEW a, a = normalizeAgent(w)
  PROVE  /\ AgentError(a) \in Errors
         /\ AgentError(a) = None <=> \A j \in DOMAIN w.Backend : GoodHosts(w.Backend[j])
<1>1. /\ a \in AgentT(Int) /\ DOMAIN a.Backend = DOMAIN w.Backend
      /\ \A j \in DOMAIN w.Backend :
           w.Backend[j] \in BackendT /\ a.Backend[j] = normalizeBackend(w.Backend[j])
  BY NormalAgent
<1>2. a.Backend \in Seq(BackendT)
  BY <1>1 DEF AgentT
<1>3. PICK errors : errors = [j \in DOMAIN a.Backend |-> BackendHostsError(a.Backend[j])]
  OBVIOUS
<1>4. \A j \in DOMAIN a.Backend : /\ errors[j] \in Errors
                                  /\ errors[j] = None <=> GoodHosts(w.Backend[j])
  <2> SUFFICES ASSUME NEW j \in DOMAIN a.Backend
               PROVE  /\ errors[j] \in Errors
                      /\ errors[j] = None <=> GoodHosts(w.Backend[j])
    OBVIOUS
  <2>1. GoodHosts(a.Backend[j]) <=> GoodHosts(w.Backend[j])
    BY <1>1, NormalBackend DEF GoodHosts
  <2> QED
    BY <1>3, <2>1, HostsAreChecked
<1>5. AgentError(a) = FirstError(errors) /\ errors = [j \in DOMAIN a.Backend |-> errors[j]]
  BY <1>3 DEF AgentError
<1>6. /\ FirstError(errors) \in Errors
      /\ FirstError(errors) = None <=> \A j \in DOMAIN a.Backend : errors[j] = None
  <2>1. \A j \in DOMAIN a.Backend : errors[j] \in Errors
    BY <1>4
  <2> QED
    BY ONLY <1>2, <1>5, <2>1, ErrorsOf
<1> QED
  BY <1>1, <1>4, <1>5, <1>6

\* initEndpoints (config.go:468-483, 518-628): validate, what no-op allows, and
\* the hosts and names of each backend.
LEMMA EndpointIsChecked ==
  ASSUME config \in ServiceT(Written), NEW w \in EndpointT(Written),
         NEW e, e = normalizeEndpoint(w)
  PROVE  /\ EndpointError(Converted, e) \in Errors
         /\ EndpointError(Converted, e) = None <=> Served(w)
<1>1. /\ e \in EndpointT(Int) /\ e.forbidden = w.forbidden /\ e.params = w.params
      /\ e.OutputEncoding = w.OutputEncoding
      /\ DOMAIN e.Backend = DOMAIN w.Backend
      /\ \A j \in DOMAIN w.Backend :
           w.Backend[j] \in BackendT /\ e.Backend[j] = normalizeBackend(w.Backend[j])
  BY NormalEndpoint
<1>2. /\ e.Backend \in Seq(BackendT) /\ w.Backend \in Seq(BackendT) /\ e.params \in Params
  BY <1>1 DEF EndpointT
<1>3. Len(e.Backend) = Len(w.Backend) /\ (e.Backend = << >> <=> Len(w.Backend) = 0) /\ Len(w.Backend) \in Nat
  BY <1>1, <1>2
<1> DEFINE encoding == IF w.OutputEncoding = "" THEN config.OutputEncoding ELSE w.OutputEncoding
           noop == initEndpointDefaults(Converted, e).OutputEncoding = "no-op"
<1>4. noop <=> encoding = "no-op"
  <2>1. Converted.OutputEncoding = config.OutputEncoding
    BY ConvertedFields
  <2>2. initEndpointDefaults(Converted, e).OutputEncoding
          = Or(e.OutputEncoding, "", Or(Converted.OutputEncoding, "", "json"))
    BY <1>1 DEF initEndpointDefaults, EndpointT
  <2> QED
    BY <1>1, <2>1, <2>2 DEF Or
<1> DEFINE first == <<validate(e), IF noop /\ Len(e.Backend) > 1 THEN "no-op" ELSE None>>
           ErrorOf(j) == FirstError(<<BackendHostsError(e.Backend[j]),
                                      MappingError(e.Backend[j], e.params)>>)
<1>5. PICK errors : errors = [j \in DOMAIN e.Backend |-> ErrorOf(j)]
  OBVIOUS
<1>6. EndpointError(Converted, e) = FirstError(first \o errors)
  BY <1>5 DEF EndpointError
<1>7. /\ first \in Seq(Errors) /\ FirstError(first) \in Errors
      /\ FirstError(first) = None <=> /\ ~w.forbidden /\ Len(w.Backend) >= 1
                                      /\ encoding = "no-op" => Len(w.Backend) = 1
  <2>1. validate(e) \in Errors /\ (validate(e) = None <=> ~w.forbidden /\ Len(w.Backend) >= 1)
    BY <1>1, <1>3 DEF validate, Errors, None
  <2>2. PICK x \in Errors : x = IF noop /\ Len(e.Backend) > 1 THEN "no-op" ELSE None
    BY DEF Errors
  <2>3. x = None <=> (encoding = "no-op" => Len(w.Backend) <= 1)
    <3>1. Len(e.Backend) > 1 <=> ~(Len(w.Backend) <= 1)
      BY <1>3
    <3>2. (noop /\ Len(e.Backend) > 1) <=> x # None
      BY <2>2 DEF None
    <3> HIDE DEF noop, encoding
    <3> QED
      BY <1>4, <3>1, <3>2
  <2> HIDE DEF noop, encoding
  <2> QED
    <3>1. PICK y : y = validate(e)
      OBVIOUS
    <3>2. first = <<y, x>> /\ y \in Errors
      BY <2>1, <2>2, <3>1
    <3>3. /\ first \in Seq(Errors) /\ FirstError(first) \in Errors
          /\ FirstError(first) = None <=> y = None /\ x = None
      BY <3>2, TwoErrors
    <3> HIDE DEF first
    <3> QED
      <4>1. Len(w.Backend) >= 1 => (Len(w.Backend) <= 1 <=> Len(w.Backend) = 1)
        <5>1. PICK k \in Nat : k = Len(w.Backend)
          BY <1>3
        <5>2. k >= 1 => (k <= 1 <=> k = 1)
          OBVIOUS
        <5> QED
          BY <5>1, <5>2
      <4> QED
        <5>1. FirstError(first) = None <=> /\ ~w.forbidden /\ Len(w.Backend) >= 1
                                           /\ encoding = "no-op" => Len(w.Backend) <= 1
          BY ONLY <2>1, <2>3, <3>1, <3>3
        <5> QED
          BY ONLY <3>3, <4>1, <5>1
<1>8. \A j \in DOMAIN e.Backend :
        /\ errors[j] \in Errors
        /\ errors[j] = None <=>
             /\ GoodHosts(w.Backend[j])
             /\ \A p \in Range(w.Backend[j].URLPattern) : p.sequential \/ p \in w.params
  <2> SUFFICES ASSUME NEW j \in DOMAIN e.Backend
               PROVE  /\ errors[j] \in Errors
                      /\ errors[j] = None <=>
                           /\ GoodHosts(w.Backend[j])
                           /\ \A p \in Range(w.Backend[j].URLPattern) : p.sequential \/ p \in w.params
    OBVIOUS
  <2>1. PICK v : v = w.Backend[j]
    OBVIOUS
  <2>2. PICK b : b = e.Backend[j]
    OBVIOUS
  <2>3. v \in BackendT /\ b = normalizeBackend(v)
    BY <1>1, <2>1, <2>2
  <2>4. /\ b.Host = v.Host /\ b.HostSanitizationDisabled = v.HostSanitizationDisabled
        /\ b.URLPattern = v.URLPattern /\ v.URLPattern \in Seq(Names)
    BY <2>3, NormalBackend DEF BackendT
  <2>5. BackendHostsError(b) \in Errors /\ (BackendHostsError(b) = None <=> GoodHosts(v))
    BY <2>4, HostsAreChecked DEF GoodHosts
  <2>6. /\ MappingError(b, e.params) \in Errors
        /\ MappingError(b, e.params) = None <=> \A p \in Range(v.URLPattern) : p.sequential \/ p \in w.params
    BY <1>1, <1>2, <2>4, MappingIsExact
  <2>7. errors[j] = FirstError(<<BackendHostsError(b), MappingError(b, e.params)>>)
    BY <1>5, <2>2
  <2> QED
    BY <2>1, <2>5, <2>6, <2>7, TwoErrors
<1> HIDE DEF first, ErrorOf
<1>9. /\ errors \in Seq(Errors) /\ FirstError(errors) \in Errors
      /\ FirstError(errors) = None <=> \A j \in DOMAIN e.Backend : errors[j] = None
  <2>1. errors = [j \in DOMAIN e.Backend |-> errors[j]]
    BY <1>5
  <2> QED
    BY <1>2, <1>8, <2>1, ErrorsOf
<1>10. /\ FirstError(first \o errors) \in Errors
       /\ FirstError(first \o errors) = None <=> FirstError(first) = None /\ FirstError(errors) = None
  BY <1>7, <1>9, NoErrorsIn, NoErrors
<1> QED
  BY <1>1, <1>6, <1>7, <1>8, <1>9, <1>10 DEF Served

\* Parse returns no error exactly if all of the configuration can be served.
LEMMA AcceptedIsServable == config \in ServiceT(Written) => AcceptsExactlyServable
<1> SUFFICES ASSUME config \in ServiceT(Written) PROVE AcceptsExactlyServable
  OBVIOUS
<1>1. PICK n : n = Converted
  OBVIOUS
<1>2. /\ n \in ServiceT(Int) /\ n.Version = config.Version /\ n.Address = config.Address
      /\ n.Host = config.Host
      /\ DOMAIN n.Endpoints = DOMAIN config.Endpoints
      /\ \A i \in DOMAIN config.Endpoints :
           /\ config.Endpoints[i] \in EndpointT(Written)
           /\ n.Endpoints[i] = normalizeEndpoint(config.Endpoints[i])
      /\ DOMAIN n.AsyncAgents = DOMAIN config.AsyncAgents
      /\ \A i \in DOMAIN config.AsyncAgents :
           /\ config.AsyncAgents[i] \in AgentT(Written)
           /\ n.AsyncAgents[i] = normalizeAgent(config.AsyncAgents[i])
  BY <1>1, ConvertedFields
<1>3. n.Endpoints \in Seq(EndpointT(Int)) /\ n.AsyncAgents \in Seq(AgentT(Int))
  BY <1>2 DEF ServiceT
<1>4. PICK x \in Errors : x = IF n.Version = "supported" THEN None ELSE "version"
  BY DEF Errors
<1>5. PICK y \in Errors : y = IF n.Address = "bad" THEN "address" ELSE None
  BY DEF Errors
<1>6. PICK z \in Errors : z = HostsError(n.Host)
  BY DEF Errors, HostsError
<1>7. PICK agentErrors : agentErrors = [i \in DOMAIN n.AsyncAgents |-> AgentError(n.AsyncAgents[i])]
  OBVIOUS
<1>8. PICK ends : ends = [i \in DOMAIN n.Endpoints |-> EndpointError(n, n.Endpoints[i])]
  OBVIOUS
<1>9. ParseError(config) = FirstError(<<x, y, z>> \o agentErrors \o ends)
  BY <1>1, <1>4, <1>5, <1>6, <1>7, <1>8 DEF ParseError, InitError, Converted
<1>10. \A i \in DOMAIN n.AsyncAgents :
         /\ agentErrors[i] \in Errors
         /\ agentErrors[i] = None <=>
              \A j \in DOMAIN config.AsyncAgents[i].Backend :
                GoodHosts(config.AsyncAgents[i].Backend[j])
  BY <1>2, <1>7, AgentIsChecked
<1>11. \A i \in DOMAIN n.Endpoints :
         ends[i] \in Errors /\ (ends[i] = None <=> Served(config.Endpoints[i]))
  BY <1>1, <1>2, <1>8, EndpointIsChecked
<1>12. /\ agentErrors \in Seq(Errors)
       /\ FirstError(agentErrors) = None <=> \A i \in DOMAIN n.AsyncAgents : agentErrors[i] = None
  <2>1. /\ agentErrors = [i \in DOMAIN n.AsyncAgents |-> agentErrors[i]]
        /\ \A i \in DOMAIN n.AsyncAgents : agentErrors[i] \in Errors
    BY <1>7, <1>10
  <2> QED
    BY <1>3, <2>1, ErrorsOf
<1>13. /\ ends \in Seq(Errors)
       /\ FirstError(ends) = None <=> \A i \in DOMAIN n.Endpoints : ends[i] = None
  <2>1. /\ ends = [i \in DOMAIN n.Endpoints |-> ends[i]]
        /\ \A i \in DOMAIN n.Endpoints : ends[i] \in Errors
    BY <1>8, <1>11
  <2> QED
    BY <1>3, <2>1, ErrorsOf
<1>14. ParseError(config) = None <=>
         /\ x = None /\ y = None /\ z = None
         /\ FirstError(agentErrors) = None /\ FirstError(ends) = None
  <2>1. /\ <<x, y, z>> \in Seq(Errors)
        /\ FirstError(<<x, y, z>>) = None <=> x = None /\ y = None /\ z = None
    BY ThreeErrors
  <2>2. /\ <<x, y, z>> \o agentErrors \in Seq(Errors)
        /\ FirstError(<<x, y, z>> \o agentErrors) = None
             <=> FirstError(<<x, y, z>>) = None /\ FirstError(agentErrors) = None
    BY <1>12, <2>1, NoErrorsIn
  <2>3. FirstError(<<x, y, z>> \o agentErrors \o ends) = None
          <=> FirstError(<<x, y, z>> \o agentErrors) = None /\ FirstError(ends) = None
    BY <1>13, <2>2, NoErrorsIn
  <2> QED
    BY <1>9, <2>1, <2>2, <2>3
<1>15. /\ x = None <=> config.Version = "supported"
       /\ y = None <=> config.Address # "bad"
       /\ z = None <=> "bad" \notin Range(config.Host)
  BY <1>2, <1>4, <1>5, <1>6 DEF None, HostsError
<1> QED
  BY <1>2, <1>10, <1>11, <1>12, <1>13, <1>14, <1>15 DEF AcceptsExactlyServable

\* Every placeholder of an accepted configuration is filled, whatever the router.
LEMMA AllFilled == config \in ServiceT(Written) => PlaceholdersAreFilled
<1> SUFFICES ASSUME config \in ServiceT(Written), ParseError(config) = None,
                    NEW i \in DOMAIN Parse(config).Endpoints,
                    NEW e, e = Parse(config).Endpoints[i],
                    NEW j \in DOMAIN e.Backend, NEW b, b = e.Backend[j]
             PROVE  /\ Len(b.URLKeys) = Cardinality(Range(b.URLPattern))
                    /\ \A p \in Range(b.URLPattern) : TitleFirst(p) \in Range(b.URLKeys)
                    /\ \A router \in {"gin", "chi"} :
                         \A k \in Unfilled(b, ParamKeys(router, e.params)) : k.sequential
  BY DEF PlaceholdersAreFilled
<1>1. i \in DOMAIN config.Endpoints
  BY SameItems
<1>2. PICK w : w = config.Endpoints[i]
  OBVIOUS
<1>3. EndpointParsed(w, e)
  BY <1>1, <1>2, ParsedEndpoint
<1>4. PICK v : v = w.Backend[j]
  OBVIOUS
<1>5. HandsDown(e, v, b) /\ j \in DOMAIN w.Backend /\ e.params = w.params
  BY <1>3, <1>4 DEF EndpointParsed
<1>6. v \in BackendT /\ b.URLPattern = v.URLPattern /\ b.URLKeys = KeysFor(v.URLPattern)
  BY <1>5 DEF HandsDown
<1>7. v.URLPattern \in Seq(Names)
  BY <1>6 DEF BackendT
<1>8. PICK names : names = uniqueOutput(v.URLPattern).names
  OBVIOUS
<1>9. /\ names \in Seq(Names) /\ Range(names) = Range(v.URLPattern)
      /\ Len(names) = Cardinality(Range(v.URLPattern))
  BY <1>7, <1>8, UniqueNames
<1>10. b.URLKeys = [k \in DOMAIN names |-> TitleFirst(names[k])]
  BY <1>6, <1>8 DEF KeysFor
<1>11. Len(b.URLKeys) = Len(names)
  <2>1. PICK T : T = {TitleFirst(names[k]) : k \in DOMAIN names}
    OBVIOUS
  <2>2. PICK keys : keys = b.URLKeys
    OBVIOUS
  <2>3. keys = [k \in DOMAIN names |-> keys[k]] /\ \A k \in DOMAIN names : keys[k] \in T
    BY <1>10, <2>1, <2>2
  <2>4. keys \in Seq(T) /\ DOMAIN keys = DOMAIN names
    BY <1>9, <2>3, MapItems
  <2>5. DOMAIN names = 1..Len(names) /\ DOMAIN keys = 1..Len(keys) /\ Len(names) \in Nat /\ Len(keys) \in Nat
    BY <1>9, <2>4
  <2>6. Len(keys) = Len(names)
    BY <2>4, <2>5
  <2> QED
    BY <2>2, <2>6
<1>12. Range(b.URLKeys) = {TitleFirst(p) : p \in Range(names)}
  <2>1. Range(names) = {names[k] : k \in DOMAIN names}
    BY DEF Range
  <2>2. Range(b.URLKeys) = {TitleFirst(names[k]) : k \in DOMAIN names}
    BY <1>10 DEF Range
  <2> QED
    BY <2>1, <2>2
<1>13. \A p \in Range(v.URLPattern) : p.sequential \/ p \in w.params
  <2>1. Served(w)
    BY <1>1, <1>2, AcceptedIsServable DEF AcceptsExactlyServable
  <2> QED
    BY <1>4, <1>5, <2>1 DEF Served
<1>14. ASSUME NEW router \in {"gin", "chi"}, NEW k \in Unfilled(b, ParamKeys(router, e.params))
       PROVE  k.sequential
  <2>1. k \in Range(b.URLKeys) /\ k \notin {TitleFirst(p) : p \in w.params}
    BY <1>5, <1>14 DEF Unfilled, ParamKeys
  <2>2. PICK p \in Range(v.URLPattern) : k = TitleFirst(p)
    BY <1>9, <1>12, <2>1
  <2>3. p.sequential
    BY <1>13, <2>1, <2>2
  <2>4. p \in Names
    BY <1>7, <2>2 DEF Range
  <2>5. k.sequential = p.sequential
    BY <2>2, <2>4, NamesAssumption DEF TitleFirst
  <2> QED
    BY <2>3, <2>5
<1> QED
  BY <1>6, <1>9, <1>11, <1>12, <1>14

\* Init (config.go:409-428, 468-628, 680-698) accepts a configuration if and only
\* if all of it can be served, whatever is written in it, for any number of
\* endpoints, backends, agents, hosts and placeholders.
THEOREM ServableIsAccepted == ConfigSpec => []AcceptsExactlyServable
<1>1. ServiceType => AcceptsExactlyServable
  BY AcceptedIsServable DEF ServiceType
<1> QED
  BY <1>1, ServiceIsTyped, PTL

\* In an accepted configuration every distinct placeholder of a backend has its key
\* (config.go:630-669), and the only ones a router does not fill from its own
\* parameters (request.go:24-40) are those of a sequential merge.
THEOREM PlaceholdersFilled == ConfigSpec => []PlaceholdersAreFilled
<1>1. ServiceType => PlaceholdersAreFilled
  BY AllFilled DEF ServiceType
<1> QED
  BY <1>1, ServiceIsTyped, PTL

---------------------------------------------------------------------------
(* GraphQLExtractor.                                                       *)

OptionsOK ==
  /\ options \in [Type : {"query", "mutation"}, Method : {"", "get", "post", "other"},
                  Variables : [Variable -> ConfiguredValue \cup {Absent}]]
  /\ declared \in SUBSET Placeholders
  /\ received \in ClientBodies

\* The state of GraphQLExtractor is typed at the start,
LEMMA OptionsInit == NoOptions => OptionsOK
<1>1. <<"nil">> \in ClientBodies
  BY Zenon DEF ClientBodies
<1> SUFFICES ASSUME NoOptions PROVE OptionsOK
  OBVIOUS
<1>2. options \in [Type : {"query", "mutation"}, Method : {"", "get", "post", "other"},
                   Variables : [Variable -> ConfiguredValue \cup {Absent}]]
  BY DEF NoOptions
<1>3. declared \in SUBSET Placeholders /\ received = <<"nil">>
  BY DEF NoOptions
<1> QED
  BY <1>1, <1>2, <1>3 DEF OptionsOK

\* The bodies of clients, by their first component.
LEMMA Bodies ==
  ASSUME NEW b \in ClientBodies
  PROVE  /\ b[1] \in {"nil", "invalid", "null", "object"}
         /\ b[1] = "null" <=> b = <<"null">>
<1>1. \/ b = <<"nil">> \/ b = <<"invalid">> \/ b = <<"null">>
      \/ \E S \in SUBSET Variable : b = <<"object", S>>
  BY DEF ClientBodies
<1>2. CASE b = <<"nil">>
  BY <1>2
<1>3. CASE b = <<"invalid">>
  BY <1>3
<1>4. CASE b = <<"null">>
  BY <1>4
<1>5. ASSUME NEW S \in SUBSET Variable, b = <<"object", S>>
      PROVE  b[1] = "object"
  BY <1>5
<1> QED
  BY <1>1, <1>2, <1>3, <1>4, <1>5

\* and after every change of options, declarations or body.
LEMMA OptionsStep == OptionsOK /\ [SetOptions]_graphqlVars => OptionsOK'
<1> SUFFICES ASSUME OptionsOK, [SetOptions]_graphqlVars PROVE OptionsOK'
  OBVIOUS
<1>1. ASSUME NEW v \in Variable, NEW c \in ConfiguredValue,
             options' = [options EXCEPT !.Variables[v] = c], UNCHANGED <<declared, received>>
      PROVE  OptionsOK'
  BY <1>1 DEF OptionsOK
<1>2. ASSUME NEW m \in {"get", "post", "other"}, options' = [options EXCEPT !.Method = m],
             UNCHANGED <<declared, received>>
      PROVE  OptionsOK'
  BY <1>2 DEF OptionsOK
<1>3. CASE options' = [options EXCEPT !.Type = "mutation"] /\ UNCHANGED <<declared, received>>
  BY <1>3 DEF OptionsOK
<1>4. CASE declared' \in SUBSET Placeholders /\ received' \in ClientBodies /\ UNCHANGED options
  BY <1>4 DEF OptionsOK
<1>5. CASE UNCHANGED graphqlVars
  BY <1>5 DEF graphqlVars, OptionsOK
<1> QED
  BY <1>1, <1>2, <1>3, <1>4, <1>5 DEF SetOptions

\* The fields of a name whose first letter is changed.
LEMMA NameFields ==
  ASSUME NEW p \in Names, NEW u \in BOOLEAN
  PROVE  [p EXCEPT !.upper = u] = [word |-> p.word, upper |-> u, inner |-> p.inner,
                                   sequential |-> p.sequential]
<1> DEFINE Word == {x.word : x \in Names}
<1>1. p \in [word : Word, upper : BOOLEAN, inner : BOOLEAN, sequential : BOOLEAN]
  BY NamesAssumption
<1> HIDE DEF Word
<1> QED
  BY <1>1

\* A name is titled to the same one as another exactly if they are one but for
\* the case of the first letter.
LEMMA TitlesAgree ==
  ASSUME NEW p \in Names, NEW q \in Names
  PROVE  TitleFirst(p) = TitleFirst(q) <=> SameName(p, q)
<1> DEFINE Word == {x.word : x \in Names}
<1>1. PICK t \in BOOLEAN : t = TRUE
  OBVIOUS
<1>2. q \in [word : Word, upper : BOOLEAN, inner : BOOLEAN, sequential : BOOLEAN]
  BY NamesAssumption
<1> HIDE DEF Word
<1>3. /\ TitleFirst(p) = [word |-> p.word, upper |-> t, inner |-> p.inner,
                          sequential |-> p.sequential]
      /\ TitleFirst(q) = [word |-> q.word, upper |-> t, inner |-> q.inner,
                          sequential |-> q.sequential]
  BY <1>1, NameFields DEF TitleFirst
<1>4. q.upper \in BOOLEAN
      /\ q = [word |-> q.word, upper |-> q.upper, inner |-> q.inner, sequential |-> q.sequential]
  BY <1>2
<1>5. [p EXCEPT !.upper = q.upper] = [word |-> p.word, upper |-> q.upper, inner |-> p.inner,
                                      sequential |-> p.sequential]
  BY <1>4, NameFields
<1>6. TitleFirst(p) = TitleFirst(q)
        <=> p.word = q.word /\ p.inner = q.inner /\ p.sequential = q.sequential
  BY <1>3
<1>7. SameName(p, q)
        <=> p.word = q.word /\ p.inner = q.inner /\ p.sequential = q.sequential
  BY <1>4, <1>5 DEF SameName
<1> QED
  BY <1>6, <1>7

\* A value is a placeholder of the configuration by its first component.
LEMMA ConfiguredValues ==
  ASSUME NEW c \in ConfiguredValue
  PROVE  /\ c[1] \in {"literal", "empty", "braces", "placeholder"}
         /\ c[1] = "placeholder" => c[2] \in Placeholders
BY DEF ConfiguredValue

\* What a query sends for one variable.
LEMMA QueryVariable ==
  ASSUME OptionsOK, NEW opt, opt.Variables = options.Variables, NEW v \in Variable
  PROVE  LET c == options.Variables[v]
             sent == paramExtractor(opt, ParamKeys("gin", declared)).Variables[v]
         IN IF c # Absent /\ c[1] = "placeholder"
              THEN sent = IF \E p \in declared : SameName(p, c[2])
                            THEN <<"param", TitleFirst(c[2])>> ELSE <<"empty">>
              ELSE sent = c
<1> DEFINE c == options.Variables[v]
           params == ParamKeys("gin", declared)
<1>1. c \in ConfiguredValue \cup {Absent}
  BY DEF OptionsOK
<1>2. v \in Replaced(opt) <=> c # Absent /\ c[1] = "placeholder"
  BY DEF Replaced, Configured
<1>3. CASE c # Absent /\ c[1] = "placeholder"
  <2>1. c[2] \in Names /\ declared \subseteq Names
    BY <1>1, <1>3, ConfiguredValues DEF Placeholders, OptionsOK
  <2>2. params = {TitleFirst(p) : p \in declared}
    BY DEF ParamKeys
  <2>3. TitleFirst(c[2]) \in params <=> \E p \in declared : SameName(p, c[2])
    BY <2>1, <2>2, TitlesAgree
  <2>4. paramExtractor(opt, params).Variables[v]
          = IF TitleFirst(c[2]) \in params THEN <<"param", TitleFirst(c[2])>> ELSE <<"empty">>
    BY <1>2, <1>3 DEF paramExtractor, Sends, Parameter
  <2> QED
    BY <1>3, <2>3, <2>4
<1>4. CASE ~(c # Absent /\ c[1] = "placeholder")
  BY <1>2, <1>4 DEF paramExtractor, Sends
<1> QED
  BY <1>3, <1>4

\* What the middleware (proxy/graphql.go:44-124) makes of any configuration and
\* any request.
LEMMA VariablesReach == OptionsOK => VariablesReachBackend
<1> SUFFICES ASSUME OptionsOK PROVE VariablesReachBackend
  OBVIOUS
<1> DEFINE opt == GetOptions(options)
           params == ParamKeys("gin", declared)
           r == Extract(opt, params, received)
           m == GraphQLMiddleware(options, params, received)
           given == IF received[1] = "object" THEN received[2] ELSE {}
<1>1. opt.Variables = options.Variables /\ opt.Type = options.Type
  BY DEF GetOptions, OptionsOK
<1>2. received[1] \in {"nil", "invalid", "null", "object"} /\ options.Type \in {"query", "mutation"}
  BY Bodies DEF OptionsOK
<1>3. received[1] = "null" <=> received = <<"null">>
  BY Bodies DEF OptionsOK
<1>4. SUFFICES ASSUME m.outcome # "no start"
               PROVE  /\ m.outcome = "error" <=> options.Type = "mutation" /\ received[1] \in {"nil", "invalid"}
                      /\ m.outcome = "panic" => options.Type = "mutation" /\ received = <<"null">>
                      /\ m.outcome = "sent" => \A v \in Variable :
                           LET c == options.Variables[v] IN
                           /\ options.Type = "mutation" => m.variables[v] = IF v \in given THEN <<"body">> ELSE c
                           /\ options.Type = "query" =>
                                IF c # Absent /\ c[1] = "placeholder"
                                  THEN m.variables[v] = IF \E p \in declared : SameName(p, c[2])
                                                          THEN <<"param", TitleFirst(c[2])>> ELSE <<"empty">>
                                  ELSE m.variables[v] = c
  BY DEF VariablesReachBackend
<1>5. ~NewPanics(opt)
  BY <1>4 DEF GraphQLMiddleware
<1>6. m.outcome = r.outcome /\ (r.outcome = "sent" => m.variables = r.Variables)
  BY <1>5 DEF GraphQLMiddleware
<1>7. CASE options.Type = "mutation"
  <2>1. r = fromBody(opt, received)
    BY <1>1, <1>7 DEF Extract
  <2>2. CASE received[1] \in {"nil", "invalid"}
    <3>1. r.outcome = "error"
      BY <2>1, <2>2 DEF fromBody, Fails
    <3> QED
      BY <1>6, <1>7, <2>2, <3>1
  <2>3. CASE received[1] = "null" /\ Configured(opt) # {}
    <3>1. r.outcome = "panic"
      BY <2>1, <2>3 DEF fromBody, Fails
    <3> QED
      BY <1>3, <1>6, <1>7, <2>3, <3>1
  <2>4. CASE received[1] \notin {"nil", "invalid"} /\ ~(received[1] = "null" /\ Configured(opt) # {})
    <3>1. r = Sends([v \in Variable |-> IF v \in given THEN <<"body">> ELSE opt.Variables[v]])
      BY <1>2, <2>1, <2>4 DEF fromBody
    <3>2. r.outcome = "sent" /\ \A v \in Variable :
            r.Variables[v] = IF v \in given THEN <<"body">> ELSE options.Variables[v]
      BY <1>1, <3>1 DEF Sends
    <3> QED
      BY <1>6, <1>7, <2>4, <3>2
  <2> QED
    BY <2>2, <2>3, <2>4
<1>8. CASE options.Type = "query"
  <2>1. r = paramExtractor(opt, params)
    BY <1>1, <1>8 DEF Extract
  <2>2. r.outcome = "sent"
    BY <2>1 DEF paramExtractor, Sends
  <2>3. \A v \in Variable :
          LET c == options.Variables[v]
          IN IF c # Absent /\ c[1] = "placeholder"
               THEN r.Variables[v] = IF \E p \in declared : SameName(p, c[2])
                                       THEN <<"param", TitleFirst(c[2])>> ELSE <<"empty">>
               ELSE r.Variables[v] = c
    BY <1>1, <2>1, QueryVariable
  <2> QED
    BY <1>6, <1>8, <2>2, <2>3
<1> QED
  BY <1>2, <1>7, <1>8

\* The GraphQL middleware (proxy/graphql.go:44-124) sends the variables it
\* should, for every configuration, every declaration and every request.
THEOREM VariablesArrive == GraphQLSpec => []VariablesReachBackend
BY OptionsInit, OptionsStep, VariablesReach, PTL DEF GraphQLSpec

=============================================================================

---------------------------- MODULE SharedProofs ----------------------------
(***************************************************************************)
(* Proofs about what goroutines share.                                     *)
(*                                                                         *)
(* A request and its clones, for any number of calls, any configuration of *)
(* their backends and any filters: types, that no goroutine writes a map   *)
(* another one is about to use, and that each call leaves with its own     *)
(* headers and body.  The invariant IInv says whose maps a call has.       *)
(*                                                                         *)
(* The registers, for any namespaces, names, plugins, goroutines that      *)
(* register and goroutines that look up: they implement AtomicRegister and *)
(* no plugin that was loaded loses a registration.  Their invariant is     *)
(* RegistersIInv.                                                          *)
(***************************************************************************)
EXTENDS RequestSharing, Registers, FiniteSetTheorems, TLAPS

---------------------------------------------------------------------------
(* A request and its clones.                                               *)

\* Calls are forked in order (for i := ...), so just those before next run.
ForkedInOrder == \A c \in Call : at[c] # "idle" <=> c < next

\* Until then their requests are the received one.
Unforked == \A c \in Call : at[c] = "idle" => req[c].headers = Original

\* A deep clone's headers belong to its call; the original's are kept by the
\* last one alone.
OwnHeaders(c) == \/ req[c].headers \in {<<c, "clone">>, <<c, "filtered">>}
                 \/ TakesOriginal(c) /\ req[c].headers = Original

HeadersHaveOwners == Deep => \A c \in Call : at[c] # "idle" => OwnHeaders(c)

IInv == TypeOK /\ ForkedInOrder /\ Unforked /\ HeadersHaveOwners

\* Names of maps: each call's own, and the original's.
LEMMA Refs == /\ Original \in Ref
              /\ \A c \in Call : <<c, "clone">> \in Ref /\ <<c, "filtered">> \in Ref
  BY DEF Ref, Original

\* A name tells whose map it is.
LEMMA Owner == ASSUME NEW c \in Call, NEW d \in Call, NEW x \in {"clone", "filtered"},
                      NEW y \in {"clone", "filtered"}
               PROVE  <<c, x>> # Original /\ (<<c, x>> = <<d, y>> => c = d)
<1>1. x # "request"
  OBVIOUS
<1> QED
  BY <1>1 DEF Original

\* The initial requests, heap and messages have their types.
LEMMA InitType == Init => TypeOK
<1> SUFFICES ASSUME Init PROVE TypeOK
  OBVIOUS
<1>1. next \in 1..(N + 1)
  <2>1. next = 1
    BY DEF Init
  <2> QED
    BY <2>1, NAssumption
<1>2. at \in [Call -> {"idle", "filterQuery", "build", "balance", "filterHeaders",
                       "graphql", "send", "sent", "failed"}]
  BY DEF Init
<1>3. req \in [Call -> Request]
  <2>1. \A c \in Call : backend[c].method \in {"GET", "POST"}
    BY DEF Init, Backend
  <2> QED
    BY <2>1, Refs DEF Init, Request
<1>4. queries \in [Ref -> QueryMap] /\ headers \in [Ref -> HeaderMap]
  BY DEF Init, QueryMap, HeaderMap
<1>5. bodies \in [Ref -> Body]
  BY DEF Init, Body
<1>6. sent \in [Call -> {NotSent} \cup Message]
  BY DEF Init
<1>7. fan \in {"merge", "concurrent", "shadow"} /\ forced \in BOOLEAN
      /\ above \in {"deep", "shallow"} /\ clientBody \in {NoBody, ClientBody} /\ backend \in [Call -> Backend]
  BY DEF Init
<1> QED
  BY <1>1, <1>2, <1>3, <1>4, <1>5, <1>6, <1>7 DEF TypeOK

LEMMA InitInv == Init => IInv
<1> SUFFICES ASSUME Init PROVE IInv
  OBVIOUS
<1>1. \A c \in Call : at[c] = "idle" /\ req[c].headers = Original
  BY DEF Init
<1>2. \A c \in Call : ~(c < next)
  <2>1. next = 1
    BY DEF Init
  <2> QED
    BY <2>1, NAssumption DEF Call
<1> QED
  BY <1>1, <1>2, InitType DEF IInv, ForkedInOrder, Unforked, HeadersHaveOwners

---------------------------------------------------------------------------
(* Types.  One lemma per group of variables a middleware touches.          *)

\* What forking c does to next and at.
LEMMA ForkType == ASSUME TypeOK, NEW c \in Call, Forks(c)
                  PROVE  /\ next' \in 1..(N + 1)
                         /\ at' \in [Call -> {"idle", "filterQuery", "build", "balance",
                                              "filterHeaders", "graphql", "send", "sent", "failed"}]
  BY NAssumption DEF TypeOK, Forks, FirstStage, Call

\* What a middleware that hands the request on does to at and next.
LEMMA PassType == ASSUME TypeOK, NEW c \in Call, NEW from,
                         NEW to \in {"build", "balance", "filterHeaders", "graphql", "send",
                                     "sent", "failed"},
                         Passes(c, from, to)
                  PROVE  /\ next' = next /\ UNCHANGED conf
                         /\ at' \in [Call -> {"idle", "filterQuery", "build", "balance",
                                              "filterHeaders", "graphql", "send", "sent", "failed"}]
  BY DEF TypeOK, Passes

\* The maps a call refers to have the types of maps.
LEMMA MapsOf == ASSUME TypeOK, NEW c \in Call
                PROVE  /\ req[c] \in Request
                       /\ Query(c) \in QueryMap /\ Headers(c) \in HeaderMap
                       /\ bodies[req[c].body] \in Body
  BY DEF TypeOK, Query, Headers, Request

\* A new message has the type of messages.
LEMMA SendType == ASSUME TypeOK, NEW c \in Call, Send(c) PROVE TypeOK'
<1>1. [url |-> req[c].url, headers |-> Headers(c), body |-> bodies[req[c].body],
       method |-> req[c].method] \in Message
  BY MapsOf DEF Request, Message
<1>2. sent' \in [Call -> {NotSent} \cup Message]
  BY <1>1 DEF Send, TypeOK
<1>3. bodies' \in [Ref -> Body]
  BY MapsOf DEF Send, TypeOK, Body, Request
<1>4. next' = next /\ UNCHANGED conf
      /\ at' \in [Call -> {"idle", "filterQuery", "build", "balance",
                           "filterHeaders", "graphql", "send", "sent", "failed"}]
  BY PassType DEF Send
<1> QED
  BY <1>2, <1>3, <1>4 DEF Send, TypeOK, conf

\* A GraphQL request has a body and headers of the types of the heap.
LEMMA WriteBodyType ==
  ASSUME TypeOK, NEW c \in Call, NEW b \in Body, NEW m \in {"GET", "POST"}, WriteBody(c, b, m)
  PROVE  req' \in [Call -> Request] /\ bodies' \in [Ref -> Body] /\ headers' \in [Ref -> HeaderMap]
<1>1. req' \in [Call -> Request]
  <2>1. [req[c] EXCEPT !.body = <<c, "filtered">>, !.method = m] \in Request
    BY MapsOf, Refs DEF Request
  <2>2. req' = [req EXCEPT ![c] = [req[c] EXCEPT !.body = <<c, "filtered">>, !.method = m]]
    BY MapsOf DEF WriteBody, TypeOK, Request
  <2> QED
    BY <2>1, <2>2 DEF TypeOK
<1>2. bodies' \in [Ref -> Body]
  <2>1. NoBody \in Body
    BY DEF Body
  <2> QED
    BY <2>1, MapsOf, Refs DEF WriteBody, TypeOK
<1>3. headers' \in [Ref -> HeaderMap]
  <2>1. [headers[req[c].headers] EXCEPT !.length = c] \in HeaderMap
    BY MapsOf DEF Headers, HeaderMap
  <2> QED
    BY <2>1, MapsOf DEF WriteBody, TypeOK, Request
<1> QED
  BY <1>1, <1>2, <1>3

\* Every step keeps the types.
LEMMA NextType == TypeOK /\ [Next]_vars => TypeOK'
<1> SUFFICES ASSUME TypeOK, [Next]_vars PROVE TypeOK'
  OBVIOUS
<1>1. CASE UNCHANGED vars
  BY <1>1 DEF vars, conf, heap, TypeOK
<1>2. ASSUME NEW c \in Call, Clone(c) PROVE TypeOK'
  BY <1>2, ForkType DEF Clone, TypeOK, conf, heap
<1>3. ASSUME NEW c \in Call, CloneRequest(c) PROVE TypeOK'
  <2>1. req' \in [Call -> Request]
    <3>1. [req[c] EXCEPT !.headers = <<c, "clone">>, !.body = <<c, "clone">>,
                      !.params = <<c, "clone">>] \in Request
      BY MapsOf, Refs DEF Request
    <3>2. req' = [req EXCEPT ![c] = [req[c] EXCEPT !.headers = <<c, "clone">>, !.body = <<c, "clone">>,
                                                      !.params = <<c, "clone">>]]
      BY <1>3 DEF CloneRequest, TypeOK, Request
    <3> QED
      BY <3>1, <3>2 DEF TypeOK
  <2>2. headers' \in [Ref -> HeaderMap] /\ bodies' \in [Ref -> Body]
    BY <1>3, Refs DEF CloneRequest, TypeOK
  <2> QED
    BY <1>3, <2>1, <2>2, ForkType DEF CloneRequest, TypeOK, conf
<1>4. ASSUME NEW c \in Call, FilterQuery(c) PROVE TypeOK'
  <2>1. req' \in [Call -> Request]
    <3>1. [req[c] EXCEPT !.query = <<c, "filtered">>] \in Request
      BY MapsOf, Refs DEF Request
    <3>2. CASE UNCHANGED req
      BY <3>2 DEF TypeOK
    <3>3. CASE req' = [req EXCEPT ![c].query = <<c, "filtered">>]
      BY <3>1, <3>3 DEF TypeOK
    <3> QED
      BY <1>4, <3>2, <3>3 DEF FilterQuery
  <2>2. queries' \in [Ref -> QueryMap]
    <3>1. [client |-> Query(c).client \cap backend[c].passQuery, graphql |-> {}] \in QueryMap
      BY MapsOf DEF QueryMap
    <3> QED
      BY <1>4, <3>1, Refs DEF FilterQuery, TypeOK
  <2> QED
    BY <1>4, <2>1, <2>2, PassType DEF FilterQuery, TypeOK, conf
<1>5. ASSUME NEW c \in Call, Build(c) PROVE TypeOK'
  <2>1. req' \in [Call -> Request]
    <3>1. backend[c].method \in {"GET", "POST"}
      BY DEF TypeOK, Backend
    <3>2. [req[c] EXCEPT !.method = backend[c].method] \in Request
      BY <3>1, MapsOf DEF Request
    <3> QED
      BY <1>5, <3>2 DEF Build, TypeOK
  <2> QED
    BY <1>5, <2>1, PassType DEF Build, TypeOK, conf, heap
<1>6. ASSUME NEW c \in Call, Balance(c) PROVE TypeOK'
  <2>1. req' \in [Call -> Request]
    <3>1. [req[c] EXCEPT !.url = Query(c)] \in Request
      BY MapsOf DEF Request
    <3> QED
      BY <1>6, <3>1 DEF Balance, TypeOK
  <2> QED
    BY <1>6, <2>1, PassType DEF Balance, TypeOK, conf, heap
<1>7. ASSUME NEW c \in Call, FilterHeaders(c) PROVE TypeOK'
  <2>1. req' \in [Call -> Request]
    <3>1. [req[c] EXCEPT !.headers = <<c, "filtered">>] \in Request
      BY MapsOf, Refs DEF Request
    <3>2. CASE UNCHANGED req
      BY <3>2 DEF TypeOK
    <3>3. CASE req' = [req EXCEPT ![c].headers = <<c, "filtered">>]
      BY <3>1, <3>3 DEF TypeOK
    <3> QED
      BY <1>7, <3>2, <3>3 DEF FilterHeaders
  <2>2. headers' \in [Ref -> HeaderMap]
    <3>1. [client |-> Headers(c).client \cap backend[c].passHeaders, length |-> 0] \in HeaderMap
      BY MapsOf DEF HeaderMap
    <3> QED
      BY <1>7, <3>1, Refs DEF FilterHeaders, TypeOK
  <2> QED
    BY <1>7, <2>1, <2>2, PassType DEF FilterHeaders, TypeOK, conf
<1>8. ASSUME NEW c \in Call, NoGraphQL(c) \/ GraphQLFails(c) PROVE TypeOK'
  BY <1>8, PassType DEF NoGraphQL, GraphQLFails, TypeOK, conf, heap
<1>9. ASSUME NEW c \in Call, GraphQLPost(c) PROVE TypeOK'
  <2>1. req' \in [Call -> Request] /\ bodies' \in [Ref -> Body] /\ headers' \in [Ref -> HeaderMap]
    BY <1>9, WriteBodyType DEF GraphQLPost, Body
  <2> QED
    BY <1>9, <2>1, PassType DEF GraphQLPost, TypeOK, conf
<1>10. ASSUME NEW c \in Call, GraphQLGet(c) PROVE TypeOK'
  <2>1. req' \in [Call -> Request] /\ bodies' \in [Ref -> Body] /\ headers' \in [Ref -> HeaderMap]
    BY <1>10, WriteBodyType DEF GraphQLGet, Body
  <2>2. queries' \in [Ref -> QueryMap]
    <3>1. [Query(c) EXCEPT !.graphql = @ \cup {c}] \in QueryMap
      BY MapsOf DEF QueryMap
    <3> QED
      BY <1>10, <3>1, MapsOf DEF GraphQLGet, TypeOK, Query, Request
  <2> QED
    BY <1>10, <2>1, <2>2, PassType DEF GraphQLGet, TypeOK, conf
<1>11. ASSUME NEW c \in Call, Send(c) PROVE TypeOK'
  BY <1>11, SendType
<1> QED
  BY <1>1, <1>2, <1>3, <1>4, <1>5, <1>6, <1>7, <1>8, <1>9, <1>10, <1>11 DEF Next, Terminated

\* Every variable keeps its type: requests, maps and messages of newStack.
THEOREM TypeCorrect == Spec => []TypeOK
  BY InitType, NextType, PTL DEF Spec

---------------------------------------------------------------------------
(* Who owns which headers.                                                 *)

\* Only the step of its own call moves a call, and no step of a middleware
\* gives a call headers that are not its own.
LEMMA KeepsOwners ==
  ASSUME IInv, TypeOK', NEW c \in Call, at[c] # "idle", at'[c] # "idle",
         UNCHANGED <<conf, next>>,
         \A d \in Call \ {c} : at'[d] = at[d] /\ req'[d] = req[d],
         req'[c].headers \in {req[c].headers, <<c, "filtered">>}
  PROVE  IInv'
<1>1. ForkedInOrder' /\ Unforked'
  BY DEF IInv, ForkedInOrder, Unforked
<1>2. (Deep <=> Deep') /\ \A d \in Call : TakesOriginal(d) <=> TakesOriginal(d)'
  BY DEF Deep, hasUnsafeBackends, TakesOriginal, conf
<1>3. HeadersHaveOwners'
  BY <1>2 DEF IInv, HeadersHaveOwners, OwnHeaders
<1> QED
  BY <1>1, <1>3 DEF IInv

\* Forking one call leaves the other requests alone and gives it its own
\* headers, unless it takes the original.
LEMMA ForkKeepsOwners ==
  ASSUME IInv, TypeOK', NEW c \in Call, Forks(c), UNCHANGED conf,
         \A d \in Call \ {c} : req'[d] = req[d],
         Deep => OwnHeaders(c)'
  PROVE  IInv'
<1>1. ForkedInOrder' /\ Unforked'
  BY NAssumption DEF IInv, ForkedInOrder, Unforked, Forks, TypeOK, Call, FirstStage
<1>2. (Deep <=> Deep') /\ \A d \in Call : TakesOriginal(d) <=> TakesOriginal(d)'
  BY DEF Deep, hasUnsafeBackends, TakesOriginal, conf
<1>3. HeadersHaveOwners'
  <2> SUFFICES ASSUME Deep', NEW d \in Call, at'[d] # "idle" PROVE OwnHeaders(d)'
    BY DEF HeadersHaveOwners
  <2>1. CASE d = c
    BY <2>1, <1>2
  <2>2. CASE d # c
    <3>1. at[d] # "idle" /\ OwnHeaders(d)
      BY <2>2, <1>2 DEF IInv, HeadersHaveOwners, Forks, TypeOK
    <3> QED
      BY <3>1, <2>2, <1>2 DEF OwnHeaders
  <2> QED
    BY <2>1, <2>2
<1> QED
  BY <1>1, <1>3 DEF IInv

\* A forked call stands before a middleware.
LEMMA StepOfMiddleware ==
  ASSUME IInv, TypeOK', NEW c \in Call, NEW from, NEW to, from # "idle", to # "idle",
         Passes(c, from, to),
         \A d \in Call \ {c} : req'[d] = req[d],
         req'[c].headers \in {req[c].headers, <<c, "filtered">>}
  PROVE  IInv'
<1>1. at[c] # "idle" /\ at'[c] # "idle" /\ UNCHANGED <<conf, next>>
      /\ \A d \in Call \ {c} : at'[d] = at[d]
  BY DEF Passes, IInv, TypeOK
<1> QED
  BY <1>1, KeepsOwners

LEMMA NextInv == IInv /\ [Next]_vars => IInv'
<1> SUFFICES ASSUME IInv, [Next]_vars PROVE IInv'
  OBVIOUS
<1>0. TypeOK /\ TypeOK' /\ \A c \in Call : req[c] \in Request
  BY NextType DEF IInv, TypeOK
<1>1. CASE UNCHANGED vars
  BY <1>0, <1>1 DEF vars, conf, IInv, ForkedInOrder, Unforked, HeadersHaveOwners, OwnHeaders,
                   Deep, hasUnsafeBackends, TakesOriginal
<1>2. ASSUME NEW c \in Call, Clone(c) PROVE IInv'
  <2>1. at[c] = "idle"
    BY <1>2, NAssumption DEF Clone, Forks, IInv, ForkedInOrder, TypeOK, Call
  <2>2. Deep => OwnHeaders(c)'
    BY <1>2, <2>1 DEF Clone, IInv, Unforked, OwnHeaders, Deep, TakesOriginal, conf
  <2> QED
    BY <1>0, <1>2, <2>2, ForkKeepsOwners DEF Clone
<1>3. ASSUME NEW c \in Call, CloneRequest(c) PROVE IInv'
  <2>1. req'[c].headers = <<c, "clone">> /\ \A d \in Call \ {c} : req'[d] = req[d]
    BY <1>0, <1>3 DEF CloneRequest, TypeOK, Request
  <2> QED
    BY <1>0, <1>3, <2>1, ForkKeepsOwners DEF CloneRequest, OwnHeaders
<1>4. ASSUME NEW c \in Call, FilterQuery(c) PROVE IInv'
  <2>1. req'[c].headers = req[c].headers /\ \A d \in Call \ {c} : req'[d] = req[d]
    <3>1. [req[c] EXCEPT !.query = <<c, "filtered">>].headers = req[c].headers
      BY <1>0 DEF Request
    <3>2. CASE UNCHANGED req
      BY <3>2
    <3>3. CASE req' = [req EXCEPT ![c].query = <<c, "filtered">>]
      BY <1>0, <3>1, <3>3 DEF TypeOK
    <3> QED
      BY <1>4, <3>2, <3>3 DEF FilterQuery
  <2> QED
    BY <1>0, <1>4, <2>1, StepOfMiddleware DEF FilterQuery
<1>5. ASSUME NEW c \in Call, Build(c) \/ Balance(c) PROVE IInv'
  <2>1. req'[c].headers = req[c].headers /\ \A d \in Call \ {c} : req'[d] = req[d]
    <3>1. /\ [req[c] EXCEPT !.method = backend[c].method].headers = req[c].headers
          /\ [req[c] EXCEPT !.url = Query(c)].headers = req[c].headers
      BY <1>0 DEF Request
    <3>2. CASE req' = [req EXCEPT ![c].method = backend[c].method]
      BY <1>0, <3>1, <3>2 DEF TypeOK
    <3>3. CASE req' = [req EXCEPT ![c].url = Query(c)]
      BY <1>0, <3>1, <3>3 DEF TypeOK
    <3> QED
      BY <1>5, <3>2, <3>3 DEF Build, Balance
  <2> QED
    BY <1>0, <1>5, <2>1, StepOfMiddleware DEF Build, Balance
<1>6. ASSUME NEW c \in Call, FilterHeaders(c) PROVE IInv'
  <2>1. req'[c].headers \in {req[c].headers, <<c, "filtered">>}
        /\ \A d \in Call \ {c} : req'[d] = req[d]
    <3>1. [req[c] EXCEPT !.headers = <<c, "filtered">>].headers = <<c, "filtered">>
      BY <1>0 DEF Request
    <3>2. CASE UNCHANGED req
      BY <3>2
    <3>3. CASE req' = [req EXCEPT ![c].headers = <<c, "filtered">>]
      BY <1>0, <3>1, <3>3 DEF TypeOK
    <3> QED
      BY <1>6, <3>2, <3>3 DEF FilterHeaders
  <2> QED
    BY <1>0, <1>6, <2>1, StepOfMiddleware DEF FilterHeaders
<1>7. ASSUME NEW c \in Call, NoGraphQL(c) \/ GraphQLFails(c) \/ Send(c) PROVE IInv'
  BY <1>0, <1>7, StepOfMiddleware DEF NoGraphQL, GraphQLFails, Send
<1>8. ASSUME NEW c \in Call, GraphQLPost(c) \/ GraphQLGet(c) PROVE IInv'
  <2>1. req'[c].headers = req[c].headers /\ \A d \in Call \ {c} : req'[d] = req[d]
    <3> SUFFICES ASSUME NEW b, NEW m, WriteBody(c, b, m)
                 PROVE  req'[c].headers = req[c].headers /\ \A d \in Call \ {c} : req'[d] = req[d]
      BY <1>8 DEF GraphQLPost, GraphQLGet
    <3>1. [req[c] EXCEPT !.body = <<c, "filtered">>, !.method = m].headers = req[c].headers
      BY <1>0 DEF Request
    <3>2. req' = [req EXCEPT ![c] = [req[c] EXCEPT !.body = <<c, "filtered">>, !.method = m]]
      BY <1>0 DEF WriteBody, TypeOK, Request
    <3> QED
      BY <1>0, <3>1, <3>2 DEF TypeOK
  <2> QED
    BY <1>0, <1>8, <2>1, StepOfMiddleware DEF GraphQLPost, GraphQLGet
<1> QED
  BY <1>1, <1>2, <1>3, <1>4, <1>5, <1>6, <1>7, <1>8 DEF Next, Terminated

---------------------------------------------------------------------------
(* Races.                                                                  *)

\* A middleware touches the headers of its own request, and only GraphQL's
\* writes them.
LEMMA HeadersAccess ==
  ASSUME NEW c \in Call, NEW x \in StageAccesses(c), x.map = "headers"
  PROVE  at[c] # "idle" /\ x.ref = req[c].headers /\ (x.write => UsesGraphQL(backend[c]))
  BY DEF StageAccesses, Access

\* The goroutine that forks reads the received request.
LEMMA CloneAccess ==
  ASSUME NEW x \in CloneAccesses
  PROVE  next \in Call /\ Deep /\ ~TakesOriginal(next) /\ x.ref = Original /\ ~x.write
         /\ x.map # "query"
  BY DEF CloneAccesses, Access

\* A sequential merge is at the received request only if it gave its own away.
LEMMA MergeAccess ==
  ASSUME NEW x \in MergeAccesses
  PROVE  next \notin Call /\ x.ref = MergeRef /\ (x.write <=> x.map = "params") /\ x.map # "query"
  BY DEF MergeAccesses, Access

\* Only a GraphQL GET writes into a Query, and no middleware writes Params.
LEMMA StageWrites ==
  ASSUME NEW c \in Call, NEW x \in StageAccesses(c), x.write
  PROVE  x.map # "params" /\ (x.map = "query" => GetsGraphQL(backend[c]))
  BY DEF StageAccesses, Access

\* Who reads Params.
LEMMA ParamsAccess ==
  ASSUME NEW c \in Call, NEW x \in StageAccesses(c), x.map = "params"
  PROVE  /\ x.ref = req[c].params
         /\ at[c] = "build" \/ (UsesGraphQL(backend[c]) /\ ~Mutates(backend[c]))
<1>1. CASE at[c] = "build"
  BY <1>1 DEF StageAccesses, Access
<1>2. CASE at[c] = "graphql"
  <2>1. UsesGraphQL(backend[c])
    BY <1>2 DEF StageAccesses
  <2>2. x \in {Access("headers", req[c].headers, TRUE), Access("query", req[c].query, TRUE)}
              \cup (IF Mutates(backend[c]) THEN {} ELSE {Access("params", req[c].params, FALSE)})
    BY <1>2, <2>1 DEF StageAccesses
  <2> QED
    BY <2>1, <2>2 DEF Access
<1>3. CASE at[c] \notin {"build", "graphql"}
  BY <1>3 DEF StageAccesses, Access
<1> QED
  BY <1>1, <1>2, <1>3

\* The actors, one by one.
LEMMA Actors ==
  ASSUME NEW a \in 0..(N + 1), NEW x \in Accesses(a)
  PROVE  \/ a = 0 /\ x \in CloneAccesses
         \/ a = N + 1 /\ x \in MergeAccesses
         \/ a \in Call /\ x \in StageAccesses(a)
  BY NAssumption DEF Accesses, Call

\* The maps of a merge that kept them are no call's.
LEMMA MergeIsApart == above = "deep" => MergeRef \notin Ref
  BY NAssumption DEF MergeRef, Ref, Call

\* The invariant leaves no two actors at one headers map that one of them
\* writes.
LEMMA InvHeaders ==
  IInv /\ ((Deep /\ above = "deep") \/ \A c \in Call : ~UsesGraphQL(backend[c])) => ~Race("headers")
<1> SUFFICES ASSUME IInv, (Deep /\ above = "deep") \/ (\A c \in Call : ~UsesGraphQL(backend[c])),
                    NEW a \in 0..(N + 1), NEW b \in 0..(N + 1), a # b,
                    NEW x \in Accesses(a), NEW y \in Accesses(b),
                    x.map = "headers", y.map = "headers", x.ref = y.ref, x.write
             PROVE  FALSE
  BY DEF Race
<1>1. a \in Call /\ x \in StageAccesses(a)
  BY Actors, CloneAccess, MergeAccess
<1>2. /\ at[a] # "idle" /\ x.ref = req[a].headers /\ Deep /\ above = "deep" /\ OwnHeaders(a)
      /\ x.ref \in Ref
  BY <1>1, HeadersAccess DEF IInv, HeadersHaveOwners, TypeOK, Request
<1>3. CASE y \in CloneAccesses
  <2>1. next \in Call /\ y.ref = Original
    BY <1>3, CloneAccess
  <2>2. a < next
    BY <1>1, <1>2 DEF IInv, ForkedInOrder
  <2>3. a = N
    BY <1>1, <1>2, <2>1, Owner DEF OwnHeaders, TakesOriginal
  <2> QED
    BY <2>1, <2>2, <2>3, NAssumption DEF Call
<1>4. CASE y \in MergeAccesses
  BY <1>2, <1>4, MergeAccess, MergeIsApart
<1>5. CASE b \in Call /\ y \in StageAccesses(b)
  <2>1. y.ref = req[b].headers /\ OwnHeaders(b)
    BY <1>2, <1>5, HeadersAccess DEF IInv, HeadersHaveOwners
  <2> QED
    BY <1>1, <1>2, <1>5, <2>1, Owner DEF OwnHeaders, TakesOriginal
<1> QED
  BY <1>3, <1>4, <1>5, Actors

\* Without GraphQL GETs nobody writes into a Query.
LEMMA NoQueryRace == (\A c \in Call : ~GetsGraphQL(backend[c])) => ~Race("query")
<1> SUFFICES ASSUME \A c \in Call : ~GetsGraphQL(backend[c]),
                    NEW a \in 0..(N + 1), NEW x \in Accesses(a), x.map = "query", x.write
             PROVE  FALSE
  BY DEF Race
<1> QED
  BY Actors, CloneAccess, MergeAccess, StageWrites

\* In newStack (factory.go:90-104) the request builder is above the concurrent
\* calls, so none of them reads Params there.
BuiltAbove == /\ above = "shallow" => fan = "concurrent"
              /\ fan = "concurrent" => \A c \in Call : at[c] \notin {"filterQuery", "build"}

LEMMA BuiltInit == Init => BuiltAbove
  BY DEF Init, BuiltAbove

LEMMA BuiltNext == TypeOK /\ BuiltAbove /\ [Next]_vars => BuiltAbove'
<1> SUFFICES ASSUME TypeOK, BuiltAbove, [Next]_vars PROVE BuiltAbove'
  OBVIOUS
<1> USE DEF BuiltAbove, TypeOK, conf
<1>1. CASE UNCHANGED vars
  BY <1>1 DEF vars
<1>2. ASSUME NEW c \in Call, Clone(c) \/ CloneRequest(c) PROVE BuiltAbove'
  BY <1>2 DEF Clone, CloneRequest, Forks, FirstStage
<1>3. ASSUME NEW c \in Call, FilterQuery(c) \/ Build(c) \/ Balance(c) \/ FilterHeaders(c)
      PROVE BuiltAbove'
  BY <1>3 DEF FilterQuery, Build, Balance, FilterHeaders, Passes
<1>4. ASSUME NEW c \in Call, NoGraphQL(c) \/ GraphQLFails(c) \/ GraphQLPost(c) \/ GraphQLGet(c) \/ Send(c)
      PROVE BuiltAbove'
  BY <1>4 DEF NoGraphQL, GraphQLFails, GraphQLPost, GraphQLGet, Send, Passes
<1> QED
  BY <1>1, <1>2, <1>3, <1>4 DEF Next, Terminated

\* A sequential merge writes Params that no call still reads.
LEMMA NoParamsRace ==
  IInv /\ BuiltAbove /\ (above = "deep" \/ \A c \in Call : UsesGraphQL(backend[c]) => Mutates(backend[c]))
    => ~Race("params")
<1> SUFFICES ASSUME IInv, BuiltAbove,
                    above = "deep" \/ (\A c \in Call : UsesGraphQL(backend[c]) => Mutates(backend[c])),
                    NEW a \in 0..(N + 1), NEW b \in 0..(N + 1), a # b,
                    NEW x \in Accesses(a), NEW y \in Accesses(b),
                    x.map = "params", y.map = "params", x.ref = y.ref, x.write
             PROVE  FALSE
  BY DEF Race
<1>1. a = N + 1 /\ x \in MergeAccesses /\ next \notin Call /\ x.ref = MergeRef
  BY Actors, CloneAccess, StageWrites, MergeAccess
<1>2. b \in Call /\ y \in StageAccesses(b)
  BY <1>1, Actors, CloneAccess
<1>3. y.ref = req[b].params /\ y.ref \in Ref
  BY <1>2, ParamsAccess DEF IInv, TypeOK, Request
<1>4. above = "shallow" /\ at[b] = "build"
  BY <1>1, <1>2, <1>3, ParamsAccess, MergeIsApart DEF IInv, TypeOK
<1> QED
  BY <1>2, <1>4 DEF BuiltAbove

\* With deep clones, or without GraphQL, no goroutine writes a map that
\* another one is about to use (CloneRequest, the filters, GraphQL, and the
\* sequential merge that goes on).
THEOREM MapsNotShared == Spec => []RaceFree
<1>1. IInv /\ BuiltAbove => RaceFree
  BY InvHeaders, NoQueryRace, NoParamsRace DEF RaceFree
<1>2. IInv => TypeOK
  BY DEF IInv
<1> QED
  BY <1>1, <1>2, InitInv, NextInv, BuiltInit, BuiltNext, PTL DEF Spec

---------------------------------------------------------------------------
(* What the calls carry.  With deep clones a call is alone with its body   *)
(* too, so what it finds there is what it was given.                       *)

\* The maps and bodies a call may write into.
OwnRefs(c) == {<<c, "clone">>, <<c, "filtered">>} \cup (IF TakesOriginal(c) THEN {Original} ELSE {})

BeforeGraphQL == {"filterQuery", "build", "balance", "filterHeaders", "graphql"}

LengthOf(c) == IF UsesGraphQL(backend[c]) THEN c ELSE 0

Length(c) == headers[req[c].headers].length
BodyOf(c) == bodies[req[c].body]

\* The client's headers and body, until GraphQL replaces them.
Content(c) ==
  /\ at[c] \in BeforeGraphQL => Length(c) = 0 /\ BodyOf(c) = clientBody
  /\ at[c] = "send" => /\ Length(c) = LengthOf(c)
                       /\ ~UsesGraphQL(backend[c]) => BodyOf(c) = clientBody
  /\ sent[c] # NotSent => /\ sent[c].headers.length = LengthOf(c)
                          /\ ~UsesGraphQL(backend[c]) => sent[c].body = clientBody
  /\ at[c] = "failed" => clientBody = NoBody

\* The received request is as it came while there is a call to fork.
OriginalKept == next <= N => headers[Original].length = 0 /\ bodies[Original] = clientBody

BodyHasOwner(c) == IF at[c] = "idle" THEN req[c].body = Original ELSE req[c].body \in OwnRefs(c)

ContentInv == Deep => OriginalKept /\ \A c \in Call : BodyHasOwner(c) /\ Content(c)

LEMMA ContentInit == Init => ContentInv
<1> SUFFICES ASSUME Init PROVE ContentInv
  OBVIOUS
<1>1. OriginalKept
  BY Refs DEF Init, OriginalKept
<1>2. ASSUME NEW c \in Call PROVE BodyHasOwner(c) /\ Content(c)
  BY DEF Init, BodyHasOwner, Content, BeforeGraphQL
<1> QED
  BY <1>1, <1>2 DEF ContentInv

LEMMA OwnRefsDiffer ==
  ASSUME NEW c \in Call, NEW d \in Call, c # d, NEW r \in OwnRefs(c)
  PROVE  r \notin OwnRefs(d)
  BY Owner DEF OwnRefs, TakesOriginal

\* One call's step leaves everything alone that is not its own.
Leaves(c) == /\ UNCHANGED conf
             /\ \A d \in Call \ {c} : at'[d] = at[d] /\ req'[d] = req[d] /\ sent'[d] = sent[d]
             /\ \A r \in Ref \ OwnRefs(c) : headers'[r] = headers[r] /\ bodies'[r] = bodies[r]

\* Then the others still carry what they carried.
LEMMA OthersCarry ==
  ASSUME IInv, IInv', ContentInv, Deep, NEW c \in Call, Leaves(c), at'[c] # "idle",
         req'[c].body \in OwnRefs(c), Content(c)'
  PROVE  ContentInv'
<1>1. /\ (Deep <=> Deep') /\ UNCHANGED <<clientBody, backend>>
      /\ \A d \in Call : /\ TakesOriginal(d) <=> TakesOriginal(d)'
                         /\ OwnRefs(d)' = OwnRefs(d)
  BY DEF Leaves, Deep, hasUnsafeBackends, TakesOriginal, OwnRefs, conf
<1>2. OriginalKept'
  <2> SUFFICES ASSUME next' <= N
               PROVE  headers'[Original].length = 0 /\ bodies'[Original] = clientBody
    BY <1>1 DEF OriginalKept
  <2>1. c < next' /\ next \in 1..(N + 1) /\ next' \in 1..(N + 1)
    BY DEF IInv, ForkedInOrder, TypeOK
  <2>2. Original \in Ref \ OwnRefs(c)
    BY <2>1, NAssumption, Refs, Owner DEF OwnRefs, TakesOriginal, Call
  <2>3. next <= N
    <3> SUFFICES ASSUME next = N + 1 PROVE FALSE
      BY <2>1, NAssumption
    <3>1. N \in Call /\ at[N] # "idle" /\ c # N
      BY <2>1, NAssumption DEF IInv, ForkedInOrder, Call
    <3>2. at'[N] # "idle"
      BY <3>1 DEF Leaves
    <3>3. N < next'
      BY <3>1, <3>2 DEF IInv, ForkedInOrder
    <3> QED
      BY <2>1, <3>3, NAssumption
  <2> QED
    BY <2>2, <2>3 DEF Leaves, ContentInv, OriginalKept
<1>3. ASSUME NEW d \in Call, d # c PROVE BodyHasOwner(d)' /\ Content(d)'
  <2>1. /\ at'[d] = at[d] /\ req'[d] = req[d] /\ sent'[d] = sent[d]
        /\ BodyHasOwner(d) /\ Content(d) /\ req[d] \in Request
    BY <1>3 DEF Leaves, ContentInv, IInv, TypeOK
  <2>2. BodyHasOwner(d)'
    BY <1>1, <2>1 DEF BodyHasOwner
  <2>3. at[d] # "idle" => Length(d)' = Length(d) /\ BodyOf(d)' = BodyOf(d)
    <3> SUFFICES ASSUME at[d] # "idle" PROVE Length(d)' = Length(d) /\ BodyOf(d)' = BodyOf(d)
      OBVIOUS
    <3>1. req[d].headers \in OwnRefs(d) /\ req[d].body \in OwnRefs(d)
      BY <2>1 DEF IInv, HeadersHaveOwners, OwnHeaders, OwnRefs, BodyHasOwner
    <3>2. req[d].headers \in Ref \ OwnRefs(c) /\ req[d].body \in Ref \ OwnRefs(c)
      BY <1>3, <2>1, <3>1, OwnRefsDiffer DEF Request
    <3> QED
      BY <2>1, <3>2 DEF Leaves, Length, BodyOf
  <2>4. LengthOf(d)' = LengthOf(d)
    BY <1>1 DEF LengthOf
  <2>5. Content(d)'
    BY <1>1, <2>1, <2>3, <2>4 DEF Content, BeforeGraphQL
  <2> QED
    BY <2>2, <2>5
<1>4. BodyHasOwner(c)'
  BY <1>1 DEF BodyHasOwner
<1> QED
  BY <1>1, <1>2, <1>3, <1>4 DEF ContentInv

LEMMA ContentNext == IInv /\ IInv' /\ ContentInv /\ [Next]_vars => ContentInv'
<1> SUFFICES ASSUME IInv, IInv', ContentInv, [Next]_vars, Deep' PROVE ContentInv'
  BY DEF ContentInv
<1>0. UNCHANGED conf /\ Deep /\ UNCHANGED <<clientBody, backend>>
  <2>1. UNCHANGED conf
    BY DEF Next, Clone, CloneRequest, FilterQuery, Build, Balance, FilterHeaders, NoGraphQL,
           GraphQLFails, GraphQLPost, GraphQLGet, Send, Passes, Terminated, vars
  <2> QED
    BY <2>1 DEF Deep, hasUnsafeBackends, conf
<1> USE DEF conf
<1>1. \A c \in Call : LengthOf(c)' = LengthOf(c)
  BY <1>0 DEF LengthOf
<1>2. CASE UNCHANGED vars
  BY <1>2 DEF vars, heap, ContentInv, OriginalKept, BodyHasOwner, Content, Length, BodyOf,
              LengthOf, OwnRefs, TakesOriginal, Deep, hasUnsafeBackends
<1>3. ASSUME NEW c \in Call PROVE /\ req[c] \in Request /\ BodyHasOwner(c) /\ Content(c)
                                  /\ sent \in [Call -> {NotSent} \cup Message]
                                  /\ req \in [Call -> Request] /\ DOMAIN at = Call
                                  /\ DOMAIN headers = Ref /\ DOMAIN bodies = Ref
                                  /\ <<c, "clone">> \in OwnRefs(c) /\ <<c, "filtered">> \in OwnRefs(c)
                                  /\ at[c] # "idle" => /\ req[c].headers \in OwnRefs(c)
                                                       /\ req[c].body \in OwnRefs(c)
  BY <1>0 DEF IInv, TypeOK, ContentInv, HeadersHaveOwners, OwnHeaders, OwnRefs, BodyHasOwner
<1>4. ASSUME NEW c \in Call, Forks(c)
      PROVE  /\ at[c] = "idle" /\ next = c /\ at'[c] \in BeforeGraphQL
             /\ \A d \in Call \ {c} : at'[d] = at[d]
             /\ headers[Original].length = 0 /\ bodies[Original] = clientBody
             /\ req[c].headers = Original /\ req[c].body = Original
  <2>1. next = c /\ at[c] = "idle" /\ next <= N
    BY <1>4, NAssumption DEF Forks, IInv, ForkedInOrder, Call
  <2> QED
    BY <1>0, <1>3, <1>4, <2>1 DEF Forks, FirstStage, BeforeGraphQL, IInv, Unforked, ContentInv,
       OriginalKept, BodyHasOwner
<1>5. ASSUME NEW c \in Call, Clone(c) PROVE ContentInv'
  <2>1. Forks(c) /\ UNCHANGED <<req, headers, bodies, sent>> /\ TakesOriginal(c)
    BY <1>0, <1>5 DEF Clone, heap
  <2>2. Leaves(c) /\ at'[c] # "idle" /\ req'[c].body \in OwnRefs(c)
    BY <1>0, <1>4, <2>1 DEF Leaves, OwnRefs, BeforeGraphQL
  <2>3. Content(c)'
    BY <1>0, <1>1, <1>3, <1>4, <2>1 DEF Content, Length, BodyOf, BeforeGraphQL
  <2> QED
    BY <1>0, <2>2, <2>3, OthersCarry
<1>6. ASSUME NEW c \in Call, CloneRequest(c) PROVE ContentInv'
  <2>1. Forks(c) /\ sent' = sent
        /\ headers' = [headers EXCEPT ![<<c, "clone">>] = headers[Original]]
        /\ bodies' = [bodies EXCEPT ![<<c, "clone">>] = bodies[Original]]
    BY <1>6 DEF CloneRequest
  <2>2. req'[c].headers = <<c, "clone">> /\ req'[c].body = <<c, "clone">>
        /\ \A d \in Call \ {c} : req'[d] = req[d]
    BY <1>3, <1>6 DEF CloneRequest, Request
  <2>3. Leaves(c) /\ at'[c] # "idle" /\ req'[c].body \in OwnRefs(c)
    BY <1>0, <1>3, <1>4, <2>1, <2>2 DEF Leaves, BeforeGraphQL
  <2>4. Length(c)' = 0 /\ BodyOf(c)' = clientBody
    BY <1>3, <1>4, <2>1, <2>2, Refs DEF Length, BodyOf
  <2>5. Content(c)'
    BY <1>0, <1>1, <1>3, <1>4, <2>1, <2>4 DEF Content, BeforeGraphQL
  <2> QED
    BY <1>0, <2>3, <2>5, OthersCarry
<1>7. ASSUME NEW c \in Call, FilterQuery(c) \/ Build(c) \/ Balance(c) PROVE ContentInv'
  <2>1. /\ at[c] \in BeforeGraphQL /\ at'[c] \in BeforeGraphQL
        /\ UNCHANGED <<headers, bodies, sent>>
        /\ \A d \in Call \ {c} : at'[d] = at[d]
    BY <1>3, <1>7 DEF FilterQuery, Build, Balance, Passes, BeforeGraphQL, heap
  <2>2. /\ req'[c].headers = req[c].headers /\ req'[c].body = req[c].body
        /\ \A d \in Call \ {c} : req'[d] = req[d]
    <3>1. ASSUME NEW x PROVE /\ [req[c] EXCEPT !.query = x].headers = req[c].headers
                             /\ [req[c] EXCEPT !.query = x].body = req[c].body
                             /\ [req[c] EXCEPT !.method = x].headers = req[c].headers
                             /\ [req[c] EXCEPT !.method = x].body = req[c].body
                             /\ [req[c] EXCEPT !.url = x].headers = req[c].headers
                             /\ [req[c] EXCEPT !.url = x].body = req[c].body
      BY <1>3 DEF Request
    <3>2. CASE UNCHANGED req
      BY <3>2
    <3>3. CASE req' = [req EXCEPT ![c].query = <<c, "filtered">>]
      BY <1>3, <3>1, <3>3
    <3>4. CASE req' = [req EXCEPT ![c].method = backend[c].method]
      BY <1>3, <3>1, <3>4
    <3>5. CASE req' = [req EXCEPT ![c].url = Query(c)]
      BY <1>3, <3>1, <3>5
    <3> QED
      BY <1>7, <3>2, <3>3, <3>4, <3>5 DEF FilterQuery, Build, Balance
  <2>3. Leaves(c) /\ at'[c] # "idle" /\ req'[c].body \in OwnRefs(c)
    BY <1>0, <1>3, <2>1, <2>2 DEF Leaves, BeforeGraphQL
  <2>4. Content(c)'
    BY <1>0, <1>1, <1>3, <2>1, <2>2 DEF Content, Length, BodyOf, BeforeGraphQL
  <2> QED
    BY <1>0, <2>3, <2>4, OthersCarry
<1>8. ASSUME NEW c \in Call, FilterHeaders(c) PROVE ContentInv'
  <2>1. /\ at[c] = "filterHeaders" /\ at'[c] = "graphql" /\ UNCHANGED <<bodies, sent>>
        /\ \A d \in Call \ {c} : at'[d] = at[d]
    BY <1>3, <1>8 DEF FilterHeaders, Passes
  <2>2. /\ req'[c].body = req[c].body
        /\ \A d \in Call \ {c} : req'[d] = req[d]
        /\ \A r \in Ref \ OwnRefs(c) : headers'[r] = headers[r]
        /\ headers'[req'[c].headers].length = 0
    <3>1. CASE UNCHANGED <<req, headers>>
      BY <1>3, <2>1, <3>1 DEF Content, Length, BeforeGraphQL
    <3>2. CASE /\ req' = [req EXCEPT ![c].headers = <<c, "filtered">>]
               /\ headers' = [headers EXCEPT ![<<c, "filtered">>] =
                    [client |-> Headers(c).client \cap backend[c].passHeaders, length |-> 0]]
      <4>1. /\ [req[c] EXCEPT !.headers = <<c, "filtered">>].headers = <<c, "filtered">>
            /\ [req[c] EXCEPT !.headers = <<c, "filtered">>].body = req[c].body
        BY <1>3 DEF Request
      <4> QED
        BY <1>3, <3>2, <4>1, Refs
    <3> QED
      BY <1>8, <3>1, <3>2 DEF FilterHeaders
  <2>3. Leaves(c) /\ at'[c] # "idle" /\ req'[c].body \in OwnRefs(c)
    BY <1>0, <1>3, <2>1, <2>2 DEF Leaves
  <2>4. Content(c)'
    BY <1>0, <1>1, <1>3, <2>1, <2>2 DEF Content, Length, BodyOf, BeforeGraphQL
  <2> QED
    BY <1>0, <2>3, <2>4, OthersCarry
<1>9. ASSUME NEW c \in Call, NoGraphQL(c) \/ GraphQLFails(c) PROVE ContentInv'
  <2>1. /\ at[c] = "graphql" /\ UNCHANGED <<req, headers, bodies, sent>>
        /\ \A d \in Call \ {c} : at'[d] = at[d]
        /\ \/ at'[c] = "send" /\ ~UsesGraphQL(backend[c])
           \/ at'[c] = "failed" /\ BodyOf(c) = NoBody
    BY <1>3, <1>9 DEF NoGraphQL, GraphQLFails, Passes, heap, BodyOf
  <2>2. Leaves(c) /\ at'[c] # "idle" /\ req'[c].body \in OwnRefs(c)
    BY <1>0, <1>3, <2>1 DEF Leaves
  <2>3. Content(c)'
    BY <1>0, <1>1, <1>3, <2>1 DEF Content, Length, BodyOf, BeforeGraphQL, LengthOf
  <2> QED
    BY <1>0, <2>2, <2>3, OthersCarry
<1>10. ASSUME NEW c \in Call, GraphQLPost(c) \/ GraphQLGet(c) PROVE ContentInv'
  <2>1. /\ at[c] = "graphql" /\ at'[c] = "send" /\ UsesGraphQL(backend[c]) /\ sent' = sent
        /\ \A d \in Call \ {c} : at'[d] = at[d]
    BY <1>3, <1>10 DEF GraphQLPost, GraphQLGet, GetsGraphQL, Passes
  <2>2. PICK b, m : WriteBody(c, b, m)
    BY <1>10 DEF GraphQLPost, GraphQLGet
  <2>3. /\ req'[c].headers = req[c].headers /\ req'[c].body = <<c, "filtered">>
        /\ \A d \in Call \ {c} : req'[d] = req[d]
    <3>1. /\ [req[c] EXCEPT !.body = <<c, "filtered">>, !.method = m].headers = req[c].headers
          /\ [req[c] EXCEPT !.body = <<c, "filtered">>, !.method = m].body = <<c, "filtered">>
      BY <1>3 DEF Request
    <3>2. req' = [req EXCEPT ![c] = [req[c] EXCEPT !.body = <<c, "filtered">>, !.method = m]]
      BY <1>3, <2>2 DEF WriteBody, Request
    <3> QED
      BY <1>3, <3>1, <3>2
  <2>4. req[c].headers \in OwnRefs(c) /\ req[c].body \in OwnRefs(c) /\ req[c].headers \in Ref
    BY <1>3, <2>1 DEF Request
  <2>5. /\ \A r \in Ref \ OwnRefs(c) : headers'[r] = headers[r] /\ bodies'[r] = bodies[r]
        /\ Length(c)' = c
    <3>1. headers[req[c].headers] \in HeaderMap
      BY <2>4 DEF IInv, TypeOK
    <3>2. headers' = [headers EXCEPT ![req[c].headers] = [headers[req[c].headers] EXCEPT !.length = c]]
      BY <2>2, <2>4, <1>3 DEF WriteBody
    <3>3. [headers[req[c].headers] EXCEPT !.length = c].length = c
      BY <3>1 DEF HeaderMap
    <3> QED
      BY <1>3, <2>2, <2>3, <2>4, <3>2, <3>3 DEF WriteBody, Length
  <2>6. Leaves(c) /\ at'[c] # "idle" /\ req'[c].body \in OwnRefs(c)
    BY <1>0, <1>3, <2>1, <2>3, <2>5 DEF Leaves
  <2>7. Content(c)'
    BY <1>0, <1>1, <1>3, <2>1, <2>5 DEF Content, BeforeGraphQL, LengthOf
  <2> QED
    BY <1>0, <2>6, <2>7, OthersCarry
<1>11. ASSUME NEW c \in Call, Send(c) PROVE ContentInv'
  <2>1. /\ at[c] = "send" /\ at'[c] = "sent" /\ UNCHANGED <<req, headers>>
        /\ \A d \in Call \ {c} : at'[d] = at[d] /\ sent'[d] = sent[d]
        /\ sent'[c].headers.length = Length(c) /\ sent'[c].body = BodyOf(c)
        /\ bodies' = [bodies EXCEPT ![req[c].body] = NoBody]
    BY <1>3, <1>11 DEF Send, Passes, Length, BodyOf, Headers
  <2>2. Leaves(c) /\ at'[c] # "idle" /\ req'[c].body \in OwnRefs(c)
    BY <1>0, <1>3, <2>1 DEF Leaves
  <2>3. Content(c)'
    BY <1>0, <1>1, <1>3, <2>1 DEF Content, BeforeGraphQL
  <2> QED
    BY <1>0, <2>2, <2>3, OthersCarry
<1> QED
  BY <1>2, <1>5, <1>6, <1>7, <1>8, <1>9, <1>10, <1>11 DEF Next, Terminated

\* Deep clones, which every endpoint with a method other than GET has
\* (merging.go:258-270), carry the client's body and headers of their own to
\* each backend, whatever the others do with theirs.
THEOREM CallsCarryTheirOwn == Spec => []RequestsAreOwn
<1>1. IInv /\ ContentInv => RequestsAreOwn
  <2> SUFFICES ASSUME IInv, ContentInv, NEW c \in Call, Deep \/ backend[c].method # "GET"
               PROVE  Content(c)
    BY DEF RequestsAreOwn, Content, LengthOf
  <2> QED
    BY DEF ContentInv, Deep, hasUnsafeBackends
<1>2. Spec => [](IInv /\ ContentInv)
  BY InitInv, NextInv, ContentInit, ContentNext, PTL DEF Spec
<1> QED
  BY <1>1, <1>2, PTL

---------------------------------------------------------------------------
(* The registers.                                                          *)

\* References are to the heap, and no two namespaces have the same register.
RefsOK ==
  /\ \A ns \in Namespace : data[ns] <= Len(registers)
  /\ \A ns, ms \in Namespace : data[ns] = data[ms] /\ data[ns] # 0 => ns = ms

\* A goroutine that found its namespace holds the register that is still
\* there; one that did not is Load's, the namespace is still missing, and the
\* register it is about to add is empty or has what it registers.
Prepared(w) == registers[ref[w]] = IF op[w][2] \in Name THEN [Empty EXCEPT ![op[w][2]] = w]
                                                        ELSE Empty

WriterOK(w) ==
  /\ writer[w] = "store" => /\ op[w] \in Registration
                            /\ ref[w] = data[op[w][1]] /\ ref[w] # 0
  /\ writer[w] = "publish" =>
       /\ w = Loader /\ op[w][1] \in Namespace /\ data[op[w][1]] = 0
       /\ ref[w] \in 1..Len(registers)
       /\ \A ns \in Namespace : data[ns] # ref[w]
       /\ Prepared(w)

ReaderOK(r) ==
  reader[r] = "get" => key[r] \in Registration /\ found[r] = data[key[r][1]] /\ found[r] # 0

RegistersIInv == /\ RegistersTypeOK /\ RefsOK
                 /\ \A w \in Writer : WriterOK(w)
                 /\ \A r \in Reader : ReaderOK(r)

\* The steps that touch neither the heap nor a goroutine's call: those of Load
\* between two registrations.
LEMMA IdleLoad ==
  ASSUME RegistersIInv, OpenFails \/ PluginPanics \/ PluginLoaded, UNCHANGED readerVars
  PROVE  RegistersIInv'
<1>1. UNCHANGED <<data, registers, writerVars, readerVars, plugin>>
  BY DEF OpenFails, PluginPanics, PluginLoaded, Fails
<1>2. k \in 1..Plugins /\ k + 1 \in 1..(Plugins + 1) /\ loadedPlugins + 1 \in Nat
  BY RegistersAssumption
     DEF OpenFails, PluginPanics, PluginLoaded, Opening, RegistersIInv, RegistersTypeOK
<1>3. k' \in 1..(Plugins + 1) /\ calls' \in Nat /\ loadedPlugins' \in Nat
        /\ errors' \in SUBSET (1..Plugins)
  <2>1. CASE OpenFails \/ PluginPanics
    <3>1. k' = k + 1 /\ calls' = 0 /\ loadedPlugins' = loadedPlugins /\ errors' = errors \cup {k}
      BY <2>1 DEF OpenFails, PluginPanics, Fails
    <3>2. loadedPlugins \in Nat /\ errors \in SUBSET (1..Plugins)
      BY DEF RegistersIInv, RegistersTypeOK
    <3> QED
      BY <1>2, <3>1, <3>2
  <2>2. CASE PluginLoaded
    BY <1>2, <2>2 DEF PluginLoaded, RegistersIInv, RegistersTypeOK
  <2> QED
    BY <2>1, <2>2
<1> QED
  BY <1>1, <1>3 DEF RegistersIInv, RegistersTypeOK, RefsOK, WriterOK, Prepared, ReaderOK, writerVars, readerVars

\* The type of a new heap.
LEMMA AppendType ==
  ASSUME NEW h \in Seq([Name -> Writer \cup {NoValue}]), NEW c \in [Name -> Writer \cup {NoValue}]
  PROVE  /\ Append(h, c) \in Seq([Name -> Writer \cup {NoValue}])
         /\ Len(Append(h, c)) = Len(h) + 1
         /\ Append(h, c)[Len(h) + 1] = c
         /\ \A i \in 1..Len(h) : Append(h, c)[i] = h[i]
  OBVIOUS

\* What is registered is a map.
LEMMA RegisteredType ==
  ASSUME RegistersIInv, NEW ns \in Namespace
  PROVE  /\ Registered(ns) \in [Name -> Writer \cup {NoValue}]
         /\ data[ns] # 0 => data[ns] \in 1..Len(registers)
<1>1. data[ns] # 0 => data[ns] \in 1..Len(registers)
  BY DEF RegistersIInv, RegistersTypeOK, RefsOK
<1>2. data[ns] # 0 => registers[data[ns]] \in [Name -> Writer \cup {NoValue}]
  BY <1>1 DEF RegistersIInv, RegistersTypeOK
<1> QED
  BY <1>1, <1>2 DEF Registered, Empty

\* A call that allocates: the namespace was missing and nobody else is adding.
LEMMA AllocateInv ==
  ASSUME RegistersIInv, NEW ns \in Namespace, NEW n \in Name \cup {NoValue}, data[ns] = 0,
         NEW c, c = IF n \in Name THEN [Empty EXCEPT ![n] = Loader] ELSE Empty,
         Enters(Loader, "idle", "publish"),
         op' = [op EXCEPT ![Loader] = <<ns, n>>],
         Allocate(Loader, c),
         UNCHANGED <<data, readerVars, plugin>>,
         k' \in 1..(Plugins + 1) /\ calls' \in Nat /\ loadedPlugins' \in Nat
           /\ errors' \in SUBSET (1..Plugins)
  PROVE  RegistersIInv'
<1>1. c \in [Name -> Writer \cup {NoValue}]
  BY RegistersAssumption DEF Empty
<1>2. registers \in Seq([Name -> Writer \cup {NoValue}]) /\ Len(registers) \in Nat
  BY DEF RegistersIInv, RegistersTypeOK
<1>3. /\ registers' \in Seq([Name -> Writer \cup {NoValue}])
      /\ Len(registers') = Len(registers) + 1
      /\ registers'[Len(registers) + 1] = c
  BY <1>1, <1>2, AppendType DEF Allocate
<1>4. RegistersTypeOK'
  <2>1. /\ writer' \in [Writer -> {"idle", "store", "publish"}]
        /\ op' \in [Writer -> {NoCall} \cup (Namespace \X (Name \cup {NoValue}))]
    BY DEF RegistersIInv, RegistersTypeOK, Enters
  <2>2. ref' \in [Writer -> Nat]
    <3>1. ref \in [Writer -> Nat] /\ Len(registers) + 1 \in Nat
      BY <1>2 DEF RegistersIInv, RegistersTypeOK
    <3>2. ref' = [ref EXCEPT ![Loader] = Len(registers) + 1]
      BY DEF Allocate
    <3> QED
      BY <3>1, <3>2
  <2>3. /\ data' \in [Namespace -> Nat]
        /\ plugin' \in [1..Plugins -> Contents \cup {Broken}]
        /\ reader' \in [Reader -> {"idle", "get"}]
        /\ key' \in [Reader -> {NoCall} \cup Registration]
        /\ found' \in [Reader -> Nat]
    BY DEF RegistersIInv, RegistersTypeOK, readerVars
  <2> QED
    BY <1>3, <2>1, <2>2, <2>3 DEF RegistersTypeOK
<1>5. RefsOK'
  BY <1>2, <1>3 DEF RegistersIInv, RegistersTypeOK, RefsOK
<1>6. ASSUME NEW w \in Writer PROVE WriterOK(w)'
  <2>1. CASE w = Loader
    <3>1. /\ writer'[w] = "publish" /\ op'[w] = <<ns, n>> /\ ref'[w] = Len(registers) + 1
      BY <2>1, RegistersAssumption DEF RegistersIInv, RegistersTypeOK, Enters, Allocate
    <3>2. \A ms \in Namespace : data[ms] \in Nat /\ data[ms] <= Len(registers)
      BY DEF RegistersIInv, RegistersTypeOK, RefsOK
    <3>3. op'[w][1] = ns /\ op'[w][2] = n
      BY <3>1
    <3>4. data' = data
      OBVIOUS
    <3>5. ref'[w] \in 1..Len(registers') /\ \A ms \in Namespace : data'[ms] # ref'[w]
      BY <1>2, <1>3, <3>1, <3>2, <3>4
    <3>6. Prepared(w)'
      BY <1>3, <2>1, <3>1, <3>3 DEF Prepared
    <3>7. writer'[w] # "store"
      BY <3>1
    <3>8. op'[w][1] \in Namespace /\ data'[op'[w][1]] = 0
      BY <3>3, <3>4
    <3> QED
      BY <2>1, <3>5, <3>6, <3>7, <3>8 DEF WriterOK
  <2>2. CASE w # Loader
    BY <2>2 DEF RegistersIInv, WriterOK, Prepared, Enters, Allocate, RegistersTypeOK
  <2> QED
    BY <2>1, <2>2
<1>7. ASSUME NEW r \in Reader PROVE ReaderOK(r)'
  BY DEF RegistersIInv, ReaderOK, readerVars
<1> QED
  BY <1>4, <1>5, <1>6, <1>7 DEF RegistersIInv

\* A call of Register that starts.
LEMMA RegisterInv ==
  ASSUME RegistersIInv, NEW w \in Writer, NEW ns \in Namespace, NEW n \in Name,
         w = Loader \/ data[ns] # 0,
         Register(w, ns, n),
         UNCHANGED <<readerVars, plugin>>,
         k' \in 1..(Plugins + 1) /\ calls' \in Nat /\ loadedPlugins' \in Nat
           /\ errors' \in SUBSET (1..Plugins)
  PROVE  RegistersIInv'
<1>1. CASE data[ns] = 0
  BY <1>1, AllocateInv DEF Register
<1>2. CASE data[ns] # 0
  <2>1. /\ Enters(w, "idle", "store")
        /\ op' = [op EXCEPT ![w] = <<ns, n>>] /\ ref' = [ref EXCEPT ![w] = data[ns]]
        /\ UNCHANGED <<data, registers, readerVars, plugin>>
    BY <1>2 DEF Register
  <2>2. RegistersTypeOK'
    BY <2>1 DEF RegistersIInv, RegistersTypeOK, Enters, readerVars, Registration
  <2>3. RefsOK'
    BY <2>1 DEF RegistersIInv, RefsOK
  <2>4. ASSUME NEW v \in Writer PROVE WriterOK(v)'
    BY <1>2, <2>1 DEF RegistersIInv, RegistersTypeOK, WriterOK, Prepared, Enters, Registration
  <2>5. ASSUME NEW r \in Reader PROVE ReaderOK(r)'
    BY <2>1 DEF RegistersIInv, ReaderOK, readerVars
  <2> QED
    BY <2>2, <2>3, <2>4, <2>5 DEF RegistersIInv
<1> QED
  BY <1>1, <1>2

\* A registration in a namespace that was there.
LEMMA StoreInv ==
  ASSUME RegistersIInv, NEW w \in Writer, Store(w), UNCHANGED <<readerVars, loaderVars>>
  PROVE  RegistersIInv'
<1>1. /\ op[w] \in Registration /\ ref[w] = data[op[w][1]] /\ ref[w] \in 1..Len(registers)
      /\ op[w][1] \in Namespace /\ op[w][2] \in Name
  BY DEF RegistersIInv, RegistersTypeOK, RefsOK, WriterOK, Store, Enters, Registration
<1>2. /\ registers' \in Seq([Name -> Writer \cup {NoValue}])
      /\ Len(registers') = Len(registers)
      /\ \A i \in 1..Len(registers) : i # ref[w] => registers'[i] = registers[i]
  BY <1>1 DEF RegistersIInv, RegistersTypeOK, Store
<1>3. RegistersTypeOK'
  BY <1>2 DEF RegistersIInv, RegistersTypeOK, Store, Enters, Returns, readerVars, loaderVars
<1>4. RefsOK'
  BY <1>2 DEF RegistersIInv, RefsOK, Store
<1>5. ASSUME NEW v \in Writer PROVE WriterOK(v)'
  <2>1. CASE v = w
    BY <2>1 DEF RegistersIInv, RegistersTypeOK, WriterOK, Store, Enters
  <2>2. CASE v # w
    <3>1. writer'[v] = writer[v] /\ op'[v] = op[v] /\ ref'[v] = ref[v] /\ data' = data
      BY <2>2 DEF Store, Enters, Returns, RegistersIInv, RegistersTypeOK
    <3>2. writer[v] = "publish" => ref[v] # ref[w]
      BY <1>1 DEF RegistersIInv, WriterOK
    <3>3. writer[v] = "publish" => Prepared(v)'
      BY <1>2, <3>1, <3>2 DEF RegistersIInv, WriterOK, Prepared
    <3> QED
      BY <1>2, <3>1, <3>3 DEF RegistersIInv, WriterOK
  <2> QED
    BY <2>1, <2>2
<1>6. ASSUME NEW r \in Reader PROVE ReaderOK(r)'
  BY DEF RegistersIInv, ReaderOK, readerVars, Store
<1> QED
  BY <1>3, <1>4, <1>5, <1>6 DEF RegistersIInv

\* A namespace that becomes visible.
LEMMA PublishInv ==
  ASSUME RegistersIInv, NEW w \in Writer, Publish(w), UNCHANGED <<readerVars, loaderVars>>
  PROVE  RegistersIInv'
<1>1. /\ w = Loader /\ op[w][1] \in Namespace /\ data[op[w][1]] = 0
      /\ ref[w] \in 1..Len(registers) /\ \A ns \in Namespace : data[ns] # ref[w]
  BY DEF RegistersIInv, WriterOK, Publish, Enters
<1>2. Len(registers) \in Nat /\ ref[w] \in Nat /\ ref[w] # 0
  BY <1>1 DEF RegistersIInv, RegistersTypeOK
<1>3. RegistersTypeOK'
  BY <1>2 DEF RegistersIInv, RegistersTypeOK, Publish, Enters, Returns, readerVars, loaderVars
<1>4. RefsOK'
  BY <1>1, <1>2 DEF RegistersIInv, RegistersTypeOK, RefsOK, Publish
<1>5. ASSUME NEW v \in Writer PROVE WriterOK(v)'
  <2>1. CASE v = w
    BY <2>1 DEF RegistersIInv, RegistersTypeOK, WriterOK, Publish, Enters
  <2>2. CASE v # w
    <3>1. writer'[v] = writer[v] /\ op'[v] = op[v] /\ ref'[v] = ref[v]
      BY <2>2 DEF Publish, Enters, Returns, RegistersIInv, RegistersTypeOK
    <3>2. writer[v] # "publish"
      BY <1>1, <2>2 DEF RegistersIInv, WriterOK
    <3>3. ASSUME writer[v] = "store"
          PROVE  op[v] \in Registration /\ ref[v] = data'[op[v][1]] /\ ref[v] # 0
      <4>1. op[v] \in Registration /\ ref[v] = data[op[v][1]] /\ ref[v] # 0
        BY <3>3 DEF RegistersIInv, WriterOK
      <4>2. op[v][1] # op[w][1] /\ op[v][1] \in Namespace
        BY <1>1, <4>1 DEF Registration
      <4>3. data'[op[v][1]] = data[op[v][1]]
        BY <4>2 DEF Publish, RegistersIInv, RegistersTypeOK
      <4> QED
        BY <4>1, <4>3
    <3> QED
      BY <3>1, <3>2, <3>3 DEF WriterOK
  <2> QED
    BY <2>1, <2>2
<1>6. ASSUME NEW r \in Reader PROVE ReaderOK(r)'
  <2>1. reader' = reader /\ key' = key /\ found' = found
    BY DEF readerVars
  <2>2. ASSUME reader[r] = "get"
        PROVE  key[r] \in Registration /\ found[r] = data'[key[r][1]] /\ found[r] # 0
    <3>1. key[r] \in Registration /\ found[r] = data[key[r][1]] /\ found[r] # 0
      BY <2>2 DEF RegistersIInv, ReaderOK
    <3>2. key[r][1] # op[w][1] /\ key[r][1] \in Namespace
      BY <1>1, <3>1 DEF Registration
    <3>3. data'[key[r][1]] = data[key[r][1]]
      BY <3>2 DEF Publish, RegistersIInv, RegistersTypeOK
    <3> QED
      BY <3>1, <3>3
  <2> QED
    BY <2>1, <2>2 DEF ReaderOK
<1> QED
  BY <1>3, <1>4, <1>5, <1>6 DEF RegistersIInv

\* The two halves of a lookup.
LEMMA GetsInv ==
  ASSUME RegistersIInv, Gets
  PROVE  RegistersIInv'
<1>1. PICK r \in Reader : GetName(r) \/ \E ns \in Namespace, n \in Name : GetNamespace(r, ns, n)
  BY DEF Gets
<1>2. UNCHANGED <<data, registers, writerVars, loaderVars>>
  BY DEF Gets
<1>3. /\ reader' \in [Reader -> {"idle", "get"}]
      /\ key' \in [Reader -> {NoCall} \cup Registration]
      /\ found' \in [Reader -> Nat]
  <2>1. CASE GetName(r)
    BY <2>1 DEF GetName, RegistersIInv, RegistersTypeOK
  <2>2. ASSUME NEW ns \in Namespace, NEW n \in Name, GetNamespace(r, ns, n)
        PROVE  /\ reader' \in [Reader -> {"idle", "get"}]
               /\ key' \in [Reader -> {NoCall} \cup Registration]
               /\ found' \in [Reader -> Nat]
    <3>1. data[ns] \in Nat /\ <<ns, n>> \in Registration
      BY DEF RegistersIInv, RegistersTypeOK, Registration
    <3> QED
      BY <2>2, <3>1 DEF GetNamespace, RegistersIInv, RegistersTypeOK
  <2> QED
    BY <1>1, <2>1, <2>2
<1>4. RegistersTypeOK' /\ RefsOK' /\ \A w \in Writer : WriterOK(w)'
  BY <1>2, <1>3
     DEF RegistersIInv, RegistersTypeOK, RefsOK, WriterOK, Prepared, writerVars, loaderVars
<1>5. ASSUME NEW s \in Reader PROVE ReaderOK(s)'
  BY <1>1, <1>2 DEF RegistersIInv, RegistersTypeOK, ReaderOK, GetName, GetNamespace, Registration
<1> QED
  BY <1>4, <1>5 DEF RegistersIInv
LEMMA RegistersInitially == RegistersInit => RegistersIInv
  BY RegistersAssumption
     DEF RegistersInit, NoRegistration, AnyPlugins, RegistersIInv, RegistersTypeOK, RefsOK, WriterOK,
         ReaderOK, NoCall

\* What a plugin that registers leaves to the others.
LEMMA PluginCall ==
  ASSUME RegistersIInv, PluginRegisters
  PROVE  LET reg == plugin[k][calls + 1]
         IN  /\ k \in 1..Plugins /\ plugin[k] \in Seq(Registration)
             /\ calls + 1 \in 1..Len(plugin[k])
             /\ reg \in Registration /\ reg[1] \in Namespace /\ reg[2] \in Name
             /\ reg = <<reg[1], reg[2]>>
             /\ Register(Loader, reg[1], reg[2])
<1>1. k \in 1..Plugins /\ plugin[k] \in Seq(Registration)
  BY RegistersAssumption DEF PluginRegisters, Opening, RegistersIInv, RegistersTypeOK
<1>2. calls + 1 \in 1..Len(plugin[k])
  BY <1>1 DEF PluginRegisters, RegistersIInv, RegistersTypeOK
<1>3. plugin[k][calls + 1] \in Registration
  BY <1>1, <1>2
<1> QED
  BY <1>1, <1>2, <1>3 DEF PluginRegisters, Registration

LEMMA StepInv == RegistersIInv /\ [RegistersNext]_registerVars => RegistersIInv'
<1> SUFFICES ASSUME RegistersIInv, [RegistersNext]_registerVars
             PROVE  RegistersIInv'
  OBVIOUS
<1>1. CASE Load
  <2>1. CASE PluginRegisters
    <3>1. k' \in 1..(Plugins + 1) /\ calls' \in Nat /\ loadedPlugins' \in Nat
            /\ errors' \in SUBSET (1..Plugins)
      BY <2>1 DEF PluginRegisters, RegistersIInv, RegistersTypeOK
    <3>2. UNCHANGED <<readerVars, plugin>>
      BY <1>1, <2>1 DEF Load, PluginRegisters
    <3> QED
      BY <2>1, <3>1, <3>2, PluginCall, RegisterInv, RegistersAssumption
  <2>2. CASE OpenFails \/ PluginPanics \/ PluginLoaded
    BY <1>1, <2>2, IdleLoad DEF Load
  <2> QED
    BY <1>1, <2>1, <2>2 DEF Load
<1>2. CASE Adds
  <2>1. PICK ns \in Namespace : AddNamespace(Loader, ns) /\ UNCHANGED <<readerVars, loaderVars>>
    BY <1>2 DEF Adds
  <2>2. k' \in 1..(Plugins + 1) /\ calls' \in Nat /\ loadedPlugins' \in Nat
          /\ errors' \in SUBSET (1..Plugins)
    BY <2>1 DEF loaderVars, RegistersIInv, RegistersTypeOK
  <2>3. NoValue \notin Name /\ NoValue \in Name \cup {NoValue}
    BY RegistersAssumption
  <2> QED
    BY <2>1, <2>2, <2>3, AllocateInv DEF AddNamespace, loaderVars
<1>3. CASE OthersRegister
  <2>1. PICK w \in Writer \ {Loader}, ns \in Namespace, n \in Name :
          data[ns] # 0 /\ Register(w, ns, n) /\ UNCHANGED <<readerVars, loaderVars>>
    BY <1>3 DEF OthersRegister
  <2>2. k' \in 1..(Plugins + 1) /\ calls' \in Nat /\ loadedPlugins' \in Nat
          /\ errors' \in SUBSET (1..Plugins)
    BY <2>1 DEF loaderVars, RegistersIInv, RegistersTypeOK
  <2> QED
    BY <2>1, <2>2, RegisterInv DEF loaderVars
<1>4. CASE Stores
  BY <1>4, StoreInv, PublishInv DEF Stores
<1>5. CASE Gets
  BY <1>5, GetsInv
<1>6. CASE UNCHANGED registerVars
  BY <1>6
     DEF registerVars, writerVars, readerVars, loaderVars, RegistersIInv, RegistersTypeOK, RefsOK,
         WriterOK, Prepared, ReaderOK
<1> QED
  BY <1>1, <1>2, <1>3, <1>4, <1>5, <1>6 DEF RegistersNext

\* Types hold, and what every goroutine holds a reference to is still the
\* register of its namespace.
THEOREM RegistersInv == RegistersSpec => []RegistersIInv
  BY RegistersInitially, StepInv, PTL DEF RegistersSpec

\* RegistersTypeOK, for the state of Registers as the functions of register.go
\* and modifier.go leave it.
THEOREM RegistersType == RegistersSpec => []RegistersTypeOK
  BY RegistersInv, PTL DEF RegistersIInv
---------------------------------------------------------------------------
(* Refinement: the store is what can be looked up.                         *)

stored == [ns \in Namespace |-> Registered(ns)]

\* The steps nobody can see.
LEMMA Stutter ==
  ASSUME UNCHANGED <<data, registers, result>>
  PROVE  UNCHANGED Atomic!vars
  BY DEF Atomic!vars, Registered

\* A register nobody can see yet is added to the heap.
LEMMA AllocateStutter ==
  ASSUME RegistersIInv, NEW c \in [Name -> Writer \cup {NoValue}], NEW w, Allocate(w, c),
         UNCHANGED <<data, result>>
  PROVE  UNCHANGED Atomic!vars
<1>1. registers \in Seq([Name -> Writer \cup {NoValue}])
  BY DEF RegistersIInv, RegistersTypeOK
<1>2. \A i \in 1..Len(registers) : registers'[i] = registers[i]
  BY <1>1, AppendType DEF Allocate
<1>3. \A ns \in Namespace : Registered(ns)' = Registered(ns)
  BY <1>2, RegisteredType DEF Registered
<1>4. stored' = stored
  BY <1>3 DEF stored
<1> QED
  BY <1>4 DEF Atomic!vars, stored

LEMMA RegisterStutter ==
  ASSUME RegistersIInv, NEW w \in Writer, NEW ns \in Namespace, NEW n \in Name, Register(w, ns, n),
         UNCHANGED result
  PROVE  UNCHANGED Atomic!vars
<1>1. CASE data[ns] = 0
  <2>1. [Empty EXCEPT ![n] = w] \in [Name -> Writer \cup {NoValue}]
    BY DEF Empty
  <2> QED
    BY <1>1, <2>1, AllocateStutter DEF Register
<1>2. CASE data[ns] # 0
  BY <1>2, Stutter DEF Register
<1> QED
  BY <1>1, <1>2

\* Store is where the registration in a namespace that was there takes effect.
LEMMA StorePuts ==
  ASSUME RegistersIInv, NEW w \in Writer, Store(w), UNCHANGED <<readerVars, loaderVars>>
  PROVE  Atomic!Put(op[w][1], op[w][2], w)
<1>1. /\ op[w] \in Registration /\ ref[w] = data[op[w][1]] /\ ref[w] \in 1..Len(registers)
      /\ op[w][1] \in Namespace /\ op[w][2] \in Name
  BY DEF RegistersIInv, RegistersTypeOK, RefsOK, WriterOK, Store, Enters, Registration
<1>2. data' = data /\ registers' = [registers EXCEPT ![ref[w]][op[w][2]] = w]
  BY DEF Store
<1>3. registers'[ref[w]] = [registers[ref[w]] EXCEPT ![op[w][2]] = w]
  <2>1. ref[w] \in DOMAIN registers
    BY <1>1 DEF RegistersIInv, RegistersTypeOK
  <2> QED
    BY <1>2, <2>1
<1>4. ASSUME NEW ns \in Namespace
      PROVE  Registered(ns)' = IF ns = op[w][1] THEN [Registered(ns) EXCEPT ![op[w][2]] = w]
                                                ELSE Registered(ns)
  <2>1. CASE ns = op[w][1]
    <3>1. data[ns] = ref[w] /\ ref[w] # 0 /\ data' = data
      BY <1>1, <1>2, <2>1
    <3>2. Registered(ns) = registers[ref[w]] /\ Registered(ns)' = registers'[ref[w]]
      BY <3>1 DEF Registered
    <3> QED
      BY <1>3, <2>1, <3>2
  <2>2. CASE ns # op[w][1]
    <3>1. data[ns] # 0 => data[ns] # ref[w] /\ data[ns] \in 1..Len(registers)
      BY <1>1, <2>2, RegisteredType DEF RegistersIInv, RegistersTypeOK, RefsOK
    <3>2. data[ns] # 0 => registers'[data[ns]] = registers[data[ns]]
      BY <1>2, <3>1 DEF RegistersIInv, RegistersTypeOK
    <3> QED
      BY <1>2, <2>2, <3>2 DEF Registered
  <2> QED
    BY <2>1, <2>2
<1>5. stored' = [stored EXCEPT ![op[w][1]][op[w][2]] = w]
  BY <1>1, <1>4 DEF stored
<1> QED
  BY <1>5 DEF Atomic!Put, stored, readerVars

\* Publish is where the registration that adds its namespace takes effect;
\* AddNamespace has none that can be looked up.
LEMMA PublishPuts ==
  ASSUME RegistersIInv, NEW w \in Writer, Publish(w), UNCHANGED <<readerVars, loaderVars>>
  PROVE  \/ UNCHANGED Atomic!vars
         \/ op[w][2] \in Name /\ op[w][1] \in Namespace /\ Atomic!Put(op[w][1], op[w][2], w)
<1>1. /\ op[w][1] \in Namespace /\ data[op[w][1]] = 0 /\ Prepared(w)
      /\ ref[w] \in 1..Len(registers)
  BY DEF RegistersIInv, WriterOK, Publish, Enters
<1>2. /\ data' = [data EXCEPT ![op[w][1]] = ref[w]] /\ registers' = registers
      /\ result' = result
  BY DEF Publish, readerVars
<1>3. ASSUME NEW ns \in Namespace, ns = op[w][1]
      PROVE  Registered(ns) = Empty /\ Registered(ns)' = registers[ref[w]]
  <2>1. data'[ns] = ref[w] /\ ref[w] # 0
    BY <1>1, <1>2, <1>3 DEF RegistersIInv, RegistersTypeOK
  <2> QED
    BY <1>1, <1>2, <1>3, <2>1 DEF Registered
<1>4. \A ns \in Namespace : ns # op[w][1] => Registered(ns)' = Registered(ns)
  BY <1>1, <1>2 DEF Registered, RegistersIInv, RegistersTypeOK
<1>5. CASE op[w][2] \in Name
  <2>1. \A ns \in Namespace :
          ns = op[w][1] => Registered(ns)' = [Registered(ns) EXCEPT ![op[w][2]] = w]
    BY <1>1, <1>3, <1>5 DEF Prepared
  <2>2. stored' = [stored EXCEPT ![op[w][1]][op[w][2]] = w]
    BY <1>1, <1>4, <2>1 DEF stored
  <2> QED
    BY <1>1, <1>2, <1>5, <2>2 DEF Atomic!Put, stored
<1>6. CASE op[w][2] \notin Name
  <2>1. \A ns \in Namespace : Registered(ns)' = Registered(ns)
    BY <1>1, <1>3, <1>4, <1>6 DEF Prepared
  <2>2. stored' = stored
    BY <2>1 DEF stored
  <2> QED
    BY <1>2, <2>2 DEF Atomic!vars, stored
<1> QED
  BY <1>5, <1>6

\* A lookup takes effect in its last step, or in its first one when the
\* namespace is missing.
LEMMA GetsGet ==
  ASSUME RegistersIInv, Gets
  PROVE  [Atomic!Next]_(Atomic!vars)
<1>1. PICK r \in Reader : GetName(r) \/ \E ns \in Namespace, n \in Name : GetNamespace(r, ns, n)
  BY DEF Gets
<1>2. data' = data /\ registers' = registers /\ stored' = stored
  BY DEF Gets, stored, Registered
<1>3. CASE GetName(r)
  <2>1. /\ key[r] \in Registration /\ found[r] = data[key[r][1]] /\ found[r] # 0
        /\ key[r][1] \in Namespace /\ key[r][2] \in Name
    BY <1>3 DEF GetName, RegistersIInv, ReaderOK, Registration
  <2>2. registers[found[r]] = stored[key[r][1]]
    BY <2>1 DEF stored, Registered
  <2>3. Atomic!Get(r, key[r][1], key[r][2])
    BY <1>2, <1>3, <2>2 DEF GetName, GetOr, Atomic!Get, Atomic!Found, stored
  <2> QED
    BY <2>1, <2>3 DEF Atomic!Next
<1>4. ASSUME NEW ns \in Namespace, NEW n \in Name, GetNamespace(r, ns, n)
      PROVE  [Atomic!Next]_(Atomic!vars)
  <2>1. CASE data[ns] = 0
    <3>1. stored[ns][n] = NoValue
      BY <2>1 DEF stored, Registered, Empty
    <3>2. Atomic!Get(r, ns, n)
      BY <1>2, <1>4, <2>1, <3>1 DEF GetNamespace, GetOr, Atomic!Get, Atomic!Found, stored
    <3> QED
      BY <3>2 DEF Atomic!Next
  <2>2. CASE data[ns] # 0
    BY <1>2, <1>4, <2>2 DEF GetNamespace, Atomic!vars, stored
  <2> QED
    BY <2>1, <2>2
<1> QED
  BY <1>1, <1>3, <1>4

LEMMA StepRefines == RegistersIInv /\ [RegistersNext]_registerVars => [Atomic!Next]_(Atomic!vars)
<1> SUFFICES ASSUME RegistersIInv, [RegistersNext]_registerVars
             PROVE  [Atomic!Next]_(Atomic!vars)
  OBVIOUS
<1>1. CASE Load
  <2>1. CASE PluginRegisters
    BY <1>1, <2>1, PluginCall, RegisterStutter, RegistersAssumption DEF Load, readerVars
  <2>2. CASE OpenFails \/ PluginPanics \/ PluginLoaded
    BY <1>1, <2>2, Stutter DEF Load, OpenFails, PluginPanics, PluginLoaded, readerVars
  <2> QED
    BY <1>1, <2>1, <2>2 DEF Load
<1>2. CASE Adds
  <2>1. Empty \in [Name -> Writer \cup {NoValue}]
    BY DEF Empty
  <2> QED
    BY <1>2, <2>1, AllocateStutter DEF Adds, AddNamespace, readerVars
<1>3. CASE OthersRegister
  BY <1>3, RegisterStutter DEF OthersRegister, readerVars
<1>4. CASE Stores
  <2>1. PICK w \in Writer : (Store(w) \/ Publish(w)) /\ UNCHANGED <<readerVars, loaderVars>>
    BY <1>4 DEF Stores
  <2>2. CASE Store(w)
    <3>1. op[w][1] \in Namespace /\ op[w][2] \in Name
      BY <2>2 DEF RegistersIInv, WriterOK, Store, Enters, Registration
    <3> QED
      BY <2>1, <2>2, <3>1, StorePuts DEF Atomic!Next
  <2>3. CASE Publish(w)
    BY <2>1, <2>3, PublishPuts DEF Atomic!Next
  <2> QED
    BY <2>1, <2>2, <2>3
<1>5. CASE Gets
  BY <1>5, GetsGet
<1>6. CASE UNCHANGED registerVars
  BY <1>6, Stutter DEF registerVars, readerVars
<1> QED
  BY <1>1, <1>2, <1>3, <1>4, <1>5, <1>6 DEF RegistersNext

LEMMA InitRefines == RegistersInit => Atomic!Init
  BY DEF RegistersInit, NoRegistration, Atomic!Init, Registered, Empty, Atomic!Empty

\* ImplementsRegister: Namespaced.Register, AddNamespace and the lookups of
\* getModifier are atomic, whoever registers and looks up at the same time.
THEOREM Linearizable == RegistersSpec => ImplementsRegister
<1>1. RegistersSpec => [][Atomic!Next]_(Atomic!vars)
  BY RegistersInv, StepRefines, PTL DEF RegistersSpec
<1> QED
  BY <1>1, InitRefines, PTL DEF RegistersSpec, ImplementsRegister, Atomic!Spec
---------------------------------------------------------------------------
(* What load counts.                                                       *)

Visible(reg) == Registered(reg[1])[reg[2]] # NoValue

\* Of the plugin being opened, what it registered is visible, or its last
\* registration is under way.
CurrentOK ==
  k <= Plugins /\ plugin[k] # Broken =>
    /\ calls <= Len(plugin[k])
    /\ \A c \in 1..calls : \/ Visible(plugin[k][c])
                           \/ c = calls /\ writer[Loader] # "idle" /\ op[Loader] = plugin[k][c]

LoadedOK == \A j \in 1..(k - 1) :
              \/ j \in errors
              \/ plugin[j] # Broken /\ \A c \in DOMAIN plugin[j] : Visible(plugin[j][c])

CountOK == errors \subseteq 1..(k - 1) /\ loadedPlugins + Cardinality(errors) = k - 1

LoadInv == CurrentOK /\ LoadedOK /\ CountOK

\* Nothing that was registered disappears: it is what a step of AtomicRegister
\* cannot do either.
LEMMA VisibleStays ==
  ASSUME RegistersIInv, [RegistersNext]_registerVars, NEW reg \in Registration, Visible(reg)
  PROVE  Visible(reg)'
<1>1. reg[1] \in Namespace /\ reg[2] \in Name /\ stored[reg[1]][reg[2]] # NoValue
  BY DEF Visible, stored, Registration
<1>2. [Atomic!Next]_(Atomic!vars)
  BY StepRefines
<1>3. \A ns \in Namespace : stored[ns] \in [Name -> Writer \cup {NoValue}]
  BY RegisteredType DEF stored
<1>4. CASE UNCHANGED Atomic!vars
  BY <1>1, <1>4 DEF Atomic!vars, stored, Visible
<1>5. ASSUME NEW ns \in Namespace, NEW n \in Name, NEW v \in Writer, Atomic!Put(ns, n, v)
      PROVE  Visible(reg)'
  <2>1. stored' = [stored EXCEPT ![ns][n] = v]
    BY <1>5 DEF Atomic!Put, stored
  <2>2. stored'[reg[1]][reg[2]] # NoValue
    BY <1>1, <1>3, <2>1, RegistersAssumption DEF stored
  <2> QED
    BY <1>1, <2>2 DEF stored, Visible
<1>6. ASSUME NEW ns \in Namespace, NEW n \in Name, NEW r \in Reader, Atomic!Get(r, ns, n)
      PROVE  Visible(reg)'
  <2>1. stored' = stored
    BY <1>6 DEF Atomic!Get, stored
  <2> QED
    BY <1>1, <2>1 DEF stored, Visible
<1> QED
  BY <1>2, <1>4, <1>5, <1>6 DEF Atomic!Next

\* The plugins that were opened, while none is finished.
LEMMA LoadedStays ==
  ASSUME RegistersIInv, LoadInv, [RegistersNext]_registerVars,
         UNCHANGED <<plugin, k, loadedPlugins, errors>>
  PROVE  LoadedOK' /\ CountOK'
<1>1. \A j \in 1..(k - 1) : plugin[j] # Broken => plugin[j] \in Seq(Registration)
  BY RegistersAssumption DEF RegistersIInv, RegistersTypeOK
<1>2. \A j \in 1..(k - 1) : plugin[j] # Broken =>
        \A c \in DOMAIN plugin[j] : Visible(plugin[j][c]) => Visible(plugin[j][c])'
  BY <1>1, VisibleStays
<1> QED
  BY <1>2 DEF LoadInv, LoadedOK, CountOK

\* The registrations of the plugin that is being opened, while it is: the last
\* one stays under way or becomes visible.
LastStays ==
  \/ UNCHANGED <<writer[Loader], op[Loader]>>
  \/ \A reg \in Registration : writer[Loader] # "idle" /\ op[Loader] = reg => Visible(reg)'

LEMMA CurrentStays ==
  ASSUME RegistersIInv, LoadInv, [RegistersNext]_registerVars, UNCHANGED loaderVars, LastStays
  PROVE  LoadInv'
<1>1. LoadedOK' /\ CountOK'
  BY LoadedStays DEF loaderVars
<1>2. plugin' = plugin /\ k' = k /\ calls' = calls
  BY DEF loaderVars
<1>3. ASSUME k <= Plugins, plugin[k] # Broken, NEW c \in 1..calls
      PROVE  \/ Visible(plugin[k][c])'
             \/ c = calls /\ writer'[Loader] # "idle" /\ op'[Loader] = plugin[k][c]
  <2>1. plugin[k] \in Seq(Registration)
    BY <1>3, RegistersAssumption DEF RegistersIInv, RegistersTypeOK
  <2>2. c \in 1..Len(plugin[k])
    BY <1>3, <2>1 DEF LoadInv, CurrentOK, RegistersIInv, RegistersTypeOK
  <2>3. plugin[k][c] \in Registration
    BY <2>1, <2>2
  <2>4. CASE Visible(plugin[k][c])
    <3>1. PICK reg \in Registration : reg = plugin[k][c]
      BY <2>3
    <3>2. Visible(reg)'
      BY <2>4, <3>1, VisibleStays
    <3> QED
      BY <1>2, <3>1, <3>2 DEF Visible, Registered
  <2>5. CASE c = calls /\ writer[Loader] # "idle" /\ op[Loader] = plugin[k][c]
    <3>1. PICK reg \in Registration : reg = plugin[k][c]
      BY <2>3
    <3>2. CASE Visible(reg)'
      BY <1>2, <3>1, <3>2 DEF Visible, Registered
    <3> QED
      BY <2>5, <3>1, <3>2 DEF LastStays
  <2> QED
    BY <1>3, <2>4, <2>5 DEF LoadInv, CurrentOK
<1> QED
  BY <1>1, <1>2, <1>3 DEF LoadInv, CurrentOK

\* A registration that returns is visible.
LEMMA ReturnsVisible ==
  ASSUME RegistersIInv, NEW w \in Writer, Store(w) \/ Publish(w), UNCHANGED <<readerVars, loaderVars>>,
         NEW reg \in Registration, op[w] = reg
  PROVE  Visible(reg)'
<1>1. reg[1] \in Namespace /\ reg[2] \in Name
  BY DEF Registration
<1>2. \A ns \in Namespace : stored[ns] \in [Name -> Writer \cup {NoValue}]
  BY RegisteredType DEF stored
<1>3. CASE Atomic!Put(reg[1], reg[2], w)
  <2>1. stored'[reg[1]][reg[2]] = w
    BY <1>1, <1>2, <1>3 DEF Atomic!Put, stored
  <2> QED
    BY <1>1, <2>1, RegistersAssumption DEF stored, Visible
<1>4. CASE Store(w)
  BY <1>3, <1>4, StorePuts
<1>5. CASE Publish(w)
  <2>1. /\ data' = [data EXCEPT ![reg[1]] = ref[w]] /\ registers' = registers
        /\ Prepared(w) /\ ref[w] # 0
    BY <1>5 DEF Publish, Enters, RegistersIInv, WriterOK
  <2>2. data'[reg[1]] = ref[w]
    BY <1>1, <2>1 DEF RegistersIInv, RegistersTypeOK
  <2>3. registers'[ref[w]][reg[2]] = w
    BY <1>1, <2>1 DEF Prepared, Empty
  <2> QED
    BY <2>1, <2>2, <2>3, RegistersAssumption DEF Visible, Registered
<1> QED
  BY <1>4, <1>5

\* The error of a plugin is kept, and the next one is opened.
LEMMA FailsCounts ==
  ASSUME RegistersIInv, LoadInv, OpenFails \/ PluginPanics
  PROVE  LoadInv'
<1>1. /\ k \in 1..Plugins /\ k' = k + 1 /\ calls' = 0 /\ errors' = errors \cup {k}
      /\ UNCHANGED <<plugin, loadedPlugins, data, registers>>
  BY DEF OpenFails, PluginPanics, Opening, Fails, RegistersIInv, RegistersTypeOK
<1>2. \A j \in 1..Plugins : plugin[j] # Broken => plugin[j] \in Seq(Registration)
  BY RegistersAssumption DEF RegistersIInv, RegistersTypeOK
<1>3. CurrentOK'
  BY <1>1, <1>2 DEF CurrentOK
<1>4. LoadedOK'
  BY <1>1 DEF LoadInv, LoadedOK, Visible, Registered
<1>5. CountOK'
  <2>1. IsFiniteSet(errors) /\ Cardinality(errors) \in Nat
    <3>1. IsFiniteSet(1..Plugins)
      BY FS_Interval, RegistersAssumption
    <3>2. IsFiniteSet(errors)
      BY <3>1, FS_Subset DEF RegistersIInv, RegistersTypeOK
    <3> QED
      BY <3>2, FS_CardinalityType
  <2>2. k \notin errors
    BY <1>1 DEF LoadInv, CountOK
  <2>3. Cardinality(errors') = Cardinality(errors) + 1
    BY <1>1, <2>1, <2>2, FS_AddElement
  <2> QED
    BY <1>1, <2>1, <2>3 DEF LoadInv, CountOK, RegistersIInv, RegistersTypeOK
<1> QED
  BY <1>3, <1>4, <1>5 DEF LoadInv

\* A plugin is counted as loaded when its last registration has returned.
LEMMA LoadedCounts ==
  ASSUME RegistersIInv, LoadInv, PluginLoaded
  PROVE  LoadInv'
<1>1. /\ k \in 1..Plugins /\ k' = k + 1 /\ calls' = 0 /\ loadedPlugins' = loadedPlugins + 1
      /\ UNCHANGED <<plugin, errors, data, registers>>
  BY DEF PluginLoaded, Opening, RegistersIInv, RegistersTypeOK
<1>2. \A j \in 1..Plugins : plugin[j] # Broken => plugin[j] \in Seq(Registration)
  BY RegistersAssumption DEF RegistersIInv, RegistersTypeOK
<1>3. CurrentOK'
  BY <1>1, <1>2 DEF CurrentOK
<1>4. plugin[k] # Broken /\ \A c \in DOMAIN plugin[k] : Visible(plugin[k][c])
  BY <1>1, <1>2 DEF PluginLoaded, Opening, LoadInv, CurrentOK
<1>5. LoadedOK'
  BY <1>1, <1>4 DEF LoadInv, LoadedOK, Visible, Registered
<1>6. CountOK'
  <2>1. Cardinality(errors) \in Nat
    <3>1. IsFiniteSet(1..Plugins)
      BY FS_Interval, RegistersAssumption
    <3>2. IsFiniteSet(errors)
      BY <3>1, FS_Subset DEF RegistersIInv, RegistersTypeOK
    <3> QED
      BY <3>2, FS_CardinalityType
  <2>2. errors \subseteq 1..(k - 1) /\ loadedPlugins + Cardinality(errors) = k - 1
    BY DEF LoadInv, CountOK
  <2>3. loadedPlugins' \in Nat /\ loadedPlugins' + Cardinality(errors) = k' - 1
    <3>1. loadedPlugins \in Nat
      BY DEF RegistersIInv, RegistersTypeOK
    <3> QED
      BY <1>1, <2>1, <2>2, <3>1
  <2>4. errors' \subseteq 1..(k' - 1)
    BY <1>1, <2>2
  <2> QED
    BY <1>1, <2>3, <2>4 DEF CountOK
<1> QED
  BY <1>3, <1>5, <1>6 DEF LoadInv

\* A plugin starts to register what comes next.
LEMMA RegistersCounts ==
  ASSUME RegistersIInv, LoadInv, Load, PluginRegisters
  PROVE  LoadInv'
<1>1. /\ k \in 1..Plugins /\ calls \in Nat /\ calls' = calls + 1
      /\ UNCHANGED <<plugin, k, loadedPlugins, errors>>
  BY DEF PluginRegisters, Opening, RegistersIInv, RegistersTypeOK
<1>2. LoadedOK' /\ CountOK'
  BY <1>1, LoadedStays DEF RegistersNext
<1>3. PICK reg \in Registration : /\ reg = plugin[k][calls + 1] /\ reg = <<reg[1], reg[2]>>
                                  /\ Register(Loader, reg[1], reg[2])
  BY PluginCall
<1>4. writer'[Loader] # "idle" /\ op'[Loader] = reg /\ writer[Loader] = "idle"
  BY <1>3, RegistersAssumption DEF Register, Enters, RegistersIInv, RegistersTypeOK
<1>5. plugin[k] \in Seq(Registration) /\ calls + 1 \in 1..Len(plugin[k])
  BY PluginCall
<1>6. ASSUME plugin[k] # Broken, NEW c \in 1..calls
      PROVE  Visible(plugin[k][c])'
  <2>1. plugin[k][c] \in Registration
    BY <1>1, <1>5, <1>6
  <2>2. PICK r \in Registration : r = plugin[k][c]
    BY <2>1
  <2>3. Visible(r)
    BY <1>1, <1>4, <1>6, <2>2 DEF LoadInv, CurrentOK
  <2>4. Visible(r)'
    BY <2>3, VisibleStays DEF RegistersNext
  <2> QED
    BY <1>1, <2>2, <2>4 DEF Visible, Registered
<1>7. CurrentOK'
  BY <1>1, <1>3, <1>4, <1>5, <1>6 DEF CurrentOK
<1> QED
  BY <1>2, <1>7 DEF LoadInv

LEMMA LoadStep == RegistersIInv /\ LoadInv /\ [RegistersNext]_registerVars => LoadInv'
<1> SUFFICES ASSUME RegistersIInv, LoadInv, [RegistersNext]_registerVars
             PROVE  LoadInv'
  OBVIOUS
<1>1. CASE Load
  BY <1>1, FailsCounts, LoadedCounts, RegistersCounts DEF Load
<1>2. CASE Adds
  BY <1>2, CurrentStays DEF Adds, AddNamespace, Enters, LastStays
<1>3. CASE OthersRegister
  <2>1. PICK w \in Writer \ {Loader}, ns \in Namespace, n \in Name :
          Register(w, ns, n) /\ UNCHANGED loaderVars
    BY <1>3 DEF OthersRegister
  <2>2. UNCHANGED <<writer[Loader], op[Loader]>>
    BY <2>1, RegistersAssumption DEF Register, Enters, RegistersIInv, RegistersTypeOK
  <2> QED
    BY <2>1, <2>2, CurrentStays DEF LastStays
<1>4. CASE Stores
  <2>1. PICK w \in Writer : (Store(w) \/ Publish(w)) /\ UNCHANGED <<readerVars, loaderVars>>
    BY <1>4 DEF Stores
  <2>2. CASE w = Loader
    BY <2>1, <2>2, ReturnsVisible, CurrentStays DEF LastStays, loaderVars
  <2>3. CASE w # Loader
    <3>1. UNCHANGED <<writer[Loader], op[Loader]>>
      BY <2>1, <2>3, RegistersAssumption
         DEF Store, Publish, Enters, Returns, RegistersIInv, RegistersTypeOK
    <3> QED
      BY <2>1, <3>1, CurrentStays DEF LastStays
  <2> QED
    BY <2>2, <2>3
<1>5. CASE Gets
  BY <1>5, CurrentStays DEF Gets, writerVars, LastStays
<1>6. CASE UNCHANGED registerVars
  BY <1>6, CurrentStays DEF registerVars, writerVars, LastStays
<1> QED
  BY <1>1, <1>2, <1>3, <1>4, <1>5, <1>6 DEF RegistersNext

LEMMA LoadInit == RegistersInit => LoadInv
<1>1. Cardinality({}) = 0
  BY FS_EmptySet
<1>2. ASSUME RegistersInit, k <= Plugins, plugin[k] # Broken
      PROVE  Len(plugin[k]) \in Nat
  BY <1>2, RegistersAssumption DEF RegistersInit, NoRegistration, AnyPlugins
<1> QED
  BY <1>1, <1>2
     DEF RegistersInit, NoRegistration, LoadInv, CurrentOK, LoadedOK, CountOK

\* LoadIsAccounted: load counts every plugin it tried as loaded or failed, and
\* a loaded one has every registration it made, whatever others do meanwhile.
THEOREM LoadedAreRegistered == RegistersSpec => []LoadIsAccounted
<1>1. LoadInv => LoadIsAccounted
  BY DEF LoadInv, LoadedOK, CountOK, LoadIsAccounted, Visible
<1> QED
  BY <1>1, RegistersInv, LoadInit, LoadStep, PTL DEF RegistersSpec
=============================================================================

--------------------------- MODULE RequestSharing ---------------------------
(***************************************************************************)
(* One request on its way to several calls: the backends of a parallel     *)
(* merge, the concurrent calls to one backend, or a backend and its        *)
(* shadow.  Each call gets a *Request of its own, but the maps and the     *)
(* body behind it are shared or copied: by Clone and CloneRequest, and by  *)
(* the middlewares of newStack, which also write into them.                *)
(*                                                                         *)
(* Maps are names in a heap; of Params only the name matters, since        *)
(* nothing here writes them but a sequential merge above, which goes on    *)
(* while calls it no longer waits for still run.  What a middleware is     *)
(* about to touch is Accesses; two actors that stand before conflicting    *)
(* accesses race, since no lock orders them.                               *)
(***************************************************************************)
EXTENDS Naturals, FiniteSets

CONSTANTS N,           \* how many calls; they are forked in order
          HeaderName,  \* headers of the client's request
          QueryName,   \* query strings of the client's request
          HeaderFilters, QueryFilters, \* lists of names that a backend lets pass
          NotSent

ASSUME NAssumption == N \in Nat /\ N > 1

Call == 1..N

VARIABLES fan,     \* who forks: "merge", "concurrent" or "shadow"
          forced,  \* forceDeepClone
          above,   \* how a sequential merge made the request it gave to concurrent
                   \* calls; "deep", which shares nothing, is also for no such merge
          clientBody, \* what came with the client's request
          backend, \* the configuration of each call's backend
          next,    \* the call to fork next
          at,      \* the middleware each call stands before
          req,     \* its Request: where its maps and body are, URL, Method
          queries, headers, bodies, \* the heap
          sent     \* what left for the backend

conf == <<fan, forced, above, clientBody, backend>>
heap == <<queries, headers, bodies>>
vars == <<conf, next, at, req, heap, sent>>

ClientBody == "client"
NoBody == ""

Ref == {<<0, "request">>} \cup (Call \X {"clone", "filtered"})
Original == <<0, "request">>

\* The values of maps: keys of the client, and what GraphQL middlewares
\* added: "query" and "variables" of these calls, Content-Length by that one.
QueryMap == [client : SUBSET QueryName, graphql : SUBSET Call]
HeaderMap == [client : SUBSET HeaderName, length : {0} \cup Call]

\* An empty set of names to pass is the absence of a filter.
Backend == [method : {"GET", "POST"},
            passQuery : QueryFilters, passHeaders : HeaderFilters,
            graphql : {[type |-> "none", method |-> "POST"]}
                        \cup [type : {"query", "mutation"}, method : {"GET", "POST"}]]

UsesGraphQL(b) == b.graphql.type # "none"
Mutates(b) == b.graphql.type = "mutation"
GetsGraphQL(b) == UsesGraphQL(b) /\ b.graphql.method = "GET"

Body == {NoBody, ClientBody, "graphql"}
Request == [query : Ref, headers : Ref, body : Ref, params : Ref,
            url : {NotSent} \cup QueryMap, method : {"", "GET", "POST"}]
Message == [url : {NotSent} \cup QueryMap, headers : HeaderMap, body : Body,
            method : {"", "GET", "POST"}]

---------------------------------------------------------------------------
(* Copies.                                                                 *)

\* Endpoints with a backend that is not GET or HEAD get deep clones.
hasUnsafeBackends == \E c \in Call : backend[c].method # "GET"

Deep == fan # "merge" \/ hasUnsafeBackends \/ forced

\* Mutated form of TakesOriginal: the last two calls keep it.
TakesOriginalTwice(c) == fan # "merge" /\ c >= N - 1

\* The concurrent middleware and the shadow proxy keep the received request
\* for the last call.
TakesOriginal(c) == fan # "merge" /\ c = N

FirstStage == IF fan = "concurrent" THEN "balance" ELSE "filterQuery"

Init ==
  /\ fan \in {"merge", "concurrent", "shadow"}
  /\ fan = "shadow" => N = 2
  /\ forced \in BOOLEAN
  /\ forced => fan = "merge"
  /\ backend \in [Call -> Backend]
  /\ fan = "concurrent" => \A c, d \in Call : backend[c] = backend[d]
  /\ above \in {"deep", "shallow"}
  /\ above = "shallow" => fan = "concurrent" /\ ~hasUnsafeBackends
  /\ next = 1
  /\ at = [c \in Call |-> "idle"]
  /\ req = [c \in Call |-> [query |-> Original, headers |-> Original, body |-> Original,
                            params |-> Original, url |-> NotSent,
                            method |-> IF fan = "concurrent" THEN backend[c].method ELSE ""]]
  /\ queries = [r \in Ref |-> [client |-> QueryName, graphql |-> {}]]
  /\ headers = [r \in Ref |-> [client |-> HeaderName, length |-> 0]]
  /\ clientBody \in {NoBody, ClientBody}
  /\ bodies = [r \in Ref |-> IF r = Original THEN clientBody ELSE NoBody]
  /\ sent = [c \in Call |-> NotSent]

Forks(c) == /\ next = c
            /\ next' = c + 1
            /\ at' = [at EXCEPT ![c] = FirstStage]

\* Request.Clone: another Request, the same maps and body.
Clone(c) == /\ Forks(c)
            /\ ~Deep \/ TakesOriginal(c)
            /\ UNCHANGED <<conf, req, heap, sent>>

\* Mutated form of CloneRequest: the return for requests without a body
\* comes before the headers are copied.
CloneRequestEarly(c) ==
  /\ Forks(c)
  /\ Deep /\ ~TakesOriginal(c)
  /\ IF bodies[Original] = NoBody THEN UNCHANGED <<req, headers, bodies>>
     ELSE /\ req' = [req EXCEPT ![c].headers = <<c, "clone">>, ![c].body = <<c, "clone">>,
                                ![c].params = <<c, "clone">>]
          /\ headers' = [headers EXCEPT ![<<c, "clone">>] = headers[Original]]
          /\ bodies' = [bodies EXCEPT ![<<c, "clone">>] = bodies[Original]]
  /\ UNCHANGED <<conf, queries, sent>>

\* Headers and Params are copied, the body is read and given to both requests;
\* the Query is the one of Clone.
CloneRequest(c) ==
  /\ Forks(c)
  /\ Deep /\ ~TakesOriginal(c)
  /\ req' = [req EXCEPT ![c].headers = <<c, "clone">>, ![c].body = <<c, "clone">>,
                         ![c].params = <<c, "clone">>]
  /\ headers' = [headers EXCEPT ![<<c, "clone">>] = headers[Original]]
  /\ bodies' = [bodies EXCEPT ![<<c, "clone">>] = bodies[Original]]
  /\ UNCHANGED <<conf, queries, sent>>

---------------------------------------------------------------------------
(* The middlewares, in the order of newStack.                              *)

Query(c) == queries[req[c].query]
Headers(c) == headers[req[c].headers]

Passes(c, from, to) == /\ at[c] = from
                       /\ at' = [at EXCEPT ![c] = to]
                       /\ UNCHANGED <<conf, next>>

\* A filter is configured, the map is not empty, and has more than it lets pass.
FiltersQuery(c) == /\ backend[c].passQuery # {}
                   /\ Query(c).graphql # {} \/ ~(Query(c).client \subseteq backend[c].passQuery)

FiltersHeaders(c) == /\ backend[c].passHeaders # {}
                     /\ Headers(c).length # 0 \/ ~(Headers(c).client \subseteq backend[c].passHeaders)

\* NewFilterQueryStringsMiddleware: a new map for what passes.
FilterQuery(c) ==
  /\ Passes(c, "filterQuery", "build")
  /\ IF FiltersQuery(c)
       THEN /\ req' = [req EXCEPT ![c].query = <<c, "filtered">>]
            /\ queries' = [queries EXCEPT ![<<c, "filtered">>] =
                 [client |-> Query(c).client \cap backend[c].passQuery, graphql |-> {}]]
       ELSE UNCHANGED <<req, queries>>
  /\ UNCHANGED <<headers, bodies, sent>>

\* newRequestBuilderMiddleware: r.Path and r.Method.
Build(c) == /\ Passes(c, "build", "balance")
            /\ req' = [req EXCEPT ![c].method = backend[c].method]
            /\ UNCHANGED <<heap, sent>>

\* newLoadBalancedMiddleware: r.URL, with the encoded Query of this moment.
Balance(c) == /\ Passes(c, "balance", "filterHeaders")
              /\ req' = [req EXCEPT ![c].url = Query(c)]
              /\ UNCHANGED <<heap, sent>>

\* NewFilterHeadersMiddleware
FilterHeaders(c) ==
  /\ Passes(c, "filterHeaders", "graphql")
  /\ IF FiltersHeaders(c)
       THEN /\ req' = [req EXCEPT ![c].headers = <<c, "filtered">>]
            /\ headers' = [headers EXCEPT ![<<c, "filtered">>] =
                 [client |-> Headers(c).client \cap backend[c].passHeaders, length |-> 0]]
       ELSE UNCHANGED <<req, headers>>
  /\ UNCHANGED <<queries, bodies, sent>>

NoGraphQL(c) == /\ ~UsesGraphQL(backend[c])
                /\ Passes(c, "graphql", "send")
                /\ UNCHANGED <<req, heap, sent>>

\* A mutation reads the body, and the request fails if that is not JSON.
GraphQLFails(c) == /\ Mutates(backend[c])
                   /\ bodies[req[c].body] = NoBody
                   /\ Passes(c, "graphql", "failed")
                   /\ UNCHANGED <<req, heap, sent>>

\* The new body is a reader of this call's own.
WriteBody(c, body, method) ==
  /\ req' = [req EXCEPT ![c].body = <<c, "filtered">>, ![c].method = method]
  /\ bodies' = [bodies EXCEPT ![req[c].body] = IF Mutates(backend[c]) THEN NoBody ELSE @,
                              ![<<c, "filtered">>] = body]
  /\ headers' = [headers EXCEPT ![req[c].headers].length = c]

GraphQLPost(c) == /\ UsesGraphQL(backend[c]) /\ ~GetsGraphQL(backend[c])
                  /\ Mutates(backend[c]) => bodies[req[c].body] # NoBody
                  /\ Passes(c, "graphql", "send")
                  /\ WriteBody(c, "graphql", "POST")
                  /\ UNCHANGED <<queries, sent>>

\* The GET method adds the operation to the Query.
GraphQLGet(c) == /\ GetsGraphQL(backend[c])
                 /\ Mutates(backend[c]) => bodies[req[c].body] # NoBody
                 /\ Passes(c, "graphql", "send")
                 /\ WriteBody(c, NoBody, "GET")
                 /\ queries' = [queries EXCEPT ![req[c].query].graphql = @ \cup {c}]
                 /\ UNCHANGED sent

\* NewHTTPProxyDetailed: URL, headers and body go out; the body is read.
Send(c) == /\ Passes(c, "send", "sent")
           /\ sent' = [sent EXCEPT ![c] = [url |-> req[c].url, headers |-> Headers(c),
                                           body |-> bodies[req[c].body], method |-> req[c].method]]
           /\ bodies' = [bodies EXCEPT ![req[c].body] = NoBody]
           /\ UNCHANGED <<req, queries, headers>>

Terminated == /\ \A c \in Call : at[c] \in {"sent", "failed"}
              /\ UNCHANGED vars

Next == \/ \E c \in Call : \/ Clone(c) \/ CloneRequest(c)
                           \/ FilterQuery(c) \/ Build(c) \/ Balance(c) \/ FilterHeaders(c)
                           \/ NoGraphQL(c) \/ GraphQLFails(c) \/ GraphQLPost(c) \/ GraphQLGet(c)
                           \/ Send(c)
        \/ Terminated

Spec == Init /\ [][Next]_vars

---------------------------------------------------------------------------
(* Races.  Actor 0 is the goroutine that forks, N + 1 the sequential merge  *)
(* above it, once a call has answered.                                     *)

Access(map, ref, write) == [map |-> map, ref |-> ref, write |-> write]

CloneAccesses == IF next \in Call /\ Deep /\ ~TakesOriginal(next)
                   THEN {Access("headers", Original, FALSE), Access("params", Original, FALSE)}
                 ELSE {}

\* What each middleware reads or writes of the maps.
StageAccesses(c) ==
  CASE at[c] = "filterQuery" /\ backend[c].passQuery # {} -> {Access("query", req[c].query, FALSE)}
    [] at[c] = "build" -> {Access("params", req[c].params, FALSE)}
    [] at[c] = "balance" -> {Access("query", req[c].query, FALSE)}
    [] at[c] = "filterHeaders" /\ backend[c].passHeaders # {} -> {Access("headers", req[c].headers, FALSE)}
    [] at[c] = "graphql" /\ UsesGraphQL(backend[c]) ->
         {Access("headers", req[c].headers, TRUE)}
           \cup (IF GetsGraphQL(backend[c]) THEN {Access("query", req[c].query, TRUE)} ELSE {})
           \cup (IF Mutates(backend[c]) THEN {} ELSE {Access("params", req[c].params, FALSE)})
    [] at[c] = "send" -> {Access("headers", req[c].headers, FALSE)}
    [] OTHER -> {}

\* The merge's own maps, unless it gave them away.
MergeRef == IF above = "shallow" THEN Original ELSE <<0, "merge">>

\* The merge writes what the next backend needs into its Params, and the next
\* backend reads the headers.
MergeAccesses == IF next \notin Call /\ fan = "concurrent" /\ \E c \in Call : at[c] = "sent"
                   THEN {Access("params", MergeRef, TRUE), Access("headers", MergeRef, FALSE)}
                 ELSE {}

Accesses(a) == CASE a = 0 -> CloneAccesses
                 [] a = N + 1 -> MergeAccesses
                 [] OTHER -> StageAccesses(a)

Race(map) == \E a, b \in 0..(N + 1) : /\ a # b
                                      /\ \E x \in Accesses(a), y \in Accesses(b) :
                                           /\ x.map = map /\ y.map = map
                                           /\ x.ref = y.ref
                                           /\ x.write \/ y.write

---------------------------------------------------------------------------

TypeOK == /\ fan \in {"merge", "concurrent", "shadow"} /\ forced \in BOOLEAN
          /\ above \in {"deep", "shallow"} /\ clientBody \in {NoBody, ClientBody}
          /\ backend \in [Call -> Backend]
          /\ next \in 1..(N + 1)
          /\ at \in [Call -> {"idle", "filterQuery", "build", "balance", "filterHeaders",
                              "graphql", "send", "sent", "failed"}]
          /\ req \in [Call -> Request]
          /\ queries \in [Ref -> QueryMap] /\ headers \in [Ref -> HeaderMap]
          /\ bodies \in [Ref -> Body]
          /\ sent \in [Call -> {NotSent} \cup Message]

\* CloneRequest (request.go:72-95) gives each call its own headers, and the
\* filters (headers_filter.go:46, query_strings_filter.go:47) never write into
\* the map they were given: no goroutine writes a map that another one is about
\* to use, unless GraphQL middlewares write headers (graphql.go:96-99) on the
\* shallow clones of a merge, or add to a Query (graphql.go:100-108).  Nor does
\* a sequential merge that goes on to write Params (merging.go:357) meet calls it
\* left behind, unless it made a shallow clone for GraphQL queries, which read
\* them (graphql.go:58-63).
RaceFree ==
  /\ (Deep /\ above = "deep") \/ (\A c \in Call : ~UsesGraphQL(backend[c])) => ~Race("headers")
  /\ (\A c \in Call : ~GetsGraphQL(backend[c])) => ~Race("query")
  /\ above = "deep" \/ (\A c \in Call : UsesGraphQL(backend[c]) => Mutates(backend[c])) => ~Race("params")

\* With deep clones a call's Content-Length is the client's or the one of
\* its own GraphQL body (graphql.go:96, 122), never another call's.
\* A backend with a method other than GET and HEAD, and every backend of
\* deep clones, receives the client's body, whoever else reads it
\* (merging.go:258-270 and request.go:79-92); a GraphQL mutation among them
\* never finds it empty (graphql.go:42-48).
RequestsAreOwn ==
  \A c \in Call :
    /\ Deep /\ sent[c] # NotSent =>
         sent[c].headers.length = IF UsesGraphQL(backend[c]) THEN c ELSE 0
    /\ Deep \/ backend[c].method # "GET" =>
         /\ sent[c] # NotSent /\ ~UsesGraphQL(backend[c]) => sent[c].body = clientBody
         /\ at[c] = "failed" => clientBody = NoBody

\* What one call adds to its Query after CloneRequest does not reach the URL
\* of another: "the received and the returned proxy.Request do not share a
\* pointer" (request.go:70-71).
ClonesAreIndependent == Deep => \A c \in Call : req[c].url # NotSent => req[c].url.graphql \subseteq {c}

\* A GraphQL request carries its operation, in the body or in the URL: "The
\* resulting request will have a proper graphql body with the query and the
\* variables" (graphql.go:24-25).
OperationIsSent ==
  \A c \in Call : UsesGraphQL(backend[c]) /\ sent[c] # NotSent =>
    sent[c].body = "graphql" \/ c \in sent[c].url.graphql
=============================================================================

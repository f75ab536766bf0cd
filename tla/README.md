# TLA+ models and proofs of the Lura gateway framework

Lura (`github.com/luraproject/lura/v2`) turns a configuration of endpoints into
HTTP handlers. Each endpoint forwards a client's request to one or more
backends through a stack of proxies and merges what they return. This directory
holds TLA+ specifications of the parts of that pipeline where order, timing and
shared state decide whether the client gets the right answer, TLC
configurations that check them on small instances, and proofs checked with
TLAPS for every size.

Paths are relative to the repository root (`src/` in `PROJECT.json`). Line
numbers are given there for each definition.

## 1. Inventory

### 1.1 How the parts fit together

    client -> router handler (mux, gin, ...)            router/*
                |  context.WithTimeout(endpoint timeout)
                v
              static data, plugins, flatmap             proxy/static.go, plugin.go, formatter.go
                v
              merge: parallel or sequential             proxy/merging.go   85% of the endpoint timeout
                |  one stack per backend (proxy/factory.go: newStack)
                v
              query filter, request builder             proxy/query_strings_filter.go, http.go
                v
              concurrent calls                          proxy/concurrent.go  75% of the backend timeout
                v
              load balancer                             proxy/balancing.go, sd/, sd/dnssrv/
                v
              headers filter, GraphQL, plugins          proxy/headers_filter.go, graphql.go
                v
              HTTP client, status handler, parser       proxy/http.go, http_response.go
    shadow backends run beside the stack                proxy/shadow.go

A `Proxy` is a function from a context and a `*Request` to a `*Response` and an
error; a middleware wraps one. All of them run on behalf of one client request;
what is shared between requests is the subscriber of each backend, the balancer's
counter and the registers.

### 1.2 Components, their state, and what makes them correct

| Component | State | Operations | Hard behaviour | Correct means | Module |
|---|---|---|---|---|---|
| Accumulator and combiner (`merging.go` 440-484, 591-615) | pending, data, errs | Merge, Result, combineData | errors before, between and after responses; nil bodies | complete only if all answered completely; no error lost | MergeAccumulator |
| Parallel merge (272-310, 486-506) | two channels, proxyCount, one goroutine per backend, context | fork, filter, collect, return | any order of answers, timeout racing an answer, filters | every backend heard once, no goroutine blocks or is left, the client is answered | ParallelMerge, ForkJoin |
| Sequential merge (312-438, 508-523) | parts, registry, request params, accumulator | substitute, filter, call, receive, stop | aliasing of the first response's map, one-shot body streams, stop at the first failure | completeness, last backend wins a key, parameters come from the backend they name | SequentialMerge, SequentialSources |
| Concurrent calls (`concurrent.go`) | two channels, response, err, two contexts | start, receive, return | caller leaves early, parent context done | no complete answer lost, no goroutine blocks | ConcurrentCalls |
| DNS SRV selection (`sd/dnssrv/subscriber.go` 128-224) | none (pure) | resolve, compact, normalize, gcd | rounding, zero weights | somebody serves, shares follow weights | SRVRecords |
| Subscribers and balancers (`sd/`, `sd/dnssrv`) | cache under a RWMutex, counter | update, Hosts, Host | update racing readers, failing lookups | whole lists only, last good list, even shares, refresh | ServiceDiscovery |
| Request clones (`request.go`, filters, `graphql.go`) | maps shared between goroutines | Clone, CloneRequest, writes | a clone that shares the Query map; a sequential merge that writes Params while calls it left behind still run | no map is written while another goroutine uses it; each call sends its own body and headers | RequestSharing |
| Middleware stack (`factory.go`) | order of middlewares | New, newStack | a middleware that changes what one above has read | every change reaches the wire | RequestSharing (order of the stages), EndpointPipe (New) |
| Shadow proxy (`shadow.go`) | shadow goroutine, a tree of contexts | split backends, clone, start, merge, call, cancel | outlives the request, several timeouts above each other | only timeouts of its own cut it, it ends, and shares no map with the regular call | ShadowProxy, RequestSharing (its clone) |
| HTTP proxy (`http.go`, `http_response.go`, `proxy.go`) | response body, closer goroutine | execute, parse, close on cancel | context ends between two steps | body closed once, not before it was rendered | EndpointExchange |
| Endpoint handlers (`router/mux`, `router/gin`) | headers, status, context | handle, render | proxy done after timeout | completeness header agrees with the body, contexts end | EndpointExchange |
| Formatting (`formatter.go`) | none | filter, group, map, target, flatmap | nested paths, map iteration order | reference definition over small trees | EntityFormatter |
| Static data, modifier plugins (`static.go`, `plugin.go`) | none | merge strategies, chain of modifiers | a response beside an error, neither of both | failures are answered as promised, modifiers get a response | EndpointPipe |
| Configuration and its parser (`config/config.go`, `parser.go`) | service, endpoints, backends, agents | normalize, Init, defaults, URL mappings | off-by-one in counting parameters, durations that cannot be parsed | accepted exactly if it can be served, defaults everywhere, every placeholder is provided | ConfigInit |
| HTTP server (`transport/http/server`) | listener goroutine, done channel | run, shutdown | requests accepted while the service ends, connections that h2c takes over, unbuffered channel after shutdown | accepted requests are served, nothing waits for ever | ServerLifecycle |
| Async agents, backoff (`async`, `backoff`) | errgroup and its context, retry counters | Start, retry, pause, give up | closures that read the configuration later, an agent that gives up while others start | each agent as configured, all end together | AsyncAgents |
| Registers and plugin loaders (`register`, `proxy/plugin/modifier.go`) | two levels of maps, each with a lock | Register, Get, Load | look up and add in two critical sections; plugins that panic half way | one atomic map; every plugin counted once | Registers, AtomicRegister |
| Routers (`router/gin`, `mux`, `chi`, `gorilla`, `httptreemux`, `negroni`) | table of routes, gin's catalog | Run, register endpoints | two endpoints of one route, engines that differ | each route has one of the handlers that ask for it, or the start fails | RouterEndpoints |
| GraphQL client (`transport/http/client/graphql`) | options | New, extract from parameters or body | odd configured values, odd bodies | the variables arrive | GraphQLExtractor |

**Not modelled, and not planned**: encodings (they delegate to JSON and XML
libraries, and their results are the bodies of the models), logging and version
(output only), TLS settings (data handed to `crypto/tls`, copied field by field by
the parser), the third-party routers' own matching of wildcards, the scanning of
plugin directories and the executors of client and server plugins (dynamic linking
and code that is not in this repository), the random generator that all agents'
backoffs share without a lock (what it returns after a race is unspecified; jitter
is any number of its range here).

## 2. Modules

| Module | Kind |
|---|---|
| `MergeAccumulator` | operators: response, accumulator, combiner |
| `ForkJoin` | abstract contract of a merge |
| `ParallelMerge` | parallelMerge and requestPart; implements `ForkJoin` |
| `SequentialMerge` | sequentialMerge and sequentialRequestPart |
| `SequentialSources` | pure algorithm: the value a dotted source finds |
| `ConcurrentCalls` | concurrent middleware and processConcurrentCall |
| `ServiceDiscovery` | subscriber, updating goroutine, balancers |
| `RequestSharing` | clones of a request, the middlewares of newStack, who touches which map |
| `EndpointExchange` | handler, HTTP proxy, response body and its closer |
| `ShadowProxy` | split of an endpoint's backends, a handler, its shadow goroutine and the contexts of its calls |
| `ServerLifecycle` | RunServer: listener, shutdown; lets the requests of `ShadowProxy` in |
| `AsyncAgents` | AgentStarter.Start, its error group, retries and pauses |
| `AtomicRegister` | abstract contract of a register |
| `Registers` | Namespaced and Untyped registers, loaders of plugins; implements `AtomicRegister` |
| `SRVRecords` | pure algorithm: SRV answer to list of hosts |
| `EntityFormatter` | pure algorithm: formatting of a response |
| `ConfigInit` | pure algorithm: parsing, checks and defaults of a configuration |
| `RouterEndpoints` | pure algorithm: the handlers of five engines at each route |
| `GraphQLExtractor` | pure algorithm: the variables of a GraphQL operation |
| `EndpointPipe` | pure algorithm: what the middlewares of an endpoint make of its backends' answers |
| `MergeAccumulatorProofs` (also the lemmas about folds), `ParallelMergeProofs` (also of `EndpointPipe`), `SequentialMergeProofs` (also of `SequentialSources` and `EntityFormatter`), `ConcurrentCallsProofs`, `ServiceDiscoveryProofs` (also of `SRVRecords` and `RouterEndpoints`), `SharedProofs` (of `RequestSharing` and `Registers`), `EndpointExchangeProofs`, `ServiceProofs` (of `ServerLifecycle`, `ShadowProxy`, `AsyncAgents`, `ConfigInit` and `GraphQLExtractor`) | theorems |
| `MC*` | TLC instances |

`ParallelMerge`, `SequentialMerge` and `ForkJoin` extend `MergeAccumulator`, so
the accumulator and the combiner are the same definitions in all three;
`EndpointPipe` instantiates it as `Merging`. `ServerLifecycle` extends `ShadowProxy`,
`SequentialSources` the trees of `EntityFormatter`, `GraphQLExtractor` the placeholders
of `ConfigInit`.

`MCShared`, `MCBackendCalls` and `MCServerLifecycle` each hold two or three components
that do not interact. Their variable `subject` says of which one a behaviour is: the
others stay in one state in which they have nothing to do, so the state space is the
sum of all, and one run answers for them.

Operators whose comment starts with "Mutated form of" are not part of the
specifications: each is a plausible mistake in the code beside which it stands,
and `PROJECT.json` says which property notices it.

### 2.1 MergeAccumulator

A response is its `Data` (a function from a set of top-level keys to values, or
the nil map) and `IsComplete`; an error is its origin. `MergeFailure` and
`MergeResponse` are the two halves of `Merge`; `Result` lowers the flag if
anything is missing or failed. `combineData` is the default combiner, the only one
registered by the framework. A decoded JSON `null` is a nil map: it makes a merge
incomplete, but not when it is the only answer. That exception is in the code
(combineData is not called for a single response), and in `AllComplete` of
`ForkJoin`.

### 2.2 ParallelMerge and ForkJoin

One action per step of the caller (`Fork`, `Skip`, `StartCollecting`,
`CollectFailure`, `CollectPart`, `Return`) and of each `requestPart` goroutine
(`NextFails`, `NextReturnsNil`, `NextResponds`, `SendPart`, `GiveUp`,
`SendFailure`). Go's `select` is the disjunction of the actions whose channel
operation is ready. A buffered channel is a sequence of at most `ChanCap`
messages. Messages carry their sender, which the code does not need; `heard`
records the received ones. Both are history: no guard reads them. The context is
`"live"` or the reason it is done: `"deadline"` for the merge timeout or an
earlier one above it, `"canceled"` for a client that left or `cancel()`.

`ForkJoin` states what a merge promises: each asked backend is heard exactly once,
and the outcome is the merge of the *set* of answers, leaving open only who wins a
key that several return. `ImplementsForkJoin` is the refinement (`stage`, `asked`
and `answers` are mapped to `pc`, `worker` and `heard`).

### 2.3 SequentialMerge

`sequentialRequestPart` runs in the caller's goroutine, so there is one program
counter. `Substitute` is one iteration of the replacement loop, with all its
`continue`s as disjuncts of `Replace`. The part that is easy to miss is aliasing:
`parts[b].Data` and the accumulator's data can be *the same Go map*, which later
calls of `combineData` write into. `owner` names the backend whose map that is, and
`LiveData(b)` is what a read of `parts[b].Data` sees. `io` is the body stream of a
no-op response, empty once read.

`sequentialMergerConfig` makes the table of replacements from the references in URLs
and the propagated parameters of an endpoint. URLs can only name keys, and only the
propagated parameters are checked for backends that do not exist; the loop over the
replacements has to cope with the others.

Abstractions: the regular expressions that find references; the conversion of a
value to a string keeps only whether it is `""` (`Empty`), because the registry treats
that as unknown. A source is one key. Dotted sources are the subject of
`SequentialSources`, where the data are trees: `Follow` is one round of the loop over
the names before the last, which ends at a name that leads nowhere, and `Found` looks
the last name up wherever the loop ended. So `{{.Resp0_a.b}}` finds the top-level `b`
of a response without an `a`; `SourcesAreFollowed` says that it finds this or nothing
else, and the value the source names whenever there is one.

### 2.4 ConcurrentCalls

The caller's two loops, `processConcurrentCall`, the parent's context and
`localCtx`. `response` and `err` are variables that different iterations write; the
receive from the parent's done channel writes neither. `lateDones` is history.

### 2.5 ServiceDiscovery

The goroutine of the DNS subscriber sleeps, looks up, takes the lock, replaces the
cache and releases the lock. The assignment of a slice header takes several machine
words, so it is two steps here and the cache is `Torn` between them: what the mutex
has to hide. Requests take the read lock, copy, release and pick. `sync.RWMutex` is
external: a waiting writer blocks new readers, and an unlocking writer lets the
waiting readers in. The state after construction is initial, since nothing else
sees the subscriber before. What `resolve` returns is any element of `Lists`.

### 2.6 RequestSharing

One request fans out: to the backends of a parallel merge, to the concurrent calls
of one backend, or to a backend and its shadow (`fan`). `Clone` copies the struct
and shares its maps and body; `CloneRequest` gives the clone headers and a body of
its own and leaves `Query` shared. A concurrent middleware and a shadow proxy use
the received request itself for the last call (`TakesOriginal`). Each call then
passes the middlewares of `newStack` in their order, one action each: query filter,
request builder, load balancer, header filter, GraphQL, HTTP client.

Maps and bodies are names in a heap (`Ref`): the original, or what a call's clone or
filter made. An action works on the whole map at once; whether two goroutines could
really do so at the same time is what `Accesses` says, the maps a goroutine is about
to read or write. `RaceFree` is that no two conflict. No lock or channel orders the
calls, so two that stand before conflicting accesses do race. Plugins are left out:
they may do anything. Of `Params` only the name is kept, since nothing below the fan
writes them. A sequential merge above does (`merging.go:357`), between two backends,
when calls to an earlier backend that the concurrent middleware no longer waits for
may still run. It is actor N + 1 of `Race`, and `above` says whether it had cloned the
request deeply.

### 2.7 EndpointExchange

A handler of `router/mux` or `router/gin` around a proxy of one backend, called once
or, with concurrent calls, several times. The handler's context, the one of the
concurrent middleware and the one of each call are `request`, `local` and `callCtx`;
`CallDone` follows the chain of parents. The HTTP proxy is the sequence client,
`select` on the context, status handler, parser. The no-op parser hands the open
body out and starts `closeOnCancel`, a goroutine that waits for the context of the
call; the other parsers close the body before they return. The render copies a
no-op body after the proxies have returned, so the closers run beside it.

The three status handlers differ in who closes the body and in whether the error
becomes a response; `details` returns an incomplete response and no error. Headers
are reduced to completed or not, statuses to three classes. Concurrent calls are
reduced to what they hand over and which contexts they end; their channels are
`ConcurrentCalls`' subject.

### 2.8 ShadowProxy and ServerLifecycle

`ShadowProxy` has the requests of one endpoint. Its backends are any sequence of
regular ones and of shadows, with a timeout of their own or without, called once or
several times (`concurrent`); `regular`, `shadows` and `maxTimeout` are what
`shadowFactory.New` makes of them, the first two as sets of their places;
`MaxDuration` bounds the configured timeouts. A handler arrives, calls both proxies
and replies; its context may end at any moment. What the regular proxy answers is
left open, since it does not depend on the shadow.

The shadow is a goroutine with a tree of contexts. `Parent` says what each derives
from: the shadow's takes values from the handler's, and nothing else
(`newContextWrapperWithTimeout`); below it is the merge's, if there are several
shadows, because `shadowFactory.New` builds their stack with the factory of ordinary
endpoints; below that those of the calls. Three kinds have timers (`HasTimer`,
`TimeoutOf`): the shadow's with the longest time that one of them asks for, the
merge's with 85% of the endpoint's timeout, that of concurrent calls with 75% of the
backend's, which it inherits from the endpoint. The end of a context reaches the ones
below it in a step of its own (`CtxEnds`): the shadow's is a type of this package, so
`context` waits for it in a goroutine. `CallBackend`, `SkipBackend`, `BackendHeard`
and `BackendCut` are the calls, in any order, which covers both merges, whose own steps
are `ParallelMerge`'s and `SequentialMerge`'s. Time passes in units up to `maxTimeout`,
and `since` says when a context was made. So a `shadow_timeout` is no promise that a
shadow has this time, whatever its description (`shadow.go:23-24`) suggests: where shadows
are merged or called more than once, one that is longer than 85% or 75% of the endpoint's
timeout has no effect. `ShadowIsDetached` names every reason for which a call is cut.

`ServerLifecycle` is `RunServer`: the check of the key pairs, the listener's
goroutine, the `select`, `Shutdown` with a background context or one with a deadline.
`http.Server` is external: `Shutdown` stops accepting at once and returns when no
handler runs that it knows of (`Drained`) or its context ends (`ShutdownExpires`).
With `use_h2c` `NewServerWithLogger` wraps the handler in `h2c.NewHandler`: that takes
connections over from the server (`Hijack`), requests come in on them at any later time
(`AcceptH2C`), and `Shutdown` knows neither. `via` says how each request came in. The
handler that speaks HTTP/1 on the same port stays the server's. After a shutdown
the listener's goroutine stands at `done <- err`, which nobody receives; that is a
state the system may end in (`Terminated`).

### 2.9 AsyncAgents

`Start` walks over agents and factories: `starter` is where it stands, and one step
of it asks one factory about one agent. An accepted agent is a goroutine of the error
group: it connects, pauses and connects again as long as `ShouldContinue` says,
consumes, and returns when its context ends. The agents are external; that they use
`ShouldContinue` and the backoff in this way is what the comments of `Options` ask of
them. `MaxRetries` is a variable, because `Start` stores the default for an agent when
it gets to it and the closure reads the configuration at every call. The powers of two
are ideal integers: `1<<i` seconds only overflow 64 bits from i = 34 on, a pause of
centuries.

### 2.10 Registers and AtomicRegister

`Namespaced.Register` looks a namespace up under the read lock of the outer map and
stores under the write lock of the inner one, or makes a new inner map and stores that
under the lock of the outer one. Each critical section is one action (`writer` is the
one a goroutine is about to enter); an `Untyped` register is a reference into a heap,
since a goroutine may hold one that has been replaced. `Load` opens the files one after the other; a
plugin registers some of its modifiers and may then panic.

`AtomicRegister` is what the users count on. `ImplementsRegister` maps its `store` to
the registers that the outer map refers to. It needs that namespaces are added by one
goroutine, which is how the loaders use it: with two, both may find a namespace absent
and the second replaces what the first has stored.

### 2.11 The pure algorithms and MCAlgorithms

`SRVRecords`: `resolve` and its helpers as operators, the loop of `gcd` as a
recursive function (`Euclid`). The sort puts each record at the place given by the number of
records before it. `Scale` is 100 in the code.

`EntityFormatter`: values are objects or scalars, paths sequences of keys. `Tree` holds
the values with objects in objects to a depth of `Depth`, which also bounds the length
of paths; an array is a scalar, as no code here looks into one. `Branch` is what
`buildDictPath` makes of a list's tree, for both lists: a walk down to where the tree
ends, and new objects from there. `AllowlistPrune` and `recDelete` are recursive
functions of the list's tree: the filter it makes, a function of the data. `Renamings` holds the outcome of every order in which Go may iterate over the
mapping. `FiltersAreExact` and `FormatIsExact` compare the code's trees with a
definition on the set of paths.

`ConfigInit`: a configuration is first parsed (`normalize`: a duration that cannot be
parsed is 0) and then initialised. `InitError` is the first check that fails, in the order of the code;
`InitService` the configuration after `Init`. A placeholder keeps only what
conversions look at: its place among sorted names (`Place`), upper case letters, whether a
sequential response provides it. `NamesAssumption` says that different names have different places.

`EndpointPipe`: `New` composes the merge (or the only stack), the flatmap formatter,
the plugins and the static data as `defaultFactory.New` does, and `Reply` is what the
handlers of mux and gin make of the result. Data is the set of its origins. A nil
response that a middleware reads is `Panic`. The answers of a single backend include
what `ConcurrentCalls` shows that a concurrent middleware can return once its parent's
context ended: nothing at all, or a partial response beside an error.

`RouterEndpoints`: `registerKrakendEndpoints` folds the endpoints into a table of
routes as each router does. The engines are external: what they do with a second handler
for a route (`Handle`) is what tells them apart.

`GraphQLExtractor`: a variable that is sent is its source, the client's body, the
configuration or a parameter. `GraphQLMiddleware` also has the inputs on which the
code panics.

Their behaviours build an input step by step (a record, a list entry, a field) and
every reachable state is an input on which the invariants are evaluated.
`MCAlgorithms` builds an input of one of them at a time; the trees serve both
`EntityFormatter` and `SequentialSources`. All inputs are
bounded, so the run ends by design (`CHECK_DEADLOCK FALSE`).

## 3. Runs

| Run | Question | Bounds |
|---|---|---|
| `parallel` | Is the merged answer the fork-join merge of what the backends said, with nobody blocked, nothing left behind, the client always answered? | 3 backends, each may be filtered; 1 key, 2 values, nil bodies |
| `sequential` | When does the chain stop, when is the result complete, who wins a key, what do parameters carry? | 3 backends, 1 key, 3 values with the empty one, 3 configurations of references |
| `sequential_params` | Does `Resp<n>_<key>` always carry backend n's value? No: see Findings | as above |
| `backend_calls` | Is a complete answer of concurrent calls ever lost, does a goroutine leak, what is returned after the parent's end? And: are updates of the hosts invisible to requests, are failures harmless, is the round robin even, is every request served and every change adopted? | 3 calls. 2 requests; the empty list, one of 1 and one of 3 hosts, the last shuffled |
| `sharing` | Whose maps does each call have, who writes one that another reads, whose body is sent? And: is a register one atomic map while plugins are loaded? | 2 calls; every method, filter and GraphQL option. 2 namespaces, 2 names, 2 plugins, 2 writers, 1 reader |
| `clone_query` | Are deep clones independent? No: see Findings | 2 calls |
| `graphql_get` | Does a GraphQL operation always leave? No: see Findings | 2 calls |
| `exchange` | Do contexts and bodies end, is the body whole, is the client told the truth, and answered? | 1 or 2 concurrent calls; both handlers, all status handlers and answers |
| `noop_body` | Is a no-op body only cut short by the client or the timeout? No: see Findings | as above |
| `algorithms` | Do the pure algorithms meet their reference definitions? | up to 4 records, scale 3; 2 keys, data (`MCData`) and paths of depth 3, up to 3 formatting options; configurations of up to 6 settings and 2 endpoints; endpoints with up to 4 answers, plugins and settings; 2 routes; 2 GraphQL variables |
| `lifecycle` | Is every accepted request that the server knows of served before it returns, do server, requests and shadows end? What cuts the call of a shadow? Are agents treated as configured, do they end together? | server: 2 requests, with `use_h2c` or with a shadow whose timers are due at once. Shadows: 1 request, one shadow alone, or one or two beside a regular backend, called once or (one of the two) concurrently; endpoint timeout 2, so 1 for a merge or concurrent calls; `shadow_timeout` 3 or none. Agents: 2, with 2 factories, 0 or 1 retries (0 is the default, standing for `MaxInt` = 2), linear pauses with and without jitter |
| `h2c_shutdown` | Is every request served when `Shutdown` returns without a deadline? No: see Findings | 1 request, 1 backend |

Why these bounds are enough to meet the interesting cases: three backends give two
answers before and after a third, a filtered one between two asked ones, an error
before the first response, between two and after the last; a third reader of a
parameter after one write into the shared map; three values let three backends
return different ones. One key is enough for the parallel merge, where keys do not
interact; two values tell the winner. With three concurrent calls a partial
response, an error and a done context can meet in any order. Four records with a
scale of three exceed the scale both by number and by weight, so both branches of
`normalize` are reached, and a weight is rounded to zero. Two requests race on the
counter and on a refresh; the counter's wrap-around at 2^64 is not reached. Two
calls are enough for a race, which is a conflict of two accesses, and a third adds
no new pair of stages; the theorem `MapsNotShared` covers any number. Two concurrent
calls are enough for one that answers while another's context ends. Three formatting
options allow two list entries above or below each other and a renaming of what they
keep, or two renamings that meet. Six settings reach an endpoint with two backends
and a placeholder in each, or with three placeholders in one. Four steps give an
endpoint two answers, a plugin and static data, or one answer and a chain of plugins.
Two requests let one be served while the other is still to be accepted, has left its
shadow behind or came in by h2c. The server does not look at time, so beside it the
shadow's timers are always due, which allows every order of their firing; where `subject`
is the shadow, time counts, for one request that was accepted before the listener failed
(requests have nothing in common there; the theorem is for any number). Three backends are two
shadows that are merged beside a regular one, and give the longest timeout to the first or
the last of them; with 2, 1 and 3 as timeouts each of the three timers can be the one
that cuts a call. Two
agents let one give up before or after the other is started, two factories let the
second one accept, and one retry is enough for a pause between two attempts. Two names
let a registration be lost beside one that is not; two plugins let a loader go on after
one that panicked; a writer beside the loader is who may hold a register that was
replaced. Two endpoints meet at one route, or at a health route. Paths of three names
give a dotted source two levels at which it can break off.

### Fairness

Actions of goroutines are weakly fair: the Go scheduler runs what can run. The
timer of `context.WithTimeout` fires, so `CtxDone("deadline")` and `Timeout` are
weakly fair. A backend is *not* assumed to answer: its return is only fair once its
context is done, which is what `http.Client` with a request context provides.
`Answered` is therefore a claim about silent backends too. In `ServiceDiscovery`
taking the read lock is strongly fair because `sync.RWMutex` admits the readers
that waited when a writer unlocks; a lookup ends, by the resolver's own timeout. In
`EndpointExchange` a call whose context is live may stay silent for ever; only the
endpoint's timer is fair, so `Answered` rests on the timeout alone.
In `ServerLifecycle` the listener need not fail and the service's context need not end,
but the listener ends once `Shutdown` was called, which is what `http.Server` documents;
the timers of the shutdown and of the endpoint fire. What a shadow's goroutine, its timers
and contexts do is one fair choice (`ShadowGoes`): time passes for it as long as nothing
else can happen, and a shadow backend may be silent until the context of its call ends.
In `AsyncAgents` `Start` and `Wait` are ordinary code, and an agent returns once its
context has ended; it need not ever connect, fail or give up.
Nothing assumes that clients leave, or that they stay.

## 4. Findings

`sequential_params`: `Resp0_x` can carry another backend's value. `combineData`
stores the second response's keys into the map of the first (`merging.go:605`),
and `parts[0]` still points to that map when a third backend's replacement is read
from it (`merging.go:341`, `374`). Shortest case: backend 0 returns no `tupu`,
backend 1 returns `tupu: foo`, and the third URL uses both `{{.Resp0_tupu}}` and
`{{.Resp1_tupu}}`: both become `foo`. That is exactly the scenario of
`testNewMergeDataMiddleware_sequential_unavailableParams` at `merging_test.go:395-423`, whose
assertion at line 417 means to reject it but misspells the key as `Respo_tupu`.
What does hold is checked in `sequential`: a parameter never comes from a backend
*before* the one it names (`ParamsHaveASource`), and it does not change once set
(`ParamsStable`) thanks to the registry.

`clone_query`: `CloneRequest` says that the two requests "do not share a pointer"
(`request.go:70-71`); it leaves `Query` as `Clone` set it, one map for both. The
GraphQL middleware of one call adds to it (`graphql.go:103`) and the balancer of
another encodes it into its URL (`balancing.go:102-107`). `RaceFree` therefore
excludes GraphQL by GET for the Query, shallow clones with GraphQL for the headers,
and for `Params` GraphQL queries on the shallow clones of a sequential merge, which
read the parameters (`graphql.go:58-63`) that the merge goes on to write
(`merging.go:357`): without these conditions it does not hold.

`graphql_get`: in `newStack` the GraphQL middleware is below the load balancer
(`factory.go:93-95`), which has encoded the URL before the operation is added to the
Query: a GET operation leaves without its query, although "the resulting request
will have a proper graphql body with the query and the variables" (`graphql.go:24`).

`noop_body`: with concurrent calls, `processConcurrentCall` cancels the context of
the call it just returned (`concurrent.go:92`), and that context is what the no-op
body's closer waits for: the parser that "just copies the http response body"
(`http_response.go:61`) may deliver a closed one. With one call (`WholeBody`) only
the client or the timeout can cut it short.

`h2c_shutdown`: "If 0, it will wait indefinitely until all the requests are served"
(`config.go:192-194`). With `use_h2c` the handler is `h2c.NewHandler` (`server.go:169-171`),
which hijacks a connection and serves HTTP/2 on it by itself. `http.Server.Shutdown`
(`server.go:154`, `158`) documents that it does not wait for hijacked connections, so
`RunServer` returns nil, and the process may exit, while such a request is being served,
or before it arrives on a connection that stays open. `GracefulShutdown` is what holds.

## 5. What is proved

All proofs are for every number of backends, calls, requests, agents, keys and values, from
the constants' assumptions only: `NilAssumption` (the nil values are distinct from
ordinary ones), `NAssumption` (at least one backend; at least two calls in a fan),
`SequentialAssumption` (an endpoint has lists of references, to any place and key),
`ListsAssumption` (lists are lists of hosts), `DurationAssumption` (timeouts are
natural numbers up to `MaxDuration`), `RegistersAssumption` (the loader is a writer,
plugins make lists of registrations), `NilIsNothing` (the nil of an exchange is no
answer, response or error), `AgentsAssumption` (a second and the largest number of
attempts are positive, what is configured is below it), `NamesAssumption` (placeholders
with different names sort to different places), `NilsAssumption` (the nil response,
error and map of an endpoint are nothing else), `AnswerAssumption` (targets and
priorities of SRV records are numbers, weights numbers of 16 bits), `ScaleAssumption`
(the scale of their turns is positive, 100 in the code), `DepthAssumption` and
`FormatterAssumption` (a response's data are an object, nested to some depth, and entries
and targets are paths that are not empty, nor longer than that) and
`RoutePathAssumption` (no endpoint has the path of the routers' own health, debug and
echo routes, which Init refuses, unless `config.SetInvalidPattern` changed what it refuses,
nor an empty one, as `CleanPath` puts a slash in front).

* **Parallel merge** (`ParallelMergeProofs`): `TypeCorrect`, `SendsNeverBlock`,
  `LeavesNothingBehind`, `NilNilMeansAllSkipped`, `RefinesForkJoin` (the second and
  the fourth are proved only, no run checks them). The inductive
  invariant `IInv` has six parts. The properties alone are not inductive: that
  nobody blocks needs the count of what is queued, collected and still to come
  (`CountInv`: queued + collected = goroutines that are done), and a bound on those
  from `ForkInv` (proxyCount = forked + still to decide); that each backend is
  heard once needs that a goroutine's message is in one place only (`OnceInv`);
  that the outcome is a merge needs that the accumulator is, after every receive
  (`AccInv`), whose cases are the lemmas about `Merge` and `Result`
  (`AccumulatesNothing`, `AccumulatesFailure`, `AccumulatesPart`, `ResultMerges`).
  The refinement then maps Fork to Ask, StartCollecting to AllAsked, both
  Collect actions to Hear, Return to Deliver, and all others to stuttering.
* **Concurrent calls** (`ConcurrentCallsProofs`): `TypeCorrect`, `SendsNeverBlock`,
  `CompleteWins`, `NilNilNeedsParentDone`. Its invariant (`CallsInv`) balances what was sent
  against what is queued and what was received (`CallerInv`), and says that a
  complete response that was sent is still in the channel until the caller returns
  one (`QueuedInv`).
* **Sequential merge** (`SequentialMergeProofs`): `TypeCorrect`,
  `CompleteMeansAllAnswered`, `LaterBackendsWin`, `ParamsFromNamedOrLater`,
  `ParamsDoNotChange`, `ParamsAreDelivered`. The invariant has a part for each thing the chain carries:
  `ChanInv` (at most one message is in either channel, of the backend just called),
  `ChainInv` (who was skipped, heard or not yet reached), `AccInv` (the accumulator
  holds the merge, in order, of the answers so far: `MergedFirst`, `MergedLater` and
  `MergedFailure` are its cases), `OwnerInv` and `ParamsInv` (the map that is
  written into belongs to a backend that answered, hence what a read of it sees comes
  from that backend or a later one: `LiveDataSource`, `SourceStays`), `OutcomeInv`.
  Without `OwnerInv` nothing bounds what a parameter can carry. `ParamsAreDelivered` adds
  `DeliverInv`: while the loop over a backend's replacements runs, those it has passed
  are delivered. It needs that what an earlier backend returned is still in the map that
  `parts` names, whoever has written into it since (`StillThere`).
* **Service discovery** (`ServiceDiscoveryProofs`): `TypeCorrect`, `WholeLists`,
  `LastGoodServed`, `EvenlyShared`. The invariant says that the cache is torn exactly
  while the writer holds the mutex, that then nobody reads, and that whoever copies is
  registered as a reader (`MutexInv`). For `EvenShares` it is added (`SharesInv`) that
  while there was one list only, the picks are those of a counter that started anywhere
  and went round: each position has been served m times, and those the counter has
  passed since it last began once more (`Turns`). The lemmas below it are about
  remainders (`Division`, `OneRemainder`, `NextRemainder`) and about the size of the set
  of picks that one more adds to.
* **Request sharing** (`SharedProofs`): `TypeCorrect`, `MapsNotShared`
  (`RaceFree` for any number of calls) and `CallsCarryTheirOwn` (`RequestsAreOwn`). The
  invariant follows the fork loop
  (`ForkedInOrder`: call c is forked after c - 1; `Unforked`: until then its headers
  are the original's) and says that after a deep clone a call's headers are a map it
  made itself, or the original for the one call that takes it (`HeadersHaveOwners`).
  The forking goroutine reads the original's headers only while that last call is
  not forked, which is why the order of the fork loop is in the invariant. For
  `Params`, `BuiltAbove` ties the shallow clone above to concurrent calls: the merge
  writes the original, which then nobody reads but GraphQL queries. For what is sent,
  `ContentInv` says that until the last call takes the original, nobody has
  changed it (`OriginalKept`), and what each call's body and headers hold at each
  stage (`Content`): a step of one call disturbs no other, because
  what it writes is its own.
* **Registers** (`SharedProofs`): `RegistersType`, `RegistersInv`, `Linearizable`
  (`ImplementsRegister`), `LoadedAreRegistered` (`LoadIsAccounted`). The invariant says
  where the reference of each goroutine may point: to a register that is in the outer
  map, or to a new one that only the loader holds (`RefsOK`). Then every store happens
  to a register that lookups see or will see, the store of the second critical section
  is `Put`, and all else stutters. `LoadInv` counts the files and says that what
  a loaded plugin registered stays found, whoever overwrites it.
* **Endpoint exchange** (`EndpointExchangeProofs`): `TypeCorrect`, `NothingStaysOpen`
  (`OpenBodiesAreAccounted`), `BodiesArriveWhole` (`WholeBody`), `ClientsAreToldTheTruth`
  (`SuccessNeedsAnswer`), for any number of concurrent calls. None of them is inductive:
  what the client is told depends on what the handler got, that on what a call returned,
  and that on what its backend answered. `From` is this chain: a response in somebody's
  hands was made of the answer of a call that is over, and while that is a no-op body, it
  is open or its context done. `CallInv` says so of what a call returned and how the
  place of the HTTP proxy goes with body and closer, `HandlerInv` of what the handler
  got, and that the handler ends the request last: hence in `Copy` a closed body means
  that timeout or client ended the request, since the only call has no other context.
  With concurrent calls it has, and there `NoOpBodyArrives` fails (section 4).
  `HandlerKeeps` and `CallsKeep` separate the two sides: what a call does leaves `From`
  and contexts that are done as they are, what the handler does only ends contexts.
* **Server** (`ServiceProofs`): `TypeCorrect`, `ServesBeforeReturning`:
  `GracefulShutdown` for any number of requests. The invariant ties the place of
  `RunServer` to what the requests can be: nobody runs before the listener serves, the
  context given to `Shutdown` can only end if a duration is configured, there is no
  error before the return, and a request has come in by h2c only if `use_h2c` is set
  (`ServerInv`); only `Accept` and `AcceptH2C` make a request run (`RunsOnlyIfAccepted`),
  the first needs the `select` to be waiting, and the second is the exception that the
  property names.
* **Shadows** (`ServiceProofs`): `ShadowsAreDetached`: `ShadowIsDetached` for any
  backends, timeouts and number of requests, by themselves or let in by the server
  (`ServerLetsIn`). The property speaks of a step, and looks up a tree: the invariant
  (`ContextInv`) says of every context that is in use and has ended that its timer was due
  or its parent has ended (`EndedOK`), that none has ended before it was made, and that
  an open call has all contexts above it in use. It has a lemma for each kind of step
  (`TimeStep` to `HandlerStep`): when a timer was due it stays so (`TimeStep`), and what the
  handler does to its own context is to none of the tree (`HandlerStep`). Then
  `EndHasReason` climbs from a call that is cut (`CutWhenDone`) to the timer that fired.
  That the longest timeout of the shadows exists for any set of backends (`MaxTimeout`)
  follows from `MaxDuration`, by well-foundedness of the natural numbers.
* **Async agents** (`ServiceProofs`): `EachAgentAsConfigured`
  (`AgentsAsConfigured` for any number of agents and factories). The limit on attempts
  is stored in one loop of `Start` and used by goroutines that earlier rounds of it
  started, so the invariant says where `Start` stands (`StarterOK`: an agent before
  that place has been offered to its factories in order, one after it is untouched),
  which limit a started agent got (`LimitOK`), that it used no more than that
  (`RetriesOK`) and that the agent whose error the group keeps has ended
  (`StartedOK`).
* **Configuration** (`ServiceProofs`): `ServableIsAccepted` (`AcceptsExactlyServable`),
  `ValuesAreHandedDown` (`BackendsFollow`), `PlaceholdersFilled`
  (`PlaceholdersAreFilled`), for configurations with any number of endpoints, backends,
  agents, hosts and placeholders. The one invariant is the type of a written
  configuration (`ServiceType`); what is proved is the algorithm. The lemmas follow the
  passes of the code: parsing (`ConvertedFields`), the service's own values
  (`GlobalFields`), an endpoint (`DefaultEndpoint`), a backend (`DefaultBackend`,
  `MappedBackend`), and `ParsedEndpoint` puts them together: what an endpoint
  of the result has, by what was written. The hard part is `uniqueOutput`, which counts
  while it walks the sorted placeholders and leaves the last one out: `SortedList` and
  `CanBeSorted` (every list can be sorted, by numbers of elements before each), `MetAll`
  (after each element, the names met are the distinct ones so far and the count is of
  those but the last) and `UniqueNames`. `ErrorsOf` reduces a chain of checks, first
  error first, to the conjunction of all.
* **GraphQL client** (`ServiceProofs`): `VariablesArrive` (`VariablesReachBackend`), for
  every set of variables. The type of what is configured is invariant (`OptionsOK`); that
  the extractor looks parameters up by the key under which the router stored them is
  `TitlesAgree`.
* **Response formatting** (`SequentialMergeProofs`): `FiltersExact` (`FiltersAreExact`),
  `FormatExact` (`FormatIsExact`) and `Sources` (`SourcesAreFollowed`), for data and paths
  of any depth and lists of any length. The one invariant is the type of a configuration
  and its data (`FormatterInv`); what is proved is the algorithms. Trees are a
  recursive function of their depth, paths sequences, so induction over data becomes
  induction over a number, by `ByPrefixes`: on the depth for what a filter keeps
  (`PruneKeeps`, `DeleteKeeps`), on the length for what `Branch` changes in a tree
  (`BranchIs`), on the entries for what the tree of a list holds
  (`AllowTree`: the paths of the entries that hold; `DenyTree`: those that no other
  is a beginning of). That the recursive functions are defined has to be shown first
  (`PruneDef`, `DeleteDef`). For the mapping, `RenameAll` says what a name holds after the
  first k renamings of an order, which under the property's condition only depends on
  which names are among them, and `OrdersAre` that every order ends with all of them. For
  sources, `FoundIs` and `PassableIs` say where the loop stands once it broke off.
* **SRV records** (`ServiceDiscoveryProofs`): `RotationIsHarmless`
  (`OrderDoesNotMatter`) and `SharesExact` (`SharesAreWeights`), for answers of any length. The comparison of records is total
  up to equal records (`TotalOrder`), so sorting an answer and its reverse gives
  lists that have as many of each record before any place (`Positions`, `Sorts`), and two sorted
  lists of the same records are equal (`OrdersAgree`). For the shares, what the
  properties need of each loop is an invariant of its fold: the sum is at least each
  weight and at most as many times the greatest (`SumIs`), the result of `gcd` has exactly the
  divisors that all numbers have (`GcdIs`, from `EuclidIs` for two of them, by strong
  induction on the second; `EuclidDef` says that the recursive function is defined), the
  list has the hosts with a turn (`RepeatedIs`). Then rounding down loses nobody who could
  be the last one, since otherwise the weights would add up to less than their sum
  (`NormalizeIs`), the division by the common divisor leaves no remainder
  (`CompactDivides`), and a divisor common to all turns would make a greater one of
  the weights (`CompactIs`). `PreferredAre` says that the cut after sorting leaves the
  records of the lowest priority.
* **Routers** (`ServiceDiscoveryProofs`): `RoutesAreServed` (`RoutesAreExact`), for any
  paths, any number of endpoints and all configurations of the five engines. `Handles`
  says what becomes of a table when a route gets a handler, `FixedTable` what is routed
  before the endpoints are. Then `Registering` holds after each endpoint: every route is
  answered as those that asked for it so far and the engine's preference say (`Answers`),
  the start has failed if some route was taken or asked for twice (`Crowded`), and gin's
  catalog lists exactly the methods asked for, which is what the OPTIONS routes are made of
  (`OptionsRegistered`). `CrowdCount` turns that into the counts of the property.
* **Endpoint's middlewares** (`ParallelMergeProofs`): `RepliesAreHonest` (`HonestReply`),
  for any number of backends and plugins. `Knows` says what the accumulator knows of the
  answers heard (`KnowsMore` for one more, `KnowsAll` for a whole merge), `Honest` what an
  output may be, given these answers: complete only without an error and if every backend that was
  asked answered completely, neither response nor error only if none was asked. Every
  middleware keeps `Honest` (`FlatmapIsHonest`, `ModifyAll`, `PluginsAreHonest`,
  `StaticIsHonest`), and `RepliesTell` reads the router's reply from it.
* **Accumulator and folds** (`MergeAccumulatorProofs`): the types of `Overlay`,
  `combineData`, `Merge` and `Result`, and what is needed to reason about `FoldLeft`,
  all cited by the above. `ByPrefixes` is induction over 0..n for a *set* of numbers,
  `FoldExists` says that the recursive function a fold stands for exists, and `Greatest`
  and `Prefix` that its value at 1..k is that at 1..k-1 with one more element.

The type invariants of these modules are proved rather than run: the runs check the
properties that say more.

`SendsNeverBlock` of both modules and `NilNilMeansAllSkipped` state the buffer sizes'
purpose: a send on either channel never waits.

Only model-checked:

* every liveness property (`Answered`, `AllCallsEnd`, `AllServed`, `Refreshed`,
  `EverythingEnds`, `AgentsEnd`): liveness under fairness is beyond the prover.

Every invariant and every action property that a passing run checks is stated by a
theorem, as are the refinements `ImplementsForkJoin` and `ImplementsRegister`.

## 6. Plan

Order of work: what can give a client a wrong answer, or none, comes first.

1. Done: the modules and proofs above.
2. What request modifiers write into a request, as stages of `RequestSharing`, and
   modifiers of a single backend.
3. Composition of `EndpointExchange`'s handler with `ForkJoin` as the proxy's
   contract, for endpoints of several backends.

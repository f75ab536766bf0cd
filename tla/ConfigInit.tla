---------------------------- MODULE ConfigInit ----------------------------
(***************************************************************************)
(* Parse (config/parser.go) and ServiceConfig.Init (config/config.go):     *)
(* what is written is converted, checked, and the service's values are     *)
(* handed down to endpoints, backends and async agents.                    *)
(*                                                                         *)
(* A host is "clean", "bare" (without scheme, or with a final slash) or    *)
(* "bad".  Of the name in a placeholder, {userId}, stays what conversions  *)
(* look at: its letters (word), whether the first one is upper case,       *)
(* whether a later one is (inner), and whether it names a response of a    *)
(* sequential merge or a claim of a token (sequentialParamsPattern).       *)
(* Unset times are 0, unset strings ""; a duration is written as a string. *)
(***************************************************************************)
EXTENDS Integers, Sequences, FiniteSets, SequencesExt

CONSTANTS Names,        \* of placeholders
          Place,        \* of a name in the order of sort.Strings
          MaxSettings,  \* bound on the number of fields that are set
          MaxEndpoints  \* and on the number of endpoints, and of agents

ASSUME NamesAssumption ==
  /\ Names \subseteq [word : {p.word : p \in Names}, upper : BOOLEAN, inner : BOOLEAN,
                     sequential : BOOLEAN]
  /\ Place \in Injection(Names, Int)

DefaultTimeout == 2

None == "none"

\* The error of the first check that fails.
FirstError(errors) ==
  LET failed == {i \in DOMAIN errors : errors[i] # None}
  IN IF failed = {} THEN None ELSE errors[Min(failed)]

Or(value, unset, default) == IF value = unset THEN default ELSE value

SafeCleanHosts(hosts) == [i \in DOMAIN hosts |-> "clean"]
HostsError(hosts) == IF "bad" \in Range(hosts) THEN "host" ELSE None

---------------------------------------------------------------------------
(* Placeholders *)

\* sort.Strings
Sorted(output) ==
  LET order == CHOOSE p \in Bijection(DOMAIN output, DOMAIN output) :
                 \A i, j \in DOMAIN output : i < j => Place[output[p[i]]] <= Place[output[p[j]]]
  IN [i \in DOMAIN output |-> output[order[i]]]

\* Mutated form of uniqueOutput: keeps a name when it meets the next one.
uniqueOutputLate(output) ==
  LET sorted == Sorted(output)
      late == {i \in 1..(Len(output) - 1) : sorted[i] # sorted[i + 1]}
  IN [names |-> [n \in 1..Cardinality(late) |-> sorted[SetToSortSeq(late, <)[n]]],
      size |-> Cardinality({i \in late : ~sorted[i].sequential})]

\* The next name, in the order of sort.Strings: one of equal names is kept, and
\* the one kept before it is counted if no earlier response provides it.
Meet(u, o) ==
  IF Last(u.names) = o THEN u
  ELSE [names |-> Append(u.names, o),
        size |-> u.size + (IF Last(u.names).sequential THEN 0 ELSE 1)]

\* The distinct names, and a count that leaves out the last one.
uniqueOutput(output) ==
  LET sorted == Sorted(output)
  IN IF output = << >> THEN [names |-> << >>, size |-> 0]
     ELSE FoldLeft(Meet, [names |-> <<Head(sorted)>>, size |-> 0], Tail(sorted))

\* cases.Title of a whole name also lowers the letters after the first one.
Title(p) == [p EXCEPT !.upper = TRUE, !.inner = FALSE]

\* title.String(output[:1]) + output[1:]
TitleFirst(p) == [p EXCEPT !.upper = TRUE]

\* Mutated form of ParamKeys: all routers title whole names.
ParamKeysTitled(router, params) == {Title(p) : p \in params}

\* The names of request.Params, by router.
ParamKeys(router, params) ==
  IF router \in {"gin", "chi"} THEN {TitleFirst(p) : p \in params} ELSE {Title(p) : p \in params}

\* Placeholders of a backend's URL that GeneratePath leaves as they are.
Unfilled(b, params) == {k \in Range(b.URLKeys) : k \notin params}

MappingError(b, inputs) ==
  LET u == uniqueOutput(b.URLPattern) IN
  IF u.size > Cardinality(inputs) THEN "wrong number of params"
  ELSE IF \E o \in Range(u.names) : ~o.sequential /\ o \notin inputs
         THEN "undefined param"
         ELSE None

initBackendURLMappings(b, inputs) ==
  LET names == uniqueOutput(b.URLPattern).names
  IN [b EXCEPT !.URLKeys = [i \in DOMAIN names |-> TitleFirst(names[i])]]

---------------------------------------------------------------------------
(* Conversion.  Every other field is taken over as it is.                   *)

\* What cannot be parsed is 0; what is below 0 can be.
parseDuration(v) == CASE v = "1s" -> 1 [] v = "3s" -> 3 [] v = "-1s" -> -1 [] OTHER -> 0

normalizeBackend(b) == [b EXCEPT !.SDScheme = Or(@, "", "http")]

normalizeEndpoint(e) ==
  [e EXCEPT !.Timeout = parseDuration(@), !.Backend = [j \in DOMAIN @ |-> normalizeBackend(@[j])]]

normalizeAgent(a) ==
  [a EXCEPT !.Timeout = parseDuration(@), !.Backend = [j \in DOMAIN @ |-> normalizeBackend(@[j])]]

normalizeService(s) ==
  [s EXCEPT !.Timeout = parseDuration(@),
            !.Endpoints = [i \in DOMAIN @ |-> normalizeEndpoint(@[i])],
            !.AsyncAgents = [i \in DOMAIN @ |-> normalizeAgent(@[i])]]

---------------------------------------------------------------------------
(* Defaults.  s is the service after initGlobalParams. *)

initGlobalParams(s) ==
  [s EXCEPT !.Timeout = Or(@, 0, DefaultTimeout), !.Host = SafeCleanHosts(@)]

BackendHosts(s, b) ==
  IF b.Host = << >> THEN s.Host
  ELSE IF b.HostSanitizationDisabled THEN b.Host
  ELSE SafeCleanHosts(b.Host)

BackendHostsError(b) == IF b.HostSanitizationDisabled THEN None ELSE HostsError(b.Host)

initAsyncBackend(s, d, b) ==
  [b EXCEPT !.Host = BackendHosts(s, b), !.Method = Or(@, "", "GET"), !.Timeout = d.Timeout]

initAsyncAgent(s, a) ==
  LET d == [a EXCEPT !.Timeout = Or(@, 0, s.Timeout)] IN
  [d EXCEPT !.Backend = [j \in DOMAIN @ |-> initAsyncBackend(s, d, @[j])]]

initEndpointDefaults(s, e) ==
  [e EXCEPT !.Method = Or(@, "", "GET"),
            !.Timeout = Or(@, 0, s.Timeout),
            !.ConcurrentCalls = Or(@, 0, 1),
            !.OutputEncoding = Or(@, "", Or(s.OutputEncoding, "", "json"))]

initBackendDefaults(s, e, b) ==
  [b EXCEPT !.Host = BackendHosts(s, b),
            !.Method = Or(@, "", e.Method),
            !.Encoding = IF e.OutputEncoding = "no-op" THEN "no-op" ELSE @,
            !.Timeout = e.Timeout,
            !.ConcurrentCalls = e.ConcurrentCalls]

\* Mutated form of initEndpoint: backends come before the endpoint's defaults.
initEndpointLate(s, e) ==
  initEndpointDefaults(s, [e EXCEPT !.Backend = [j \in DOMAIN @ |->
    initBackendURLMappings(initBackendDefaults(s, e, e.Backend[j]), e.params)]])

initEndpoint(s, e) ==
  LET d == initEndpointDefaults(s, e) IN
  [d EXCEPT !.Backend = [j \in DOMAIN @ |->
    initBackendURLMappings(initBackendDefaults(s, d, d.Backend[j]), d.params)]]

---------------------------------------------------------------------------
(* Init *)

validate(e) == IF e.forbidden THEN "path" ELSE IF e.Backend = << >> THEN "no backends" ELSE None

EndpointError(s, e) ==
  LET noop == initEndpointDefaults(s, e).OutputEncoding = "no-op" IN
  FirstError(<<validate(e), IF noop /\ Len(e.Backend) > 1 THEN "no-op" ELSE None>>
             \o [j \in DOMAIN e.Backend |->
                   FirstError(<<BackendHostsError(e.Backend[j]),
                                MappingError(e.Backend[j], e.params)>>)])

AgentError(a) == FirstError([j \in DOMAIN a.Backend |-> BackendHostsError(a.Backend[j])])

\* What Init returns.
InitError(s) ==
  FirstError(<<IF s.Version = "supported" THEN None ELSE "version",
               IF s.Address = "bad" THEN "address" ELSE None,
               HostsError(s.Host)>>
             \o [i \in DOMAIN s.AsyncAgents |-> AgentError(s.AsyncAgents[i])]
             \o [i \in DOMAIN s.Endpoints |-> EndpointError(s, s.Endpoints[i])])

\* What Init leaves, if it returns no error.
InitService(s) ==
  LET g == initGlobalParams(s) IN
  [g EXCEPT !.AsyncAgents = [i \in DOMAIN @ |-> initAsyncAgent(g, @[i])],
            !.Endpoints = [i \in DOMAIN @ |-> initEndpoint(g, @[i])]]

\* What Parse returns for a file that is JSON.
ParseError(s) == InitError(normalizeService(s))
Parse(s) == InitService(normalizeService(s))

---------------------------------------------------------------------------
(* Checked over bounded configurations: a state is one, and each step sets *)
(* a field of it.                                                          *)

VARIABLES config, settings

configVars == <<config, settings>>

AnyBackend == [Host |-> << >>, HostSanitizationDisabled |-> FALSE, Method |-> "",
               Encoding |-> "", URLPattern |-> << >>, URLKeys |-> << >>, SDScheme |-> "",
               Timeout |-> 0, ConcurrentCalls |-> 0]

AnyEndpoint == [forbidden |-> FALSE, params |-> {}, Method |-> "", Timeout |-> "",
                ConcurrentCalls |-> 0, OutputEncoding |-> "", Backend |-> << >>]

AnyAgent == [Timeout |-> "", Backend |-> <<AnyBackend>>]

NoService ==
  /\ settings = 0
  /\ config = [Version |-> "supported", Address |-> "", Host |-> << >>, Timeout |-> "",
                OutputEncoding |-> "", AsyncAgents |-> << >>, Endpoints |-> << >>]

Set(s) == settings < MaxSettings /\ s # config /\ settings' = settings + 1 /\ config' = s

SetService ==
  \/ Set([config EXCEPT !.Version = "other"])
  \/ Set([config EXCEPT !.Address = "bad"])
  \/ \E h \in {"bare", "bad"} : Set([config EXCEPT !.Host = <<h>>])
  \/ \E t \in {"3s", "-1s"} : Set([config EXCEPT !.Timeout = t])
  \/ Set([config EXCEPT !.OutputEncoding = "no-op"])

AddEndpoint ==
  \E n \in 0..1 :
    Len(config.Endpoints) < MaxEndpoints /\ Set([config EXCEPT !.Endpoints =
          Append(@, [AnyEndpoint EXCEPT !.Backend = [j \in 1..n |-> AnyBackend]])])

SetEndpoint ==
  \E i \in DOMAIN config.Endpoints :
    \/ Set([config EXCEPT !.Endpoints[i].forbidden = TRUE])
    \/ \E p \in Names : ~p.sequential /\ Set([config EXCEPT !.Endpoints[i].params = @ \cup {p}])
    \/ Set([config EXCEPT !.Endpoints[i].Method = "POST"])
    \/ \E t \in {"1s", "soon"} : Set([config EXCEPT !.Endpoints[i].Timeout = t])
    \/ Set([config EXCEPT !.Endpoints[i].ConcurrentCalls = 2])
    \/ \E o \in {"json", "no-op"} : Set([config EXCEPT !.Endpoints[i].OutputEncoding = o])
    \/ Set([config EXCEPT !.Endpoints[i].Backend = Append(@, AnyBackend)])

SetBackend ==
  \E i \in DOMAIN config.Endpoints : \E j \in DOMAIN config.Endpoints[i].Backend :
    \/ \E h \in {"bare", "bad"} : Set([config EXCEPT !.Endpoints[i].Backend[j].Host = <<h>>])
    \/ Set([config EXCEPT !.Endpoints[i].Backend[j].HostSanitizationDisabled = TRUE])
    \/ Set([config EXCEPT !.Endpoints[i].Backend[j].Method = "POST"])
    \/ \E p \in Names : Set([config EXCEPT !.Endpoints[i].Backend[j].URLPattern = Append(@, p)])

SetAgent ==
  \/ Len(config.AsyncAgents) < MaxEndpoints /\ Set([config EXCEPT !.AsyncAgents = Append(@, AnyAgent)])
  \/ \E i \in DOMAIN config.AsyncAgents :
       \/ Set([config EXCEPT !.AsyncAgents[i].Timeout = "1s"])
       \/ \E h \in {"bare", "bad"} : Set([config EXCEPT !.AsyncAgents[i].Backend[1].Host = <<h>>])

ConfigSpec == NoService
              /\ [][SetService \/ AddEndpoint \/ SetEndpoint \/ SetBackend \/ SetAgent]_configVars

GoodHosts(b) == b.HostSanitizationDisabled \/ "bad" \notin Range(b.Host)

\* What an endpoint needs: a backend, one only if bytes are passed on as they
\* are, and a source for each placeholder of a backend.
Served(e) ==
  LET encoding == IF e.OutputEncoding = "" THEN config.OutputEncoding ELSE e.OutputEncoding
  IN /\ ~e.forbidden
     /\ Len(e.Backend) >= 1 /\ (encoding = "no-op" => Len(e.Backend) = 1)
     /\ \A j \in DOMAIN e.Backend :
          /\ GoodHosts(e.Backend[j])
          /\ \A p \in Range(e.Backend[j].URLPattern) : p.sequential \/ p \in e.params

\* Init (config.go:409-428) accepts a configuration exactly if all of it can be
\* served: the count of distinct parameters (config.go:680-698) rejects none
\* that the look at each of them accepts, no early return skips a check.
AcceptsExactlyServable ==
  ParseError(config) = None <=>
    /\ config.Version = "supported" /\ config.Address # "bad"
    /\ "bad" \notin Range(config.Host)
    /\ \A i \in DOMAIN config.AsyncAgents :
         \A j \in DOMAIN config.AsyncAgents[i].Backend : GoodHosts(config.AsyncAgents[i].Backend[j])
    /\ \A i \in DOMAIN config.Endpoints : Served(config.Endpoints[i])

\* Whatever was set, mistyped (parser.go:416-422) and left open, an accepted
\* configuration leaves no deadline of 0, which would end every request at once
\* (one below 0 does so too, but only if it was written), no endpoint whose
\* backends work with another deadline, another number of calls or another
\* encoding, no host in need of cleaning, and no backend without hosts if the
\* service has some, or without a scheme for them (config.go:446-628).
BackendsFollow ==
  LET s == Parse(config)
      HasHosts(b) == /\ config.Host # << >> => b.Host # << >>
                     /\ b.HostSanitizationDisabled \/ Range(b.Host) \subseteq {"clean"}
      Follows(t, written) ==
        IF parseDuration(written) # 0 THEN t = parseDuration(written)
        ELSE t = Or(parseDuration(config.Timeout), 0, DefaultTimeout)
  IN ParseError(config) = None =>
       /\ \A i \in DOMAIN s.Endpoints : LET e == s.Endpoints[i] IN
            /\ Follows(e.Timeout, config.Endpoints[i].Timeout) /\ e.ConcurrentCalls >= 1
            /\ \A j \in DOMAIN e.Backend : LET b == e.Backend[j] IN
                 /\ b.Timeout = e.Timeout /\ b.ConcurrentCalls = e.ConcurrentCalls
                 /\ b.Method = Or(config.Endpoints[i].Backend[j].Method, "", e.Method)
                 /\ b.Method # "" /\ b.SDScheme # ""
                 /\ e.OutputEncoding = "no-op" => b.Encoding = "no-op"
                 /\ HasHosts(b)
       /\ \A i \in DOMAIN s.AsyncAgents : LET a == s.AsyncAgents[i] IN
            \A j \in DOMAIN a.Backend : LET b == a.Backend[j] IN
              /\ b.Timeout = a.Timeout /\ Follows(b.Timeout, config.AsyncAgents[i].Timeout)
              /\ b.Method # "" /\ b.SDScheme # "" /\ HasHosts(b)

\* Every placeholder of a backend (config.go:630-669) is filled
\* (request.go:24-40) with what the router takes from the path, for gin and chi
\* (gin/endpoint.go:129-132, chi/endpoint.go:27-39), whose conversion of names
\* is the same; those of gorilla and httptreemux convert otherwise.
PlaceholdersAreFilled ==
  LET s == Parse(config) IN
  ParseError(config) = None =>
    \A i \in DOMAIN s.Endpoints : LET e == s.Endpoints[i] IN
      \A j \in DOMAIN e.Backend : LET b == e.Backend[j] IN
        /\ Len(b.URLKeys) = Cardinality(Range(b.URLPattern))
        /\ \A p \in Range(b.URLPattern) : TitleFirst(p) \in Range(b.URLKeys)
        /\ \A router \in {"gin", "chi"} :
             \A k \in Unfilled(b, ParamKeys(router, e.params)) : k.sequential
===========================================================================

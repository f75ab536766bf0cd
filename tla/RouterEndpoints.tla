-------------------------- MODULE RouterEndpoints --------------------------
(***************************************************************************)
(* How the routers (router/gin, mux, chi, gorilla, httptreemux, negroni)   *)
(* put the endpoints of a service on their engines, and what is at a path  *)
(* then.  mux's BasicEngine is a map; the other engines are external: gin  *)
(* and httptreemux refuse a second handler for a route (and an empty path) *)
(* with a panic, chi replaces the first and gorilla, also used by negroni, *)
(* keeps it.                                                               *)
(*                                                                         *)
(* Paths have no wildcards, whose conflicts are the engines' affair.       *)
(***************************************************************************)
EXTENDS Naturals, Sequences, FiniteSets, SequencesExt

CONSTANTS RoutePath, \* paths of endpoints
          MaxRoutes  \* bound on the number of endpoints

\* CleanPath puts a slash in front (uri.go:93), and Init refuses the paths of
\* invalidPattern (config.go:385).
ASSUME RoutePathAssumption == RoutePath \cap {"", "/__health", "/__debug", "/__echo"} = {}

Engines == {"gin", "mux", "chi", "gorilla", "httptreemux"}

\* Methods of endpoints, as configured, and of requests.
ConfiguredMethods == {"get", "GET", "POST", "HEAD"}
RequestMethods == {"GET", "POST", "HEAD", "OPTIONS"}

ToTitle(method) == IF method = "get" THEN "GET" ELSE method
Supported(method) == ToTitle(method) \in {"GET", "POST"}

Routes == (RoutePath \cup {"/__health", "/__debug", "/__echo"}) \X RequestMethods

Handler(what, i) == [what |-> what, of |-> i]
NoHandler == Handler("none", 0)

----------------------------------------------------------------------------
(* Engines *)

Refused(t) == [t EXCEPT !.panics = TRUE]

Handle(engine, t, path, method, h) ==
  IF path = "" THEN Refused(t)
  ELSE IF t.routes[<<path, method>>] = NoHandler \/ engine \in {"mux", "chi"}
         THEN [t EXCEPT !.routes[<<path, method>>] = h]
  ELSE IF engine \in {"gin", "httptreemux"} THEN Refused(t)
  ELSE t

HandleAll(engine, t, path, methods, h) ==
  FoldLeft(LAMBDA s, m : Handle(engine, s, path, m, h), t, SetToSeq(methods))

\* chi has fewer debug routes and no echo.
DebugMethods(engine) == IF engine = "chi" THEN {"GET", "POST"} ELSE RequestMethods

\* httptreemux.DefaultConfig leaves it open, and NewFactory does not fill it.
EchoPattern(engine) == IF engine = "httptreemux" THEN "" ELSE "/__echo"

\* The configurations; only gin has the last three.
RouterConfig == [engine : Engines, debug : BOOLEAN, echo : BOOLEAN,
                 auto_options : BOOLEAN, disable_health : BOOLEAN,
                 health_path : {"/__health"} \cup RoutePath]

OfThisEngine(c) ==
  c.engine # "gin" => ~c.auto_options /\ ~c.disable_health /\ c.health_path = "/__health"

\* NewEngine of gin, and what Run registers before the endpoints.
Fixed(c) ==
  LET empty  == [routes |-> [r \in Routes |-> NoHandler], panics |-> FALSE,
                 catalog |-> [p \in RoutePath |-> << >>], allow |-> [p \in RoutePath |-> {}]]
      health(t) == IF c.disable_health THEN t
                   ELSE Handle(c.engine, t, c.health_path, "GET", Handler("health", 0))
      debug(t)  == IF c.debug THEN HandleAll(c.engine, t, "/__debug", DebugMethods(c.engine),
                                             Handler("debug", 0))
                   ELSE t
      echo(t)   == IF c.echo /\ c.engine # "chi"
                     THEN HandleAll(c.engine, t, EchoPattern(c.engine), RequestMethods,
                                    Handler("echo", 0))
                   ELSE t
  IN health(echo(debug(empty)))

----------------------------------------------------------------------------
(* Endpoints *)

\* Mutated form of registerKrakendEndpoint: unsupported methods are listed.
registerKrakendEndpointListed(engine, t, e, h) ==
  LET method == ToTitle(e.method)
      done == IF Supported(e.method) THEN Handle(engine, t, e.path, method, h) ELSE t
  IN [done EXCEPT !.catalog[e.path] = Append(@, method)]

\* With the catalog, which only gin keeps.
registerKrakendEndpoint(engine, t, e, h) ==
  LET method == ToTitle(e.method)
      done == Handle(engine, t, e.path, method, h)
  IN IF Supported(e.method) THEN [done EXCEPT !.catalog[e.path] = Append(@, method)] ELSE t

\* A pipe that cannot be built: gin answers for it, the others skip it.
RegisterOne(engine, t, i, e) ==
  IF e.builds THEN registerKrakendEndpoint(engine, t, e, Handler("endpoint", i))
  ELSE IF engine = "gin" THEN registerKrakendEndpoint(engine, t, e, Handler("failed", i))
  ELSE t

registerKrakendEndpoints(engine, t, es) ==
  FoldLeft(LAMBDA s, i : RegisterOne(engine, s, i, es[i]), t, [i \in DOMAIN es |-> i])

\* allow stands for the header, sorted and joined.
registerOptionEndpoints(t) ==
  LET options(s, p) == [Handle("gin", s, p, "OPTIONS", Handler("options", 0))
                         EXCEPT !.allow[p] = Range(t.catalog[p])]
  IN FoldLeft(options, t, SetToSeq({p \in RoutePath : t.catalog[p] # << >>}))

Run(c, es) ==
  LET t == registerKrakendEndpoints(c.engine, Fixed(c), es)
  IN IF c.auto_options THEN registerOptionEndpoints(t) ELSE t

----------------------------------------------------------------------------
(* Checked over bounded lists of endpoints.                                *)

VARIABLES routerConfig, endpoints

routerVars == <<routerConfig, endpoints>>

NoRouter == /\ endpoints = << >>
            /\ routerConfig = [engine |-> "gin", debug |-> FALSE, echo |-> FALSE,
                               auto_options |-> FALSE, disable_health |-> FALSE,
                               health_path |-> "/__health"]

AnyRouter == /\ NoRouter
             /\ routerConfig' \in {c \in RouterConfig : OfThisEngine(c)}
             /\ UNCHANGED endpoints

AddRoute == /\ Len(endpoints) < MaxRoutes
            /\ \E p \in RoutePath, m \in ConfiguredMethods, b \in BOOLEAN :
                 endpoints' = Append(endpoints, [path |-> p, method |-> m, builds |-> b])
            /\ UNCHANGED routerConfig

\* Any router, and any list of endpoints.
RouterSpec == NoRouter /\ [][AnyRouter \/ AddRoute]_routerVars

\* The endpoints that ask for a route.
Claims(path, method) ==
  {i \in DOMAIN endpoints : /\ endpoints[i].path = path
                            /\ ToTitle(endpoints[i].method) = method
                            /\ endpoints[i].builds \/ routerConfig.engine = "gin"}

Taken(path, method) ==
  ~routerConfig.disable_health /\ path = routerConfig.health_path /\ method = "GET"

\* One list of endpoints on five engines (gin/router.go:135-209, mux/router.go:
\* 98-180, mux/engine.go:55-61, chi/router.go:87-159).  Config.Init lets two
\* endpoints have one route, and gin's health_path be an endpoint's; what then
\* happens is the engine's choice, but it is never a third: gin and httptreemux
\* do not start, and every other start serves each route with one of those that
\* ask for it, the first on gorilla, the last on mux and chi.  Only gin has an
\* answer where a pipe could not be built, and its Allow headers name exactly
\* the methods that are answered.
RoutesAreExact ==
  LET c == routerConfig
      t == Run(c, endpoints)
      Serving(claims) == IF c.engine = "gorilla" THEN CHOOSE i \in claims : \A j \in claims : i <= j
                         ELSE CHOOSE i \in claims : \A j \in claims : i >= j
      Of(claims) == LET i == Serving(claims)
                    IN Handler(IF endpoints[i].builds THEN "endpoint" ELSE "failed", i)
  IN /\ t.panics <=>
          \/ c.engine \in {"gin", "httptreemux"} /\ \E p \in RoutePath, m \in {"GET", "POST"} :
               Cardinality(Claims(p, m)) + (IF Taken(p, m) THEN 1 ELSE 0) > 1
          \/ c.engine = "httptreemux" /\ c.echo
     /\ ~t.panics => \A p \in RoutePath :
          /\ \A m \in {"GET", "POST"} :
               t.routes[<<p, m>>] = IF Claims(p, m) # {} THEN Of(Claims(p, m))
                                    ELSE IF Taken(p, m) THEN Handler("health", 0)
                                    ELSE NoHandler
          /\ t.routes[<<p, "HEAD">>] = NoHandler
          /\ t.allow[p] = IF c.auto_options THEN {m \in {"GET", "POST"} : Claims(p, m) # {}} ELSE {}
          /\ (t.routes[<<p, "OPTIONS">>] # NoHandler) <=> (t.allow[p] # {})
     /\ ~t.panics /\ ~c.disable_health =>
          t.routes[<<c.health_path, "GET">>] = Handler("health", 0)
=============================================================================

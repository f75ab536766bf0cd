-------------------------- MODULE GraphQLExtractor --------------------------
(***************************************************************************)
(* What the GraphQL middleware (proxy/graphql.go) sends: the Extractor of  *)
(* transport/http/client/graphql takes the variables of the configuration  *)
(* and replaces them, for a query by parameters of the path, for a         *)
(* mutation by what the client's body has.  GraphQLMiddleware also says    *)
(* where the outcome is a panic of the runtime.                            *)
(*                                                                         *)
(* A configured value is what New looks at: a placeholder {userId}, the    *)
(* strings "" and "{}", or anything else.  A variable that is sent has its *)
(* source: the client's body, the configuration or a parameter.            *)
(***************************************************************************)
EXTENDS Integers, FiniteSets, ConfigInit

CONSTANTS Variable,   \* names of GraphQL variables
          Absent      \* what is not configured or not sent

Placeholders == {p \in Names : ~p.sequential}

ConfiguredValue == {<<"literal">>, <<"empty">>, <<"braces">>} \cup ({"placeholder"} \X Placeholders)

\* Bodies of clients: none, one that is not JSON, null, or an object.
ClientBodies == {<<"nil">>, <<"invalid">>, <<"null">>} \cup ({"object"} \X SUBSET Variable)

Fails(why) == [outcome |-> why, Variables |-> [v \in Variable |-> Absent]]
Sends(variables) == [outcome |-> "sent", Variables |-> variables]

Configured(opt) == {v \in Variable : opt.Variables[v] # Absent}

\* An unknown method is POST; types are in any case.
GetOptions(opt) == [opt EXCEPT !.Method = IF @ = "get" THEN "GET" ELSE "POST"]

\* val[0] of "", val[2:1] of "{}".
NewPanics(opt) == \E v \in Variable : opt.Variables[v] \in {<<"empty">>, <<"braces">>}

Replaced(opt) == {v \in Configured(opt) : opt.Variables[v][1] = "placeholder"}

\* Mutated form of Parameter: the whole name is titled.
ParameterTitled(opt, v) == Title(opt.Variables[v][2])

\* The name New gives to the parameter that a placeholder stands for.
Parameter(opt, v) == TitleFirst(opt.Variables[v][2])

\* A parameter that is not there is replaced by "".
paramExtractor(opt, params) ==
  Sends([v \in Variable |-> IF v \in Replaced(opt)
                              THEN IF Parameter(opt, v) \in params
                                     THEN <<"param", Parameter(opt, v)>> ELSE <<"empty">>
                            ELSE opt.Variables[v]])

\* An absent body is read as an empty one, which is no JSON; null leaves a map
\* that nothing can be assigned to.
fromBody(opt, body) ==
  IF body[1] \in {"nil", "invalid"} THEN Fails("error")
  ELSE LET given == IF body[1] = "null" THEN {} ELSE body[2]
       IN IF body[1] = "null" /\ Configured(opt) # {} THEN Fails("panic")
          ELSE Sends([v \in Variable |-> IF v \in given THEN <<"body">> ELSE opt.Variables[v]])

Extract(opt, params, body) ==
  IF opt.Type = "mutation" THEN fromBody(opt, body) ELSE paramExtractor(opt, params)

\* The message for the backend: GET carries the operation in the query, POST in
\* the body.
GraphQLMiddleware(configured, params, body) ==
  LET opt == GetOptions(configured)
      r == Extract(opt, params, body)
  IN CASE NewPanics(opt) -> [outcome |-> "no start"]
       [] ~NewPanics(opt) /\ r.outcome # "sent" -> [outcome |-> r.outcome]
       [] OTHER -> [outcome |-> "sent", Method |-> opt.Method,
                    carrier |-> IF opt.Method = "GET" THEN "query" ELSE "body",
                    variables |-> r.Variables]

---------------------------------------------------------------------------
(* Checked over bounded configurations and requests.                       *)

VARIABLES options, declared, received

graphqlVars == <<options, declared, received>>

NoOptions == /\ options = [Type |-> "query", Method |-> "", Variables |-> [v \in Variable |-> Absent]]
             /\ declared = {}
             /\ received = <<"nil">>

SetOptions ==
  \/ /\ \/ \E v \in Variable, c \in ConfiguredValue : options' = [options EXCEPT !.Variables[v] = c]
        \/ \E m \in {"get", "post", "other"} : options' = [options EXCEPT !.Method = m]
        \/ options' = [options EXCEPT !.Type = "mutation"]
     /\ UNCHANGED <<declared, received>>
  \/ /\ declared' \in SUBSET Placeholders
     /\ received' \in ClientBodies
     /\ UNCHANGED options

GraphQLSpec == NoOptions /\ [][SetOptions]_graphqlVars

\* One name but for the case of its first letter.
SameName(p, q) == q = [p EXCEPT !.upper = q.upper]

\* Whatever a client sends and an endpoint declares, with either method and
\* through a router that titles as New does (graphql.go:98-106,
\* gin/endpoint.go:129-132): a placeholder of a query arrives as the parameter
\* it names, a variable of a mutation as the client sent it, every other as it
\* is configured, and nothing else arrives.  A mutation needs a body that is
\* JSON, and a body "null" is the only one that can end in a panic.
VariablesReachBackend ==
  LET m == GraphQLMiddleware(options, ParamKeys("gin", declared), received)
      given == IF received[1] = "object" THEN received[2] ELSE {}
  IN m.outcome # "no start" =>
       /\ m.outcome = "error" <=> options.Type = "mutation" /\ received[1] \in {"nil", "invalid"}
       /\ m.outcome = "panic" => options.Type = "mutation" /\ received = <<"null">>
       /\ m.outcome = "sent" => \A v \in Variable :
            LET c == options.Variables[v] IN
            /\ options.Type = "mutation" => m.variables[v] = IF v \in given THEN <<"body">> ELSE c
            /\ options.Type = "query" =>
                 IF c # Absent /\ c[1] = "placeholder"
                   THEN m.variables[v] = IF \E p \in declared : SameName(p, c[2])
                                           THEN <<"param", TitleFirst(c[2])>> ELSE <<"empty">>
                   ELSE m.variables[v] = c
=============================================================================

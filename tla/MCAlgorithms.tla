--------------------------- MODULE MCAlgorithms ---------------------------
(***************************************************************************)
(* TLC instance of the modules that are algorithms over data: a behaviour  *)
(* builds up an input of one of them, and every state is checked.          *)
(***************************************************************************)
EXTENDS SRVRecords, SequentialSources, ConfigInit, EndpointPipe, RouterEndpoints, GraphQLExtractor

MCEntries == {<<"a">>, <<"b">>, <<"a", "a">>, <<"a", "b">>, <<"b", "a">>, <<"a", "b", "a">>}
MCFlat == ObjectsOf({Scalar("1")})
MCNested == ObjectsOf({Scalar("1")} \cup MCFlat)
MCData == MCNested \cup {Object(m :> d) : m \in Member, d \in MCNested}

MCNewNames == {<<"b">>, <<"c">>, <<"d", "e">>}
MCTargets == {<<"a">>, <<"b", "a">>}

\* {UserId}, {resp0_y} and {userId}, in this order
MCName(word, upper, inner, sequential) ==
  [word |-> word, upper |-> upper, inner |-> inner, sequential |-> sequential]
MCSorted == <<MCName("userid", TRUE, TRUE, FALSE), MCName("resp0_y", FALSE, FALSE, TRUE),
              MCName("userid", FALSE, TRUE, FALSE)>>
MCNames == Range(MCSorted)
MCPlace == [p \in MCNames |-> CHOOSE i \in DOMAIN MCSorted : MCSorted[i] = p]

Init == NoAnswer /\ NoData /\ NoService /\ NoPipe /\ NoRouter /\ NoOptions

Answers == /\ NoData /\ NoService /\ NoPipe /\ NoRouter /\ NoOptions
           /\ AnotherRecord
           /\ UNCHANGED <<formatterVars, configVars, pipeVars, routerVars, graphqlVars>>

Formats == /\ NoAnswer /\ NoService /\ NoPipe /\ NoRouter /\ NoOptions
           /\ AnyData \/ Configure
           /\ UNCHANGED <<srvs, configVars, pipeVars, routerVars, graphqlVars>>

Configs == /\ NoAnswer /\ NoData /\ NoPipe /\ NoRouter /\ NoOptions
           /\ SetService \/ AddEndpoint \/ SetEndpoint \/ SetBackend \/ SetAgent
           /\ UNCHANGED <<srvs, formatterVars, pipeVars, routerVars, graphqlVars>>

Pipes == /\ NoAnswer /\ NoData /\ NoService /\ NoRouter /\ NoOptions
         /\ AnyPipe
         /\ UNCHANGED <<srvs, formatterVars, configVars, routerVars, graphqlVars>>

Routed == /\ NoAnswer /\ NoData /\ NoService /\ NoPipe /\ NoOptions
          /\ AnyRouter \/ AddRoute
          /\ UNCHANGED <<srvs, formatterVars, configVars, pipeVars, graphqlVars>>

Queries == /\ NoAnswer /\ NoData /\ NoService /\ NoPipe /\ NoRouter
           /\ SetOptions
           /\ UNCHANGED <<srvs, formatterVars, configVars, pipeVars, routerVars>>

Next == Answers \/ Formats \/ Configs \/ Pipes \/ Routed \/ Queries

Spec == Init /\ [][Next]_<<srvs, formatterVars, configVars, pipeVars, routerVars, graphqlVars>>
===========================================================================

------------------------- MODULE MCServerLifecycle -------------------------
(***************************************************************************)
(* What a program starts and what has to end again.  A behaviour is one of *)
(* three, and nothing of the others can happen in it: the server, with two *)
(* requests and either h2c or a shadow whose timers are due at once, so    *)
(* that they fire at any moment; the shadows of one request, with time     *)
(* that is counted, which was accepted before the listener failed; or the  *)
(* agents.                                                                 *)
(***************************************************************************)
EXTENDS ServerLifecycle, AsyncAgents

CONSTANT r1

VARIABLE subject

Immediate == [shadow |-> TRUE, shadowTimeout |-> 0, concurrent |-> FALSE]

\* Only shadows, or up to two of them beside a regular backend, one of the two
\* called once.
Timed == {b \in Backend : isShadowBackend(b) /\ b.shadowTimeout # 0}
MCBackends == {<<b>> : b \in Timed} \cup {<<Regular, b>> : b \in Timed}
                \cup {<<Regular, b, c>> : b \in {d \in Timed : ~d.concurrent}, c \in Timed}

\* A server whose listener failed, before its service's context ended.
NoServer == /\ MaxShutdownDuration = 0 /\ tls = "nil" /\ UseH2C = FALSE /\ service = "done"
            /\ server = "returned" /\ listener = "ended" /\ shutdown = "none" /\ err = "listen"
            /\ hijacked = FALSE /\ via = [r \in Request |-> "server"]

\* An AgentStarter of no factories whose Start was called.
NothingStarted ==
  /\ factories = 0 /\ wait = "no factories"
  /\ agents = [a \in Agent |-> [pipe |-> FALSE, retries |-> 0, strategy |-> "linear",
                                acceptedBy |-> {}]]
  /\ MaxRetries = [a \in Agent |-> 0] /\ starter = [agent |-> 1, factory |-> 0]
  /\ runs = [a \in Agent |-> "none"] /\ factory = [a \in Agent |-> 0]
  /\ attempts = [a \in Agent |-> 0] /\ pause = [a \in Agent |-> 1]
  /\ parent = "live" /\ groupCtx = "live" /\ groupErr = 0

ServicesInit ==
  \/ /\ subject = "server" /\ NothingStarted
     /\ Init /\ backends = (IF UseH2C THEN <<Regular>> ELSE <<Regular, Immediate>>)
     /\ tls # "good"
  \/ /\ subject = "shadow" /\ NothingStarted /\ NoServer
     /\ backends \in MCBackends /\ NoShadow
     /\ at = [r \in Request |-> IF r = r1 THEN "proxy" ELSE "idle"]
  \/ /\ subject = "agents" /\ AgentsInit /\ NoServer
     /\ InitRequests /\ backends = <<Regular>>

ServicesNext ==
  \/ subject = "server" /\ Next /\ UNCHANGED <<subject, agentVars>>
  \/ subject = "shadow" /\ (Requests \/ Terminated) /\ UNCHANGED <<subject, agentVars>>
  \/ subject = "agents" /\ AgentsNext /\ UNCHANGED <<subject, vars>>

ServicesSpec == /\ ServicesInit /\ [][ServicesNext]_<<subject, vars, agentVars>>
                /\ Fairness /\ AgentsFairness
=============================================================================

---------------------------- MODULE AsyncAgents ----------------------------
(***************************************************************************)
(* AgentStarter.Start (async/asyncagent.go) and the agents it starts, with *)
(* the pauses of backoff/backoff.go.                                       *)
(*                                                                         *)
(* The agents are external: a factory that accepts an agent runs it as a   *)
(* goroutine of the errgroup, which connects, pauses and tries again as    *)
(* long as ShouldContinue says, consumes, and returns when its context     *)
(* ends, which is what the comments of Options ask of it.  The errgroup    *)
(* keeps the first error and cancels its context.                          *)
(***************************************************************************)
EXTENDS Integers, Sequences, FiniteSets

CONSTANTS Agents,    \* how many are configured
          Factories, \* how many factories there may be
          Retries,   \* what may be configured for MaxRetries
          MaxInt,    \* no number of retries gets there; also the bound of attempts
          Strategies, \* what may be configured for BackoffStrategy
          Second     \* its length in the unit of the pauses

ASSUME AgentsAssumption == /\ Agents \in Nat /\ Factories \in Nat /\ Second \in Nat \ {0}
                           /\ MaxInt \in Nat \ {0}
                           /\ Retries \subseteq Int /\ \A n \in Retries : n < MaxInt

Agent == 1..Agents

VARIABLES factories,  \* those of this AgentStarter
          agents,     \* the configuration of each agent
          MaxRetries, \* its Connection.MaxRetries
          starter,    \* where Start is: the agent and factory it is at
          runs,       \* the goroutine of each agent
          factory,    \* the factory that started it
          attempts, pause, \* its failed attempts, and its last pause
          parent, groupCtx, \* the context given to Start, and the one of the group
          groupErr,   \* the agent whose error the group keeps, 0 for none
          wait        \* what Start's result returned

agentConf == <<factories, agents>>
agentVars == <<agentConf, MaxRetries, starter, runs, factory, attempts, pause, parent, groupCtx,
               groupErr, wait>>

NoWait == "waiting"

NoAgents ==
  /\ MaxRetries = [a \in Agent |-> agents[a].retries]
  /\ starter = [agent |-> 1, factory |-> 0]
  /\ runs = [a \in Agent |-> "none"]
  /\ factory = [a \in Agent |-> 0]
  /\ attempts = [a \in Agent |-> 0]
  /\ pause = [a \in Agent |-> 1]
  /\ parent = "live" /\ groupCtx = "live"
  /\ groupErr = 0
  /\ wait = NoWait

\* Whether the pipe of an agent can be built, and who would accept it.
AnyAgents ==
  /\ factories \in {0, Factories}
  /\ agents \in [Agent -> [pipe : BOOLEAN, retries : Retries, strategy : Strategies,
                           acceptedBy : SUBSET (1..Factories)]]

AgentsInit == AnyAgents /\ NoAgents

---------------------------------------------------------------------------
(* Start *)

Starting == factories > 0 /\ starter.agent <= Agents

\* ErrNoAgents
NoFactory == /\ factories = 0 /\ wait = NoWait
             /\ wait' = "no factories"
             /\ UNCHANGED <<agentConf, MaxRetries, starter, runs, factory, attempts, pause,
                            parent, groupCtx, groupErr>>

NextAgent == starter' = [agent |-> starter.agent + 1, factory |-> 0]

PipeFails == /\ Starting /\ starter.factory = 0
             /\ ~agents[starter.agent].pipe
             /\ NextAgent
             /\ UNCHANGED <<agentConf, MaxRetries, runs, factory, attempts, pause, parent, groupCtx,
                            groupErr, wait>>

PipeIsBuilt == /\ Starting /\ starter.factory = 0
               /\ agents[starter.agent].pipe
               /\ MaxRetries' = [MaxRetries EXCEPT ![starter.agent] = IF @ <= 0 THEN MaxInt ELSE @]
               /\ starter' = [starter EXCEPT !.factory = 1]
               /\ UNCHANGED <<agentConf, runs, factory, attempts, pause, parent, groupCtx, groupErr,
                              wait>>

\* The first factory that accepts it is the last one that is asked.
CallFactory ==
  /\ Starting /\ starter.factory > 0
  /\ IF starter.factory \in agents[starter.agent].acceptedBy
       THEN /\ runs' = [runs EXCEPT ![starter.agent] = "connects"]
            /\ factory' = [factory EXCEPT ![starter.agent] = starter.factory]
            /\ NextAgent
       ELSE /\ IF starter.factory < factories
                 THEN starter' = [starter EXCEPT !.factory = @ + 1] ELSE NextAgent
            /\ UNCHANGED <<runs, factory>>
  /\ UNCHANGED <<agentConf, MaxRetries, attempts, pause, parent, groupCtx, groupErr, wait>>

Start == NoFactory \/ PipeFails \/ PipeIsBuilt \/ CallFactory

\* g.Wait, which the caller of Start calls.
Wait == /\ factories > 0 /\ starter.agent > Agents /\ wait = NoWait
        /\ \A a \in Agent : runs[a] \in {"none", "ended"}
        /\ wait' = IF groupErr = 0 THEN "nil" ELSE "error"
        /\ UNCHANGED <<agentConf, MaxRetries, starter, runs, factory, attempts, pause, parent,
                       groupCtx, groupErr>>

---------------------------------------------------------------------------
(* Pauses *)

jitter(i) == LET maxJitter == (i * Second) \div 3 + 1
                 Positive(ms) == IF ms <= 0 THEN 1 ELSE ms
             IN {Positive(i * Second + r - maxJitter) : r \in 0..(2 * maxJitter - 1)}

\* GetByName; exponential is exponential-jitter without the jitter.
Backoff(strategy, i) ==
  CASE strategy = "linear" -> {i * Second}
    [] strategy = "linear-jitter" -> jitter(i)
    [] strategy = "exponential-jitter" -> jitter(2 ^ i)
    [] OTHER -> {Second}

---------------------------------------------------------------------------
(* The agents. *)

\* Mutated form of ShouldContinue: all closures share the loop's variable.
ShouldContinueShared(a, i) ==
  LET last == IF starter.agent > Agents THEN Agents ELSE starter.agent IN i <= MaxRetries[last]

ShouldContinue(a, i) == i <= MaxRetries[a]

Runs(a, from, to) == runs[a] = from /\ runs' = [runs EXCEPT ![a] = to]

\* Mutated form of AgentContext: Start gives them its own context.
AgentContextParent == parent

\* The context an agent is started with, which is the group's.
AgentContext == groupCtx

Connects(a) == /\ AgentContext = "live"
               /\ Runs(a, "connects", "consumes")
               /\ UNCHANGED <<agentConf, MaxRetries, starter, factory, attempts, pause, parent,
                              groupCtx, groupErr, wait>>

\* A failed attempt, the first with number 0; their count ends at MaxInt.
Retry(a) ==
  /\ ShouldContinue(a, attempts[a])
  /\ Runs(a, "connects", "pauses")
  /\ attempts' = [attempts EXCEPT ![a] = IF @ < MaxInt THEN @ + 1 ELSE @]
  /\ \E d \in Backoff(agents[a].strategy, attempts[a]) : pause' = [pause EXCEPT ![a] = d]
  /\ UNCHANGED <<agentConf, MaxRetries, starter, factory, parent, groupCtx, groupErr, wait>>

Resumes(a) == /\ Runs(a, "pauses", "connects")
              /\ UNCHANGED <<agentConf, MaxRetries, starter, factory, attempts, pause, parent,
                             groupCtx, groupErr, wait>>

\* An error returned to the errgroup: the first one cancels.
GivesUp(a) == /\ ~ShouldContinue(a, attempts[a])
              /\ Runs(a, "connects", "ended")
              /\ groupErr' = IF groupErr = 0 THEN a ELSE groupErr
              /\ groupCtx' = "done"
              /\ UNCHANGED <<agentConf, MaxRetries, starter, factory, attempts, pause, parent,
                             wait>>

Stops(a) == /\ AgentContext = "done"
            /\ \E at \in {"connects", "pauses", "consumes"} : Runs(a, at, "ended")
            /\ UNCHANGED <<agentConf, MaxRetries, starter, factory, attempts, pause, parent,
                           groupCtx, groupErr, wait>>

ParentDone == /\ parent = "live"
              /\ parent' = "done" /\ groupCtx' = "done"
              /\ UNCHANGED <<agentConf, MaxRetries, starter, runs, factory, attempts, pause,
                             groupErr, wait>>

Goroutine(a) == Connects(a) \/ Retry(a) \/ Resumes(a) \/ GivesUp(a) \/ Stops(a)

\* The program goes on without its agents.
AgentsEnded == wait # NoWait /\ UNCHANGED agentVars

AgentsNext == Start \/ Wait \/ ParentDone \/ (\E a \in Agent : Goroutine(a)) \/ AgentsEnded

\* Start and Wait are ordinary code; an agent hears of the end of its context.
AgentsFairness == /\ WF_agentVars(Start) /\ WF_agentVars(Wait)
                  /\ \A a \in Agent : WF_agentVars(Stops(a))

AgentsSpec == AgentsInit /\ [][AgentsNext]_agentVars /\ AgentsFairness

---------------------------------------------------------------------------

\* Every agent is started, by the first factory that accepts it, unless its pipe
\* cannot be built or nobody does, whatever happens to the others
\* (asyncagent.go:60-105); each is given up after as many retries as it is
\* configured for and no other number, never without configuration, and, but
\* for the linear strategy's first one, none of its pauses is empty.
AgentsAsConfigured ==
  /\ \A a \in Agent :
       IF factories > 0 /\ starter.agent > a /\ agents[a].pipe /\ agents[a].acceptedBy # {}
         THEN /\ runs[a] # "none" /\ factory[a] \in agents[a].acceptedBy
              /\ \A f \in agents[a].acceptedBy : factory[a] <= f
         ELSE runs[a] = "none"
  /\ \A a \in Agent : LET n == agents[a].retries IN
       /\ n > 0 => attempts[a] <= n + 1
       /\ groupErr = a => n > 0 /\ attempts[a] = n + 1
       /\ pause[a] > 0 \/ (agents[a].strategy = "linear" /\ attempts[a] = 1)

\* One agent that gives up, or the end of the program's context, ends every
\* agent, those that are started later included, and Start's result returns
\* (asyncagent.go:58, 107).
AgentsEnd ==
  parent = "done" \/ groupErr # 0 ~>
    wait # NoWait /\ \A a \in Agent : runs[a] \in {"none", "ended"}
=============================================================================

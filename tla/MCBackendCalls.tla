--------------------------- MODULE MCBackendCalls ---------------------------
(***************************************************************************)
(* What a backend's calls meet on their way: the concurrent middleware,    *)
(* with three of them, or a balancer, with lists of no, one and three      *)
(* hosts, of which the last counts as long and is shuffled.  A behaviour   *)
(* is one of the one or of the other.                                      *)
(***************************************************************************)
EXTENDS ServiceDiscovery, ConcurrentCalls

CONSTANTS h1, h2

VARIABLE subject

MCLists == {<< >>, <<h2>>, <<h1, h1, h2>>}

\* Requests that came before there was a host.
NoHostLeft == /\ source = "fixed" /\ balancer = "random" /\ dns = Failure /\ updater = "none"
              /\ resolved = << >> /\ cache = << >> /\ readers = {} /\ counter = 0
              /\ at = [q \in Request |-> "done"] /\ hosts = [q \in Request |-> << >>]
              /\ offset = [q \in Request |-> -1]

\* Calls whose parent was done before they could answer.
NoCallLeft == /\ parentDone = TRUE /\ ctx = "canceled" /\ pc = "returned" /\ i = ConcurrentCalls
              /\ call = [c \in Call |-> "done"] /\ held = [c \in Call |-> "canceled"]
              /\ results = << >> /\ failed = [j \in Call |-> "canceled"]
              /\ response = "nil" /\ err = "nil" /\ outcome = Nothing
              /\ lateDones = ConcurrentCalls

BackendInit == \/ subject = "hosts" /\ Init /\ NoCallLeft
               \/ subject = "calls" /\ CallsInit /\ NoHostLeft

BackendNext == \/ subject = "hosts" /\ Next /\ UNCHANGED <<subject, callVars>>
               \/ subject = "calls" /\ CallsNext /\ UNCHANGED <<subject, vars>>

BackendSpec == /\ BackendInit /\ [][BackendNext]_<<subject, vars, callVars>>
               /\ Fairness /\ CallsFairness
=============================================================================

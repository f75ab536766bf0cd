-------------------------- MODULE ServiceDiscovery --------------------------
(***************************************************************************)
(* Choosing the host of a backend: a subscriber that keeps a list of       *)
(* hosts (sd.FixedSubscriber, or dnssrv.subscriber, refreshed by a         *)
(* goroutine of its own) and a balancer that picks one host per request    *)
(* (sd.roundRobinLB, sd.randomLB, sd.nopBalancer).                         *)
(*                                                                         *)
(* A list is what resolve (module SRVRecords) makes of an answer.  The     *)
(* assignment of a list to the cache takes several words of memory: until  *)
(* it is over the cache is Torn.  The module starts when the subscriber    *)
(* and the balancer have been built.                                       *)
(***************************************************************************)
EXTENDS Integers, Sequences, FiniteSets

CONSTANTS Request,  \* calls of Host(), each made once by a goroutine
          Host,
          Lists,    \* the lists that lookups, or the configuration, yield
          LongList, \* lists longer than this are shuffled (100 in the code)
          Failure,  \* the lookup fails
          Torn      \* the value of a variable that is being written

ASSUME ListsAssumption == /\ Lists \subseteq Seq(Host)
                          /\ Failure \notin Seq(Host) /\ Torn \notin Seq(Host) /\ Failure # Torn
                          /\ LongList \in Nat

VARIABLES source,   \* the subscriber: "fixed" or "dns"
          balancer, \* "roundrobin", "random" or "nop"
          dns,      \* external: how a lookup ends now
          updater,  \* the goroutine of the dns subscriber
          resolved, \* the list of the last lookup that succeeded
          cache,    \* the subscriber's hosts
          readers,  \* requests that hold the mutex for reading
          counter,  \* of the round robin balancer
          at,       \* where each request stands
          hosts,    \* its copy of the list
          offset    \* what it picked: an index of hosts, -1 for ErrNoHosts

sdVars  == <<dns, updater, resolved, cache>>
lbVars  == <<counter, hosts, offset>>
vars == <<source, balancer, sdVars, readers, at, lbVars>>

\* NewRandomFixedSubscriber: the list in any order.
Shuffled(l) ==
  {[j \in DOMAIN l |-> l[p[j]]] :
     p \in {f \in [DOMAIN l -> DOMAIN l] :
              \A j, k \in DOMAIN l : f[j] = f[k] => j = k}}

\* What update stores for a list.
Stored(l) == IF Len(l) > LongList THEN Shuffled(l) ELSE {l}

AllStored == UNION {Stored(l) : l \in Lists}

---------------------------------------------------------------------------
(* NewDetailedWithScheme has made its first update; NewRoundRobinLB starts *)
(* a fixed list anywhere, and needs no balancer for a single host.         *)

InitDNS == /\ source = "dns"
           /\ balancer \in {"roundrobin", "random"}
           /\ dns \in Lists \cup {Failure}
           /\ updater = "sleep"
           /\ resolved = IF dns = Failure THEN << >> ELSE dns
           /\ cache \in Stored(resolved)
           /\ counter = 0

InitFixed == /\ source = "fixed"
             /\ dns = Failure
             /\ updater = "none"
             /\ resolved \in Lists
             /\ cache = resolved
             /\ IF Len(cache) = 1
                  THEN balancer = "nop" /\ counter = 0
                  ELSE \/ balancer = "random" /\ counter = 0
                       \/ /\ balancer = "roundrobin"
                          /\ counter \in {0} \cup 0..(Len(cache) - 1)

Init == /\ InitDNS \/ InitFixed
        /\ readers = {}
        /\ at = [q \in Request |-> "hosts"]
        /\ hosts = [q \in Request |-> << >>]
        /\ offset = [q \in Request |-> -1]

---------------------------------------------------------------------------
(* The updating goroutine: for { <-time.After(s.ttl); s.update() }.        *)

Update(from, to) == /\ updater = from
                    /\ updater' = to
                    /\ UNCHANGED <<source, balancer, dns, readers, at, lbVars>>

Tick == Update("sleep", "lookup") /\ UNCHANGED <<resolved, cache>>

\* instances, err := s.resolve(); the hosts stay if it fails.
LookupSucceeds == /\ dns # Failure
                  /\ Update("lookup", "lock")
                  /\ resolved' = dns
                  /\ UNCHANGED cache

\* Mutated form of LookupFails: the error is stored as an empty list.
LookupFailsEmpties == /\ dns = Failure
                      /\ Update("lookup", "sleep")
                      /\ cache' = << >>
                      /\ UNCHANGED resolved

\* Mutated form of LookupFails: the goroutine returns.
LookupFailsStops == /\ dns = Failure
                    /\ Update("lookup", "none")
                    /\ UNCHANGED <<resolved, cache>>

LookupFails == /\ dns = Failure
               /\ Update("lookup", "sleep")
               /\ UNCHANGED <<resolved, cache>>

\* s.mutex.Lock(); the assignment begins.
Lock == /\ readers = {}
        /\ Update("lock", "store")
        /\ cache' = Torn
        /\ UNCHANGED resolved

\* The assignment ends; the deferred s.mutex.Unlock().
Store == /\ Update("store", "sleep")
         /\ cache' \in Stored(resolved)
         /\ UNCHANGED resolved

Updater == Tick \/ LookupSucceeds \/ LookupFails \/ Lock \/ Store

---------------------------------------------------------------------------
(* A request: lb.Host().                                                   *)

Goto(q, from, to) == /\ at[q] = from
                     /\ at' = [at EXCEPT ![q] = to]
                     /\ UNCHANGED <<source, balancer, sdVars>>

\* Mutated form of RLock: only waits for writers in line, not for the one
\* that is writing.
RLockEarly(q) == /\ source = "dns" /\ balancer # "nop"
                 /\ updater # "lock"
                 /\ Goto(q, "hosts", "copy")
                 /\ readers' = readers \cup {q}
                 /\ UNCHANGED lbVars

\* s.mutex.RLock(): as sync.RWMutex has it, a writer that waits goes first.
RLock(q) == /\ source = "dns" /\ balancer # "nop"
            /\ updater \notin {"lock", "store"}
            /\ Goto(q, "hosts", "copy")
            /\ readers' = readers \cup {q}
            /\ UNCHANGED lbVars

\* Mutated form of CopyHosts: an empty list returns without the unlock.
CopyHostsHolds(q) == /\ Goto(q, "copy", "pick")
                     /\ hosts' = [hosts EXCEPT ![q] = cache]
                     /\ readers' = IF cache = << >> THEN readers ELSE readers \ {q}
                     /\ UNCHANGED <<counter, offset>>

\* copy(res, hs); the deferred s.mutex.RUnlock()
CopyHosts(q) == /\ Goto(q, "copy", "pick")
                /\ hosts' = [hosts EXCEPT ![q] = cache]
                /\ readers' = readers \ {q}
                /\ UNCHANGED <<counter, offset>>

\* FixedSubscriber.Hosts() returns the list itself.
FixedHosts(q) == /\ source = "fixed" /\ balancer # "nop"
                 /\ Goto(q, "hosts", "pick")
                 /\ hosts' = [hosts EXCEPT ![q] = cache]
                 /\ UNCHANGED <<readers, counter, offset>>

\* len(hs) <= 0
NoHosts(q) == /\ hosts[q] = << >>
              /\ Goto(q, "pick", "done")
              /\ UNCHANGED <<readers, lbVars>>

\* Mutated form of PickNext: counter++ is not atomic, one of two that race
\* may be lost.
PickNextRacy(q) == /\ balancer = "roundrobin" /\ hosts[q] # << >>
                   /\ Goto(q, "pick", "done")
                   /\ counter' \in {counter, counter + 1}
                   /\ offset' = [offset EXCEPT ![q] = 1 + (counter % Len(hosts[q]))]
                   /\ UNCHANGED <<readers, hosts>>

\* (atomic.AddUint64(&r.counter, 1) - 1) % len(hosts); 2^64 requests are not
\* reached.
PickNext(q) == /\ balancer = "roundrobin" /\ hosts[q] # << >>
               /\ Goto(q, "pick", "done")
               /\ counter' = counter + 1
               /\ offset' = [offset EXCEPT ![q] = 1 + (counter % Len(hosts[q]))]
               /\ UNCHANGED <<readers, hosts>>

\* r.rand(len(hosts))
PickRandom(q) == /\ balancer = "random" /\ hosts[q] # << >>
                 /\ Goto(q, "pick", "done")
                 /\ \E j \in DOMAIN hosts[q] : offset' = [offset EXCEPT ![q] = j]
                 /\ UNCHANGED <<readers, counter, hosts>>

\* nopBalancer.Host()
PickOnly(q) == /\ balancer = "nop"
               /\ Goto(q, "hosts", "done")
               /\ hosts' = [hosts EXCEPT ![q] = cache]
               /\ offset' = [offset EXCEPT ![q] = 1]
               /\ UNCHANGED <<readers, counter>>

Serve(q) == \/ RLock(q) \/ CopyHosts(q) \/ FixedHosts(q)
            \/ NoHosts(q) \/ PickNext(q) \/ PickRandom(q) \/ PickOnly(q)

---------------------------------------------------------------------------
\* External: the records of the service change, or the name server fails.
DNSChanges == /\ source = "dns"
              /\ dns' \in (Lists \cup {Failure}) \ {dns}
              /\ UNCHANGED <<source, balancer, updater, resolved, cache, readers,
                             at, lbVars>>

Terminated == /\ source = "fixed" /\ \A q \in Request : at[q] = "done"
              /\ UNCHANGED vars

Next == Updater \/ (\E q \in Request : Serve(q)) \/ DNSChanges \/ Terminated

Spec == Init /\ [][Next]_vars

\* Goroutines that can run do, the timer fires, a lookup ends.  A reader that
\* waits for the mutex gets it when the writer unlocks, before the next writer:
\* strong fairness is what sync.RWMutex provides.
Fairness == /\ WF_vars(Updater)
            /\ \A q \in Request : WF_vars(Serve(q)) /\ SF_vars(RLock(q))

---------------------------------------------------------------------------
(* Properties.                                                             *)

Served == {q \in Request : at[q] = "done"}

TypeOK == /\ source \in {"fixed", "dns"}
          /\ balancer \in {"roundrobin", "random", "nop"}
          /\ dns \in Lists \cup {Failure}
          /\ updater \in {"none", "sleep", "lookup", "lock", "store"}
          /\ resolved \in Lists \cup {<< >>}
          /\ cache \in AllStored \cup {<< >>, Torn}
          /\ readers \in SUBSET Request
          /\ counter \in Nat
          /\ at \in [Request -> {"hosts", "copy", "pick", "done"}]
          /\ hosts \in [Request -> AllStored \cup {<< >>, Torn}]
          /\ offset \in [Request -> (Nat \ {0}) \cup {-1}]

\* No request sees a list while it is being replaced, and what it picks is in
\* the list it copied, however often that was replaced since.
WholeListOnly ==
  \A q \in Request : /\ hosts[q] # Torn
                     /\ (q \in Served /\ hosts[q] # << >>) =>
                          offset[q] \in DOMAIN hosts[q]

\* Between two updates the requests are served from the last list that a lookup
\* returned: an answer is not lost, and a failing name server changes nothing.
ServesLastGood ==
  updater \in {"none", "sleep", "lookup"} =>
    IF source = "dns" THEN cache \in Stored(resolved) ELSE cache = resolved

\* Picks of position j by requests that used list l.
Picks(l, j) == Cardinality({q \in Served : hosts[q] = l /\ offset[q] = j})

\* As long as the list stays the same the round robin serves its positions
\* equally often, whatever the order in which requests copy and pick.
EvenShares ==
  balancer = "roundrobin" =>
    \A l \in AllStored :
      (\A q \in Served : hosts[q] \in {l, << >>}) =>
        \A j, k \in DOMAIN l : Picks(l, j) - Picks(l, k) \in -1..1

\* Every request gets a host or an error, also while updates go on.
AllServed == \A q \in Request : <>(at[q] = "done")

\* Once the records no longer change the cache holds them, for good.
Refreshed ==
  \A l \in Lists :
    (source = "dns" /\ <>[](dns = l)) => <>[](updater # "store" => cache \in Stored(l))

---------------------------------------------------------------------------
(* The inductive invariant behind the safety properties.                   *)

\* Who holds the mutex, and what that means for the cache.
MutexInv == /\ cache = Torn <=> updater = "store"
            /\ updater = "store" => readers = {}
            /\ \A q \in Request : at[q] = "copy" => q \in readers
            /\ source = "dns" => updater # "none"

\* A fixed list stays as it is; a single host needs no choice.
FixedInv == /\ source = "fixed" => updater = "none"
            /\ balancer = "nop" => source = "fixed" /\ Len(cache) = 1

IInv == TypeOK /\ MutexInv /\ FixedInv /\ WholeListOnly /\ ServesLastGood
===========================================================================

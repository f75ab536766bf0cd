----------------------- MODULE ServiceDiscoveryProofs -----------------------
(***************************************************************************)
(* Proofs of the safety properties of ServiceDiscovery, for every set of   *)
(* lists and any number of requests; that the order in which a DNS server  *)
(* rotates its records is of no consequence (SRVRecords); and that each    *)
(* route has the handler its engine prefers of those that ask for it       *)
(* (RouterEndpoints).                                                      *)
(***************************************************************************)
EXTENDS ServiceDiscovery, SRVRecords, RouterEndpoints, MergeAccumulatorProofs,
        FiniteSetTheorems, SequenceTheorems, TLAPS

\* A permutation of a list of hosts (sd.NewRandomFixedSubscriber) is a list of
\* hosts, as long as the one it was made from.
LEMMA ShuffledType ==
  ASSUME NEW l \in Seq(Host), NEW s \in Shuffled(l)
  PROVE  s \in Seq(Host) /\ Len(s) = Len(l)
<1>1. PICK p \in [DOMAIN l -> DOMAIN l] : s = [j \in DOMAIN l |-> l[p[j]]]
  BY DEF Shuffled
<1>2. DOMAIN l = 1..Len(l) /\ Len(l) \in Nat
  OBVIOUS
<1>3. \A j \in 1..Len(l) : l[p[j]] \in Host
  BY <1>1, <1>2
<1> QED
  BY <1>1, <1>2, <1>3

\* Whatever update stores is a list of hosts: neither the error nor half of an
\* assignment.
LEMMA StoredType ==
  ASSUME NEW s \in AllStored \cup {<< >>}
  PROVE  s \in Seq(Host) /\ s # Torn /\ s # Failure
<1>1. s \in Seq(Host)
  <2>1. CASE s \in AllStored
    <3>1. PICK l \in Lists : s \in Stored(l)
      BY <2>1 DEF AllStored
    <3>2. l \in Seq(Host)
      BY ListsAssumption
    <3> QED
      BY <3>1, <3>2, ShuffledType DEF Stored
  <2>2. CASE s = << >>
    BY <2>2
  <2> QED
    BY <2>1, <2>2
<1> QED
  BY <1>1, ListsAssumption

\* The list of a lookup that succeeded, or the empty one, can be stored.
LEMMA StoredOfResolved ==
  ASSUME NEW l \in Lists \cup {<< >>}, NEW s \in Stored(l)
  PROVE  s \in AllStored \cup {<< >>}
<1>1. CASE l \in Lists
  BY <1>1 DEF AllStored
<1>2. CASE l = << >>
  <2>1. ~(Len(l) > LongList)
    BY <1>2, ListsAssumption
  <2> QED
    BY <1>2, <2>1 DEF Stored
<1> QED
  BY <1>1, <1>2

\* The counter's remainder is a position of the copied list.
LEMMA Remainder ==
  ASSUME NEW l \in Seq(Host), l # << >>, NEW c \in Nat
  PROVE  1 + (c % Len(l)) \in DOMAIN l /\ 1 + (c % Len(l)) \in Nat \ {0}
<1>1. Len(l) \in Nat \ {0} /\ DOMAIN l = 1..Len(l)
  OBVIOUS
<1>2. c % Len(l) \in 0..(Len(l) - 1)
  BY <1>1
<1> QED
  BY <1>1, <1>2

---------------------------------------------------------------------------
\* Both kinds of subscriber start with a whole list.
LEMMA Initially == Init => IInv
<1> SUFFICES ASSUME Init PROVE IInv
  OBVIOUS
<1>1. /\ resolved \in Lists \cup {<< >>}
      /\ cache \in AllStored \cup {<< >>, Torn}
      /\ cache # Torn
      /\ source \in {"fixed", "dns"} /\ balancer \in {"roundrobin", "random", "nop"}
      /\ dns \in Lists \cup {Failure}
      /\ updater \in {"none", "sleep"}
      /\ counter \in Nat
  <2>1. CASE InitDNS
    <3>1. resolved \in Lists \cup {<< >>}
      BY <2>1 DEF InitDNS
    <3>2. cache \in AllStored \cup {<< >>}
      BY <2>1, <3>1, StoredOfResolved DEF InitDNS
    <3> QED
      BY <2>1, <3>1, <3>2, StoredType DEF InitDNS
  <2>2. CASE InitFixed
    <3>1. resolved \in Lists /\ resolved \in Seq(Host) /\ cache = resolved
      BY <2>2, ListsAssumption DEF InitFixed
    <3>2. cache \in AllStored /\ cache # Torn
      <4>1. cache \in Stored(cache)
        <5>1. CASE Len(cache) > LongList
          <6>1. [j \in DOMAIN cache |-> j] \in [DOMAIN cache -> DOMAIN cache]
            OBVIOUS
          <6>2. cache = [j \in DOMAIN cache |-> cache[[k \in DOMAIN cache |-> k][j]]]
            BY <3>1
          <6>3. cache \in Shuffled(cache)
            BY <6>1, <6>2 DEF Shuffled
          <6> QED
            BY <5>1, <6>3 DEF Stored
        <5>2. CASE ~(Len(cache) > LongList)
          BY <5>2 DEF Stored
        <5> QED
          BY <5>1, <5>2
      <4> QED
        BY <3>1, <4>1, ListsAssumption DEF AllStored
    <3>3. counter \in Nat
      BY <2>2, <3>1 DEF InitFixed
    <3> QED
      BY <2>2, <3>1, <3>2, <3>3 DEF InitFixed
  <2> QED
    BY <2>1, <2>2 DEF Init
<1>2. TypeOK
  BY <1>1 DEF TypeOK, Init
<1>3. MutexInv
  BY <1>1 DEF MutexInv, Init, InitDNS, InitFixed
<1>4. FixedInv
  BY DEF FixedInv, Init, InitDNS, InitFixed
<1>5. WholeListOnly
  BY StoredType DEF WholeListOnly, Served, Init
<1>6. ServesLastGood
  BY DEF ServesLastGood, Init, InitDNS, InitFixed
<1> QED
  BY <1>2, <1>3, <1>4, <1>5, <1>6 DEF IInv

\* No step of the goroutine that updates the cache breaks the invariant: it
\* waits for the readers, and readers wait for it.
LEMMA UpdaterStep == IInv /\ Updater => IInv'
<1> SUFFICES ASSUME IInv, Updater PROVE IInv'
  OBVIOUS
<1> USE DEF IInv, Update, sdVars, lbVars
<1>1. CASE Tick
  BY <1>1 DEF Tick, TypeOK, MutexInv, FixedInv, WholeListOnly, Served, ServesLastGood
<1>2. CASE LookupSucceeds
  BY <1>2 DEF LookupSucceeds, TypeOK, MutexInv, FixedInv, WholeListOnly, Served,
              ServesLastGood
<1>3. CASE LookupFails
  BY <1>3 DEF LookupFails, TypeOK, MutexInv, FixedInv, WholeListOnly, Served,
              ServesLastGood
<1>4. CASE Lock
  BY <1>4 DEF Lock, TypeOK, MutexInv, FixedInv, WholeListOnly, Served, ServesLastGood
<1>5. CASE Store
  <2>1. cache' \in AllStored \cup {<< >>} /\ cache' \in Stored(resolved')
    BY <1>5, StoredOfResolved DEF Store, TypeOK
  <2>2. cache' # Torn /\ source = "dns"
    BY <1>5, <2>1, StoredType DEF Store, TypeOK, FixedInv
  <2> QED
    BY <1>5, <2>1, <2>2 DEF Store, TypeOK, MutexInv, FixedInv, WholeListOnly,
                            Served, ServesLastGood
<1> QED
  BY <1>1, <1>2, <1>3, <1>4, <1>5 DEF Updater

\* No step of a request does: it copies a whole list and picks from its copy.
LEMMA RequestStep ==
  ASSUME IInv, NEW q \in Request, Serve(q)
  PROVE  IInv'
<1> USE DEF IInv, Goto, sdVars, lbVars
<1>0. UNCHANGED <<source, balancer, dns, updater, resolved, cache>>
  BY DEF Serve, RLock, CopyHosts, FixedHosts, NoHosts, PickNext, PickRandom, PickOnly
<1>1. ServesLastGood' /\ FixedInv'
  BY <1>0 DEF ServesLastGood, FixedInv
<1>2. CASE RLock(q)
  <2>1. TypeOK' /\ MutexInv'
    BY <1>2 DEF RLock, TypeOK, MutexInv
  <2>2. WholeListOnly'
    BY <1>2 DEF RLock, TypeOK, WholeListOnly, Served
  <2> QED
    BY <1>1, <2>1, <2>2
<1>3. CASE CopyHosts(q)
  <2>1. cache # Torn
    BY <1>3 DEF CopyHosts, MutexInv
  <2>2. TypeOK' /\ MutexInv'
    BY <1>3 DEF CopyHosts, TypeOK, MutexInv
  <2>3. WholeListOnly'
    BY <1>3, <2>1 DEF CopyHosts, TypeOK, WholeListOnly, Served
  <2> QED
    BY <1>1, <2>2, <2>3
<1>4. CASE FixedHosts(q)
  <2>1. cache # Torn
    BY <1>4 DEF FixedHosts, MutexInv, FixedInv
  <2>2. TypeOK' /\ MutexInv'
    BY <1>4 DEF FixedHosts, TypeOK, MutexInv
  <2>3. WholeListOnly'
    BY <1>4, <2>1 DEF FixedHosts, TypeOK, WholeListOnly, Served
  <2> QED
    BY <1>1, <2>2, <2>3
<1>5. CASE NoHosts(q)
  <2>1. TypeOK' /\ MutexInv'
    BY <1>5 DEF NoHosts, TypeOK, MutexInv
  <2>2. WholeListOnly'
    BY <1>5 DEF NoHosts, TypeOK, WholeListOnly, Served
  <2> QED
    BY <1>1, <2>1, <2>2
<1>6. hosts[q] \in Seq(Host)
  BY StoredType DEF TypeOK, WholeListOnly
<1>7. CASE PickNext(q)
  <2>1. /\ offset'[q] \in DOMAIN hosts[q]
        /\ offset'[q] \in Nat \ {0}
    BY <1>6, <1>7, Remainder DEF PickNext, TypeOK
  <2>2. TypeOK' /\ MutexInv'
    BY <1>7, <2>1 DEF PickNext, TypeOK, MutexInv
  <2>3. WholeListOnly'
    BY <1>7, <2>1 DEF PickNext, TypeOK, WholeListOnly, Served
  <2> QED
    BY <1>1, <2>2, <2>3
<1>8. CASE PickRandom(q)
  <2>1. /\ offset'[q] \in DOMAIN hosts[q]
        /\ offset'[q] \in Nat \ {0}
    BY <1>6, <1>8 DEF PickRandom, TypeOK
  <2>2. TypeOK' /\ MutexInv'
    BY <1>8, <2>1 DEF PickRandom, TypeOK, MutexInv
  <2>3. WholeListOnly'
    BY <1>8, <2>1 DEF PickRandom, TypeOK, WholeListOnly, Served
  <2> QED
    BY <1>1, <2>2, <2>3
<1>9. CASE PickOnly(q)
  <2>1. cache # Torn /\ cache \in Seq(Host) /\ Len(cache) = 1
    BY <1>9, StoredType DEF PickOnly, MutexInv, FixedInv, TypeOK
  <2>2. 1 \in DOMAIN cache
    BY <2>1
  <2>3. TypeOK' /\ MutexInv'
    BY <1>9 DEF PickOnly, TypeOK, MutexInv
  <2>4. WholeListOnly'
    BY <1>9, <2>1, <2>2 DEF PickOnly, TypeOK, WholeListOnly, Served
  <2> QED
    BY <1>1, <2>3, <2>4
<1> QED
  BY <1>2, <1>3, <1>4, <1>5, <1>7, <1>8, <1>9 DEF Serve

\* Every step of the subscriber, the balancer and the name server.
LEMMA Inductive == IInv /\ [Next]_vars => IInv'
<1> SUFFICES ASSUME IInv, [Next]_vars PROVE IInv'
  OBVIOUS
<1>1. CASE Updater
  BY <1>1, UpdaterStep
<1>2. CASE \E q \in Request : Serve(q)
  BY <1>2, RequestStep
<1>3. CASE DNSChanges
  BY <1>3 DEF DNSChanges, IInv, TypeOK, MutexInv, FixedInv, WholeListOnly, Served,
              ServesLastGood, lbVars
<1>4. CASE UNCHANGED vars
  BY <1>4 DEF vars, sdVars, lbVars, IInv, TypeOK, MutexInv, FixedInv,
              WholeListOnly, Served, ServesLastGood
<1> QED
  BY <1>1, <1>2, <1>3, <1>4 DEF Next, Terminated

\* The invariant holds in every reachable state.
LEMMA Invariance == Spec => []IInv
<1> QED
  BY Initially, Inductive, PTL DEF Spec

\* Every variable keeps its type.
THEOREM TypeCorrect == Spec => []TypeOK
<1>1. IInv => TypeOK
  BY DEF IInv
<1> QED
  BY <1>1, Invariance, PTL

\* Whatever the lists and however many requests race with an update: each one
\* copies a whole list and picks inside its own copy.
THEOREM WholeLists == Spec => []WholeListOnly
<1>1. IInv => WholeListOnly
  BY DEF IInv
<1> QED
  BY <1>1, Invariance, PTL

\* Between two updates the cache is what the last successful lookup returned.
THEOREM LastGoodServed == Spec => []ServesLastGood
<1>1. IInv => ServesLastGood
  BY DEF IInv
<1> QED
  BY <1>1, Invariance, PTL

---------------------------------------------------------------------------
(* Even shares.  Quotients and remainders by a list's length, the only     *)
(* arithmetic behind them:                                                 *)

LEMMA Division ==
  ASSUME NEW n \in Nat \ {0}, NEW c \in Nat
  PROVE  c = n * (c \div n) + (c % n) /\ (c % n) \in 0..(n - 1) /\ (c \div n) \in Int
  OBVIOUS

LEMMA OneRemainder ==
  ASSUME NEW n \in Nat \ {0}, NEW a \in Int, NEW b \in Int,
         NEW r \in 0..(n - 1), NEW s \in 0..(n - 1), n * a + r = n * b + s
  PROVE  r = s
<1>1. CASE a = b
  BY <1>1
<1>2. CASE a < b
  <2>1. n * (b - a) = r - s
    OBVIOUS
  <2>2. b - a >= 1
    BY <1>2
  <2>3. n * (b - a) >= n
    BY <2>2
  <2> QED
    BY <2>1, <2>3
<1>3. CASE a > b
  <2>1. n * (a - b) = s - r
    OBVIOUS
  <2>2. a - b >= 1
    BY <1>3
  <2>3. n * (a - b) >= n
    BY <2>2
  <2> QED
    BY <2>1, <2>3
<1> QED
  BY <1>1, <1>2, <1>3

\* The position after the last is the first.
Successor(n, r) == IF r = n - 1 THEN 0 ELSE r + 1

LEMMA NextRemainder ==
  ASSUME NEW n \in Nat \ {0}, NEW c \in Nat
  PROVE  (c + 1) % n = Successor(n, c % n)
<1> DEFINE r == c % n
           d == c \div n
           s == (c + 1) % n
           e == (c + 1) \div n
<1>1. c = n * d + r /\ r \in 0..(n - 1) /\ d \in Int
  BY Division
<1>2. c + 1 = n * e + s /\ s \in 0..(n - 1) /\ e \in Int
  BY Division
<1> HIDE DEF r, d, s, e
<1>3. CASE r = n - 1
  <2>1. n * (d + 1) + 0 = n * e + s
    BY <1>1, <1>2, <1>3
  <2>2. 0 \in 0..(n - 1) /\ d + 1 \in Int
    BY <1>1
  <2>3. s = 0
    BY <1>2, <2>1, <2>2, OneRemainder
  <2>4. s = Successor(n, r)
    BY <1>3, <2>3 DEF Successor
  <2> QED
    BY <2>4 DEF r, s
<1>4. CASE r # n - 1
  <2>1. n * d + (r + 1) = n * e + s
    BY <1>1, <1>2, <1>4
  <2>2. r + 1 \in 0..(n - 1)
    BY <1>1, <1>4
  <2>3. r + 1 = s
    BY <1>1, <1>2, <2>1, <2>2, OneRemainder
  <2>4. s = Successor(n, r)
    BY <1>4, <2>3 DEF Successor
  <2> QED
    BY <2>4 DEF r, s
<1> QED
  BY <1>3, <1>4

\* The positions, from 0, that a counter passes on its way round from s to e.
Passed(s, e) == {x \in Nat : IF s <= e THEN s <= x /\ x < e ELSE s <= x \/ x < e}

\* How often a position was served after m rounds and the way from s to e.
Turns(m, s, e, j) == IF j - 1 \in Passed(s, e) THEN m + 1 ELSE m

\* What a pick at e adds at a position.
Hit(e, j) == IF j = e + 1 THEN 1 ELSE 0

InTurn(l, m, s) == \A j \in DOMAIN l : Picks(l, j) = Turns(m, s, counter % Len(l), j)

OnlyList(l) == \A q \in Served : hosts[q] \in {l, << >>}

\* The round robin started somewhere and went on by one at each pick.
SharesInv ==
  /\ IsFiniteSet(Served)
  /\ balancer = "roundrobin" =>
       \A l \in AllStored : l # << >> /\ OnlyList(l) =>
         \E m \in Nat, s \in 0..(Len(l) - 1) : InTurn(l, m, s)

\* One more pick, at e: what came round has m + 1 turns everywhere.
LEMMA OneMoreTurn ==
  ASSUME NEW n \in Nat \ {0}, NEW m \in Nat, NEW s \in 0..(n - 1), NEW e \in 0..(n - 1)
  PROVE  \E k \in Nat : \A j \in 1..n :
           Turns(k, s, Successor(n, e), j) = Turns(m, s, e, j) + Hit(e, j)
<1>1. CASE Successor(n, e) = s
  <2>1. \A j \in 1..n : Turns(m + 1, s, Successor(n, e), j)
                          = Turns(m, s, e, j) + Hit(e, j)
    BY <1>1 DEF Turns, Passed, Successor, Hit
  <2> QED
    BY <2>1
<1>2. CASE Successor(n, e) # s
  <2>1. \A j \in 1..n : Turns(m, s, Successor(n, e), j)
                          = Turns(m, s, e, j) + Hit(e, j)
    BY <1>2 DEF Turns, Passed, Successor, Hit
  <2> QED
    BY <2>1
<1> QED
  BY <1>1, <1>2

\* Nobody is served at first.
LEMMA SharesInitially == Init => SharesInv
<1> SUFFICES ASSUME Init PROVE SharesInv
  OBVIOUS
<1>1. Served = {}
  BY DEF Init, Served
<1>2. counter \in Nat
  BY Initially DEF IInv, TypeOK
<1>3. ASSUME NEW l \in AllStored, l # << >>
      PROVE  \E m \in Nat, s \in 0..(Len(l) - 1) : InTurn(l, m, s)
  <2>1. l \in Seq(Host) /\ Len(l) \in Nat \ {0}
    BY <1>3, StoredType
  <2>2. counter % Len(l) \in 0..(Len(l) - 1)
    BY <1>2, <2>1
  <2>3. \A j \in DOMAIN l : Picks(l, j) = 0
    <3>1. \A j \in DOMAIN l : {q \in Served : hosts[q] = l /\ offset[q] = j} = {}
      BY <1>1
    <3> QED
      BY <3>1, FS_EmptySet DEF Picks
  <2>4. \A j \in DOMAIN l : Turns(0, counter % Len(l), counter % Len(l), j) = 0
    BY <2>1, <2>2 DEF Turns, Passed
  <2>5. InTurn(l, 0, counter % Len(l))
    BY <2>3, <2>4 DEF InTurn
  <2> QED
    BY <2>2, <2>5
<1> QED
  BY <1>1, <1>3, FS_EmptySet DEF SharesInv

\* Steps after which the same requests have been served the same hosts.
LEMMA SharesKept ==
  ASSUME SharesInv, Served' = Served, counter' = counter, balancer' = balancer,
         \A q \in Served : hosts'[q] = hosts[q] /\ offset'[q] = offset[q]
  PROVE  SharesInv'
<1>1. ASSUME NEW l, NEW j PROVE Picks(l, j)' = Picks(l, j)
  <2>1. {q \in Served' : hosts'[q] = l /\ offset'[q] = j} = {q \in Served : hosts[q] = l /\ offset[q] = j}
    OBVIOUS
  <2> QED
    BY <2>1 DEF Picks
<1>2. ASSUME NEW l, NEW m, NEW s, InTurn(l, m, s) PROVE InTurn(l, m, s)'
  BY <1>1, <1>2 DEF InTurn
<1>3. ASSUME NEW l, OnlyList(l)' PROVE OnlyList(l)
  BY <1>3 DEF OnlyList
<1> QED
  BY <1>2, <1>3 DEF SharesInv

\* A request that is done is one more.
LEMMA OneMoreServed ==
  ASSUME TypeOK, NEW q \in Request, at[q] # "done", at' = [at EXCEPT ![q] = "done"]
  PROVE  q \notin Served /\ Served' = Served \cup {q}
  BY DEF TypeOK, Served

\* A request that picks makes one turn more at its position, and none elsewhere.
LEMMA PickIsATurn ==
  ASSUME IInv, SharesInv, NEW q \in Request, PickNext(q)
  PROVE  SharesInv'
<1>0. /\ at' = [at EXCEPT ![q] = "done"] /\ at[q] = "pick"
      /\ hosts' = hosts /\ balancer = "roundrobin" /\ hosts[q] # << >>
      /\ counter' = counter + 1
      /\ offset' = [offset EXCEPT ![q] = 1 + (counter % Len(hosts[q]))]
      /\ counter \in Nat /\ offset \in [Request -> (Nat \ {0}) \cup {-1}]
  BY DEF PickNext, Goto, IInv, TypeOK
<1>1. q \notin Served /\ Served' = Served \cup {q}
  BY <1>0, OneMoreServed DEF IInv
<1>2. IsFiniteSet(Served) /\ IsFiniteSet(Served')
  BY <1>1, FS_AddElement DEF SharesInv
<1>3. ASSUME NEW l \in AllStored, l # << >>, OnlyList(l)'
      PROVE  \E m \in Nat, s \in 0..(Len(l) - 1) : InTurn(l, m, s)'
  <2>1. hosts[q] = l /\ OnlyList(l)
    BY <1>0, <1>1, <1>3 DEF OnlyList
  <2> DEFINE n == Len(l)
             e == counter % Len(l)
  <2>2. n \in Nat \ {0} /\ DOMAIN l = 1..n
    BY <1>3, StoredType
  <2>3. e \in 0..(n - 1) /\ (counter + 1) % n = Successor(n, e)
    BY <1>0, <2>2, Division, NextRemainder
  <2>4. PICK m \in Nat, s \in 0..(n - 1) : InTurn(l, m, s)
    BY <1>0, <1>3, <2>1 DEF SharesInv
  <2>5. ASSUME NEW j \in 1..n
        PROVE  Picks(l, j)' = Picks(l, j) + Hit(e, j)
    <3> DEFINE P == {p \in Served : hosts[p] = l /\ offset[p] = j}
               R == {p \in Served' : hosts'[p] = l /\ offset'[p] = j}
    <3>1. offset'[q] = 1 + e /\ \A p \in Served : offset'[p] = offset[p]
      BY <1>0, <1>1, <2>1 DEF Served
    <3>2. IsFiniteSet(P) /\ Cardinality(P) \in Nat
      BY <1>2, FS_Subset, FS_CardinalityType
    <3>3. Picks(l, j) = Cardinality(P) /\ Picks(l, j)' = Cardinality(R)
      BY DEF Picks
    <3> HIDE DEF P, R
    <3>4. CASE j = e + 1
      <4>1. R = P \cup {q} /\ q \notin P
        BY <1>0, <1>1, <2>1, <3>1, <3>4 DEF P, R
      <4> QED
        BY <3>2, <3>4, <3>3, <4>1, FS_AddElement DEF Hit
    <3>5. CASE j # e + 1
      <4>1. R = P
        BY <1>0, <1>1, <2>1, <2>3, <3>1, <3>5 DEF P, R
      <4> QED
        BY <3>2, <3>5, <3>3, <4>1 DEF Hit
    <3> QED
      BY <3>4, <3>5
  <2>6. PICK k \in Nat : \A j \in 1..n :
          Turns(k, s, Successor(n, e), j) = Turns(m, s, e, j) + Hit(e, j)
    <3> HIDE DEF n, e
    <3> QED
      BY <2>2, <2>3, OneMoreTurn, ZenonT(30)
  <2>7. \A j \in 1..n : Picks(l, j) = Turns(m, s, e, j)
    BY <2>2, <2>4 DEF InTurn
  <2>8. \A j \in 1..n : Picks(l, j)' = Turns(k, s, (counter + 1) % n, j)
    BY <2>3, <2>5, <2>6, <2>7
  <2>9. InTurn(l, k, s)'
    BY <1>0, <2>2, <2>8 DEF InTurn
  <2> QED
    BY <2>9
<1> QED
  BY <1>2, <1>3 DEF SharesInv

\* Every step of a subscriber, a balancer or the name server.
LEMMA SharesInductive == IInv /\ SharesInv /\ [Next]_vars => SharesInv'
<1> SUFFICES ASSUME IInv, SharesInv, [Next]_vars PROVE SharesInv'
  OBVIOUS
<1> USE DEF Goto, sdVars, lbVars
<1>1. CASE Updater \/ DNSChanges \/ UNCHANGED vars
  <2>1. UNCHANGED <<at, hosts, offset, counter, balancer>>
    BY <1>1 DEF Updater, Update, Tick, LookupSucceeds, LookupFails, Lock, Store, DNSChanges, vars
  <2>2. Served' = Served
    BY <2>1 DEF Served
  <2> QED
    BY <2>1, <2>2, SharesKept
<1>2. ASSUME NEW q \in Request, RLock(q) \/ CopyHosts(q) \/ FixedHosts(q)
      PROVE  SharesInv'
  <2>1. /\ at[q] # "done" /\ at' = [at EXCEPT ![q] = at'[q]] /\ at'[q] # "done"
        /\ hosts' = [hosts EXCEPT ![q] = hosts'[q]] /\ offset' = offset
        /\ counter' = counter /\ balancer' = balancer
    BY <1>2 DEF RLock, CopyHosts, FixedHosts, IInv, TypeOK
  <2>2. Served' = Served /\ q \notin Served
    BY <2>1 DEF Served, IInv, TypeOK
  <2>3. \A p \in Served : hosts'[p] = hosts[p]
    BY <2>1, <2>2 DEF Served, IInv, TypeOK
  <2> QED
    BY <2>1, <2>2, <2>3, SharesKept
<1>3. ASSUME NEW q \in Request, NoHosts(q)
      PROVE  SharesInv'
  <2>1. UNCHANGED <<hosts, offset, counter, balancer>> /\ hosts[q] = << >>
    BY <1>3 DEF NoHosts
  <2>2. q \notin Served /\ Served' = Served \cup {q}
    BY <1>3, OneMoreServed DEF NoHosts, IInv
  <2>3. IsFiniteSet(Served')
    BY <2>2, FS_AddElement DEF SharesInv
  <2>4. ASSUME NEW l, l # << >>, NEW j PROVE Picks(l, j)' = Picks(l, j)
    <3>1. {p \in Served' : hosts'[p] = l /\ offset'[p] = j} = {p \in Served : hosts[p] = l /\ offset[p] = j}
      BY <2>1, <2>2, <2>4
    <3> QED
      BY <3>1 DEF Picks
  <2>5. ASSUME NEW l, l # << >>, NEW m, NEW s, InTurn(l, m, s) PROVE InTurn(l, m, s)'
    BY <2>1, <2>4, <2>5 DEF InTurn
  <2>6. ASSUME NEW l, OnlyList(l)' PROVE OnlyList(l)
    BY <2>1, <2>2, <2>6 DEF OnlyList
  <2> QED
    BY <2>1, <2>3, <2>5, <2>6 DEF SharesInv
<1>4. ASSUME NEW q \in Request, PickNext(q)
      PROVE  SharesInv'
  BY <1>4, PickIsATurn
<1>5. ASSUME NEW q \in Request, PickRandom(q) \/ PickOnly(q)
      PROVE  SharesInv'
  <2>1. balancer' # "roundrobin"
    BY <1>5 DEF PickRandom, PickOnly
  <2>2. Served' = Served \cup {q}
    BY <1>5, OneMoreServed DEF PickRandom, PickOnly, IInv
  <2> QED
    BY <2>1, <2>2, FS_AddElement DEF SharesInv
<1> QED
  BY <1>1, <1>2, <1>3, <1>4, <1>5 DEF Next, Serve, Terminated

\* atomic.AddUint64 (loadbalancing.go:60) gives every pick the position after
\* the last one's, in whatever order requests copy and pick: as long as the list
\* stays the same no host is two picks ahead of another.
THEOREM EvenlyShared == Spec => []EvenShares
<1>1. IInv /\ SharesInv => EvenShares
  <2> SUFFICES ASSUME IInv, SharesInv, balancer = "roundrobin", NEW l \in AllStored, OnlyList(l),
                      NEW j \in DOMAIN l, NEW k \in DOMAIN l
               PROVE  Picks(l, j) - Picks(l, k) \in -1..1
    BY DEF EvenShares, OnlyList
  <2>1. l # << >>
    OBVIOUS
  <2>2. PICK m \in Nat, s \in 0..(Len(l) - 1) : InTurn(l, m, s)
    BY <2>1 DEF SharesInv
  <2>3. Picks(l, j) \in {m, m + 1} /\ Picks(l, k) \in {m, m + 1}
    BY <2>2 DEF InTurn, Turns
  <2> QED
    BY <2>3
<1>2. Spec => []SharesInv
  BY SharesInitially, SharesInductive, Invariance, PTL DEF Spec
<1> QED
  BY <1>1, <1>2, Invariance, PTL

---------------------------------------------------------------------------
(* SRVRecords: the order of the records.                                   *)

Record == [target : SRVTargets, priority : Priorities, weight : Weights]

AnswerOK == srvs \in Seq(Record)

\* The answers are lists of records.
LEMMA AnswersAreTyped == SRVSpec => []AnswerOK
<1>1. NoAnswer => AnswerOK
  BY DEF NoAnswer, AnswerOK
<1>2. AnswerOK /\ [AnotherRecord]_srvs => AnswerOK'
  <2>1. ASSUME AnswerOK, NEW a \in Record, srvs' = Append(srvs, a) PROVE AnswerOK'
    BY <2>1 DEF AnswerOK
  <2>2. AnotherRecord => \E a \in Record : srvs' = Append(srvs, a)
    BY DEF AnotherRecord, Record
  <2>3. AnswerOK /\ UNCHANGED srvs => AnswerOK'
    BY DEF AnswerOK
  <2> QED
    BY <2>1, <2>2, <2>3
<1> QED
  BY <1>1, <1>2, PTL DEF SRVSpec

\* The fields of a record are numbers.
LEMMA RecordsAre ==
  ASSUME NEW a \in Record
  PROVE  a.target \in Nat /\ a.weight \in Nat /\ a.priority \in Nat
<1>1. a.target \in SRVTargets /\ a.weight \in Weights /\ a.priority \in Priorities
  BY DEF Record
<1>2. uint16 \subseteq Nat
  BY DEF uint16
<1> QED
  BY <1>1, <1>2, AnswerAssumption

\* The order of sort.Slice is a total one, in which no two records are equal.
LEMMA TotalOrder ==
  ASSUME NEW a \in Record, NEW b \in Record, NEW c \in Record
  PROVE  /\ ~Before(a, a)
         /\ a # b => Before(a, b) \/ Before(b, a)
         /\ ~(Before(a, b) /\ Before(b, a))
         /\ Before(a, b) /\ Before(b, c) => Before(a, c)
<1>1. /\ a.target \in Int /\ a.priority \in Int /\ a.weight \in Int
      /\ b.target \in Int /\ b.priority \in Int /\ b.weight \in Int
      /\ c.target \in Int /\ c.priority \in Int /\ c.weight \in Int
  BY RecordsAre
<1>2. a.target = b.target /\ a.priority = b.priority /\ a.weight = b.weight => a = b
  BY DEF Record
<1> QED
  BY <1>1, <1>2 DEF Before

\* The positions of a list.
LEMMA Positions ==
  ASSUME NEW S, NEW s \in Seq(S)
  PROVE  /\ Len(s) \in Nat /\ DOMAIN s = 1..Len(s)
         /\ IsFiniteSet(1..Len(s)) /\ Cardinality(1..Len(s)) = Len(s)
<1>1. PICK n \in Nat : n = Len(s)
  OBVIOUS
<1>2. IsFiniteSet(1..n) /\ Cardinality(1..n) = IF 1 > n THEN 0 ELSE n - 1 + 1
  BY FS_Interval
<1> QED
  BY <1>1, <1>2

\* p puts the records of s in order.
Sorts(p, s) ==
  /\ p \in Bijection(DOMAIN s, DOMAIN s)
  /\ \A i, j \in DOMAIN s : i < j => ~ Before(s[p[j]], s[p[i]])

\* The number of earlier records is a place for each, and no place stays free.
LEMMA SortedBy ==
  ASSUME NEW s \in Seq(Record)
  PROVE  \E p : Sorts(p, s) /\ sorted(s) = [i \in DOMAIN s |-> s[p[i]]]
<1>1. PICK n : n = Len(s)
  OBVIOUS
<1>2. /\ n \in Nat /\ DOMAIN s = 1..n /\ IsFiniteSet(1..n) /\ Cardinality(1..n) = n
      /\ \A i \in 1..n : s[i] \in Record
  BY <1>1, Positions
<1> DEFINE Early(i) == Earlier(s, i)
           rank == [i \in 1..n |-> Cardinality(Early(i)) + 1]
<1>3. ASSUME NEW i \in 1..n
      PROVE  IsFiniteSet(Early(i)) /\ i \notin Early(i) /\ Early(i) \in SUBSET (1..n)
  <2>1. Early(i) \in SUBSET (1..n) /\ i \notin Early(i)
    BY <1>2, TotalOrder DEF Earlier
  <2> HIDE DEF Early
  <2> QED
    BY <1>2, <2>1, FS_Subset
<1>4. ASSUME NEW i \in 1..n PROVE Cardinality(Early(i)) \in 0..(n - 1)
  <2> HIDE DEF Early
  <2>1. IsFiniteSet((1..n) \ {i}) /\ Cardinality((1..n) \ {i}) = n - 1
    BY <1>2, FS_RemoveElement
  <2>2. Early(i) \in SUBSET ((1..n) \ {i})
    BY <1>3
  <2>3. Cardinality(Early(i)) <= n - 1
    BY <2>1, <2>2, FS_Subset
  <2> QED
    BY <1>2, <1>3, <2>3, FS_CardinalityType
<1>5. rank \in [1..n -> 1..n]
  <2> HIDE DEF Early
  <2> QED
    BY <1>2, <1>4
<1>6. ASSUME NEW i \in 1..n, NEW j \in 1..n, i \in Early(j)
      PROVE  rank[i] < rank[j]
  <2>1. Early(i) \in SUBSET Early(j)
    <3> SUFFICES ASSUME NEW k \in Early(i) PROVE k \in Early(j)
      OBVIOUS
    <3>1. k \in 1..n /\ s[i] \in Record /\ s[j] \in Record /\ s[k] \in Record
      BY <1>2 DEF Earlier
    <3>2. /\ Before(s[k], s[i]) \/ (s[k] = s[i] /\ k < i)
          /\ Before(s[i], s[j]) \/ (s[i] = s[j] /\ i < j)
      BY <1>2, <1>6, <3>1, TotalOrder DEF Earlier
    <3>3. Before(s[k], s[j]) \/ (s[k] = s[j] /\ k < j)
      BY <1>2, <3>1, <3>2, TotalOrder
    <3> QED
      BY <1>2, <3>1, <3>3, TotalOrder DEF Earlier
  <2>2. i \notin Early(i)
    BY <1>3
  <2> HIDE DEF Early
  <2>3. /\ Cardinality(Early(i)) <= Cardinality(Early(j))
        /\ Cardinality(Early(i)) # Cardinality(Early(j))
    BY <1>3, <1>6, <2>1, <2>2, FS_Subset
  <2> QED
    BY <1>4, <2>3
<1>7. ASSUME NEW i \in 1..n, NEW j \in 1..n, i # j
      PROVE  i \in Early(j) \/ j \in Early(i)
  BY <1>2, <1>7, TotalOrder DEF Earlier
<1> HIDE DEF rank
<1>8. \A i, j \in 1..n : rank[i] = rank[j] => i = j
  <2> HIDE DEF Early
  <2>1. \A i \in 1..n : rank[i] \in Int
    BY <1>2, <1>5
  <2> QED
    BY <1>6, <1>7, <2>1
<1>9. rank \in Injection(1..n, 1..n) /\ rank \in Surjection(1..n, 1..n)
  <2>1. rank \in Injection(1..n, 1..n)
    BY <1>5, <1>8 DEF Injection, IsInjective
  <2> QED
    BY <1>2, <2>1, FS_Injection
<1> DEFINE p == [k \in 1..n |-> CHOOSE i \in 1..n : Cardinality(Earlier(s, i)) + 1 = k]
<1>10. ASSUME NEW k \in 1..n PROVE p[k] \in 1..n /\ rank[p[k]] = k
  <2>1. PICK i \in 1..n : rank[i] = k
    BY <1>9 DEF Surjection
  <2>2. \A j \in 1..n : rank[j] = Cardinality(Earlier(s, j)) + 1
    BY DEF rank
  <2>3. p[k] = CHOOSE j \in 1..n : Cardinality(Earlier(s, j)) + 1 = k
    OBVIOUS
  <2>4. p[k] \in 1..n /\ Cardinality(Earlier(s, p[k])) + 1 = k
    BY <2>1, <2>2, <2>3
  <2> QED
    BY <2>2, <2>4
<1> HIDE DEF p
<1>11. p \in [1..n -> 1..n]
  BY <1>10 DEF p
<1>12. p \in Injection(1..n, 1..n)
  BY <1>10, <1>11 DEF Injection, IsInjective
<1>13. p \in Bijection(1..n, 1..n)
  <2>1. p \in Surjection(1..n, 1..n)
    BY <1>2, <1>12, FS_Injection
  <2> QED
    BY <1>12, <2>1 DEF Bijection
<1>14. ASSUME NEW i \in 1..n, NEW j \in 1..n, i < j
       PROVE  ~ Before(s[p[j]], s[p[i]])
  <2>1. p[i] # p[j] /\ rank[p[i]] = i /\ rank[p[j]] = j /\ p[i] \in 1..n /\ p[j] \in 1..n
    BY <1>10, <1>14
  <2>2. p[j] \notin Early(p[i])
    <3> HIDE DEF Early
    <3> QED
      BY <1>2, <1>6, <1>14, <2>1
  <2> QED
    BY <1>2, <2>1, <2>2, <1>7, TotalOrder DEF Earlier
<1>15. sorted(s) = [k \in 1..n |-> s[p[k]]]
  BY <1>2 DEF p, sorted
<1> QED
  BY <1>2, <1>13, <1>14, <1>15 DEF Sorts

\* One list has one sorted form: what is at place k in one order cannot be
\* before what is there in another, since k records come up to it.
LEMMA OrdersAgree ==
  ASSUME NEW n \in Nat, NEW s \in [1..n -> Record],
         NEW p \in Bijection(1..n, 1..n), NEW q \in Bijection(1..n, 1..n),
         \A i, j \in 1..n : i < j => ~ Before(s[p[j]], s[p[i]]),
         \A i, j \in 1..n : i < j => ~ Before(s[q[j]], s[q[i]]),
         NEW k \in 1..n
  PROVE  ~ Before(s[p[k]], s[q[k]])
<1> SUFFICES ASSUME Before(s[p[k]], s[q[k]]) PROVE FALSE
  OBVIOUS
<1>1. /\ p \in [1..n -> 1..n] /\ \A i, j \in 1..n : p[i] = p[j] => i = j
      /\ q \in [1..n -> 1..n] /\ \A i \in 1..n : \E j \in 1..n : q[j] = i
  BY DEF Bijection, Injection, Surjection, IsInjective
<1> DEFINE early == {i \in 1..n : ~ Before(s[p[k]], s[i])}
<1>2. IsFiniteSet(1..k) /\ Cardinality(1..k) = k
      /\ IsFiniteSet(1..(k - 1)) /\ Cardinality(1..(k - 1)) = k - 1
  <2>1. Cardinality(1..k) = IF 1 > k THEN 0 ELSE k - 1 + 1
    BY FS_Interval
  <2>2. PICK m \in Nat : m = k - 1
    OBVIOUS
  <2>3. IsFiniteSet(1..m) /\ Cardinality(1..m) = IF 1 > m THEN 0 ELSE m - 1 + 1
    BY FS_Interval
  <2> QED
    BY <2>1, <2>2, <2>3, FS_Interval
<1>3. \A i \in 1..k : p[i] \in early
  <2> SUFFICES ASSUME NEW i \in 1..k PROVE ~ Before(s[p[k]], s[p[i]])
    <3>1. \A i \in 1..k : i \in 1..n
      OBVIOUS
    <3> QED
      BY <1>1, <3>1
  <2>1. CASE i = k
    BY <1>1, <2>1, TotalOrder
  <2>2. CASE i # k
    <3>1. i \in 1..n /\ i < k
      BY <2>2
    <3> QED
      BY <3>1
  <2> QED
    BY <2>1, <2>2
<1>4. \A i \in 1..n : q[i] \in early => i \in 1..(k - 1)
  <2> SUFFICES ASSUME NEW i \in 1..n, i >= k PROVE Before(s[p[k]], s[q[i]])
    OBVIOUS
  <2>1. /\ s[p[k]] \in Record /\ s[q[k]] \in Record /\ s[q[i]] \in Record
    BY <1>1
  <2>2. i # k => ~ Before(s[q[i]], s[q[k]])
    OBVIOUS
  <2>3. s[q[i]] = s[q[k]] \/ Before(s[q[k]], s[q[i]])
    BY <2>1, <2>2, TotalOrder
  <2> QED
    BY <2>1, <2>3, TotalOrder
<1>5. early \in SUBSET (1..n) /\ IsFiniteSet(1..n)
  BY FS_Interval
<1> HIDE DEF early
<1>6. IsFiniteSet(early)
  BY <1>5, FS_Subset
<1>7. k <= Cardinality(early)
  <2>1. PICK f : f = [i \in 1..k |-> p[i]]
    OBVIOUS
  <2>2. f \in Injection(1..k, early)
    <3>1. \A i \in 1..k : i \in 1..n /\ f[i] = p[i]
      BY <2>1
    <3>2. f \in [1..k -> early]
      BY <1>3, <2>1
    <3>3. \A i, j \in 1..k : f[i] = f[j] => i = j
      BY <1>1, <3>1
    <3> QED
      BY <3>2, <3>3 DEF Injection, IsInjective
  <2> QED
    BY <1>2, <1>6, <2>2, FS_Injection
<1>8. Cardinality(early) <= k - 1
  <2>1. PICK g : g = [i \in early |-> CHOOSE j \in 1..n : q[j] = i]
    OBVIOUS
  <2>2. ASSUME NEW i \in early PROVE g[i] \in 1..n /\ q[g[i]] = i
    BY <1>1, <1>5, <2>1
  <2>3. \A i \in early : g[i] \in 1..(k - 1)
    BY <1>4, <2>2
  <2>4. g \in [early -> 1..(k - 1)]
    BY <2>1, <2>3
  <2>5. g \in Injection(early, 1..(k - 1))
    BY <2>2, <2>4 DEF Injection, IsInjective
  <2> QED
    BY <1>2, <2>5, FS_Injection
<1>9. Cardinality(early) \in Nat
  BY <1>6, FS_CardinalityType
<1> QED
  BY <1>7, <1>8, <1>9

\* A list and the same list from its end are sorted into one.
LEMMA ReverseSorts ==
  ASSUME NEW s \in Seq(Record)
  PROVE  sorted(Reverse(s)) = sorted(s)
<1>1. PICK n : n = Len(s)
  OBVIOUS
<1>2. PICK t : t = Reverse(s)
  OBVIOUS
<1>3. /\ n \in Nat /\ DOMAIN s = 1..n /\ s \in [1..n -> Record]
  BY <1>1
<1>4. t = [i \in 1..n |-> s[n - i + 1]]
  BY <1>1, <1>2 DEF Reverse
<1>5. \A i \in 1..n : n - i + 1 \in 1..n
  BY <1>3
<1>6. t \in Seq(Record) /\ DOMAIN t = 1..n
  BY <1>3, <1>4, <1>5
<1>7. PICK p : Sorts(p, s) /\ sorted(s) = [i \in 1..n |-> s[p[i]]]
  BY <1>3, SortedBy
<1>8. PICK q : Sorts(q, t) /\ sorted(t) = [i \in 1..n |-> t[q[i]]]
  BY <1>6, SortedBy
<1>9. /\ p \in Bijection(1..n, 1..n)
      /\ \A i, j \in 1..n : i < j => ~ Before(s[p[j]], s[p[i]])
  BY <1>3, <1>7 DEF Sorts
<1>10. /\ q \in [1..n -> 1..n] /\ \A i, j \in 1..n : q[i] = q[j] => i = j
       /\ \A i \in 1..n : \E j \in 1..n : q[j] = i
       /\ \A i, j \in 1..n : i < j => ~ Before(t[q[j]], t[q[i]])
  BY <1>6, <1>8 DEF Sorts, Bijection, Injection, Surjection, IsInjective
<1>11. PICK u : u = [i \in 1..n |-> n - q[i] + 1]
  OBVIOUS
<1>12. /\ u \in [1..n -> 1..n] /\ \A i \in 1..n : u[i] = n - q[i] + 1 /\ t[q[i]] = s[u[i]]
  <2>1. ASSUME NEW i \in 1..n PROVE u[i] = n - q[i] + 1 /\ u[i] \in 1..n /\ t[q[i]] = s[u[i]]
    <3>1. q[i] \in 1..n /\ u[i] = n - q[i] + 1
      BY <1>10, <1>11
    <3>2. n - q[i] + 1 \in 1..n
      BY <1>5, <3>1
    <3>3. t[q[i]] = s[n - q[i] + 1]
      BY <1>4, <3>1
    <3> QED
      BY <3>1, <3>2, <3>3
  <2> QED
    BY <1>11, <2>1
<1>13. u \in Bijection(1..n, 1..n)
  <2>1. \A i, j \in 1..n : u[i] = u[j] => i = j
    <3> SUFFICES ASSUME NEW i \in 1..n, NEW j \in 1..n, u[i] = u[j] PROVE i = j
      OBVIOUS
    <3>1. q[i] \in 1..n /\ q[j] \in 1..n /\ n - q[i] + 1 = n - q[j] + 1
      BY <1>10, <1>12
    <3>2. q[i] = q[j]
      BY <1>3, <3>1
    <3> QED
      BY <1>10, <3>2
  <2>2. ASSUME NEW i \in 1..n PROVE \E j \in 1..n : u[j] = i
    <3>1. PICK j \in 1..n : q[j] = n - i + 1
      BY <1>5, <1>10
    <3>2. u[j] = i
      BY <1>3, <1>12, <3>1
    <3> QED
      BY <3>2
  <2> QED
    BY <1>12, <2>1, <2>2 DEF Bijection, Injection, Surjection, IsInjective
<1>14. \A i, j \in 1..n : i < j => ~ Before(s[u[j]], s[u[i]])
  BY <1>10, <1>12
<1>15. ASSUME NEW k \in 1..n PROVE s[p[k]] = t[q[k]]
  <2>1. ~ Before(s[p[k]], s[u[k]])
    BY ONLY <1>3, <1>9, <1>13, <1>14, OrdersAgree
  <2>2. ~ Before(s[u[k]], s[p[k]])
    BY ONLY <1>3, <1>9, <1>13, <1>14, OrdersAgree
  <2>3. s[p[k]] \in Record /\ s[u[k]] \in Record
    BY <1>3, <1>9, <1>12 DEF Bijection, Injection
  <2>4. s[p[k]] = s[u[k]]
    BY <2>1, <2>2, <2>3, TotalOrder
  <2> QED
    BY <1>12, <2>4
<1> QED
  BY <1>2, <1>7, <1>8, <1>15

\* Name servers may rotate their answers: whatever the records, their number and
\* their weights, resolve (dnssrv/subscriber.go:129-168) makes one list of them.
THEOREM RotationIsHarmless == SRVSpec => []OrderDoesNotMatter
<1>1. AnswerOK => OrderDoesNotMatter
  <2> SUFFICES ASSUME AnswerOK PROVE OrderDoesNotMatter
    OBVIOUS
  <2>1. sorted(Reverse(srvs)) = sorted(srvs)
    BY ReverseSorts DEF AnswerOK
  <2>2. preferred(Reverse(srvs)) = preferred(srvs)
    BY <2>1 DEF preferred
  <2> QED
    BY <2>2 DEF OrderDoesNotMatter, resolve
<1> QED
  BY <1>1, AnswersAreTyped, PTL

---------------------------------------------------------------------------
(* SRVRecords: the shares.                                                 *)

DivBy(c, x) == \E k \in Int : x = c * k

\* A remainder of zero says the same.
LEMMA DivIs ==
  ASSUME NEW c \in Nat \ {0}, NEW x \in Nat
  PROVE  x % c = 0 <=> DivBy(c, x)
<1>1. x = c * (x \div c) + (x % c) /\ (x % c) \in 0..(c - 1) /\ (x \div c) \in Int
  BY Division
<1>2. ASSUME x % c = 0 PROVE DivBy(c, x)
  <2>1. PICK k \in Int, z \in Int : k = x \div c /\ z = x % c /\ x = c * k + z
    BY <1>1
  <2>2. x = c * k
    BY <1>2, <2>1
  <2> QED
    BY <2>2 DEF DivBy
<1>3. ASSUME NEW k \in Int, x = c * k PROVE x % c = 0
  <2>1. PICK j \in Int, z \in 0..(c - 1) : j = x \div c /\ z = x % c /\ x = c * j + z
    BY <1>1
  <2>2. c * k + 0 = c * j + z
    BY <1>3, <2>1
  <2>3. 0 \in 0..(c - 1)
    OBVIOUS
  <2>4. 0 = z
    BY <2>2, <2>3, OneRemainder
  <2> QED
    BY <2>1, <2>4
<1> QED
  BY <1>2, <1>3 DEF DivBy

\* A step of the loop keeps the common divisors.
LEMMA DivStep ==
  ASSUME NEW c \in Nat \ {0}, NEW a \in Nat, NEW b \in Nat \ {0}
  PROVE  /\ a % b \in 0..(b - 1)
         /\ DivBy(c, a) /\ DivBy(c, b) <=> DivBy(c, b) /\ DivBy(c, a % b)
<1>1. PICK q \in Int, z \in 0..(b - 1) : a = b * q + z /\ z = a % b
  BY Division
<1>2. ASSUME DivBy(c, a), DivBy(c, b) PROVE DivBy(c, z)
  <2>1. PICK k \in Int, j \in Int : a = c * k /\ b = c * j
    BY <1>2 DEF DivBy
  <2>2. z = c * k - (c * j) * q
    BY <1>1, <2>1
  <2>3. (c * j) * q = c * (j * q)
    BY <2>1
  <2>4. z = c * (k - j * q) /\ k - j * q \in Int
    BY <2>2, <2>3
  <2> QED
    BY <2>4 DEF DivBy
<1>3. ASSUME DivBy(c, z), DivBy(c, b) PROVE DivBy(c, a)
  <2>1. PICK k \in Int, j \in Int : z = c * k /\ b = c * j
    BY <1>3 DEF DivBy
  <2>2. a = (c * j) * q + c * k
    BY <1>1, <2>1
  <2>3. (c * j) * q = c * (j * q)
    BY <2>1
  <2>4. a = c * (j * q + k) /\ j * q + k \in Int
    BY <2>2, <2>3
  <2> QED
    BY <2>4 DEF DivBy
<1> QED
  BY <1>1, <1>2, <1>3

Pairs(n) == {p \in Nat \X Nat : p[2] <= n}

\* f computes localGCD for second numbers up to n.
Computes(f, n) == f = [p \in Pairs(n) |-> IF p[2] = 0 THEN p[1] ELSE f[<<p[2], p[1] % p[2]>>]]

\* What localGCD divides next is smaller.
LEMMA PairsHave ==
  ASSUME NEW n \in Nat
  PROVE  /\ \A a \in Nat, b \in 0..n : <<a, b>> \in Pairs(n) /\ b \in Nat
         /\ \A p \in Pairs(n) : p[1] \in Nat /\ p[2] \in 0..n /\ p = <<p[1], p[2]>>
         /\ \A p \in Pairs(n) : p[2] # 0 =>
              p[1] % p[2] \in 0..(n - 1) /\ p[1] % p[2] \in Nat /\ p[1] % p[2] < p[2]
<1>1. \A a \in Nat, b \in 0..n : <<a, b>> \in Pairs(n) /\ b \in Nat
  BY DEF Pairs
<1>2. \A p \in Pairs(n) : p[1] \in Nat /\ p[2] \in 0..n /\ p = <<p[1], p[2]>>
  BY DEF Pairs
<1>3. ASSUME NEW p \in Pairs(n), p[2] # 0
      PROVE  p[1] % p[2] \in 0..(n - 1) /\ p[1] % p[2] \in Nat /\ p[1] % p[2] < p[2]
  <2>1. PICK a \in Nat, b \in 0..n : a = p[1] /\ b = p[2]
    BY <1>2
  <2>2. b \in Nat \ {0}
    BY <1>3, <2>1
  <2>3. (a % b) \in 0..(b - 1)
    BY <2>2, Division
  <2> QED
    BY <2>1, <2>2, <2>3
<1> QED
  BY <1>1, <1>2, <1>3

\* It can be computed up to every n.
LEMMA ComputesSome == \A n \in Nat : \E f : Computes(f, n)
<1> SUFFICES ASSUME NEW n \in Nat PROVE \E f : Computes(f, n)
  OBVIOUS
<1> DEFINE P == {k \in 0..n : \E f : Computes(f, k)}
<1>1. 0 \in P
  <2>1. \A p \in Pairs(0) : p[2] = 0
    BY PairsHave
  <2>2. Computes([p \in Pairs(0) |-> p[1]], 0)
    BY <2>1 DEF Computes
  <2> QED
    BY <2>2
<1>2. ASSUME NEW k \in 1..n, k - 1 \in P PROVE k \in P
  <2>1. PICK f : Computes(f, k - 1)
    BY <1>2
  <2> DEFINE g == [p \in Pairs(k) |-> IF p[2] = 0 THEN p[1] ELSE f[<<p[2], p[1] % p[2]>>]]
  <2>2. Pairs(k - 1) \subseteq Pairs(k) /\ k \in Nat /\ k - 1 \in Nat
    BY DEF Pairs
  <2>3. ASSUME NEW p \in Pairs(k - 1) PROVE g[p] = f[p]
    <3>1. g[p] = IF p[2] = 0 THEN p[1] ELSE f[<<p[2], p[1] % p[2]>>]
      BY <2>2
    <3> HIDE DEF g
    <3>2. f[p] = IF p[2] = 0 THEN p[1] ELSE f[<<p[2], p[1] % p[2]>>]
      BY <2>1 DEF Computes
    <3> QED
      BY <3>1, <3>2
  <2>4. ASSUME NEW p \in Pairs(k), p[2] # 0 PROVE <<p[2], p[1] % p[2]>> \in Pairs(k - 1)
    <3>1. p[2] \in Nat /\ p[1] % p[2] \in 0..(k - 1)
      BY <2>2, <2>4, PairsHave
    <3> QED
      BY <2>2, <3>1, PairsHave
  <2>5. g = [p \in Pairs(k) |-> g[p]]
    OBVIOUS
  <2>6. \A p \in Pairs(k) : g[p] = IF p[2] = 0 THEN p[1] ELSE f[<<p[2], p[1] % p[2]>>]
    OBVIOUS
  <2> HIDE DEF g
  <2>7. \A p \in Pairs(k) : g[p] = IF p[2] = 0 THEN p[1] ELSE g[<<p[2], p[1] % p[2]>>]
    BY <2>3, <2>4, <2>6
  <2>8. Computes(g, k)
    BY <2>5, <2>7 DEF Computes
  <2> QED
    BY <2>8
<1> HIDE DEF P
<1>3. \A k \in 0..n : k \in P
  BY <1>1, <1>2, ByPrefixes
<1>4. n \in 0..n
  OBVIOUS
<1> QED
  BY <1>3, <1>4 DEF P

\* Two that compute it agree.
LEMMA ComputeSame ==
  ASSUME NEW n \in Nat, NEW m \in Nat, n <= m, NEW f, Computes(f, n), NEW g, Computes(g, m)
  PROVE  \A p \in Pairs(n) : f[p] = g[p]
<1> DEFINE Same(k) == \A p \in Pairs(k) : f[p] = g[p]
           P == {k \in 0..n : Same(k)}
<1>1. Pairs(n) \subseteq Pairs(m)
  BY DEF Pairs
<1>2. ASSUME NEW p \in Pairs(n)
      PROVE  /\ f[p] = IF p[2] = 0 THEN p[1] ELSE f[<<p[2], p[1] % p[2]>>]
             /\ g[p] = IF p[2] = 0 THEN p[1] ELSE g[<<p[2], p[1] % p[2]>>]
  BY <1>1 DEF Computes
<1>3. 0 \in P
  <2>1. \A p \in Pairs(0) : p[2] = 0 /\ p \in Pairs(n)
    <3>1. Pairs(0) \subseteq Pairs(n)
      BY DEF Pairs
    <3> QED
      BY <3>1, PairsHave
  <2>2. Same(0)
    BY <1>2, <2>1
  <2>3. 0 \in 0..n
    OBVIOUS
  <2> HIDE DEF Same
  <2> QED
    BY <2>2, <2>3
<1>4. ASSUME NEW k \in 1..n, k - 1 \in P PROVE k \in P
  <2>1. k \in Nat /\ k - 1 \in Nat /\ Pairs(k) \subseteq Pairs(n)
    BY DEF Pairs
  <2>2. ASSUME NEW p \in Pairs(k) PROVE f[p] = g[p]
    <3>1. CASE p[2] = 0
      BY <1>2, <2>1, <3>1
    <3>2. CASE p[2] # 0
      <4>1. p[2] \in Nat /\ p[1] % p[2] \in 0..(k - 1)
        BY <2>1, <3>2, PairsHave
      <4>2. <<p[2], p[1] % p[2]>> \in Pairs(k - 1)
        BY <2>1, <4>1, PairsHave
      <4>3. f[<<p[2], p[1] % p[2]>>] = g[<<p[2], p[1] % p[2]>>]
        BY <1>4, <4>2
      <4> QED
        BY <1>2, <2>1, <3>2, <4>3
    <3> QED
      BY <3>1, <3>2
  <2> QED
    BY <2>2
<1> HIDE DEF P, Same
<1>5. \A k \in 0..n : k \in P
  BY <1>3, <1>4, ByPrefixes
<1>6. n \in 0..n
  OBVIOUS
<1> QED
  BY <1>5, <1>6 DEF P, Same

\* The recursive function Euclid is defined.
LEMMA EuclidDef ==
  \A a \in Nat, b \in Nat :
     Euclid[<<a, b>>] = IF b = 0 THEN a ELSE Euclid[<<b, a % b>>]
<1> DEFINE Some(n) == CHOOSE f : Computes(f, n)
           g == [p \in Nat \X Nat |-> Some(p[2])[p]]
           Is(f) == f = [p \in Nat \X Nat |-> IF p[2] = 0 THEN p[1] ELSE f[<<p[2], p[1] % p[2]>>]]
<1>1. \A n \in Nat : Computes(Some(n), n)
  BY ComputesSome
<1> HIDE DEF Some
<1>2. ASSUME NEW p \in Nat \X Nat
      PROVE  g[p] = IF p[2] = 0 THEN p[1] ELSE g[<<p[2], p[1] % p[2]>>]
  <2>1. PICK a \in Nat, b \in Nat : p = <<a, b>>
    OBVIOUS
  <2>2. p[1] = a /\ p[2] = b
    BY <2>1
  <2>3. p \in Pairs(b)
    BY <2>1, PairsHave
  <2>4. g[p] = Some(b)[p]
    BY <2>2
  <2>5. Some(b)[p] = IF b = 0 THEN a ELSE Some(b)[<<b, a % b>>]
    <3>1. Computes(Some(b), b)
      BY <1>1
    <3> QED
      BY <2>2, <2>3, <3>1 DEF Computes
  <2>6. ASSUME b # 0 PROVE g[<<b, a % b>>] = Some(b)[<<b, a % b>>]
    <3>1. a % b \in 0..(b - 1)
      BY <2>6, Division
    <3>2. PICK z \in Nat : z = a % b /\ z <= b
      BY <3>1
    <3>3. <<b, z>> \in Pairs(z) /\ <<b, z>> \in Nat \X Nat
      BY PairsHave
    <3>4. <<b, z>>[2] = z
      OBVIOUS
    <3>5. g[<<b, z>>] = Some(z)[<<b, z>>]
      BY <3>3, <3>4
    <3>6. Some(z)[<<b, z>>] = Some(b)[<<b, z>>]
      BY <1>1, <3>2, <3>3, ComputeSame
    <3> QED
      BY <3>2, <3>5, <3>6
  <2> HIDE DEF g
  <2> QED
    BY <2>2, <2>4, <2>5, <2>6
<1>3. Is(g)
  <2>1. g = [p \in Nat \X Nat |-> g[p]]
    OBVIOUS
  <2> HIDE DEF g
  <2> QED
    BY <1>2, <2>1
<1>4. Is(Euclid)
  <2>1. Euclid = CHOOSE f : Is(f)
    BY DEF Euclid
  <2> HIDE DEF Is, g
  <2> QED
    BY <1>3, <2>1
<1> SUFFICES ASSUME NEW a \in Nat, NEW b \in Nat
             PROVE  Euclid[<<a, b>>] = IF b = 0 THEN a ELSE Euclid[<<b, a % b>>]
  OBVIOUS
<1>5. <<a, b>> \in Nat \X Nat
  OBVIOUS
<1>7. PICK p \in Nat \X Nat : p = <<a, b>>
  BY <1>5
<1>8. p[1] = a /\ p[2] = b
  BY <1>7
<1>6. Euclid[p] = IF p[2] = 0 THEN p[1] ELSE Euclid[<<p[2], p[1] % p[2]>>]
  BY <1>4
<1> QED
  BY <1>6, <1>7, <1>8

\* localGCD: Euclid[<<a, b>>] has the divisors that a and b have in common.
Common(c, a, b) == DivBy(c, a) /\ DivBy(c, b)

IsCommon(a, b) ==
  /\ Euclid[<<a, b>>] \in Nat
  /\ \A c \in Nat \ {0} : Common(c, a, b) <=> DivBy(c, Euclid[<<a, b>>])

\* By the loop's steps, for every second number.
LEMMA EuclidIs == \A a \in Nat, b \in Nat : IsCommon(a, b)
<1> SUFFICES ASSUME NEW n \in Nat PROVE \A a \in Nat : IsCommon(a, n)
  OBVIOUS
<1> DEFINE Upto(k) == \A b \in 0..k : \A a \in Nat : IsCommon(a, b)
           P == {k \in 0..n : Upto(k)}
<1>1. ASSUME NEW a \in Nat PROVE IsCommon(a, 0)
  <2>1. Euclid[<<a, 0>>] = a
    BY EuclidDef
  <2>2. \A c \in Nat \ {0} : DivBy(c, 0)
    <3>1. \A c \in Nat \ {0} : 0 = c * 0
      OBVIOUS
    <3> QED
      BY <3>1 DEF DivBy
  <2> QED
    BY <2>1, <2>2 DEF IsCommon, Common
<1>2. 0 \in P
  <2>1. \A b \in 0..0 : b = 0
    OBVIOUS
  <2>2. Upto(0)
    BY <1>1, <2>1
  <2>3. 0 \in 0..n
    OBVIOUS
  <2> HIDE DEF Upto
  <2> QED
    BY <2>2, <2>3
<1>3. ASSUME NEW k \in 1..n, k - 1 \in P PROVE k \in P
  <2>1. ASSUME NEW b \in 0..k, NEW a \in Nat PROVE IsCommon(a, b)
    <3>1. CASE b \in 0..(k - 1)
      BY <1>3, <3>1
    <3>2. CASE b = k
      <4>1. b \in Nat \ {0}
        BY <3>2
      <4>2. a % b \in 0..(b - 1)
        BY <4>1, DivStep
      <4>3. PICK z \in Nat : z = a % b /\ z \in 0..(k - 1)
        BY <3>2, <4>2
      <4>4. IsCommon(b, z)
        BY <1>3, <4>1, <4>3
      <4>5. Euclid[<<a, b>>] = Euclid[<<b, z>>]
        BY <4>1, <4>3, EuclidDef
      <4>6. ASSUME NEW c \in Nat \ {0} PROVE Common(c, a, b) <=> Common(c, b, z)
        BY <4>1, <4>3, DivStep DEF Common
      <4> QED
        BY <4>4, <4>5, <4>6 DEF IsCommon
    <3> QED
      BY <3>1, <3>2
  <2>2. Upto(k) /\ k \in 0..n
    BY <2>1
  <2> HIDE DEF Upto
  <2> QED
    BY <2>2
<1> HIDE DEF P
<1>4. \A k \in 0..n : k \in P
  BY <1>2, <1>3, ByPrefixes
<1>5. Upto(n)
  BY <1>4 DEF P
<1> QED
  BY <1>5

\* gcd: the greatest common divisor of a list, and 0 of zeroes.
Gcd2(a, b) == Euclid[<<a, b>>]

GcdTo(list, k, g) ==
  /\ g \in Nat
  /\ \A c \in Nat \ {0} : (\A j \in 1..k : DivBy(c, list[j])) <=> DivBy(c, g)

\* The loop of gcd starts at zero, which all divide.
LEMMA GcdBase == ASSUME NEW list PROVE GcdTo(list, 0, 0)
<1>1. \A c \in Nat \ {0} : 0 = c * 0
  OBVIOUS
<1>2. \A c \in Nat \ {0} : DivBy(c, 0)
  BY <1>1 DEF DivBy
<1> QED
  BY <1>2 DEF GcdTo

\* It goes on by one more number.
LEMMA GcdNext ==
  ASSUME NEW list \in Seq(Nat), NEW k \in 1..Len(list), NEW g, GcdTo(list, k - 1, g)
  PROVE  GcdTo(list, k, Gcd2(g, list[k]))
<1>1. g \in Nat /\ list[k] \in Nat
  BY DEF GcdTo
<1>2. IsCommon(g, list[k])
  BY <1>1, EuclidIs
<1>3. ASSUME NEW c \in Nat \ {0}
      PROVE  (\A j \in 1..k : DivBy(c, list[j])) <=> DivBy(c, Euclid[<<g, list[k]>>])
  <2>1. (\A j \in 1..(k - 1) : DivBy(c, list[j])) <=> DivBy(c, g)
    BY DEF GcdTo
  <2>2. DivBy(c, g) /\ DivBy(c, list[k]) <=> DivBy(c, Euclid[<<g, list[k]>>])
    BY <1>2 DEF IsCommon, Common
  <2>3. \A j : j \in 1..k <=> j \in 1..(k - 1) \/ j = k
    OBVIOUS
  <2> QED
    BY <2>1, <2>2, <2>3
<1> QED
  BY <1>2, <1>3 DEF GcdTo, Gcd2, IsCommon

\* Its numbers are natural.
LEMMA Gcd2Type ==
  ASSUME NEW list \in Seq(Nat)
  PROVE  \A a \in Nat, j \in 1..Len(list) : Gcd2(a, list[j]) \in Nat
<1> SUFFICES ASSUME NEW a \in Nat, NEW j \in 1..Len(list) PROVE Gcd2(a, list[j]) \in Nat
  OBVIOUS
<1>1. list[j] \in Nat
  OBVIOUS
<1> QED
  BY <1>1, EuclidIs DEF IsCommon, Gcd2

\* After the last number it has the divisors of all.
LEMMA GcdIs ==
  ASSUME NEW list \in Seq(Nat)
  PROVE  GcdTo(list, Len(list), gcd(list))
<1> DEFINE n == Len(list)
           A == Nat
           G == [x \in A \X (1..n) |-> Gcd2(x[1], list[x[2]])]
           It(h) == h = [t \in SUBSET DOMAIN list |->
                           IF t = {} THEN 0 ELSE Gcd2(h[t \ {Max(t)}], list[Max(t)])]
<1>1. n \in Nat /\ DOMAIN list = 1..n
  OBVIOUS
<1>2. 0 \in A /\ \A a \in A, j \in 1..n : Gcd2(a, list[j]) \in A
  BY Gcd2Type
<1>3. G \in [A \X (1..n) -> A]
  BY <1>2
<1>4. \A a \in A, j \in 1..n : G[<<a, j>>] = Gcd2(a, list[j])
  OBVIOUS
<1> HIDE DEF n, G, A
<1>5. PICK it : Folds(it, A, 0, G, n)
  BY <1>1, <1>2, <1>3, FoldExists
<1>6. It(it)
  <2>1. ASSUME NEW t \in SUBSET (1..n), t # {}
        PROVE  it[t] = Gcd2(it[t \ {Max(t)}], list[Max(t)])
    <3>1. Max(t) \in t /\ Max(t) \in 1..n /\ \A y \in t : Max(t) >= y
      BY <1>1, <2>1, Greatest DEF Max
    <3>2. it[t] = G[<<it[t \ {Max(t)}], Max(t)>>] /\ it[t \ {Max(t)}] \in A
      BY <3>1, <1>5 DEF Folds
    <3> QED
      BY <3>1, <3>2, <1>4
  <2>2. it = [t \in SUBSET (1..n) |-> it[t]] /\ it[{}] = 0
    BY <1>5 DEF Folds
  <2> QED
    BY <2>1, <2>2, <1>1
<1> DEFINE fold == CHOOSE h : It(h)
<1>7. It(fold)
  BY <1>6
<1>8. gcd(list) = fold[1..n]
  BY <1>1 DEF gcd, Gcd2, FoldLeft, MapThenFoldSet
<1> HIDE DEF fold
<1>9. fold[1..0] = 0
  BY <1>1, <1>7
<1>10. ASSUME NEW k \in 1..n
       PROVE  fold[1..k] = Gcd2(fold[1..(k - 1)], list[k])
  <2>1. 1..k \in SUBSET DOMAIN list /\ 1..k # {} /\ (1..k) \ {k} = 1..(k - 1)
    BY <1>1, Prefix
  <2>2. Max(1..k) = k
    BY <1>1, Prefix DEF Max
  <2> QED
    BY <1>7, <2>1, <2>2
<1> DEFINE P == {k \in 0..n : GcdTo(list, k, fold[1..k])}
<1>11. 0 \in P
  <2>1. GcdTo(list, 0, 0)
    BY GcdBase
  <2> QED
    BY <1>1, <1>9, <2>1
<1>12. ASSUME NEW k \in 1..n, k - 1 \in P PROVE k \in P
  <2>1. GcdTo(list, k - 1, fold[1..(k - 1)]) /\ k \in 0..n /\ k \in 1..Len(list)
    BY <1>12, <1>1 DEF n
  <2>2. GcdTo(list, k, Gcd2(fold[1..(k - 1)], list[k]))
    BY <2>1, GcdNext
  <2> QED
    BY <1>10, <2>1, <2>2
<1> HIDE DEF P
<1>13. \A k \in 0..n : k \in P
  BY <1>1, <1>11, <1>12, ByPrefixes
<1>14. n \in P
  BY <1>1, <1>13
<1> QED
  BY <1>8, <1>14 DEF P, n

\* Sum: at least each of its terms, at most as many times the greatest.
Add(a, b) == a + b

SumTo(list, k, s) ==
  /\ s \in Nat
  /\ \A j \in 1..k : list[j] <= s
  /\ \A m \in Nat : (\A j \in 1..k : list[j] <= m) => s <= k * m

\* Nothing has been added at first.
LEMMA SumBase == ASSUME NEW list PROVE SumTo(list, 0, 0)
<1>1. \A m \in Nat : 0 <= 0 * m
  OBVIOUS
<1> QED
  BY <1>1 DEF SumTo

\* One more weight is added.
LEMMA SumNext ==
  ASSUME NEW list \in Seq(Nat), NEW k \in 1..Len(list), NEW s, SumTo(list, k - 1, s)
  PROVE  SumTo(list, k, Add(s, list[k]))
<1>1. s \in Nat /\ list[k] \in Nat /\ k \in Nat /\ \A j \in 1..k : list[j] \in Nat
  BY DEF SumTo
<1>2. \A j \in 1..k : list[j] <= s + list[k]
  <2> SUFFICES ASSUME NEW j \in 1..k PROVE list[j] <= s + list[k]
    OBVIOUS
  <2>1. CASE j = k
    BY <1>1, <2>1
  <2>2. CASE j \in 1..(k - 1)
    <3>1. list[j] <= s
      BY <2>2 DEF SumTo
    <3> QED
      BY <1>1, <3>1
  <2> QED
    BY <2>1, <2>2
<1>3. ASSUME NEW m \in Nat, \A j \in 1..k : list[j] <= m
      PROVE  s + list[k] <= k * m
  <2>1. \A j \in 1..(k - 1) : list[j] <= m
    BY <1>3
  <2>2. s <= (k - 1) * m
    BY <2>1 DEF SumTo
  <2>3. list[k] <= m
    BY <1>3
  <2>4. (k - 1) * m + m = k * m
    BY <1>1
  <2>5. (k - 1) * m \in Int /\ k * m \in Int
    BY <1>1
  <2> QED
    BY <1>1, <2>2, <2>3, <2>4, <2>5
<1> QED
  BY <1>1, <1>2, <1>3 DEF SumTo, Add

\* The sum of all weights.
LEMMA SumIs ==
  ASSUME NEW list \in Seq(Nat)
  PROVE  SumTo(list, Len(list), Sum(list))
<1> DEFINE n == Len(list)
           A == Nat
           G == [x \in A \X (1..n) |-> Add(x[1], list[x[2]])]
           It(h) == h = [t \in SUBSET DOMAIN list |->
                           IF t = {} THEN 0 ELSE Add(h[t \ {Max(t)}], list[Max(t)])]
<1>1. n \in Nat /\ DOMAIN list = 1..n
  OBVIOUS
<1>2. 0 \in A /\ \A a \in A, j \in 1..n : Add(a, list[j]) \in A
  BY <1>1 DEF Add
<1>3. G \in [A \X (1..n) -> A]
  BY <1>2
<1>4. \A a \in A, j \in 1..n : G[<<a, j>>] = Add(a, list[j])
  OBVIOUS
<1> HIDE DEF n, G, A
<1>5. PICK it : Folds(it, A, 0, G, n)
  BY <1>1, <1>2, <1>3, FoldExists
<1>6. It(it)
  <2>1. ASSUME NEW t \in SUBSET (1..n), t # {}
        PROVE  it[t] = Add(it[t \ {Max(t)}], list[Max(t)])
    <3>1. Max(t) \in t /\ Max(t) \in 1..n /\ \A y \in t : Max(t) >= y
      BY <1>1, <2>1, Greatest DEF Max
    <3>2. it[t] = G[<<it[t \ {Max(t)}], Max(t)>>] /\ it[t \ {Max(t)}] \in A
      BY <3>1, <1>5 DEF Folds
    <3> QED
      BY <3>1, <3>2, <1>4
  <2>2. it = [t \in SUBSET (1..n) |-> it[t]] /\ it[{}] = 0
    BY <1>5 DEF Folds
  <2> QED
    BY <2>1, <2>2, <1>1
<1> DEFINE fold == CHOOSE h : It(h)
<1>7. It(fold)
  BY <1>6
<1>8. Sum(list) = fold[1..n]
  BY <1>1 DEF Sum, Add, FoldLeft, MapThenFoldSet
<1> HIDE DEF fold
<1>9. fold[1..0] = 0
  BY <1>1, <1>7
<1>10. ASSUME NEW k \in 1..n
       PROVE  fold[1..k] = Add(fold[1..(k - 1)], list[k])
  <2>1. 1..k \in SUBSET DOMAIN list /\ 1..k # {} /\ (1..k) \ {k} = 1..(k - 1)
    BY <1>1, Prefix
  <2>2. Max(1..k) = k
    BY <1>1, Prefix DEF Max
  <2> QED
    BY <1>7, <2>1, <2>2
<1> DEFINE P == {k \in 0..n : SumTo(list, k, fold[1..k])}
<1>11. 0 \in P
  <2>1. SumTo(list, 0, 0)
    BY SumBase
  <2> QED
    BY <1>1, <1>9, <2>1
<1>12. ASSUME NEW k \in 1..n, k - 1 \in P PROVE k \in P
  <2>1. SumTo(list, k - 1, fold[1..(k - 1)]) /\ k \in 0..n /\ k \in 1..Len(list)
    BY <1>12, <1>1 DEF n
  <2>2. SumTo(list, k, Add(fold[1..(k - 1)], list[k]))
    BY <2>1, SumNext
  <2> QED
    BY <1>10, <2>1, <2>2
<1> HIDE DEF P
<1>13. \A k \in 0..n : k \in P
  BY <1>1, <1>11, <1>12, ByPrefixes
<1>14. n \in P
  BY <1>1, <1>13
<1> QED
  BY <1>8, <1>14 DEF P, n

\* Products grow with their factors.
LEMMA Times ==
  ASSUME NEW a \in Nat, NEW b \in Nat, NEW c \in Nat, a <= b
  PROVE  /\ a * c \in Nat /\ b * c \in Nat /\ a * c <= b * c
         /\ c * a = a * c /\ c * b = b * c
<1>1. PICK d \in Nat : b = a + d
  <2>1. b - a \in Nat /\ b = a + (b - a)
    OBVIOUS
  <2> QED
    BY <2>1
<1>2. b * c = a * c + d * c
  BY <1>1
<1>3. a * c \in Nat /\ d * c \in Nat /\ c * a = a * c /\ c * b = b * c
  OBVIOUS
<1> QED
  BY <1>2, <1>3

\* Rounded down, a share is not negative, more of it is not less, and one that
\* is rounded to nothing was less than the whole.
LEMMA Quotient ==
  ASSUME NEW a \in Nat, NEW b \in Nat, NEW s \in Nat \ {0}
  PROVE  /\ a \div s \in Nat
         /\ a >= b => a \div s >= b \div s
         /\ a >= s => a \div s > 0
         /\ a \div s > 0 => a > 0
<1>1. PICK k \in Int, x \in 0..(s - 1) : k = a \div s /\ a = s * k + x
  BY Division
<1>2. PICK l \in Int, y \in 0..(s - 1) : l = b \div s /\ b = s * l + y
  BY Division
<1>3. ASSUME NEW i \in Int, NEW j \in Int, NEW z \in 0..(s - 1), NEW w \in 0..(s - 1),
             s * i + z >= s * j + w
      PROVE  i >= j
  <2> SUFFICES ASSUME j >= i + 1 PROVE FALSE
    OBVIOUS
  <2>1. s * j >= s * (i + 1)
    OBVIOUS
  <2>2. s * (i + 1) = s * i + s
    OBVIOUS
  <2>3. s * i \in Int /\ s * j \in Int
    OBVIOUS
  <2> QED
    BY <1>3, <2>1, <2>2, <2>3
<1>4. 0 \in 0..(s - 1) /\ s * 0 = 0 /\ s * 1 = s
  OBVIOUS
<1>5. k >= 0
  <2>1. s * k + x >= s * 0 + 0
    BY <1>1, <1>4
  <2> QED
    BY <1>1, <1>3, <1>4, <2>1
<1>6. ASSUME a >= b PROVE k >= l
  <2>1. s * k + x >= s * l + y
    BY <1>1, <1>2, <1>6
  <2> QED
    BY <1>1, <1>2, <1>3, <2>1
<1>7. ASSUME a >= s PROVE k > 0
  <2>1. s * k + x >= s * 1 + 0
    BY <1>1, <1>4, <1>7
  <2>2. k >= 1
    BY <1>1, <1>3, <1>4, <2>1
  <2> QED
    BY <2>2
<1>8. ASSUME a = 0, k > 0 PROVE FALSE
  <2>1. s * k >= s * 1
    BY <1>8
  <2> QED
    BY <1>1, <1>4, <1>8, <2>1
<1> QED
  BY <1>1, <1>2, <1>5, <1>6, <1>7, <1>8

\* Turns follow the weights: where there is none there was no weight, more
\* weight is not fewer, and somebody has one if somebody has a weight.
Follows(ts, ws) ==
  /\ ts \in Seq(Nat) /\ DOMAIN ts = DOMAIN ws
  /\ \A i \in DOMAIN ws : ts[i] > 0 => ws[i] > 0
  /\ \A i, j \in DOMAIN ws : ws[i] >= ws[j] => ts[i] >= ts[j]
  /\ (\E i \in DOMAIN ws : ws[i] > 0) => \E i \in DOMAIN ts : ts[i] > 0

\* The scale is as long as the list, at least.
LEMMA ScaleIs ==
  ASSUME NEW ws \in Seq(Nat)
  PROVE  scale(ws) \in Nat \ {0} /\ scale(ws) >= Len(ws) /\ Len(ws) \in Nat
<1>1. Len(ws) \in Nat
  OBVIOUS
<1> QED
  BY <1>1, ScaleAssumption DEF scale

\* normalize: no weight is lost unless all others outweigh it.
LEMMA NormalizeIs ==
  ASSUME NEW ws \in Seq(Nat)
  PROVE  Follows(normalize(ws), ws) /\ (Sum(ws) <= scale(ws) => normalize(ws) = ws)
<1>1. PICK c \in Nat \ {0} : c = scale(ws) /\ c >= Len(ws)
  BY ScaleIs
<1>2. SumTo(ws, Len(ws), Sum(ws))
  BY SumIs
<1>3. PICK s \in Nat : s = Sum(ws)
  BY <1>2 DEF SumTo
<1>4. DOMAIN ws = 1..Len(ws) /\ Len(ws) \in Nat /\ \A i \in DOMAIN ws : ws[i] \in Nat
  OBVIOUS
<1>5. CASE s <= c
  <2>1. normalize(ws) = ws
    BY <1>1, <1>3, <1>5 DEF normalize
  <2> QED
    BY <2>1 DEF Follows
<1>6. CASE s > c
  <2>1. s \in Nat \ {0}
    BY <1>6
  <2>2. PICK ts : ts = [i \in DOMAIN ws |-> (ws[i] * c) \div s]
    OBVIOUS
  <2>3. normalize(ws) = ts
    BY <1>1, <1>3, <1>6, <2>2 DEF normalize
  <2>4. ASSUME NEW i \in DOMAIN ws
        PROVE  /\ ts[i] \in Nat
               /\ ts[i] > 0 => ws[i] > 0
               /\ ws[i] * c >= s => ts[i] > 0
    <3>1. PICK x \in Nat : x = ws[i] * c
      BY <1>4
    <3>2. ts[i] = x \div s
      BY <2>2, <3>1
    <3>3. ws[i] = 0 => x = 0
      BY <3>1
    <3>4. ws[i] \in Nat
      BY <1>4
    <3>5. x \div s \in Nat /\ (x \div s > 0 => x > 0) /\ (x >= s => x \div s > 0)
      BY <2>1, Quotient
    <3>6. ts[i] \in Nat /\ (ts[i] > 0 => x > 0) /\ (x >= s => ts[i] > 0)
      BY <3>2, <3>5
    <3> QED
      BY <3>1, <3>3, <3>4, <3>6
  <2>5. ASSUME NEW i \in DOMAIN ws, NEW j \in DOMAIN ws, ws[i] >= ws[j]
        PROVE  ts[i] >= ts[j]
    <3>1. PICK x \in Nat, y \in Nat : x = ws[i] * c /\ y = ws[j] * c
      BY <1>4
    <3>2. x >= y
      <4>1. ws[i] \in Nat /\ ws[j] \in Nat
        BY <1>4
      <4>2. ws[i] * c >= ws[j] * c
        BY <2>5, <4>1
      <4> QED
        BY <3>1, <4>2
    <3>3. ts[i] = x \div s /\ ts[j] = y \div s
      BY <2>2, <3>1
    <3> QED
      BY <2>1, <3>2, <3>3, Quotient
  <2>6. \E i \in DOMAIN ts : ts[i] > 0
    <3> SUFFICES ASSUME \A i \in DOMAIN ws : ws[i] * c < s PROVE FALSE
      <4>1. \A i \in DOMAIN ws : ws[i] * c \in Nat
        BY <1>4
      <4> QED
        BY <2>2, <2>4, <4>1
    <3>1. PICK m \in Int, z \in 0..(c - 1) : s - 1 = c * m + z /\ m = (s - 1) \div c
      <4>1. s - 1 \in Nat
        BY <2>1
      <4> QED
        BY <4>1, Division
    <3>2. m \in Nat
      BY <2>1, <3>1, Quotient
    <3>3. ASSUME NEW j \in 1..Len(ws) PROVE ws[j] <= m
      <4>1. ws[j] \in Nat /\ ws[j] * c < s
        BY <1>4
      <4> SUFFICES ASSUME ws[j] >= m + 1 PROVE FALSE
        BY <3>2, <4>1
      <4>2. ws[j] * c >= (m + 1) * c
        <5>1. PICK w \in Nat, k \in Nat : w = ws[j] /\ k = m + 1 /\ k <= w
          BY <3>2, <4>1
        <5>2. k * c <= w * c
          BY <5>1, Times
        <5> QED
          BY <5>1, <5>2
      <4>3. (m + 1) * c = c * m + c
        BY <3>2
      <4> QED
        BY <3>1, <4>1, <4>2, <4>3
    <3>4. s <= Len(ws) * m
      <4>1. \A k \in Nat : (\A j \in 1..Len(ws) : ws[j] <= k) => Sum(ws) <= Len(ws) * k
        BY <1>2 DEF SumTo
      <4> QED
        BY <1>3, <3>2, <3>3, <4>1
    <3>5. Len(ws) * m <= c * m
      BY <1>1, <1>4, <3>2, Times
    <3>6. PICK u \in Int, v \in Int : u = Len(ws) * m /\ v = c * m
      BY <1>4, <3>2
    <3>7. s <= u /\ u <= v /\ s - 1 = v + z
      BY <3>1, <3>4, <3>5, <3>6
    <3> QED
      BY <3>6, <3>7
  <2>7. ts \in Seq(Nat) /\ DOMAIN ts = DOMAIN ws
    BY <1>4, <2>2, <2>4
  <2> QED
    BY <1>1, <1>3, <1>6, <2>3, <2>4, <2>5, <2>6, <2>7 DEF Follows
<1> QED
  BY <1>1, <1>5, <1>6

\* Divided by h, their greatest common divisor, or by one if there is none.
Divided(ts, cs, g, h) ==
  /\ \A i \in DOMAIN ts : ts[i] = h * cs[i]
  /\ g = h \/ \A i \in DOMAIN ts : ts[i] = 0

\* A positive number times a negative one is negative.
LEMMA Negative ==
  ASSUME NEW y \in Nat \ {0}, NEW k \in Int, k < 0
  PROVE  y * k < 0
<1>1. y > 0
  OBVIOUS
<1>2. y * k \in Int
  OBVIOUS
<1> QED
  BY <1>1, <1>2

\* compact divides without a remainder.
LEMMA CompactDivides ==
  ASSUME NEW ts \in Seq(Nat), NEW cs, NEW g, GcdTo(ts, Len(ts), g),
         cs = IF g < 2 THEN ts ELSE [i \in DOMAIN ts |-> ts[i] \div g]
  PROVE  /\ cs \in Seq(Nat) /\ DOMAIN cs = DOMAIN ts
         /\ \E h \in Nat \ {0} : Divided(ts, cs, g, h)
<1>1. g \in Nat /\ DOMAIN ts = 1..Len(ts) /\ \A i \in DOMAIN ts : ts[i] \in Nat
  BY DEF GcdTo
<1>2. CASE g < 2
  <2>1. cs = ts /\ \A i \in DOMAIN ts : ts[i] = 1 * cs[i]
    <3>1. cs = ts
      BY <1>2
    <3>2. \A x \in Nat : x = 1 * x
      OBVIOUS
    <3> QED
      BY <1>1, <3>1, <3>2
  <2>4. 1 \in Nat \ {0}
    OBVIOUS
  <2>2. CASE g = 1
    BY <2>1, <2>2, <2>4 DEF Divided
  <2>3. CASE g = 0
    <3>1. ASSUME NEW i \in DOMAIN ts PROVE ts[i] = 0
      <4>1. PICK x \in Nat : x = ts[i]
        BY <1>1
      <4>2. 0 = (x + 1) * 0 /\ x + 1 \in Nat \ {0}
        OBVIOUS
      <4>3. DivBy(x + 1, 0)
        BY <4>2 DEF DivBy
      <4>4. DivBy(x + 1, x)
        BY <1>1, <2>3, <4>1, <4>2, <4>3 DEF GcdTo
      <4>5. PICK k \in Int : x = (x + 1) * k
        BY <4>4 DEF DivBy
      <4>6. k < 1
        <5> SUFFICES ASSUME k >= 1 PROVE FALSE
          OBVIOUS
        <5>1. (x + 1) * k >= (x + 1) * 1
          OBVIOUS
        <5> QED
          BY <4>5, <5>1
      <4>7. k > -1
        <5> SUFFICES ASSUME k <= -1 PROVE FALSE
          OBVIOUS
        <5>1. x + 1 \in Nat \ {0} /\ k < 0
          OBVIOUS
        <5>2. (x + 1) * k < 0
          BY <5>1, Negative
        <5> QED
          BY <4>5, <5>2
      <4>8. k = 0
        BY <4>6, <4>7
      <4>9. (x + 1) * 0 = 0
        OBVIOUS
      <4> QED
        BY <4>1, <4>5, <4>8, <4>9
    <3> QED
      BY <2>1, <2>4, <3>1 DEF Divided
  <2> QED
    BY <1>1, <1>2, <2>2, <2>3
<1>3. CASE g >= 2
  <2>1. g \in Nat \ {0} /\ cs = [i \in DOMAIN ts |-> ts[i] \div g]
    BY <1>1, <1>3
  <2>2. DivBy(g, g)
    <3>1. g = g * 1
      BY <1>1
    <3> QED
      BY <3>1 DEF DivBy
  <2>3. ASSUME NEW i \in DOMAIN ts PROVE cs[i] \in Nat /\ ts[i] = g * cs[i]
    <3>1. PICK x \in Nat : x = ts[i]
      BY <1>1
    <3>2. DivBy(g, x)
      BY <1>1, <2>1, <2>2, <3>1 DEF GcdTo
    <3>3. x % g = 0
      BY <2>1, <3>2, DivIs
    <3>4. x = g * (x \div g) + (x % g) /\ x \div g \in Nat /\ x % g \in Int
      BY <2>1, <3>3, Division, Quotient
    <3>5. x \div g = cs[i]
      BY <2>1, <3>1
    <3>6. PICK y \in Nat, z \in Int : y = x \div g /\ z = x % g /\ x = g * y + z
      BY <3>4
    <3>7. x = g * y
      BY <2>1, <3>3, <3>6
    <3> QED
      BY <3>1, <3>5, <3>6, <3>7
  <2>4. cs \in Seq(Nat) /\ DOMAIN cs = DOMAIN ts
    <3>1. DOMAIN cs = DOMAIN ts /\ cs = [i \in DOMAIN ts |-> cs[i]]
      BY <2>1
    <3>2. Len(ts) \in Nat
      OBVIOUS
    <3> QED
      BY <1>1, <2>3, <3>1, <3>2
  <2>5. Divided(ts, cs, g, g)
    BY <2>3 DEF Divided
  <2> QED
    BY <2>1, <2>4, <2>5
<1> QED
  BY <1>1, <1>2, <1>3

\* The turns are shares of the weights, in lowest terms.
Compacts(cs, ws) ==
  /\ Follows(cs, ws)
  /\ Sum(ws) <= scale(ws) => \A i, j \in DOMAIN ws : cs[i] * ws[j] = cs[j] * ws[i]
  /\ Sum(cs) > 0 => ~ \E d \in 2..Scale : \A i \in DOMAIN cs : cs[i] % d = 0

\* compact: the turns of a list of weights.
LEMMA CompactIs ==
  ASSUME NEW ws \in Seq(Nat), NEW cs, cs = compact(ws)
  PROVE  Compacts(cs, ws)
<1>1. PICK ts : ts = normalize(ws)
  OBVIOUS
<1>2. /\ ts \in Seq(Nat) /\ DOMAIN ts = DOMAIN ws
      /\ \A i \in DOMAIN ws : ts[i] > 0 => ws[i] > 0
      /\ \A i, j \in DOMAIN ws : ws[i] >= ws[j] => ts[i] >= ts[j]
      /\ (\E i \in DOMAIN ws : ws[i] > 0) => \E i \in DOMAIN ts : ts[i] > 0
      /\ Sum(ws) <= scale(ws) => ts = ws
  BY <1>1, NormalizeIs DEF Follows
<1>3. PICK g : g = gcd(ts)
  OBVIOUS
<1>4. GcdTo(ts, Len(ts), g)
  BY <1>2, <1>3, GcdIs
<1>5. cs = IF g < 2 THEN ts ELSE [i \in DOMAIN ts |-> ts[i] \div g]
  BY <1>1, <1>3 DEF compact
<1>6. cs \in Seq(Nat) /\ DOMAIN cs = DOMAIN ts
  BY <1>2, <1>4, <1>5, CompactDivides
<1>12. PICK h \in Nat \ {0} : Divided(ts, cs, g, h)
  BY <1>2, <1>4, <1>5, CompactDivides
<1>7. /\ \A i \in DOMAIN ts : ts[i] = h * cs[i]
      /\ g = h \/ \A i \in DOMAIN ts : ts[i] = 0
  BY <1>12 DEF Divided
<1>8. DOMAIN ws = 1..Len(ts) /\ \A i \in DOMAIN ws : cs[i] \in Nat /\ ts[i] \in Nat /\ ws[i] \in Nat
  <2>1. \A i \in 1..Len(ws) : ws[i] \in Nat
    OBVIOUS
  <2>2. \A i \in 1..Len(ts) : ts[i] \in Nat
    BY <1>2
  <2>3. DOMAIN ts = 1..Len(ts) /\ DOMAIN ws = 1..Len(ws)
    BY <1>2
  <2>4. \A i \in DOMAIN cs : cs[i] \in Nat
    BY <1>6
  <2> QED
    BY <1>2, <1>6, <2>1, <2>2, <2>3, <2>4
<1>9. Follows(cs, ws)
  <2>1. ASSUME NEW i \in DOMAIN ws PROVE cs[i] > 0 <=> ts[i] > 0
    <3>1. PICK x \in Nat, y \in Nat : x = cs[i] /\ y = ts[i] /\ y = h * x
      BY <1>2, <1>7, <1>8
    <3>2. x > 0 <=> y > 0
      <4>1. ASSUME x >= 1 PROVE y > 0
        <5>1. 1 * h <= x * h /\ x * h = h * x
          BY <4>1, Times
        <5> QED
          BY <3>1, <5>1
      <4>2. x = 0 => y = 0
        BY <3>1
      <4> QED
        BY <3>1, <4>1, <4>2
    <3> QED
      BY <3>1, <3>2
  <2>2. ASSUME NEW i \in DOMAIN ws, NEW j \in DOMAIN ws, ts[i] >= ts[j]
        PROVE  cs[i] >= cs[j]
    <3>6. PICK x \in Nat, y \in Nat : x = cs[i] /\ y = cs[j]
      BY <1>8
    <3>7. ts[i] = h * x /\ ts[j] = h * y
      BY <1>2, <1>7, <3>6
    <3>1. x = cs[i] /\ y = cs[j] /\ h * x >= h * y
      BY <2>2, <3>6, <3>7
    <3> SUFFICES ASSUME x + 1 <= y PROVE FALSE
      BY <3>6
    <3>2. (x + 1) * h <= y * h /\ y * h = h * y
      BY Times
    <3>3. (x + 1) * h = h * x + h
      OBVIOUS
    <3>4. PICK u \in Int, v \in Int : u = h * x /\ v = h * y
      OBVIOUS
    <3>5. u >= v /\ u + h <= v
      BY <3>1, <3>2, <3>3, <3>4
    <3> QED
      BY <3>4, <3>5
  <2> QED
    BY <1>2, <1>6, <2>1, <2>2 DEF Follows
<1>10. ASSUME Sum(ws) <= scale(ws), NEW i \in DOMAIN ws, NEW j \in DOMAIN ws
       PROVE  cs[i] * ws[j] = cs[j] * ws[i]
  <2>1. PICK x \in Nat, y \in Nat, u \in Nat, v \in Nat :
          x = cs[i] /\ y = cs[j] /\ u = ws[i] /\ v = ws[j] /\ u = h * x /\ v = h * y
    BY <1>2, <1>7, <1>8, <1>10
  <2>2. x * (h * y) = y * (h * x)
    OBVIOUS
  <2> QED
    BY <2>1, <2>2
<1>11. ASSUME Sum(cs) > 0, NEW d \in 2..Scale, \A i \in DOMAIN cs : cs[i] % d = 0
       PROVE  FALSE
  <2>1. PICK i \in DOMAIN cs : cs[i] > 0
    <3>1. SumTo(cs, Len(cs), Sum(cs)) /\ Len(cs) \in Nat /\ DOMAIN cs = 1..Len(cs)
      BY <1>6, SumIs
    <3> SUFFICES ASSUME \A i \in DOMAIN cs : ~(cs[i] > 0) PROVE FALSE
      OBVIOUS
    <3>2. \A i \in DOMAIN cs : cs[i] <= 0
      BY <1>2, <1>6, <1>8
    <3>3. Sum(cs) <= Len(cs) * 0
      BY <3>1, <3>2 DEF SumTo
    <3>4. Len(cs) * 0 = 0 /\ Sum(cs) \in Nat
      BY <3>1 DEF SumTo
    <3> QED
      BY <1>11, <3>3, <3>4
  <2>2. g = h
    <3>1. PICK x \in Nat : x = cs[i] /\ x >= 1
      BY <1>2, <1>6, <1>8, <2>1
    <3>2. 1 * h <= x * h /\ x * h = h * x
      BY <3>1, Times
    <3>3. ts[i] # 0
      BY <1>6, <1>7, <2>1, <3>1, <3>2
    <3> QED
      BY <1>6, <1>7, <2>1, <3>3
  <2>3. PICK c \in Nat \ {0} : c = h * d
    <3>1. d \in Nat /\ d >= 1
      BY ScaleAssumption
    <3>2. 1 * h <= d * h /\ d * h = h * d
      BY <3>1, Times
    <3>3. h * d \in Nat
      BY <3>1
    <3> QED
      BY <3>2, <3>3
  <2>4. ASSUME NEW j \in 1..Len(ts) PROVE DivBy(c, ts[j])
    <3>1. PICK x \in Nat, y \in Nat : x = cs[j] /\ y = ts[j] /\ y = h * x
      BY <1>2, <1>7, <1>8
    <3>2. d \in Nat \ {0} /\ x % d = 0
      <4>1. j \in DOMAIN cs
        BY <1>2, <1>6, <1>8
      <4>2. cs[j] % d = 0
        BY <1>11, <4>1
      <4>3. d \in Nat \ {0}
        BY ScaleAssumption
      <4> QED
        BY <3>1, <4>2, <4>3
    <3>3. DivBy(d, x)
      BY <3>2, DivIs
    <3>4. PICK k \in Int : x = d * k
      BY <3>3 DEF DivBy
    <3>5. h * (d * k) = (h * d) * k
      BY <3>2
    <3>6. y = c * k
      BY <2>3, <3>1, <3>4, <3>5
    <3> QED
      BY <3>1, <3>6 DEF DivBy
  <2>5. DivBy(c, h)
    BY <1>4, <2>2, <2>4 DEF GcdTo
  <2>6. PICK k \in Int : h = c * k
    BY <2>5 DEF DivBy
  <2>7. k >= 1
    <3> SUFFICES ASSUME k <= 0 PROVE FALSE
      OBVIOUS
    <3>1. c * k <= 0
      OBVIOUS
    <3> QED
      BY <2>6, <3>1
  <2>8. 1 * c <= k * c /\ k * c = c * k
    BY <2>7, Times
  <2>9. 2 * h <= d * h /\ d * h = h * d
    BY Times, ScaleAssumption
  <2>10. d * h \in Int
    BY ScaleAssumption
  <2> QED
    BY <2>3, <2>6, <2>8, <2>9, <2>10
<1> QED
  BY <1>9, <1>10, <1>11 DEF Compacts

\* repeated: hosts that have a turn, and none is left out only if none has one.
Repeat(host, times, l, i) == l \o [j \in 1..times[i] |-> host[i]]

RepeatedTo(host, times, l, k) ==
  /\ l \in Seq(Nat)
  /\ \A i \in DOMAIN l : \E j \in 1..k : times[j] > 0 /\ l[i] = host[j]
  /\ (\E j \in 1..k : times[j] > 0) => l # << >>

Paired(host, times) == host \in Seq(Nat) /\ times \in Seq(Nat) /\ DOMAIN times = DOMAIN host

\* A host with its repetitions.
Longer(r, l, x, m) ==
  /\ r \in Seq(Nat) /\ Len(r) = Len(l) + m /\ m \in Nat
  /\ \A j \in 1..Len(r) : r[j] = IF j <= Len(l) THEN l[j] ELSE x

\* A repeated host adds its copies at the end and changes nothing before them.
LEMMA RepeatType ==
  ASSUME NEW host, NEW times, Paired(host, times), NEW i \in 1..Len(host), NEW l \in Seq(Nat),
         NEW r, r = Repeat(host, times, l, i)
  PROVE  Longer(r, l, host[i], times[i])
<1>1. host[i] \in Nat /\ i \in 1..Len(times)
  BY DEF Paired
<1>2. PICK m \in Nat : m = times[i]
  BY <1>1 DEF Paired
<1>3. PICK e : e = [j \in 1..m |-> host[i]]
  OBVIOUS
<1>4. e \in Seq(Nat) /\ Len(e) = m /\ \A j \in 1..m : e[j] = host[i]
  BY <1>1, <1>3
<1>5. r = l \o e
  <2>1. e = [j \in 1..times[i] |-> host[i]]
    BY <1>2, <1>3
  <2> QED
    BY <2>1 DEF Repeat
<1> HIDE DEF Repeat
<1>6. r \in Seq(Nat) /\ Len(r) = Len(l) + m
  BY <1>4, <1>5, ConcatProperties
<1>7. ASSUME NEW j \in 1..Len(r) PROVE r[j] = IF j <= Len(l) THEN l[j] ELSE host[i]
  <2>1. r[j] = IF j <= Len(l) THEN l[j] ELSE e[j - Len(l)]
    BY <1>4, <1>5, <1>6
  <2>2. ~(j <= Len(l)) => j - Len(l) \in 1..m
    BY <1>6
  <2> QED
    BY <1>4, <2>1, <2>2
<1> QED
  BY <1>2, <1>6, <1>7 DEF Longer

\* The next host of the list.
LEMMA RepeatNext ==
  ASSUME NEW host, NEW times, Paired(host, times), NEW k \in 1..Len(host), NEW l,
         RepeatedTo(host, times, l, k - 1)
  PROVE  RepeatedTo(host, times, Repeat(host, times, l, k), k)
<1>1. PICK r : r = Repeat(host, times, l, k)
  OBVIOUS
<1>2. l \in Seq(Nat) /\ Len(l) \in Nat /\ DOMAIN l = 1..Len(l)
  BY DEF RepeatedTo
<1>3. /\ r \in Seq(Nat) /\ Len(r) = Len(l) + times[k] /\ times[k] \in Nat
      /\ \A j \in 1..Len(r) : r[j] = IF j <= Len(l) THEN l[j] ELSE host[k]
  <2>1. Longer(r, l, host[k], times[k])
    BY <1>1, <1>2, RepeatType
  <2> QED
    BY <2>1 DEF Longer
<1>4. ASSUME NEW i \in 1..Len(r)
      PROVE  \E j \in 1..k : times[j] > 0 /\ r[i] = host[j]
  <2>1. CASE i <= Len(l)
    <3>1. i \in DOMAIN l
      BY <1>2, <2>1
    <3>2. PICK j \in 1..(k - 1) : times[j] > 0 /\ l[i] = host[j]
      BY <3>1 DEF RepeatedTo
    <3>3. j \in 1..k /\ r[i] = l[i]
      BY <1>3, <2>1
    <3> QED
      BY <3>2, <3>3
  <2>2. CASE ~(i <= Len(l))
    <3>1. r[i] = host[k] /\ times[k] > 0 /\ k \in 1..k
      BY <1>2, <1>3, <2>2
    <3> QED
      BY <3>1
  <2> QED
    BY <2>1, <2>2
<1>5. ASSUME NEW j \in 1..k, times[j] > 0 PROVE r # << >>
  <2>1. Len(r) > 0
    <3>1. CASE j = k
      BY <1>2, <1>3, <1>5, <3>1
    <3>2. CASE j \in 1..(k - 1)
      <4>1. l # << >>
        BY <1>5, <3>2 DEF RepeatedTo
      <4>2. Len(l) > 0
        BY <1>2, <4>1
      <4> QED
        BY <1>2, <1>3, <4>2
    <3> QED
      BY <3>1, <3>2
  <2> QED
    BY <2>1
<1>6. DOMAIN r = 1..Len(r)
  BY <1>3
<1> QED
  BY <1>1, <1>3, <1>4, <1>5, <1>6 DEF RepeatedTo

\* No host has been repeated at first.
LEMMA RepeatNone == ASSUME NEW host, NEW times PROVE RepeatedTo(host, times, << >>, 0)
  BY DEF RepeatedTo

\* The lists of hosts are closed under it.
LEMMA RepeatInOrder ==
  ASSUME NEW host, NEW times, Paired(host, times), NEW list, list = [i \in DOMAIN host |-> i]
  PROVE  \A a \in Seq(Nat), j \in 1..Len(list) : Repeat(host, times, a, list[j]) \in Seq(Nat)
<1>1. DOMAIN host = 1..Len(host) /\ Len(host) \in Nat
  BY DEF Paired
<1>2. Len(list) = Len(host) /\ \A j \in 1..Len(list) : list[j] = j
  BY <1>1
<1> SUFFICES ASSUME NEW a \in Seq(Nat), NEW j \in 1..Len(list)
             PROVE  Repeat(host, times, a, list[j]) \in Seq(Nat)
  OBVIOUS
<1>3. list[j] = j /\ j \in 1..Len(host)
  BY <1>2
<1>4. Longer(Repeat(host, times, a, j), a, host[j], times[j])
  BY <1>3, RepeatType
<1> QED
  BY <1>3, <1>4 DEF Longer

\* After the last host.
LEMMA RepeatedIs ==
  ASSUME NEW host, NEW times, Paired(host, times)
  PROVE  RepeatedTo(host, times, repeated(host, times), Len(host))
<1> DEFINE list == [i \in DOMAIN host |-> i]
<1>0. Len(list) = Len(host) /\ Len(host) \in Nat /\ DOMAIN list = 1..Len(host)
      /\ \A j \in 1..Len(host) : list[j] = j
  BY DEF Paired
<1> DEFINE n == Len(list)
           A == Seq(Nat)
           G == [x \in A \X (1..n) |-> Repeat(host, times, x[1], list[x[2]])]
           It(h) == h = [t \in SUBSET DOMAIN list |->
                           IF t = {} THEN << >> ELSE Repeat(host, times, h[t \ {Max(t)}], list[Max(t)])]
<1>1. n \in Nat /\ DOMAIN list = 1..n
  BY <1>0
<1>2. << >> \in A /\ \A a \in A, j \in 1..n : Repeat(host, times, a, list[j]) \in A
  BY RepeatInOrder
<1>3. G \in [A \X (1..n) -> A]
  BY <1>2
<1>4. \A a \in A, j \in 1..n : G[<<a, j>>] = Repeat(host, times, a, list[j])
  OBVIOUS
<1> HIDE DEF n, G, A
<1>5. PICK it : Folds(it, A, << >>, G, n)
  BY <1>1, <1>2, <1>3, FoldExists
<1>6. It(it)
  <2>1. ASSUME NEW t \in SUBSET (1..n), t # {}
        PROVE  it[t] = Repeat(host, times, it[t \ {Max(t)}], list[Max(t)])
    <3>1. Max(t) \in t /\ Max(t) \in 1..n /\ \A y \in t : Max(t) >= y
      BY <1>1, <2>1, Greatest DEF Max
    <3>2. it[t] = G[<<it[t \ {Max(t)}], Max(t)>>] /\ it[t \ {Max(t)}] \in A
      BY <3>1, <1>5 DEF Folds
    <3> QED
      BY <3>1, <3>2, <1>4
  <2>2. it = [t \in SUBSET (1..n) |-> it[t]] /\ it[{}] = << >>
    BY <1>5 DEF Folds
  <2> QED
    BY <2>1, <2>2, <1>1
<1> DEFINE fold == CHOOSE h : It(h)
<1>7. It(fold)
  BY <1>6
<1>8. repeated(host, times) = fold[1..n]
  BY <1>1 DEF repeated, Repeat, FoldLeft, MapThenFoldSet
<1> HIDE DEF fold
<1>9. fold[1..0] = << >>
  BY <1>1, <1>7
<1>10. ASSUME NEW k \in 1..n
       PROVE  fold[1..k] = Repeat(host, times, fold[1..(k - 1)], list[k])
  <2>1. 1..k \in SUBSET DOMAIN list /\ 1..k # {} /\ (1..k) \ {k} = 1..(k - 1)
    BY <1>1, Prefix
  <2>2. Max(1..k) = k
    BY <1>1, Prefix DEF Max
  <2> QED
    BY <1>7, <2>1, <2>2
<1> DEFINE P == {k \in 0..n : RepeatedTo(host, times, fold[1..k], k)}
<1>11. 0 \in P
  <2>1. RepeatedTo(host, times, << >>, 0)
    BY RepeatNone
  <2> QED
    BY <1>1, <1>9, <2>1
<1>12. ASSUME NEW k \in 1..n, k - 1 \in P PROVE k \in P
  <2>1. RepeatedTo(host, times, fold[1..(k - 1)], k - 1) /\ k \in 0..n /\ k \in 1..Len(list)
    BY <1>12, <1>1 DEF n
  <2>2. RepeatedTo(host, times, Repeat(host, times, fold[1..(k - 1)], list[k]), k)
    BY <2>1, <1>0, RepeatNext
  <2> QED
    BY <1>10, <2>1, <2>2
<1> HIDE DEF P
<1>13. \A k \in 0..n : k \in P
  BY <1>1, <1>11, <1>12, ByPrefixes
<1>14. n \in P
  BY <1>1, <1>13
<1> QED
  BY <1>8, <1>14 DEF P, n

\* Numbers that have no gap below them are counted by the greatest.
LEMMA NoGap ==
  ASSUME NEW n \in Nat, NEW C \in SUBSET (1..n), \A i \in C : \A j \in 1..i : j \in C
  PROVE  Cardinality(C) \in 0..n /\ C = 1..Cardinality(C)
<1>1. CASE C = {}
  <2>1. Cardinality(C) = 0 /\ 1..0 = {}
    BY <1>1, FS_EmptySet
  <2> QED
    BY <1>1, <2>1
<1>2. CASE C # {}
  <2>1. PICK m \in C : \A y \in C : m >= y
    BY <1>2, Greatest
  <2>2. m \in 1..n /\ C = 1..m
    <3>1. \A y \in C : y \in 1..n
      OBVIOUS
    <3>2. \A y \in 1..n : m >= y => y \in 1..m
      OBVIOUS
    <3>3. \A j \in 1..m : j \in C
      BY <2>1
    <3>4. C \subseteq 1..m
      BY <2>1, <3>1, <3>2
    <3>5. 1..m \subseteq C
      BY <3>3
    <3> QED
      BY <2>1, <3>1, <3>4, <3>5
  <2>3. Cardinality(1..m) = m
    BY <2>2, FS_Interval
  <2> QED
    BY <2>2, <2>3
<1> QED
  BY <1>1, <1>2

\* preferred: the records of the lowest priority.
LEMMA PreferredAre ==
  ASSUME AnswerOK, NEW s, s = preferred(srvs)
  PROVE  s \in Seq(Record) /\ {s[i] : i \in DOMAIN s} = Lowest
<1>1. PICK t : t = sorted(srvs)
  OBVIOUS
<1>2. PICK n : n = Len(srvs)
  OBVIOUS
<1>3. /\ n \in Nat /\ DOMAIN srvs = 1..n
      /\ \A i \in 1..n : srvs[i] \in Record
  BY <1>2 DEF AnswerOK
<1>4. PICK p : Sorts(p, srvs) /\ t = [i \in 1..n |-> srvs[p[i]]]
  BY <1>1, <1>3, SortedBy DEF AnswerOK
<1>5. /\ \A i \in 1..n : p[i] \in 1..n
      /\ \A j \in 1..n : \E i \in 1..n : p[i] = j
      /\ \A i, j \in 1..n : i < j => ~ Before(srvs[p[j]], srvs[p[i]])
  BY <1>3, <1>4 DEF Sorts, Bijection, Injection, Surjection
<1>6. /\ t \in Seq(Record) /\ Len(t) = n /\ DOMAIN t = 1..n
      /\ \A i \in 1..n : t[i] = srvs[p[i]] /\ t[i] \in Record
  <2>1. \A i \in 1..n : srvs[p[i]] \in Record
    BY <1>3, <1>5
  <2>2. \A i \in 1..n : t[i] = srvs[p[i]]
    BY <1>4
  <2>3. t = [i \in 1..n |-> t[i]]
    BY <1>4
  <2>4. \A i \in 1..n : t[i] \in Record
    BY <2>1, <2>2
  <2>5. t \in Seq(Record) /\ Len(t) = n
    BY <1>3, <2>3, <2>4
  <2> QED
    BY <2>2, <2>3, <2>4, <2>5
<1>7. \A a \in Record : a.priority \in Int
  BY RecordsAre
<1>8. ASSUME NEW i \in 1..n, NEW j \in 1..n, i <= j
      PROVE  t[i].priority <= t[j].priority
  <2>1. t[i].priority \in Int /\ t[j].priority \in Int
    BY <1>6, <1>7
  <2>2. CASE i = j
    BY <2>1, <2>2
  <2>3. CASE i < j
    <3>1. ~ Before(t[j], t[i])
      BY <1>5, <1>6, <2>3
    <3>2. ~(t[j].priority < t[i].priority)
      BY <3>1 DEF Before
    <3> QED
      BY <2>1, <3>2
  <2> QED
    BY <1>3, <1>8, <2>2, <2>3
<1>9. PICK C : C = {i \in DOMAIN t : t[i].priority = t[1].priority}
  OBVIOUS
<1>10. PICK c : c = Cardinality(C)
  OBVIOUS
<1>11. c \in 0..n /\ C = 1..c
  <2>1. C \in SUBSET (1..n)
    BY <1>6, <1>9
  <2>2. ASSUME NEW i \in C, NEW j \in 1..i PROVE j \in C
    <3>1. i \in 1..n /\ j \in 1..n /\ 1 \in 1..n /\ 1 <= j /\ j <= i
      BY <1>3, <2>1
    <3>2. t[i].priority = t[1].priority
      BY <1>9
    <3>3. t[1].priority <= t[j].priority /\ t[j].priority <= t[i].priority
      BY <1>8, <3>1
    <3>4. /\ t[1].priority \in Int /\ t[j].priority \in Int
          /\ t[i].priority \in Int
      BY <1>6, <1>7, <3>1
    <3>5. t[j].priority = t[1].priority
      BY <3>2, <3>3, <3>4
    <3> QED
      BY <1>6, <1>9, <3>1, <3>5
  <2> QED
    BY <1>3, <1>10, <2>1, <2>2, NoGap
<1>12. s = SubSeq(t, 1, c)
  BY <1>1, <1>9, <1>10 DEF preferred
<1>13. s \in Seq(Record) /\ Len(s) = c /\ DOMAIN s = 1..c /\ \A i \in 1..c : s[i] = t[i]
  BY <1>3, <1>6, <1>11, <1>12
<1>14. ASSUME NEW i \in 1..c PROVE s[i] \in Lowest
  <2>1. i \in 1..n /\ 1 \in 1..n /\ t[i].priority = t[1].priority
    BY <1>3, <1>9, <1>11
  <2>2. s[i] = srvs[p[i]] /\ p[i] \in DOMAIN srvs
    BY <1>3, <1>5, <1>6, <1>13, <2>1
  <2>3. ASSUME NEW j \in DOMAIN srvs PROVE s[i].priority <= srvs[j].priority
    <3>1. PICK k \in 1..n : p[k] = j
      BY <1>3, <1>5
    <3>2. t[1].priority <= t[k].priority
      BY <1>8, <2>1
    <3> QED
      BY <1>6, <1>13, <2>1, <3>1, <3>2
  <2> QED
    BY <2>2, <2>3 DEF Lowest
<1>15. ASSUME NEW a \in Lowest PROVE \E i \in 1..c : s[i] = a
  <2>1. PICK j \in 1..n : a = srvs[j]
    BY <1>3 DEF Lowest
  <2>2. PICK k \in 1..n : p[k] = j
    BY <1>5, <2>1
  <2>3. a = t[k] /\ 1 \in 1..n
    BY <1>3, <1>6, <2>1, <2>2
  <2>4. t[k].priority <= t[1].priority
    <3>1. p[1] \in DOMAIN srvs /\ t[1] = srvs[p[1]]
      BY <1>3, <1>5, <1>6, <2>3
    <3>2. a.priority <= srvs[p[1]].priority
      BY <3>1 DEF Lowest
    <3> QED
      BY <2>3, <3>1, <3>2
  <2>5. t[1].priority <= t[k].priority
    BY <1>3, <1>8, <2>3
  <2>6. t[1].priority \in Int /\ t[k].priority \in Int
    BY <1>6, <1>7, <2>3
  <2>7. k \in C
    BY <1>6, <1>9, <2>4, <2>5, <2>6
  <2> QED
    BY <1>11, <1>13, <2>3, <2>7
<1>16. {s[i] : i \in DOMAIN s} = Lowest
  <2>1. {s[i] : i \in DOMAIN s} \subseteq Lowest
    BY <1>13, <1>14
  <2>2. Lowest \subseteq {s[i] : i \in DOMAIN s}
    BY <1>13, <1>15
  <2> QED
    BY <2>1, <2>2
<1> QED
  BY <1>13, <1>16

\* Whatever the records of an answer and whatever the scale: the hosts resolve
\* (dnssrv/subscriber.go:129-204) lists are those of the lowest priority that
\* have a weight, there is one if there can be, and each has as many turns as
\* its weight, in lowest terms or rounded down, asks for.
THEOREM SharesExact == SRVSpec => []SharesAreWeights
<1>1. ASSUME AnswerOK PROVE SharesAreWeights
  <2>1. PICK s : s = preferred(srvs)
    OBVIOUS
  <2>2. s \in Seq(Record) /\ {s[i] : i \in DOMAIN s} = Lowest
    BY <1>1, <2>1, PreferredAre
  <2>3. PICK host, ws : host = [i \in DOMAIN s |-> s[i].target]
                        /\ ws = [i \in DOMAIN s |-> s[i].weight]
    OBVIOUS
  <2>4. PICK cs : cs = compact(ws)
    OBVIOUS
  <2>5. PICK list : list = repeated(host, cs)
    OBVIOUS
  <2>6. resolve(srvs) = list
    BY <2>1, <2>3, <2>4, <2>5 DEF resolve
  <2>7. /\ DOMAIN s = 1..Len(s) /\ Len(s) \in Nat
        /\ \A i \in DOMAIN s : s[i].target \in Nat /\ s[i].weight \in Nat
    BY <2>2, RecordsAre
  <2>8. /\ ws \in Seq(Nat) /\ host \in Seq(Nat) /\ Len(host) = Len(s)
        /\ DOMAIN ws = DOMAIN s /\ DOMAIN host = DOMAIN s
        /\ \A i \in DOMAIN s : host[i] = s[i].target /\ ws[i] = s[i].weight
    BY <2>3, <2>7
  <2>9. /\ Follows(cs, ws)
        /\ Sum(ws) <= scale(ws) => \A i, j \in DOMAIN ws : cs[i] * ws[j] = cs[j] * ws[i]
        /\ Sum(cs) > 0 => ~ \E d \in 2..Scale : \A i \in DOMAIN cs : cs[i] % d = 0
    <3>1. Compacts(cs, ws)
      BY <2>4, <2>8, CompactIs
    <3> QED
      BY <3>1 DEF Compacts
  <2>10. Paired(host, cs)
    BY <2>8, <2>9 DEF Paired, Follows
  <2>11. RepeatedTo(host, cs, list, Len(s))
    BY <2>5, <2>8, <2>10, RepeatedIs
  <2>12. PICK P : P = {a.target : a \in {b \in Lowest : b.weight > 0}}
    OBVIOUS
  <2>13. ASSUME P # {} PROVE list # << >>
    <3>1. PICK b \in Lowest : b.weight > 0
      BY <2>12, <2>13
    <3>2. PICK i \in DOMAIN s : s[i] = b
      BY <2>2, <3>1
    <3>3. i \in DOMAIN ws /\ ws[i] > 0
      BY <2>8, <3>1, <3>2
    <3>4. PICK j \in DOMAIN cs : cs[j] > 0
      BY <2>9, <3>3 DEF Follows
    <3>5. j \in 1..Len(s)
      BY <2>7, <2>8, <2>9, <3>4 DEF Follows
    <3> QED
      BY <2>11, <3>4, <3>5 DEF RepeatedTo
  <2>14. ASSUME NEW i \in DOMAIN list PROVE list[i] \in P
    <3>1. PICK j \in 1..Len(s) : cs[j] > 0 /\ list[i] = host[j]
      BY <2>11 DEF RepeatedTo
    <3>2. j \in DOMAIN s /\ s[j] \in Lowest
      BY <2>2, <2>7
    <3>3. ws[j] > 0
      BY <2>8, <2>9, <3>1, <3>2 DEF Follows
    <3>4. s[j].weight > 0 /\ list[i] = s[j].target
      BY <2>8, <3>1, <3>2, <3>3
    <3> QED
      BY <2>12, <3>2, <3>4
  <2>15. \A i, j \in DOMAIN ws : ws[i] >= ws[j] => cs[i] >= cs[j]
    BY <2>9 DEF Follows
  <2> QED
    BY <2>1, <2>3, <2>4, <2>6, <2>9, <2>12, <2>13, <2>14, <2>15 DEF SharesAreWeights
<1>2. AnswerOK => SharesAreWeights
  BY <1>1
<1> QED
  BY <1>2, AnswersAreTyped, PTL

---------------------------------------------------------------------------
(* RouterEndpoints: the engines' tables.                                   *)

\* The elements of a set as a sequence.
LEMMA ListOf ==
  ASSUME NEW S, IsFiniteSet(S)
  PROVE  /\ SetToSeq(S) \in Seq(S) /\ Range(SetToSeq(S)) = S
         /\ \A i, j \in DOMAIN SetToSeq(S) : SetToSeq(S)[i] = SetToSeq(S)[j] => i = j
<1>1. PICK n \in Nat : n = Cardinality(S)
  BY FS_CardinalityType
<1>2. PICK f : f \in Bijection(1..n, S)
  BY <1>1, FS_CardinalityType DEF ExistsBijection
<1>3. f \in [1..n -> S] /\ IsInjective(f)
  BY <1>2 DEF Bijection, Injection
<1>4. PICK s : s = SetToSeq(S)
  OBVIOUS
<1>5. s \in [1..n -> S] /\ IsInjective(s)
  BY <1>1, <1>3, <1>4 DEF SetToSeq
<1>6. IsFiniteSet(1..n) /\ Cardinality(1..n) = n
  BY FS_Interval
<1>7. s \in Surjection(1..n, S)
  <2>1. s \in Injection(1..n, S)
    BY <1>5 DEF Injection
  <2> QED
    BY <1>1, <1>6, <2>1, FS_Injection
<1>8. Range(s) = S
  BY <1>5, <1>7 DEF Surjection, Range
<1>9. s \in Seq(S) /\ DOMAIN s = 1..n
  BY <1>5
<1>10. \A i, j \in DOMAIN s : s[i] = s[j] => i = j
  BY <1>5 DEF IsInjective
<1> QED
  BY <1>4, <1>8, <1>9, <1>10

Handlers == [what : {"none", "health", "debug", "echo", "endpoint", "failed", "options"}, of : Nat]

EndpointMethods == {"GET", "POST"}

Table == [routes : [Routes -> Handlers], panics : BOOLEAN,
          catalog : [RoutePath -> Seq(EndpointMethods)], allow : [RoutePath -> SUBSET EndpointMethods]]

LEMMA HandlersDiffer ==
  ASSUME NEW what \in {"health", "debug", "echo", "endpoint", "failed", "options"}, NEW i \in Nat
  PROVE  Handler(what, i) \in Handlers /\ Handler(what, i) # NoHandler
<1>1. Handler(what, i).what = what /\ NoHandler.what = "none"
  BY DEF Handler, NoHandler
<1>2. what # "none"
  OBVIOUS
<1>3. Handler(what, i) \in Handlers
  BY DEF Handler, Handlers
<1> QED
  BY <1>1, <1>2, <1>3

\* A table with another route.
LEMMA RouteSet ==
  ASSUME NEW t \in Table, NEW r \in Routes, NEW h \in Handlers, NEW new, NEW u,
         new \in [Routes -> Handlers], new[r] = h, \A q \in Routes : q # r => new[q] = t.routes[q],
         u = [routes |-> new, panics |-> t.panics, catalog |-> t.catalog, allow |-> t.allow]
  PROVE  /\ u \in Table /\ u.panics = t.panics /\ u.catalog = t.catalog /\ u.allow = t.allow
         /\ u.routes[r] = h /\ \A q \in Routes : q # r => u.routes[q] = t.routes[q]
<1>1. /\ t.routes \in [Routes -> Handlers] /\ t.panics \in BOOLEAN
      /\ t.catalog \in [RoutePath -> Seq(EndpointMethods)] /\ t.allow \in [RoutePath -> SUBSET EndpointMethods]
      /\ t = [routes |-> t.routes, panics |-> t.panics, catalog |-> t.catalog, allow |-> t.allow]
  BY DEF Table
<1>2. /\ u.routes = new /\ u.panics = t.panics /\ u.catalog = t.catalog /\ u.allow = t.allow
  OBVIOUS
<1>3. u \in Table
  BY <1>1 DEF Table
<1> QED
  BY <1>2, <1>3

\* A table that panics.
LEMMA RefusedTable ==
  ASSUME NEW t \in Table
  PROVE  /\ Refused(t) \in Table /\ Refused(t).panics = TRUE /\ Refused(t).routes = t.routes
         /\ Refused(t).catalog = t.catalog /\ Refused(t).allow = t.allow
BY DEF Refused, Table

\* What becomes of a route r that gets a handler: what it was decides, and the engine.
Handled(engine, t, r, h, u) ==
  /\ u \in Table /\ u.catalog = t.catalog /\ u.allow = t.allow
  /\ \A q \in Routes : q # r => u.routes[q] = t.routes[q]
  /\ t.routes[r] = NoHandler => u.panics = t.panics /\ u.routes[r] = h
  /\ t.routes[r] # NoHandler /\ engine \in {"mux", "chi"} => u.panics = t.panics /\ u.routes[r] = h
  /\ t.routes[r] # NoHandler /\ engine = "gorilla" => u = t
  /\ t.routes[r] # NoHandler /\ engine \in {"gin", "httptreemux"} =>
       u.panics = TRUE /\ u.routes = t.routes

\* What a handler does to a table.
LEMMA Handles ==
  ASSUME NEW engine \in Engines, NEW t \in Table, NEW path, NEW method, <<path, method>> \in Routes,
         path # "", NEW h \in Handlers
  PROVE  Handled(engine, t, <<path, method>>, h, Handle(engine, t, path, method, h))
<1>1. PICK u : u = Handle(engine, t, path, method, h)
  OBVIOUS
<1>2. PICK r : r = <<path, method>>
  OBVIOUS
<1>3. r \in Routes
  BY <1>2
<1>4. ASSUME t.routes[r] = NoHandler \/ engine \in {"mux", "chi"} PROVE Handled(engine, t, r, h, u)
  <2>1. PICK new : new = [t.routes EXCEPT ![r] = h]
    OBVIOUS
  <2>2. u = [t EXCEPT !.routes = new]
    BY <1>1, <1>2, <1>4, <2>1 DEF Handle
  <2>3. t = [routes |-> t.routes, panics |-> t.panics, catalog |-> t.catalog, allow |-> t.allow]
    BY DEF Table
  <2>4. u = [routes |-> new, panics |-> t.panics, catalog |-> t.catalog, allow |-> t.allow]
    BY <2>2, <2>3
  <2>5. /\ new \in [Routes -> Handlers] /\ new[r] = h
        /\ \A q \in Routes : q # r => new[q] = t.routes[q]
    BY <1>3, <2>1 DEF Table
  <2>6. /\ u \in Table /\ u.panics = t.panics /\ u.catalog = t.catalog /\ u.allow = t.allow
        /\ u.routes[r] = h /\ \A q \in Routes : q # r => u.routes[q] = t.routes[q]
    BY ONLY <1>3, <2>4, <2>5, RouteSet, t \in Table, h \in Handlers
  <2>7. engine \in {"mux", "chi"} => engine # "gorilla" /\ engine \notin {"gin", "httptreemux"}
    OBVIOUS
  <2> QED
    BY ONLY <1>4, <2>6, <2>7 DEF Handled
<1>5. ASSUME t.routes[r] # NoHandler /\ engine \in {"gin", "httptreemux"} PROVE Handled(engine, t, r, h, u)
  <2>1. engine \notin {"mux", "chi"} /\ engine # "gorilla"
    BY <1>5
  <2>2. u = Refused(t)
    BY <1>1, <1>2, <1>5, <2>1 DEF Handle
  <2> QED
    BY ONLY <1>5, <2>1, <2>2, RefusedTable, t \in Table DEF Handled
<1>6. ASSUME t.routes[r] # NoHandler /\ engine = "gorilla" PROVE Handled(engine, t, r, h, u)
  <2>1. engine \notin {"mux", "chi"} /\ engine \notin {"gin", "httptreemux"}
    BY <1>6
  <2>2. u = t
    BY <1>1, <1>2, <1>6, <2>1 DEF Handle
  <2> QED
    BY ONLY <1>6, <2>1, <2>2, t \in Table DEF Handled
<1>7. Handled(engine, t, r, h, u)
  BY <1>4, <1>5, <1>6 DEF Engines
<1> QED
  BY <1>1, <1>2, <1>7

\* An empty path is refused by all.
LEMMA HandlesEmpty ==
  ASSUME NEW engine, NEW t, NEW method, NEW h
  PROVE  Handle(engine, t, "", method, h) = Refused(t)
BY DEF Handle

\* The paths and methods an engine can be asked to handle.
Routed(path, methods) == path = "" \/ \A m \in methods : <<path, m>> \in Routes

\* s lists the methods, and f[1..k] is the table after k of them.
Handling(engine, base, path, methods, h, n, s, f) ==
  /\ n \in Nat /\ s \in [1..n -> methods] /\ Range(s) = methods
  /\ \A i, j \in 1..n : s[i] = s[j] => i = j
  /\ f[1..0] = base /\ HandleAll(engine, base, path, methods, h) = f[1..n]
  /\ \A k \in 1..n : f[1..k] = Handle(engine, f[1..(k - 1)], path, s[k], h)

\* Several methods of a path, one after the other.
LEMMA AllHandled ==
  ASSUME NEW engine \in Engines, NEW base \in Table, NEW path, NEW methods \in SUBSET RequestMethods,
         Routed(path, methods), NEW h \in Handlers
  PROVE  \E n, s, f : Handling(engine, base, path, methods, h, n, s, f)
<1>1. PICK s : s = SetToSeq(methods)
  OBVIOUS
<1>2. IsFiniteSet(methods)
  <2>1. IsFiniteSet({"GET"}) /\ IsFiniteSet({"GET", "POST"}) /\ IsFiniteSet({"GET", "POST", "HEAD"})
    <3>1. IsFiniteSet({"GET"})
      BY FS_Singleton
    <3>2. IsFiniteSet({"GET"} \cup {"POST"})
      BY <3>1, FS_AddElement
    <3>3. IsFiniteSet(({"GET"} \cup {"POST"}) \cup {"HEAD"})
      BY <3>2, FS_AddElement
    <3>4. /\ {"GET"} \cup {"POST"} = {"GET", "POST"}
          /\ ({"GET"} \cup {"POST"}) \cup {"HEAD"} = {"GET", "POST", "HEAD"}
      OBVIOUS
    <3> QED
      BY <3>1, <3>2, <3>3, <3>4
  <2>2. IsFiniteSet({"GET", "POST", "HEAD"} \cup {"OPTIONS"})
    BY <2>1, FS_AddElement
  <2>3. methods \in SUBSET ({"GET", "POST", "HEAD"} \cup {"OPTIONS"})
    BY DEF RequestMethods
  <2> QED
    BY <2>2, <2>3, FS_Subset
<1>3. /\ s \in Seq(methods) /\ Range(s) = methods
      /\ \A i, j \in DOMAIN s : s[i] = s[j] => i = j
  BY <1>1, <1>2, ListOf
<1>4. s \in Seq(methods)
  BY ONLY <1>3
<1>5. PICK n \in Nat : n = Len(s)
  BY ONLY <1>4
<1>6. DOMAIN s = 1..n /\ s \in [1..n -> methods]
  BY ONLY <1>4, <1>5, n \in Nat
<1> DEFINE G == [x \in Table \X (1..n) |-> Handle(engine, x[1], path, s[x[2]], h)]
           It(g) == g = [r \in SUBSET DOMAIN s |->
                           IF r = {} THEN base ELSE Handle(engine, g[r \ {Max(r)}], path, s[Max(r)], h)]
<1>7. ASSUME NEW t \in Table, NEW j \in 1..n PROVE Handle(engine, t, path, s[j], h) \in Table
  <2>1. s[j] \in methods
    BY <1>6
  <2>2. CASE path = ""
    <3>1. Handle(engine, t, path, s[j], h) = Refused(t)
      BY ONLY <2>2, HandlesEmpty
    <3> QED
      BY ONLY <3>1, RefusedTable, t \in Table
  <2>3. CASE path # ""
    <3>1. <<path, s[j]>> \in Routes
      BY <2>1, <2>3 DEF Routed
    <3> QED
      BY <2>3, <3>1, Handles DEF Handled
  <2> QED
    BY <2>2, <2>3
<1>8. G \in [Table \X (1..n) -> Table]
  BY <1>7
<1>9. \A t \in Table, j \in 1..n : G[<<t, j>>] = Handle(engine, t, path, s[j], h)
  OBVIOUS
<1> HIDE DEF G
<1>10. PICK it : Folds(it, Table, base, G, n)
  BY <1>8, FoldExists
<1>11. It(it)
  <2>1. ASSUME NEW r \in SUBSET (1..n), r # {}
        PROVE  it[r] = Handle(engine, it[r \ {Max(r)}], path, s[Max(r)], h)
    <3>1. Max(r) \in r /\ Max(r) \in 1..n /\ \A y \in r : Max(r) >= y
      BY <2>1, Greatest DEF Max
    <3>2. it[r] = G[<<it[r \ {Max(r)}], Max(r)>>] /\ it[r \ {Max(r)}] \in Table
      BY <1>10, <3>1 DEF Folds
    <3> QED
      BY <1>9, <3>1, <3>2
  <2>2. it = [r \in SUBSET (1..n) |-> it[r]] /\ it[{}] = base
    BY <1>10 DEF Folds
  <2> QED
    BY <1>6, <2>1, <2>2
<1> DEFINE f == CHOOSE g : It(g)
<1>12. It(f)
  BY <1>11
<1>13. HandleAll(engine, base, path, methods, h) = f[1..n]
  BY <1>1, <1>6 DEF HandleAll, FoldLeft, MapThenFoldSet
<1> HIDE DEF f
<1>14. f[1..0] = base
  <2>1. 1..0 \in SUBSET DOMAIN s /\ 1..0 = {}
    BY ONLY <1>6, n \in Nat
  <2> QED
    BY ONLY <1>12, <2>1
<1>15. ASSUME NEW k \in 1..n PROVE f[1..k] = Handle(engine, f[1..(k - 1)], path, s[k], h)
  <2>1. 1..k \in SUBSET DOMAIN s /\ 1..k # {} /\ (1..k) \ {k} = 1..(k - 1)
    BY <1>6, Prefix
  <2>2. Max(1..k) = k
    BY Prefix DEF Max
  <2> QED
    BY <1>12, <2>1, <2>2
<1>16. \A i, j \in 1..n : s[i] = s[j] => i = j
  BY <1>3, <1>6
<1> HIDE DEF It
<1>17. Handling(engine, base, path, methods, h, n, s, f)
  BY <1>3, <1>6, <1>13, <1>14, <1>15, <1>16 DEF Handling
<1> QED
  BY <1>17
\* Nothing is routed at path.
Unrouted(t, path) ==
  path # "" /\ \A m \in RequestMethods : <<path, m>> \in Routes /\ t.routes[<<path, m>>] = NoHandler

\* u is t but for the routes of path.
OnlyAt(t, path, u) ==
  /\ u \in Table /\ u.panics = t.panics /\ u.catalog = t.catalog /\ u.allow = t.allow
  /\ \A p, m : <<p, m>> \in Routes /\ p # path => u.routes[<<p, m>>] = t.routes[<<p, m>>]

\* Handlers of a path that has none do not disturb other paths.
LEMMA FreshPath ==
  ASSUME NEW engine \in Engines, NEW base \in Table, NEW path, Unrouted(base, path),
         NEW methods \in SUBSET RequestMethods, NEW h \in Handlers
  PROVE  OnlyAt(base, path, HandleAll(engine, base, path, methods, h))
<1> PICK u : u = HandleAll(engine, base, path, methods, h)
  OBVIOUS
<1>1. path # "" /\ \A m \in RequestMethods : <<path, m>> \in Routes /\ base.routes[<<path, m>>] = NoHandler
  BY DEF Unrouted
<1>2. Routed(path, methods)
  <2>1. \A m \in methods : m \in RequestMethods
    OBVIOUS
  <2> QED
    BY <1>1, <2>1 DEF Routed
<1>3. PICK n, s, f : Handling(engine, base, path, methods, h, n, s, f)
  BY ONLY <1>2, AllHandled, engine \in Engines, base \in Table, methods \in SUBSET RequestMethods,
          h \in Handlers
<1>4. /\ n \in Nat /\ s \in [1..n -> methods]
      /\ \A i, j \in 1..n : s[i] = s[j] => i = j
      /\ f[1..0] = base /\ u = f[1..n]
      /\ \A k \in 1..n : f[1..k] = Handle(engine, f[1..(k - 1)], path, s[k], h)
  BY <1>3 DEF Handling
<1>5. n \in Nat
  BY ONLY <1>4
<1>6. \A j \in 1..n : s[j] \in RequestMethods
  BY <1>4
<1> DEFINE Same(t) ==
             /\ t \in Table /\ t.panics = base.panics /\ t.catalog = base.catalog /\ t.allow = base.allow
             /\ \A p, m : <<p, m>> \in Routes /\ p # path => t.routes[<<p, m>>] = base.routes[<<p, m>>]
           Free(k, t) == \A j \in 1..n : j > k => t.routes[<<path, s[j]>>] = NoHandler
           P == {k \in 0..n : Same(f[1..k]) /\ Free(k, f[1..k])}
<1>7. Same(base)
  OBVIOUS
<1>8. Free(0, base)
  BY <1>1, <1>6
<1>9. ASSUME NEW k \in 1..n, NEW t, Same(t), Free(k - 1, t), NEW v, v = Handle(engine, t, path, s[k], h)
      PROVE  Same(v) /\ Free(k, v)
  <2>1. PICK m : m = s[k]
    OBVIOUS
  <2>2. m \in RequestMethods /\ <<path, m>> \in Routes
    BY ONLY <1>1, <1>6, <2>1, k \in 1..n
  <2>3. t.routes[<<path, m>>] = NoHandler
    <3>1. k > k - 1
      BY ONLY <1>5, k \in 1..n
    <3>2. Free(k - 1, t)
      BY ONLY <1>9
    <3>3. t.routes[<<path, s[k]>>] = NoHandler
      BY ONLY <3>1, <3>2, k \in 1..n
    <3> QED
      BY ONLY <2>1, <3>3
  <2>4. /\ v \in Table /\ v.catalog = t.catalog /\ v.allow = t.allow /\ v.panics = t.panics
        /\ \A q \in Routes : q # <<path, m>> => v.routes[q] = t.routes[q]
    <3>1. v = Handle(engine, t, path, m, h)
      <4>1. v = Handle(engine, t, path, s[k], h)
        BY ONLY <1>9
      <4> QED
        BY ONLY <2>1, <4>1
    <3>2. t \in Table
      BY ONLY <1>9
    <3>3. Handled(engine, t, <<path, m>>, h, v)
      BY ONLY <2>2, <3>1, <3>2, Handles, <1>1, engine \in Engines, h \in Handlers
    <3> QED
      BY ONLY <2>3, <3>3 DEF Handled
  <2>5. ASSUME NEW p, NEW x, <<p, x>> \in Routes, p # path PROVE v.routes[<<p, x>>] = base.routes[<<p, x>>]
    <3>1. <<p, x>> # <<path, m>>
      BY ONLY <2>5
    <3> QED
      BY ONLY <1>9, <2>4, <2>5, <3>1
  <2>6. ASSUME NEW j \in 1..n, j > k PROVE v.routes[<<path, s[j]>>] = NoHandler
    <3>1. s[j] # m
      BY ONLY <1>4, <2>1, <2>6, k \in 1..n
    <3>2. <<path, s[j]>> \in Routes
      BY ONLY <1>1, <1>6, j \in 1..n
    <3>3. <<path, s[j]>> # <<path, m>>
      BY ONLY <3>1
    <3>4. t.routes[<<path, s[j]>>] = NoHandler
      <4>1. j > k - 1
        BY ONLY <1>4, <2>6, k \in 1..n
      <4> QED
        BY ONLY <1>9, <4>1, j \in 1..n
    <3> QED
      BY ONLY <2>4, <3>2, <3>3, <3>4
  <2>7. Same(v)
    BY ONLY <1>9, <2>4, <2>5
  <2>8. Free(k, v)
    BY ONLY <2>6
  <2> QED
    BY <2>7, <2>8
<1> HIDE DEF Same, Free
<1>10. 0 \in P
  <2>1. 0 \in 0..n
    BY ONLY <1>5
  <2> QED
    BY <1>4, <1>7, <1>8, <2>1
<1>11. ASSUME NEW k \in 1..n, k - 1 \in P PROVE k \in P
  <2>1. Same(f[1..(k - 1)]) /\ Free(k - 1, f[1..(k - 1)])
    BY ONLY <1>11
  <2>2. Same(f[1..k]) /\ Free(k, f[1..k])
    BY ONLY <1>4, <1>9, <2>1, k \in 1..n
  <2>3. k \in 0..n
    BY ONLY <1>4, k \in 1..n
  <2> QED
    BY ONLY <2>2, <2>3
<1>12. Same(u)
  <2> HIDE DEF P
  <2>1. \A k \in 0..n : k \in P
    <3>1. n \in Nat
      BY <1>4
    <3>2. \A k \in 1..n : k - 1 \in P => k \in P
      BY ONLY <1>11
    <3> QED
      BY ONLY <1>10, <3>1, <3>2, ByPrefixes
  <2>2. n \in P
    BY ONLY <1>4, <2>1
  <2> QED
    BY <1>4, <2>2 DEF P
<1> QED
  BY <1>12 DEF Same, OnlyAt

\* u is t, and panics.
Stopped(t, u) ==
  /\ u \in Table /\ u.panics = TRUE /\ u.catalog = t.catalog /\ u.allow = t.allow
  /\ u.routes = t.routes

\* Handlers of an empty path are refused.
LEMMA EmptyPath ==
  ASSUME NEW engine \in Engines, NEW base \in Table, NEW h \in Handlers,
         NEW u, u = HandleAll(engine, base, "", RequestMethods, h)
  PROVE  Stopped(base, u)
<1>1. Routed("", RequestMethods)
  BY DEF Routed
<1>2. PICK n, s, f : Handling(engine, base, "", RequestMethods, h, n, s, f)
  <2>1. RequestMethods \in SUBSET RequestMethods
    OBVIOUS
  <2> QED
    BY ONLY <1>1, <2>1, AllHandled, engine \in Engines, base \in Table, h \in Handlers
<1>3. /\ n \in Nat /\ s \in [1..n -> RequestMethods] /\ Range(s) = RequestMethods
      /\ f[1..0] = base /\ u = f[1..n]
      /\ \A k \in 1..n : f[1..k] = Handle(engine, f[1..(k - 1)], "", s[k], h)
  BY <1>2 DEF Handling
<1>4. n \in Nat
  BY ONLY <1>3
<1>5. n # 0
  <2>1. "GET" \in Range(s)
    BY ONLY <1>3 DEF RequestMethods
  <2>2. PICK j \in DOMAIN s : s[j] = "GET"
    BY ONLY <2>1 DEF Range
  <2>3. DOMAIN s = 1..n
    BY ONLY <1>3
  <2> QED
    BY ONLY <1>4, <2>2, <2>3
<1> DEFINE Kept(k, t) ==
             /\ t \in Table /\ (k > 0 => t.panics = TRUE) /\ t.catalog = base.catalog
             /\ t.allow = base.allow /\ t.routes = base.routes
           P == {k \in 0..n : Kept(k, f[1..k])}
<1>6. Kept(0, base)
  BY ONLY base \in Table
<1>7. ASSUME NEW k \in 1..n, NEW t, Kept(k - 1, t) PROVE Kept(k, Refused(t))
  BY ONLY <1>7, RefusedTable
<1> HIDE DEF Kept
<1>8. 0 \in P
  <2>1. 0 \in 0..n
    BY ONLY <1>4
  <2> QED
    BY ONLY <1>3, <1>6, <2>1
<1>9. ASSUME NEW k \in 1..n, k - 1 \in P PROVE k \in P
  <2>1. Kept(k - 1, f[1..(k - 1)])
    BY ONLY <1>9
  <2>2. f[1..k] = Refused(f[1..(k - 1)])
    <3>1. f[1..k] = Handle(engine, f[1..(k - 1)], "", s[k], h)
      BY ONLY <1>3, k \in 1..n
    <3> QED
      BY ONLY <3>1 DEF Handle
  <2>3. k \in 0..n
    BY ONLY <1>4, k \in 1..n
  <2> QED
    BY ONLY <1>7, <2>1, <2>2, <2>3, k \in 1..n
<1>10. Kept(n, u)
  <2> HIDE DEF P
  <2>1. \A k \in 1..n : k - 1 \in P => k \in P
    BY ONLY <1>9
  <2>2. \A k \in 0..n : k \in P
    BY ONLY <1>4, <1>8, <2>1, ByPrefixes
  <2>3. n \in P
    BY ONLY <1>4, <2>2
  <2> QED
    BY ONLY <1>3, <2>3 DEF P
<1>11. n > 0
  BY ONLY <1>4, <1>5
<1> QED
  BY ONLY <1>10, <1>11 DEF Kept, Stopped

\* What is routed before the endpoints are.
FixedAs(c, t) ==
  /\ t \in Table
  /\ t.panics <=> c.engine = "httptreemux" /\ c.echo
  /\ t.catalog = [p \in RoutePath |-> << >>] /\ t.allow = [p \in RoutePath |-> {}]
  /\ \A p \in RoutePath, m \in RequestMethods :
       t.routes[<<p, m>>] = IF ~c.disable_health /\ p = c.health_path /\ m = "GET"
                              THEN Handler("health", 0) ELSE NoHandler
  /\ ~c.disable_health => t.routes[<<c.health_path, "GET">>] = Handler("health", 0)

LEMMA FixedTable ==
  ASSUME NEW c \in RouterConfig, OfThisEngine(c)
  PROVE  FixedAs(c, Fixed(c))
<1>1. PICK t : t = Fixed(c)
  OBVIOUS
<1>2. /\ c.engine \in Engines /\ c.debug \in BOOLEAN /\ c.echo \in BOOLEAN
      /\ c.health_path \in {"/__health"} \cup RoutePath
  BY DEF RouterConfig
<1> DEFINE free == [r \in Routes |-> NoHandler]
           none == [p \in RoutePath |-> << >>]
           nobody == [p \in RoutePath |-> {}]
<1>3. PICK empty : empty = [routes |-> free, panics |-> FALSE, catalog |-> none, allow |-> nobody]
  OBVIOUS
<1>4. empty \in Table /\ empty.routes = free /\ empty.panics = FALSE /\ empty.catalog = none /\ empty.allow = nobody
  <2>1. NoHandler \in Handlers
    BY DEF NoHandler, Handler, Handlers
  <2>2. free \in [Routes -> Handlers]
    BY <2>1
  <2>3. none \in [RoutePath -> Seq(EndpointMethods)]
    OBVIOUS
  <2>4. nobody \in [RoutePath -> SUBSET EndpointMethods]
    OBVIOUS
  <2> HIDE DEF free, none, nobody
  <2> QED
    BY <1>3, <2>2, <2>3, <2>4 DEF Table
<1>5. \A q \in Routes : free[q] = NoHandler
  OBVIOUS
<1> HIDE DEF free
<1>6. \A p \in {"/__health", "/__debug", "/__echo"}, m \in RequestMethods : <<p, m>> \in Routes
  BY DEF Routes
<1>7. \A p \in RoutePath, m \in RequestMethods : <<p, m>> \in Routes
  BY DEF Routes
<1>8. PICK debug : debug = IF c.debug THEN HandleAll(c.engine, empty, "/__debug", DebugMethods(c.engine),
                                             Handler("debug", 0))
                           ELSE empty
  OBVIOUS
<1>9. /\ debug \in Table /\ debug.panics = FALSE /\ debug.catalog = none /\ debug.allow = nobody
      /\ \A p, m : <<p, m>> \in Routes /\ p # "/__debug" => debug.routes[<<p, m>>] = NoHandler
  <2>1. CASE c.debug
    <3>1. DebugMethods(c.engine) \in SUBSET RequestMethods
      BY DEF DebugMethods, RequestMethods
    <3>2. Handler("debug", 0) \in Handlers
      BY HandlersDiffer
    <3>3. \A m \in RequestMethods : <<"/__debug", m>> \in Routes /\ empty.routes[<<"/__debug", m>>] = NoHandler
      BY <1>4, <1>5, <1>6
    <3>4. debug = HandleAll(c.engine, empty, "/__debug", DebugMethods(c.engine), Handler("debug", 0))
      BY <1>8, <2>1
    <3>5. Unrouted(empty, "/__debug")
      BY <3>3 DEF Unrouted
    <3>6. OnlyAt(empty, "/__debug", debug)
      BY ONLY <1>2, <1>4, <3>1, <3>2, <3>4, <3>5, FreshPath
    <3>7. /\ debug \in Table /\ debug.panics = empty.panics
          /\ debug.catalog = empty.catalog /\ debug.allow = empty.allow
          /\ \A p, m : <<p, m>> \in Routes /\ p # "/__debug" => debug.routes[<<p, m>>] = empty.routes[<<p, m>>]
      BY ONLY <3>6 DEF OnlyAt
    <3> QED
      BY <1>4, <1>5, <3>7
  <2>2. CASE ~c.debug
    BY <1>4, <1>5, <1>8, <2>2
  <2> QED
    BY <2>1, <2>2
<1>10. PICK echo : echo = IF c.echo /\ c.engine # "chi"
                            THEN HandleAll(c.engine, debug, EchoPattern(c.engine), RequestMethods, Handler("echo", 0))
                            ELSE debug
  OBVIOUS
<1>11. /\ echo \in Table /\ echo.catalog = none /\ echo.allow = nobody
       /\ echo.panics <=> c.engine = "httptreemux" /\ c.echo
       /\ \A p, m : <<p, m>> \in Routes /\ p \notin {"/__debug", "/__echo"} => echo.routes[<<p, m>>] = NoHandler
  <2>1. Handler("echo", 0) \in Handlers
    BY HandlersDiffer
  <2>2. CASE ~(c.echo /\ c.engine # "chi")
    <3>1. echo = debug
      BY <1>10, <2>2
    <3>2. c.engine = "chi" => c.engine # "httptreemux"
      OBVIOUS
    <3> QED
      BY <1>9, <2>2, <3>1, <3>2
  <2>3. CASE c.echo /\ c.engine # "chi" /\ c.engine # "httptreemux"
    <3>1. echo = HandleAll(c.engine, debug, "/__echo", RequestMethods, Handler("echo", 0))
      BY <1>10, <2>3 DEF EchoPattern
    <3>2. \A m \in RequestMethods : <<"/__echo", m>> \in Routes /\ debug.routes[<<"/__echo", m>>] = NoHandler
      BY <1>6, <1>9
    <3>3. RequestMethods \in SUBSET RequestMethods
      OBVIOUS
    <3>4. Unrouted(debug, "/__echo")
      BY <3>2 DEF Unrouted
    <3>5. OnlyAt(debug, "/__echo", echo)
      BY ONLY <1>2, <1>9, <2>1, <3>1, <3>3, <3>4, FreshPath
    <3>6. /\ echo \in Table /\ echo.panics = debug.panics /\ echo.catalog = debug.catalog /\ echo.allow = debug.allow
          /\ \A p, m : <<p, m>> \in Routes /\ p # "/__echo" => echo.routes[<<p, m>>] = debug.routes[<<p, m>>]
      BY ONLY <3>5 DEF OnlyAt
    <3> QED
      BY <1>9, <2>3, <3>6
  <2>4. CASE c.echo /\ c.engine = "httptreemux"
    <3>1. c.engine # "chi"
      BY <2>4
    <3>2. echo = HandleAll(c.engine, debug, "", RequestMethods, Handler("echo", 0))
      BY <1>10, <2>4, <3>1 DEF EchoPattern
    <3>3. echo \in Table /\ echo.panics = TRUE /\ echo.catalog = debug.catalog /\ echo.allow = debug.allow
          /\ echo.routes = debug.routes
      <4>1. Stopped(debug, echo)
        BY ONLY <1>2, <1>9, <2>1, <3>2, EmptyPath
      <4> QED
        BY ONLY <4>1 DEF Stopped
    <3> QED
      BY <1>9, <2>4, <3>3
  <2> QED
    BY <2>2, <2>3, <2>4
<1>12. t = IF c.disable_health THEN echo ELSE Handle(c.engine, echo, c.health_path, "GET", Handler("health", 0))
  BY <1>1, <1>3, <1>8, <1>10 DEF Fixed, free, none, nobody
<1>13. c.health_path \notin {"", "/__debug", "/__echo"} /\ "GET" \in RequestMethods
  BY <1>2, RoutePathAssumption DEF RequestMethods
<1>14. <<c.health_path, "GET">> \in Routes /\ echo.routes[<<c.health_path, "GET">>] = NoHandler
  BY <1>2, <1>6, <1>7, <1>11, <1>13
<1>15. \A p \in RoutePath, m \in RequestMethods : echo.routes[<<p, m>>] = NoHandler
  BY <1>7, <1>11, RoutePathAssumption
<1>16. ASSUME c.disable_health PROVE FixedAs(c, t)
  BY <1>11, <1>12, <1>15, <1>16 DEF FixedAs
<1>17. ASSUME ~c.disable_health PROVE FixedAs(c, t)
  <2>1. Handler("health", 0) \in Handlers
    BY HandlersDiffer
  <2>2. t = Handle(c.engine, echo, c.health_path, "GET", Handler("health", 0))
    BY <1>12, <1>17
  <2>3. c.health_path # ""
    BY <1>13
  <2>4. /\ t \in Table /\ t.catalog = echo.catalog /\ t.allow = echo.allow /\ t.panics = echo.panics
        /\ t.routes[<<c.health_path, "GET">>] = Handler("health", 0)
        /\ \A q \in Routes : q # <<c.health_path, "GET">> => t.routes[q] = echo.routes[q]
    <3>1. Handled(c.engine, echo, <<c.health_path, "GET">>, Handler("health", 0), t)
      BY ONLY <1>2, <1>11, <1>14, <2>1, <2>2, <2>3, Handles
    <3> QED
      BY ONLY <1>14, <3>1 DEF Handled
  <2>5. ASSUME NEW p \in RoutePath, NEW m \in RequestMethods
        PROVE  t.routes[<<p, m>>] = IF ~c.disable_health /\ p = c.health_path /\ m = "GET"
                                      THEN Handler("health", 0) ELSE NoHandler
    <3>1. CASE p = c.health_path /\ m = "GET"
      BY <1>17, <2>4, <3>1
    <3>2. CASE ~(p = c.health_path /\ m = "GET")
      <4>1. <<p, m>> # <<c.health_path, "GET">> /\ <<p, m>> \in Routes
        BY <1>7, <3>2
      <4> QED
        BY <1>15, <2>4, <3>2, <4>1
    <3> QED
      BY <3>1, <3>2
  <2> QED
    BY <1>11, <1>17, <2>4, <2>5 DEF FixedAs
<1> QED
  BY <1>1, <1>16, <1>17

\* The handler of an endpoint.
HandlerOf(es, i) == Handler(IF es[i].builds THEN "endpoint" ELSE "failed", i)

\* How a route with handler b is answered once the endpoints in S have asked for it.
Answers(engine, es, S, b, h, stopped) ==
  /\ S = {} => h = b
  /\ S # {} => h # NoHandler
  /\ S # {} /\ engine \in {"mux", "chi"} => \E i \in S : (\A j \in S : i >= j) /\ h = HandlerOf(es, i)
  /\ S # {} /\ engine = "gorilla" => \E i \in S : (\A j \in S : i <= j) /\ h = HandlerOf(es, i)
  /\ S # {} /\ engine \in {"gin", "httptreemux"} /\ ~stopped =>
       b = NoHandler /\ \E i \in S : S = {i} /\ h = HandlerOf(es, i)

\* A route that was taken, or asked for twice.
Crowded(S, b) == (S # {} /\ b # NoHandler) \/ \E i, j \in S : i # j

\* A route with handler h is given handler new.
Takes(engine, h, new, next, stopped, stops) ==
  /\ h = NoHandler => stops = stopped /\ next = new
  /\ h # NoHandler /\ engine \in {"mux", "chi"} => stops = stopped /\ next = new
  /\ h # NoHandler /\ engine = "gorilla" => stops = stopped /\ next = h
  /\ h # NoHandler /\ engine \in {"gin", "httptreemux"} => stops = TRUE /\ next = h

\* The k-th endpoint asks for a route, after the endpoints in S.
Turn(engine, es, S, k, b, h, next, stopped, stops) ==
  /\ k \in Nat /\ S \in SUBSET (1..(k - 1)) /\ stopped \in BOOLEAN /\ stops \in BOOLEAN
  /\ Answers(engine, es, S, b, h, stopped)
  /\ HandlerOf(es, k) # NoHandler /\ (engine = "gorilla" => b = NoHandler)
  /\ Takes(engine, h, HandlerOf(es, k), next, stopped, stops)

\* The next endpoint that asks for a route.
LEMMA NextAnswer ==
  ASSUME NEW engine \in Engines, NEW es, NEW S, NEW k, NEW b, NEW h, NEW next, NEW stopped, NEW stops,
         Turn(engine, es, S, k, b, h, next, stopped, stops)
  PROVE  /\ Answers(engine, es, S \cup {k}, b, next, stops)
         /\ (h # NoHandler) <=> Crowded(S \cup {k}, b)
<1>1. /\ k \in Nat /\ S \in SUBSET (1..(k - 1)) /\ stopped \in BOOLEAN /\ stops \in BOOLEAN
      /\ HandlerOf(es, k) # NoHandler
  BY DEF Turn
<1>2. Answers(engine, es, S, b, h, stopped)
  BY DEF Turn
<1>3. engine = "gorilla" => b = NoHandler
  BY DEF Turn
<1>4. /\ h = NoHandler => stops = stopped /\ next = HandlerOf(es, k)
      /\ h # NoHandler /\ engine \in {"mux", "chi"} => stops = stopped /\ next = HandlerOf(es, k)
      /\ h # NoHandler /\ engine = "gorilla" => stops = stopped /\ next = h
      /\ h # NoHandler /\ engine \in {"gin", "httptreemux"} => stops = TRUE /\ next = h
  BY DEF Takes, Turn
<1>5. \A i \in S : i \in Int /\ i < k /\ i # k
  BY ONLY <1>1
<1>6. k \in Int /\ k >= k
  BY ONLY <1>1
<1> PICK T : T = S \cup {k}
  OBVIOUS
<1>7. T # {} /\ k \in T /\ \A i \in T : i \in S \/ i = k
  OBVIOUS
<1>8. (h # NoHandler) <=> (S # {} \/ b # NoHandler)
  BY ONLY <1>2 DEF Answers
<1>9. (h # NoHandler) <=> Crowded(T, b)
  <2>1. ASSUME S # {} PROVE \E i, j \in T : i # j
    <3>1. PICK i : i \in S
      BY ONLY <2>1
    <3>2. i # k /\ i \in T /\ k \in T
      BY <1>5, <3>1
    <3> QED
      BY ONLY <3>2
  <2>2. ASSUME S = {} PROVE \A i, j \in T : i = j
    BY ONLY <1>7, <2>2
  <2> QED
    BY ONLY <1>7, <1>8, <2>1, <2>2 DEF Crowded
<1>10. ASSUME engine \in {"mux", "chi"} PROVE \E i \in T : (\A j \in T : i >= j) /\ next = HandlerOf(es, i)
  <2>1. next = HandlerOf(es, k)
    BY <1>1, <1>4, <1>10
  <2>2. \A j \in T : k >= j
    BY ONLY <1>5, <1>6, <1>7
  <2> QED
    BY ONLY <1>7, <2>1, <2>2
<1>11. ASSUME engine = "gorilla" PROVE \E i \in T : (\A j \in T : i <= j) /\ next = HandlerOf(es, i)
  <2>1. CASE S = {}
    <3>1. h = NoHandler
      BY ONLY <1>3, <1>8, <1>11, <2>1
    <3>2. next = HandlerOf(es, k)
      BY <1>1, <1>4, <3>1
    <3>3. \A j \in T : k <= j
      BY ONLY <1>6, <1>7, <2>1
    <3> QED
      BY ONLY <1>7, <3>2, <3>3
  <2>2. CASE S # {}
    <3>1. PICK i \in S : (\A j \in S : i <= j) /\ h = HandlerOf(es, i)
      BY ONLY <1>2, <1>11, <2>2 DEF Answers
    <3>2. next = h
      <4>1. h # NoHandler
        BY ONLY <1>8, <2>2
      <4> QED
        BY <1>1, <1>4, <1>11, <4>1
    <3>3. i <= k
      BY ONLY <1>5, <1>6, i \in S
    <3>4. i \in T /\ \A j \in T : i <= j
      BY ONLY <1>7, <3>1, <3>3, T = S \cup {k}
    <3> QED
      BY ONLY <3>1, <3>2, <3>4
  <2> QED
    BY ONLY <2>1, <2>2
<1>12. ASSUME engine \in {"gin", "httptreemux"}, ~stops
       PROVE  b = NoHandler /\ \E i \in T : T = {i} /\ next = HandlerOf(es, i)
  <2>1. h = NoHandler
    BY <1>1, <1>4, <1>12
  <2>2. S = {} /\ b = NoHandler
    BY ONLY <1>8, <2>1
  <2>3. next = HandlerOf(es, k)
    BY <1>1, <1>4, <2>1
  <2>4. T = {k}
    BY ONLY <2>2, T = S \cup {k}
  <2> QED
    BY ONLY <2>2, <2>3, <2>4
<1>13. next # NoHandler
  <2>1. CASE h = NoHandler
    BY <1>1, <1>4, <2>1
  <2>2. CASE h # NoHandler
    BY <1>1, <1>4, <2>2 DEF Engines
  <2> QED
    BY <2>1, <2>2
<1>14. Answers(engine, es, T, b, next, stops)
  BY ONLY <1>7, <1>10, <1>11, <1>12, <1>13 DEF Answers
<1> QED
  BY ONLY <1>9, <1>14, T = S \cup {k}

Endpoint == [path : RoutePath, method : ConfiguredMethods, builds : BOOLEAN]

\* Whether endpoint e asks for a route at all, and for which.
Asking(engine, e) == Supported(e.method) /\ (e.builds \/ engine = "gin")
RouteOf(e) == <<e.path, ToTitle(e.method)>>

\* What registering an endpoint that asks for a route does.
Registered(engine, t, i, e, h, u) ==
  /\ \E d : /\ Handled(engine, t, RouteOf(e), h, d)
            /\ u.routes = d.routes /\ u.panics = d.panics /\ u.allow = t.allow
  /\ u \in Table
  /\ u.catalog[e.path] = Append(t.catalog[e.path], ToTitle(e.method))
  /\ \A q \in RoutePath : q # e.path => u.catalog[q] = t.catalog[q]

\* One endpoint on the engine.
LEMMA OneRegistered ==
  ASSUME NEW engine \in Engines, NEW t \in Table, NEW n \in Nat, NEW es \in [1..n -> Endpoint], NEW i \in 1..n
  PROVE  /\ ~Asking(engine, es[i]) => RegisterOne(engine, t, i, es[i]) = t
         /\ Asking(engine, es[i]) =>
              Registered(engine, t, i, es[i], HandlerOf(es, i), RegisterOne(engine, t, i, es[i]))
<1>1. PICK e : e = es[i]
  OBVIOUS
<1>2. e.path \in RoutePath /\ e.method \in ConfiguredMethods /\ e.builds \in BOOLEAN
  BY <1>1 DEF Endpoint
<1>3. PICK h : h = HandlerOf(es, i)
  OBVIOUS
<1>4. h \in Handlers
  BY <1>1, <1>2, <1>3, HandlersDiffer DEF HandlerOf
<1>5. PICK u : u = RegisterOne(engine, t, i, e)
  OBVIOUS
<1>6. ASSUME ~Asking(engine, e) PROVE u = t
  BY ONLY <1>5, <1>6 DEF Asking, RegisterOne, registerKrakendEndpoint
<1>7. ASSUME Asking(engine, e) PROVE Registered(engine, t, i, e, h, u)
  <2>1. u = registerKrakendEndpoint(engine, t, e, h)
    BY ONLY <1>1, <1>2, <1>3, <1>5, <1>7 DEF Asking, RegisterOne, HandlerOf
  <2>2. PICK m : m = ToTitle(e.method)
    OBVIOUS
  <2>3. m \in EndpointMethods /\ m \in RequestMethods /\ Supported(e.method)
    BY ONLY <1>7, <2>2 DEF Asking, Supported, EndpointMethods, RequestMethods
  <2>4. PICK d : d = Handle(engine, t, e.path, m, h)
    OBVIOUS
  <2>5. <<e.path, m>> \in Routes /\ e.path # ""
    BY <1>2, <2>3, RoutePathAssumption DEF Routes
  <2>6. Handled(engine, t, <<e.path, m>>, h, d)
    BY ONLY <1>4, <2>4, <2>5, Handles, engine \in Engines, t \in Table
  <2>7. d \in Table /\ d.catalog = t.catalog /\ d.allow = t.allow
    BY ONLY <2>6 DEF Handled
  <2>8. u = [d EXCEPT !.catalog[e.path] = Append(@, m)]
    BY ONLY <2>1, <2>2, <2>3, <2>4 DEF registerKrakendEndpoint
  <2>9. /\ u \in Table /\ u.routes = d.routes /\ u.panics = d.panics /\ u.allow = d.allow
        /\ u.catalog[e.path] = Append(d.catalog[e.path], m)
        /\ \A q \in RoutePath : q # e.path => u.catalog[q] = d.catalog[q]
    <3>1. /\ d.routes \in [Routes -> Handlers] /\ d.panics \in BOOLEAN
          /\ d.catalog \in [RoutePath -> Seq(EndpointMethods)] /\ d.allow \in [RoutePath -> SUBSET EndpointMethods]
          /\ d = [routes |-> d.routes, panics |-> d.panics, catalog |-> d.catalog, allow |-> d.allow]
      BY ONLY <2>7 DEF Table
    <3>2. PICK p \in RoutePath : p = e.path
      BY ONLY <1>2
    <3>3. PICK c : c = [d.catalog EXCEPT ![p] = Append(@, m)]
      OBVIOUS
    <3>4. Append(d.catalog[p], m) \in Seq(EndpointMethods)
      BY ONLY <2>3, <3>1, p \in RoutePath
    <3>5. /\ c \in [RoutePath -> Seq(EndpointMethods)] /\ c[p] = Append(d.catalog[p], m)
          /\ \A q \in RoutePath : q # p => c[q] = d.catalog[q]
      BY ONLY <3>1, <3>3, <3>4, p \in RoutePath
    <3>6. u = [d EXCEPT !.catalog = c]
      BY ONLY <2>8, <3>2, <3>3
    <3>7. u = [routes |-> d.routes, panics |-> d.panics, catalog |-> c, allow |-> d.allow]
      BY ONLY <3>1, <3>6
    <3> QED
      BY ONLY <3>1, <3>2, <3>5, <3>7 DEF Table
  <2>10. Handled(engine, t, RouteOf(e), h, d)
    BY ONLY <2>2, <2>6 DEF RouteOf
  <2> QED
    BY ONLY <2>2, <2>7, <2>9, <2>10 DEF Registered
<1> QED
  BY ONLY <1>1, <1>3, <1>5, <1>6, <1>7

\* The routes endpoints can have, and who of the first k endpoints asks for each.
EndpointRoutes == RoutePath \X EndpointMethods

Askers(engine, es, k) ==
  [r \in EndpointRoutes |-> {i \in 1..k : Asking(engine, es[i]) /\ RouteOf(es[i]) = r}]

\* The table t got from base when the endpoints in S asked for its routes.
Registering(engine, base, es, S, t) ==
  /\ t \in Table /\ t.allow = base.allow
  /\ \A q \in Routes : q \notin EndpointRoutes => t.routes[q] = base.routes[q]
  /\ \A p \in RoutePath : Range(t.catalog[p]) = {m \in EndpointMethods : S[<<p, m>>] # {}}
  /\ \A r \in EndpointRoutes : Answers(engine, es, S[r], base.routes[r], t.routes[r], t.panics)
  /\ engine \in {"gin", "httptreemux"} =>
       (t.panics <=> base.panics \/ \E r \in EndpointRoutes : Crowded(S[r], base.routes[r]))
  /\ engine \notin {"gin", "httptreemux"} => t.panics = base.panics

LEMMA RoutesHave ==
  /\ \A r \in EndpointRoutes : r \in Routes
  /\ \A p \in RoutePath, m \in EndpointMethods : <<p, m>> \in EndpointRoutes /\ <<p, m>> \in Routes
<1>1. EndpointMethods \subseteq RequestMethods
  BY DEF EndpointMethods, RequestMethods
<1> QED
  BY <1>1 DEF EndpointRoutes, Routes

\* Another element of a sequence.
LEMMA RangeAppend ==
  ASSUME NEW S, NEW s \in Seq(S), NEW x \in S
  PROVE  Range(Append(s, x)) = Range(s) \cup {x}
<1>1. PICK n \in Nat : n = Len(s)
  OBVIOUS
<1>2. PICK u : u = Append(s, x)
  OBVIOUS
<1>3. DOMAIN s = 1..n /\ DOMAIN u = 1..(n + 1) /\ u[n + 1] = x /\ \A i \in 1..n : u[i] = s[i]
  BY <1>1, <1>2
<1>4. 1..(n + 1) = (1..n) \cup {n + 1}
  BY ONLY n \in Nat
<1> QED
  BY ONLY <1>2, <1>3, <1>4 DEF Range

\* Z is S once the k-th endpoint asks for a.
Joins(S, k, a, Z) ==
  /\ a \in EndpointRoutes
  /\ \A r \in EndpointRoutes : Z[r] = IF r = a THEN S[r] \cup {k} ELSE S[r]
  /\ \A r \in EndpointRoutes : S[r] \in SUBSET (1..(k - 1))

\* Who asks, with one more endpoint.
LEMMA AnotherAsks ==
  ASSUME NEW engine \in Engines, NEW n \in Nat, NEW es \in [1..n -> Endpoint], NEW k \in 1..n
  PROVE  /\ ~Asking(engine, es[k]) => Askers(engine, es, k) = Askers(engine, es, k - 1)
         /\ Asking(engine, es[k]) =>
              Joins(Askers(engine, es, k - 1), k, RouteOf(es[k]), Askers(engine, es, k))
<1>1. 1..k = (1..(k - 1)) \cup {k} /\ k \notin 1..(k - 1)
  OBVIOUS
<1>2. \A j, r : r \in EndpointRoutes =>
        Askers(engine, es, j)[r] = {i \in 1..j : Asking(engine, es[i]) /\ RouteOf(es[i]) = r}
  BY DEF Askers
<1>3. ASSUME ~Asking(engine, es[k]) PROVE Askers(engine, es, k) = Askers(engine, es, k - 1)
  <2>1. \A r : {i \in 1..k : Asking(engine, es[i]) /\ RouteOf(es[i]) = r}
               = {i \in 1..(k - 1) : Asking(engine, es[i]) /\ RouteOf(es[i]) = r}
    BY ONLY <1>1, <1>3
  <2> QED
    BY ONLY <2>1 DEF Askers
<1>4. ASSUME Asking(engine, es[k]) PROVE RouteOf(es[k]) \in EndpointRoutes
  <2>1. ToTitle(es[k].method) \in EndpointMethods
    BY ONLY <1>4 DEF Asking, Supported, EndpointMethods
  <2>2. es[k].path \in RoutePath
    BY DEF Endpoint
  <2> QED
    BY ONLY <2>1, <2>2 DEF RouteOf, EndpointRoutes
<1>5. ASSUME Asking(engine, es[k]), NEW r \in EndpointRoutes
      PROVE  Askers(engine, es, k)[r] = IF r = RouteOf(es[k]) THEN Askers(engine, es, k - 1)[r] \cup {k}
                                        ELSE Askers(engine, es, k - 1)[r]
  <2>1. CASE r = RouteOf(es[k])
    <3>1. {i \in 1..k : Asking(engine, es[i]) /\ RouteOf(es[i]) = r}
            = {i \in 1..(k - 1) : Asking(engine, es[i]) /\ RouteOf(es[i]) = r} \cup {k}
      BY ONLY <1>1, <1>5, <2>1
    <3> QED
      BY ONLY <1>2, <1>5, <2>1, <3>1
  <2>2. CASE r # RouteOf(es[k])
    <3>1. {i \in 1..k : Asking(engine, es[i]) /\ RouteOf(es[i]) = r}
            = {i \in 1..(k - 1) : Asking(engine, es[i]) /\ RouteOf(es[i]) = r}
      BY ONLY <1>1, <2>2
    <3>2. Askers(engine, es, k)[r] = {i \in 1..k : Asking(engine, es[i]) /\ RouteOf(es[i]) = r}
      BY ONLY <1>2, r \in EndpointRoutes
    <3>3. Askers(engine, es, k - 1)[r] = {i \in 1..(k - 1) : Asking(engine, es[i]) /\ RouteOf(es[i]) = r}
      BY ONLY <1>2, r \in EndpointRoutes
    <3> QED
      BY ONLY <2>2, <3>1, <3>2, <3>3
  <2> QED
    BY ONLY <2>1, <2>2
<1>6. \A r \in EndpointRoutes : Askers(engine, es, k - 1)[r] \in SUBSET (1..(k - 1))
  BY ONLY <1>2
<1>7. ASSUME Asking(engine, es[k])
      PROVE  Joins(Askers(engine, es, k - 1), k, RouteOf(es[k]), Askers(engine, es, k))
  BY ONLY <1>4, <1>5, <1>6, <1>7 DEF Joins
<1> QED
  BY ONLY <1>3, <1>7

\* Registering another endpoint.
LEMMA RegisterNext ==
  ASSUME NEW engine \in Engines, NEW base \in Table, NEW n \in Nat, NEW es \in [1..n -> Endpoint], NEW k \in 1..n,
         engine = "gorilla" => \A r \in EndpointRoutes : base.routes[r] = NoHandler,
         NEW t, Registering(engine, base, es, Askers(engine, es, k - 1), t)
  PROVE  Registering(engine, base, es, Askers(engine, es, k), RegisterOne(engine, t, k, es[k]))
<1>1. PICK S : S = Askers(engine, es, k - 1)
  OBVIOUS
<1>2. PICK Z : Z = Askers(engine, es, k)
  OBVIOUS
<1>3. PICK u : u = RegisterOne(engine, t, k, es[k])
  OBVIOUS
<1>4. /\ t \in Table /\ t.allow = base.allow
      /\ \A q \in Routes : q \notin EndpointRoutes => t.routes[q] = base.routes[q]
      /\ \A p \in RoutePath : Range(t.catalog[p]) = {m \in EndpointMethods : S[<<p, m>>] # {}}
      /\ \A r \in EndpointRoutes : Answers(engine, es, S[r], base.routes[r], t.routes[r], t.panics)
      /\ engine \in {"gin", "httptreemux"} =>
           (t.panics <=> base.panics \/ \E r \in EndpointRoutes : Crowded(S[r], base.routes[r]))
      /\ engine \notin {"gin", "httptreemux"} => t.panics = base.panics
  BY <1>1 DEF Registering
<1>5. t \in Table
  BY ONLY <1>4
<1>6. ASSUME ~Asking(engine, es[k]) PROVE Registering(engine, base, es, Z, u)
  <2>1. u = t
    BY ONLY <1>3, <1>5, <1>6, OneRegistered, engine \in Engines, n \in Nat,
              es \in [1..n -> Endpoint], k \in 1..n
  <2>2. Z = S
    BY ONLY <1>1, <1>2, <1>6, AnotherAsks, engine \in Engines, n \in Nat,
              es \in [1..n -> Endpoint], k \in 1..n
  <2>3. Registering(engine, base, es, S, t)
    BY <1>1
  <2> QED
    BY ONLY <2>1, <2>2, <2>3
<1>7. ASSUME Asking(engine, es[k]) PROVE Registering(engine, base, es, Z, u)
  <2>1. Registered(engine, t, k, es[k], HandlerOf(es, k), u)
    BY ONLY <1>3, <1>5, <1>7, OneRegistered, engine \in Engines, n \in Nat,
              es \in [1..n -> Endpoint], k \in 1..n
  <2>2. PICK a : a = RouteOf(es[k])
    OBVIOUS
  <2>3. /\ a \in EndpointRoutes
        /\ \A r \in EndpointRoutes : Z[r] = IF r = a THEN S[r] \cup {k} ELSE S[r]
        /\ \A r \in EndpointRoutes : S[r] \in SUBSET (1..(k - 1))
    <3>1. Joins(S, k, a, Z)
      BY ONLY <1>1, <1>2, <1>7, <2>2, AnotherAsks, engine \in Engines, n \in Nat, es \in [1..n -> Endpoint],
              k \in 1..n
    <3> QED
      BY ONLY <3>1 DEF Joins
  <2>4. a \in Routes
    BY ONLY <2>3, RoutesHave
  <2>5. PICK d : /\ Handled(engine, t, a, HandlerOf(es, k), d)
                 /\ u.routes = d.routes /\ u.panics = d.panics /\ u.allow = t.allow
    BY ONLY <2>1, <2>2 DEF Registered
  <2>6. /\ \A q \in Routes : q # a => u.routes[q] = t.routes[q]
        /\ Takes(engine, t.routes[a], HandlerOf(es, k), u.routes[a], t.panics, u.panics)
    BY ONLY <2>5 DEF Handled, Takes
  <2>7. u \in Table /\ u.allow = base.allow
    BY ONLY <1>4, <2>1, <2>5 DEF Registered
  <2>8. u.panics \in BOOLEAN /\ t.panics \in BOOLEAN
    BY ONLY <1>5, <2>7 DEF Table
  <2>9. HandlerOf(es, k) # NoHandler
    <3>1. k \in Nat
      OBVIOUS
    <3> QED
      BY ONLY <3>1, HandlersDiffer DEF HandlerOf
  <2>10. /\ Answers(engine, es, Z[a], base.routes[a], u.routes[a], u.panics)
         /\ (t.routes[a] # NoHandler) <=> Crowded(Z[a], base.routes[a])
    <3>1. Answers(engine, es, S[a], base.routes[a], t.routes[a], t.panics)
      BY ONLY <1>4, <2>3
    <3>2. engine = "gorilla" => base.routes[a] = NoHandler
      BY ONLY <2>3, engine = "gorilla" => \A r \in EndpointRoutes : base.routes[r] = NoHandler
    <3>3. S[a] \in SUBSET (1..(k - 1)) /\ Z[a] = S[a] \cup {k}
      BY ONLY <2>3
    <3>4. Takes(engine, t.routes[a], HandlerOf(es, k), u.routes[a], t.panics, u.panics)
      BY ONLY <2>6
    <3>5. /\ Answers(engine, es, S[a] \cup {k}, base.routes[a], u.routes[a], u.panics)
          /\ (t.routes[a] # NoHandler) <=> Crowded(S[a] \cup {k}, base.routes[a])
      <4>1. k \in Nat
        BY ONLY n \in Nat, k \in 1..n
      <4>2. Turn(engine, es, S[a], k, base.routes[a], t.routes[a], u.routes[a], t.panics, u.panics)
        BY ONLY <2>8, <2>9, <3>1, <3>2, <3>3, <3>4, <4>1 DEF Turn
      <4> QED
        BY ONLY <4>2, NextAnswer, engine \in Engines
    <3> QED
      BY ONLY <3>3, <3>5
  <2>11. t.panics => u.panics
    BY ONLY <2>6, <2>8, engine \in Engines DEF Takes, Engines
  <2>12. ASSUME NEW r \in EndpointRoutes
         PROVE  Answers(engine, es, Z[r], base.routes[r], u.routes[r], u.panics)
    <3>1. CASE r = a
      BY ONLY <2>10, <3>1
    <3>2. CASE r # a
      <4>1. Z[r] = S[r] /\ u.routes[r] = t.routes[r]
        BY ONLY <2>3, <2>6, <3>2, RoutesHave, r \in EndpointRoutes
      <4>2. Answers(engine, es, S[r], base.routes[r], t.routes[r], t.panics)
        BY ONLY <1>4, r \in EndpointRoutes
      <4>3. Answers(engine, es, S[r], base.routes[r], t.routes[r], u.panics)
        BY ONLY <2>11, <4>2 DEF Answers
      <4> QED
        BY ONLY <4>1, <4>3
    <3> QED
      BY ONLY <3>1, <3>2
  <2>13. ASSUME engine \in {"gin", "httptreemux"}
         PROVE  u.panics <=> base.panics \/ \E r \in EndpointRoutes : Crowded(Z[r], base.routes[r])
    <3>1. u.panics <=> t.panics \/ t.routes[a] # NoHandler
      BY ONLY <2>6, <2>8, <2>13 DEF Takes
    <3>2. t.panics <=> base.panics \/ \E r \in EndpointRoutes : Crowded(S[r], base.routes[r])
      BY ONLY <1>4, <2>13
    <3>3. \A r \in EndpointRoutes : Crowded(S[r], base.routes[r]) => Crowded(Z[r], base.routes[r])
      <4>1. \A r \in EndpointRoutes : S[r] \subseteq Z[r]
        BY ONLY <2>3
      <4> QED
        BY ONLY <4>1 DEF Crowded
    <3>4. \A r \in EndpointRoutes : r # a => Z[r] = S[r]
      BY ONLY <2>3
    <3>5. ASSUME \E r \in EndpointRoutes : Crowded(Z[r], base.routes[r])
          PROVE  (\E r \in EndpointRoutes : Crowded(S[r], base.routes[r])) \/ t.routes[a] # NoHandler
      <4>1. PICK r \in EndpointRoutes : Crowded(Z[r], base.routes[r])
        BY ONLY <3>5
      <4>2. CASE r = a
        BY ONLY <2>10, <4>1, <4>2
      <4>3. CASE r # a
        BY ONLY <3>4, <4>1, <4>3
      <4> QED
        BY ONLY <4>2, <4>3
    <3>6. t.routes[a] # NoHandler => Crowded(Z[a], base.routes[a])
      BY ONLY <2>10
    <3> QED
      BY ONLY <2>3, <3>1, <3>2, <3>3, <3>5, <3>6
  <2>14. engine \notin {"gin", "httptreemux"} => u.panics = base.panics
    BY ONLY <1>4, <2>6, engine \in Engines DEF Takes, Engines
  <2>15. ASSUME NEW p \in RoutePath PROVE Range(u.catalog[p]) = {m \in EndpointMethods : Z[<<p, m>>] # {}}
    <3>1. PICK x : x = ToTitle(es[k].method)
      OBVIOUS
    <3>2. a = <<es[k].path, x>>
      BY ONLY <2>2, <3>1 DEF RouteOf
    <3>3. es[k].path \in RoutePath /\ x \in EndpointMethods
      BY ONLY <2>3, <3>2 DEF EndpointRoutes
    <3>4. Range(t.catalog[p]) = {m \in EndpointMethods : S[<<p, m>>] # {}}
      BY ONLY <1>4, p \in RoutePath
    <3>5. t.catalog[p] \in Seq(EndpointMethods)
      BY ONLY <1>5, p \in RoutePath DEF Table
    <3>6. \A m \in EndpointMethods : <<p, m>> \in EndpointRoutes
      BY ONLY RoutesHave, p \in RoutePath
    <3>7. CASE p = es[k].path
      <4>1. u.catalog[p] = Append(t.catalog[p], x)
        BY ONLY <2>1, <3>1, <3>7 DEF Registered
      <4>2. Range(u.catalog[p]) = Range(t.catalog[p]) \cup {x}
        BY ONLY <3>3, <3>5, <4>1, RangeAppend
      <4>3. \A m \in EndpointMethods : <<p, m>> = a <=> m = x
        BY ONLY <3>2, <3>7
      <4>4. \A m \in EndpointMethods : Z[<<p, m>>] # {} <=> (m = x \/ S[<<p, m>>] # {})
        BY ONLY <2>3, <3>6, <4>3
      <4> QED
        BY ONLY <3>3, <3>4, <4>2, <4>4
    <3>8. CASE p # es[k].path
      <4>1. u.catalog[p] = t.catalog[p]
        BY ONLY <2>1, <3>8, p \in RoutePath DEF Registered
      <4>2. \A m \in EndpointMethods : <<p, m>> # a
        BY ONLY <3>2, <3>8
      <4>3. \A m \in EndpointMethods : Z[<<p, m>>] = S[<<p, m>>]
        BY ONLY <2>3, <3>6, <4>2
      <4> QED
        BY ONLY <3>4, <4>1, <4>3
    <3> QED
      BY ONLY <3>7, <3>8
  <2>16. \A q \in Routes : q \notin EndpointRoutes => u.routes[q] = base.routes[q]
    BY ONLY <1>4, <2>3, <2>6
  <2> QED
    BY ONLY <2>7, <2>12, <2>13, <2>14, <2>15, <2>16 DEF Registering
<1> QED
  BY ONLY <1>2, <1>3, <1>6, <1>7

\* f[1..k] is the table after k endpoints.
OneByOne(engine, base, es, n, f) ==
  /\ f[1..0] = base /\ registerKrakendEndpoints(engine, base, es) = f[1..n]
  /\ \A k \in 1..n : f[1..k] = RegisterOne(engine, f[1..(k - 1)], k, es[k])

\* The endpoints, one after the other.
LEMMA AllRegistered ==
  ASSUME NEW engine \in Engines, NEW base \in Table, NEW n \in Nat, NEW es \in [1..n -> Endpoint]
  PROVE  \E f : OneByOne(engine, base, es, n, f)
<1> DEFINE s == [i \in DOMAIN es |-> i]
           G == [x \in Table \X (1..n) |-> RegisterOne(engine, x[1], x[2], es[x[2]])]
           It(g) == g = [r \in SUBSET DOMAIN s |->
                           IF r = {} THEN base
                           ELSE RegisterOne(engine, g[r \ {Max(r)}], s[Max(r)], es[s[Max(r)]])]
           f == CHOOSE g : It(g)
<1>1. registerKrakendEndpoints(engine, base, es) = f[DOMAIN s]
  BY DEF registerKrakendEndpoints, FoldLeft, MapThenFoldSet
<1>2. DOMAIN s = 1..n /\ \A i \in 1..n : s[i] = i
  OBVIOUS
<1>3. ASSUME NEW t \in Table, NEW k \in 1..n PROVE RegisterOne(engine, t, k, es[k]) \in Table
  <2>1. CASE Asking(engine, es[k])
    <3>1. Registered(engine, t, k, es[k], HandlerOf(es, k), RegisterOne(engine, t, k, es[k]))
      BY ONLY <2>1, OneRegistered, engine \in Engines, t \in Table, n \in Nat,
              es \in [1..n -> Endpoint], k \in 1..n
    <3> QED
      BY ONLY <3>1 DEF Registered
  <2>2. CASE ~Asking(engine, es[k])
    <3>1. RegisterOne(engine, t, k, es[k]) = t
      BY ONLY <2>2, OneRegistered, engine \in Engines, t \in Table, n \in Nat,
              es \in [1..n -> Endpoint], k \in 1..n
    <3> QED
      BY ONLY <3>1, t \in Table
  <2> QED
    BY ONLY <2>1, <2>2
<1>4. G \in [Table \X (1..n) -> Table]
  BY ONLY <1>3
<1>5. \A t \in Table, j \in 1..n : G[<<t, j>>] = RegisterOne(engine, t, j, es[j])
  OBVIOUS
<1> HIDE DEF G, s
<1>6. PICK it : Folds(it, Table, base, G, n)
  BY ONLY <1>4, FoldExists, base \in Table, n \in Nat
<1>7. It(it)
  <2>1. ASSUME NEW r \in SUBSET (1..n), r # {}
        PROVE  it[r] = RegisterOne(engine, it[r \ {Max(r)}], s[Max(r)], es[s[Max(r)]])
    <3>1. Max(r) \in r /\ Max(r) \in 1..n /\ \A y \in r : Max(r) >= y
      BY <2>1, Greatest DEF Max
    <3>2. it[r] = G[<<it[r \ {Max(r)}], Max(r)>>] /\ it[r \ {Max(r)}] \in Table
      BY <1>6, <2>1, <3>1 DEF Folds
    <3>3. it[r] = RegisterOne(engine, it[r \ {Max(r)}], Max(r), es[Max(r)])
      BY ONLY <1>5, <3>1, <3>2
    <3>4. s[Max(r)] = Max(r)
      BY ONLY <1>2, <3>1
    <3> QED
      BY ONLY <3>3, <3>4
  <2>2. it = [r \in SUBSET (1..n) |-> it[r]] /\ it[{}] = base
    BY <1>6 DEF Folds
  <2> QED
    BY ONLY <1>2, <2>1, <2>2
<1>8. It(f)
  BY ONLY <1>7
<1> HIDE DEF f
<1>9. f[1..0] = base
  <2>1. 1..0 \in SUBSET DOMAIN s /\ 1..0 = {}
    BY ONLY <1>2, n \in Nat
  <2> QED
    BY ONLY <1>8, <2>1
<1>10. ASSUME NEW k \in 1..n PROVE f[1..k] = RegisterOne(engine, f[1..(k - 1)], k, es[k])
  <2>1. 1..k \in SUBSET DOMAIN s /\ 1..k # {} /\ (1..k) \ {k} = 1..(k - 1)
    BY ONLY <1>2, Prefix, n \in Nat, k \in 1..n
  <2>2. Max(1..k) = k
    BY Prefix DEF Max
  <2>3. s[k] = k
    BY ONLY <1>2, k \in 1..n
  <2>4. f[1..k] = RegisterOne(engine, f[(1..k) \ {Max(1..k)}], s[Max(1..k)], es[s[Max(1..k)]])
    BY ONLY <1>8, <2>1
  <2> QED
    BY ONLY <2>1, <2>2, <2>3, <2>4
<1> HIDE DEF It
<1>11. OneByOne(engine, base, es, n, f)
  BY ONLY <1>1, <1>2, <1>9, <1>10 DEF OneByOne
<1> QED
  BY ONLY <1>11

\* The table of the endpoints.
LEMMA EndpointsRegistered ==
  ASSUME NEW engine \in Engines, NEW base \in Table, NEW n \in Nat, NEW es \in [1..n -> Endpoint],
         engine = "gorilla" => \A r \in EndpointRoutes : base.routes[r] = NoHandler,
         \A p \in RoutePath : base.catalog[p] = << >>
  PROVE  Registering(engine, base, es, Askers(engine, es, n), registerKrakendEndpoints(engine, base, es))
<1>1. PICK f : OneByOne(engine, base, es, n, f)
  BY ONLY AllRegistered, engine \in Engines, base \in Table, n \in Nat, es \in [1..n -> Endpoint]
<1> DEFINE P == {k \in 0..n : Registering(engine, base, es, Askers(engine, es, k), f[1..k])}
<1>2. 0 \in P
  <2>1. PICK S : S = Askers(engine, es, 0)
    OBVIOUS
  <2>2. \A r \in EndpointRoutes : S[r] = {}
    BY <2>1 DEF Askers
  <2>3. \A p \in RoutePath : Range(base.catalog[p]) = {}
    BY DEF Range
  <2>4. \A p \in RoutePath, m \in EndpointMethods : S[<<p, m>>] = {}
    BY ONLY <2>2, RoutesHave
  <2>5. \A p \in RoutePath : Range(base.catalog[p]) = {m \in EndpointMethods : S[<<p, m>>] # {}}
    BY ONLY <2>3, <2>4
  <2>6. \A r \in EndpointRoutes : Answers(engine, es, S[r], base.routes[r], base.routes[r], base.panics)
    BY ONLY <2>2 DEF Answers
  <2>7. \A r \in EndpointRoutes : ~Crowded(S[r], base.routes[r])
    BY ONLY <2>2 DEF Crowded
  <2>8. base.panics \in BOOLEAN
    BY DEF Table
  <2>9. Registering(engine, base, es, S, base)
    BY ONLY <2>5, <2>6, <2>7, <2>8, base \in Table DEF Registering
  <2>10. 0 \in 0..n
    BY ONLY n \in Nat
  <2>11. f[1..0] = base
    BY ONLY <1>1 DEF OneByOne
  <2> QED
    BY ONLY <2>1, <2>9, <2>10, <2>11
<1>3. ASSUME NEW k \in 1..n, k - 1 \in P PROVE k \in P
  <2>1. PICK t : t = f[1..(k - 1)]
    OBVIOUS
  <2>2. Registering(engine, base, es, Askers(engine, es, k - 1), t)
    BY ONLY <1>3, <2>1
  <2>3. f[1..k] = RegisterOne(engine, t, k, es[k])
    BY ONLY <1>1, <2>1, k \in 1..n DEF OneByOne
  <2>4. Registering(engine, base, es, Askers(engine, es, k), RegisterOne(engine, t, k, es[k]))
    BY ONLY <2>2, RegisterNext, engine \in Engines, base \in Table, n \in Nat, es \in [1..n -> Endpoint],
            k \in 1..n, engine = "gorilla" => \A r \in EndpointRoutes : base.routes[r] = NoHandler
  <2>5. k \in 0..n
    BY ONLY n \in Nat, k \in 1..n
  <2> QED
    BY ONLY <2>3, <2>4, <2>5
<1>4. n \in P
  <2> HIDE DEF P
  <2>1. \A k \in 1..n : k - 1 \in P => k \in P
    BY ONLY <1>3
  <2>2. \A k \in 0..n : k \in P
    BY ONLY <1>2, <2>1, ByPrefixes, n \in Nat
  <2> QED
    BY ONLY <2>2, n \in Nat
<1> QED
  BY ONLY <1>1, <1>4 DEF OneByOne

\* The OPTIONS route of a path (registerOptionEndpoints).
Option(t, s, p) == [Handle("gin", s, p, "OPTIONS", Handler("options", 0)) EXCEPT !.allow[p] = Range(t.catalog[p])]

\* u is t with the OPTIONS routes of the paths in D.
Opted(t, D, u) ==
  /\ u \in Table /\ u.catalog = t.catalog /\ u.panics = t.panics
  /\ \A q \in Routes : q \notin D \X {"OPTIONS"} => u.routes[q] = t.routes[q]
  /\ \A p \in D : u.routes[<<p, "OPTIONS">>] = Handler("options", 0) /\ u.allow[p] = Range(t.catalog[p])
  /\ \A p \in RoutePath : p \notin D => u.allow[p] = t.allow[p]

\* What an OPTIONS route does to table s.
Optional(t, s, p, u) ==
  \E d : /\ Handled("gin", s, <<p, "OPTIONS">>, Handler("options", 0), d)
         /\ u \in Table /\ u.routes = d.routes /\ u.panics = d.panics /\ u.catalog = d.catalog
         /\ u.allow[p] = Range(t.catalog[p])
         /\ \A q \in RoutePath : q # p => u.allow[q] = s.allow[q]

LEMMA OptionTable ==
  ASSUME NEW t \in Table, NEW s \in Table, NEW p \in RoutePath
  PROVE  Optional(t, s, p, Option(t, s, p)) /\ Option(t, s, p) \in Table
<1>1. PICK d : d = Handle("gin", s, p, "OPTIONS", Handler("options", 0))
  OBVIOUS
<1>2. p # "" /\ <<p, "OPTIONS">> \in Routes
  BY RoutePathAssumption DEF Routes, RequestMethods
<1>3. Handler("options", 0) \in Handlers
  BY HandlersDiffer
<1>4. "gin" \in Engines
  BY DEF Engines
<1>5. Handled("gin", s, <<p, "OPTIONS">>, Handler("options", 0), d)
  BY ONLY <1>1, <1>2, <1>3, <1>4, Handles, s \in Table
<1>6. d \in Table /\ d.allow = s.allow
  BY ONLY <1>5 DEF Handled
<1>7. /\ d.routes \in [Routes -> Handlers] /\ d.panics \in BOOLEAN
      /\ d.catalog \in [RoutePath -> Seq(EndpointMethods)] /\ d.allow \in [RoutePath -> SUBSET EndpointMethods]
      /\ d = [routes |-> d.routes, panics |-> d.panics, catalog |-> d.catalog, allow |-> d.allow]
  BY ONLY <1>6 DEF Table
<1>8. PICK R : R = Range(t.catalog[p])
  OBVIOUS
<1>9. R \in SUBSET EndpointMethods
  <2>1. t.catalog[p] \in Seq(EndpointMethods)
    BY DEF Table
  <2>2. \A i \in DOMAIN t.catalog[p] : t.catalog[p][i] \in EndpointMethods
    BY ONLY <2>1
  <2> QED
    BY ONLY <1>8, <2>2 DEF Range
<1>10. PICK a : a = [d.allow EXCEPT ![p] = R]
  OBVIOUS
<1>11. a \in [RoutePath -> SUBSET EndpointMethods] /\ a[p] = R /\ \A q \in RoutePath : q # p => a[q] = d.allow[q]
  BY ONLY <1>7, <1>9, <1>10, p \in RoutePath
<1>12. PICK u : u = Option(t, s, p)
  OBVIOUS
<1>13. u = [d EXCEPT !.allow = a]
  BY ONLY <1>1, <1>8, <1>10, <1>12 DEF Option
<1>14. u = [routes |-> d.routes, panics |-> d.panics, catalog |-> d.catalog, allow |-> a]
  BY ONLY <1>7, <1>13
<1>15. /\ u \in Table /\ u.routes = d.routes /\ u.panics = d.panics /\ u.catalog = d.catalog /\ u.allow[p] = R
       /\ \A q \in RoutePath : q # p => u.allow[q] = s.allow[q]
  BY ONLY <1>6, <1>7, <1>11, <1>14 DEF Table
<1>16. Optional(t, s, p, u)
  BY ONLY <1>5, <1>8, <1>15 DEF Optional
<1> QED
  BY ONLY <1>12, <1>15, <1>16

\* The OPTIONS route of another path.
LEMMA AnotherOption ==
  ASSUME NEW t \in Table, NEW D \in SUBSET RoutePath, NEW p \in RoutePath, p \notin D,
         t.routes[<<p, "OPTIONS">>] = NoHandler, NEW s, Opted(t, D, s)
  PROVE  Opted(t, D \cup {p}, Option(t, s, p))
<1>1. /\ s \in Table /\ s.catalog = t.catalog /\ s.panics = t.panics
      /\ \A q \in Routes : q \notin D \X {"OPTIONS"} => s.routes[q] = t.routes[q]
      /\ \A x \in D : s.routes[<<x, "OPTIONS">>] = Handler("options", 0) /\ s.allow[x] = Range(t.catalog[x])
      /\ \A x \in RoutePath : x \notin D => s.allow[x] = t.allow[x]
  BY DEF Opted
<1>2. s \in Table
  BY ONLY <1>1
<1>3. PICK u : u = Option(t, s, p)
  OBVIOUS
<1>4. PICK d : /\ Handled("gin", s, <<p, "OPTIONS">>, Handler("options", 0), d)
               /\ u \in Table /\ u.routes = d.routes /\ u.panics = d.panics /\ u.catalog = d.catalog
               /\ u.allow[p] = Range(t.catalog[p])
               /\ \A q \in RoutePath : q # p => u.allow[q] = s.allow[q]
  <2>1. Optional(t, s, p, u)
    BY ONLY <1>2, <1>3, OptionTable, t \in Table, p \in RoutePath
  <2> QED
    BY ONLY <2>1 DEF Optional
<1>5. PICK o : o = <<p, "OPTIONS">>
  OBVIOUS
<1>6. /\ o \in Routes /\ o \notin D \X {"OPTIONS"} /\ t.routes[o] = NoHandler
      /\ \A x \in D : <<x, "OPTIONS">> \in Routes /\ <<x, "OPTIONS">> # o
      /\ \A q : q \notin (D \cup {p}) \X {"OPTIONS"} => q # o /\ q \notin D \X {"OPTIONS"}
  BY <1>5 DEF Routes, RequestMethods
<1>7. s.routes[o] = NoHandler
  BY ONLY <1>1, <1>6
<1>8. /\ d.catalog = s.catalog /\ d.panics = s.panics /\ d.routes[o] = Handler("options", 0)
      /\ \A q \in Routes : q # o => d.routes[q] = s.routes[q]
  BY ONLY <1>4, <1>5, <1>7 DEF Handled
<1>9. \A q \in Routes : q \notin (D \cup {p}) \X {"OPTIONS"} => u.routes[q] = t.routes[q]
  BY ONLY <1>1, <1>4, <1>6, <1>8
<1>10. ASSUME NEW x \in D \cup {p}
       PROVE  u.routes[<<x, "OPTIONS">>] = Handler("options", 0) /\ u.allow[x] = Range(t.catalog[x])
  <2>1. CASE x = p
    BY ONLY <1>4, <1>5, <1>8, <2>1
  <2>2. CASE x # p
    <3>1. x \in D /\ x \in RoutePath
      BY <2>2
    <3>2. u.routes[<<x, "OPTIONS">>] = s.routes[<<x, "OPTIONS">>] /\ u.allow[x] = s.allow[x]
      BY ONLY <1>4, <1>6, <1>8, <2>2, <3>1
    <3> QED
      BY ONLY <1>1, <3>1, <3>2
  <2> QED
    BY ONLY <2>1, <2>2
<1>11. \A x \in RoutePath : x \notin D \cup {p} => u.allow[x] = t.allow[x]
  BY ONLY <1>1, <1>4
<1>12. u \in Table /\ u.catalog = t.catalog /\ u.panics = t.panics
  BY ONLY <1>1, <1>4, <1>8
<1>13. Opted(t, D \cup {p}, u)
  BY ONLY <1>9, <1>10, <1>11, <1>12 DEF Opted
<1> QED
  BY ONLY <1>3, <1>13

\* s lists the paths in L, and f[1..k] is the table after the OPTIONS routes of k of them.
Opting(t, L, n, s, f) ==
  /\ n \in Nat /\ s \in [1..n -> L] /\ Range(s) = L
  /\ \A i, j \in 1..n : s[i] = s[j] => i = j
  /\ f[1..0] = t /\ registerOptionEndpoints(t) = f[1..n]
  /\ \A k \in 1..n : f[1..k] = Option(t, f[1..(k - 1)], s[k])

\* The OPTIONS routes, one after the other.
LEMMA AllOpted ==
  ASSUME NEW t \in Table, NEW L, L = {p \in RoutePath : t.catalog[p] # << >>}, IsFiniteSet(L)
  PROVE  \E n, s, f : Opting(t, L, n, s, f)
<1>1. PICK s : s = SetToSeq(L)
  OBVIOUS
<1>2. /\ s \in Seq(L) /\ Range(s) = L
      /\ \A i, j \in DOMAIN s : s[i] = s[j] => i = j
  BY ONLY <1>1, ListOf, IsFiniteSet(L)
<1>3. s \in Seq(L)
  BY ONLY <1>2
<1>4. PICK n \in Nat : n = Len(s)
  BY ONLY <1>3
<1>5. DOMAIN s = 1..n /\ s \in [1..n -> L]
  BY ONLY <1>3, <1>4, n \in Nat
<1>6. \A j \in 1..n : s[j] \in RoutePath
  BY ONLY <1>5, L = {p \in RoutePath : t.catalog[p] # << >>}
<1> DEFINE G == [x \in Table \X (1..n) |-> Option(t, x[1], s[x[2]])]
           It(g) == g = [r \in SUBSET DOMAIN s |-> IF r = {} THEN t ELSE Option(t, g[r \ {Max(r)}], s[Max(r)])]
<1>7. ASSUME NEW u \in Table, NEW j \in 1..n PROVE Option(t, u, s[j]) \in Table
  BY ONLY <1>6, OptionTable, t \in Table, u \in Table, j \in 1..n
<1>8. G \in [Table \X (1..n) -> Table]
  BY ONLY <1>7
<1>9. \A u \in Table, j \in 1..n : G[<<u, j>>] = Option(t, u, s[j])
  OBVIOUS
<1> HIDE DEF G
<1>10. PICK it : Folds(it, Table, t, G, n)
  BY ONLY <1>8, FoldExists, t \in Table, n \in Nat
<1>11. It(it)
  <2>1. ASSUME NEW r \in SUBSET (1..n), r # {}
        PROVE  it[r] = Option(t, it[r \ {Max(r)}], s[Max(r)])
    <3>1. Max(r) \in r /\ Max(r) \in 1..n /\ \A y \in r : Max(r) >= y
      BY <2>1, Greatest DEF Max
    <3>2. it[r] = G[<<it[r \ {Max(r)}], Max(r)>>] /\ it[r \ {Max(r)}] \in Table
      BY <1>10, <2>1, <3>1 DEF Folds
    <3> QED
      BY ONLY <1>9, <3>1, <3>2
  <2>2. it = [r \in SUBSET (1..n) |-> it[r]] /\ it[{}] = t
    BY <1>10 DEF Folds
  <2> QED
    BY ONLY <1>5, <2>1, <2>2
<1> DEFINE f == CHOOSE g : It(g)
<1>12. It(f)
  BY ONLY <1>11
<1>13. registerOptionEndpoints(t) = f[1..n]
  BY <1>1, <1>5 DEF registerOptionEndpoints, FoldLeft, MapThenFoldSet, Option
<1> HIDE DEF f
<1>14. f[1..0] = t
  <2>1. 1..0 \in SUBSET DOMAIN s /\ 1..0 = {}
    BY ONLY <1>5, n \in Nat
  <2> QED
    BY ONLY <1>12, <2>1
<1>15. ASSUME NEW k \in 1..n PROVE f[1..k] = Option(t, f[1..(k - 1)], s[k])
  <2>1. 1..k \in SUBSET DOMAIN s /\ 1..k # {} /\ (1..k) \ {k} = 1..(k - 1)
    BY ONLY <1>5, Prefix, n \in Nat, k \in 1..n
  <2>2. Max(1..k) = k
    BY Prefix DEF Max
  <2>3. f[1..k] = Option(t, f[(1..k) \ {Max(1..k)}], s[Max(1..k)])
    BY ONLY <1>12, <2>1
  <2> QED
    BY ONLY <2>1, <2>2, <2>3
<1>16. \A i, j \in 1..n : s[i] = s[j] => i = j
  BY ONLY <1>2, <1>5
<1> HIDE DEF It
<1>17. Opting(t, L, n, s, f)
  BY ONLY <1>2, <1>5, <1>13, <1>14, <1>15, <1>16, n \in Nat DEF Opting
<1> QED
  BY ONLY <1>17

\* The OPTIONS routes.
LEMMA OptionsRegistered ==
  ASSUME NEW t \in Table, NEW L, L = {p \in RoutePath : t.catalog[p] # << >>}, IsFiniteSet(L),
         \A p \in RoutePath : t.routes[<<p, "OPTIONS">>] = NoHandler
  PROVE  Opted(t, L, registerOptionEndpoints(t))
<1>1. PICK n, s, f : Opting(t, L, n, s, f)
  BY AllOpted
<1>2. /\ n \in Nat /\ s \in [1..n -> L] /\ Range(s) = L
      /\ \A i, j \in 1..n : s[i] = s[j] => i = j
      /\ f[1..0] = t /\ registerOptionEndpoints(t) = f[1..n]
      /\ \A k \in 1..n : f[1..k] = Option(t, f[1..(k - 1)], s[k])
  BY ONLY <1>1 DEF Opting
<1>3. n \in Nat
  BY ONLY <1>2
<1> DEFINE D(k) == {s[j] : j \in 1..k}
           P == {k \in 0..n : Opted(t, D(k), f[1..k])}
<1>4. 0 \in P
  <2>1. D(0) = {} /\ 0 \in 0..n
    BY ONLY <1>3
  <2>2. Opted(t, {}, t)
    BY DEF Opted
  <2> QED
    BY ONLY <1>2, <2>1, <2>2
<1>5. ASSUME NEW k \in 1..n, k - 1 \in P PROVE k \in P
  <2>1. PICK p : p = s[k]
    OBVIOUS
  <2>2. PICK E : E = D(k - 1)
    OBVIOUS
  <2>3. 1..k = (1..(k - 1)) \cup {k} /\ \A j \in 1..(k - 1) : j \in 1..n /\ j # k
    BY ONLY <1>3, k \in 1..n
  <2>4. D(k) = E \cup {p}
    BY ONLY <2>1, <2>2, <2>3
  <2>5. p \in L /\ E \in SUBSET L /\ p \notin E
    BY ONLY <1>2, <2>1, <2>2, <2>3, k \in 1..n
  <2>6. \A x \in L : x \in RoutePath
    OBVIOUS
  <2>7. Opted(t, E, f[1..(k - 1)])
    BY ONLY <1>5, <2>2
  <2>8. t.routes[<<p, "OPTIONS">>] = NoHandler
    BY <2>5, <2>6
  <2>9. f[1..k] = Option(t, f[1..(k - 1)], p)
    BY ONLY <1>2, <2>1, k \in 1..n
  <2>10. Opted(t, E \cup {p}, Option(t, f[1..(k - 1)], p))
    BY ONLY <2>5, <2>6, <2>7, <2>8, AnotherOption, t \in Table
  <2>11. k \in 0..n
    BY ONLY <1>3, k \in 1..n
  <2> QED
    BY ONLY <2>4, <2>9, <2>10, <2>11
<1>6. Opted(t, D(n), f[1..n])
  <2> HIDE DEF P
  <2>1. \A k \in 1..n : k - 1 \in P => k \in P
    BY ONLY <1>5
  <2>2. \A k \in 0..n : k \in P
    BY ONLY <1>3, <1>4, <2>1, ByPrefixes
  <2>3. n \in P
    BY ONLY <1>3, <2>2
  <2> QED
    BY ONLY <2>3 DEF P
<1>7. D(n) = L
  BY ONLY <1>2 DEF Range
<1> QED
  BY ONLY <1>2, <1>6, <1>7

\* What a router serves, by who asks for what.
Serving(c, es, S, t) ==
  /\ t.panics <=> \/ c.engine \in {"gin", "httptreemux"} /\
                       \E r \in EndpointRoutes : Crowded(S[r], Fixed(c).routes[r])
                  \/ c.engine = "httptreemux" /\ c.echo
  /\ \A r \in EndpointRoutes : Answers(c.engine, es, S[r], Fixed(c).routes[r], t.routes[r], t.panics)
  /\ \A p \in RoutePath : t.routes[<<p, "HEAD">>] = NoHandler
  /\ \A p \in RoutePath : t.allow[p] = IF c.auto_options THEN {m \in EndpointMethods : S[<<p, m>>] # {}} ELSE {}
  /\ \A p \in RoutePath : (t.routes[<<p, "OPTIONS">>] # NoHandler) <=> (t.allow[p] # {})
  /\ ~c.disable_health /\ c.health_path \notin RoutePath =>
       t.routes[<<c.health_path, "GET">>] = Handler("health", 0)

LEMMA RunServes ==
  ASSUME NEW c \in RouterConfig, OfThisEngine(c), NEW n \in Nat, NEW es \in [1..n -> Endpoint]
  PROVE  Serving(c, es, Askers(c.engine, es, n), Run(c, es))
<1>1. PICK b : b = Fixed(c)
  OBVIOUS
<1>2. PICK S : S = Askers(c.engine, es, n)
  OBVIOUS
<1>3. PICK t : t = registerKrakendEndpoints(c.engine, b, es)
  OBVIOUS
<1>4. PICK u : u = Run(c, es)
  OBVIOUS
<1>5. c.engine \in Engines /\ c.health_path \in {"/__health"} \cup RoutePath /\ c.auto_options \in BOOLEAN
  BY DEF RouterConfig
<1>6. c.engine # "gin" => ~c.auto_options /\ c.health_path = "/__health"
  BY DEF OfThisEngine
<1>7. /\ b \in Table
      /\ b.panics <=> c.engine = "httptreemux" /\ c.echo
      /\ b.catalog = [p \in RoutePath |-> << >>] /\ b.allow = [p \in RoutePath |-> {}]
      /\ \A p \in RoutePath, m \in RequestMethods :
           b.routes[<<p, m>>] = IF ~c.disable_health /\ p = c.health_path /\ m = "GET"
                                  THEN Handler("health", 0) ELSE NoHandler
      /\ ~c.disable_health => b.routes[<<c.health_path, "GET">>] = Handler("health", 0)
  <2>1. FixedAs(c, b)
    BY ONLY <1>1, FixedTable, c \in RouterConfig, OfThisEngine(c)
  <2> QED
    BY ONLY <2>1 DEF FixedAs
<1>8. /\ b \in Table /\ \A p \in RoutePath : b.catalog[p] = << >>
      /\ \A p \in RoutePath : b.allow[p] = {}
  BY ONLY <1>7
<1>9. "/__health" \notin RoutePath
  BY RoutePathAssumption
<1>10. \A p \in RoutePath : b.routes[<<p, "HEAD">>] = NoHandler /\ b.routes[<<p, "OPTIONS">>] = NoHandler
  <2>1. "HEAD" \in RequestMethods /\ "OPTIONS" \in RequestMethods /\ "HEAD" # "GET" /\ "OPTIONS" # "GET"
    BY DEF RequestMethods
  <2> QED
    BY ONLY <1>7, <2>1
<1>11. ASSUME c.engine = "gorilla" PROVE \A r \in EndpointRoutes : b.routes[r] = NoHandler
  <2>1. c.health_path \notin RoutePath
    BY <1>6, <1>9, <1>11
  <2>2. \A p \in RoutePath, m \in RequestMethods : b.routes[<<p, m>>] = NoHandler
    BY ONLY <1>7, <2>1
  <2>3. EndpointMethods \subseteq RequestMethods
    BY DEF EndpointMethods, RequestMethods
  <2> QED
    BY ONLY <2>2, <2>3 DEF EndpointRoutes
<1>12. Registering(c.engine, b, es, S, t)
  BY ONLY <1>2, <1>3, <1>5, <1>8, <1>11, EndpointsRegistered, n \in Nat, es \in [1..n -> Endpoint]
<1>13. /\ t \in Table /\ t.allow = b.allow
       /\ \A q \in Routes : q \notin EndpointRoutes => t.routes[q] = b.routes[q]
       /\ \A p \in RoutePath : Range(t.catalog[p]) = {m \in EndpointMethods : S[<<p, m>>] # {}}
       /\ \A r \in EndpointRoutes : Answers(c.engine, es, S[r], b.routes[r], t.routes[r], t.panics)
       /\ c.engine \in {"gin", "httptreemux"} =>
            (t.panics <=> b.panics \/ \E r \in EndpointRoutes : Crowded(S[r], b.routes[r]))
       /\ c.engine \notin {"gin", "httptreemux"} => t.panics = b.panics
  BY ONLY <1>12 DEF Registering
<1>14. ASSUME NEW p, NEW m \in {"HEAD", "OPTIONS"} PROVE <<p, m>> \notin EndpointRoutes
  BY DEF EndpointRoutes, EndpointMethods
<1>15. \A p \in RoutePath : <<p, "HEAD">> \in Routes /\ <<p, "OPTIONS">> \in Routes
  BY DEF Routes, RequestMethods
<1>16. \A p \in RoutePath : t.routes[<<p, "HEAD">>] = NoHandler /\ t.routes[<<p, "OPTIONS">>] = NoHandler
  BY ONLY <1>10, <1>13, <1>14, <1>15
<1>17. t.panics <=> \/ c.engine \in {"gin", "httptreemux"} /\ \E r \in EndpointRoutes : Crowded(S[r], b.routes[r])
                    \/ c.engine = "httptreemux" /\ c.echo
  <2>1. t.panics \in BOOLEAN /\ b.panics \in BOOLEAN
    BY ONLY <1>8, <1>13 DEF Table
  <2>2. c.engine = "httptreemux" => c.engine \in {"gin", "httptreemux"}
    OBVIOUS
  <2> QED
    BY ONLY <1>7, <1>13, <2>1, <2>2
<1>18. ASSUME ~c.disable_health, c.health_path \notin RoutePath
       PROVE  <<c.health_path, "GET">> \in Routes /\ t.routes[<<c.health_path, "GET">>] = Handler("health", 0)
  <2>1. <<c.health_path, "GET">> \in Routes
    BY <1>5 DEF Routes, RequestMethods
  <2>2. <<c.health_path, "GET">> \notin EndpointRoutes
    BY ONLY <1>18 DEF EndpointRoutes
  <2> QED
    BY ONLY <1>7, <1>13, <1>18, <2>1, <2>2
<1>19. CASE ~c.auto_options
  <2>1. u = t
    BY ONLY <1>1, <1>3, <1>4, <1>19 DEF Run
  <2>2. \A p \in RoutePath : t.allow[p] = {}
    BY ONLY <1>8, <1>13
  <2> QED
    BY ONLY <1>1, <1>2, <1>4, <1>13, <1>16, <1>17, <1>18, <1>19, <2>1, <2>2 DEF Serving
<1>20. CASE c.auto_options
  <2>1. u = registerOptionEndpoints(t)
    BY ONLY <1>1, <1>3, <1>4, <1>20 DEF Run
  <2>2. PICK L : L = {p \in RoutePath : t.catalog[p] # << >>}
    OBVIOUS
  <2>3. \A p \in RoutePath : p \in L <=> {m \in EndpointMethods : S[<<p, m>>] # {}} # {}
    <3>1. ASSUME NEW p \in RoutePath PROVE t.catalog[p] # << >> <=> Range(t.catalog[p]) # {}
      <4>1. t.catalog[p] \in Seq(EndpointMethods)
        BY ONLY <1>13, p \in RoutePath DEF Table
      <4>2. t.catalog[p] # << >> <=> DOMAIN t.catalog[p] # {}
        <5>1. PICK s \in Seq(EndpointMethods) : s = t.catalog[p]
          BY ONLY <4>1
        <5>2. s # << >> => Len(s) \in Nat \ {0}
          BY ONLY EmptySeq, s \in Seq(EndpointMethods)
        <5>3. DOMAIN s = 1..Len(s)
          BY ONLY s \in Seq(EndpointMethods)
        <5>4. s # << >> => 1 \in DOMAIN s
          BY ONLY <5>2, <5>3
        <5>5. s = << >> => DOMAIN s = {}
          OBVIOUS
        <5> QED
          BY ONLY <5>1, <5>4, <5>5
      <4> QED
        BY ONLY <4>2 DEF Range
    <3> QED
      BY ONLY <1>13, <2>2, <3>1
  <2>4. IsFiniteSet(L)
    <3>1. IsFiniteSet(1..n)
      BY FS_Interval
    <3>2. IsFiniteSet({es[i].path : i \in 1..n})
      <4>1. PICK T : T = {es[i].path : i \in 1..n}
        OBVIOUS
      <4>2. PICK f : f = [i \in 1..n |-> es[i].path]
        OBVIOUS
      <4>3. f \in Surjection(1..n, T)
        BY ONLY <4>1, <4>2 DEF Surjection
      <4> QED
        BY ONLY <3>1, <4>1, <4>3, FS_Surjection
    <3>3. ASSUME NEW p \in L PROVE p \in {es[i].path : i \in 1..n}
      <4>1. p \in RoutePath
        BY ONLY <2>2, p \in L
      <4>2. PICK m \in EndpointMethods : S[<<p, m>>] # {}
        BY ONLY <2>3, <4>1, p \in L
      <4>3. <<p, m>> \in EndpointRoutes
        BY ONLY RoutesHave, <4>1, m \in EndpointMethods
      <4>4. S[<<p, m>>] = {i \in 1..n : Asking(c.engine, es[i]) /\ RouteOf(es[i]) = <<p, m>>}
        BY ONLY <1>2, <4>3 DEF Askers
      <4>5. PICK i \in 1..n : RouteOf(es[i]) = <<p, m>>
        BY ONLY <4>2, <4>4
      <4>6. es[i].path = p
        BY ONLY <4>5 DEF RouteOf
      <4> QED
        BY ONLY <4>6, i \in 1..n
    <3> QED
      BY ONLY <3>2, <3>3, FS_Subset
  <2>5. Opted(t, L, u)
    BY ONLY <1>13, <1>16, <2>1, <2>2, <2>4, OptionsRegistered
  <2>6. /\ u.panics = t.panics
        /\ \A q \in Routes : q \notin L \X {"OPTIONS"} => u.routes[q] = t.routes[q]
        /\ \A p \in L : u.routes[<<p, "OPTIONS">>] = Handler("options", 0) /\ u.allow[p] = Range(t.catalog[p])
        /\ \A p \in RoutePath : p \notin L => u.allow[p] = t.allow[p]
    BY ONLY <2>5 DEF Opted
  <2>7. \A r \in EndpointRoutes : u.routes[r] = t.routes[r]
    <3>1. \A r \in EndpointRoutes : r \notin L \X {"OPTIONS"}
      BY <1>14 DEF EndpointRoutes, EndpointMethods
    <3> QED
      BY ONLY <2>6, <3>1, RoutesHave
  <2>8. \A p \in RoutePath : u.routes[<<p, "HEAD">>] = NoHandler
    <3>1. \A p \in RoutePath : <<p, "HEAD">> \notin L \X {"OPTIONS"}
      OBVIOUS
    <3> QED
      BY ONLY <1>15, <1>16, <2>6, <3>1
  <2>9. \A p \in RoutePath : u.allow[p] = {m \in EndpointMethods : S[<<p, m>>] # {}}
    BY ONLY <1>8, <1>13, <2>3, <2>6
  <2>10. \A p \in RoutePath : (u.routes[<<p, "OPTIONS">>] # NoHandler) <=> p \in L
    <3>1. Handler("options", 0) # NoHandler
      BY HandlersDiffer
    <3>2. \A p \in RoutePath : p \notin L => <<p, "OPTIONS">> \notin L \X {"OPTIONS"}
      OBVIOUS
    <3> QED
      BY ONLY <1>15, <1>16, <2>6, <3>1, <3>2
  <2>11. ASSUME ~c.disable_health, c.health_path \notin RoutePath
         PROVE  u.routes[<<c.health_path, "GET">>] = Handler("health", 0)
    <3>1. <<c.health_path, "GET">> \notin L \X {"OPTIONS"}
      OBVIOUS
    <3> QED
      BY ONLY <1>18, <2>6, <2>11, <3>1
  <2>12. \A r \in EndpointRoutes : Answers(c.engine, es, S[r], b.routes[r], u.routes[r], u.panics)
    BY ONLY <1>13, <2>6, <2>7
  <2>13. \A p \in RoutePath : (u.routes[<<p, "OPTIONS">>] # NoHandler) <=> (u.allow[p] # {})
    BY ONLY <2>3, <2>9, <2>10
  <2>14. u.panics <=> \/ c.engine \in {"gin", "httptreemux"} /\ \E r \in EndpointRoutes : Crowded(S[r], b.routes[r])
                      \/ c.engine = "httptreemux" /\ c.echo
    BY ONLY <1>17, <2>6
  <2> QED
    BY ONLY <1>1, <1>2, <1>4, <1>20, <2>8, <2>9, <2>11, <2>12, <2>13, <2>14 DEF Serving
<1> QED
  BY ONLY <1>5, <1>19, <1>20

\* Who serves a route that was asked for.
Server(engine, claims) ==
  IF engine = "gorilla" THEN CHOOSE i \in claims : \A j \in claims : i <= j
  ELSE CHOOSE i \in claims : \A j \in claims : i >= j

\* A route that was asked for, on an engine that starts.
Answered(engine, es, S, b, h, stopped) ==
  S \in SUBSET Nat /\ S # {} /\ ~stopped /\ Answers(engine, es, S, b, h, stopped)

LEMMA ServedBy ==
  ASSUME NEW engine \in Engines, NEW es, NEW S, NEW b, NEW h, NEW stopped,
         Answered(engine, es, S, b, h, stopped)
  PROVE  h = HandlerOf(es, Server(engine, S))
<1>1. \A i \in S : i \in Int
  BY DEF Answered
<1>2. CASE engine = "gorilla"
  <2>1. PICK i \in S : (\A j \in S : i <= j) /\ h = HandlerOf(es, i)
    BY <1>2 DEF Answers, Answered
  <2>2. \A x \in S : (\A j \in S : x <= j) => x = i
    BY ONLY <1>1, <2>1
  <2>3. (CHOOSE x \in S : \A j \in S : x <= j) = i
    BY ONLY <2>1, <2>2
  <2> QED
    BY ONLY <1>2, <2>1, <2>3 DEF Server
<1>3. CASE engine # "gorilla"
  <2>1. \E i \in S : (\A j \in S : i >= j) /\ h = HandlerOf(es, i)
    <3>1. CASE engine \in {"mux", "chi"}
      BY <3>1 DEF Answers, Answered
    <3>2. CASE engine \in {"gin", "httptreemux"}
      <4>1. PICK i \in S : S = {i} /\ h = HandlerOf(es, i)
        BY <3>2 DEF Answers, Answered
      <4>2. \A j \in S : i >= j
        BY ONLY <1>1, <4>1
      <4> QED
        BY ONLY <4>1, <4>2
    <3> QED
      BY <1>3, <3>1, <3>2 DEF Engines
  <2>2. PICK i \in S : (\A j \in S : i >= j) /\ h = HandlerOf(es, i)
    BY ONLY <2>1
  <2>3. \A x \in S : (\A j \in S : x >= j) => x = i
    BY ONLY <1>1, <2>2
  <2>4. (CHOOSE x \in S : \A j \in S : x >= j) = i
    BY ONLY <2>2, <2>3
  <2> QED
    BY ONLY <1>3, <2>2, <2>4 DEF Server
<1> QED
  BY ONLY <1>2, <1>3

\* Counting those that want a route.
LEMMA CrowdCount ==
  ASSUME NEW n \in Nat, NEW S \in SUBSET (1..n), NEW b, NEW taken \in BOOLEAN, taken <=> b # NoHandler
  PROVE  Cardinality(S) + (IF taken THEN 1 ELSE 0) > 1 <=> Crowded(S, b)
<1>1. IsFiniteSet(S)
  <2>1. IsFiniteSet(1..n)
    BY FS_Interval
  <2> QED
    BY ONLY <2>1, FS_Subset, S \in SUBSET (1..n)
<1>2. PICK c \in Nat : c = Cardinality(S)
  BY ONLY <1>1, FS_CardinalityType
<1>3. c = 0 <=> S = {}
  BY ONLY <1>1, <1>2, FS_EmptySet
<1>4. c = 1 <=> \E x : S = {x}
  BY ONLY <1>1, <1>2, FS_Singleton
<1>5. c > 1 <=> \E i, j \in S : i # j
  <2>1. c > 1 <=> c # 0 /\ c # 1
    BY ONLY c \in Nat
  <2>2. (S # {} /\ ~\E x : S = {x}) <=> \E i, j \in S : i # j
    <3>1. ASSUME S # {}, ~\E x : S = {x} PROVE \E i, j \in S : i # j
      <4>1. PICK i : i \in S
        BY ONLY <3>1
      <4>2. S # {i}
        BY ONLY <3>1
      <4>3. PICK j \in S : j # i
        BY ONLY <4>1, <4>2
      <4> QED
        BY ONLY <4>1, <4>3
    <3>2. ASSUME \E i, j \in S : i # j PROVE S # {} /\ ~\E x : S = {x}
      BY ONLY <3>2
    <3> QED
      BY ONLY <3>1, <3>2
  <2> QED
    BY ONLY <1>3, <1>4, <2>1, <2>2
<1>6. CASE taken
  <2>1. c + 1 > 1 <=> c # 0
    BY ONLY c \in Nat
  <2>2. b # NoHandler
    BY <1>6
  <2>3. (\E i, j \in S : i # j) => S # {}
    OBVIOUS
  <2> QED
    BY ONLY <1>2, <1>3, <1>6, <2>1, <2>2, <2>3 DEF Crowded
<1>7. CASE ~taken
  <2>1. c + 0 > 1 <=> c > 1
    BY ONLY c \in Nat
  <2>2. b = NoHandler
    BY <1>7
  <2> QED
    BY ONLY <1>2, <1>5, <1>7, <2>1, <2>2 DEF Crowded
<1> QED
  BY ONLY <1>6, <1>7, taken \in BOOLEAN

RouterType == /\ routerConfig \in RouterConfig /\ OfThisEngine(routerConfig)
              /\ endpoints \in Seq(Endpoint)

\* The routes of any router and any endpoints.
LEMMA RoutesOf ==
  ASSUME RouterType
  PROVE  RoutesAreExact
<1>1. PICK c : c = routerConfig
  OBVIOUS
<1>2. PICK es : es = endpoints
  OBVIOUS
<1>3. c \in RouterConfig /\ OfThisEngine(c) /\ es \in Seq(Endpoint)
  BY <1>1, <1>2 DEF RouterType
<1>4. PICK n \in Nat : n = Len(es)
  BY ONLY <1>3
<1>5. DOMAIN es = 1..n /\ es \in [1..n -> Endpoint]
  BY ONLY <1>3, <1>4, n \in Nat
<1>6. DOMAIN endpoints = 1..n
  BY ONLY <1>2, <1>5
<1>7. PICK t : t = Run(c, es)
  OBVIOUS
<1>8. PICK S : S = Askers(c.engine, es, n)
  OBVIOUS
<1>9. Serving(c, es, S, t)
  BY ONLY <1>3, <1>5, <1>7, <1>8, RunServes, n \in Nat
<1>10. PICK b : b = Fixed(c)
  OBVIOUS
<1>11. /\ t.panics <=> \/ c.engine \in {"gin", "httptreemux"} /\ \E r \in EndpointRoutes : Crowded(S[r], b.routes[r])
                       \/ c.engine = "httptreemux" /\ c.echo
       /\ \A r \in EndpointRoutes : Answers(c.engine, es, S[r], b.routes[r], t.routes[r], t.panics)
       /\ \A p \in RoutePath : t.routes[<<p, "HEAD">>] = NoHandler
       /\ \A p \in RoutePath : t.allow[p] = IF c.auto_options THEN {m \in EndpointMethods : S[<<p, m>>] # {}} ELSE {}
       /\ \A p \in RoutePath : (t.routes[<<p, "OPTIONS">>] # NoHandler) <=> (t.allow[p] # {})
       /\ ~c.disable_health /\ c.health_path \notin RoutePath =>
            t.routes[<<c.health_path, "GET">>] = Handler("health", 0)
  BY ONLY <1>9, <1>10 DEF Serving
<1>12. c.engine \in Engines /\ c.disable_health \in BOOLEAN
  BY ONLY <1>3 DEF RouterConfig
<1>13. ASSUME NEW p \in RoutePath, NEW m \in EndpointMethods
       PROVE  /\ Claims(p, m) = S[<<p, m>>] /\ Claims(p, m) \in SUBSET (1..n)
              /\ Taken(p, m) \in BOOLEAN
              /\ Taken(p, m) <=> b.routes[<<p, m>>] # NoHandler
              /\ Taken(p, m) => b.routes[<<p, m>>] = Handler("health", 0)
  <2>1. <<p, m>> \in EndpointRoutes
    BY ONLY RoutesHave, p \in RoutePath, m \in EndpointMethods
  <2>2. S[<<p, m>>] = {i \in 1..n : Asking(c.engine, es[i]) /\ RouteOf(es[i]) = <<p, m>>}
    BY ONLY <1>8, <2>1 DEF Askers
  <2> DEFINE Claim(i) == /\ endpoints[i].path = p
                         /\ ToTitle(endpoints[i].method) = m
                         /\ endpoints[i].builds \/ routerConfig.engine = "gin"
             Asks(i) == Asking(c.engine, es[i]) /\ RouteOf(es[i]) = <<p, m>>
  <2>3. Claims(p, m) = {i \in DOMAIN endpoints : Claim(i)}
    BY ONLY TRUE DEF Claims
  <2>4. ASSUME NEW i \in 1..n PROVE Claim(i) <=> Asks(i)
    <3>1. ToTitle(es[i].method) = m => Supported(es[i].method)
      BY ONLY m \in EndpointMethods DEF Supported, EndpointMethods
    <3>2. RouteOf(es[i]) = <<p, m>> <=> es[i].path = p /\ ToTitle(es[i].method) = m
      BY ONLY TRUE DEF RouteOf
    <3> QED
      BY ONLY <1>1, <1>2, <3>1, <3>2 DEF Asking
  <2>5. S[<<p, m>>] = {i \in 1..n : Asks(i)}
    BY ONLY <2>2
  <2>6. Claims(p, m) = S[<<p, m>>]
    <3> HIDE DEF Claim, Asks
    <3> QED
      BY ONLY <1>6, <2>3, <2>4, <2>5
  <2>7. Taken(p, m) <=> ~c.disable_health /\ p = c.health_path /\ m = "GET"
    BY ONLY <1>1 DEF Taken
  <2>8. Taken(p, m) \in BOOLEAN
    BY DEF Taken
  <2>9. b.routes[<<p, m>>] = IF ~c.disable_health /\ p = c.health_path /\ m = "GET"
                               THEN Handler("health", 0) ELSE NoHandler
    <3>1. FixedAs(c, b)
      BY ONLY <1>3, <1>10, FixedTable
    <3>2. m \in RequestMethods
      BY DEF EndpointMethods, RequestMethods
    <3> QED
      BY ONLY <3>1, <3>2, p \in RoutePath DEF FixedAs
  <2>10. Handler("health", 0) # NoHandler
    BY HandlersDiffer
  <2> QED
    BY ONLY <2>2, <2>6, <2>7, <2>8, <2>9, <2>10
<1>14. (\E r \in EndpointRoutes : Crowded(S[r], b.routes[r])) <=>
         \E p \in RoutePath, m \in EndpointMethods : Cardinality(Claims(p, m)) + (IF Taken(p, m) THEN 1 ELSE 0) > 1
  <2>1. ASSUME NEW p \in RoutePath, NEW m \in EndpointMethods
        PROVE  Cardinality(Claims(p, m)) + (IF Taken(p, m) THEN 1 ELSE 0) > 1 <=>
                 Crowded(S[<<p, m>>], b.routes[<<p, m>>])
    <3>1. Cardinality(Claims(p, m)) + (IF Taken(p, m) THEN 1 ELSE 0) > 1 <=> Crowded(Claims(p, m), b.routes[<<p, m>>])
      BY ONLY <1>13, CrowdCount, n \in Nat, p \in RoutePath, m \in EndpointMethods
    <3> QED
      BY ONLY <1>13, <3>1, p \in RoutePath, m \in EndpointMethods
  <2>2. (\E r \in EndpointRoutes : Crowded(S[r], b.routes[r])) <=>
          \E p \in RoutePath, m \in EndpointMethods : Crowded(S[<<p, m>>], b.routes[<<p, m>>])
    <3>1. ASSUME NEW r \in EndpointRoutes PROVE \E p \in RoutePath, m \in EndpointMethods : r = <<p, m>>
      BY ONLY r \in EndpointRoutes DEF EndpointRoutes
    <3>2. ASSUME \E r \in EndpointRoutes : Crowded(S[r], b.routes[r])
          PROVE  \E p \in RoutePath, m \in EndpointMethods : Crowded(S[<<p, m>>], b.routes[<<p, m>>])
      <4>1. PICK r \in EndpointRoutes : Crowded(S[r], b.routes[r])
        BY ONLY <3>2
      <4>2. PICK p \in RoutePath, m \in EndpointMethods : r = <<p, m>>
        BY ONLY <3>1, r \in EndpointRoutes
      <4> QED
        BY ONLY <4>1, <4>2
    <3>3. ASSUME \E p \in RoutePath, m \in EndpointMethods : Crowded(S[<<p, m>>], b.routes[<<p, m>>])
          PROVE  \E r \in EndpointRoutes : Crowded(S[r], b.routes[r])
      BY ONLY <3>3, RoutesHave
    <3> QED
      BY ONLY <3>2, <3>3
  <2> QED
    BY ONLY <2>1, <2>2
<1>15. ASSUME ~t.panics, NEW p \in RoutePath, NEW m \in EndpointMethods
       PROVE  t.routes[<<p, m>>] =
                IF Claims(p, m) # {}
                  THEN LET i == Server(c.engine, Claims(p, m))
                       IN Handler(IF es[i].builds THEN "endpoint" ELSE "failed", i)
                ELSE IF Taken(p, m) THEN Handler("health", 0)
                ELSE NoHandler
  <2>1. Answers(c.engine, es, Claims(p, m), b.routes[<<p, m>>], t.routes[<<p, m>>], t.panics)
    BY ONLY <1>11, <1>13, RoutesHave, p \in RoutePath, m \in EndpointMethods
  <2>2. Claims(p, m) \in SUBSET (1..n)
    BY ONLY <1>13, p \in RoutePath, m \in EndpointMethods
  <2>3. CASE Claims(p, m) # {}
    <3>1. t.routes[<<p, m>>] = HandlerOf(es, Server(c.engine, Claims(p, m)))
      <4>1. Answered(c.engine, es, Claims(p, m), b.routes[<<p, m>>], t.routes[<<p, m>>], t.panics)
        BY ONLY <1>15, <2>1, <2>2, <2>3, n \in Nat DEF Answered
      <4> QED
        BY ONLY <1>12, <4>1, ServedBy
    <3> QED
      BY ONLY <2>3, <3>1 DEF HandlerOf
  <2>4. CASE Claims(p, m) = {}
    <3>1. t.routes[<<p, m>>] = b.routes[<<p, m>>]
      BY ONLY <2>1, <2>4 DEF Answers
    <3> QED
      BY ONLY <1>13, <2>4, <3>1, p \in RoutePath, m \in EndpointMethods
  <2> QED
    BY ONLY <2>3, <2>4
<1>16. ASSUME ~t.panics, ~c.disable_health PROVE t.routes[<<c.health_path, "GET">>] = Handler("health", 0)
  <2>1. CASE c.health_path \notin RoutePath
    BY ONLY <1>11, <1>16, <2>1
  <2>2. CASE c.health_path \in RoutePath
    <3>1. PICK r : r = <<c.health_path, "GET">>
      OBVIOUS
    <3>2. "GET" \in EndpointMethods
      BY DEF EndpointMethods
    <3>3. r \in EndpointRoutes
      BY ONLY <2>2, <3>1, <3>2, RoutesHave
    <3>4. c.engine = "gin"
      <4>1. c.health_path # "/__health"
        BY <2>2, RoutePathAssumption
      <4> QED
        BY ONLY <1>3, <4>1 DEF OfThisEngine
    <3>5. b.routes[r] = Handler("health", 0) /\ b.routes[r] # NoHandler
      <4>1. Taken(c.health_path, "GET")
        BY ONLY <1>1, <1>16 DEF Taken
      <4> QED
        BY ONLY <1>13, <2>2, <3>1, <3>2, <4>1
    <3>6. ~Crowded(S[r], b.routes[r])
      BY ONLY <1>11, <1>16, <3>3, <3>4
    <3>7. S[r] = {}
      BY ONLY <3>5, <3>6 DEF Crowded
    <3>8. Answers(c.engine, es, S[r], b.routes[r], t.routes[r], t.panics)
      BY ONLY <1>11, <3>3
    <3> QED
      BY ONLY <3>1, <3>5, <3>7, <3>8 DEF Answers
  <2> QED
    BY ONLY <2>1, <2>2
<1>17. \A p \in RoutePath : t.allow[p] = IF c.auto_options THEN {m \in EndpointMethods : Claims(p, m) # {}} ELSE {}
  BY ONLY <1>11, <1>13
<1>18. EndpointMethods = {"GET", "POST"}
  BY DEF EndpointMethods
<1>19. t = Run(routerConfig, endpoints)
  BY ONLY <1>1, <1>2, <1>7
<1>20. t.panics <=>
         \/ c.engine \in {"gin", "httptreemux"} /\ \E p \in RoutePath, m \in {"GET", "POST"} :
              Cardinality(Claims(p, m)) + (IF Taken(p, m) THEN 1 ELSE 0) > 1
         \/ c.engine = "httptreemux" /\ c.echo
  BY ONLY <1>11, <1>14, <1>18
<1>21. ~t.panics => \A p \in RoutePath :
         /\ \A m \in {"GET", "POST"} :
              t.routes[<<p, m>>] =
                IF Claims(p, m) # {}
                  THEN LET i == Server(c.engine, Claims(p, m))
                       IN Handler(IF es[i].builds THEN "endpoint" ELSE "failed", i)
                ELSE IF Taken(p, m) THEN Handler("health", 0)
                ELSE NoHandler
         /\ t.routes[<<p, "HEAD">>] = NoHandler
         /\ t.allow[p] = IF c.auto_options THEN {m \in {"GET", "POST"} : Claims(p, m) # {}} ELSE {}
         /\ (t.routes[<<p, "OPTIONS">>] # NoHandler) <=> (t.allow[p] # {})
  BY ONLY <1>11, <1>15, <1>17, <1>18
<1>22. ~t.panics /\ ~c.disable_health => t.routes[<<c.health_path, "GET">>] = Handler("health", 0)
  BY ONLY <1>16
<1>23. c.engine = routerConfig.engine
  BY ONLY <1>1
<1> QED
  BY ONLY <1>1, <1>2, <1>19, <1>20, <1>21, <1>22 DEF RoutesAreExact, Server

\* Routers are configured, and endpoints added, as RouterSpec says.
LEMMA RouterTyped == RouterSpec => []RouterType
<1>1. NoRouter => RouterType
  BY DEF NoRouter, RouterType, RouterConfig, OfThisEngine, Engines
<1>2. RouterType /\ [AnyRouter \/ AddRoute]_routerVars => RouterType'
  <2> SUFFICES ASSUME RouterType, [AnyRouter \/ AddRoute]_routerVars PROVE RouterType'
    OBVIOUS
  <2>1. CASE AnyRouter
    BY <2>1 DEF AnyRouter, RouterType
  <2>2. CASE AddRoute
    <3>1. PICK p \in RoutePath, m \in ConfiguredMethods, x \in BOOLEAN :
            endpoints' = Append(endpoints, [path |-> p, method |-> m, builds |-> x])
      BY <2>2 DEF AddRoute
    <3>2. [path |-> p, method |-> m, builds |-> x] \in Endpoint
      BY DEF Endpoint
    <3>3. endpoints' \in Seq(Endpoint)
      BY <3>1, <3>2 DEF RouterType
    <3>4. routerConfig' = routerConfig
      BY <2>2 DEF AddRoute
    <3> QED
      BY <3>3, <3>4 DEF RouterType
  <2>3. CASE UNCHANGED routerVars
    BY <2>3 DEF routerVars, RouterType
  <2> QED
    BY <2>1, <2>2, <2>3
<1> QED
  BY <1>1, <1>2, PTL DEF RouterSpec

\* Whatever endpoints a service has, on whatever engine, each route is served
\* by one of those that ask for it, the one the engine prefers, or the router
\* does not start; gin's Allow headers name exactly the methods served.
THEOREM RoutesAreServed == RouterSpec => []RoutesAreExact
<1>1. RouterType => RoutesAreExact
  BY RoutesOf
<1> QED
  BY <1>1, RouterTyped, PTL
=============================================================================

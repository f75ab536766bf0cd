---------------------------- MODULE SRVRecords ----------------------------
(***************************************************************************)
(* How sd/dnssrv turns an answer to a DNS SRV query into a list of hosts:  *)
(* resolve, compact, normalize and gcd.  A host occurs in the list as many *)
(* times as its weight asks for, weights being scaled down first to keep   *)
(* the list short.                                                         *)
(*                                                                         *)
(* A record is a target (standing for host and port, ordered like their    *)
(* strings), a priority and a 16 bit weight.  The scale is 100 in the      *)
(* code; a constant here, so that the interesting cases fit small lists.   *)
(***************************************************************************)
EXTENDS Integers, Sequences, FiniteSets, SequencesExt

CONSTANT Scale

ASSUME ScaleAssumption == Scale \in Nat \ {0}

uint16 == 0..65535

SRV == [target : Nat, priority : Nat, weight : uint16]

Sum(ws) == FoldLeft(LAMBDA a, b : a + b, 0, ws)

scale(ws) == IF Len(ws) > Scale THEN Len(ws) ELSE Scale

\* Weights whose sum exceeds the scale are shared out again, rounding down.
normalize(ws) ==
  IF Sum(ws) <= scale(ws)
    THEN ws
    ELSE [i \in DOMAIN ws |-> (ws[i] * scale(ws)) \div Sum(ws)]

\* localGCD: for b > 0 { a, b = b, a%b }
Euclid[p \in Nat \X Nat] ==
  IF p[2] = 0 THEN p[1] ELSE Euclid[<<p[2], p[1] % p[2]>>]

\* Mutated form of gcd: a zero weight counts as one.
gcdOfZero(ws) ==
  FoldLeft(LAMBDA a, b : IF b = 0 THEN 1 ELSE Euclid[<<a, b>>], 0, ws)

gcd(ws) == FoldLeft(LAMBDA a, b : Euclid[<<a, b>>], 0, ws)

compact(ws) ==
  LET tmp == normalize(ws)
      div == gcd(tmp)
  IN IF div < 2 THEN tmp ELSE [i \in DOMAIN tmp |-> tmp[i] \div div]

\* Mutated form of Before: records of one weight stay in the order they came.
BeforeByWeight(a, b) ==
  \/ a.priority < b.priority
  \/ a.priority = b.priority /\ a.weight > b.weight

\* The order of sort.Slice; records that agree in all fields are equal.
Before(a, b) ==
  \/ a.priority < b.priority
  \/ a.priority = b.priority /\ a.weight > b.weight
  \/ a.priority = b.priority /\ a.weight = b.weight /\ a.target < b.target

Earlier(answer, i) ==
  {j \in DOMAIN answer : \/ Before(answer[j], answer[i])
                         \/ ~Before(answer[i], answer[j]) /\ j < i}

\* Each record goes to the place that the number of earlier ones says.
sorted(answer) ==
  [k \in DOMAIN answer |->
     answer[CHOOSE i \in DOMAIN answer : Cardinality(Earlier(answer, i)) + 1 = k]]

\* if a.Priority > srvs[0].Priority { break }
preferred(answer) ==
  LET s == sorted(answer)
  IN SubSeq(s, 1, Cardinality({i \in DOMAIN s : s[i].priority = s[1].priority}))

\* host[i], times[i] times
repeated(host, times) ==
  FoldLeft(LAMBDA list, i : list \o [j \in 1..times[i] |-> host[i]],
           << >>, [i \in DOMAIN host |-> i])

resolve(answer) ==
  LET s == preferred(answer) IN
  repeated([i \in DOMAIN s |-> s[i].target],
           compact([i \in DOMAIN s |-> s[i].weight]))

---------------------------------------------------------------------------
(* Checked over bounded answers: every state is one answer.                *)

CONSTANTS SRVTargets, Priorities, Weights, MaxRecords

ASSUME AnswerAssumption == /\ SRVTargets \subseteq Nat /\ Priorities \subseteq Nat
                           /\ Weights \subseteq uint16 /\ MaxRecords \in Nat

VARIABLE srvs

\* Every answer over these records; a step looks at the next one.
NoAnswer == srvs = << >>

AnotherRecord ==
  /\ Len(srvs) < MaxRecords
  /\ \E a \in [target : SRVTargets, priority : Priorities, weight : Weights] :
       srvs' = Append(srvs, a)

SRVSpec == NoAnswer /\ [][AnotherRecord]_srvs

Lowest == {a \in {srvs[i] : i \in DOMAIN srvs} :
             \A j \in DOMAIN srvs : a.priority <= srvs[j].priority}

\* If a record of the lowest priority has a weight, the rounding of normalize
\* (subscriber.go:185-204) leaves somebody in the list, which has nobody else: a
\* list without hosts would make every request fail (ErrNoHosts).  If nothing
\* was rounded, compact (subscriber.go:170-183) makes the shares the weights in
\* lowest terms; rounded or not, more weight is never fewer turns.
SharesAreWeights ==
  LET Preferred == {a.target : a \in {b \in Lowest : b.weight > 0}}
      list == resolve(srvs)
      s == preferred(srvs)
      ws == [i \in DOMAIN s |-> s[i].weight]
      cs == compact(ws)
  IN /\ Preferred # {} => list # << >>
     /\ \A i \in DOMAIN list : list[i] \in Preferred
     /\ Sum(ws) <= scale(ws) =>
          \A i, j \in DOMAIN ws : cs[i] * ws[j] = cs[j] * ws[i]
     /\ \A i, j \in DOMAIN ws : ws[i] >= ws[j] => cs[i] >= cs[j]
     /\ Sum(cs) > 0 => ~ \E d \in 2..Scale : \A i \in DOMAIN cs : cs[i] % d = 0

\* The list does not depend on the order in which the server gives the records
\* (the sort at subscriber.go:134-148), which name servers rotate.
OrderDoesNotMatter == resolve(Reverse(srvs)) = resolve(srvs)
===========================================================================

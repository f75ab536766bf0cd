----------------------- MODULE ParallelMergeProofs -----------------------
(***************************************************************************)
(* ParallelMerge is correct for every number of backends, every choice of  *)
(* filtered backends and all response bodies; and what the middlewares of  *)
(* an endpoint make of merged answers (EndpointPipe) stays honest, for any *)
(* number of backends and plugins.                                         *)
(***************************************************************************)
EXTENDS ParallelMerge, EndpointPipe, MergeAccumulatorProofs, FiniteSetTheorems, TLAPS

---------------------------------------------------------------------------
(* The accumulator follows the set of answers, whatever their order.       *)

\* A new accumulator (newIncrementalMergeAccumulator) holds no answer.
LEMMA AccumulatesNothing ==
  ASSUME NEW n \in Int
  PROVE  Accumulates({}, newIncrementalMergeAccumulator(n))
BY DEF Accumulates, newIncrementalMergeAccumulator, FJ!Good, FJ!Bad

\* Merge(nil, err) takes in a failure.
LEMMA AccumulatesFailure ==
  ASSUME NEW A \in SUBSET Message, NEW c \in Accumulator, Accumulates(A, c),
         NEW m \in Message, IsFailure(m)
  PROVE  Accumulates(A \cup {m}, Merge(c, NilResponse, m.err))
<1> DEFINE B == A \cup {m}
           d == Merge(c, NilResponse, m.err)
<1>1. m.err \in ErrorKind /\ m.err # NoError
  BY NilAssumption DEF IsFailure
<1>2. FJ!Good(B) = FJ!Good(A) /\ FJ!Bad(B) # {}
  BY <1>1 DEF FJ!Good, FJ!Bad
<1>3. d = MergeFailure(c, m.err)
  BY <1>1 DEF Merge
<1>4. c.data \in Response \cup {NilResponse} /\ c.errs \in Seq(ErrorKind)
  BY DEF Accumulator
<1>5. d.errs # << >>
  BY <1>1, <1>3, <1>4 DEF MergeFailure
<1>6. /\ d.data = NilResponse <=> c.data = NilResponse
      /\ c.data # NilResponse => d.data.Data = c.data.Data
  <2>1. d.data = IF c.data = NilResponse THEN NilResponse ELSE Incomplete(c.data)
    BY <1>3 DEF MergeFailure
  <2> HIDE DEF d
  <2>2. CASE c.data = NilResponse
    BY <2>1, <2>2
  <2>3. CASE c.data # NilResponse
    <3>1. c.data \in Response
      BY <1>4, <2>3
    <3> QED
      BY <2>1, <2>3, <3>1, IncompleteType, NilAssumption
  <2> QED
    BY <2>2, <2>3
<1>7. c.data # NilResponse => KeysOf(d.data) = KeysOf(c.data)
  BY <1>6 DEF KeysOf
<1> HIDE DEF B, d
<1> QED
  BY <1>2, <1>5, <1>6, <1>7 DEF Accumulates, B, d

\* Merge(res, nil) takes in a response of a backend not heard before.
LEMMA AccumulatesPart ==
  ASSUME NEW A \in SUBSET Message, NEW c \in Accumulator, Accumulates(A, c),
         NEW m \in Message, IsPart(m), m \notin A,
         \A a \in FJ!Good(A) : a.res \in Response
  PROVE  Accumulates(A \cup {m}, Merge(c, m.res, NoError))
<1> DEFINE B == A \cup {m}
           d == Merge(c, m.res, NoError)
           G == FJ!Good(A)
<1>1. m.err = NoError /\ m.res \in Response
  BY DEF IsPart
<1>2. FJ!Good(B) = G \cup {m} /\ FJ!Bad(B) = FJ!Bad(A) /\ m \notin G
  BY <1>1 DEF FJ!Good, FJ!Bad
<1>3. d = MergeResponse(c, m.res)
  BY <1>1 DEF Merge
<1>4. d.errs = c.errs
  BY <1>3 DEF MergeResponse
<1>5. c.data \in Response \cup {NilResponse}
  BY DEF Accumulator
<1>6. CASE c.data = NilResponse
  <2>1. d.data = m.res /\ d.data # NilResponse
    BY <1>1, <1>3, <1>6, NilAssumption DEF MergeResponse
  <2>2. G = {} /\ FJ!Good(B) = {m}
    BY <1>2, <1>6 DEF Accumulates
  <2>3. FJ!Bad(B) = {} => (d.data.IsComplete <=> FJ!AllComplete(B))
    <3> HIDE DEF B, d
    <3> QED
    BY <2>1, <2>2 DEF FJ!AllComplete
  <2> HIDE DEF B, d
  <2>4. KeysOf(d.data) = UNION {KeysOf(a.res) : a \in FJ!Good(B)}
    BY <2>1, <2>2
  <2> QED
    BY <1>2, <1>4, <2>1, <2>2, <2>3, <2>4 DEF Accumulates, B, d
<1>7. CASE c.data # NilResponse
  <2> DEFINE p == c.data
             q == m.res
  <2>1. p \in Response /\ q \in Response /\ G # {}
    BY <1>1, <1>5, <1>7 DEF Accumulates
  <2>2. d.data = combineData(p, q)
    BY <1>3, <1>7 DEF MergeResponse
  <2>3. /\ d.data \in Response /\ d.data # NilResponse
        /\ d.data.Data # NilData
        /\ KeysOf(d.data) = KeysOf(p) \cup KeysOf(q)
    BY <2>1, <2>2, CombineType, NilAssumption
  <2>4. d.data.IsComplete <=> /\ p.Data # NilData /\ p.IsComplete
                              /\ q.Data # NilData /\ q.IsComplete
    BY <2>2 DEF combineData
  <2>5. KeysOf(d.data) = UNION {KeysOf(a.res) : a \in FJ!Good(B)}
    <3>1. KeysOf(p) = UNION {KeysOf(a.res) : a \in G}
      BY <1>7 DEF Accumulates
    <3> HIDE DEF B, d, p, q, G
    <3> QED
      BY <1>2, <2>3, <3>1 DEF q
  <2>6. \A b \in FJ!Good(B) : FJ!Good(B) # {b}
    BY <1>2, <2>1
  <2>7. ~ \E a \in FJ!Good(B) : FJ!Good(B) = {a} /\ a.res.Data = NilData
    BY <2>6
  <2>8. FJ!Bad(B) = {} => (d.data.IsComplete <=> FJ!AllComplete(B))
    <3> SUFFICES ASSUME FJ!Bad(B) = {}
                 PROVE  d.data.IsComplete <=> FJ!AllComplete(B)
      OBVIOUS
    <3>1. p.IsComplete <=> \A a \in G : a.res.IsComplete /\ (a.res.Data # NilData \/ G = {a})
      BY <1>2, <1>7 DEF Accumulates, FJ!AllComplete
    <3>2. p.Data = NilData <=> \E a \in G : G = {a} /\ a.res.Data = NilData
      BY <1>7 DEF Accumulates
    <3>3. FJ!AllComplete(B) <=> \A a \in FJ!Good(B) : a.res.IsComplete /\ a.res.Data # NilData
      BY <2>6 DEF FJ!AllComplete
    <3>4. FJ!AllComplete(B) <=> /\ \A a \in G : a.res.IsComplete /\ a.res.Data # NilData
                                /\ q.IsComplete /\ q.Data # NilData
      BY <1>2, <3>3
    <3>5. (p.IsComplete /\ p.Data # NilData)
             <=> \A a \in G : a.res.IsComplete /\ a.res.Data # NilData
      <4> HIDE DEF p, G
      <4> QED
        BY <3>1, <3>2, <2>1
    <3> HIDE DEF p, q, G, B, d
    <3> QED
      BY <2>4, <3>4, <3>5
  <2>9. \A k \in KeysOf(d.data) :
          \E a \in FJ!Good(B) : k \in KeysOf(a.res) /\ a.res.Data[k] = d.data.Data[k]
    <3> SUFFICES ASSUME NEW k \in KeysOf(d.data)
                 PROVE  \E a \in FJ!Good(B) : k \in KeysOf(a.res) /\ a.res.Data[k] = d.data.Data[k]
      OBVIOUS
    <3>1. k \in KeysOf(p) => \E a \in G : k \in KeysOf(a.res) /\ a.res.Data[k] = p.Data[k]
      BY <1>7 DEF Accumulates
    <3>2. \/ k \in KeysOf(q) /\ d.data.Data[k] = q.Data[k]
          \/ k \in KeysOf(p) /\ d.data.Data[k] = p.Data[k]
      <4>1. k \in KeysOf(p) \cup KeysOf(q)
        BY <2>3
      <4>2. CASE p.Data = NilData /\ q.Data = NilData
        BY <4>1, <4>2 DEF KeysOf
      <4>3. CASE p.Data = NilData /\ q.Data # NilData
        BY <4>1, <4>3, <2>2 DEF KeysOf, combineData
      <4>4. CASE p.Data # NilData /\ q.Data = NilData
        BY <4>1, <4>4, <2>2 DEF KeysOf, combineData
      <4>5. CASE p.Data # NilData /\ q.Data # NilData
        <5>1. d.data.Data = Overlay(p.Data, q.Data)
          BY <4>5, <2>2 DEF combineData
        <5>2. KeysOf(p) = DOMAIN p.Data /\ KeysOf(q) = DOMAIN q.Data
          BY <4>5 DEF KeysOf
        <5> HIDE DEF p, q, d
        <5> QED
          BY <4>1, <5>1, <5>2 DEF Overlay
      <4> QED
        BY <4>2, <4>3, <4>4, <4>5
    <3> HIDE DEF p, q, G, B, d
    <3> QED
      BY <1>2, <3>1, <3>2 DEF q
  <2> HIDE DEF B, d
  <2> QED
    BY <1>2, <1>4, <2>1, <2>3, <2>5, <2>7, <2>8, <2>9 DEF Accumulates, B, d, G
<1> QED
  BY <1>6, <1>7

\* Result() turns an accumulator that heard everybody into the merge of A.
LEMMA ResultMerges ==
  ASSUME NEW A \in SUBSET Message, NEW c \in Accumulator,
         Accumulates(A, c), c.pending = 0
  PROVE  FJ!MergeOf(A, Result(c))
<1>1. c.data \in Response \cup {NilResponse}
  BY DEF Accumulator
<1>2. Result(c).errs = c.errs
  BY DEF Result
<1>3. CASE c.data = NilResponse
  BY <1>2, <1>3 DEF Result, Accumulates, FJ!MergeOf
<1>4. CASE c.data # NilResponse /\ c.errs # << >>
  <2>1. Result(c).resp = Incomplete(c.data)
    BY <1>4 DEF Result
  <2>2. /\ Result(c).resp \in Response /\ Result(c).resp # NilResponse
        /\ Result(c).resp.Data = c.data.Data
        /\ ~Result(c).resp.IsComplete
    BY <1>1, <1>4, <2>1, IncompleteType, NilAssumption
  <2>3. ~FJ!AllComplete(A)
    BY <1>4 DEF Accumulates, FJ!AllComplete
  <2> QED
    BY <1>2, <1>4, <2>2, <2>3 DEF Accumulates, FJ!MergeOf, KeysOf, FJ!KeysOf
<1>5. CASE c.data # NilResponse /\ c.errs = << >>
  <2>1. Result(c).resp = c.data
    BY <1>5 DEF Result
  <2> QED
    BY <1>2, <1>5, <2>1 DEF Accumulates, FJ!MergeOf, KeysOf, FJ!KeysOf
<1> QED
  BY <1>3, <1>4, <1>5

---------------------------------------------------------------------------
(* Counting goroutines.                                                    *)

\* Sets of backends are finite and bounded by N.
LEMMA BackendSets ==
  ASSUME NEW S \in SUBSET Backend
  PROVE  /\ IsFiniteSet(S) /\ Cardinality(S) \in 0..N
         /\ \A b \in Backend : b \notin S => Cardinality(S) < N
<1>1. IsFiniteSet(Backend) /\ Cardinality(Backend) = N
  BY NAssumption, FS_Interval DEF Backend
<1>2. IsFiniteSet(S) /\ Cardinality(S) <= N /\ (Cardinality(S) = N => S = Backend)
  BY <1>1, FS_Subset
<1>3. Cardinality(S) \in Nat
  BY <1>2, FS_CardinalityType
<1> QED
  BY <1>2, <1>3, NAssumption

\* A goroutine joining a set of them is counted once.
LEMMA OneMore ==
  ASSUME NEW S \in SUBSET Backend, NEW b \in Backend, b \notin S
  PROVE  Cardinality(S \cup {b}) = Cardinality(S) + 1
BY BackendSets, FS_AddElement

\* The sets the invariant counts are sets of backends.
LEMMA CountedSets ==
  ASSUME IInv
  PROVE  /\ Asked \in SUBSET Backend /\ Done \in SUBSET Asked
         /\ HeardFrom \in SUBSET Done
         /\ Cardinality(HeardFrom) \in 0..N
         /\ Cardinality(Done) \in 0..N /\ Cardinality(Asked) \in 0..N
         /\ Cardinality(Done) <= Cardinality(Asked)
<1>1. Asked \in SUBSET Backend /\ Done \in SUBSET Asked /\ HeardFrom \in SUBSET Done
  BY DEF Asked, Done, HeardFrom, IInv, MessageInv
<1>2. Cardinality(Done) <= Cardinality(Asked)
  BY <1>1, BackendSets, FS_Subset
<1>3. Done \in SUBSET Backend /\ HeardFrom \in SUBSET Backend
  BY <1>1
<1> QED
  BY <1>1, <1>2, <1>3, BackendSets

\* The capacity of the channels (lines 285-286) is enough: whoever has not
\* sent yet finds a free slot in both.
LEMMA RoomToSend ==
  ASSUME IInv, NEW b \in Backend, worker[b] # "done"
  PROVE  Len(parts) < ChanCap /\ Len(failed) < ChanCap
<1>1. Done \in SUBSET Backend /\ b \notin Done
  BY DEF Done
<1>2. Cardinality(Done) < N /\ Cardinality(Done) \in 0..N
  BY <1>1, BackendSets
<1>3. /\ Len(parts) + Len(failed) + collected = Cardinality(Done)
      /\ Len(parts) \in Nat /\ Len(failed) \in Nat /\ collected \in 0..N
  BY DEF IInv, CountInv, TypeOK
<1> QED
  BY <1>2, <1>3, NAssumption DEF ChanCap

---------------------------------------------------------------------------
(* The invariant holds initially and is preserved by every action.         *)

\* The request starts with nothing forked, sent or heard.
LEMMA InitIInv == Init => IInv
<1> SUFFICES ASSUME Init PROVE IInv
  OBVIOUS
<1> USE NAssumption
<1>1. Asked = {} /\ Done = {} /\ HeardFrom = {}
  BY DEF Init, Asked, Done, HeardFrom
<1>2. TypeOK
  <2>1. acc \in Accumulator
    BY DEF Init, newIncrementalMergeAccumulator, Accumulator
  <2>2. held \in [Backend -> Message]
    BY DEF Init, Part, Message
  <2>3. outcome \in Outcome
    BY DEF Init, Outcome
  <2>4. worker \in [Backend -> WorkerState]
    BY DEF Init, WorkerState
  <2> QED
    BY <2>1, <2>2, <2>3, <2>4 DEF Init, TypeOK
<1>3. Cardinality({}) = 0
  BY FS_EmptySet
<1>4. ForkInv
  BY <1>1, <1>3 DEF Init, ForkInv, Backend
<1>5. MessageInv
  BY DEF Init, MessageInv, Part
<1>6. OnceInv
  BY DEF Init, OnceInv
<1>7. CountInv
  BY <1>1, <1>3 DEF Init, CountInv
<1>8. AccInv
  BY DEF Init, AccInv
<1> QED
  BY <1>2, <1>4, <1>5, <1>6, <1>7, <1>8 DEF IInv

\* Forking a goroutine (line 293).
LEMMA ForkStep == IInv /\ Fork => IInv'
<1> SUFFICES ASSUME IInv, Fork PROVE IInv'
  OBVIOUS
<1> USE NAssumption
<1>1. at \in Backend /\ worker[at] = "idle" /\ worker \in [Backend -> WorkerState]
  BY DEF Fork, IInv, ForkInv, TypeOK, Backend
<1>2. Asked' = Asked \cup {at} /\ at \notin Asked /\ Done' = Done /\ HeardFrom' = HeardFrom
  BY <1>1 DEF Fork, Asked, Done, HeardFrom
<1>3. Cardinality(Asked') = Cardinality(Asked) + 1 /\ Cardinality(Asked) \in 0..N
  BY <1>1, <1>2, CountedSets, OneMore
<1>4. TypeOK'
  BY DEF Fork, IInv, TypeOK, WorkerState, Backend
<1>5. ForkInv'
  BY <1>1, <1>3 DEF Fork, IInv, ForkInv, TypeOK, Backend
<1>6. MessageInv'
  <2>1. \A b \in Backend : worker'[b] \in {"sending", "failing"} => worker'[b] = worker[b]
    BY <1>1 DEF Fork
  <2> QED
    BY <1>2, <2>1 DEF Fork, IInv, MessageInv
<1>7. OnceInv' /\ CountInv'
  BY <1>2 DEF Fork, IInv, OnceInv, CountInv
<1>8. AccInv'
  BY DEF Fork, IInv, AccInv
<1> QED
  BY <1>4, <1>5, <1>6, <1>7, <1>8 DEF IInv

\* A filter that refuses the request lowers the count (lines 289-292).
LEMMA SkipStep == IInv /\ Skip => IInv'
<1> SUFFICES ASSUME IInv, Skip PROVE IInv'
  OBVIOUS
<1> USE NAssumption
<1>1. Asked' = Asked /\ Done' = Done /\ HeardFrom' = HeardFrom
  BY DEF Skip, Asked, Done, HeardFrom
<1>2. Cardinality(Asked) \in 0..N
  BY CountedSets
<1>3. ForkInv'
  BY <1>1, <1>2 DEF Skip, IInv, ForkInv, TypeOK, Backend
<1>4. TypeOK'
  BY <1>2 DEF Skip, IInv, TypeOK, ForkInv, Backend
<1>5. MessageInv' /\ OnceInv' /\ CountInv' /\ AccInv'
  BY <1>1 DEF Skip, IInv, MessageInv, OnceInv, CountInv, AccInv
<1> QED
  BY <1>3, <1>4, <1>5 DEF IInv

\* The accumulator is created once the fork loop is over (line 296).
LEMMA StartCollectingStep == IInv /\ StartCollecting => IInv'
<1> SUFFICES ASSUME IInv, StartCollecting PROVE IInv'
  OBVIOUS
<1> USE NAssumption
<1>1. Asked' = Asked /\ Done' = Done /\ HeardFrom' = HeardFrom
  BY DEF StartCollecting, Asked, Done, HeardFrom
<1>2. proxyCount \in Int /\ heard = {} /\ collected = 0
  BY DEF StartCollecting, IInv, TypeOK, ForkInv
<1>3. AccInv'
  <2>1. Accumulates({}, newIncrementalMergeAccumulator(proxyCount))
    BY <1>2, AccumulatesNothing
  <2>2. newIncrementalMergeAccumulator(proxyCount).pending = proxyCount
    BY DEF newIncrementalMergeAccumulator
  <2> QED
    BY <1>2, <2>1, <2>2 DEF StartCollecting, AccInv
<1>4. TypeOK'
  <2>1. newIncrementalMergeAccumulator(proxyCount) \in Accumulator
    BY <1>2 DEF newIncrementalMergeAccumulator, Accumulator
  <2> QED
    BY <2>1 DEF StartCollecting, IInv, TypeOK
<1>5. ForkInv'
  BY <1>1 DEF StartCollecting, IInv, ForkInv, TypeOK
<1>6. MessageInv' /\ OnceInv' /\ CountInv'
  BY <1>1 DEF StartCollecting, IInv, MessageInv, OnceInv, CountInv
<1> QED
  BY <1>3, <1>4, <1>5, <1>6 DEF IInv

\* Facts about the first element of a non-empty channel.
LEMMA Receive ==
  ASSUME NEW q \in Seq(Message), q # << >>
  PROVE  /\ Head(q) = q[1] /\ Head(q) \in Message /\ 1 \in 1..Len(q)
         /\ Tail(q) \in Seq(Message) /\ Len(Tail(q)) = Len(q) - 1
         /\ \A j \in 1..Len(Tail(q)) : j + 1 \in 1..Len(q) /\ Tail(q)[j] = q[j + 1]
         /\ Len(q) \in Nat \ {0}
OBVIOUS

\* Hearing a message that nobody heard before adds its sender to HeardFrom.
LEMMA HearOne ==
  ASSUME IInv, NEW m \in Message, m.from \in Done, m.from \notin HeardFrom,
         heard' = heard \cup {m}
  PROVE  /\ HeardFrom' = HeardFrom \cup {m.from} /\ m \notin heard
         /\ Cardinality(HeardFrom') = Cardinality(HeardFrom) + 1
         /\ \A x \in heard : x.from # m.from
<1>1. HeardFrom' = HeardFrom \cup {m.from} /\ \A x \in heard : x.from # m.from
  BY DEF HeardFrom
<1>2. m.from \in Backend /\ HeardFrom \in SUBSET Backend
  BY CountedSets DEF Done
<1> QED
  BY <1>1, <1>2, OneMore

\* Collecting an error (lines 299-300).
LEMMA CollectFailureStep == IInv /\ CollectFailure => IInv'
<1> SUFFICES ASSUME IInv, CollectFailure PROVE IInv'
  OBVIOUS
<1> DEFINE m == Head(failed)
<1> USE NAssumption
<1>1. /\ failed \in Seq(Message) /\ failed # << >> /\ heard \in SUBSET Message
      /\ acc \in Accumulator /\ pc = "collect"
  BY DEF CollectFailure, IInv, TypeOK
<1>2. m \in Message /\ IsFailure(m) /\ m.from \in Done /\ m.from \notin HeardFrom
  BY <1>1, Receive DEF IInv, MessageInv, OnceInv
<1>3. /\ failed' \in Seq(Message) /\ Len(failed') = Len(failed) - 1 /\ Len(failed) \in Nat \ {0}
      /\ \A j \in 1..Len(failed') : j + 1 \in 1..Len(failed) /\ failed'[j] = failed[j + 1]
  BY <1>1, Receive DEF CollectFailure
<1>4. /\ HeardFrom' = HeardFrom \cup {m.from} /\ m \notin heard
      /\ Cardinality(HeardFrom') = Cardinality(HeardFrom) + 1
      /\ \A x \in heard : x.from # m.from
  BY <1>2, HearOne DEF CollectFailure
<1>5. Asked' = Asked /\ Done' = Done
  BY DEF CollectFailure, Asked, Done
<1>6. acc' = Merge(acc, NilResponse, m.err) /\ m.err \in ErrorKind /\ heard' = heard \cup {m}
  BY <1>2 DEF CollectFailure, IsFailure
<1>7. acc' \in Accumulator
  BY <1>1, <1>6, MergeType
<1>8. AccInv'
  <2>1. Accumulates(heard, acc) /\ acc.pending = proxyCount - collected
    BY <1>1 DEF IInv, AccInv
  <2>2. Accumulates(heard', acc')
    BY <1>1, <1>2, <1>6, <2>1, AccumulatesFailure
  <2>3. acc'.pending = acc.pending - 1
    BY <1>6, NilAssumption DEF Merge, MergeFailure
  <2>4. acc'.pending = proxyCount' - collected' /\ pc' = "collect"
    BY <1>1, <2>1, <2>3 DEF CollectFailure, IInv, TypeOK
  <2> QED
    BY <2>2, <2>4 DEF AccInv
<1> HIDE DEF m
<1>9. TypeOK'
  BY <1>2, <1>3, <1>6, <1>7 DEF CollectFailure, IInv, TypeOK
<1>10. ForkInv'
  BY <1>5 DEF CollectFailure, IInv, TypeOK, ForkInv
<1>11. MessageInv'
  BY <1>2, <1>3, <1>5, <1>6 DEF CollectFailure, IInv, MessageInv
<1>12. OnceInv'
  <2>1. \A j \in 1..Len(failed') : failed'[j].from # m.from
    BY <1>1, <1>3, Receive DEF m, IInv, OnceInv
  <2>2. \A j \in 1..Len(parts) : parts[j].from # m.from
    BY <1>1, Receive DEF m, IInv, OnceInv
  <2>3. \A i, j \in 1..Len(failed') : failed'[i].from = failed'[j].from => i = j
    <3> SUFFICES ASSUME NEW i \in 1..Len(failed'), NEW j \in 1..Len(failed'),
                        failed'[i].from = failed'[j].from
                 PROVE  i = j
      OBVIOUS
    <3>1. i + 1 = j + 1
      BY <1>3 DEF IInv, OnceInv
    <3> QED
      BY <1>3, <3>1
  <2>4. parts' = parts
    BY DEF CollectFailure
  <2>5. \A i \in 1..Len(parts'), j \in 1..Len(failed') : parts'[i].from # failed'[j].from
    BY <1>3, <2>4 DEF IInv, OnceInv
  <2>6. \A i \in 1..Len(parts') : parts'[i].from \notin HeardFrom'
    BY <1>4, <2>2, <2>4 DEF IInv, OnceInv
  <2>7. \A i \in 1..Len(failed') : failed'[i].from \notin HeardFrom'
    BY <1>3, <1>4, <2>1 DEF IInv, OnceInv
  <2>8. \A x, y \in heard' : x.from = y.from => x = y
    BY <1>4, <1>6 DEF IInv, OnceInv
  <2> QED
    BY <2>3, <2>4, <2>5, <2>6, <2>7, <2>8 DEF IInv, OnceInv
<1>13. CountInv'
  BY <1>3, <1>4, <1>5 DEF CollectFailure, IInv, CountInv, TypeOK
<1> QED
  BY <1>8, <1>9, <1>10, <1>11, <1>12, <1>13 DEF IInv

\* Collecting a response (lines 301-302).
LEMMA CollectPartStep == IInv /\ CollectPart => IInv'
<1> SUFFICES ASSUME IInv, CollectPart PROVE IInv'
  OBVIOUS
<1> DEFINE m == Head(parts)
<1> USE NAssumption
<1>1. /\ parts \in Seq(Message) /\ parts # << >> /\ heard \in SUBSET Message
      /\ acc \in Accumulator /\ pc = "collect"
  BY DEF CollectPart, IInv, TypeOK
<1>2. m \in Message /\ IsPart(m) /\ m.from \in Done /\ m.from \notin HeardFrom
  BY <1>1, Receive DEF IInv, MessageInv, OnceInv
<1>3. /\ parts' \in Seq(Message) /\ Len(parts') = Len(parts) - 1 /\ Len(parts) \in Nat \ {0}
      /\ \A j \in 1..Len(parts') : j + 1 \in 1..Len(parts) /\ parts'[j] = parts[j + 1]
  BY <1>1, Receive DEF CollectPart
<1>4. /\ HeardFrom' = HeardFrom \cup {m.from} /\ m \notin heard
      /\ Cardinality(HeardFrom') = Cardinality(HeardFrom) + 1
      /\ \A x \in heard : x.from # m.from
  BY <1>2, HearOne DEF CollectPart
<1>5. Asked' = Asked /\ Done' = Done
  BY DEF CollectPart, Asked, Done
<1>6. acc' = Merge(acc, m.res, NoError) /\ m.res \in Response /\ heard' = heard \cup {m}
  BY <1>2 DEF CollectPart, IsPart
<1>7. acc' \in Accumulator
  BY <1>1, <1>6, MergeType
<1>8. AccInv'
  <2>1. Accumulates(heard, acc) /\ acc.pending = proxyCount - collected
    BY <1>1 DEF IInv, AccInv
  <2>2. \A a \in FJ!Good(heard) : a.res \in Response
    BY NilAssumption DEF FJ!Good, IInv, MessageInv, IsPart, IsFailure
  <2>3. Accumulates(heard', acc')
    BY <1>1, <1>2, <1>4, <1>6, <2>1, <2>2, AccumulatesPart
  <2>4. acc'.pending = acc.pending - 1
    BY <1>6 DEF Merge, MergeResponse
  <2>5. acc'.pending = proxyCount' - collected' /\ pc' = "collect"
    BY <1>1, <2>1, <2>4 DEF CollectPart, IInv, TypeOK
  <2> QED
    BY <2>3, <2>5 DEF AccInv
<1> HIDE DEF m
<1>9. TypeOK'
  BY <1>2, <1>3, <1>6, <1>7 DEF CollectPart, IInv, TypeOK
<1>10. ForkInv'
  BY <1>5 DEF CollectPart, IInv, TypeOK, ForkInv
<1>11. MessageInv'
  BY <1>2, <1>3, <1>5, <1>6 DEF CollectPart, IInv, MessageInv
<1>12. OnceInv'
  <2>1. \A j \in 1..Len(parts') : parts'[j].from # m.from
    <3>1. m = parts[1] /\ 1 \in 1..Len(parts)
      BY <1>1, Receive DEF m
    <3>2. ASSUME NEW x \in 1..Len(parts), NEW y \in 1..Len(parts), parts[x].from = parts[y].from
          PROVE  x = y
      BY <3>2 DEF IInv, OnceInv
    <3>3. ASSUME NEW j \in 1..Len(parts'), parts'[j].from = m.from PROVE FALSE
      <4>1. j + 1 \in 1..Len(parts) /\ parts'[j] = parts[j + 1] /\ j + 1 # 1
        BY <1>3
      <4> QED
        BY ONLY <3>1, <3>2, <3>3, <4>1
    <3> QED
      BY <3>3
  <2>2. \A j \in 1..Len(failed) : failed[j].from # m.from
    BY <1>1, Receive DEF m, IInv, OnceInv
  <2>3. \A i, j \in 1..Len(parts') : parts'[i].from = parts'[j].from => i = j
    <3> SUFFICES ASSUME NEW i \in 1..Len(parts'), NEW j \in 1..Len(parts'),
                        parts'[i].from = parts'[j].from
                 PROVE  i = j
      OBVIOUS
    <3>1. i + 1 = j + 1
      BY <1>3 DEF IInv, OnceInv
    <3> QED
      BY <1>3, <3>1
  <2>4. failed' = failed
    BY DEF CollectPart
  <2>5. \A i \in 1..Len(parts'), j \in 1..Len(failed') : parts'[i].from # failed'[j].from
    BY <1>3, <2>4 DEF IInv, OnceInv
  <2>6. \A i \in 1..Len(parts') : parts'[i].from \notin HeardFrom'
    BY <1>3, <1>4, <2>1 DEF IInv, OnceInv
  <2>7. \A i \in 1..Len(failed') : failed'[i].from \notin HeardFrom'
    BY <1>4, <2>2, <2>4 DEF IInv, OnceInv
  <2>8. \A x, y \in heard' : x.from = y.from => x = y
    BY <1>4, <1>6 DEF IInv, OnceInv
  <2> QED
    BY <2>3, <2>4, <2>5, <2>6, <2>7, <2>8 DEF IInv, OnceInv
<1>13. CountInv'
  BY <1>3, <1>4, <1>5 DEF CollectPart, IInv, CountInv, TypeOK
<1> QED
  BY <1>8, <1>9, <1>10, <1>11, <1>12, <1>13 DEF IInv

\* Returning the result (lines 306-308).
LEMMA ReturnStep == IInv /\ Return => IInv'
<1> SUFFICES ASSUME IInv, Return PROVE IInv'
  OBVIOUS
<1>1. Asked' = Asked /\ Done' = Done /\ HeardFrom' = HeardFrom
  BY DEF Return, Asked, Done, HeardFrom
<1>2. collected = proxyCount /\ heard \in SUBSET Message /\ acc \in Accumulator
  BY DEF Return, IInv, ForkInv, TypeOK
<1>3. Accumulates(heard, acc) /\ acc.pending = 0
  BY <1>2 DEF Return, IInv, AccInv, TypeOK
<1>4. FJ!MergeOf(heard, Result(acc)) /\ Result(acc) \in Outcome
  BY <1>2, <1>3, ResultMerges, ResultType
<1>5. TypeOK'
  BY <1>4 DEF Return, IInv, TypeOK
<1>6. ForkInv'
  BY <1>1, <1>2 DEF Return, IInv, ForkInv
<1>7. AccInv'
  BY <1>4 DEF Return, IInv, AccInv
<1>8. MessageInv' /\ OnceInv' /\ CountInv'
  BY <1>1 DEF Return, IInv, MessageInv, OnceInv, CountInv
<1> QED
  BY <1>5, <1>6, <1>7, <1>8 DEF IInv

\* The end of the context (lines 280, 307) changes nothing else.
LEMMA CtxDoneStep ==
  ASSUME IInv, NEW cause \in {"deadline", "canceled"}, CtxDone(cause)
  PROVE  IInv'
<1>1. Asked' = Asked /\ Done' = Done /\ HeardFrom' = HeardFrom
  BY DEF CtxDone, Asked, Done, HeardFrom
<1>2. TypeOK' /\ ForkInv' /\ MessageInv'
  BY <1>1 DEF CtxDone, IInv, TypeOK, ForkInv, MessageInv
<1>3. OnceInv' /\ CountInv' /\ AccInv'
  BY <1>1 DEF CtxDone, IInv, OnceInv, CountInv, AccInv
<1> QED
  BY <1>2, <1>3 DEF IInv

\* A goroutine that gets hold of what it will send (lines 489-505): only its
\* own state changes.
LEMMA HoldStep ==
  ASSUME IInv, NEW b \in Backend, worker[b] \in {"calling", "sending"},
         NEW m \in Message, m.from = b,
         NEW next \in {"sending", "failing"},
         next = "sending" => IsPart(m), next = "failing" => IsFailure(m),
         Hold(b, m, next),
         UNCHANGED <<ctx, pc, at, proxyCount, collected, parts, failed, acc,
                     outcome, heard>>
  PROVE  IInv'
<1>1. /\ held' = [held EXCEPT ![b] = m] /\ worker' = [worker EXCEPT ![b] = next]
      /\ held \in [Backend -> Message] /\ worker \in [Backend -> WorkerState]
  BY DEF Hold, IInv, TypeOK
<1>2. Asked' = Asked /\ Done' = Done /\ HeardFrom' = HeardFrom
  BY <1>1 DEF Asked, Done, HeardFrom
<1>3. TypeOK'
  BY <1>1 DEF IInv, TypeOK, WorkerState
<1>4. ForkInv'
  BY <1>1, <1>2 DEF IInv, ForkInv
<1>5. MessageInv'
  <2>1. \A c \in Backend : /\ held'[c].from = c
                           /\ worker'[c] = "sending" => IsPart(held'[c])
                           /\ worker'[c] = "failing" => IsFailure(held'[c])
    BY <1>1 DEF IInv, MessageInv
  <2> QED
    BY <1>2, <2>1 DEF IInv, MessageInv
<1>6. OnceInv' /\ CountInv' /\ AccInv'
  BY <1>2 DEF IInv, OnceInv, CountInv, AccInv
<1> QED
  BY <1>3, <1>4, <1>5, <1>6 DEF IInv

\* next returned: an error, nothing, or a response.
LEMMA NextReturnsStep ==
  ASSUME IInv, NEW b \in Backend, NextReturns(b)
  PROVE  IInv'
<1>1. \A e \in ErrorKind : Failure(b, e) \in Message /\ IsFailure(Failure(b, e))
  BY DEF Failure, Message, IsFailure
<1>2. \A r \in Response : Part(b, r) \in Message /\ IsPart(Part(b, r))
  BY DEF Part, Message, IsPart
<1>3. CASE NextFails(b)
  <2>1. PICK e \in ErrorKind : Hold(b, Failure(b, e), "failing")
    BY <1>3 DEF NextFails, ErrorKind, IInv, TypeOK
  <2> QED
    BY <1>1, <1>3, <2>1, HoldStep DEF NextFails, Failure
<1>4. CASE NextReturnsNil(b)
  BY <1>1, <1>4, HoldStep DEF NextReturnsNil, Failure, ErrorKind
<1>5. CASE NextResponds(b)
  <2>1. PICK r \in Response : Hold(b, Part(b, r), "sending")
    BY <1>5 DEF NextResponds
  <2> QED
    BY <1>2, <1>5, <2>1, HoldStep DEF NextResponds, Part
<1> QED
  BY <1>3, <1>4, <1>5 DEF NextReturns

\* The select takes ctx.Done() and drops the response (lines 502-503).
LEMMA GiveUpStep ==
  ASSUME IInv, NEW b \in Backend, GiveUp(b)
  PROVE  IInv'
<1>1. ctx \in ErrorKind
  BY DEF GiveUp, IInv, TypeOK, ErrorKind
<1>2. Failure(b, ctx) \in Message /\ IsFailure(Failure(b, ctx)) /\ Failure(b, ctx).from = b
  BY <1>1 DEF Failure, Message, IsFailure
<1> QED
  BY <1>2, HoldStep DEF GiveUp

\* What both sends have in common: the sender joins Done.
LEMMA SentStep ==
  ASSUME IInv, NEW b \in Backend, worker[b] \in {"sending", "failing"},
         worker' = [worker EXCEPT ![b] = "done"], UNCHANGED heard
  PROVE  /\ Asked' = Asked /\ Done' = Done \cup {b} /\ HeardFrom' = HeardFrom
         /\ b \notin Done /\ b \notin HeardFrom
         /\ Cardinality(Done') = Cardinality(Done) + 1
         /\ worker' \in [Backend -> WorkerState]
         /\ \A c \in Backend : worker'[c] \in {"idle", "sending", "failing"}
                                 => worker'[c] = worker[c]
<1>1. worker \in [Backend -> WorkerState]
  BY DEF IInv, TypeOK
<1>2. Asked' = Asked /\ Done' = Done \cup {b} /\ HeardFrom' = HeardFrom /\ b \notin Done
  BY <1>1 DEF Asked, Done, HeardFrom
<1>3. Done \in SUBSET Backend /\ b \notin HeardFrom
  BY <1>2, CountedSets
<1>4. Cardinality(Done') = Cardinality(Done) + 1
  BY <1>2, <1>3, OneMore
<1>5. worker' \in [Backend -> WorkerState]
  BY <1>1 DEF WorkerState
<1> QED
  BY <1>1, <1>2, <1>3, <1>4, <1>5

\* The channel after a send.
LEMMA Sent ==
  ASSUME NEW q \in Seq(Message), NEW m \in Message
  PROVE  /\ Append(q, m) \in Seq(Message) /\ Len(Append(q, m)) = Len(q) + 1
         /\ Len(q) \in Nat
         /\ \A j \in 1..Len(Append(q, m)) :
              \/ j \in 1..Len(q) /\ Append(q, m)[j] = q[j]
              \/ j = Len(q) + 1 /\ Append(q, m)[j] = m
OBVIOUS

\* out <- in (line 501).
LEMMA SendPartStep ==
  ASSUME IInv, NEW b \in Backend, SendPart(b)
  PROVE  IInv'
<1> DEFINE m == held[b]
<1>1. parts \in Seq(Message) /\ m \in Message /\ m.from = b /\ IsPart(m)
  BY DEF SendPart, IInv, TypeOK, MessageInv
<1>2. /\ Asked' = Asked /\ Done' = Done \cup {b} /\ HeardFrom' = HeardFrom
      /\ b \notin Done /\ b \notin HeardFrom
      /\ Cardinality(Done') = Cardinality(Done) + 1
      /\ worker' \in [Backend -> WorkerState]
      /\ \A c \in Backend : worker'[c] \in {"idle", "sending", "failing"}
                              => worker'[c] = worker[c]
  BY SentStep DEF SendPart
<1>3. /\ parts' \in Seq(Message) /\ Len(parts') = Len(parts) + 1 /\ Len(parts) \in Nat
      /\ \A j \in 1..Len(parts') : \/ j \in 1..Len(parts) /\ parts'[j] = parts[j]
                                   \/ j = Len(parts) + 1 /\ parts'[j] = m
  BY <1>1, Sent DEF SendPart
<1> HIDE DEF m
<1>4. TypeOK'
  BY <1>2, <1>3 DEF SendPart, IInv, TypeOK
<1>5. ForkInv'
  <2>1. \A c \in Backend : c >= at => worker'[c] = "idle"
    <3>1. \A c \in Backend : c >= at => c # b
      BY DEF SendPart, IInv, ForkInv
    <3> QED
      BY <3>1 DEF SendPart, IInv, ForkInv
  <2> QED
    BY <1>2, <2>1 DEF SendPart, IInv, ForkInv
<1>6. MessageInv'
  BY <1>1, <1>2, <1>3 DEF SendPart, IInv, MessageInv
<1>7. OnceInv'
  <2>1. /\ \A j \in 1..Len(parts) : parts[j].from # b
        /\ \A j \in 1..Len(failed) : failed[j].from # b
    BY <1>2 DEF IInv, MessageInv
  <2>2. heard' = heard /\ failed' = failed
    BY DEF SendPart
  <2>3. \A i, j \in 1..Len(parts') : parts'[i].from = parts'[j].from => i = j
    BY <1>1, <1>3, <2>1 DEF IInv, OnceInv
  <2>4. \A i \in 1..Len(parts'), j \in 1..Len(failed') : parts'[i].from # failed'[j].from
    BY <1>1, <1>3, <2>1, <2>2 DEF IInv, OnceInv
  <2>5. \A i \in 1..Len(parts') : parts'[i].from \notin HeardFrom'
    BY <1>1, <1>2, <1>3 DEF IInv, OnceInv
  <2> QED
    BY <1>2, <2>2, <2>3, <2>4, <2>5 DEF IInv, OnceInv
<1>8. CountInv'
  BY <1>2, <1>3 DEF SendPart, IInv, CountInv, TypeOK
<1>9. AccInv'
  BY DEF SendPart, IInv, AccInv
<1> QED
  BY <1>4, <1>5, <1>6, <1>7, <1>8, <1>9 DEF IInv

\* failed <- err (lines 491, 496, 503).
LEMMA SendFailureStep ==
  ASSUME IInv, NEW b \in Backend, SendFailure(b)
  PROVE  IInv'
<1> DEFINE m == held[b]
<1>1. failed \in Seq(Message) /\ m \in Message /\ m.from = b /\ IsFailure(m)
  BY DEF SendFailure, IInv, TypeOK, MessageInv
<1>2. /\ Asked' = Asked /\ Done' = Done \cup {b} /\ HeardFrom' = HeardFrom
      /\ b \notin Done /\ b \notin HeardFrom
      /\ Cardinality(Done') = Cardinality(Done) + 1
      /\ worker' \in [Backend -> WorkerState]
      /\ \A c \in Backend : worker'[c] \in {"idle", "sending", "failing"}
                              => worker'[c] = worker[c]
  BY SentStep DEF SendFailure
<1>3. /\ failed' \in Seq(Message) /\ Len(failed') = Len(failed) + 1 /\ Len(failed) \in Nat
      /\ \A j \in 1..Len(failed') : \/ j \in 1..Len(failed) /\ failed'[j] = failed[j]
                                    \/ j = Len(failed) + 1 /\ failed'[j] = m
  BY <1>1, Sent DEF SendFailure
<1> HIDE DEF m
<1>4. TypeOK'
  BY <1>2, <1>3 DEF SendFailure, IInv, TypeOK
<1>5. ForkInv'
  <2>1. \A c \in Backend : c >= at => worker'[c] = "idle"
    <3>1. \A c \in Backend : c >= at => c # b
      BY DEF SendFailure, IInv, ForkInv
    <3> QED
      BY <3>1 DEF SendFailure, IInv, ForkInv
  <2> QED
    BY <1>2, <2>1 DEF SendFailure, IInv, ForkInv
<1>6. MessageInv'
  BY <1>1, <1>2, <1>3 DEF SendFailure, IInv, MessageInv
<1>7. OnceInv'
  <2>1. /\ \A j \in 1..Len(parts) : parts[j].from # b
        /\ \A j \in 1..Len(failed) : failed[j].from # b
    BY <1>2 DEF IInv, MessageInv
  <2>2. heard' = heard /\ parts' = parts
    BY DEF SendFailure
  <2>3. \A i, j \in 1..Len(failed') : failed'[i].from = failed'[j].from => i = j
    BY <1>1, <1>3, <2>1 DEF IInv, OnceInv
  <2>4. \A i \in 1..Len(parts'), j \in 1..Len(failed') : parts'[i].from # failed'[j].from
    BY <1>1, <1>3, <2>1, <2>2 DEF IInv, OnceInv
  <2>5. \A i \in 1..Len(failed') : failed'[i].from \notin HeardFrom'
    BY <1>1, <1>2, <1>3 DEF IInv, OnceInv
  <2> QED
    BY <1>2, <2>2, <2>3, <2>4, <2>5 DEF IInv, OnceInv
<1>8. CountInv'
  BY <1>2, <1>3 DEF SendFailure, IInv, CountInv, TypeOK
<1>9. AccInv'
  BY DEF SendFailure, IInv, AccInv
<1> QED
  BY <1>4, <1>5, <1>6, <1>7, <1>8, <1>9 DEF IInv

\* Every step of the program preserves the invariant.
THEOREM Inductive == IInv /\ [Next]_vars => IInv'
<1> SUFFICES ASSUME IInv, [Next]_vars PROVE IInv'
  OBVIOUS
<1>1. CASE Caller
  BY <1>1, ForkStep, SkipStep, StartCollectingStep, CollectFailureStep,
     CollectPartStep, ReturnStep DEF Caller
<1>2. CASE \E b \in Backend : Worker(b)
  BY <1>2, NextReturnsStep, SendPartStep, GiveUpStep, SendFailureStep DEF Worker
<1>3. CASE \E cause \in {"deadline", "canceled"} : CtxDone(cause)
  BY <1>3, CtxDoneStep
<1>4. CASE UNCHANGED vars
  <2>1. Asked' = Asked /\ Done' = Done /\ HeardFrom' = HeardFrom
    BY <1>4 DEF vars, Asked, Done, HeardFrom
  <2>2. TypeOK' /\ ForkInv' /\ MessageInv'
    BY <1>4, <2>1 DEF vars, IInv, TypeOK, ForkInv, MessageInv
  <2>3. OnceInv' /\ CountInv' /\ AccInv'
    BY <1>4, <2>1 DEF vars, IInv, OnceInv, CountInv, AccInv
  <2> QED
    BY <2>2, <2>3 DEF IInv
<1> QED
  BY <1>1, <1>2, <1>3, <1>4 DEF Next, Terminated

THEOREM Invariance == Spec => []IInv
BY InitIInv, Inductive, PTL DEF Spec

---------------------------------------------------------------------------
(* The properties the runs check, for every value of the constants.        *)

\* Every variable keeps its type.
THEOREM TypeCorrect == Spec => []TypeOK
<1>1. IInv => TypeOK
  BY DEF IInv
<1> QED
  BY <1>1, Invariance, PTL

\* No requestPart ever blocks on a send: the channels have room for all of them.
THEOREM SendsNeverBlock == Spec => []SendNeverBlocks
<1>1. IInv => SendNeverBlocks
  BY RoomToSend DEF SendNeverBlocks
<1> QED
  BY <1>1, Invariance, PTL

\* Once the merge returned, everybody asked was heard.
LEMMA AllHeard ==
  ASSUME IInv, pc # "fork", collected = proxyCount
  PROVE  /\ Done = Asked /\ HeardFrom = Asked
         /\ Len(parts) = 0 /\ Len(failed) = 0
<1>1. /\ Cardinality(Asked) = Cardinality(HeardFrom)
      /\ Cardinality(Asked) \in Nat
      /\ Len(parts) + Len(failed) + Cardinality(HeardFrom) = Cardinality(Done)
      /\ Len(parts) \in Nat /\ Len(failed) \in Nat
  BY CountedSets, NAssumption DEF IInv, ForkInv, CountInv, TypeOK
<1>2. HeardFrom \in SUBSET Asked /\ Done \in SUBSET Asked /\ IsFiniteSet(Asked)
      /\ Cardinality(Done) <= Cardinality(Asked) /\ Cardinality(Done) \in Nat
  BY CountedSets, BackendSets
<1>3. HeardFrom = Asked
  BY <1>1, <1>2, FS_Subset
<1>4. Done = Asked
  BY <1>3, CountedSets
<1> QED
  BY <1>1, <1>3, <1>4

\* parallelMerge leaves no goroutine and no message behind.
THEOREM LeavesNothingBehind == Spec => []NoStragglers
<1>1. IInv => NoStragglers
  <2> SUFFICES ASSUME IInv, pc = "returned" PROVE
        /\ \A b \in Backend : worker[b] \in {"idle", "done"}
        /\ parts = << >> /\ failed = << >>
    BY DEF NoStragglers
  <2>1. Done = Asked /\ Len(parts) = 0 /\ Len(failed) = 0
    BY AllHeard DEF IInv, ForkInv
  <2>2. parts = << >> /\ failed = << >>
    BY <2>1 DEF IInv, TypeOK
  <2> QED
    BY <2>1, <2>2 DEF Done, Asked
<1> QED
  BY <1>1, Invariance, PTL

\* A (nil, nil) result means that every backend was filtered out.
THEOREM NilNilMeansAllSkipped == Spec => []NilNilOnlyWhenAllSkipped
<1>1. IInv => NilNilOnlyWhenAllSkipped
  <2> SUFFICES ASSUME IInv, pc = "returned", outcome.resp = NilResponse,
                      outcome.errs = << >>
               PROVE  proxyCount = 0
    BY DEF NilNilOnlyWhenAllSkipped
  <2>1. FJ!Good(heard) = {} /\ FJ!Bad(heard) = {}
    BY DEF IInv, AccInv, FJ!MergeOf
  <2>2. heard = {}
    BY <2>1 DEF FJ!Good, FJ!Bad
  <2>3. HeardFrom = {}
    BY <2>2 DEF HeardFrom
  <2> QED
    BY <2>3, FS_EmptySet DEF IInv, CountInv, ForkInv
<1> QED
  BY <1>1, Invariance, PTL

---------------------------------------------------------------------------
(* Refinement of the fork-join contract.                                   *)


\* The program starts where the contract starts.
LEMMA InitRefines == Init => FJ!FJInit
BY DEF Init, FJ!FJInit, FJ!NoOutcome

\* Every step of the program is a step of the contract or invisible to it.
LEMMA StepRefines == IInv /\ [Next]_vars => [FJ!FJNext]_FJ!fjVars
<1> SUFFICES ASSUME IInv, [Next]_vars PROVE [FJ!FJNext]_FJ!fjVars
  OBVIOUS
<1> USE DEF FJ!fjVars
<1>1. CASE Fork
  <2>1. at \in Backend /\ worker[at] = "idle" /\ worker \in [Backend -> WorkerState]
    BY <1>1 DEF Fork, IInv, ForkInv, TypeOK, Backend
  <2>2. at \notin Asked /\ Asked' = Asked \cup {at}
    BY <1>1, <2>1 DEF Fork, Asked
  <2>3. PICK b \in Backend : b = at
    BY <2>1
  <2>4. FJ!Ask(b)
    BY <1>1, <2>2, <2>3 DEF Fork, FJ!Ask, Asked
  <2> QED
    BY <2>4 DEF FJ!FJNext
<1>2. CASE Skip
  BY <1>2 DEF Skip
<1>3. CASE StartCollecting
  <2>1. FJ!AllAsked
    BY <1>3 DEF StartCollecting, FJ!AllAsked
  <2> QED
    BY <2>1 DEF FJ!FJNext
<1>4. ASSUME NEW q \in Seq(Message), q # << >>, Head(q).from \in Done \ HeardFrom,
             heard' = heard \cup {Head(q)}, pc = "collect",
             UNCHANGED <<pc, worker, outcome>>
      PROVE  FJ!FJNext
  <2>1. Head(q) \in Message /\ Message = FJ!Answer
    BY <1>4, Receive DEF Message, FJ!Answer, FJ!Response, FJ!Map, FJ!ErrorKind,
       Response, Map, ErrorKind
  <2>2. Head(q).from \in Asked /\ \A x \in heard : x.from # Head(q).from
    BY <1>4 DEF Asked, Done, HeardFrom
  <2>3. FJ!Hear(Head(q))
    BY <1>4, <2>2 DEF FJ!Hear, Asked
  <2> QED
    BY <2>1, <2>3 DEF FJ!FJNext
<1>5. CASE CollectFailure
  <2>1. failed \in Seq(Message) /\ failed # << >>
    BY <1>5 DEF CollectFailure, IInv, TypeOK
  <2>2. Head(failed).from \in Done \ HeardFrom
    BY <2>1, Receive DEF IInv, MessageInv, OnceInv
  <2> QED
    BY <1>4, <1>5, <2>1, <2>2 DEF CollectFailure
<1>6. CASE CollectPart
  <2>1. parts \in Seq(Message) /\ parts # << >>
    BY <1>6 DEF CollectPart, IInv, TypeOK
  <2>2. Head(parts).from \in Done \ HeardFrom
    BY <2>1, Receive DEF IInv, MessageInv, OnceInv
  <2> QED
    BY <1>4, <1>6, <2>1, <2>2 DEF CollectPart
<1>7. CASE Return
  <2>1. collected = proxyCount
    BY <1>7 DEF Return, IInv, ForkInv, TypeOK
  <2>2. HeardFrom = Asked
    BY <1>7, <2>1, AllHeard DEF Return
  <2>3. IInv' /\ pc' = "returned"
    BY <1>7, ReturnStep DEF Return
  <2>4. FJ!MergeOf(heard, outcome') /\ outcome' \in Outcome
    BY <1>7, <2>3 DEF Return, IInv, AccInv, TypeOK
  <2>5. Outcome = FJ!Outcome
    BY DEF Outcome, FJ!Outcome, Response, FJ!Response, Map, FJ!Map, ErrorKind,
       FJ!ErrorKind
  <2>6. \A b \in Asked : \E a \in heard : a.from = b
    BY <2>2 DEF HeardFrom
  <2>7. FJ!Deliver
    BY <1>7, <2>4, <2>5, <2>6 DEF Return, FJ!Deliver, Asked
  <2> QED
    BY <2>7 DEF FJ!FJNext
<1>8. CASE \E b \in Backend : Worker(b)
  <2> SUFFICES ASSUME NEW b \in Backend, Worker(b) PROVE UNCHANGED FJ!fjVars
    BY <1>8
  <2>1. UNCHANGED <<pc, outcome, heard>>
    BY DEF Worker, NextReturns, NextFails, NextReturnsNil, NextResponds, SendPart,
       GiveUp, SendFailure
  <2>2. /\ worker[b] # "idle" /\ worker \in [Backend -> WorkerState]
        /\ \E s \in WorkerState \ {"idle"} : worker' = [worker EXCEPT ![b] = s]
    BY DEF IInv, TypeOK, WorkerState, Hold, Worker, NextReturns, NextFails,
       NextReturnsNil, NextResponds, SendPart, GiveUp, SendFailure
  <2>3. Asked' = Asked
    BY <2>2 DEF Asked
  <2> QED
    BY <2>1, <2>3 DEF Asked
<1>9. CASE \E cause \in {"deadline", "canceled"} : CtxDone(cause)
  BY <1>9 DEF CtxDone
<1>10. CASE UNCHANGED vars
  BY <1>10 DEF vars
<1> QED
  BY <1>1, <1>2, <1>3, <1>5, <1>6, <1>7, <1>8, <1>9, <1>10 DEF Next, Caller, Terminated

\* parallelMerge implements the fork-join contract.
THEOREM RefinesForkJoin == Spec => ImplementsForkJoin
<1>1. Spec => FJ!FJSpec
  BY InitRefines, StepRefines, Invariance, PTL DEF Spec, FJ!FJSpec
<1> QED
  BY <1>1 DEF ImplementsForkJoin

---------------------------------------------------------------------------
(* EndpointPipe: the merge of any number of answers.                       *)

Answer == {"complete", "partial", "null", "failed", "skipped", "both"}

\* The accumulator: its errors are those of backends.
PartAccumulator == [pending : Int, data : Merging!Response \cup {Nil}, errs : Seq({"backend"})]

\* A merged part keeps its type, and is complete only if both were.
LEMMA CombinedPart ==
  ASSUME NEW p \in Merging!Response, NEW q \in Merging!Response, NEW c, c = Merging!combineData(p, q)
  PROVE  c \in Merging!Response /\ (c.IsComplete => p.IsComplete /\ q.IsComplete)
<1>1. p.Data \in Merging!Map \cup {NilMap} /\ q.Data \in Merging!Map \cup {NilMap}
  BY DEF Merging!Response
<1>2. ASSUME NEW f \in Merging!Map, NEW g \in Merging!Map PROVE Merging!Overlay(f, g) \in Merging!Map
  <2>1. PICK S \in SUBSET {"backend"} : f \in [S -> {1}]
    BY DEF Merging!Map
  <2>2. PICK T \in SUBSET {"backend"} : g \in [T -> {1}]
    BY DEF Merging!Map
  <2>3. Merging!Overlay(f, g) \in [S \cup T -> {1}]
    BY <2>1, <2>2 DEF Merging!Overlay
  <2> QED
    BY <2>3 DEF Merging!Map
<1>3. [k \in {} |-> NilMap] \in Merging!Map
  <2>1. [k \in {} |-> NilMap] \in [{} -> {1}]
    OBVIOUS
  <2> QED
    BY <2>1 DEF Merging!Map
<1>4. c.Data \in Merging!Map
  <2>1. CASE p.Data = NilMap /\ q.Data = NilMap
    BY <2>1, <1>3 DEF Merging!combineData
  <2>2. CASE p.Data = NilMap /\ q.Data # NilMap
    BY <2>2, <1>1 DEF Merging!combineData
  <2>3. CASE p.Data # NilMap /\ q.Data = NilMap
    BY <2>3, <1>1 DEF Merging!combineData
  <2>4. CASE p.Data # NilMap /\ q.Data # NilMap
    BY <2>4, <1>1, <1>2 DEF Merging!combineData
  <2> QED
    BY <2>1, <2>2, <2>3, <2>4
<1>5. c.IsComplete \in BOOLEAN /\ (c.IsComplete => p.IsComplete /\ q.IsComplete)
  BY DEF Merging!combineData
<1>6. c = [Data |-> c.Data, IsComplete |-> c.IsComplete]
  BY DEF Merging!combineData
<1> QED
  BY <1>4, <1>5, <1>6 DEF Merging!Response

\* The parts.
LEMMA Parts ==
  /\ \A a \in {"complete", "partial", "null"} :
       requestPart(a).err = Nil /\ requestPart(a).resp \in Merging!Response
       /\ (requestPart(a).resp.IsComplete <=> a # "partial")
  /\ requestPart("failed") = [resp |-> Nil, err |-> "backend"]
<1>1. [k \in {"backend"} |-> 1] \in Merging!Map
  <2>1. [k \in {"backend"} |-> 1] \in [{"backend"} -> {1}]
    OBVIOUS
  <2> QED
    BY <2>1 DEF Merging!Map
<1>2. Body \in Merging!Response /\ Body.IsComplete = TRUE
  BY <1>1 DEF Body, Merging!Response
<1>3. PICK half : half = [Body EXCEPT !.IsComplete = FALSE]
  OBVIOUS
<1>4. PICK empty : empty = [Body EXCEPT !.Data = NilMap]
  OBVIOUS
<1>5. half \in Merging!Response /\ half.IsComplete = FALSE
  BY <1>2, <1>3 DEF Merging!Response
<1>6. empty \in Merging!Response /\ empty.IsComplete = TRUE
  BY <1>2, <1>4 DEF Merging!Response
<1>7. /\ requestPart("complete") = [resp |-> Body, err |-> Nil]
      /\ requestPart("partial") = [resp |-> half, err |-> Nil]
      /\ requestPart("null") = [resp |-> empty, err |-> Nil]
      /\ requestPart("failed") = [resp |-> Nil, err |-> "backend"]
  BY <1>3, <1>4 DEF requestPart
<1>8. ASSUME NEW a \in {"complete", "partial", "null"}
      PROVE  /\ requestPart(a).err = Nil /\ requestPart(a).resp \in Merging!Response
             /\ requestPart(a).resp.IsComplete <=> a # "partial"
  <2>1. CASE a = "complete"
    BY ONLY <2>1, <1>2, <1>7
  <2>2. CASE a = "partial"
    BY ONLY <2>2, <1>5, <1>7
  <2>3. CASE a = "null"
    BY ONLY <2>3, <1>6, <1>7
  <2> QED
    BY <2>1, <2>2, <2>3
<1> QED
  BY <1>7, <1>8

\* What the accumulator knows of the answers it has heard.
Knows(c, given) ==
  /\ c \in PartAccumulator
  /\ c.errs # << >> <=> "failed" \in given
  /\ c.data # Nil <=> given \cap {"complete", "partial", "null"} # {}
  /\ c.data # Nil /\ c.data.IsComplete => "partial" \notin given

\* One more answer.
LEMMA KnowsMore ==
  ASSUME NEW c, NEW given \in SUBSET Answer, Knows(c, given), NEW a \in Answer \ {"both"}
  PROVE  Knows(Hear(c, a), given \cup {a})
<1>1. /\ c.pending \in Int /\ c.data \in Merging!Response \cup {Nil} /\ c.errs \in Seq({"backend"})
      /\ c.errs # << >> <=> "failed" \in given
      /\ c.data # Nil <=> given \cap {"complete", "partial", "null"} # {}
      /\ c.data # Nil /\ c.data.IsComplete => "partial" \notin given
  BY DEF Knows, PartAccumulator
<1>2. Nil \notin Merging!Response /\ Nil # "backend"
  BY NilsAssumption
<1>3. CASE a = "skipped"
  <2>1. Hear(c, a) = c
    BY <1>3 DEF Hear
  <2> QED
    BY <1>3, <2>1 DEF Knows
<1>4. CASE a = "failed"
  <2>1. Hear(c, a) = Merging!MergeFailure(c, "backend")
    BY <1>2, <1>4, Parts DEF Hear, Merging!Merge
  <2>2. PICK d : d = Hear(c, a)
    OBVIOUS
  <2>3. /\ d = [pending |-> d.pending, data |-> d.data, errs |-> d.errs]
        /\ d.pending = c.pending - 1 /\ d.errs = Append(c.errs, "backend")
        /\ d.data = IF c.data = Nil THEN Nil ELSE [c.data EXCEPT !.IsComplete = FALSE]
    BY <2>1, <2>2 DEF Merging!MergeFailure, Merging!Incomplete
  <2>4. d.errs \in Seq({"backend"}) /\ d.errs # << >>
    BY <1>1, <2>3
  <2>5. /\ d.data \in Merging!Response \cup {Nil} /\ (d.data = Nil <=> c.data = Nil)
        /\ d.data # Nil => d.data.IsComplete = FALSE
    <3>1. c.data # Nil => /\ [c.data EXCEPT !.IsComplete = FALSE] \in Merging!Response
                          /\ [c.data EXCEPT !.IsComplete = FALSE].IsComplete = FALSE
      BY <1>1 DEF Merging!Response
    <3>2. CASE c.data = Nil
      BY <2>3, <3>2
    <3>3. CASE c.data # Nil
      BY <1>2, <2>3, <3>1, <3>3
    <3> QED
      BY <3>2, <3>3
  <2>6. d \in PartAccumulator
    <3>1. d.pending \in Int /\ d.data \in Merging!Response \cup {Nil}
      BY <1>1, <2>3, <2>5
    <3>2. d = [pending |-> d.pending, data |-> d.data, errs |-> d.errs]
      BY ONLY <2>3
    <3> QED
      BY ONLY <2>4, <3>1, <3>2 DEF PartAccumulator
  <2>7. (given \cup {a}) \cap {"complete", "partial", "null"} = given \cap {"complete", "partial", "null"}
    BY <1>4
  <2> QED
    BY <1>1, <1>4, <2>2, <2>4, <2>5, <2>6, <2>7 DEF Knows
<1>5. CASE a \in {"complete", "partial", "null"}
  <2>1. PICK q : q = requestPart(a).resp
    OBVIOUS
  <2>2. q \in Merging!Response /\ (q.IsComplete <=> a # "partial") /\ requestPart(a).err = Nil
    BY <1>5, <2>1, Parts
  <2>3. PICK d : d = Hear(c, a)
    OBVIOUS
  <2>4. d = Merging!MergeResponse(c, q)
    BY <1>5, <2>1, <2>2, <2>3 DEF Hear, Merging!Merge
  <2>5. /\ d = [pending |-> d.pending, data |-> d.data, errs |-> d.errs]
        /\ d.pending = c.pending - 1 /\ d.errs = c.errs
        /\ d.data = IF c.data = Nil THEN q ELSE Merging!combineData(c.data, q)
    BY <2>4 DEF Merging!MergeResponse
  <2>6. d.data \in Merging!Response /\ (d.data.IsComplete => q.IsComplete /\ (c.data # Nil => c.data.IsComplete))
    BY <1>1, <2>2, <2>5, CombinedPart
  <2>7. d \in PartAccumulator
    BY <1>1, <2>5, <2>6 DEF PartAccumulator
  <2>8. "partial" \in given => c.data # Nil
    BY <1>1
  <2>9. d.data.IsComplete => "partial" \notin given \cup {a}
    BY <1>1, <1>5, <2>2, <2>6, <2>8
  <2>10. (given \cup {a}) \cap {"complete", "partial", "null"} # {}
    BY <1>5
  <2>11. "failed" \in given \cup {a} <=> "failed" \in given
    BY <1>5
  <2> QED
    BY <1>1, <1>2, <2>3, <2>5, <2>6, <2>7, <2>9, <2>10, <2>11 DEF Knows
<1> QED
  BY <1>3, <1>4, <1>5 DEF Answer

\* All answers.
LEMMA KnowsAll ==
  ASSUME NEW s \in Seq(Answer \ {"both"}), NEW total \in Int
  PROVE  Knows(FoldLeft(Hear, Merging!newIncrementalMergeAccumulator(total), s), Range(s))
<1> DEFINE base == Merging!newIncrementalMergeAccumulator(total)
           A == PartAccumulator
           G == [x \in A \X DOMAIN s |-> Hear(x[1], s[x[2]])]
           It(h) == h = [r \in SUBSET DOMAIN s |->
                           IF r = {} THEN base ELSE Hear(h[r \ {Max(r)}], s[Max(r)])]
<1>1. PICK n \in Nat : n = Len(s)
  OBVIOUS
<1>2. DOMAIN s = 1..n /\ \A j \in 1..n : s[j] \in Answer \ {"both"}
  BY <1>1
<1>3. Knows(base, {})
  <2>1. PICK d : d = base
    OBVIOUS
  <2>2. d = [pending |-> total, data |-> Nil, errs |-> << >>]
    BY <2>1 DEF Merging!newIncrementalMergeAccumulator
  <2>3. d \in PartAccumulator /\ d.data = Nil /\ d.errs = << >>
    BY <2>2 DEF PartAccumulator
  <2> HIDE DEF base
  <2> QED
    BY <2>1, <2>3 DEF Knows
<1> HIDE DEF base
<1>4. base \in A
  BY <1>3 DEF Knows
<1>5. ASSUME NEW c \in A, NEW a \in Answer \ {"both"} PROVE Hear(c, a) \in A
  <2>1. PICK given \in SUBSET Answer :
          given = (IF c.errs # << >> THEN {"failed"} ELSE {})
                  \cup (IF c.data # Nil THEN {"complete"} ELSE {})
    BY DEF Answer
  <2>2. Knows(c, given)
    <3>1. "failed" \in given <=> c.errs # << >>
      BY <2>1
    <3>2. given \cap {"complete", "partial", "null"} # {} <=> c.data # Nil
      BY <2>1
    <3>3. "partial" \notin given
      BY <2>1
    <3> QED
      BY <3>1, <3>2, <3>3 DEF Knows
  <2>3. Knows(Hear(c, a), given \cup {a})
    BY <2>2, KnowsMore
  <2> QED
    BY <2>3 DEF Knows
<1>6. G \in [A \X (1..n) -> A]
  BY <1>2, <1>5
<1>7. \A c \in A, j \in 1..n : G[<<c, j>>] = Hear(c, s[j])
  BY <1>2
<1> HIDE DEF G, A
<1>8. PICK it : Folds(it, A, base, G, n)
  BY <1>4, <1>6, FoldExists
<1>9. It(it)
  <2>1. ASSUME NEW r \in SUBSET (1..n), r # {}
        PROVE  it[r] = Hear(it[r \ {Max(r)}], s[Max(r)])
    <3>1. Max(r) \in r /\ Max(r) \in 1..n /\ \A y \in r : Max(r) >= y
      BY <2>1, Greatest DEF Max
    <3>2. it[r] = G[<<it[r \ {Max(r)}], Max(r)>>] /\ it[r \ {Max(r)}] \in A
      BY <3>1, <1>8 DEF Folds
    <3> QED
      BY <3>1, <3>2, <1>7
  <2>2. it = [r \in SUBSET (1..n) |-> it[r]] /\ it[{}] = base
    BY <1>8 DEF Folds
  <2> QED
    BY <2>1, <2>2, <1>2
<1> DEFINE fold == CHOOSE h : It(h)
<1>10. It(fold)
  BY <1>9
<1>11. FoldLeft(Hear, base, s) = fold[1..n]
  BY <1>2 DEF FoldLeft, MapThenFoldSet
<1> HIDE DEF fold
<1> DEFINE upTo(k) == {s[j] : j \in 1..k}
           P == {k \in 0..n : Knows(fold[1..k], upTo(k))}
<1>12. 0 \in P
  <2>1. fold[1..0] = base
    BY <1>2, <1>10
  <2>2. upTo(0) = {}
    OBVIOUS
  <2> HIDE DEF upTo
  <2>3. 0 \in 0..n
    OBVIOUS
  <2> QED
    BY <1>3, <2>1, <2>2, <2>3
<1>13. ASSUME NEW k \in 1..n, k - 1 \in P PROVE k \in P
  <2>1. 1..k \in SUBSET DOMAIN s /\ 1..k # {} /\ (1..k) \ {k} = 1..(k - 1)
    BY <1>2, Prefix
  <2>2. Max(1..k) = k
    BY Prefix DEF Max
  <2>3. fold[1..k] = Hear(fold[1..(k - 1)], s[k])
    BY <1>10, <2>1, <2>2
  <2>4. Knows(fold[1..(k - 1)], upTo(k - 1))
    BY <1>13
  <2>5. upTo(k - 1) \in SUBSET Answer /\ upTo(k) = upTo(k - 1) \cup {s[k]}
    BY <1>2
  <2> HIDE DEF upTo
  <2>6. s[k] \in Answer \ {"both"}
    BY <1>2
  <2> QED
    BY <2>3, <2>4, <2>5, <2>6, KnowsMore
<1>14. upTo(n) = Range(s)
  BY <1>2 DEF Range
<1> HIDE DEF P
<1>15. n \in P
  BY <1>12, <1>13, ByPrefixes
<1> QED
  BY <1>11, <1>14, <1>15 DEF P, base

---------------------------------------------------------------------------
(* EndpointPipe: what the endpoint's middlewares make of it.               *)

Origins == {"backend", "plugin", "static"}

Data == [data : SUBSET Origins, complete : BOOLEAN]

Out == [resp : {Nil} \cup Data, err : {Nil, "backend", "merge", "plugin", "panic"}]

\* What can be said of an output, given the answers.
Honest(o, given) ==
  /\ o \in Out
  /\ o.err = "panic" \/ (o.err = Nil /\ o.resp = Nil) => given = {"skipped"}
  /\ o.resp # Nil /\ o.resp.complete =>
       o.err = Nil /\ given \subseteq {"complete", "null", "skipped"}

\* The fields of an output.
LEMMA OutOf ==
  ASSUME NEW o, NEW d, NEW e \in {Nil, "backend", "merge", "plugin", "panic"},
         d \in Data \cup {Nil}, o = [resp |-> d, err |-> e]
  PROVE  o \in Out /\ o.resp = d /\ o.err = e
BY DEF Out

\* No response and no error is nil.
LEMMA NilIsNone ==
  /\ Nil \notin Merging!Response /\ Nil \notin Data
  /\ Nil \notin {"backend", "merge", "plugin", "panic"}
BY NilsAssumption DEF Data, Origins

\* The data of a response by its origin.
LEMMA OriginOf ==
  ASSUME NEW o, NEW res \in Merging!Response, NEW e \in {Nil, "backend", "merge", "plugin", "panic"},
         o = [resp |-> res, err |-> e]
  PROVE  /\ ByOrigin(o) \in Out
         /\ ByOrigin(o).resp # Nil /\ ByOrigin(o).err = e
         /\ ByOrigin(o).resp.complete = res.IsComplete
<1>1. PICK keys : keys = Merging!KeysOf(res)
  OBVIOUS
<1>2. keys \subseteq {"backend"}
  BY <1>1 DEF Merging!KeysOf, Merging!Response, Merging!Map
<1>3. PICK d : d = [data |-> keys, complete |-> res.IsComplete]
  OBVIOUS
<1>4. d \in Data /\ d.complete = res.IsComplete
  BY <1>2, <1>3 DEF Data, Origins, Merging!Response
<1>5. o.resp = res /\ res # Nil
  BY NilIsNone
<1>6. ByOrigin(o) = [o EXCEPT !.resp = d]
  BY <1>1, <1>3, <1>5 DEF ByOrigin
<1>7. [o EXCEPT !.resp = d] = [resp |-> d, err |-> e]
  OBVIOUS
<1>8. PICK q : q = ByOrigin(o)
  OBVIOUS
<1>9. q \in Out /\ q.resp = d /\ q.err = e
  BY <1>4, <1>6, <1>7, <1>8, OutOf
<1> QED
  BY <1>4, <1>8, <1>9, NilIsNone

\* A nil response stays one.
LEMMA NoOrigin ==
  ASSUME NEW o, NEW e \in {Nil, "backend", "merge", "plugin", "panic"}, o = [resp |-> Nil, err |-> e]
  PROVE  ByOrigin(o) = o /\ o \in Out /\ o.resp = Nil /\ o.err = e
BY OutOf DEF ByOrigin

\* The only backend.
LEMMA SingleIsHonest ==
  ASSUME NEW a \in Answer
  PROVE  Honest(ByOrigin(Single(a)), {a})
<1>1. CASE a = "skipped"
  <2>1. Single(a) = [resp |-> Nil, err |-> Nil]
    BY <1>1 DEF Single, Nothing
  <2>2. PICK o : o = ByOrigin(Single(a))
    OBVIOUS
  <2>3. o \in Out /\ o.resp = Nil /\ o.err = Nil
    BY <2>1, <2>2, NoOrigin
  <2> QED
    BY <1>1, <2>2, <2>3 DEF Honest
<1>2. CASE a = "failed"
  <2>1. Single(a) = [resp |-> Nil, err |-> "backend"]
    BY <1>2, Parts DEF Single
  <2>2. PICK o : o = ByOrigin(Single(a))
    OBVIOUS
  <2>3. o \in Out /\ o.resp = Nil /\ o.err = "backend"
    BY <2>1, <2>2, NoOrigin
  <2> QED
    BY <2>2, <2>3, NilIsNone DEF Honest
<1>3. CASE a \in {"complete", "partial", "null"}
  <2>1. requestPart(a).err = Nil /\ requestPart(a).resp \in Merging!Response
        /\ (requestPart(a).resp.IsComplete <=> a # "partial")
    BY <1>3, Parts
  <2>2. PICK res : res = requestPart(a).resp
    OBVIOUS
  <2>3. Single(a) = [resp |-> res, err |-> Nil]
    BY <1>3, <2>2 DEF Single, requestPart
  <2>4. PICK o : o = ByOrigin(Single(a))
    OBVIOUS
  <2>5. /\ o \in Out /\ o.resp # Nil /\ o.err = Nil
        /\ o.resp.complete = res.IsComplete
    BY <2>1, <2>2, <2>3, <2>4, OriginOf
  <2>6. o.resp.complete => a # "partial"
    BY <2>1, <2>2, <2>5
  <2>7. o.resp.complete => {a} \subseteq {"complete", "null", "skipped"}
    BY <1>3, <2>6
  <2> QED
    BY <2>4, <2>5, <2>7, NilIsNone DEF Honest
<1>4. CASE a = "both"
  <2>1. requestPart("partial").err = Nil /\ requestPart("partial").resp \in Merging!Response
        /\ ~requestPart("partial").resp.IsComplete
    BY Parts
  <2>2. PICK res : res = requestPart("partial").resp
    OBVIOUS
  <2>3. requestPart("partial") = [resp |-> res, err |-> Nil]
    BY <2>2 DEF requestPart
  <2>4. Single(a) = [resp |-> res, err |-> "backend"]
    BY <1>4, <2>3 DEF Single
  <2>5. PICK o : o = ByOrigin(Single(a))
    OBVIOUS
  <2>6. /\ o \in Out /\ o.resp # Nil /\ o.err = "backend"
        /\ o.resp.complete = res.IsComplete
    BY <2>1, <2>2, <2>4, <2>5, OriginOf
  <2> QED
    BY <2>1, <2>2, <2>5, <2>6, NilIsNone DEF Honest
<1> QED
  BY <1>1, <1>2, <1>3, <1>4 DEF Answer

\* Several backends.
LEMMA MergeIsHonest ==
  ASSUME NEW s \in Seq(Answer \ {"both"}), s # << >>
  PROVE  Honest(ByOrigin(parallelMerge(s)), Range(s))
<1>1. PICK total : total = Cardinality({i \in DOMAIN s : s[i] # "skipped"})
  OBVIOUS
<1>2. total \in Int
  <2>1. DOMAIN s = 1..Len(s) /\ Len(s) \in Nat
    OBVIOUS
  <2>2. IsFiniteSet(DOMAIN s)
    BY <2>1, FS_Interval
  <2>3. IsFiniteSet({i \in DOMAIN s : s[i] # "skipped"})
    BY <2>2, FS_Subset
  <2> QED
    BY <1>1, <2>3, FS_CardinalityType
<1>3. PICK c : c = FoldLeft(Hear, Merging!newIncrementalMergeAccumulator(total), s)
  OBVIOUS
<1>4. Knows(c, Range(s))
  BY <1>2, <1>3, KnowsAll
<1>5. PICK r : r = Merging!Result(c)
  OBVIOUS
<1>6. /\ c.data \in Merging!Response \cup {Nil} /\ c.errs \in Seq({"backend"})
      /\ c.errs # << >> <=> "failed" \in Range(s)
      /\ c.data # Nil <=> Range(s) \cap {"complete", "partial", "null"} # {}
      /\ c.data # Nil /\ c.data.IsComplete => "partial" \notin Range(s)
  BY <1>4 DEF Knows, PartAccumulator
<1>7. r.errs = c.errs /\ (c.data = Nil => r.resp = Nil)
  BY <1>5 DEF Merging!Result
<1>8. ASSUME c.data # Nil
      PROVE  /\ r.resp \in Merging!Response
             /\ r.resp.IsComplete => c.data.IsComplete /\ c.errs = << >>
  <2>1. c.data \in Merging!Response
    BY <1>6, <1>8
  <2>2. PICK half : half = Merging!Incomplete(c.data)
    OBVIOUS
  <2>3. half \in Merging!Response /\ ~half.IsComplete
    BY <2>1, <2>2 DEF Merging!Incomplete, Merging!Response
  <2>4. CASE c.pending > 0 \/ c.errs # << >>
    <3>1. r.resp = half
      BY <1>5, <1>8, <2>2, <2>4 DEF Merging!Result
    <3> QED
      BY <2>3, <3>1
  <2>5. CASE ~(c.pending > 0 \/ c.errs # << >>)
    <3>1. r.resp = c.data
      BY <1>5, <1>8, <2>5 DEF Merging!Result
    <3> QED
      BY <2>1, <2>5, <3>1
  <2> QED
    BY <2>4, <2>5
<1>9. PICK e : e = IF c.errs = << >> THEN Nil ELSE "merge"
  OBVIOUS
<1>10. parallelMerge(s) = [resp |-> r.resp, err |-> e]
  BY <1>1, <1>3, <1>5, <1>7, <1>9 DEF parallelMerge
<1>11. e \in {Nil, "backend", "merge", "plugin", "panic"} /\ e # "panic" /\ (e = Nil <=> c.errs = << >>)
  BY <1>9, NilIsNone
<1>12. Range(s) \subseteq Answer \ {"both"} /\ Range(s) # {}
  <2>1. DOMAIN s = 1..Len(s) /\ Len(s) \in Nat /\ Len(s) # 0
    OBVIOUS
  <2>2. \A i \in DOMAIN s : s[i] \in Answer \ {"both"}
    BY <2>1
  <2>3. Range(s) \subseteq Answer \ {"both"}
    BY ONLY <2>2 DEF Range
  <2>4. 1 \in DOMAIN s
    BY ONLY <2>1
  <2>5. s[1] \in Range(s)
    BY ONLY <2>4 DEF Range
  <2> QED
    BY <2>3, <2>5
<1>13. PICK o : o = ByOrigin(parallelMerge(s))
  OBVIOUS
<1>14. CASE c.data = Nil
  <2>1. o \in Out /\ o.resp = Nil /\ o.err = e
    BY <1>7, <1>10, <1>11, <1>13, <1>14, NoOrigin
  <2>2. e = Nil => Range(s) = {"skipped"}
    BY <1>6, <1>11, <1>12, <1>14 DEF Answer
  <2> QED
    BY <1>11, <1>13, <2>1, <2>2 DEF Honest
<1>15. CASE c.data # Nil
  <2>1. o \in Out /\ o.resp # Nil /\ o.err = e /\ o.resp.complete = r.resp.IsComplete
    BY <1>8, <1>10, <1>11, <1>13, <1>15, OriginOf
  <2>2. c.data.IsComplete /\ c.errs = << >> => Range(s) \subseteq {"complete", "null", "skipped"}
    BY <1>6, <1>12, <1>15 DEF Answer
  <2> QED
    BY <1>8, <1>11, <1>13, <1>15, <2>1, <2>2 DEF Honest
<1> QED
  BY <1>14, <1>15

\* The panic of a middleware that reads a nil response.
LEMMA PanicIsHonest == Honest(Panic, {"skipped"}) /\ Panic.err = "panic"
<1>1. Panic \in Out /\ Panic.resp = Nil /\ Panic.err = "panic"
  BY OutOf DEF Panic
<1> QED
  BY <1>1 DEF Honest

\* The flatmap middleware.
LEMMA FlatmapIsHonest ==
  ASSUME NEW operations, NEW given, NEW o, Honest(o, given)
  PROVE  Honest(Flatmap(operations, o), given)
<1>1. CASE operations /\ o.err = Nil /\ o.resp = Nil
  <2>1. given = {"skipped"} /\ Flatmap(operations, o) = Panic
    BY <1>1 DEF Honest, Flatmap
  <2> QED
    BY <2>1, PanicIsHonest
<1>2. CASE ~(operations /\ o.err = Nil /\ o.resp = Nil)
  BY <1>2 DEF Flatmap
<1> QED
  BY <1>1, <1>2

\* Data of another origin is added.
LEMMA DataAdded ==
  ASSUME NEW old \in Data, NEW x \in Origins, NEW d, d = [old EXCEPT !.data = old.data \cup {x}]
  PROVE  d \in Data /\ d.complete = old.complete /\ x \in d.data /\ d # Nil
<1>1. d \in Data /\ d.complete = old.complete /\ x \in d.data
  BY DEF Data
<1> QED
  BY <1>1, NilIsNone

\* A response takes the place of another.
LEMMA ResponseReplaced ==
  ASSUME NEW o \in Out, NEW d \in Data, NEW q, q = [o EXCEPT !.resp = d]
  PROVE  q \in Out /\ q.err = o.err /\ q.resp = d
BY DEF Out

\* A modifier.
LEMMA ModifyIsHonest ==
  ASSUME NEW given, NEW o, Honest(o, given), o.err = Nil => o.resp # Nil, NEW p \in Plugin
  PROVE  Honest(Modify(o, p), given) /\ (Modify(o, p).err = Nil => Modify(o, p).resp # Nil)
<1>1. CASE o.err # Nil \/ ~ModifiesResponses(p) \/ p.does = "foreign"
  <2>1. Modify(o, p) = o
    <3>1. CASE o.err # Nil \/ ~ModifiesResponses(p)
      BY ONLY <3>1 DEF Modify
    <3>2. CASE ~(o.err # Nil \/ ~ModifiesResponses(p)) /\ p.does = "foreign"
      <4>1. p.does # "fails"
        BY <3>2
      <4> QED
        BY ONLY <3>2, <4>1 DEF Modify
    <3> QED
      BY <1>1, <3>1, <3>2
  <2> QED
    BY <2>1
<1>2. CASE o.err = Nil /\ ModifiesResponses(p) /\ p.does = "fails"
  <2>1. PICK q : q = Modify(o, p)
    OBVIOUS
  <2>2. q = [resp |-> Nil, err |-> "plugin"]
    BY <1>2, <2>1 DEF Modify
  <2>3. q \in Out /\ q.resp = Nil /\ q.err = "plugin"
    BY <2>2, OutOf
  <2> QED
    BY <2>1, <2>3, NilIsNone DEF Honest
<1>3. CASE o.err = Nil /\ ModifiesResponses(p) /\ p.does = "adds"
  <2>1. PICK q : q = Modify(o, p)
    OBVIOUS
  <2>5. PICK d : d = [o.resp EXCEPT !.data = o.resp.data \cup {"plugin"}]
    OBVIOUS
  <2>6. p.does # "fails" /\ p.does # "foreign"
    BY <1>3
  <2>2. q = [o EXCEPT !.resp = d]
    BY ONLY <1>3, <2>1, <2>5, <2>6 DEF Modify
  <2>3. o \in Out /\ o.resp # Nil /\ "plugin" \in Origins
    BY <1>3 DEF Honest, Origins
  <2>4. d \in Data /\ d.complete = o.resp.complete /\ d # Nil
    <3>1. o.resp \in Data
      BY <2>3 DEF Out
    <3>2. PICK old : old = o.resp
      OBVIOUS
    <3>3. d = [old EXCEPT !.data = old.data \cup {"plugin"}]
      BY <2>5, <3>2
    <3>4. d \in Data /\ d.complete = old.complete /\ d # Nil
      BY ONLY <2>3, <3>1, <3>2, <3>3, DataAdded
    <3> QED
      BY <3>2, <3>4
  <2>7. q \in Out /\ q.err = o.err /\ q.resp = d
    BY ONLY <2>2, <2>3, <2>4, ResponseReplaced
  <2> QED
    BY <1>3, <2>1, <2>3, <2>4, <2>7 DEF Honest
<1> QED
  BY <1>1, <1>2, <1>3 DEF Plugin, ModifiesResponses

\* All modifiers.
LEMMA ModifyAll ==
  ASSUME NEW given, NEW o, Honest(o, given), o.err = Nil => o.resp # Nil, NEW s \in Seq(Plugin)
  PROVE  Honest(FoldLeft(Modify, o, s), given)
<1> DEFINE A == {q \in Out : Honest(q, given) /\ (q.err = Nil => q.resp # Nil)}
           G == [x \in A \X DOMAIN s |-> Modify(x[1], s[x[2]])]
           It(h) == h = [r \in SUBSET DOMAIN s |->
                           IF r = {} THEN o ELSE Modify(h[r \ {Max(r)}], s[Max(r)])]
<1>1. PICK n \in Nat : n = Len(s)
  OBVIOUS
<1>2. DOMAIN s = 1..n /\ \A j \in 1..n : s[j] \in Plugin
  BY <1>1
<1>3. o \in A
  BY DEF Honest
<1>4. ASSUME NEW q \in A, NEW p \in Plugin PROVE Modify(q, p) \in A
  <2>1. PICK m : m = Modify(q, p)
    OBVIOUS
  <2>2. Honest(m, given) /\ (m.err = Nil => m.resp # Nil)
    BY <2>1, ModifyIsHonest
  <2> QED
    BY <2>1, <2>2 DEF Honest
<1>5. G \in [A \X (1..n) -> A]
  BY <1>2, <1>4
<1>6. \A q \in A, j \in 1..n : G[<<q, j>>] = Modify(q, s[j])
  BY <1>2
<1>7. \A q \in A : Honest(q, given)
  OBVIOUS
<1> HIDE DEF G, A
<1>8. PICK it : Folds(it, A, o, G, n)
  BY <1>3, <1>5, FoldExists
<1>9. It(it)
  <2>1. ASSUME NEW r \in SUBSET (1..n), r # {}
        PROVE  it[r] = Modify(it[r \ {Max(r)}], s[Max(r)])
    <3>1. Max(r) \in r /\ Max(r) \in 1..n /\ \A y \in r : Max(r) >= y
      BY <2>1, Greatest DEF Max
    <3>2. it[r] = G[<<it[r \ {Max(r)}], Max(r)>>] /\ it[r \ {Max(r)}] \in A
      BY <3>1, <1>8 DEF Folds
    <3> QED
      BY <3>1, <3>2, <1>6
  <2>2. it = [r \in SUBSET (1..n) |-> it[r]] /\ it[{}] = o
    BY <1>8 DEF Folds
  <2> QED
    BY <2>1, <2>2, <1>2
<1> DEFINE fold == CHOOSE h : It(h)
<1>10. It(fold)
  BY <1>9
<1>11. FoldLeft(Modify, o, s) = fold[1..n]
  BY <1>2 DEF FoldLeft, MapThenFoldSet
<1> HIDE DEF fold
<1>12. fold[1..0] \in A
  <2>1. fold[1..0] = o
    BY <1>2, <1>10
  <2> QED
    BY <1>3, <2>1
<1>13. ASSUME NEW k \in 1..n, fold[1..(k - 1)] \in A PROVE fold[1..k] \in A
  <2>1. 1..k \in SUBSET DOMAIN s /\ 1..k # {} /\ (1..k) \ {k} = 1..(k - 1)
    BY <1>2, Prefix
  <2>2. Max(1..k) = k
    BY Prefix DEF Max
  <2>3. fold[1..k] = Modify(fold[1..(k - 1)], s[k])
    BY <1>10, <2>1, <2>2
  <2>4. s[k] \in Plugin
    BY <1>2
  <2> QED
    BY <1>13, <1>4, <2>3, <2>4
<1>14. \A k \in 0..n : fold[1..k] \in A
  BY <1>12, <1>13, PrefixesIn
<1>15. n \in 0..n
  OBVIOUS
<1> QED
  BY <1>7, <1>11, <1>14, <1>15

\* The plugin middleware.
LEMMA PluginsAreHonest ==
  ASSUME NEW given, NEW o, Honest(o, given), NEW s \in Seq(Plugin)
  PROVE  Honest(Plugins(s, o), given)
<1>1. CASE \E p \in Range(s) : ModifiesRequests(p) /\ p.does = "fails"
  <2>1. PICK q : q = Plugins(s, o)
    OBVIOUS
  <2>2. q = [resp |-> Nil, err |-> "plugin"]
    BY <1>1, <2>1 DEF Plugins
  <2>3. q \in Out /\ q.resp = Nil /\ q.err = "plugin"
    BY <2>2, OutOf
  <2> QED
    BY <2>1, <2>3, NilIsNone DEF Honest
<1>2. CASE /\ ~ \E p \in Range(s) : ModifiesRequests(p) /\ p.does = "fails"
           /\ o.err # Nil \/ ~ \E p \in Range(s) : ModifiesResponses(p)
  <2>1. Plugins(s, o) = o
    BY <1>2 DEF Plugins
  <2> QED
    BY <2>1
<1>3. CASE /\ ~ \E p \in Range(s) : ModifiesRequests(p) /\ p.does = "fails"
           /\ ~(o.err # Nil \/ ~ \E p \in Range(s) : ModifiesResponses(p))
  <2>1. Plugins(s, o) = executeResponseModifiers(s, o) /\ o.err = Nil
    BY <1>3 DEF Plugins
  <2>2. CASE o.resp = Nil
    <3>1. executeResponseModifiers(s, o) = Panic /\ given = {"skipped"}
      BY <2>1, <2>2 DEF executeResponseModifiers, Honest
    <3> QED
      BY <2>1, <3>1, PanicIsHonest
  <2>3. CASE o.resp # Nil
    <3>1. executeResponseModifiers(s, o) = FoldLeft(Modify, o, s)
      BY <2>3 DEF executeResponseModifiers
    <3> QED
      BY <2>1, <2>3, <3>1, ModifyAll
  <2> QED
    BY <2>2, <2>3
<1> QED
  BY <1>1, <1>2, <1>3

\* The static middleware, and the answers it is added to.
LEMMA StaticIsHonest ==
  ASSUME NEW given, NEW o, Honest(o, given), NEW strategy
  PROVE  /\ Honest(Static(strategy, o), given)
         /\ o = Panic <=> Static(strategy, o) = Panic
         /\ o # Panic => Static(strategy, o).err = o.err
         /\ o # Panic /\ Match(strategy, o) =>
              /\ Static(strategy, o).resp # Nil
              /\ "static" \in Static(strategy, o).resp.data
<1>1. o \in Out
  BY DEF Honest
<1>2. PICK q : q = Static(strategy, o)
  OBVIOUS
<1>3. CASE o = Panic \/ ~Match(strategy, o)
  <2>1. q = o
    BY <1>2, <1>3 DEF Static
  <2> QED
    BY <1>2, <1>3, <2>1
<1>4. CASE ~(o = Panic \/ ~Match(strategy, o)) /\ o.resp = Nil
  <2>1. PICK d : d = [data |-> {"static"}, complete |-> FALSE]
    OBVIOUS
  <2>2. d \in Data /\ ~d.complete /\ "static" \in d.data
    BY <2>1 DEF Data, Origins
  <2>3. q = [o EXCEPT !.resp = d]
    BY <1>2, <1>4, <2>1 DEF Static
  <2>4. q \in Out /\ q.err = o.err /\ q.resp = d
    BY <1>1, <2>2, <2>3, ResponseReplaced
  <2>5. q # Panic
    BY <2>2, <2>4, NilIsNone DEF Panic
  <2>6. Honest(q, given)
    BY <1>4, <2>2, <2>4, NilIsNone DEF Honest
  <2> QED
    BY <1>2, <1>4, <2>2, <2>4, <2>5, <2>6, NilIsNone
<1>5. CASE ~(o = Panic \/ ~Match(strategy, o)) /\ o.resp # Nil
  <2>1. PICK old \in Data : old = o.resp
    BY <1>1, <1>5 DEF Out
  <2>2. PICK d : d = [old EXCEPT !.data = old.data \cup {"static"}]
    OBVIOUS
  <2>3. d \in Data /\ d.complete = old.complete /\ "static" \in d.data /\ d # Nil
    <3>1. "static" \in Origins
      BY DEF Origins
    <3> QED
      BY <2>2, <3>1, DataAdded
  <2>4. q = [o EXCEPT !.resp = d]
    BY <1>2, <1>5, <2>1, <2>2 DEF Static
  <2>5. q \in Out /\ q.err = o.err /\ q.resp = d
    BY <1>1, <2>3, <2>4, ResponseReplaced
  <2>6. q # Panic
    BY <2>3, <2>5 DEF Panic
  <2>7. Honest(q, given)
    BY <1>5, <2>1, <2>3, <2>5 DEF Honest
  <2> QED
    BY <1>2, <1>5, <2>3, <2>5, <2>6, <2>7
<1> QED
  BY <1>3, <1>4, <1>5

---------------------------------------------------------------------------
(* EndpointPipe: the endpoint.                                             *)

Strategies == {"none", "always", "success", "errored", "complete", "incomplete"}

PipeOK == /\ pipe.plugins \in Seq(Plugin) /\ pipe.static \in Strategies
          /\ pipe = [flatmap |-> pipe.flatmap, plugins |-> pipe.plugins, static |-> pipe.static]
          /\ answered \in Seq(Answer)

\* Plugins, strategies and answers are what they may be.
LEMMA PipesAreTyped == PipeSpec => []PipeOK
<1>1. NoPipe => PipeOK
  <2>1. SUFFICES ASSUME NoPipe PROVE PipeOK
    OBVIOUS
  <2>2. pipe.flatmap = FALSE /\ pipe.plugins = << >> /\ pipe.static = "none" /\ answered = << >>
    BY <2>1 DEF NoPipe
  <2>3. << >> \in Seq(Plugin) /\ << >> \in Seq(Answer) /\ "none" \in Strategies
    BY DEF Strategies
  <2>4. pipe = [flatmap |-> pipe.flatmap, plugins |-> pipe.plugins, static |-> pipe.static]
    BY <2>1 DEF NoPipe
  <2> QED
    BY <2>2, <2>3, <2>4 DEF PipeOK
<1>2. PipeOK /\ [AnyPipe]_pipeVars => PipeOK'
  <2>1. SUFFICES ASSUME PipeOK, [AnyPipe]_pipeVars PROVE PipeOK'
    OBVIOUS
  <2>2. PICK b, s, t : pipe = [flatmap |-> b, plugins |-> s, static |-> t]
                       /\ s \in Seq(Plugin) /\ t \in Strategies /\ answered \in Seq(Answer)
    BY <2>1 DEF PipeOK
  <2>3. ASSUME NEW a \in {"complete", "partial", "null", "failed", "skipped", "both"},
               answered' = Append(answered, a), UNCHANGED pipe
        PROVE  PipeOK'
    <3>1. answered' \in Seq(Answer)
      BY <2>2, <2>3 DEF Answer
    <3> QED
      BY <2>1, <2>3, <3>1 DEF PipeOK
  <2>4. ASSUME NEW p \in Plugin, pipe' = [pipe EXCEPT !.plugins = Append(@, p)], UNCHANGED answered
        PROVE  PipeOK'
    <3>1. pipe' = [flatmap |-> b, plugins |-> Append(s, p), static |-> t]
      BY <2>2, <2>4
    <3>2. Append(s, p) \in Seq(Plugin)
      BY <2>2, <2>4
    <3> QED
      BY <2>2, <2>4, <3>1, <3>2 DEF PipeOK
  <2>5. ASSUME pipe' = [pipe EXCEPT !.flatmap = TRUE], UNCHANGED answered PROVE PipeOK'
    <3>1. pipe' = [flatmap |-> TRUE, plugins |-> s, static |-> t]
      BY <2>2, <2>5
    <3> QED
      BY <2>2, <2>5, <3>1 DEF PipeOK
  <2>6. ASSUME NEW u \in {"always", "success", "errored", "complete", "incomplete"},
               pipe' = [pipe EXCEPT !.static = u], UNCHANGED answered
        PROVE  PipeOK'
    <3>1. pipe' = [flatmap |-> b, plugins |-> s, static |-> u]
      BY <2>2, <2>6
    <3>2. u \in Strategies
      BY <2>6 DEF Strategies
    <3> QED
      BY <2>2, <2>6, <3>1, <3>2 DEF PipeOK
  <2>7. CASE UNCHANGED pipeVars
    BY <2>1, <2>7 DEF pipeVars, PipeOK
  <2> QED
    BY <2>1, <2>3, <2>4, <2>5, <2>6, <2>7 DEF AnyPipe
<1> QED
  BY <1>1, <1>2, PTL DEF PipeSpec

\* What a router makes of an honest output.
LEMMA RepliesTell ==
  ASSUME NEW given, NEW o, Honest(o, given), NEW router \in {"mux", "gin"}
  PROVE  /\ Reply(router, o).completed =>
              o.err = Nil /\ given \subseteq {"complete", "null", "skipped"}
         /\ o.resp # Nil /\ "static" \in o.resp.data =>
              Reply(router, o).status = "ok" /\ "static" \in Reply(router, o).data
<1>1. PICK r : r = Reply(router, o)
  OBVIOUS
<1>2. PICK hasData \in BOOLEAN : hasData <=> o.resp # Nil /\ o.resp.data # {}
  OBVIOUS
<1>3. CASE r = [status |-> "error", completed |-> FALSE, data |-> {}]
           /\ (o.resp = Nil \/ o.resp.data = {})
  BY <1>1, <1>3
<1>4. CASE r = [status |-> "ok", completed |-> o.resp # Nil /\ o.resp.data # {} /\ o.resp.complete,
                data |-> IF o.resp # Nil /\ o.resp.data # {} THEN o.resp.data ELSE {}]
  <2>1. r.completed <=> o.resp # Nil /\ o.resp.data # {} /\ o.resp.complete
    BY <1>4
  <2>2. r.status = "ok" /\ r.data = IF o.resp # Nil /\ o.resp.data # {} THEN o.resp.data ELSE {}
    BY <1>4
  <2> QED
    BY <1>1, <2>1, <2>2 DEF Honest
<1> QED
  BY <1>1, <1>3, <1>4 DEF Reply

\* X-Krakend-Completed is never a lie, and static data promised for failures
\* reaches the client of every failure, however many backends and plugins an
\* endpoint has and in whatever order its plugins are registered.
THEOREM RepliesAreHonest == PipeSpec => []HonestReply
<1>1. PipeOK => HonestReply
  <2> SUFFICES ASSUME PipeOK, Possible
               PROVE  LET out == New(pipe, answered) IN
                      /\ out = Panic => Range(answered) = {"skipped"}
                      /\ out # Panic => \A router \in {"mux", "gin"} :
                           LET reply == Reply(router, out) IN
                           /\ reply.completed => Range(answered) \subseteq {"complete", "null", "skipped"}
                           /\ out.err # Nil => ~reply.completed
                           /\ out.err # Nil /\ pipe.static \in {"always", "errored", "incomplete"} =>
                                reply.status = "ok" /\ "static" \in reply.data
    BY DEF HonestReply
  <2>1. PICK given : given = Range(answered)
    OBVIOUS
  <2>2. PICK inner : inner = IF Len(answered) = 1 THEN ByOrigin(Single(answered[1]))
                             ELSE Flatmap(pipe.flatmap, ByOrigin(parallelMerge(answered)))
    OBVIOUS
  <2>3. Honest(inner, given)
    <3>1. CASE Len(answered) = 1
      <4>0. answered \in Seq(Answer)
        BY DEF PipeOK
      <4>1. answered[1] \in Answer
        BY <3>1, <4>0
      <4>2. DOMAIN answered = {1}
        BY <3>1, <4>0
      <4>3. given = {answered[1]}
        BY <4>2, <2>1 DEF Range
      <4> QED
        BY <2>2, <3>1, <4>1, <4>3, SingleIsHonest
    <3>2. CASE Len(answered) # 1
      <4>1. answered \in Seq(Answer) /\ answered # << >>
        BY DEF PipeOK, Possible
      <4>2. DOMAIN answered = 1..Len(answered) /\ Len(answered) \in Nat /\ Len(answered) # 0
        BY <4>1
      <4>3. "both" \notin Range(answered)
        BY <3>2, <4>2 DEF Possible
      <4>4. \A i \in 1..Len(answered) : answered[i] \in Answer \ {"both"}
        BY <4>1, <4>2, <4>3 DEF Range
      <4>5. answered \in Seq(Answer \ {"both"})
        BY <4>1, <4>4
      <4> QED
        BY <2>1, <2>2, <3>2, <4>1, <4>5, MergeIsHonest, FlatmapIsHonest
    <3> QED
      BY <3>1, <3>2
  <2>4. PICK o : o = Plugins(pipe.plugins, inner)
    OBVIOUS
  <2>5. Honest(o, given)
    BY <2>3, <2>4, PluginsAreHonest DEF PipeOK
  <2>6. PICK out : out = New(pipe, answered)
    OBVIOUS
  <2>7. out = Static(pipe.static, o)
    BY <2>2, <2>4, <2>6 DEF New
  <2>8. /\ Honest(out, given) /\ (o = Panic <=> out = Panic)
        /\ o # Panic => out.err = o.err
        /\ o # Panic /\ Match(pipe.static, o) => out.resp # Nil /\ "static" \in out.resp.data
    BY <2>5, <2>7, StaticIsHonest
  <2>9. out = Panic => given = {"skipped"}
    BY <2>8, PanicIsHonest DEF Honest
  <2>10. o.err # Nil /\ pipe.static \in {"always", "errored", "incomplete"} => Match(pipe.static, o)
    <3>1. o.err # Nil => o.resp = Nil \/ ~o.resp.complete
      BY <2>5 DEF Honest
    <3>2. pipe.static = "always" => Match(pipe.static, o)
      BY DEF Match
    <3>3. pipe.static = "errored" /\ o.err # Nil => Match(pipe.static, o)
      BY DEF Match
    <3>4. pipe.static = "incomplete" /\ (o.resp = Nil \/ ~o.resp.complete) => Match(pipe.static, o)
      BY DEF Match
    <3> QED
      BY <3>1, <3>2, <3>3, <3>4
  <2>11. ASSUME out # Panic, NEW router \in {"mux", "gin"}, NEW reply, reply = Reply(router, out)
         PROVE  /\ reply.completed => given \subseteq {"complete", "null", "skipped"}
                /\ out.err # Nil => ~reply.completed
                /\ out.err # Nil /\ pipe.static \in {"always", "errored", "incomplete"} =>
                     reply.status = "ok" /\ "static" \in reply.data
    BY <2>8, <2>10, <2>11, RepliesTell
  <2> QED
    BY <2>1, <2>6, <2>9, <2>11
<1> QED
  BY <1>1, PipesAreTyped, PTL
===========================================================================

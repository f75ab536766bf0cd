---------------------- MODULE MergeAccumulatorProofs ----------------------
(***************************************************************************)
(* Facts about the accumulator that hold for every set of keys and values: *)
(* its operations stay within their types.                                 *)
(***************************************************************************)
EXTENDS MergeAccumulator, WellFoundedInduction, TLAPS

\* Writing one map over another (combineData, lines 605-607) yields a map.
LEMMA OverlayType ==
  ASSUME NEW p \in Map, NEW q \in Map
  PROVE  /\ Overlay(p, q) \in Map
         /\ DOMAIN Overlay(p, q) = DOMAIN p \cup DOMAIN q
<1>1. PICK S \in SUBSET Key : p \in [S -> Value]
  BY DEF Map
<1>2. PICK T \in SUBSET Key : q \in [T -> Value]
  BY DEF Map
<1>3. Overlay(p, q) \in [S \cup T -> Value]
  BY <1>1, <1>2 DEF Overlay
<1> QED
  BY <1>1, <1>2, <1>3 DEF Map, Overlay

\* The empty map, which combineData returns for two parts without a body.
LEMMA EmptyMap == [k \in {} |-> NilData] \in Map /\ DOMAIN [k \in {} |-> NilData] = {}
<1>1. [k \in {} |-> NilData] \in [{} -> Value]
  OBVIOUS
<1> QED
  BY <1>1 DEF Map

\* combineData returns a response that always has a map.
LEMMA CombineType ==
  ASSUME NEW p \in Response, NEW q \in Response
  PROVE  /\ combineData(p, q) \in Response
         /\ combineData(p, q).Data # NilData
         /\ KeysOf(combineData(p, q)) = KeysOf(p) \cup KeysOf(q)
<1> DEFINE d == combineData(p, q).Data
<1>1. p.Data \in Map \cup {NilData} /\ q.Data \in Map \cup {NilData}
  BY DEF Response
<1>2. d \in Map /\ DOMAIN d = KeysOf(p) \cup KeysOf(q)
  <2>1. CASE p.Data = NilData /\ q.Data = NilData
    BY <2>1, EmptyMap DEF combineData, KeysOf
  <2>2. CASE p.Data = NilData /\ q.Data # NilData
    BY <2>2, <1>1 DEF combineData, KeysOf
  <2>3. CASE p.Data # NilData /\ q.Data = NilData
    BY <2>3, <1>1 DEF combineData, KeysOf
  <2>4. CASE p.Data # NilData /\ q.Data # NilData
    <3>1. d = Overlay(p.Data, q.Data)
      BY <2>4 DEF combineData
    <3>2. p.Data \in Map /\ q.Data \in Map
      BY <2>4, <1>1
    <3>3. KeysOf(p) = DOMAIN p.Data /\ KeysOf(q) = DOMAIN q.Data
      BY <2>4 DEF KeysOf
    <3> HIDE DEF d
    <3> QED
      BY <3>1, <3>2, <3>3, OverlayType
  <2> QED
    BY <2>1, <2>2, <2>3, <2>4
<1>3. combineData(p, q).IsComplete \in BOOLEAN
  BY DEF combineData
<1>4. combineData(p, q) = [Data |-> d, IsComplete |-> combineData(p, q).IsComplete]
  BY DEF combineData
<1>5. d # NilData
  BY <1>2, NilAssumption
<1> HIDE DEF d
<1>6. combineData(p, q) \in Response
  BY <1>2, <1>3, <1>4 DEF Response
<1> QED
  BY <1>2, <1>4, <1>5, <1>6 DEF KeysOf, d

\* Lowering the flag keeps everything else.
LEMMA IncompleteType ==
  ASSUME NEW r \in Response
  PROVE  /\ Incomplete(r) \in Response
         /\ Incomplete(r).Data = r.Data
         /\ Incomplete(r).IsComplete = FALSE
BY DEF Incomplete, Response

\* Merge keeps the accumulator well typed.
LEMMA MergeType ==
  ASSUME NEW c \in Accumulator
  PROVE  /\ \A r \in Response \cup {NilResponse}, e \in ErrorKind :
               Merge(c, r, e) \in Accumulator
         /\ \A r \in Response : Merge(c, r, NoError) \in Accumulator
<1>1. /\ c.pending - 1 \in Int
      /\ c.data \in Response \cup {NilResponse}
      /\ c.errs \in Seq(ErrorKind)
  BY DEF Accumulator
<1>2. ASSUME NEW r \in Response \cup {NilResponse}, NEW e \in ErrorKind
      PROVE  Merge(c, r, e) \in Accumulator
  <2>1. Merge(c, r, e) = MergeFailure(c, e)
    BY NilAssumption DEF Merge
  <2>2. (IF c.data = NilResponse THEN NilResponse ELSE Incomplete(c.data))
          \in Response \cup {NilResponse}
    BY <1>1, IncompleteType
  <2>3. Append(c.errs, e) \in Seq(ErrorKind)
    BY <1>1
  <2> QED
    BY <1>1, <2>1, <2>2, <2>3 DEF MergeFailure, Accumulator
<1>3. ASSUME NEW r \in Response
      PROVE  Merge(c, r, NoError) \in Accumulator
  <2>1. Merge(c, r, NoError) = MergeResponse(c, r)
    BY DEF Merge
  <2>2. (IF c.data = NilResponse THEN r ELSE combineData(c.data, r))
          \in Response \cup {NilResponse}
    BY <1>1, CombineType
  <2> QED
    BY <1>1, <2>1, <2>2 DEF MergeResponse, Accumulator
<1> QED
  BY <1>2, <1>3

\* Result returns an outcome.
LEMMA ResultType ==
  ASSUME NEW c \in Accumulator
  PROVE  Result(c) \in Outcome
<1>1. c.data \in Response \cup {NilResponse} /\ c.errs \in Seq(ErrorKind)
  BY DEF Accumulator
<1>2. Result(c).resp \in Response \cup {NilResponse}
  <2>1. CASE c.data = NilResponse
    BY <2>1 DEF Result
  <2>2. CASE c.data # NilResponse /\ (c.pending > 0 \/ c.errs # << >>)
    BY <2>2, <1>1, IncompleteType DEF Result
  <2>3. CASE c.data # NilResponse /\ ~(c.pending > 0 \/ c.errs # << >>)
    BY <2>3, <1>1 DEF Result
  <2> QED
    BY <2>1, <2>2, <2>3
<1> QED
  BY <1>1, <1>2 DEF Result, Outcome

---------------------------------------------------------------------------
(* Folds over sequences, for the operators that are built from them.       *)

\* Induction on the prefixes of a sequence of length n, for a set of numbers.
LEMMA ByPrefixes ==
  ASSUME NEW n \in Nat, NEW P, 0 \in P,
         \A k \in 1..n : k - 1 \in P => k \in P
  PROVE  \A k \in 0..n : k \in P
<1> DEFINE Bad == {k \in 0..n : k \notin P}
<1> SUFFICES ASSUME Bad # {} PROVE FALSE
  OBVIOUS
<1>1. Bad \subseteq Nat
  OBVIOUS
<1>2. PICK m \in Bad : \A x \in Bad : ~(<<x, m>> \in OpToRel(<, Nat))
  BY <1>1, NatLessThanWellFounded, WFMin
<1>3. \A x \in Bad : ~(x < m)
  BY <1>1, <1>2 DEF OpToRel
<1>4. m \in 1..n /\ m - 1 \in 0..n
  OBVIOUS
<1>5. m - 1 \notin Bad
  <2> HIDE DEF Bad
  <2> QED
    BY <1>1, <1>3, <1>4
<1> QED
  BY <1>4, <1>5

\* A nonempty set of numbers up to n has a greatest one.
LEMMA Greatest ==
  ASSUME NEW n \in Nat, NEW s \in SUBSET (1..n), s # {}
  PROVE  \E m \in s : \A y \in s : m >= y
<1> DEFINE Below == {n - d : d \in s}
<1>1. Below \subseteq Nat /\ Below # {}
  <2>1. \A d \in s : d \in 1..n
    OBVIOUS
  <2>2. \A d \in 1..n : n - d \in Nat
    OBVIOUS
  <2> QED
    BY <2>1, <2>2
<1>2. PICK m \in Below : \A x \in Below : ~(<<x, m>> \in OpToRel(<, Nat))
  BY <1>1, NatLessThanWellFounded, WFMin
<1>3. \A x \in Below : ~(x < m)
  BY <1>1, <1>2 DEF OpToRel
<1>4. PICK g \in s : m = n - g
  OBVIOUS
<1>5. \A d \in s : g >= d
  <2> SUFFICES ASSUME NEW d \in s PROVE g >= d
    OBVIOUS
  <2>1. n - d \in Below
    OBVIOUS
  <2> HIDE DEF Below
  <2> QED
    BY <1>3, <1>4, <2>1
<1> QED
  BY <1>5

\* The first k numbers: k is their greatest.
LEMMA Prefix ==
  ASSUME NEW n \in Nat, NEW k \in 1..n
  PROVE  /\ 1..k \in SUBSET (1..n) /\ 1..k # {}
         /\ k \in 1..k /\ \A y \in 1..k : k >= y /\ (y >= k => y = k)
         /\ (1..k) \ {k} = 1..(k - 1)
         /\ k - 1 \in 0..n
<1>1. 1..k \in SUBSET (1..n) /\ k \in 1..k /\ k - 1 \in 0..n
  OBVIOUS
<1>2. \A y \in 1..k : k >= y /\ (y >= k => y = k)
  OBVIOUS
<1>3. (1..k) \ {k} = 1..(k - 1)
  OBVIOUS
<1> QED
  BY <1>1, <1>2, <1>3

\* What a fold has reached after each number, from what one more number does.
LEMMA PrefixesIn ==
  ASSUME NEW n \in Nat, NEW h, NEW A, h[1..0] \in A,
         \A k \in 1..n : h[1..(k - 1)] \in A => h[1..k] \in A
  PROVE  \A k \in 0..n : h[1..k] \in A
<1> DEFINE P == {k \in 0..n : h[1..k] \in A}
<1>1. 0 \in P
  OBVIOUS
<1>2. ASSUME NEW k \in 1..n, k - 1 \in P PROVE k \in P
  BY <1>2
<1> HIDE DEF P
<1>3. \A k \in 0..n : k \in P
  BY <1>1, <1>2, ByPrefixes
<1> QED
  BY <1>3 DEF P

\* it computes a fold over the numbers up to k: from base, G is applied to
\* each number of a set, the greatest one last.
Folds(it, A, base, G, k) ==
  /\ it \in [SUBSET (1..k) -> A]
  /\ it[{}] = base
  /\ \A s \in SUBSET (1..k) : \A m \in s :
       (\A y \in s : m >= y) => it[s] = G[<<it[s \ {m}], m>>]

\* Every fold is defined.
LEMMA FoldExists ==
  ASSUME NEW A, NEW base \in A, NEW n \in Nat, NEW G \in [A \X (1..n) -> A]
  PROVE  \E it : Folds(it, A, base, G, n)
<1> DEFINE P == {k \in 0..n : \E it : Folds(it, A, base, G, k)}
<1>1. 0 \in P
  <2>1. SUBSET (1..0) = {{}}
    OBVIOUS
  <2>2. Folds([s \in {{}} |-> base], A, base, G, 0)
    BY <2>1 DEF Folds
  <2> QED
    BY <2>2
<1>2. ASSUME NEW k \in 1..n, k - 1 \in P PROVE k \in P
  <2>1. PICK it : Folds(it, A, base, G, k - 1)
    BY <1>2
  <2> DEFINE more == [s \in SUBSET (1..k) |->
                        IF k \in s THEN G[<<it[s \ {k}], k>>] ELSE it[s]]
  <2>2. ASSUME NEW s \in SUBSET (1..k)
        PROVE  s \ {k} \in SUBSET (1..(k - 1)) /\ (k \notin s => s \in SUBSET (1..(k - 1)))
    OBVIOUS
  <2>3. more \in [SUBSET (1..k) -> A]
    <3> SUFFICES ASSUME NEW s \in SUBSET (1..k) PROVE more[s] \in A
      OBVIOUS
    <3>1. it[s \ {k}] \in A /\ (k \notin s => it[s] \in A)
      BY <2>1, <2>2 DEF Folds
    <3> QED
      BY <3>1
  <2>4. more[{}] = base
    BY <2>1 DEF Folds
  <2>5. ASSUME NEW s \in SUBSET (1..k), NEW m \in s, \A y \in s : m >= y
        PROVE  more[s] = G[<<more[s \ {m}], m>>]
    <3>1. CASE k \in s
      <4>1. m = k /\ k \notin s \ {k} /\ s \ {k} \in SUBSET (1..k)
        BY <2>5, <3>1
      <4> QED
        BY <3>1, <4>1
    <3>2. CASE k \notin s
      <4>1. s \in SUBSET (1..(k - 1)) /\ s \ {m} \in SUBSET (1..k) /\ k \notin s \ {m}
        BY <3>2
      <4>2. it[s] = G[<<it[s \ {m}], m>>]
        BY <2>1, <2>5, <4>1 DEF Folds
      <4>3. more[s] = it[s] /\ more[s \ {m}] = it[s \ {m}]
        BY <3>2, <4>1
      <4> HIDE DEF more
      <4> QED
        BY <4>2, <4>3
    <3> QED
      BY <3>1, <3>2
  <2> HIDE DEF more
  <2>6. Folds(more, A, base, G, k)
    BY <2>3, <2>4, <2>5 DEF Folds
  <2> QED
    BY <2>6
<1> HIDE DEF P
<1>3. n \in P
  BY <1>1, <1>2, ByPrefixes
<1> QED
  BY <1>3 DEF P
===========================================================================

------------------------ MODULE SequentialMergeProofs ------------------------
(***************************************************************************)
(* Proofs about SequentialMerge, for any number of backends, keys, values  *)
(* and configurations: completeness, who wins a key, and where the         *)
(* parameters of later backends come from.  Then about the data those      *)
(* parameters are found in, SequentialSources and EntityFormatter, for any *)
(* names and depth of nesting: what a source finds, what the allow and     *)
(* deny lists leave of a response, and that the order of the renamings     *)
(* does not show.                                                          *)
(***************************************************************************)
EXTENDS SequentialMerge, SequentialSources, MergeAccumulatorProofs, SequenceTheorems,
        FiniteSetTheorems

\* The backends that have answered by a response, in a history g of answers.
Rec(g) == {b \in Backend : g[b] # NilResponse}

LastOf(g, key, v) == \E b \in Rec(g) : /\ key \in KeysOf(g[b]) /\ v = g[b].Data[key]
                                     /\ \A c \in Rec(g) : c > b => key \notin KeysOf(g[c])

FullAnswer(g, b) == g[b].IsComplete /\ (g[b].Data # NilData \/ Rec(g) = {b})

\* The accumulator a holds the merge of the answers g.
Merged(g, a) ==
  /\ a.data = NilResponse <=> Rec(g) = {}
  /\ a.data # NilResponse =>
       /\ \A b \in Rec(g) : KeysOf(g[b]) \subseteq KeysOf(a.data)
       /\ \A key \in KeysOf(a.data) : LastOf(g, key, a.data.Data[key])
       /\ a.errs = << >> => (a.data.IsComplete <=> \A b \in Rec(g) : FullAnswer(g, b))
       /\ \A b \in Rec(g) : Rec(g) = {b} => a.data.Data = g[b].Data
       /\ a.data.Data = NilData => \E b \in Rec(g) : Rec(g) = {b}

\* Both channels are empty but for the answer that is about to be received.
ChanInv ==
  /\ IF pc = "receive" THEN \/ errCh = << >> /\ \E res \in Response : out = <<res>>
                            \/ out = << >> /\ \E e \in ErrorKind : errCh = <<e>>
                       ELSE out = << >> /\ errCh = << >>
  /\ pc = "sending" => held.res \in Response
  /\ pc = "failing" => held.err \in ErrorKind

\* The chain went past b: it was left out, or it gave a complete answer.
Passed(b) == /\ parts[b] # NilResponse
             /\ IF b \in asked THEN parts[b] = got[b] /\ got[b].IsComplete
                               ELSE got[b] = NilResponse /\ KeysOf(parts[b]) = {}

Waiting(b) == parts[b] = NilResponse /\ got[b] = NilResponse

\* The loop over the backends stops at the first that does not answer completely.
ChainInv ==
  /\ \A b \in Backend : /\ b < i => Passed(b)
                        /\ b > i => Waiting(b) /\ b \notin asked
  /\ i \in Backend /\ pc = "replace" => Waiting(i) /\ i \notin asked
  /\ pc \in {"calling", "sending", "failing", "receive"} =>
       i \in Backend /\ Waiting(i) /\ i \in asked
  /\ pc \in {"result", "returned"} =>
       \/ i = N + 1
       \/ i \in asked /\ (got[i] = NilResponse \/ ~got[i].IsComplete)

AccInv ==
  /\ Merged(got, acc)
  /\ IF pc \notin {"result", "returned"} \/ i = N + 1
       THEN acc.errs = << >> /\ acc.pending = N + 1 - i
       ELSE got[i] # NilResponse \/ acc.errs # << >> \/ acc.data = NilResponse

\* Only backends without a body came before the one whose map is written into.
OwnerInv == owner # 0 => /\ owner \in Rec(got)
                         /\ acc.data # NilResponse /\ acc.data.Data # NilData
                         /\ \A c \in Rec(got) : c < owner => KeysOf(got[c]) = {}

HasSource(g, d, v) ==
  /\ d.backendIndex \in Rec(g)
  /\ \E b \in Rec(g) : b >= d.backendIndex /\ d.source \in KeysOf(g[b]) /\ g[b].Data[d.source] = v

ParamsInv ==
  \A d \in Destination :
    /\ params[d] \notin {Unset, Empty} => registry[d] = params[d]
    /\ d.source # FullBody => /\ registry[d] # Empty => HasSource(got, d, registry[d])
                              /\ params[d] # Unset => HasSource(got, d, params[d])

OutcomeInv == pc = "returned" => outcome.resp \in {NilResponse, Result(acc).resp}

IInv == /\ TypeOK /\ ChanInv /\ ChainInv /\ AccInv /\ OwnerInv /\ ParamsInv /\ OutcomeInv

---------------------------------------------------------------------------
(* The merge of one more answer.                                           *)

\* The first answer is taken as it is.
LEMMA MergedFirst ==
  ASSUME NEW g \in [Backend -> Response \cup {NilResponse}], NEW j \in Backend,
         NEW res \in Response, g[j] = NilResponse,
         NEW h, h = [g EXCEPT ![j] = res],
         NEW a \in Accumulator, Merged(g, a), a.data = NilResponse
  PROVE  Merged(h, Merge(a, res, NoError))
<1> DEFINE m == Merge(a, res, NoError)
<1>1. Rec(h) = {j} /\ h[j] = res
  <2>1. Rec(g) = {}
    BY DEF Merged
  <2> QED
    BY <2>1, NilAssumption DEF Rec
<1>2. m.data = res /\ m.data # NilResponse
  BY NilAssumption DEF Merge, MergeResponse
<1> HIDE DEF m
<1>3. ASSUME NEW key \in KeysOf(m.data) PROVE LastOf(h, key, m.data.Data[key])
  <2>1. \A c \in Rec(h) : ~(c > j)
    BY <1>1, SequentialAssumption DEF Backend
  <2> QED
    BY <1>1, <1>2, <2>1 DEF LastOf
<1>4. m.data.IsComplete <=> \A b \in Rec(h) : FullAnswer(h, b)
  BY <1>1, <1>2 DEF FullAnswer, Response
<1>5. Merged(h, m)
  BY <1>1, <1>2, <1>3, <1>4 DEF Merged
<1> QED
  BY <1>5 DEF m

\* A key of the combined response, and its value.
LEMMA CombinedValue ==
  ASSUME NEW p \in Response, NEW q \in Response, NEW key \in KeysOf(combineData(p, q))
  PROVE  combineData(p, q).Data[key] = IF key \in KeysOf(q) THEN q.Data[key] ELSE p.Data[key]
<1>1. CASE p.Data = NilData /\ q.Data = NilData
  BY <1>1, CombineType DEF KeysOf
<1>2. CASE p.Data = NilData /\ q.Data # NilData
  BY <1>2, CombineType DEF KeysOf, combineData
<1>3. CASE p.Data # NilData /\ q.Data = NilData
  BY <1>3 DEF KeysOf, combineData
<1>4. CASE p.Data # NilData /\ q.Data # NilData
  <2>1. combineData(p, q).Data = Overlay(p.Data, q.Data)
    BY <1>4 DEF combineData
  <2>2. key \in DOMAIN p.Data \cup DOMAIN q.Data
    BY <1>4, CombineType DEF KeysOf
  <2> QED
    BY <1>4, <2>1, <2>2 DEF Overlay, KeysOf
<1> QED
  BY <1>1, <1>2, <1>3, <1>4

\* A later answer is combined with those before it: its keys win, and the
\* result is complete if it was and the new one is, both with a body.
LEMMA MergedLater ==
  ASSUME NEW g \in [Backend -> Response \cup {NilResponse}], NEW j \in Backend,
         NEW res \in Response, g[j] = NilResponse, \A b \in Rec(g) : b < j,
         NEW h, h = [g EXCEPT ![j] = res],
         NEW a \in Accumulator, Merged(g, a), a.data # NilResponse
  PROVE  Merged(h, Merge(a, res, NoError))
<1> DEFINE m == Merge(a, res, NoError)
<1>1. /\ Rec(h) = Rec(g) \cup {j} /\ j \notin Rec(g)
      /\ h[j] = res /\ \A b \in Rec(g) : h[b] = g[b]
  BY NilAssumption DEF Rec
<1>2. PICK b \in Rec(g) : TRUE
  BY DEF Merged
<1>3. a.data \in Response
  BY DEF Accumulator
<1>4. m.data = combineData(a.data, res) /\ m.errs = a.errs
  BY DEF Merge, MergeResponse
<1>5. m.data \in Response /\ m.data # NilResponse /\ m.data.Data # NilData
        /\ KeysOf(m.data) = KeysOf(a.data) \cup KeysOf(res)
  BY <1>3, <1>4, CombineType, NilAssumption
<1>6. \A key \in KeysOf(m.data) :
        m.data.Data[key] = IF key \in KeysOf(res) THEN res.Data[key] ELSE a.data.Data[key]
  BY <1>3, <1>4, CombinedValue
<1> HIDE DEF m
<1>7. \A c \in Rec(h) : KeysOf(h[c]) \subseteq KeysOf(m.data)
  BY <1>1, <1>5 DEF Merged
<1>8. ASSUME NEW key \in KeysOf(m.data) PROVE LastOf(h, key, m.data.Data[key])
  <2>1. CASE key \in KeysOf(res)
    <3>1. \A c \in Rec(h) : ~(c > j)
      BY <1>1 DEF Rec, Backend
    <3> QED
      BY <1>1, <1>6, <2>1, <3>1 DEF LastOf
  <2>2. CASE key \notin KeysOf(res)
    <3>1. key \in KeysOf(a.data) /\ m.data.Data[key] = a.data.Data[key]
      BY <1>5, <1>6, <2>2
    <3>2. LastOf(g, key, a.data.Data[key])
      BY <3>1 DEF Merged
    <3> QED
      BY <1>1, <2>2, <3>1, <3>2 DEF LastOf
  <2> QED
    BY <2>1, <2>2
<1>9. \A c \in Rec(h) : Rec(h) # {c}
  BY <1>1, <1>2
<1>10. ASSUME m.errs = << >>
       PROVE  m.data.IsComplete <=> \A c \in Rec(h) : FullAnswer(h, c)
  <2>1. a.data.IsComplete <=> \A c \in Rec(g) : FullAnswer(g, c)
    BY <1>4, <1>10 DEF Merged
  <2>2. m.data.IsComplete <=> /\ a.data.Data # NilData /\ a.data.IsComplete
                              /\ res.Data # NilData /\ res.IsComplete
    BY <1>4 DEF combineData
  <2>3. FullAnswer(h, j) <=> res.Data # NilData /\ res.IsComplete
    BY <1>1, <1>9 DEF FullAnswer
  <2>4. ASSUME a.data.Data # NilData
        PROVE  \A c \in Rec(g) : FullAnswer(g, c) <=> FullAnswer(h, c)
    <3> SUFFICES ASSUME NEW c \in Rec(g) PROVE FullAnswer(g, c) <=> FullAnswer(h, c)
      OBVIOUS
    <3>1. h[c] = g[c] /\ Rec(h) # {c}
      BY <1>1, <1>9
    <3>2. Rec(g) = {c} => g[c].Data # NilData
      BY <2>4 DEF Merged
    <3> QED
      BY <3>1, <3>2 DEF FullAnswer
  <2>5. CASE a.data.Data # NilData
    BY <1>1, <2>1, <2>2, <2>3, <2>4, <2>5
  <2>6. CASE a.data.Data = NilData
    <3>1. PICK c \in Rec(g) : Rec(g) = {c}
      BY <2>6 DEF Merged
    <3>2. g[c].Data = NilData
      BY <2>6, <3>1 DEF Merged
    <3>3. ~FullAnswer(h, c) /\ c \in Rec(h)
      BY <1>1, <1>9, <3>2 DEF FullAnswer
    <3> QED
      BY <2>2, <2>6, <3>3
  <2> QED
    BY <2>5, <2>6
<1>11. Merged(h, m)
  BY <1>1, <1>5, <1>7, <1>8, <1>9, <1>10 DEF Merged
<1> QED
  BY <1>11 DEF m

\* A failure only lowers the flag.
LEMMA MergedFailure ==
  ASSUME NEW g, NEW a \in Accumulator, Merged(g, a), NEW e \in ErrorKind
  PROVE  /\ Merged(g, Merge(a, NilResponse, e))
         /\ Merge(a, NilResponse, e).errs # << >>
<1> DEFINE m == Merge(a, NilResponse, e)
<1>1. m = MergeFailure(a, e)
  BY NilAssumption DEF Merge
<1>2. m.errs # << >>
  BY <1>1 DEF MergeFailure, Accumulator
<1>3. CASE a.data = NilResponse
  BY <1>1, <1>2, <1>3 DEF MergeFailure, Merged
<1>4. CASE a.data # NilResponse
  <2>1. a.data \in Response
    BY <1>4 DEF Accumulator
  <2>2. m.data = Incomplete(a.data)
    BY <1>1, <1>4 DEF MergeFailure
  <2> HIDE DEF m
  <2>3. m.data \in Response /\ m.data.Data = a.data.Data
    BY <2>1, <2>2, IncompleteType
  <2>4. m.data # NilResponse /\ KeysOf(m.data) = KeysOf(a.data)
    BY <2>3, NilAssumption DEF KeysOf
  <2>5. Merged(g, m)
    BY <1>2, <1>4, <2>3, <2>4 DEF Merged
  <2> QED
    BY <1>2, <2>5 DEF m
<1> QED
  BY <1>2, <1>3, <1>4

---------------------------------------------------------------------------
(* The invariant holds initially, and in the loop over the replacements.   *)

LEMMA InitInv == Init => IInv
<1> SUFFICES ASSUME Init PROVE IInv
  OBVIOUS
<1> USE SequentialAssumption
<1>1. acc \in Accumulator /\ acc.data = NilResponse /\ acc.errs = << >> /\ acc.pending = N
  BY DEF Init, newIncrementalMergeAccumulator, Accumulator
<1>2. Rec(got) = {}
  BY DEF Init, Rec
<1>3. TypeOK
  BY <1>1 DEF Init, TypeOK, Backend
<1>4. ChanInv /\ OwnerInv /\ OutcomeInv
  BY DEF Init, ChanInv, OwnerInv, OutcomeInv
<1>5. ChainInv
  BY DEF Init, ChainInv, Waiting, Backend
<1>6. AccInv
  BY <1>1, <1>2 DEF Init, AccInv, Merged
<1>7. ParamsInv
  BY DEF Init, ParamsInv
<1> QED
  BY <1>3, <1>4, <1>5, <1>6, <1>7 DEF IInv

\* What a map holds is a value.
LEMMA MapValue ==
  ASSUME NEW f \in Map, NEW key \in DOMAIN f
  PROVE  f[key] \in Value
BY DEF Map

\* A value found in the map behind parts[n] has its source in n or later: that
\* map is n's own, or the merged one if n is the first that had a body.
LEMMA LiveDataSource ==
  ASSUME IInv, NEW d \in Destination, Available(d), i \in Backend,
         LiveData(d.backendIndex) # NilData, d.source \in DOMAIN LiveData(d.backendIndex)
  PROVE  /\ LiveData(d.backendIndex)[d.source] \in Value
         /\ HasSource(got, d, LiveData(d.backendIndex)[d.source])
<1> USE SequentialAssumption
<1> DEFINE n == d.backendIndex
           key == d.source
<1>1. n \in Backend /\ n < i /\ parts[n] # NilResponse
  BY DEF Available, Backend
<1>2. CASE n = owner
  <2>1. /\ LiveData(n) = acc.data.Data /\ n \in Rec(got) /\ acc.data # NilResponse
        /\ \A c \in Rec(got) : c < n => KeysOf(got[c]) = {}
    BY <1>1, <1>2 DEF LiveData, IInv, OwnerInv, Backend
  <2>2. acc.data \in Response
    BY <2>1 DEF IInv, TypeOK, Accumulator
  <2>3. acc.data.Data \in Map /\ key \in KeysOf(acc.data)
    BY <2>1, <2>2 DEF Response, KeysOf
  <2>4. LastOf(got, key, acc.data.Data[key])
    BY <2>1, <2>3 DEF IInv, AccInv, Merged
  <2>5. PICK b \in Rec(got) : key \in KeysOf(got[b]) /\ acc.data.Data[key] = got[b].Data[key]
    BY <2>4 DEF LastOf
  <2>6. b \in Int /\ n \in Int /\ ~(b < n)
    BY <1>1, <2>1, <2>5 DEF Rec, Backend
  <2>7. acc.data.Data[key] \in Value
    BY <2>1, <2>3, MapValue
  <2> QED
    BY <2>1, <2>5, <2>6, <2>7 DEF HasSource
<1>3. CASE n # owner
  <2>1. LiveData(n) = parts[n].Data
    BY <1>3 DEF LiveData
  <2>2. key \in KeysOf(parts[n])
    BY <2>1 DEF KeysOf
  <2>3. parts[n] = got[n]
    BY <1>1, <2>2 DEF IInv, ChainInv, Passed
  <2>4. n \in Rec(got) /\ got[n] \in Response
    BY <1>1, <2>3 DEF Rec, IInv, TypeOK
  <2>5. got[n].Data[key] \in Value
    BY <2>1, <2>3, <2>4, MapValue DEF Response
  <2>6. n >= n
    BY <1>1 DEF Backend
  <2> QED
    BY <2>1, <2>2, <2>3, <2>4, <2>5, <2>6 DEF HasSource
<1> QED
  BY <1>2, <1>3

\* A parameter that was not known is set, and remembered.
LEMMA ProvideKeeps ==
  ASSUME IInv, NEW d \in Destination, NEW v \in Value, ~Known(d), Provide(d, v),
         d.source # FullBody => HasSource(got, d, v), UNCHANGED got
  PROVE  /\ params' \in [Destination -> Value \cup {Unset}]
         /\ registry' \in [Destination -> Value]
         /\ ParamsInv'
<1>1. params \in [Destination -> Value \cup {Unset}] /\ registry \in [Destination -> Value]
  BY DEF IInv, TypeOK
<1>2. /\ params' = [params EXCEPT ![d] = v]
      /\ registry' = [registry EXCEPT ![d] = v]
  BY DEF Provide
<1>3. ASSUME NEW e \in Destination
      PROVE  /\ params'[e] \notin {Unset, Empty} => registry'[e] = params'[e]
             /\ e.source # FullBody => /\ registry'[e] # Empty => HasSource(got, e, registry'[e])
                                       /\ params'[e] # Unset => HasSource(got, e, params'[e])
  BY <1>1, <1>2 DEF IInv, ParamsInv
<1>4. ParamsInv'
  BY <1>3 DEF ParamsInv, HasSource
<1> QED
  BY <1>1, <1>2, <1>4

\* One iteration of the loop over the replacements.
LEMMA ReplaceKeeps ==
  ASSUME IInv, NEW d \in Destination, i \in Backend, Replace(d), UNCHANGED got
  PROVE  /\ params' \in [Destination -> Value \cup {Unset}]
         /\ registry' \in [Destination -> Value]
         /\ io' \in [Backend -> Value \cup {Unset}]
         /\ ParamsInv'
<1> USE SequentialAssumption
<1>1. /\ params \in [Destination -> Value \cup {Unset}] /\ registry \in [Destination -> Value]
      /\ io \in [Backend -> Value \cup {Unset}] /\ ParamsInv
  BY DEF IInv, TypeOK
<1>2. CASE UNCHANGED <<io, registry, params>>
  BY <1>1, <1>2 DEF ParamsInv, HasSource
<1>3. CASE Available(d) /\ Known(d) /\ params' = [params EXCEPT ![d] = registry[d]]
             /\ UNCHANGED <<io, registry>>
  <2>1. ASSUME NEW e \in Destination
        PROVE  /\ params'[e] \notin {Unset, Empty} => registry[e] = params'[e]
               /\ e.source # FullBody => /\ registry[e] # Empty => HasSource(got, e, registry[e])
                                         /\ params'[e] # Unset => HasSource(got, e, params'[e])
    BY <1>1, <1>3 DEF ParamsInv, Known
  <2>2. ParamsInv'
    BY <1>3, <2>1 DEF ParamsInv, HasSource
  <2> QED
    BY <1>1, <1>3, <2>2
<1>4. CASE Available(d) /\ ~Known(d) /\ d.source = FullBody /\ ReplaceFromBody(d)
  <2>1. CASE io[d.backendIndex] # Unset /\ Provide(d, io[d.backendIndex])
               /\ io' = [io EXCEPT ![d.backendIndex] = Empty]
    <3>1. d.backendIndex \in Backend
      BY <1>4 DEF Available, Backend
    <3>2. io[d.backendIndex] \in Value
      BY <1>1, <2>1, <3>1
    <3> QED
      BY <1>1, <1>4, <2>1, <3>1, <3>2, ProvideKeeps
  <2> QED
    BY <1>2, <1>4, <2>1 DEF ReplaceFromBody
<1>5. CASE Available(d) /\ ~Known(d) /\ d.source # FullBody /\ ReplaceFromData(d)
  <2>1. CASE LiveData(d.backendIndex) # NilData /\ d.source \in DOMAIN LiveData(d.backendIndex)
    BY <1>1, <1>5, <2>1, LiveDataSource, ProvideKeeps DEF ReplaceFromData
  <2> QED
    BY <1>2, <1>5, <2>1 DEF ReplaceFromData
<1> QED
  BY <1>2, <1>3, <1>4, <1>5 DEF Replace

LEMMA SubstituteStep == IInv /\ Substitute => IInv'
<1> SUFFICES ASSUME IInv, Substitute PROVE IInv'
  OBVIOUS
<1> USE SequentialAssumption
<1>1. i \in Backend /\ r \in DOMAIN repl[i] /\ repl \in Configs
  BY DEF Substitute, Replacing, IInv, TypeOK, Backend
<1>2. repl[i][r] \in Destination
  <2>1. repl[i][r] \in {repl[i][j] : j \in DOMAIN repl[i]}
    BY <1>1
  <2>2. repl[i][r] \in UNION {{repl[b][j] : j \in DOMAIN repl[b]} : b \in Backend}
    BY <1>1, <2>1
  <2> QED
    BY <1>1, <2>2 DEF Destination
<1>3. UNCHANGED <<ctx, repl, pc, i, parts, held, out, errCh, acc, owner, outcome, asked, got>>
  BY DEF Substitute
<1>4. Replace(repl[i][r])
  BY DEF Substitute
<1>5. /\ params' \in [Destination -> Value \cup {Unset}] /\ registry' \in [Destination -> Value]
      /\ io' \in [Backend -> Value \cup {Unset}] /\ ParamsInv'
  BY <1>1, <1>2, <1>3, <1>4, ReplaceKeeps
<1>6. TypeOK'
  BY <1>3, <1>5 DEF Substitute, IInv, TypeOK
<1>7. ChanInv' /\ ChainInv' /\ OwnerInv' /\ OutcomeInv'
  BY <1>3 DEF IInv, ChanInv, ChainInv, Passed, Waiting, OwnerInv, OutcomeInv
<1>8. AccInv'
  BY <1>3 DEF IInv, AccInv
<1> QED
  BY <1>5, <1>6, <1>7, <1>8 DEF IInv

---------------------------------------------------------------------------
(* The steps of a call.                                                    *)

\* A backend that a filter leaves out (merging.go:409-413).
LEMMA SkipStep == IInv /\ Skip => IInv'
<1> SUFFICES ASSUME IInv, Skip PROVE IInv'
  OBVIOUS
<1> USE SequentialAssumption
<1> DEFINE part == [Data |-> [key \in {} |-> NilData], IsComplete |-> TRUE]
<1>1. /\ i \in Backend /\ pc = "replace" /\ i' = i + 1 /\ r' = 1 /\ pc' = "replace"
      /\ parts' = [parts EXCEPT ![i] = part]
      /\ acc' = [acc EXCEPT !.pending = @ - 1]
      /\ UNCHANGED <<ctx, requestVars, held, out, errCh, owner, outcome, asked, got>>
  BY DEF Skip, ReplacementsDone, NextBackend, IInv, TypeOK, Backend
<1>2. part \in Response /\ KeysOf(part) = {}
  BY EmptyMap DEF Response, KeysOf
<1>3. part # NilResponse
  BY <1>2, NilAssumption
<1> HIDE DEF part
<1>4. acc \in Accumulator /\ acc' \in Accumulator
        /\ acc'.data = acc.data /\ acc'.errs = acc.errs /\ acc'.pending = acc.pending - 1
  <2>1. acc \in Accumulator
    BY DEF IInv, TypeOK
  <2>2. acc' = [acc EXCEPT !.pending = @ - 1]
    BY <1>1
  <2> QED
    BY <2>1, <2>2 DEF Accumulator
<1>5. TypeOK'
  BY <1>1, <1>2, <1>4 DEF IInv, TypeOK, requestVars, Backend
<1>6. ChanInv' /\ OwnerInv' /\ ParamsInv' /\ OutcomeInv'
  BY <1>1, <1>4 DEF IInv, ChanInv, OwnerInv, ParamsInv, OutcomeInv, requestVars
<1>7. ChainInv'
  BY <1>1, <1>2, <1>3 DEF IInv, TypeOK, ChainInv, Passed, Waiting, Backend
<1>8. AccInv'
  <2>1. Merged(got, acc) => Merged(got', acc')
    BY <1>1, <1>4 DEF Merged
  <2> QED
    BY <1>1, <1>4, <2>1 DEF IInv, AccInv, Backend
<1> QED
  BY <1>5, <1>6, <1>7, <1>8 DEF IInv

\* The call of a backend (merging.go:415).
LEMMA CallStep == IInv /\ Call => IInv'
<1> SUFFICES ASSUME IInv, Call PROVE IInv'
  OBVIOUS
<1> USE SequentialAssumption
<1>1. /\ i \in Backend /\ pc = "replace" /\ pc' = "calling" /\ asked' = asked \cup {i}
      /\ UNCHANGED <<ctx, requestVars, i, r, parts, held, out, errCh, acc, owner, outcome, got>>
  BY DEF Call, ReplacementsDone, IInv, TypeOK, Backend
<1>2. TypeOK'
  BY <1>1 DEF IInv, TypeOK, requestVars
<1>3. ChanInv' /\ AccInv' /\ OwnerInv' /\ ParamsInv' /\ OutcomeInv'
  BY <1>1 DEF IInv, ChanInv, AccInv, OwnerInv, ParamsInv, OutcomeInv, requestVars
<1>4. ChainInv'
  BY <1>1 DEF IInv, ChainInv, Passed, Waiting, Backend
<1> QED
  BY <1>2, <1>3, <1>4 DEF IInv

\* Steps within a call: what it holds and the channels may change.
LEMMA CallKeeps ==
  ASSUME IInv, pc \in {"calling", "sending", "failing"},
         pc' \in {"sending", "failing", "receive"},
         TypeOK', ChanInv',
         UNCHANGED <<repl, registry, params, i, r, parts, acc, owner, outcome, asked, got>>
  PROVE  IInv'
<1>1. ChainInv'
  BY DEF IInv, ChainInv, Passed, Waiting
<1>2. AccInv' /\ OwnerInv' /\ ParamsInv' /\ OutcomeInv'
  BY DEF IInv, AccInv, OwnerInv, ParamsInv, OutcomeInv
<1> QED
  BY <1>1, <1>2 DEF IInv

\* An error in next, or the end of the context while waiting to send.
LEMMA FailStep ==
  ASSUME IInv, pc \in {"calling", "sending"}, NEW e \in ErrorKind, Fail(e)
  PROVE  IInv'
<1>1. TypeOK'
  BY DEF Fail, IInv, TypeOK, requestVars
<1>2. ChanInv'
  BY DEF Fail, IInv, TypeOK, ChanInv
<1> QED
  BY <1>1, <1>2, CallKeeps DEF Fail, requestVars

LEMMA FailuresStep == IInv /\ (NextFails \/ GiveUp) => IInv'
<1> SUFFICES ASSUME IInv, NextFails \/ GiveUp PROVE IInv'
  OBVIOUS
<1>1. ctx \in {"live", "deadline", "canceled"}
  BY DEF IInv, TypeOK
<1>2. PICK e \in ErrorKind : Fail(e) /\ pc \in {"calling", "sending"}
  BY <1>1 DEF NextFails, GiveUp, ErrorKind
<1> QED
  BY <1>2, FailStep

LEMMA RespondStep == IInv /\ NextResponds => IInv'
<1> SUFFICES ASSUME IInv, NextResponds PROVE IInv'
  OBVIOUS
<1> USE SequentialAssumption
<1>1. PICK res \in Response : held' = [res |-> res, err |-> NoError]
  BY DEF NextResponds
<1>2. PICK body \in Body \cup {Unset} : io' = [io EXCEPT ![i] = body]
  BY DEF NextResponds
<1>3. TypeOK'
  BY <1>1, <1>2 DEF NextResponds, IInv, TypeOK
<1>4. ChanInv'
  BY <1>1 DEF NextResponds, IInv, ChanInv
<1> QED
  BY <1>3, <1>4, CallKeeps DEF NextResponds

\* The answer is sent on one of the two channels, which are empty.
LEMMA SendStep == IInv /\ (SendPart \/ SendFailure) => IInv'
<1> SUFFICES ASSUME IInv, SendPart \/ SendFailure PROVE IInv'
  OBVIOUS
<1>1. out = << >> /\ errCh = << >> 
  BY DEF SendPart, SendFailure, IInv, ChanInv
<1>2. CASE SendPart
  <2>1. held.res \in Response /\ out' = <<held.res>>
    BY <1>1, <1>2 DEF SendPart, IInv, ChanInv
  <2>2. TypeOK'
    BY <1>2, <2>1 DEF SendPart, IInv, TypeOK, requestVars
  <2>3. ChanInv'
    BY <1>1, <1>2, <2>1 DEF SendPart, ChanInv
  <2> QED
    BY <1>2, <2>2, <2>3, CallKeeps DEF SendPart, requestVars
<1>3. CASE SendFailure
  <2>1. held.err \in ErrorKind /\ errCh' = <<held.err>>
    BY <1>1, <1>3 DEF SendFailure, IInv, ChanInv
  <2>2. TypeOK'
    BY <1>3, <2>1 DEF SendFailure, IInv, TypeOK, requestVars
  <2>3. ChanInv'
    BY <1>1, <1>3, <2>1 DEF SendFailure, ChanInv
  <2> QED
    BY <1>3, <2>2, <2>3, CallKeeps DEF SendFailure, requestVars
<1> QED
  BY <1>2, <1>3

---------------------------------------------------------------------------
(* The answer of a backend.                                                *)

\* What is received.
LEMMA Received1 ==
  ASSUME IInv, pc = "receive"
  PROVE  /\ i \in Backend /\ i \in asked /\ Waiting(i)
         /\ \A b \in Rec(got) : b < i
         /\ acc \in Accumulator /\ acc.errs = << >> /\ acc.pending = N + 1 - i
         /\ Merged(got, acc)
         /\ errCh # << >> => Head(errCh) \in ErrorKind /\ Tail(errCh) = << >> /\ out = << >>
         /\ out # << >> => Head(out) \in Response /\ Tail(out) = << >> /\ errCh = << >>
<1>1. i \in Backend /\ i \in asked /\ Waiting(i)
  BY DEF IInv, ChainInv
<1>2. \A b \in Rec(got) : b < i
  BY <1>1, SequentialAssumption DEF Rec, IInv, ChainInv, Waiting, Backend
<1>3. acc \in Accumulator /\ acc.errs = << >> /\ acc.pending = N + 1 - i /\ Merged(got, acc)
  BY DEF IInv, TypeOK, AccInv
<1>4. ASSUME errCh # << >>
      PROVE  Head(errCh) \in ErrorKind /\ Tail(errCh) = << >> /\ out = << >>
  <2>1. PICK e \in ErrorKind : out = << >> /\ errCh = <<e>>
    BY <1>4 DEF IInv, ChanInv
  <2> QED
    BY <2>1
<1>5. ASSUME out # << >>
      PROVE  Head(out) \in Response /\ Tail(out) = << >> /\ errCh = << >>
  <2>1. PICK res \in Response : errCh = << >> /\ out = <<res>>
    BY <1>5 DEF IInv, ChanInv
  <2> QED
    BY <2>1
<1> QED
  BY <1>1, <1>2, <1>3, <1>4, <1>5

\* The error of the first backend, which nobody answered before.
LEMMA FirstFailureStep == IInv /\ ReceiveFirstFailure => IInv'
<1> SUFFICES ASSUME IInv, ReceiveFirstFailure PROVE IInv'
  OBVIOUS
<1> USE SequentialAssumption
<1>1. /\ pc = "receive" /\ pc' = "returned" /\ i = 1 /\ errCh # << >>
      /\ errCh' = Tail(errCh) /\ outcome'.resp = NilResponse
      /\ outcome' = [resp |-> NilResponse, errs |-> <<Head(errCh)>>, plain |-> TRUE]
      /\ ctx' \in {ctx, "canceled"}
      /\ UNCHANGED <<requestVars, i, r, parts, held, out, acc, owner, asked, got>>
  BY DEF ReceiveFirstFailure
<1>2. /\ i \in asked /\ Waiting(i) /\ \A b \in Rec(got) : b < 1
      /\ Head(errCh) \in ErrorKind /\ errCh' = << >> /\ out = << >> /\ Merged(got, acc)
  BY <1>1, Received1
<1>3. TypeOK'
  BY <1>1, <1>2 DEF IInv, TypeOK, requestVars
<1>4. ChanInv' /\ OutcomeInv' /\ OwnerInv' /\ ParamsInv'
  BY <1>1, <1>2 DEF IInv, ChanInv, OutcomeInv, OwnerInv, ParamsInv, requestVars
<1>5. ChainInv'
  BY <1>1, <1>2 DEF IInv, ChainInv, Passed, Waiting
<1>6. AccInv'
  <2>1. Rec(got) = {}
    BY <1>2 DEF Rec, Backend
  <2>2. acc.data = NilResponse
    BY <1>2, <2>1 DEF Merged
  <2>3. i # N + 1
    BY <1>1
  <2> QED
    BY <1>1, <1>2, <2>2, <2>3 DEF AccInv
<1> QED
  BY <1>3, <1>4, <1>5, <1>6 DEF IInv

\* The error of a later backend ends the chain.
LEMMA FailureStep == IInv /\ ReceiveFailure => IInv'
<1> SUFFICES ASSUME IInv, ReceiveFailure PROVE IInv'
  OBVIOUS
<1> USE SequentialAssumption
<1>1. /\ pc = "receive" /\ pc' = "result" /\ errCh # << >>
      /\ errCh' = Tail(errCh) /\ acc' = Merge(acc, NilResponse, Head(errCh))
      /\ UNCHANGED <<ctx, requestVars, i, r, parts, held, out, owner, outcome, asked, got>>
  BY DEF ReceiveFailure
<1>2. /\ i \in Backend /\ i \in asked /\ Waiting(i) /\ acc \in Accumulator
      /\ Head(errCh) \in ErrorKind /\ errCh' = << >> /\ out = << >> /\ Merged(got, acc)
  BY <1>1, Received1
<1>3. acc' \in Accumulator /\ Merged(got, acc') /\ acc'.errs # << >>
  BY <1>1, <1>2, MergeType, MergedFailure
<1>4. TypeOK'
  BY <1>1, <1>2, <1>3 DEF IInv, TypeOK, requestVars
<1>5. ChanInv' /\ OutcomeInv' /\ ParamsInv'
  BY <1>1, <1>2 DEF IInv, ChanInv, OutcomeInv, ParamsInv, requestVars
<1>6. ChainInv'
  BY <1>1, <1>2 DEF IInv, ChainInv, Passed, Waiting
<1>7. AccInv'
  <2>1. i # N + 1
    BY <1>2 DEF Backend
  <2> QED
    BY <1>1, <1>3, <2>1 DEF AccInv
<1>8. OwnerInv'
  <2>1. ASSUME acc.data # NilResponse
        PROVE  acc'.data # NilResponse /\ acc'.data.Data = acc.data.Data
    <3>1. acc.data \in Response
      BY <1>2, <2>1 DEF Accumulator
    <3>2. acc'.data = Incomplete(acc.data)
      BY <1>1, <1>2, <2>1, NilAssumption DEF Merge, MergeFailure
    <3> QED
      BY <3>1, <3>2, IncompleteType, NilAssumption
  <2> QED
    BY <1>1, <2>1 DEF IInv, OwnerInv
<1> QED
  BY <1>4, <1>5, <1>6, <1>7, <1>8 DEF IInv

\* More answers do not take a source away.
LEMMA SourceStays ==
  ASSUME NEW g, NEW h, Rec(g) \subseteq Rec(h), \A b \in Rec(g) : h[b] = g[b],
         NEW d, NEW v, HasSource(g, d, v)
  PROVE  HasSource(h, d, v)
BY DEF HasSource

\* Whose map is written into after a response (line 605).
LEMMA OwnerStep ==
  ASSUME IInv, pc = "receive", NEW res \in Response,
         got' = [got EXCEPT ![i] = res], acc' = Merge(acc, res, NoError),
         owner' = OwnerAfter(res)
  PROVE  OwnerInv'
<1> USE SequentialAssumption
<1>1. /\ i \in Backend /\ got[i] = NilResponse /\ \A b \in Rec(got) : b < i
      /\ acc \in Accumulator /\ Merged(got, acc) /\ got \in [Backend -> Response \cup {NilResponse}]
  BY Received1 DEF Waiting, IInv, TypeOK
<1>2. /\ Rec(got') = Rec(got) \cup {i} /\ got'[i] = res
      /\ \A b \in Rec(got) : got'[b] = got[b]
  BY <1>1, NilAssumption DEF Rec
<1>3. acc'.data = IF acc.data = NilResponse THEN res ELSE combineData(acc.data, res)
  BY DEF Merge, MergeResponse
<1>4. acc.data # NilResponse => /\ acc'.data # NilResponse /\ acc'.data.Data # NilData
  BY <1>1, <1>3, CombineType, NilAssumption DEF Accumulator
<1> SUFFICES ASSUME owner' # 0
             PROVE  /\ owner' \in Rec(got')
                    /\ acc'.data # NilResponse /\ acc'.data.Data # NilData
                    /\ \A c \in Rec(got') : c < owner' => KeysOf(got'[c]) = {}
  BY DEF OwnerInv
<1>5. CASE acc.data = NilResponse
  <2>1. Rec(got) = {} /\ owner' = i /\ res.Data # NilData
    BY <1>1, <1>5 DEF Merged, OwnerAfter
  <2>2. ~(i < i)
    BY <1>1 DEF Backend
  <2>3. Rec(got') = {i} /\ acc'.data = res /\ res # NilResponse
    BY <1>2, <1>3, <1>5, <2>1, NilAssumption
  <2> QED
    BY <2>1, <2>2, <2>3
<1>6. CASE acc.data # NilResponse /\ acc.data.Data = NilData /\ res.Data # NilData
  <2>1. owner' = i
    BY <1>6 DEF OwnerAfter
  <2>2. \A c \in Rec(got) : KeysOf(got[c]) = {}
    BY <1>1, <1>6 DEF Merged, KeysOf
  <2>3. ~(i < i)
    BY <1>1 DEF Backend
  <2> QED
    BY <1>2, <1>4, <1>6, <2>1, <2>2, <2>3
<1>7. CASE acc.data # NilResponse /\ ~(acc.data.Data = NilData /\ res.Data # NilData)
  <2>1. owner' = owner
    BY <1>7 DEF OwnerAfter
  <2>2. owner \in Rec(got) /\ \A c \in Rec(got) : c < owner => KeysOf(got[c]) = {}
    BY <2>1 DEF IInv, OwnerInv
  <2>3. ~(i < owner)
    BY <1>1, <2>2 DEF Rec, Backend
  <2> QED
    BY <1>2, <1>4, <1>7, <2>1, <2>2, <2>3
<1> QED
  BY <1>5, <1>6, <1>7

\* A response: the chain goes on if it is complete (merging.go:425-431).
LEMMA PartStep == IInv /\ ReceivePart => IInv'
<1> SUFFICES ASSUME IInv, ReceivePart PROVE IInv'
  OBVIOUS
<1> USE SequentialAssumption
<1>1. PICK res \in Response :
        /\ acc' = Merge(acc, res, NoError) /\ owner' = OwnerAfter(res)
        /\ got' = [got EXCEPT ![i] = res]
        /\ IF res.IsComplete
             THEN parts' = [parts EXCEPT ![i] = res] /\ i' = i + 1 /\ r' = 1 /\ pc' = "replace"
             ELSE pc' = "result" /\ UNCHANGED <<parts, i, r>>
        /\ out' = << >>
        /\ UNCHANGED <<ctx, requestVars, held, errCh, outcome, asked>>
  BY Received1 DEF ReceivePart, NextBackend
<1>2. /\ pc = "receive" /\ i \in Backend /\ i \in asked /\ Waiting(i) /\ errCh = << >>
      /\ \A b \in Rec(got) : b < i
      /\ acc \in Accumulator /\ acc.errs = << >> /\ acc.pending = N + 1 - i
      /\ Merged(got, acc) /\ got \in [Backend -> Response \cup {NilResponse}]
  BY Received1 DEF ReceivePart, IInv, TypeOK
<1>3. got[i] = NilResponse
  BY <1>2 DEF Waiting
<1>4. /\ got' \in [Backend -> Response \cup {NilResponse}]
      /\ Rec(got') = Rec(got) \cup {i} /\ got'[i] = res
      /\ \A b \in Backend : b # i => got'[b] = got[b]
      /\ \A b \in Rec(got) : got'[b] = got[b]
  BY <1>1, <1>2, <1>3, NilAssumption DEF Rec
<1>5. acc' \in Accumulator /\ acc'.errs = << >> /\ acc'.pending = acc.pending - 1
  <2>1. acc' \in Accumulator
    BY <1>1, <1>2, MergeType
  <2>2. acc' = MergeResponse(acc, res)
    BY <1>1 DEF Merge
  <2>3. acc'.errs = acc.errs /\ acc'.pending = acc.pending - 1
    BY <2>2 DEF MergeResponse
  <2> QED
    BY <1>2, <2>1, <2>3
<1>6. Merged(got', acc')
  BY <1>1, <1>2, <1>3, MergedFirst, MergedLater
<1>7. res # NilResponse
  BY NilAssumption
<1>8. TypeOK'
  <2>1. owner' \in 0..N
    BY <1>1, <1>2 DEF OwnerAfter, Backend, IInv, TypeOK
  <2>2. /\ parts' \in [Backend -> Response \cup {NilResponse}] /\ i' \in 1..(N + 1) /\ r' \in Nat
        /\ pc' \in {"replace", "result"}
    <3>1. parts \in [Backend -> Response \cup {NilResponse}] /\ r \in Nat /\ i \in 1..N
      BY <1>2 DEF Backend, IInv, TypeOK
    <3>2. CASE res.IsComplete
      <4>1. parts' = [parts EXCEPT ![i] = res] /\ i' = i + 1 /\ r' = 1 /\ pc' = "replace"
        BY <1>1, <3>2
      <4>2. i + 1 \in 1..(N + 1)
        BY <3>1
      <4> QED
        BY <3>1, <4>1, <4>2
    <3>3. CASE ~res.IsComplete
      <4>1. parts' = parts /\ i' = i /\ r' = r /\ pc' = "result"
        BY <1>1, <3>3
      <4> QED
        BY <3>1, <4>1
    <3> QED
      BY <3>2, <3>3
  <2> QED
    BY <1>1, <1>4, <1>5, <2>1, <2>2 DEF IInv, TypeOK, requestVars
<1>9. ChanInv' /\ OutcomeInv'
  BY <1>1, <1>2 DEF ChanInv, OutcomeInv
<1>10. ChainInv'
  <2>1. CASE res.IsComplete
    <3>1. parts' = [parts EXCEPT ![i] = res] /\ i' = i + 1 /\ pc' = "replace" /\ asked' = asked
      BY <1>1, <2>1
    <3>2. parts \in [Backend -> Response \cup {NilResponse}]
      BY DEF IInv, TypeOK
    <3>3. parts'[i] = res /\ \A b \in Backend : b # i => parts'[b] = parts[b]
      BY <1>2, <3>1, <3>2
    <3>4. ASSUME NEW b \in Backend
          PROVE  /\ b < i' => Passed(b)'
                 /\ b > i' => Waiting(b)' /\ b \notin asked'
      <4>1. CASE b < i
        <5>1. b # i /\ ~(b > i')
          BY <1>2, <3>1, <4>1 DEF Backend
        <5>2. Passed(b) /\ parts'[b] = parts[b] /\ got'[b] = got[b]
          BY <1>4, <3>3, <4>1, <5>1 DEF IInv, ChainInv
        <5> QED
          BY <3>1, <5>1, <5>2 DEF Passed
      <4>2. CASE b = i
        BY <1>2, <1>4, <1>7, <2>1, <3>1, <3>3, <4>2 DEF Passed, Backend
      <4>3. CASE b > i
        BY <1>2, <1>4, <3>1, <3>3, <4>3 DEF IInv, ChainInv, Waiting, Backend
      <4> QED
        BY <1>2, <4>1, <4>2, <4>3 DEF Backend
    <3>5. ASSUME i' \in Backend PROVE Waiting(i)' /\ i' \notin asked'
      <4>1. i' > i /\ i' # i
        BY <1>2, <3>1 DEF Backend
      <4>2. Waiting(i') /\ i' \notin asked
        BY <3>5, <4>1 DEF IInv, ChainInv
      <4> QED
        BY <1>4, <3>1, <3>3, <3>5, <4>1, <4>2 DEF Waiting
    <3> QED
      BY <3>1, <3>4, <3>5 DEF ChainInv
  <2>2. CASE ~res.IsComplete
    <3>1. UNCHANGED <<parts, i, asked>> /\ pc' = "result"
      BY <1>1, <2>2
    <3>2. \A b \in Backend : b < i \/ b > i => got'[b] = got[b]
      BY <1>2, <1>4 DEF Backend
    <3> QED
      BY <1>2, <1>4, <2>2, <3>1, <3>2 DEF IInv, ChainInv, Passed, Waiting
  <2> QED
    BY <2>1, <2>2
<1>11. AccInv'
  <2>1. CASE res.IsComplete
    <3>1. i' = i + 1 /\ pc' = "replace"
      BY <1>1, <2>1
    <3> QED
      BY <1>2, <1>5, <1>6, <3>1 DEF AccInv, Backend
  <2>2. CASE ~res.IsComplete
    <3>1. i' = i /\ pc' = "result" /\ i # N + 1
      BY <1>1, <1>2, <2>2 DEF Backend
    <3> QED
      BY <1>4, <1>6, <1>7, <3>1 DEF AccInv
  <2> QED
    BY <2>1, <2>2
<1>12. OwnerInv'
  BY <1>1, <1>2, OwnerStep
<1>13. ParamsInv'
  <2>1. Rec(got) \subseteq Rec(got')
    BY <1>4
  <2>2. UNCHANGED <<registry, params>>
    BY <1>1 DEF requestVars
  <2>3. ASSUME NEW d \in Destination, NEW v, HasSource(got, d, v) PROVE HasSource(got', d, v)
    BY <1>4, <2>1, <2>3, SourceStays
  <2> QED
    BY <2>2, <2>3 DEF IInv, ParamsInv
<1> QED
  BY <1>8, <1>9, <1>10, <1>11, <1>12, <1>13 DEF IInv

---------------------------------------------------------------------------
(* The end of the chain, and of the context.                               *)

LEMMA LoopEndsStep == IInv /\ LoopEnds => IInv'
<1> SUFFICES ASSUME IInv, LoopEnds PROVE IInv'
  OBVIOUS
<1> USE SequentialAssumption
<1>1. /\ i = N + 1 /\ pc = "replace" /\ pc' = "result"
      /\ UNCHANGED <<ctx, requestVars, i, r, parts, held, out, errCh, acc, owner, outcome, asked, got>>
  BY DEF LoopEnds, IInv, TypeOK
<1>2. TypeOK'
  BY <1>1 DEF IInv, TypeOK, requestVars
<1>3. ChanInv' /\ AccInv' /\ OwnerInv' /\ ParamsInv' /\ OutcomeInv'
  BY <1>1 DEF IInv, ChanInv, AccInv, OwnerInv, ParamsInv, OutcomeInv, requestVars
<1>4. ChainInv'
  BY <1>1 DEF IInv, ChainInv, Passed, Waiting, Backend
<1> QED
  BY <1>2, <1>3, <1>4 DEF IInv

LEMMA ReturnStep == IInv /\ Return => IInv'
<1> SUFFICES ASSUME IInv, Return PROVE IInv'
  OBVIOUS
<1>1. /\ pc = "result" /\ pc' = "returned" /\ ctx' \in {ctx, "canceled"}
      /\ outcome' = [resp |-> Result(acc).resp, errs |-> Result(acc).errs, plain |-> FALSE]
      /\ UNCHANGED <<requestVars, i, r, parts, held, out, errCh, acc, owner, asked, got>>
  BY DEF Return
<1>2. Result(acc).resp \in Response \cup {NilResponse} /\ Result(acc).errs \in Seq(ErrorKind)
  <2>1. Result(acc) \in Outcome
    BY ResultType DEF IInv, TypeOK
  <2> QED
    BY <2>1 DEF Outcome
<1>3. TypeOK'
  BY <1>1, <1>2 DEF IInv, TypeOK, requestVars
<1>4. ChanInv' /\ AccInv' /\ OwnerInv' /\ ParamsInv' /\ OutcomeInv'
  BY <1>1 DEF IInv, ChanInv, AccInv, OwnerInv, ParamsInv, OutcomeInv, requestVars
<1>5. ChainInv'
  BY <1>1 DEF IInv, ChainInv, Passed, Waiting
<1> QED
  BY <1>3, <1>4, <1>5 DEF IInv

LEMMA CtxDoneStep ==
  ASSUME IInv, NEW cause \in {"deadline", "canceled"}, CtxDone(cause)
  PROVE  IInv'
<1>1. TypeOK'
  BY DEF CtxDone, IInv, TypeOK, requestVars
<1>2. ChanInv' /\ ChainInv' /\ AccInv' /\ OwnerInv' /\ ParamsInv' /\ OutcomeInv'
  BY DEF CtxDone, IInv, ChanInv, ChainInv, Passed, Waiting, AccInv, OwnerInv, ParamsInv,
         OutcomeInv, requestVars
<1> QED
  BY <1>1, <1>2 DEF IInv

LEMMA StutterStep == IInv /\ UNCHANGED vars => IInv'
<1> SUFFICES ASSUME IInv, UNCHANGED vars PROVE IInv'
  OBVIOUS
<1>1. UNCHANGED <<ctx, repl, io, registry, params, pc, i, r, parts, held, out, errCh, acc, owner,
                  outcome, asked, got>>
  BY DEF vars, requestVars
<1>2. TypeOK'
  BY <1>1 DEF IInv, TypeOK
<1>3. ChanInv' /\ OwnerInv' /\ OutcomeInv'
  BY <1>1 DEF IInv, ChanInv, OwnerInv, OutcomeInv
<1>4. ParamsInv'
  BY <1>1 DEF IInv, ParamsInv
<1>5. ChainInv' /\ AccInv'
  BY <1>1 DEF IInv, ChainInv, Passed, Waiting, AccInv
<1> QED
  BY <1>2, <1>3, <1>4, <1>5 DEF IInv

\* The invariant is inductive.
LEMMA NextInv == IInv /\ [Next]_vars => IInv'
BY SubstituteStep, SkipStep, CallStep, FailuresStep, RespondStep, SendStep, FirstFailureStep,
   FailureStep, PartStep, LoopEndsStep, ReturnStep, CtxDoneStep, StutterStep
   DEF Next, Caller, Terminated

LEMMA Invariance == Spec => []IInv
BY InitInv, NextInv, PTL DEF Spec

---------------------------------------------------------------------------
(* The theorems.                                                           *)

\* Every variable of sequentialMerge (merging.go:312-438) keeps its type.
THEOREM TypeCorrect == Spec => []TypeOK
<1>1. IInv => TypeOK
  BY DEF IInv
<1> QED
  BY <1>1, Invariance, PTL

\* The response that is returned has the data of the accumulator.
LEMMA ReturnedData ==
  ASSUME IInv, pc = "returned", outcome.resp # NilResponse
  PROVE  /\ acc.data \in Response /\ acc.data # NilResponse /\ acc.errs \in Seq(ErrorKind)
         /\ outcome.resp = Result(acc).resp
         /\ outcome.resp.Data = acc.data.Data
         /\ KeysOf(outcome.resp) = KeysOf(acc.data)
<1>1. outcome.resp = Result(acc).resp
  BY DEF IInv, OutcomeInv
<1>2. acc \in Accumulator /\ acc.data # NilResponse
  BY <1>1 DEF IInv, TypeOK, Result
<1>3. acc.data \in Response /\ acc.errs \in Seq(ErrorKind)
  BY <1>2 DEF Accumulator
<1>4. Result(acc).resp \in {acc.data, Incomplete(acc.data)}
  BY <1>2 DEF Result
<1>5. outcome.resp.Data = acc.data.Data
  BY <1>1, <1>3, <1>4, IncompleteType
<1> QED
  BY <1>1, <1>2, <1>3, <1>5 DEF KeysOf

\* A filter costs nothing, and no stop of the chain (merging.go:417-431) goes
\* unnoticed, for any number of backends.
THEOREM CompleteMeansAllAnswered == Spec => []CompleteIffAllAnswered
<1> USE SequentialAssumption
<1>1. ASSUME IInv, pc = "returned", outcome.resp # NilResponse
      PROVE  outcome.resp.IsComplete
               <=> \A b \in Backend :
                     \/ b \notin asked /\ parts[b] # NilResponse
                     \/ /\ b \in Received /\ got[b].IsComplete
                        /\ got[b].Data # NilData \/ Received = {b}
  <2>1. /\ acc.data \in Response /\ acc.data # NilResponse
        /\ outcome.resp = Result(acc).resp
    BY <1>1, ReturnedData
  <2>2. Received = Rec(got)
    BY DEF Received, Rec
  <2>3. acc.errs = << >> => (acc.data.IsComplete <=> \A b \in Rec(got) : FullAnswer(got, b))
    BY <1>1, <2>1 DEF IInv, AccInv, Merged
  <2>4. CASE i = N + 1
    <3>1. acc.errs = << >> /\ acc.pending = 0
      BY <1>1, <2>4 DEF IInv, AccInv
    <3>2. outcome.resp = acc.data
      BY <2>1, <3>1 DEF Result
    <3>3. \A b \in Backend : Passed(b)
      BY <1>1, <2>4 DEF IInv, ChainInv, Backend
    <3>4. \A b \in Backend : b \in asked <=> b \in Rec(got)
      BY <3>3 DEF Passed, Rec
    <3>5. \A b \in Backend : parts[b] # NilResponse
      BY <3>3 DEF Passed
    <3>6. Rec(got) \subseteq Backend
      BY DEF Rec
    <3> QED
      BY <2>2, <2>3, <3>1, <3>2, <3>4, <3>5, <3>6 DEF FullAnswer
  <2>5. CASE i # N + 1
    <3>1. i \in Backend /\ i \in asked /\ (got[i] = NilResponse \/ ~got[i].IsComplete)
      BY <1>1, <2>5 DEF IInv, TypeOK, ChainInv, Backend
    <3>2. i \in Rec(got) \/ acc.errs # << >>
      BY <1>1, <2>1, <2>5, <3>1 DEF IInv, AccInv, Rec
    <3>3. i \in Rec(got) => ~FullAnswer(got, i)
      BY <3>1 DEF Rec, FullAnswer
    <3>4. ~outcome.resp.IsComplete
      <4>1. CASE acc.errs # << >>
        BY <2>1, <4>1, IncompleteType DEF Result
      <4>2. CASE acc.errs = << >>
        <5>1. ~acc.data.IsComplete
          BY <2>3, <3>2, <3>3, <4>2
        <5> QED
          BY <2>1, <5>1, IncompleteType DEF Result
      <4> QED
        BY <4>1, <4>2
    <3> QED
      BY <2>2, <3>1, <3>4 DEF Rec
  <2> QED
    BY <2>4, <2>5
<1>2. IInv => CompleteIffAllAnswered
  BY <1>1 DEF CompleteIffAllAnswered
<1> QED
  BY <1>2, Invariance, PTL

\* combineData (merging.go:591-615) is called in the order of the backends: the
\* last that returns a key wins it, and no key gets lost.
THEOREM LaterBackendsWin == Spec => []LastBackendWins
<1>1. ASSUME IInv, pc = "returned", outcome.resp # NilResponse
      PROVE  /\ KeysOf(outcome.resp) = UNION {KeysOf(got[b]) : b \in Received}
             /\ \A k \in KeysOf(outcome.resp) : \E b \in Received :
                  /\ k \in KeysOf(got[b])
                  /\ outcome.resp.Data[k] = got[b].Data[k]
                  /\ \A c \in Received : c > b => k \notin KeysOf(got[c])
  <2>1. /\ acc.data # NilResponse /\ outcome.resp.Data = acc.data.Data
        /\ KeysOf(outcome.resp) = KeysOf(acc.data)
    BY <1>1, ReturnedData
  <2>2. Received = Rec(got)
    BY DEF Received, Rec
  <2>3. /\ \A b \in Rec(got) : KeysOf(got[b]) \subseteq KeysOf(acc.data)
        /\ \A key \in KeysOf(acc.data) : LastOf(got, key, acc.data.Data[key])
    BY <1>1, <2>1 DEF IInv, AccInv, Merged
  <2>4. \A key \in KeysOf(acc.data) : \E b \in Rec(got) :
          /\ key \in KeysOf(got[b])
          /\ acc.data.Data[key] = got[b].Data[key]
          /\ \A c \in Rec(got) : c > b => key \notin KeysOf(got[c])
    BY <2>3 DEF LastOf
  <2>5. KeysOf(acc.data) = UNION {KeysOf(got[b]) : b \in Rec(got)}
    BY <2>3, <2>4
  <2> QED
    BY <2>1, <2>2, <2>4, <2>5
<1>2. IInv => LastBackendWins
  BY <1>1 DEF LastBackendWins
<1> QED
  BY <1>2, Invariance, PTL

\* Although parts[0] may be written into (merging.go:605), a parameter is never
\* from a backend before the one it names.
THEOREM ParamsFromNamedOrLater == Spec => []ParamsHaveASource
<1>1. IInv => ParamsHaveASource
  BY DEF IInv, ParamsInv, ParamsHaveASource, HasSource, Received, Rec
<1> QED
  BY <1>1, Invariance, PTL

\* The registry (merging.go:356-359) gives a parameter one value for all the
\* backends of a request.
THEOREM ParamsDoNotChange == Spec => ParamsStable
<1> DEFINE IsKept == \A d \in Destination :
                      params[d] \notin {Unset, Empty} => params'[d] = params[d]
<1>1. ASSUME IInv, [Next]_vars PROVE IsKept
  <2>1. ASSUME Substitute, NEW d \in Destination, params[d] \notin {Unset, Empty}
        PROVE  params'[d] = params[d]
    <3>1. /\ registry[d] = params[d] /\ params \in [Destination -> Value \cup {Unset}]
          /\ Replace(repl[i][r])
      BY <1>1, <2>1 DEF IInv, TypeOK, ParamsInv, Substitute
    <3>2. CASE repl[i][r] = d
      BY <2>1, <3>1, <3>2 DEF Replace, Known
    <3>3. CASE repl[i][r] # d
      BY <3>1, <3>3 DEF Replace, Provide, ReplaceFromBody, ReplaceFromData
    <3> QED
      BY <3>2, <3>3
  <2>2. ASSUME ~Substitute PROVE UNCHANGED params
    BY <1>1, <2>2 DEF Next, Caller, Terminated, vars, requestVars, Skip, Call, SendPart, GiveUp,
         SendFailure, ReceiveFirstFailure, ReceiveFailure, ReceivePart, LoopEnds, Return,
         NextFails, NextResponds, CtxDone, Fail
  <2> QED
    BY <2>1, <2>2
<1>2. Spec => [][IsKept]_vars
  BY <1>1, Invariance, PTL DEF Spec
<1> QED
  BY <1>2 DEF ParamsStable

---------------------------------------------------------------------------
(* Configurations.                                                         *)

\* A list of members of S is one of members of every larger set.
LEMMA LargerSeq ==
  ASSUME NEW S, NEW T, S \subseteq T, NEW u \in Seq(S)
  PROVE  u \in Seq(T)
<1>1. \A j \in 1..Len(u) : u[j] \in T
  OBVIOUS
<1> QED
  BY <1>1, IsASeq

\* What sequentialMergerConfig (merging.go:192-256) makes of a configuration
\* are lists: its loop over the propagated parameters only appends.
LEMMA ConfigType ==
  ASSUME NEW c \in Configs, NEW b \in Backend
  PROVE  c[b] \in Seq(Replacement)
<1>1. PICK e \in Endpoints : c = sequentialMergerConfig(e)
  BY DEF Configs
<1>2. e.urls[b] \in Seq(Replacement) /\ e.propagated \in Seq(Replacement)
  <2>1. e \in Endpoint
    BY SequentialAssumption
  <2>2. e.propagated \in Seq(Replacement)
    BY <2>1 DEF Endpoint
  <2>3. e.urls[b] \in Seq([backendIndex : Nat \ {0}, source : Key])
    BY <2>1 DEF Endpoint
  <2>4. [backendIndex : Nat \ {0}, source : Key] \subseteq Replacement
    BY DEF Replacement
  <2> QED
    BY <2>2, <2>3, <2>4, LargerSeq
<1> DEFINE s == e.propagated
           base == e.urls[b]
           n == Len(s)
           A == Seq(Replacement)
           G == [x \in A \X (1..n) |-> Propagate(x[1], s[x[2]])]
           It(h) == h = [t \in SUBSET DOMAIN s |->
                           IF t = {} THEN base
                           ELSE Propagate(h[t \ {Max(t)}], s[Max(t)])]
<1>3. n \in Nat /\ DOMAIN s = 1..n /\ base \in A
  BY <1>2
<1>4. ASSUME NEW a \in A, NEW j \in 1..n PROVE Propagate(a, s[j]) \in A
  BY <1>2 DEF Propagate
<1>5. G \in [A \X (1..n) -> A]
  BY <1>4
<1>6. \A a \in A, j \in 1..n : G[<<a, j>>] = Propagate(a, s[j])
  OBVIOUS
<1> HIDE DEF n, A, G, base
<1>7. PICK it : Folds(it, A, base, G, n)
  BY <1>3, <1>5, FoldExists
<1>8. It(it)
  <2>1. ASSUME NEW t \in SUBSET (1..n), t # {}
        PROVE  it[t] = Propagate(it[t \ {Max(t)}], s[Max(t)])
    <3>1. Max(t) \in t /\ Max(t) \in 1..n /\ \A y \in t : Max(t) >= y
      BY <1>3, <2>1, Greatest DEF Max
    <3>2. it[t] = G[<<it[t \ {Max(t)}], Max(t)>>] /\ it[t \ {Max(t)}] \in A
      BY <3>1, <1>7 DEF Folds
    <3> QED
      BY <3>1, <3>2, <1>6
  <2>2. it = [t \in SUBSET (1..n) |-> it[t]] /\ it[{}] = base
    BY <1>7 DEF Folds
  <2> QED
    BY <2>1, <2>2, <1>3
<1> DEFINE fold == CHOOSE h : It(h)
<1>9. It(fold)
  BY <1>8
<1>10. FoldLeft(Propagate, base, s) = fold[1..n]
  BY <1>3 DEF FoldLeft, MapThenFoldSet
<1> HIDE DEF fold
<1>11. fold[1..0] \in A
  BY <1>3, <1>9
<1>12. ASSUME NEW k \in 1..n, fold[1..(k - 1)] \in A
       PROVE  fold[1..k] \in A
  <2>1. 1..k \in SUBSET DOMAIN s /\ 1..k # {} /\ (1..k) \ {k} = 1..(k - 1)
    BY <1>3, Prefix
  <2>2. Max(1..k) = k
    BY <1>3, Prefix DEF Max
  <2>3. fold[1..k] = Propagate(fold[1..(k - 1)], s[k])
    BY <1>9, <2>1, <2>2
  <2> QED
    BY <1>4, <1>12, <2>3
<1>13. fold[1..n] \in A
  <2>1. \A k \in 0..n : fold[1..k] \in A
    BY <1>3, <1>11, <1>12, PrefixesIn
  <2> QED
    BY <1>3, <2>1
<1>14. c[b] \in {base, FoldLeft(Propagate, base, s)}
  BY <1>1 DEF sequentialMergerConfig, base
<1> QED
  BY <1>3, <1>10, <1>13, <1>14 DEF A

---------------------------------------------------------------------------
(* The parameters a backend finds when it is called.                       *)

Delivered(d) ==
  (/\ d.backendIndex < i /\ d.source # FullBody
   /\ d.backendIndex \in Received
   /\ d.source \in KeysOf(got[d.backendIndex])) => params[d] # Unset

\* The loop over the replacements has filled in those before index r.
DeliverInv ==
  /\ r \in Nat \ {0}
  /\ (pc = "replace" /\ i \in Backend /\ i > 1) =>
       \A j \in DOMAIN repl[i] : j < r => Delivered(repl[i][j])

\* The positions of a list of replacements (merging.go:333).
LEMMA Positions ==
  ASSUME IInv, NEW b \in Backend
  PROVE  /\ \A j \in DOMAIN repl[b] :
              /\ j \in Nat \ {0} /\ repl[b][j] \in Replacement
              /\ repl[b][j] \in Destination
         /\ \A k \in Nat \ {0} : k \notin DOMAIN repl[b] => \A j \in DOMAIN repl[b] : j < k
<1>1. repl \in Configs
  BY DEF IInv, TypeOK
<1>2. repl[b] \in Seq(Replacement)
  BY <1>1, ConfigType
<1>3. \A j \in DOMAIN repl[b] : repl[b][j] \in Destination
  <2>1. \A j \in DOMAIN repl[b] : repl[b][j] \in {repl[b][k] : k \in DOMAIN repl[b]}
    OBVIOUS
  <2> QED
    BY <1>1, <2>1 DEF Destination
<1>4. DOMAIN repl[b] = 1..Len(repl[b]) /\ Len(repl[b]) \in Nat
  BY <1>2
<1> QED
  BY <1>2, <1>3, <1>4

\* What a backend before i answered is in the map that is looked into.
LEMMA StillThere ==
  ASSUME IInv, i \in Backend, NEW d \in Replacement,
         d.backendIndex < i, d.backendIndex \in Received,
         d.source \in KeysOf(got[d.backendIndex])
  PROVE  /\ Available(d)
         /\ LiveData(d.backendIndex) # NilData
         /\ d.source \in DOMAIN LiveData(d.backendIndex)
<1> USE SequentialAssumption
<1> DEFINE n == d.backendIndex
<1>1. n \in Backend /\ i \in Int /\ n \in 1..(i - 1) /\ got[n] # NilResponse
  BY DEF Received, Backend
<1>2. parts[n] # NilResponse /\ parts[n] = got[n]
  BY <1>1 DEF IInv, ChainInv, Passed
<1>3. CASE n = owner
  <2>1. acc.data.Data # NilData /\ acc.data # NilResponse /\ LiveData(n) = acc.data.Data
    BY <1>1, <1>3 DEF IInv, OwnerInv, LiveData, Backend
  <2>2. KeysOf(got[n]) \subseteq KeysOf(acc.data)
    BY <1>1, <2>1 DEF IInv, AccInv, Merged, Rec
  <2> QED
    BY <1>1, <1>2, <2>1, <2>2 DEF Available, KeysOf
<1>4. CASE n # owner
  BY <1>1, <1>2, <1>4 DEF Available, LiveData, KeysOf
<1> QED
  BY <1>3, <1>4

\* An iteration fills in its replacement, if the value is there, and unsets none.
LEMMA SubstituteDelivers == IInv /\ DeliverInv /\ Substitute => DeliverInv'
<1> SUFFICES ASSUME IInv, DeliverInv, Substitute PROVE DeliverInv'
  OBVIOUS
<1> USE SequentialAssumption
<1>1. i \in Backend /\ pc = "replace" /\ i > 1 /\ r \in DOMAIN repl[i] /\ r' = r + 1
      /\ UNCHANGED <<pc, i, repl, got>>
  BY DEF Substitute, Replacing, IInv, TypeOK, Backend
<1>2. PICK d \in Replacement : d = repl[i][r] /\ d \in Destination
  BY <1>1, Positions
<1>3. /\ params \in [Destination -> Value \cup {Unset}]
      /\ registry \in [Destination -> Value]
      /\ io \in [Backend -> Value \cup {Unset}]
  BY DEF IInv, TypeOK
<1>4. Replace(d)
  BY <1>2 DEF Substitute
<1>6. Delivered(d)'
  <2> SUFFICES ASSUME d.backendIndex < i, d.source # FullBody, d.backendIndex \in Received,
                      d.source \in KeysOf(got[d.backendIndex])
               PROVE  params'[d] # Unset
    BY <1>1 DEF Delivered, Received
  <2>1. /\ Available(d) /\ LiveData(d.backendIndex) # NilData
        /\ d.source \in DOMAIN LiveData(d.backendIndex)
    BY <1>1, <1>2, StillThere
  <2>2. CASE Known(d)
    <3>1. params' = [params EXCEPT ![d] = registry[d]]
      BY <1>4, <2>1, <2>2 DEF Replace
    <3> QED
      BY <1>2, <1>3, <3>1
  <2>3. CASE ~Known(d)
    <3>1. params' = [params EXCEPT ![d] = LiveData(d.backendIndex)[d.source]]
      BY <1>4, <2>1, <2>3 DEF Replace, ReplaceFromData, Provide
    <3>2. LiveData(d.backendIndex)[d.source] \in Value
      BY <1>1, <1>2, <2>1, LiveDataSource
    <3> QED
      BY <1>2, <1>3, <3>1, <3>2
  <2> QED
    BY <2>2, <2>3
<1>7. ASSUME NEW c \in Destination, params[c] # Unset PROVE params'[c] # Unset
  <2>1. CASE UNCHANGED params
    BY <1>7, <2>1
  <2>2. CASE params' = [params EXCEPT ![d] = registry[d]]
    BY <1>2, <1>3, <1>7, <2>2
  <2>3. ASSUME NEW v \in Value, params' = [params EXCEPT ![d] = v]
        PROVE  params'[c] # Unset
    BY <1>2, <1>3, <1>7, <2>3
  <2>4. CASE ReplaceFromBody(d)
    <3>1. CASE UNCHANGED params
      BY <2>1, <3>1
    <3>2. CASE io[d.backendIndex] # Unset /\ Available(d) /\ Provide(d, io[d.backendIndex])
      <4>1. d.backendIndex \in Backend
        BY <1>1, <3>2 DEF Available, Backend
      <4> QED
        BY <1>3, <2>3, <3>2, <4>1 DEF Provide
    <3> QED
      BY <1>4, <2>2, <2>4, <3>1, <3>2 DEF Replace, ReplaceFromBody
  <2>5. CASE ReplaceFromData(d) /\ Available(d)
    <3>1. CASE UNCHANGED params
      BY <2>1, <3>1
    <3>2. CASE ~UNCHANGED params
      <4>1. /\ LiveData(d.backendIndex) # NilData
            /\ d.source \in DOMAIN LiveData(d.backendIndex)
            /\ params' = [params EXCEPT ![d] = LiveData(d.backendIndex)[d.source]]
        BY <2>5, <3>2 DEF ReplaceFromData, Provide
      <4>2. LiveData(d.backendIndex)[d.source] \in Value
        BY <1>1, <1>2, <2>5, <4>1, LiveDataSource
      <4> QED
        BY <2>3, <4>1, <4>2
    <3> QED
      BY <3>1, <3>2
  <2> QED
    BY <1>4, <2>1, <2>2, <2>4, <2>5 DEF Replace
<1>8. ASSUME NEW j \in DOMAIN repl[i], j < r + 1 PROVE Delivered(repl[i][j])'
  <2>1. j \in Nat /\ repl[i][j] \in Destination /\ r \in Nat
    BY <1>1, Positions DEF DeliverInv
  <2>2. CASE j = r
    BY <1>1, <1>2, <1>6, <2>2 DEF Delivered, Received
  <2>3. CASE j # r
    <3>1. Delivered(repl[i][j])
      BY <1>1, <1>8, <2>1, <2>3 DEF DeliverInv
    <3> QED
      BY <1>1, <1>7, <2>1, <3>1 DEF Delivered, Received
  <2> QED
    BY <2>2, <2>3
<1>9. r' \in Nat \ {0}
  BY <1>1 DEF DeliverInv
<1> QED
  BY <1>1, <1>8, <1>9 DEF DeliverInv

LEMMA DeliverStep == IInv /\ DeliverInv /\ [Next]_vars => DeliverInv'
<1> SUFFICES ASSUME IInv, DeliverInv, [Next]_vars PROVE DeliverInv'
  OBVIOUS
<1> USE SequentialAssumption
<1>1. ASSUME NextBackend, i \in Backend, repl' = repl PROVE DeliverInv'
  <2>1. r' = 1 /\ i' = i + 1 /\ IInv
    BY <1>1 DEF NextBackend
  <2>2. \A b \in Backend : \A j \in DOMAIN repl[b] : ~(j < 1)
    BY <2>1, Positions
  <2> QED
    BY <1>1, <2>1, <2>2 DEF DeliverInv
<1>2. ASSUME pc' # "replace", r' = r PROVE DeliverInv'
  BY <1>2 DEF DeliverInv
<1>3. ASSUME UNCHANGED <<pc, i, r, repl, params, got>> PROVE DeliverInv'
  BY <1>3 DEF DeliverInv, Delivered, Received
<1>4. CASE Substitute
  BY <1>4, SubstituteDelivers
<1>5. CASE Skip
  <2>1. i \in Backend
    BY <1>5 DEF Skip, ReplacementsDone, IInv, TypeOK, Backend
  <2> QED
    BY <1>1, <1>5, <2>1 DEF Skip, requestVars
<1>6. CASE ReceivePart
  <2>1. i \in Backend
    BY <1>6, Received1 DEF ReceivePart
  <2> QED
    BY <1>1, <1>2, <1>6, <2>1 DEF ReceivePart, requestVars
<1>7. CASE Call \/ SendPart \/ GiveUp \/ SendFailure \/ ReceiveFirstFailure \/ ReceiveFailure
           \/ LoopEnds \/ Return \/ NextFails \/ NextResponds
  BY <1>2, <1>7 DEF Call, SendPart, GiveUp, SendFailure, ReceiveFirstFailure, ReceiveFailure,
     LoopEnds, Return, NextFails, NextResponds, Fail
<1>8. CASE \E cause \in {"deadline", "canceled"} : CtxDone(cause)
  BY <1>3, <1>8 DEF CtxDone, requestVars
<1>9. CASE UNCHANGED vars
  BY <1>3, <1>9 DEF vars, requestVars
<1> QED
  BY <1>4, <1>5, <1>6, <1>7, <1>8, <1>9 DEF Next, Caller, Terminated

\* Before a backend is called (merging.go:330-388), the loop over its
\* replacements has put in every value that the named backend did return.
THEOREM ParamsAreDelivered == Spec => ParamsDelivered
<1> DEFINE Finds == \A b \in asked' \ asked : \A j \in DOMAIN repl[b] :
                      LET d == repl[b][j] IN
                        (/\ b > 1 /\ d.backendIndex < b /\ d.source # FullBody
                         /\ d.backendIndex \in Received
                         /\ d.source \in KeysOf(got[d.backendIndex]))
                           => params[d] # Unset
<1>1. Init => DeliverInv
  BY DEF Init, DeliverInv
<1>2. ASSUME IInv, DeliverInv, [Next]_vars PROVE Finds
  <2>1. CASE Call
    <3>1. /\ i \in Backend /\ pc = "replace" /\ asked' = asked \cup {i}
          /\ i = 1 \/ r \notin DOMAIN repl[i]
      BY <1>2, <2>1 DEF Call, ReplacementsDone, IInv, TypeOK, Backend
    <3>2. CASE i = 1
      BY <3>1, <3>2
    <3>3. CASE i # 1
      <4>1. i > 1 /\ \A j \in DOMAIN repl[i] : j < r
        BY <1>2, <3>1, <3>3, Positions, SequentialAssumption DEF DeliverInv, Backend
      <4>2. \A j \in DOMAIN repl[i] : Delivered(repl[i][j])
        BY <1>2, <3>1, <4>1 DEF DeliverInv
      <4> QED
        BY <3>1, <4>2 DEF Delivered
    <3> QED
      BY <3>2, <3>3
  <2>2. ASSUME ~Call PROVE asked' = asked
    BY <1>2, <2>2 DEF Next, Caller, Terminated, vars, requestVars, Substitute, Skip, SendPart, GiveUp,
         SendFailure, ReceiveFirstFailure, ReceiveFailure, ReceivePart, LoopEnds, Return,
         NextFails, NextResponds, CtxDone, Fail
  <2> QED
    BY <2>1, <2>2
<1>3. Spec => [][Finds]_vars
  BY <1>1, <1>2, DeliverStep, Invariance, PTL DEF Spec
<1> QED
  BY <1>3 DEF ParamsDelivered

----------------------------------------------------------------------------
(* The values of responses and of the lists' trees.                        *)

Leaves == {Scalar(v) : v \in {"1", "true", "nil"}}

\* The recursive function Nested is defined.
LEMMA NestedDef ==
  \A n \in 0..Depth : Nested[n] = Leaves \cup (IF n = 0 THEN {} ELSE ObjectsOf(Nested[n - 1]))
<1> DEFINE Is(f, m) == f = [n \in 0..m |-> Leaves \cup (IF n = 0 THEN {} ELSE ObjectsOf(f[n - 1]))]
           P == {m \in 0..Depth : \E f : Is(f, m)}
<1>1. 0 \in P
  <2>1. Is([n \in 0..0 |-> Leaves], 0)
    OBVIOUS
  <2>2. 0 \in 0..Depth
    BY DepthAssumption
  <2> HIDE DEF Is
  <2> QED
    BY <2>1, <2>2
<1>2. ASSUME NEW m \in 1..Depth, m - 1 \in P PROVE m \in P
  <2>1. PICK f : Is(f, m - 1)
    BY <1>2
  <2> DEFINE g == [n \in 0..m |-> IF n = m THEN Leaves \cup ObjectsOf(f[m - 1]) ELSE f[n]]
  <2>2. \A n \in 0..m : n # m => n \in 0..(m - 1)
    BY DepthAssumption
  <2>3. \A n \in 0..m : n # 0 => n - 1 \in 0..m /\ n - 1 # m
    BY DepthAssumption
  <2>4. m # 0 /\ m \in 0..Depth
    BY DepthAssumption
  <2>5. ASSUME NEW n \in 0..m
        PROVE  g[n] = Leaves \cup (IF n = 0 THEN {} ELSE ObjectsOf(g[n - 1]))
    <3>1. CASE n = m
      BY <3>1, <2>3, <2>4
    <3>2. CASE n # m
      <4>1. n \in 0..(m - 1) /\ g[n] = f[n] /\ (n # 0 => g[n - 1] = f[n - 1])
        BY <3>2, <2>2, <2>3
      <4> HIDE DEF g
      <4> QED
        BY <2>1, <4>1
    <3> QED
      BY <3>1, <3>2
  <2>6. Is(g, m)
    <3>1. g = [n \in 0..m |-> g[n]]
      OBVIOUS
    <3> HIDE DEF g
    <3> QED
      BY <2>5, <3>1
  <2> HIDE DEF Is
  <2> QED
    BY <2>4, <2>6
<1>3. Depth \in P
  <2> HIDE DEF P
  <2>1. \A m \in 0..Depth : m \in P
    BY <1>1, <1>2, DepthAssumption, ByPrefixes
  <2> QED
    BY <2>1, DepthAssumption
<1>4. Is(Nested, Depth)
  <2>1. Nested = CHOOSE f : Is(f, Depth)
    BY DEF Nested, Leaves
  <2>2. \E f : Is(f, Depth)
    BY <1>3
  <2> HIDE DEF Is
  <2> QED
    BY <2>1, <2>2
<1> QED
  BY <1>4

\* What is nested n deep is nested deeper, too.
LEMMA NestedGrows ==
  \A n \in 0..Depth : \A m \in 0..n : Nested[m] \subseteq Nested[n]
<1> DEFINE P == {n \in 0..Depth : n = Depth \/ Nested[n] \subseteq Nested[n + 1]}
           Q == {n \in 0..Depth : \A m \in 0..n : Nested[m] \subseteq Nested[n]}
<1>1. 0 \in P
  <2>1. 0 \in 0..Depth /\ 1 \in 0..Depth
    BY DepthAssumption
  <2> QED
    BY <2>1, NestedDef
<1>2. ASSUME NEW n \in 1..Depth, n - 1 \in P PROVE n \in P
  <2>1. CASE n = Depth
    BY <2>1, DepthAssumption
  <2>2. CASE n # Depth
    <3>1. n \in 0..Depth /\ n + 1 \in 0..Depth /\ n # 0 /\ n + 1 # 0 /\ (n + 1) - 1 = n
          /\ (n - 1) + 1 = n /\ n - 1 # Depth
      BY <2>2, DepthAssumption
    <3>2. Nested[n - 1] \subseteq Nested[n]
      BY <1>2, <3>1
    <3>3. ObjectsOf(Nested[n - 1]) \subseteq ObjectsOf(Nested[n])
      <4> SUFFICES ASSUME NEW ms \in SUBSET Member, NEW f \in [ms -> Nested[n - 1]]
                   PROVE  f \in [ms -> Nested[n]]
        BY DEF ObjectsOf
      <4> QED
        BY <3>2
    <3>4. /\ Nested[n] = Leaves \cup ObjectsOf(Nested[n - 1])
          /\ Nested[n + 1] = Leaves \cup ObjectsOf(Nested[n])
      BY <3>1, NestedDef
    <3> QED
      BY <3>1, <3>3, <3>4
  <2> QED
    BY <2>1, <2>2
<1>3. \A n \in 0..Depth : n \in P
  <2> HIDE DEF P
  <2> QED
    BY <1>1, <1>2, DepthAssumption, ByPrefixes
<1>4. 0 \in Q
  BY DepthAssumption
<1>5. ASSUME NEW n \in 1..Depth, n - 1 \in Q PROVE n \in Q
  <2>1. n - 1 \in P /\ n - 1 # Depth /\ (n - 1) + 1 = n /\ n \in 0..Depth
    BY <1>3, DepthAssumption
  <2>2. Nested[n - 1] \subseteq Nested[n]
    BY <2>1
  <2>3. \A m \in 0..n : m = n \/ m \in 0..(n - 1)
    BY DepthAssumption
  <2>4. \A m \in 0..(n - 1) : Nested[m] \subseteq Nested[n - 1]
    BY <1>5
  <2> QED
    BY <2>1, <2>2, <2>3, <2>4
<1>6. \A n \in 0..Depth : n \in Q
  <2> HIDE DEF Q
  <2> QED
    BY <1>4, <1>5, DepthAssumption, ByPrefixes
<1> QED
  BY <1>6

\* What follows for one value.
LEMMA NestedValue ==
  ASSUME NEW n \in 0..Depth, NEW v \in Nested[n]
  PROVE  /\ v # Missing /\ v.is # Missing.is /\ Missing.is # "object"
         /\ ~IsObject(v) => v \in Leaves /\ Keys(v) = {}
         /\ IsObject(v) => /\ n # 0 /\ v = Object(v.kids)
                           /\ Keys(v) \subseteq Member
                           /\ v.kids = [k \in Keys(v) |-> v.kids[k]]
                           /\ \A k \in Keys(v) : v.kids[k] \in Nested[n - 1]
<1>1. CASE v \in Leaves
  <2>1. PICK s \in {"1", "true", "nil"} : v = Scalar(s)
    BY <1>1 DEF Leaves
  <2>2. v.is = s /\ v.kids = << >>
    BY <2>1 DEF Scalar
  <2>3. DOMAIN << >> = {}
    OBVIOUS
  <2> QED
    BY <1>1, <2>2, <2>3 DEF Missing, Scalar, IsObject, Keys
<1>2. CASE v \notin Leaves
  <2>1. n # 0 /\ v \in ObjectsOf(Nested[n - 1])
    BY <1>2, NestedDef
  <2>2. PICK ms \in SUBSET Member : \E f \in [ms -> Nested[n - 1]] : v = [is |-> "object", kids |-> f]
    BY <2>1 DEF ObjectsOf
  <2>0. PICK f \in [ms -> Nested[n - 1]] : v = [is |-> "object", kids |-> f]
    BY <2>2
  <2>3. v.is = "object" /\ v.kids = f /\ DOMAIN f = ms
    BY <2>0
  <2> QED
    BY <2>1, <2>0, <2>3 DEF Missing, Scalar, IsObject, Keys, Object
<1> QED
  BY <1>1, <1>2

\* Objects with members that are nested less.
LEMMA NestedObject ==
  ASSUME NEW n \in 1..Depth, NEW ms \in SUBSET Member, NEW f \in [ms -> Nested[n - 1]]
  PROVE  /\ Object(f) \in Nested[n] /\ IsObject(Object(f)) /\ Object(f).kids = f
         /\ Keys(Object(f)) = ms
<1>1. n \in 0..Depth /\ n # 0
  BY DepthAssumption
<1>2. Object(f) \in ObjectsOf(Nested[n - 1])
  BY DEF Object, ObjectsOf
<1>3. Object(f).kids = f /\ Object(f).is = "object"
  BY DEF Object
<1> QED
  BY <1>1, <1>2, <1>3, NestedDef DEF IsObject, Keys

\* The empty object and the leaves are values at any depth.
LEMMA EmptyNested ==
  /\ \A n \in 1..Depth : EmptyObject \in Nested[n]
  /\ IsObject(EmptyObject) /\ Keys(EmptyObject) = {}
  /\ \A n \in 0..Depth : Leaves \subseteq Nested[n]
<1>1. << >> \in [{} -> {}] /\ DOMAIN << >> = {}
  OBVIOUS
<1>2. \A n \in 1..Depth : << >> \in [{} -> Nested[n - 1]]
  BY <1>1
<1>3. EmptyObject.is = "object" /\ EmptyObject.kids = << >>
  BY DEF EmptyObject, Object
<1> QED
  BY <1>1, <1>2, <1>3, NestedObject, NestedDef DEF EmptyObject, IsObject, Keys

\* An object without members is the empty object.
LEMMA EmptyIsNothing ==
  ASSUME NEW n \in 0..Depth, NEW v \in Nested[n], IsObject(v)
  PROVE  v = EmptyObject <=> Keys(v) = {}
<1>1. v = Object(v.kids) /\ v.kids = [k \in Keys(v) |-> v.kids[k]]
  BY NestedValue
<1>2. << >> = [k \in {} |-> v.kids[k]]
  OBVIOUS
<1> QED
  BY <1>1, <1>2, EmptyNested DEF EmptyObject

----------------------------------------------------------------------------
(* Walks down a value.                                                     *)

Reached == Tree \cup {Missing}

\* One step leads at most one level down.
LEMMA StepDown ==
  /\ \A v, k : ~IsObject(v) => At(v, k) = Missing
  /\ ~IsObject(Missing)
  /\ \A n \in 0..Depth : \A v \in Nested[n] : \A k :
       At(v, k) # Missing => n # 0 /\ IsObject(v) /\ k \in Keys(v) /\ At(v, k) \in Nested[n - 1]
  /\ \A n \in 0..Depth : \A v \in Nested[n] : \A k :
       IsObject(v) /\ k \in Keys(v) => At(v, k) = v.kids[k] /\ At(v, k) # Missing
  /\ \A n \in 0..Depth : Nested[n] \subseteq Reached
  /\ \A v \in Reached : \A k : At(v, k) \in Reached
<1>1. \A v, k : ~IsObject(v) => At(v, k) = Missing
  BY DEF At
<1>2. ~IsObject(Missing)
  BY DEF IsObject, Missing, Scalar
<1>3. \A n \in 0..Depth : Nested[n] \subseteq Tree
  BY NestedGrows, DepthAssumption DEF Tree
<1>4. ASSUME NEW n \in 0..Depth, NEW v \in Nested[n], NEW k
      PROVE  /\ At(v, k) # Missing => n # 0 /\ IsObject(v) /\ k \in Keys(v) /\ At(v, k) \in Nested[n - 1]
             /\ IsObject(v) /\ k \in Keys(v) => At(v, k) = v.kids[k] /\ At(v, k) # Missing
  <2>1. CASE IsObject(v) /\ k \in Keys(v)
    <3>1. At(v, k) = v.kids[k]
      BY <2>1 DEF At
    <3>2. n # 0 /\ v.kids[k] \in Nested[n - 1]
      BY <2>1, NestedValue
    <3>3. n - 1 \in 0..Depth
      BY <3>2, DepthAssumption
    <3>4. v.kids[k] # Missing
      BY <3>2, <3>3, NestedValue
    <3> QED
      BY <2>1, <3>1, <3>2, <3>4
  <2>2. CASE ~(IsObject(v) /\ k \in Keys(v))
    BY <2>2 DEF At
  <2> QED
    BY <2>1, <2>2
<1>5. ASSUME NEW v \in Reached, NEW k PROVE At(v, k) \in Reached
  <2>1. CASE v = Missing
    BY <2>1, <1>1, <1>2 DEF Reached
  <2>2. CASE v \in Nested[Depth]
    <3>1. Depth \in 0..Depth /\ Depth - 1 \in 0..Depth
      BY DepthAssumption
    <3> QED
      BY <2>2, <3>1, <1>3, <1>4 DEF Reached
  <2> QED
    BY <2>1, <2>2 DEF Reached, Tree
<1> QED
  BY <1>1, <1>2, <1>3, <1>4, <1>5 DEF Reached

WalksDown(f, v, s) ==
  /\ f[0] = v /\ Walk(v, s) = f[Len(s)]
  /\ \A k \in 0..Len(s) : f[k] \in Reached
  /\ \A k \in 1..Len(s) : f[k] = At(f[k - 1], s[k])

\* A walk is its steps.
LEMMA WalkSteps ==
  ASSUME NEW v \in Reached, NEW s \in Seq(Member)
  PROVE  \E f : WalksDown(f, v, s)
<1> DEFINE n == Len(s)
           G == [x \in Reached \X (1..n) |-> At(x[1], s[x[2]])]
           It(h) == h = [t \in SUBSET DOMAIN s |->
                           IF t = {} THEN v ELSE At(h[t \ {Max(t)}], s[Max(t)])]
<1>1. n \in Nat /\ DOMAIN s = 1..n
  OBVIOUS
<1>2. \A a \in Reached, j \in 1..n : At(a, s[j]) \in Reached
  BY StepDown
<1>3. G \in [Reached \X (1..n) -> Reached]
  BY <1>2
<1>4. \A a \in Reached, j \in 1..n : G[<<a, j>>] = At(a, s[j])
  OBVIOUS
<1> HIDE DEF n, G
<1>5. PICK it : Folds(it, Reached, v, G, n)
  BY <1>1, <1>3, FoldExists
<1>6. It(it)
  <2>1. ASSUME NEW t \in SUBSET (1..n), t # {}
        PROVE  it[t] = At(it[t \ {Max(t)}], s[Max(t)])
    <3>1. Max(t) \in t /\ Max(t) \in 1..n /\ \A y \in t : Max(t) >= y
      BY <1>1, <2>1, Greatest DEF Max
    <3>2. it[t] = G[<<it[t \ {Max(t)}], Max(t)>>] /\ it[t \ {Max(t)}] \in Reached
      BY <3>1, <1>5 DEF Folds
    <3> QED
      BY <3>1, <3>2, <1>4
  <2>2. it = [t \in SUBSET (1..n) |-> it[t]] /\ it[{}] = v
    BY <1>5 DEF Folds
  <2> QED
    BY <2>1, <2>2, <1>1
<1> DEFINE fold == CHOOSE h : It(h)
<1>7. It(fold)
  BY <1>6
<1>8. Walk(v, s) = fold[1..n]
  BY <1>1 DEF Walk, FoldLeft, MapThenFoldSet
<1> HIDE DEF fold
<1>9. fold[1..0] = v
  BY <1>1, <1>7
<1>10. ASSUME NEW k \in 1..n
       PROVE  fold[1..k] = At(fold[1..(k - 1)], s[k])
  <2>1. 1..k \in SUBSET DOMAIN s /\ 1..k # {} /\ (1..k) \ {k} = 1..(k - 1)
    BY <1>1, Prefix
  <2>2. Max(1..k) = k
    BY <1>1, Prefix DEF Max
  <2> QED
    BY <1>7, <2>1, <2>2
<1>11. \A k \in 0..n : fold[1..k] \in Reached
  <2>1. ASSUME NEW k \in 1..n, fold[1..(k - 1)] \in Reached PROVE fold[1..k] \in Reached
    BY <1>2, <1>10, <2>1
  <2> QED
    BY <1>1, <1>9, <2>1, PrefixesIn
<1> DEFINE f == [k \in 0..n |-> fold[1..k]]
<1>12. \A k \in 1..n : k \in 0..n /\ k - 1 \in 0..n
  BY <1>1
<1>13. 0 \in 0..n /\ n \in 0..n
  BY <1>1
<1>14. f[0] = v /\ Walk(v, s) = f[n] /\ (\A k \in 0..n : f[k] \in Reached)
  BY <1>8, <1>9, <1>11, <1>13
<1>15. \A k \in 1..n : f[k] = At(f[k - 1], s[k])
  BY <1>10, <1>12
<1> HIDE DEF f
<1> QED
  BY <1>14, <1>15 DEF n, WalksDown

\* Two walks from the same value along the same names.
Alike(f, g, s, n) ==
  /\ f[0] = g[0]
  /\ \A k \in 1..n : f[k] = At(f[k - 1], s[k]) /\ g[k] = At(g[k - 1], s[k])

\* Steps along the same names lead to the same value.
LEMMA SameSteps ==
  ASSUME NEW n \in Nat, NEW f, NEW g, NEW s, Alike(f, g, s, n)
  PROVE  f[n] = g[n]
<1> DEFINE P == {k \in 0..n : f[k] = g[k]}
<1>1. 0 \in P /\ \A k \in 1..n : k - 1 \in P => k \in P
  BY DEF Alike
<1> HIDE DEF P
<1>2. n \in P
  BY <1>1, ByPrefixes
<1> QED
  BY <1>2 DEF P

\* A walk along the empty path stays.
LEMMA WalkEmpty == \A v \in Reached : Walk(v, << >>) = v
<1> SUFFICES ASSUME NEW v \in Reached PROVE Walk(v, << >>) = v
  OBVIOUS
<1>1. << >> \in Seq(Member) /\ Len(<< >>) = 0
  OBVIOUS
<1>2. PICK f : WalksDown(f, v, << >>)
  BY <1>1, WalkSteps
<1> QED
  BY <1>1, <1>2 DEF WalksDown

\* A walk reaches a value or nothing.
LEMMA WalkType ==
  \A v \in Reached, s \in Seq(Member) : Walk(v, s) \in Reached
<1> SUFFICES ASSUME NEW v \in Reached, NEW s \in Seq(Member) PROVE Walk(v, s) \in Reached
  OBVIOUS
<1>1. PICK f : WalksDown(f, v, s)
  BY WalkSteps
<1>2. Len(s) \in 0..Len(s)
  OBVIOUS
<1> QED
  BY <1>1, <1>2 DEF WalksDown

\* A walk that goes one name further.
LEMMA WalkAppend ==
  \A v \in Reached, s \in Seq(Member), k \in Member :
     Walk(v, Append(s, k)) = At(Walk(v, s), k)
<1> SUFFICES ASSUME NEW v \in Reached, NEW s \in Seq(Member), NEW k \in Member
             PROVE  Walk(v, Append(s, k)) = At(Walk(v, s), k)
  OBVIOUS
<1> DEFINE t == Append(s, k)
           n == Len(s)
<1>1. /\ t \in Seq(Member) /\ Len(t) = n + 1 /\ n \in Nat /\ t[n + 1] = k
      /\ \A j \in 1..n : t[j] = s[j]
  OBVIOUS
<1>2. \A j \in 1..n : j \in 1..(n + 1)
  BY <1>1
<1>3. n + 1 \in 1..(n + 1) /\ (n + 1) - 1 = n
  BY <1>1
<1> HIDE DEF t, n
<1>4. PICK f : WalksDown(f, v, s)
  BY WalkSteps
<1>5. PICK g : WalksDown(g, v, t)
  BY <1>1, WalkSteps
<1>6. f[n] = g[n]
  <2>1. \A j \in 1..n : f[j] = At(f[j - 1], s[j])
    BY <1>4 DEF WalksDown, n
  <2>2. \A j \in 1..n : g[j] = At(g[j - 1], s[j])
    BY <1>1, <1>2, <1>5 DEF WalksDown
  <2>3. f[0] = g[0]
    BY <1>4, <1>5 DEF WalksDown
  <2>4. Alike(f, g, s, n)
    BY <2>1, <2>2, <2>3 DEF Alike
  <2> QED
    BY <1>1, <2>4, SameSteps
<1>7. g[n + 1] = At(g[n], k)
  BY <1>1, <1>3, <1>5 DEF WalksDown
<1> QED
  BY <1>1, <1>4, <1>5, <1>6, <1>7 DEF WalksDown, t, n

\* A walk along two paths is two walks.
LEMMA WalkConcat ==
  \A v \in Reached, s \in Seq(Member), t \in Seq(Member) :
     Walk(v, s \o t) = Walk(Walk(v, s), t)
<1> SUFFICES ASSUME NEW v \in Reached, NEW s \in Seq(Member), NEW t \in Seq(Member)
             PROVE  Walk(v, s \o t) = Walk(Walk(v, s), t)
  OBVIOUS
<1> DEFINE w == Walk(v, s)
           n == Len(t)
           Is(k) == Walk(v, s \o SubSeq(t, 1, k)) = Walk(w, SubSeq(t, 1, k))
           P == {k \in 0..n : Is(k)}
<1>1. w \in Reached /\ n \in Nat
  BY WalkType
<1>2. 0 \in P
  <2>1. SubSeq(t, 1, 0) = << >> /\ s \o << >> = s
    BY SubSeqEmpty, ConcatEmptySeq
  <2>2. Walk(w, << >>) = w
    BY <1>1, WalkEmpty
  <2>3. Is(0)
    BY <2>1, <2>2
  <2> HIDE DEF Is, n
  <2> QED
    BY <1>1, <2>3
<1>3. ASSUME NEW k \in 1..n, k - 1 \in P PROVE k \in P
  <2> DEFINE u == SubSeq(t, 1, k - 1)
  <2>1. u \in Seq(Member) /\ t[k] \in Member /\ k - 1 \in 0..n /\ k \in 0..n
    BY <1>1
  <2>2. SubSeq(t, 1, k) = Append(u, t[k])
    BY <1>1
  <2>3. s \o Append(u, t[k]) = Append(s \o u, t[k]) /\ s \o u \in Seq(Member)
    BY <2>1
  <2>4. Walk(v, s \o u) = Walk(w, u)
    BY <1>3
  <2> HIDE DEF u, w
  <2>5. Walk(v, Append(s \o u, t[k])) = At(Walk(v, s \o u), t[k])
    BY <2>1, <2>3, WalkAppend
  <2>6. Walk(w, Append(u, t[k])) = At(Walk(w, u), t[k])
    BY <1>1, <2>1, WalkAppend
  <2> QED
    BY <2>1, <2>2, <2>3, <2>4, <2>5, <2>6
<1>4. SubSeq(t, 1, n) = t
  OBVIOUS
<1> HIDE DEF P, n
<1>5. \A k \in 0..n : k \in P
  BY <1>1, <1>2, <1>3, ByPrefixes
<1>6. n \in P
  BY <1>1, <1>5
<1> QED
  BY <1>4, <1>6 DEF P

\* The first step of a walk, and the rest.
LEMMA WalkOn ==
  ASSUME NEW v \in Reached, NEW s \in Seq(Member), s # << >>
  PROVE  /\ Head(s) \in Member /\ Tail(s) \in Seq(Member) /\ s = <<Head(s)>> \o Tail(s)
         /\ At(v, Head(s)) \in Reached
         /\ Walk(v, s) = Walk(At(v, Head(s)), Tail(s))
<1>1. Head(s) \in Member /\ Tail(s) \in Seq(Member) /\ s = <<Head(s)>> \o Tail(s)
  OBVIOUS
<1>2. PICK k \in Member : k = Head(s)
  BY <1>1
<1>3. <<k>> = Append(<< >>, k) /\ << >> \in Seq(Member) /\ <<k>> \in Seq(Member)
  OBVIOUS
<1>4. Walk(v, <<k>>) = At(v, k)
  BY <1>3, WalkAppend, WalkEmpty
<1> QED
  <2>1. Walk(v, <<k>> \o Tail(s)) = Walk(Walk(v, <<k>>), Tail(s))
    BY <1>1, <1>3, WalkConcat
  <2>2. At(v, k) \in Reached
    BY StepDown
  <2> QED
    BY <1>1, <1>2, <1>4, <2>1, <2>2

\* There is nothing beyond what is no object.
LEMMA WalkNowhere ==
  ASSUME NEW v \in Reached, ~IsObject(v), NEW s \in Seq(Member), s # << >>
  PROVE  Walk(v, s) = Missing
<1> DEFINE n == Len(s)
<1>1. PICK f : WalksDown(f, v, s)
  BY WalkSteps
<1> DEFINE P == {k \in 0..n : k # 0 => f[k] = Missing}
<1>2. 0 \in P
  OBVIOUS
<1>3. ASSUME NEW k \in 1..n, k - 1 \in P PROVE k \in P
  <2>1. f[k] = At(f[k - 1], s[k]) /\ f[0] = v
    BY <1>1 DEF WalksDown
  <2>2. k - 1 = 0 \/ f[k - 1] = Missing
    BY <1>3
  <2>3. ~IsObject(f[k - 1])
    BY <2>1, <2>2, StepDown
  <2> QED
    BY <2>1, <2>3, StepDown
<1> HIDE DEF P
<1>4. n \in Nat /\ n # 0
  OBVIOUS
<1> HIDE DEF n
<1>5. n \in P
  <2>1. \A k \in 0..n : k \in P
    BY <1>2, <1>3, <1>4, ByPrefixes
  <2> QED
    BY <1>4, <2>1
<1> QED
  BY <1>1, <1>4, <1>5 DEF P, n, WalksDown

----------------------------------------------------------------------------
(* Paths.                                                                  *)

\* Paths are sequences of 1 to Depth names.
LEMMA PathIs ==
  \A s : s \in Path <=> s \in Seq(Member) /\ s # << >> /\ Len(s) \in 1..Depth
<1>1. ASSUME NEW s \in Path PROVE s \in Seq(Member) /\ s # << >> /\ Len(s) \in 1..Depth
  <2>1. PICK n \in 0..Depth : s \in [1..n -> Member]
    BY DEF Path, SeqOf
  <2>2. n \in Nat
    BY DepthAssumption
  <2>3. s \in Seq(Member) /\ Len(s) = n
    BY <2>1, <2>2
  <2>4. s # << >>
    BY DEF Path
  <2>5. n # 0
    BY <2>3, <2>4
  <2> QED
    BY <2>1, <2>2, <2>3, <2>4, <2>5, DepthAssumption
<1>2. ASSUME NEW s \in Seq(Member), s # << >>, Len(s) \in 1..Depth PROVE s \in Path
  <2>1. s \in [1..Len(s) -> Member] /\ Len(s) \in 0..Depth
    BY <1>2, DepthAssumption
  <2> QED
    BY <1>2, <2>1 DEF Path, SeqOf
<1> QED
  BY <1>1, <1>2

\* A prefix agrees with the path as far as it goes.
LEMMA PrefixAgrees ==
  ASSUME NEW s \in Seq(Member), NEW t \in Seq(Member)
  PROVE  IsPrefix(s, t) <=> Len(s) <= Len(t) /\ \A k \in 1..Len(s) : s[k] = t[k]
<1> DEFINE n == Len(s)
<1>1. n \in Nat /\ Len(t) \in Nat /\ SubSeq(s, 1, n) = s
  OBVIOUS
<1>2. CASE n <= Len(t)
  <2> DEFINE u == SubSeq(t, 1, n)
  <2>1. \A k \in 1..n : k \in 1..Len(t)
    BY <1>1, <1>2
  <2>2. u \in Seq(Member) /\ Len(u) = n /\ \A k \in 1..n : u[k] = t[k]
    <3>1. \A k \in 1..n : t[k] \in Member
      BY <2>1
    <3>2. (1 <= n => n - 1 + 1 = n) /\ (~(1 <= n) => n = 0) /\ \A k \in 1..n : 1 + k - 1 = k
      BY <1>1
    <3> QED
      BY <1>1, <1>2
  <2> HIDE DEF u
  <2>3. s = u <=> \A k \in 1..n : s[k] = u[k]
    <3>1. ASSUME \A k \in 1..n : s[k] = u[k] PROVE s = u
      BY <2>2, <3>1, SeqEqual
    <3> QED
      BY <3>1
  <2> QED
    BY <1>1, <1>2, <2>2, <2>3 DEF IsPrefix, u
<1>3. CASE ~(n <= Len(t))
  BY <1>3 DEF IsPrefix
<1> QED
  BY <1>2, <1>3

\* A prefix is followed by the rest of the path.
LEMMA PrefixRest ==
  ASSUME NEW s \in Seq(Member), NEW t \in Seq(Member), IsPrefix(s, t)
  PROVE  \E u \in Seq(Member) : t = s \o u /\ (u = << >> => s = t)
<1> DEFINE u == SubSeq(t, Len(s) + 1, Len(t))
<1>1. Len(s) <= Len(t) /\ Len(s) \in Nat /\ Len(t) \in Nat /\ SubSeq(s, 1, Len(s)) = s
  BY PrefixAgrees
<1>2. SubSeq(t, 1, Len(s)) = s
  BY <1>1 DEF IsPrefix
<1>3. SubSeq(t, 1, Len(s)) \o u = SubSeq(t, 1, Len(t)) /\ SubSeq(t, 1, Len(t)) = t
  <2>1. 1 \in 1..(Len(t) + 1) /\ Len(s) \in (1 - 1)..Len(t) /\ Len(t) \in Len(s)..Len(t)
    BY <1>1
  <2>2. SubSeq(t, 1, Len(t)) = t
    OBVIOUS
  <2> QED
    BY <2>1, <2>2, ConcatAdjacentSubSeq
<1>4. u \in Seq(Member)
  <2>1. \A k \in (Len(s) + 1)..Len(t) : t[k] \in Member
    BY <1>1
  <2> QED
    BY <1>1, <2>1, SubSeqProperties
<1>5. t = s \o u
  BY <1>2, <1>3
<1> HIDE DEF u
<1> QED
  BY <1>4, <1>5, ConcatEmptySeq

\* The empty path, and that IsPrefix is an order.
LEMMA PrefixEnds ==
  /\ \A t \in Seq(Member) : IsPrefix(<< >>, t) /\ IsPrefix(t, t)
  /\ \A s \in Seq(Member) : IsPrefix(s, << >>) => s = << >>
  /\ \A s \in Seq(Member), t \in Seq(Member), u \in Seq(Member) :
       IsPrefix(s, t) /\ IsPrefix(t, u) => IsPrefix(s, u)
  /\ \A s \in Seq(Member), t \in Seq(Member) : IsPrefix(s, t) /\ IsPrefix(t, s) => s = t
<1>1. << >> \in Seq(Member) /\ Len(<< >>) = 0
  OBVIOUS
<1>2. ASSUME NEW t \in Seq(Member) PROVE IsPrefix(<< >>, t) /\ IsPrefix(t, t)
  <2>1. Len(t) \in Nat
    OBVIOUS
  <2>2. 0 <= Len(t) /\ Len(t) <= Len(t) /\ \A k \in 1..0 : FALSE
    BY <2>1
  <2>3. IsPrefix(t, t)
    BY <2>2, PrefixAgrees
  <2>4. PICK z \in Seq(Member) : z = << >> /\ Len(z) = 0
    BY <1>1
  <2>5. IsPrefix(z, t)
    BY <2>2, <2>4, PrefixAgrees
  <2> QED
    BY <2>3, <2>4, <2>5
<1>3. ASSUME NEW s \in Seq(Member), IsPrefix(s, << >>) PROVE s = << >>
  <2>1. PICK z \in Seq(Member) : z = << >> /\ Len(z) = 0
    BY <1>1
  <2>2. IsPrefix(s, z)
    BY <1>3, <2>1
  <2>3. Len(s) \in Nat /\ Len(s) <= 0
    <3>1. Len(s) <= Len(z)
      BY <2>2, PrefixAgrees
    <3> QED
      BY <2>1, <3>1
  <2> QED
    BY <2>3, EmptySeq
<1>4. ASSUME NEW s \in Seq(Member), NEW t \in Seq(Member), NEW u \in Seq(Member),
             IsPrefix(s, t), IsPrefix(t, u)
      PROVE  IsPrefix(s, u)
  <2>1. Len(s) \in Nat /\ Len(t) \in Nat /\ Len(u) \in Nat
    OBVIOUS
  <2>2. Len(s) <= Len(t) /\ Len(t) <= Len(u)
    BY <1>4, PrefixAgrees
  <2>3. \A k \in 1..Len(s) : k \in 1..Len(t)
    BY <2>1, <2>2
  <2>4. \A k \in 1..Len(s) : s[k] = t[k] /\ t[k] = u[k]
    BY <1>4, <2>3, PrefixAgrees
  <2>5. Len(s) <= Len(u)
    BY <2>1, <2>2
  <2> QED
    BY <2>4, <2>5, PrefixAgrees
<1>5. ASSUME NEW s \in Seq(Member), NEW t \in Seq(Member), IsPrefix(s, t), IsPrefix(t, s)
      PROVE  s = t
  <2>1. Len(s) <= Len(t) /\ Len(t) <= Len(s) /\ Len(s) \in Nat /\ Len(t) \in Nat
    BY <1>5, PrefixAgrees
  <2>2. Len(s) = Len(t)
    BY <2>1
  <2>3. \A k \in 1..Len(s) : s[k] = t[k]
    BY <1>5, PrefixAgrees
  <2> QED
    BY <2>2, <2>3, SeqEqual
<1> QED
  BY <1>2, <1>3, <1>4, <1>5

\* A path with a name before it.
LEMMA Longer ==
  ASSUME NEW k \in Member, NEW q \in Seq(Member)
  PROVE  /\ <<k>> \o q \in Seq(Member) /\ <<k>> \o q # << >>
         /\ Head(<<k>> \o q) = k /\ Tail(<<k>> \o q) = q
<1>1. <<k>> \in Seq(Member) /\ Len(<<k>>) = 1 /\ Len(q) \in Nat
  OBVIOUS
<1> DEFINE s == <<k>> \o q
<1>2. s \in Seq(Member) /\ Len(s) = 1 + Len(q)
      /\ \A j \in 1..(1 + Len(q)) : s[j] = IF j <= 1 THEN <<k>>[j] ELSE q[j - 1]
  BY <1>1, ConcatProperties
<1>3. s # << >> /\ s[1] = k
  <2>1. 1 \in 1..(1 + Len(q)) /\ 1 + Len(q) # 0
    BY <1>1
  <2> HIDE DEF s
  <2> QED
    BY <1>2, <2>1
<1>4. Tail(s) \in Seq(Member) /\ Len(Tail(s)) = Len(q) /\ \A j \in 1..Len(q) : Tail(s)[j] = s[j + 1]
  <2> HIDE DEF s
  <2>1. Len(s) - 1 = Len(q)
    BY <1>1, <1>2
  <2> QED
    BY <1>2, <1>3, <2>1, HeadTailProperties
<1>5. \A j \in 1..Len(q) : s[j + 1] = q[j]
  <2> HIDE DEF s
  <2>1. \A j \in 1..Len(q) : j + 1 \in 1..(1 + Len(q)) /\ ~(j + 1 <= 1) /\ (j + 1) - 1 = j
    BY <1>1
  <2> QED
    BY <1>2, <2>1
<1> HIDE DEF s
<1>6. Tail(s) = q
  BY <1>4, <1>5, SeqEqual
<1> QED
  BY <1>2, <1>3, <1>6 DEF s

\* Paths are comparable if they begin alike and go on comparably.
LEMMA PrefixOn ==
  ASSUME NEW s \in Seq(Member), s # << >>, NEW t \in Seq(Member), t # << >>
  PROVE  IsPrefix(s, t) <=> Head(s) = Head(t) /\ IsPrefix(Tail(s), Tail(t))
<1>1. /\ Len(s) \in Nat \ {0} /\ Len(t) \in Nat \ {0}
      /\ Tail(s) \in Seq(Member) /\ Tail(t) \in Seq(Member)
      /\ Len(Tail(s)) = Len(s) - 1 /\ Len(Tail(t)) = Len(t) - 1
      /\ Head(s) = s[1] /\ Head(t) = t[1]
  OBVIOUS
<1>2. /\ \A k \in 1..(Len(s) - 1) : Tail(s)[k] = s[k + 1]
      /\ \A k \in 1..(Len(t) - 1) : Tail(t)[k] = t[k + 1]
  BY <1>1, HeadTailProperties
<1>3. ASSUME IsPrefix(s, t) PROVE Head(s) = Head(t) /\ IsPrefix(Tail(s), Tail(t))
  <2>1. Len(s) <= Len(t) /\ \A k \in 1..Len(s) : s[k] = t[k]
    BY <1>3, PrefixAgrees
  <2>2. /\ 1 \in 1..Len(s) /\ Len(Tail(s)) <= Len(Tail(t))
        /\ \A k \in 1..(Len(s) - 1) : k + 1 \in 1..Len(s) /\ k \in 1..(Len(t) - 1)
    BY <1>1, <2>1
  <2>3. \A k \in 1..(Len(s) - 1) : Tail(s)[k] = Tail(t)[k]
    BY <1>2, <2>1, <2>2
  <2> QED
    BY <1>1, <2>1, <2>2, <2>3, PrefixAgrees
<1>4. ASSUME Head(s) = Head(t), IsPrefix(Tail(s), Tail(t)) PROVE IsPrefix(s, t)
  <2>1. Len(s) - 1 <= Len(t) - 1 /\ \A k \in 1..(Len(s) - 1) : Tail(s)[k] = Tail(t)[k]
    <3>1. PICK a \in Seq(Member), b \in Seq(Member) : a = Tail(s) /\ b = Tail(t)
      BY <1>1
    <3>2. Len(a) <= Len(b) /\ \A k \in 1..Len(a) : a[k] = b[k]
      BY <1>4, <3>1, PrefixAgrees
    <3> QED
      BY <1>1, <3>1, <3>2
  <2>2. Len(s) <= Len(t)
    BY <1>1, <2>1
  <2>3. ASSUME NEW k \in 1..Len(s) PROVE s[k] = t[k]
    <3>1. CASE k = 1
      BY <1>1, <1>4, <3>1
    <3>2. CASE k # 1
      <4>1. k - 1 \in 1..(Len(s) - 1) /\ k - 1 \in 1..(Len(t) - 1) /\ (k - 1) + 1 = k
        BY <1>1, <2>2, <3>2
      <4> QED
        BY <1>2, <2>1, <4>1
    <3> QED
      BY <3>1, <3>2
  <2> QED
    BY <2>2, <2>3, PrefixAgrees
<1> QED
  BY <1>3, <1>4

\* Where two paths part that are not comparable.
LEMMA Part ==
  ASSUME NEW s \in Seq(Member), NEW t \in Seq(Member), ~Comparable(s, t)
  PROVE  \E m \in 1..Len(s) : /\ m \in 1..Len(t) /\ s[m] # t[m]
                              /\ \A k \in 1..(m - 1) : s[k] = t[k]
<1> DEFINE Bad == {k \in 1..Len(s) : k \in 1..Len(t) /\ s[k] # t[k]}
<1>1. Len(s) \in Nat /\ Len(t) \in Nat
  OBVIOUS
<1>2. Bad # {}
  <2> SUFFICES ASSUME Bad = {} PROVE FALSE
    OBVIOUS
  <2>1. CASE Len(s) <= Len(t)
    <3>1. \A k \in 1..Len(s) : k \in 1..Len(t)
      BY <1>1, <2>1
    <3> QED
      BY <2>1, <3>1, PrefixAgrees DEF Comparable
  <2>2. CASE ~(Len(s) <= Len(t))
    <3>1. Len(t) <= Len(s) /\ \A k \in 1..Len(t) : k \in 1..Len(s)
      BY <1>1, <2>2
    <3> QED
      BY <3>1, PrefixAgrees DEF Comparable
  <2> QED
    BY <2>1, <2>2
<1>3. Bad \subseteq Nat
  OBVIOUS
<1>4. PICK m \in Bad : \A x \in Bad : ~(<<x, m>> \in OpToRel(<, Nat))
  BY <1>2, <1>3, NatLessThanWellFounded, WFMin
<1>5. \A x \in Bad : ~(x < m)
  BY <1>3, <1>4 DEF OpToRel
<1>6. \A k \in 1..(m - 1) : k \in 1..Len(s) /\ k \in 1..Len(t) /\ k < m
  BY <1>1
<1> QED
  BY <1>5, <1>6

----------------------------------------------------------------------------
(* A tree with one more branch.                                            *)

Upward(h, n, leaf, obj, key) ==
  h = [k \in 1..(n + 1) |-> IF k > n THEN leaf ELSE Put(obj[k], key[k], h[k + 1])]

\* The recursive function in Branch is defined.
LEMMA UpwardExists ==
  ASSUME NEW n \in Nat, NEW leaf, NEW obj, NEW key
  PROVE  \E h : Upward(h, n, leaf, obj, key)
<1> DEFINE Is(h, m) == h = [k \in (n + 1 - m)..(n + 1) |->
                              IF k > n THEN leaf ELSE Put(obj[k], key[k], h[k + 1])]
           P == {m \in 0..n : \E h : Is(h, m)}
<1>1. 0 \in P
  <2>1. \A k \in (n + 1 - 0)..(n + 1) : k > n
    OBVIOUS
  <2>2. Is([k \in (n + 1 - 0)..(n + 1) |-> leaf], 0)
    BY <2>1
  <2> HIDE DEF Is
  <2> QED
    BY <2>2
<1>2. ASSUME NEW m \in 1..n, m - 1 \in P PROVE m \in P
  <2>1. PICK h : Is(h, m - 1)
    BY <1>2
  <2> DEFINE x == n + 1 - m
             g == [k \in x..(n + 1) |->
                     IF k = x THEN Put(obj[x], key[x], h[x + 1]) ELSE h[k]]
  <2>2. x \in 1..n /\ n + 1 - (m - 1) = x + 1
    OBVIOUS
  <2>3. \A k \in x..(n + 1) : k # x => k \in (x + 1)..(n + 1)
    BY <2>2
  <2>4. \A k \in x..(n + 1) : ~(k > n) => k + 1 \in x..(n + 1) /\ k + 1 # x
    BY <2>2
  <2> HIDE DEF x
  <2>5. h = [k \in (x + 1)..(n + 1) |->
               IF k > n THEN leaf ELSE Put(obj[k], key[k], h[k + 1])]
    BY <2>1, <2>2
  <2>6. ASSUME NEW k \in x..(n + 1)
        PROVE  g[k] = IF k > n THEN leaf ELSE Put(obj[k], key[k], g[k + 1])
    <3>1. ~(k > n) => g[k + 1] = h[k + 1]
      BY <2>4
    <3>2. CASE k = x
      <4>1. g[k] = Put(obj[k], key[k], h[k + 1]) /\ ~(k > n)
        BY <2>2, <3>2
      <4> HIDE DEF g
      <4> QED
        BY <3>1, <4>1
    <3>3. CASE k # x
      <4>1. g[k] = h[k] /\ k \in (x + 1)..(n + 1)
        BY <2>3, <3>3
      <4> HIDE DEF g
      <4>2. h[k] = IF k > n THEN leaf ELSE Put(obj[k], key[k], h[k + 1])
        BY <2>5, <4>1
      <4> QED
        BY <3>1, <4>1, <4>2
    <3> QED
      BY <3>2, <3>3
  <2>7. g = [k \in x..(n + 1) |-> IF k > n THEN leaf ELSE Put(obj[k], key[k], g[k + 1])]
    <3>1. g = [k \in x..(n + 1) |-> g[k]]
      OBVIOUS
    <3> HIDE DEF g
    <3> QED
      BY <2>6, <3>1
  <2>8. Is(g, m)
    BY <2>7 DEF x
  <2> HIDE DEF Is
  <2> QED
    BY <2>8
<1>3. n \in P
  <2> HIDE DEF P
  <2>1. \A k \in 0..n : k \in P
    BY <1>1, <1>2, ByPrefixes
  <2> QED
    BY <2>1
<1>4. PICK h : Is(h, n)
  BY <1>3
<1>5. n + 1 - n = 1
  OBVIOUS
<1> QED
  BY <1>4, <1>5 DEF Upward

Upto(path, k) == SubSeq(path, 1, k)
On(tree, path, k) == ObjectOr(Walk(tree, Upto(path, k)), EmptyObject)

\* What stands at each place of a new branch.
Grows(f, tree, path, leaf) ==
  /\ f[Len(path) + 1] = leaf
  /\ \A k \in 1..Len(path) : f[k] = Put(On(tree, path, k - 1), path[k], f[k + 1])

\* Branch is such a function at its root.
LEMMA BranchGrows ==
  ASSUME NEW tree, NEW path \in Seq(Member), NEW leaf
  PROVE  \E f : Grows(f, tree, path, leaf) /\ Branch(tree, path, leaf) = f[1]
<1> DEFINE n == Len(path)
           Is(h) == h = [k \in 1..n + 1 |->
                          IF k > n THEN leaf
                          ELSE Put(ObjectOr(Walk(tree, SubSeq(path, 1, k - 1)), EmptyObject),
                                   path[k], h[k + 1])]
           f == CHOOSE h : Is(h)
<1>1. n \in Nat
  OBVIOUS
<1>2. Branch(tree, path, leaf) = f[1]
  BY DEF Branch
<1>3. \E h : Is(h)
  <2> DEFINE obj == [k \in 1..n |-> On(tree, path, k - 1)]
  <2>1. \A k \in 1..(n + 1) : ~(k > n) =>
          obj[k] = ObjectOr(Walk(tree, SubSeq(path, 1, k - 1)), EmptyObject)
    BY <1>1 DEF On, Upto
  <2> HIDE DEF n, obj
  <2>2. PICK h : Upward(h, n, leaf, obj, path)
    BY <1>1, UpwardExists
  <2>3. Is(h)
    BY <2>1, <2>2 DEF Upward
  <2> HIDE DEF Is
  <2> QED
    BY <2>3
<1>4. Is(f)
  <2> HIDE DEF Is
  <2> QED
    BY <1>3
<1> HIDE DEF f
<1>5. \A k \in 1..n : k \in 1..(n + 1) /\ ~(k > n)
  BY <1>1
<1>6. n + 1 \in 1..(n + 1) /\ n + 1 > n
  BY <1>1
<1>7. f[n + 1] = leaf
  BY <1>4, <1>6
<1>8. \A k \in 1..n : f[k] = Put(On(tree, path, k - 1), path[k], f[k + 1])
  BY <1>4, <1>5 DEF On, Upto
<1> QED
  BY <1>2, <1>7, <1>8 DEF Grows

\* The beginnings of a path.
LEMMA UptoIs ==
  ASSUME NEW s \in Seq(Member)
  PROVE  /\ Upto(s, 0) = << >> /\ Upto(s, Len(s)) = s
         /\ \A k \in 0..Len(s) : Upto(s, k) \in Seq(Member)
         /\ \A k \in 1..Len(s) : Upto(s, k) = Append(Upto(s, k - 1), s[k]) /\ s[k] \in Member
         /\ \A k \in 0..Len(s) : \E t \in Seq(Member) : s = Upto(s, k) \o t
         /\ \A q \in Seq(Member) : IsPrefix(q, s) => q = Upto(s, Len(q)) /\ Len(q) \in 0..Len(s)
<1>1. Len(s) \in Nat
  OBVIOUS
<1>2. Upto(s, 0) = << >> /\ Upto(s, Len(s)) = s
  BY SubSeqEmpty DEF Upto
<1>3. ASSUME NEW k \in 0..Len(s) PROVE Upto(s, k) \in Seq(Member)
  BY DEF Upto
<1>4. ASSUME NEW k \in 1..Len(s) PROVE Upto(s, k) = Append(Upto(s, k - 1), s[k]) /\ s[k] \in Member
  BY DEF Upto
<1>5. ASSUME NEW k \in 0..Len(s) PROVE \E t \in Seq(Member) : s = Upto(s, k) \o t
  <2> DEFINE t == SubSeq(s, k + 1, Len(s))
  <2>1. t \in Seq(Member)
    <3>1. \A j \in (k + 1)..Len(s) : s[j] \in Member
      BY <1>1
    <3> QED
      BY <1>1, <3>1, SubSeqProperties
  <2>2. Upto(s, k) \o t = s
    <3>1. 1 \in 1..(Len(s) + 1) /\ k \in (1 - 1)..Len(s) /\ Len(s) \in k..Len(s)
      BY <1>1
    <3>2. SubSeq(s, 1, Len(s)) = s
      OBVIOUS
    <3> QED
      BY <3>1, <3>2, ConcatAdjacentSubSeq DEF Upto
  <2> HIDE DEF t
  <2> QED
    BY <2>1, <2>2
<1>6. ASSUME NEW q \in Seq(Member), IsPrefix(q, s)
      PROVE  q = Upto(s, Len(q)) /\ Len(q) \in 0..Len(s)
  <2>1. Len(q) <= Len(s) /\ Len(q) \in Nat
    BY <1>6, PrefixAgrees
  <2>2. SubSeq(q, 1, Len(q)) = q
    OBVIOUS
  <2> QED
    BY <1>1, <1>6, <2>1, <2>2 DEF IsPrefix, Upto
<1> QED
  BY <1>2, <1>3, <1>4, <1>5, <1>6

\* A walk goes from one beginning of the path to the next.
LEMMA WalkUpto ==
  ASSUME NEW v \in Reached, NEW s \in Seq(Member)
  PROVE  /\ Walk(v, Upto(s, 0)) = v
         /\ \A k \in 1..Len(s) : Walk(v, Upto(s, k)) = At(Walk(v, Upto(s, k - 1)), s[k])
<1>1. \A k \in 1..Len(s) : k - 1 \in 0..Len(s)
  OBVIOUS
<1> QED
  <2>1. Walk(v, Upto(s, 0)) = v
    BY UptoIs, WalkEmpty
  <2>2. ASSUME NEW k \in 1..Len(s)
        PROVE  Walk(v, Upto(s, k)) = At(Walk(v, Upto(s, k - 1)), s[k])
    <3>1. PICK q \in Seq(Member), e \in Member : q = Upto(s, k - 1) /\ e = s[k]
      BY <1>1, UptoIs
    <3>2. Upto(s, k) = Append(q, e)
      BY <3>1, UptoIs
    <3>3. Walk(v, Append(q, e)) = At(Walk(v, q), e)
      BY WalkAppend
    <3> QED
      BY <3>1, <3>2, <3>3
  <2> QED
    BY <2>1, <2>2

\* Each step of a walk leads one level down.
LEMMA WalkLevel ==
  ASSUME NEW v \in Tree, NEW s \in Seq(Member), Len(s) <= Depth
  PROVE  \A k \in 0..Len(s) : /\ Depth - k \in 0..Depth
                              /\ Walk(v, Upto(s, k)) \in Nested[Depth - k] \cup {Missing}
<1> DEFINE Is(k) == Walk(v, Upto(s, k)) \in Nested[Depth - k] \cup {Missing}
           P == {k \in 0..Len(s) : Is(k)}
<1>1. v \in Reached
  BY DEF Reached
<1>2. Len(s) \in Nat /\ \A k \in 0..Len(s) : Depth - k \in 0..Depth
  BY DepthAssumption
<1>3. 0 \in P
  <2>1. Depth - 0 = Depth
    BY DepthAssumption
  <2>2. Is(0)
    BY <1>1, <2>1, WalkUpto DEF Tree
  <2> HIDE DEF Is
  <2> QED
    BY <1>2, <2>2
<1>4. ASSUME NEW k \in 1..Len(s), k - 1 \in P PROVE k \in P
  <2> DEFINE w == Walk(v, Upto(s, k - 1))
             d == Depth - (k - 1)
  <2>1. w \in Nested[d] \cup {Missing}
    BY <1>4
  <2>2. d \in 0..Depth /\ d - 1 = Depth - k /\ k \in 0..Len(s)
    BY <1>2, DepthAssumption
  <2>3. Walk(v, Upto(s, k)) = At(w, s[k])
    BY <1>1, WalkUpto
  <2> HIDE DEF w, d
  <2>4. At(w, s[k]) \in Nested[d - 1] \cup {Missing}
    BY <2>1, <2>2, StepDown
  <2>5. Is(k)
    BY <2>2, <2>3, <2>4
  <2> HIDE DEF Is
  <2> QED
    BY <2>2, <2>5
<1> HIDE DEF Is
<1>5. \A k \in 0..Len(s) : k \in P
  <2> HIDE DEF P
  <2> QED
    BY <1>2, <1>3, <1>4, ByPrefixes
<1> QED
  BY <1>2, <1>5 DEF Is

\* An object with one more member.
LEMMA PutMember ==
  ASSUME NEW n \in 1..Depth, NEW o \in Nested[n], IsObject(o),
         NEW key \in Member, NEW kid \in Nested[n - 1]
  PROVE  /\ Put(o, key, kid) \in Nested[n] /\ IsObject(Put(o, key, kid))
         /\ \A x : At(Put(o, key, kid), x) = IF x = key THEN kid ELSE At(o, x)
<1> DEFINE ms == Keys(o) \cup {key}
           f == [k \in ms |-> IF k = key THEN kid ELSE o.kids[k]]
<1>1. n \in 0..Depth /\ n - 1 \in 0..Depth
  BY DepthAssumption
<1>2. /\ Keys(o) \subseteq Member /\ o.kids = [k \in Keys(o) |-> o.kids[k]]
      /\ \A k \in Keys(o) : o.kids[k] \in Nested[n - 1]
  BY <1>1, NestedValue
<1>3. f = [k \in ms |-> IF k = key THEN kid ELSE o.kids[k]] /\ DOMAIN f = ms
  OBVIOUS
<1>4. f \in [ms -> Nested[n - 1]] /\ ms \in SUBSET Member
  <2>1. \A k \in ms : (IF k = key THEN kid ELSE o.kids[k]) \in Nested[n - 1]
    BY <1>2
  <2> QED
    BY <1>2, <1>3, <2>1
<1>5. Put(o, key, kid) = Object(f)
  BY DEF Put
<1> HIDE DEF f, ms
<1>6. /\ Object(f) \in Nested[n] /\ IsObject(Object(f)) /\ Object(f).kids = f
      /\ Keys(Object(f)) = ms
  BY <1>4, NestedObject
<1>7. ASSUME NEW x PROVE At(Object(f), x) = IF x = key THEN kid ELSE At(o, x)
  BY <1>3, <1>6 DEF At, ms
<1> QED
  BY <1>5, <1>6, <1>7

IsBranch(b, tree, path, leaf) ==
  /\ b \in Tree /\ IsObject(b)
  /\ Walk(b, path) = leaf
  /\ \A q \in Seq(Member) : IsPrefix(path, q) /\ q # path => Walk(b, q) = Missing
  /\ \A q \in Seq(Member) : IsPrefix(q, path) /\ q # path => IsObject(Walk(b, q))
  /\ \A q \in Seq(Member) : ~Comparable(path, q) => Walk(b, q) = Walk(tree, q)

\* What buildDictPath and buildDenyTree make of a tree (formatter.go:138-194): a
\* leaf at the path, objects on the way, nothing below, and all that is not
\* comparable with the path as it was.
LEMMA BranchIs ==
  ASSUME NEW tree \in Tree, IsObject(tree), NEW path \in Path, NEW leaf \in Leaves
  PROVE  IsBranch(Branch(tree, path, leaf), tree, path, leaf)
<1> DEFINE n == Len(path)
           o(k) == On(tree, path, k)
<1>1. path \in Seq(Member) /\ path # << >> /\ n \in 1..Depth /\ n \in Nat /\ n <= Depth
  BY PathIs, DepthAssumption
<1>2. PICK f : Grows(f, tree, path, leaf) /\ Branch(tree, path, leaf) = f[1]
  BY <1>1, BranchGrows
<1>3. tree \in Reached /\ ~IsObject(leaf) /\ leaf \in Reached
  <2>1. 0 \in 0..Depth /\ Depth \in 0..Depth
    BY DepthAssumption
  <2>2. leaf \in Nested[0]
    BY <2>1, EmptyNested
  <2>3. ~IsObject(leaf)
    BY <2>1, <2>2, NestedValue
  <2> QED
    BY <2>1, <2>2, <2>3, StepDown DEF Reached
<1>4. ASSUME NEW k \in 0..(n - 1)
      PROVE  o(k) \in Nested[Depth - k] /\ IsObject(o(k))
             /\ \A x : At(o(k), x) = At(Walk(tree, Upto(path, k)), x)
  <2> DEFINE w == Walk(tree, Upto(path, k))
  <2>1. k \in 0..n /\ Depth - k \in 1..Depth /\ Depth - k \in 0..Depth
    BY <1>1, DepthAssumption
  <2>2. w \in Nested[Depth - k] \cup {Missing}
    BY <1>1, <2>1, WalkLevel
  <2>3. o(k) = ObjectOr(w, EmptyObject)
    BY DEF On
  <2> HIDE DEF w, o
  <2>4. CASE IsObject(w)
    <3>1. o(k) = w
      BY <2>3, <2>4 DEF ObjectOr
    <3>2. w # Missing
      BY <2>4, StepDown
    <3> QED
      BY <2>2, <2>4, <3>1, <3>2 DEF w
  <2>5. CASE ~IsObject(w)
    <3>1. o(k) = EmptyObject
      BY <2>3, <2>5 DEF ObjectOr
    <3>2. \A x : At(EmptyObject, x) = Missing
      BY EmptyNested DEF At
    <3>3. \A x : At(w, x) = Missing
      BY <2>5, StepDown
    <3>4. EmptyObject \in Nested[Depth - k] /\ IsObject(EmptyObject)
      BY <2>1, EmptyNested
    <3> QED
      BY <3>1, <3>2, <3>3, <3>4 DEF w
  <2> QED
    BY <2>4, <2>5 DEF w
<1> DEFINE b == f[1]
           Is(k) == f[k] \in Nested[Depth - (k - 1)]
           Q == {m \in 0..n : Is(n + 1 - m)}
<1>5. ASSUME NEW k \in 1..n, Is(k + 1)
      PROVE  /\ Is(k) /\ IsObject(f[k])
             /\ \A x : At(f[k], x) = IF x = path[k] THEN f[k + 1] ELSE At(o(k - 1), x)
  <2>1. f[k] = Put(o(k - 1), path[k], f[k + 1])
    BY <1>2 DEF Grows
  <2>2. PICK d : d = Depth - (k - 1)
    OBVIOUS
  <2>3. d \in 1..Depth /\ Depth - ((k + 1) - 1) = d - 1 /\ k - 1 \in 0..(n - 1)
    BY <1>1, <2>2, DepthAssumption
  <2>4. o(k - 1) \in Nested[d] /\ IsObject(o(k - 1))
    BY <1>4, <2>2, <2>3
  <2>5. f[k + 1] \in Nested[d - 1] /\ path[k] \in Member
    BY <1>1, <1>5, <2>3
  <2> HIDE DEF o
  <2>6. /\ Put(o(k - 1), path[k], f[k + 1]) \in Nested[d]
        /\ IsObject(Put(o(k - 1), path[k], f[k + 1]))
        /\ \A x : At(Put(o(k - 1), path[k], f[k + 1]), x)
                    = IF x = path[k] THEN f[k + 1] ELSE At(o(k - 1), x)
    BY <2>3, <2>4, <2>5, PutMember
  <2> QED
    BY <2>1, <2>2, <2>6
<1>6. 0 \in Q
  <2>1. f[n + 1] = leaf /\ n + 1 - 0 = n + 1 /\ (n + 1) - 1 = n /\ Depth - n \in 0..Depth
    BY <1>1, <1>2, DepthAssumption DEF Grows
  <2>2. Is(n + 1)
    BY <2>1, EmptyNested
  <2> HIDE DEF Is
  <2> QED
    BY <1>1, <2>1, <2>2
<1>7. ASSUME NEW m \in 1..n, m - 1 \in Q PROVE m \in Q
  <2>1. n + 1 - (m - 1) = (n + 1 - m) + 1 /\ n + 1 - m \in 1..n /\ m \in 0..n
    BY <1>1
  <2> HIDE DEF Is
  <2>2. Is((n + 1 - m) + 1)
    BY <1>7, <2>1
  <2>3. Is(n + 1 - m)
    BY <1>5, <2>1, <2>2
  <2> QED
    BY <2>1, <2>3
<1>8. \A k \in 1..(n + 1) : Is(k)
  <2> HIDE DEF Q
  <2>1. \A m \in 0..n : m \in Q
    BY <1>1, <1>6, <1>7, ByPrefixes
  <2>2. \A k \in 1..(n + 1) : n + 1 - k \in 0..n /\ n + 1 - (n + 1 - k) = k
    BY <1>1
  <2> HIDE DEF Is
  <2> QED
    BY <2>1, <2>2 DEF Q
<1>9. \A k \in 1..n : /\ IsObject(f[k])
                      /\ \A x : At(f[k], x) = IF x = path[k] THEN f[k + 1] ELSE At(o(k - 1), x)
  <2>1. \A k \in 1..n : k + 1 \in 1..(n + 1)
    BY <1>1
  <2> HIDE DEF Is, o
  <2> QED
    BY <1>5, <1>8, <2>1
<1>10. b \in Tree /\ b \in Reached /\ IsObject(b)
  <2>1. 1 \in 1..n /\ 1 \in 1..(n + 1) /\ Depth - (1 - 1) = Depth
    BY <1>1, DepthAssumption
  <2>2. f[1] \in Nested[Depth]
    BY <1>8, <2>1
  <2> QED
    BY <1>9, <2>1, <2>2 DEF Tree, Reached
<1> HIDE DEF b, Is, Q, n, o
<1> DEFINE R == {k \in 0..n : Walk(b, Upto(path, k)) = f[k + 1]}
<1>11. \A k \in 0..n : Walk(b, Upto(path, k)) = f[k + 1]
  <2>1. 0 \in R
    <3>1. Walk(b, Upto(path, 0)) = b /\ 0 + 1 = 1 /\ 0 \in 0..n
      BY <1>1, <1>10, WalkUpto
    <3> QED
      BY <3>1 DEF b
  <2>2. ASSUME NEW k \in 1..n, k - 1 \in R PROVE k \in R
    <3>1. Walk(b, Upto(path, k)) = At(Walk(b, Upto(path, k - 1)), path[k])
      BY <1>1, <1>10, WalkUpto DEF n
    <3>2. Walk(b, Upto(path, k - 1)) = f[k] /\ k \in 0..n
      <4>1. (k - 1) + 1 = k
        BY <1>1
      <4> QED
        BY <2>2, <4>1
    <3>3. At(f[k], path[k]) = f[k + 1]
      BY <1>9
    <3> QED
      BY <3>1, <3>2, <3>3
  <2> HIDE DEF R
  <2>3. \A k \in 0..n : k \in R
    BY <1>1, <2>1, <2>2, ByPrefixes
  <2> QED
    BY <2>3 DEF R
<1>12. Walk(b, path) = leaf
  <2>1. Upto(path, n) = path /\ n \in 0..n
    BY <1>1, UptoIs DEF n
  <2>2. f[n + 1] = leaf
    BY <1>2 DEF Grows, n
  <2> QED
    BY <1>11, <2>1, <2>2
<1>13. ASSUME NEW q \in Seq(Member), IsPrefix(path, q), q # path PROVE Walk(b, q) = Missing
  <2>1. PICK u \in Seq(Member) : q = path \o u /\ (u = << >> => path = q)
    BY <1>1, <1>13, PrefixRest
  <2>2. u # << >>
    BY <1>13, <2>1
  <2>3. Walk(b, q) = Walk(leaf, u)
    BY <1>1, <1>10, <1>12, <2>1, WalkConcat
  <2> QED
    BY <1>3, <2>2, <2>3, WalkNowhere
<1>14. ASSUME NEW q \in Seq(Member), IsPrefix(q, path), q # path PROVE IsObject(Walk(b, q))
  <2>1. q = Upto(path, Len(q)) /\ Len(q) \in 0..n
    BY <1>1, <1>14, UptoIs DEF n
  <2>2. Len(q) # n
    BY <1>1, <1>14, <2>1, UptoIs DEF n
  <2>3. Len(q) + 1 \in 1..n
    BY <1>1, <2>1, <2>2
  <2> QED
    BY <1>9, <1>11, <2>1, <2>3
<1>15. ASSUME NEW q \in Seq(Member), ~Comparable(path, q) PROVE Walk(b, q) = Walk(tree, q)
  <2>1. PICK m \in 1..n : /\ m \in 1..Len(q) /\ path[m] # q[m]
                          /\ \A k \in 1..(m - 1) : path[k] = q[k]
    BY <1>1, <1>15, Part DEF n
  <2>2. /\ m - 1 \in 0..n /\ m - 1 \in 0..Len(q) /\ m \in 0..Len(q) /\ m - 1 \in 0..(n - 1)
        /\ (m - 1) + 1 = m
    BY <1>1, <2>1
  <2>3. Upto(q, m - 1) = Upto(path, m - 1)
    <3>1. Upto(q, m - 1) \in Seq(Member) /\ Upto(path, m - 1) \in Seq(Member)
      BY <1>1, <2>2, UptoIs DEF n
    <3>2. /\ Len(Upto(q, m - 1)) = m - 1 /\ Len(Upto(path, m - 1)) = m - 1
          /\ \A k \in 1..(m - 1) : Upto(q, m - 1)[k] = q[k] /\ Upto(path, m - 1)[k] = path[k]
      BY <1>1, <2>2 DEF Upto, n
    <3> QED
      BY <2>1, <3>1, <3>2, SeqEqual
  <2>4. Walk(b, Upto(q, m)) = At(f[m], q[m])
    BY <1>10, <1>11, <2>1, <2>2, <2>3, WalkUpto
  <2>5. At(f[m], q[m]) = At(Walk(tree, Upto(path, m - 1)), q[m])
    BY <1>4, <1>9, <2>1, <2>2
  <2>6. Walk(tree, Upto(q, m)) = At(Walk(tree, Upto(q, m - 1)), q[m])
    BY <1>3, <2>1, WalkUpto
  <2>7. PICK t \in Seq(Member) : q = Upto(q, m) \o t
    BY <2>2, UptoIs
  <2>8. Upto(q, m) \in Seq(Member)
    BY <2>2, UptoIs
  <2>9. Walk(b, q) = Walk(Walk(b, Upto(q, m)), t) /\ Walk(tree, q) = Walk(Walk(tree, Upto(q, m)), t)
    <3>1. PICK a \in Seq(Member) : a = Upto(q, m) /\ q = a \o t
      BY <2>7, <2>8
    <3>2. Walk(b, a \o t) = Walk(Walk(b, a), t) /\ Walk(tree, a \o t) = Walk(Walk(tree, a), t)
      BY <1>3, <1>10, WalkConcat
    <3> QED
      BY <3>1, <3>2
  <2> QED
    BY <2>3, <2>4, <2>5, <2>6, <2>9
<1> QED
  BY <1>2, <1>10, <1>12, <1>13, <1>14, <1>15 DEF IsBranch, b

----------------------------------------------------------------------------
(* The trees of the lists.                                                 *)

Objects == {v \in Tree : IsObject(v)}

\* tree ends at path: there is a leaf.
EndsAt(tree, path) == Walk(tree, path) \in Leaves

\* What a walk reaches is a leaf, an object or nothing.
LEMMA ReachedIs ==
  ASSUME NEW v \in Reached
  PROVE  /\ v \in Leaves <=> ~IsObject(v) /\ v # Missing
         /\ v.is = Missing.is <=> v = Missing
         /\ v \in Leaves => v.is # "object"
         /\ Missing \notin Leaves
         /\ \A w \in Leaves : ~IsObject(w)
<1>1. Depth \in 0..Depth /\ 0 \in 0..Depth
  BY DepthAssumption
<1>2. \A w \in Leaves : w \in Nested[0]
  BY <1>1, EmptyNested
<1>3. \A w \in Leaves : ~IsObject(w) /\ w # Missing
  BY <1>1, <1>2, NestedValue
<1>4. CASE v = Missing
  BY <1>3, <1>4, StepDown
<1>5. CASE v \in Nested[Depth]
  <2>1. v # Missing /\ v.is # Missing.is /\ (~IsObject(v) => v \in Leaves)
    BY <1>1, <1>5, NestedValue
  <2> QED
    BY <1>3, <2>1 DEF IsObject
<1> QED
  BY <1>4, <1>5 DEF Reached, Tree

\* The empty object ends nowhere.
LEMMA ObjectsAre ==
  /\ Objects \subseteq Reached /\ Objects \subseteq Tree /\ EmptyObject \in Objects
  /\ \A q \in Seq(Member) : ~EndsAt(EmptyObject, q)
<1>1. Depth \in 1..Depth
  BY DepthAssumption
<1>2. Objects \subseteq Reached /\ Objects \subseteq Tree /\ EmptyObject \in Objects
  BY <1>1, EmptyNested DEF Objects, Reached, Tree
<1>3. ASSUME NEW q \in Seq(Member) PROVE ~EndsAt(EmptyObject, q)
  <2>1. CASE q = << >>
    BY <1>2, <2>1, WalkEmpty, ReachedIs, EmptyNested DEF EndsAt
  <2>2. CASE q # << >>
    <3>1. PICK k \in Member, u \in Seq(Member) : Walk(EmptyObject, q) = Walk(At(EmptyObject, k), u)
      BY <1>2, <2>2, WalkOn
    <3>2. At(EmptyObject, k) = Missing
      BY EmptyNested DEF At
    <3>3. Missing \in Reached /\ ~IsObject(Missing)
      BY StepDown DEF Reached
    <3>4. Walk(Missing, u) = Missing
      BY <3>3, WalkEmpty, WalkNowhere
    <3> QED
      BY <3>1, <3>2, <3>3, <3>4, ReachedIs DEF EndsAt
  <2> QED
    BY <2>1, <2>2
<1> QED
  BY <1>2, <1>3

\* Where a tree with one more branch ends.
LEMMA BranchEnds ==
  ASSUME NEW tree \in Objects, NEW path \in Path, NEW leaf \in Leaves,
         NEW b, b = Branch(tree, path, leaf)
  PROVE  /\ b \in Objects
         /\ \A q \in Seq(Member) :
              /\ EndsAt(b, q) <=> q = path \/ (~Comparable(path, q) /\ EndsAt(tree, q))
              /\ EndsAt(b, q) => Walk(b, q) = leaf \/ Walk(b, q) = Walk(tree, q)
<1>1. tree \in Tree /\ IsObject(tree) /\ path \in Seq(Member)
  BY PathIs DEF Objects
<1>2. IsBranch(b, tree, path, leaf)
  BY <1>1, BranchIs
<1>3. b \in Objects
  BY <1>2 DEF IsBranch, Objects
<1>4. ASSUME NEW q \in Seq(Member)
      PROVE  /\ EndsAt(b, q) <=> q = path \/ (~Comparable(path, q) /\ EndsAt(tree, q))
             /\ EndsAt(b, q) => Walk(b, q) = leaf \/ Walk(b, q) = Walk(tree, q)
  <2>1. CASE q = path
    BY <1>2, <2>1 DEF IsBranch, EndsAt
  <2>2. CASE q # path /\ IsPrefix(path, q)
    <3>1. Walk(b, q) = Missing /\ Missing \in Reached
      BY <1>2, <2>2 DEF IsBranch, Reached
    <3> QED
      BY <2>2, <3>1, ReachedIs DEF EndsAt, Comparable
  <2>3. CASE q # path /\ IsPrefix(q, path)
    <3>1. IsObject(Walk(b, q)) /\ Walk(b, q) \in Reached
      BY <1>2, <1>3, <2>3, WalkType, ObjectsAre DEF IsBranch
    <3> QED
      BY <2>3, <3>1, ReachedIs DEF EndsAt, Comparable
  <2>4. CASE ~Comparable(path, q)
    <3>1. Walk(b, q) = Walk(tree, q)
      BY <1>2, <2>4 DEF IsBranch
    <3>2. q # path
      BY <1>1, <2>4, PrefixEnds DEF Comparable
    <3> QED
      BY <2>4, <3>1, <3>2 DEF EndsAt
  <2> QED
    BY <2>1, <2>2, <2>3, <2>4 DEF Comparable
<1> QED
  BY <1>3, <1>4

\* Entry j is the last of the first k that says anything about its path.
Lasts(list, j, k) == \A m \in 1..k : m > j /\ Comparable(list[j], list[m]) => list[j] = list[m]

\* tree is what the first k entries of an allow list make.
Allowing(tree, list, k) ==
  /\ tree \in Objects
  /\ \A q \in Seq(Member) : EndsAt(tree, q) <=> \E j \in 1..k : list[j] = q /\ Lasts(list, j, k)

\* A tree of the allow list stays an object.
LEMMA AllowObject ==
  EmptyObject \in Objects /\ \A t \in Objects, path \in Path : Allow(t, path) \in Objects
<1>1. Scalar("true") \in Leaves
  BY DEF Leaves
<1> QED
  BY <1>1, BranchEnds, ObjectsAre DEF Allow

\* A further entry of an allow list.
LEMMA AllowOne ==
  ASSUME NEW list \in Seq(Entries), NEW k \in 1..Len(list), NEW t, Allowing(t, list, k - 1)
  PROVE  Allowing(Allow(t, list[k]), list, k)
<1> DEFINE b == Allow(t, list[k])
<1>1. Scalar("true") \in Leaves
  BY DEF Leaves
<1>2. Len(list) \in Nat /\ \A j \in 1..Len(list) : list[j] \in Path /\ list[j] \in Seq(Member)
  BY FormatterAssumption, PathIs
<1>3. t \in Objects
  BY DEF Allowing
<1>4. /\ b \in Objects
      /\ \A q \in Seq(Member) :
           EndsAt(b, q) <=> q = list[k] \/ (~Comparable(list[k], q) /\ EndsAt(t, q))
  BY <1>1, <1>2, <1>3, BranchEnds DEF Allow
<1> HIDE DEF b
<1>5. ASSUME NEW q \in Seq(Member)
      PROVE  EndsAt(b, q) <=> \E j \in 1..k : list[j] = q /\ Lasts(list, j, k)
  <2>1. ASSUME q = list[k] PROVE \E j \in 1..k : list[j] = q /\ Lasts(list, j, k)
    <3>1. k \in 1..k /\ \A m \in 1..k : ~(m > k)
      BY <1>2
    <3> QED
      BY <2>1, <3>1 DEF Lasts
  <2>2. ASSUME ~Comparable(list[k], q), EndsAt(t, q)
        PROVE  \E j \in 1..k : list[j] = q /\ Lasts(list, j, k)
    <3>1. PICK j \in 1..(k - 1) : list[j] = q /\ Lasts(list, j, k - 1)
      BY <2>2 DEF Allowing
    <3>2. j \in 1..k /\ \A m \in 1..k : m = k \/ m \in 1..(k - 1)
      BY <1>2
    <3>3. ~Comparable(list[j], list[k])
      BY <2>2, <3>1 DEF Comparable
    <3> QED
      BY <3>1, <3>2, <3>3 DEF Lasts
  <2>3. ASSUME NEW j \in 1..k, list[j] = q, Lasts(list, j, k), q # list[k]
        PROVE  ~Comparable(list[k], q) /\ EndsAt(t, q)
    <3>1. k \in 1..k /\ k > j /\ j \in 1..(k - 1) /\ \A m \in 1..(k - 1) : m \in 1..k
      BY <1>2, <2>3
    <3>2. Lasts(list, j, k - 1)
      BY <2>3, <3>1 DEF Lasts
    <3>3. ~Comparable(list[j], list[k])
      BY <2>3, <3>1 DEF Lasts
    <3> QED
      BY <2>3, <3>1, <3>2, <3>3 DEF Allowing, Comparable
  <2> QED
    BY <1>4, <2>1, <2>2, <2>3
<1> QED
  BY <1>4, <1>5 DEF Allowing, b

\* Before the first entry of an allow list.
LEMMA AllowNone == \A list : Allowing(EmptyObject, list, 0)
<1>1. \A k \in 1..0 : FALSE
  OBVIOUS
<1> QED
  BY <1>1, ObjectsAre DEF Allowing

\* What the loop of newAllowlistingFilter makes (formatter.go:121-127).
LEMMA AllowTree ==
  ASSUME NEW list \in Seq(Entries)
  PROVE  Allowing(FoldLeft(Allow, EmptyObject, list), list, Len(list))
<1> DEFINE n == Len(list)
           A == Objects
           G == [x \in A \X (1..n) |-> Allow(x[1], list[x[2]])]
           It(h) == h = [t \in SUBSET DOMAIN list |->
                           IF t = {} THEN EmptyObject ELSE Allow(h[t \ {Max(t)}], list[Max(t)])]
<1>1. n \in Nat /\ DOMAIN list = 1..n /\ \A j \in 1..n : list[j] \in Path
  BY FormatterAssumption
<1>2. EmptyObject \in A /\ \A a \in A, j \in 1..n : Allow(a, list[j]) \in A
  BY <1>1, AllowObject
<1>3. G \in [A \X (1..n) -> A]
  BY <1>2
<1>4. \A a \in A, j \in 1..n : G[<<a, j>>] = Allow(a, list[j])
  OBVIOUS
<1> HIDE DEF n, G, A
<1>5. PICK it : Folds(it, A, EmptyObject, G, n)
  BY <1>1, <1>2, <1>3, FoldExists
<1>6. It(it)
  <2>1. ASSUME NEW t \in SUBSET (1..n), t # {}
        PROVE  it[t] = Allow(it[t \ {Max(t)}], list[Max(t)])
    <3>1. Max(t) \in t /\ Max(t) \in 1..n /\ \A y \in t : Max(t) >= y
      BY <1>1, <2>1, Greatest DEF Max
    <3>2. it[t] = G[<<it[t \ {Max(t)}], Max(t)>>] /\ it[t \ {Max(t)}] \in A
      BY <3>1, <1>5 DEF Folds
    <3> QED
      BY <3>1, <3>2, <1>4
  <2>2. it = [t \in SUBSET (1..n) |-> it[t]] /\ it[{}] = EmptyObject
    BY <1>5 DEF Folds
  <2> QED
    BY <2>1, <2>2, <1>1
<1> DEFINE fold == CHOOSE h : It(h)
<1>7. It(fold)
  BY <1>6
<1>8. FoldLeft(Allow, EmptyObject, list) = fold[1..n]
  BY <1>1 DEF FoldLeft, MapThenFoldSet
<1> HIDE DEF fold
<1>9. fold[1..0] = EmptyObject
  BY <1>1, <1>7
<1>10. ASSUME NEW k \in 1..n
       PROVE  fold[1..k] = Allow(fold[1..(k - 1)], list[k])
  <2>1. 1..k \in SUBSET DOMAIN list /\ 1..k # {} /\ (1..k) \ {k} = 1..(k - 1)
    BY <1>1, Prefix
  <2>2. Max(1..k) = k
    BY <1>1, Prefix DEF Max
  <2> QED
    BY <1>7, <2>1, <2>2
<1> DEFINE P == {k \in 0..n : Allowing(fold[1..k], list, k)}
<1>11. 0 \in P
  <2>1. Allowing(EmptyObject, list, 0)
    BY AllowNone
  <2> QED
    BY <1>1, <1>9, <2>1
<1>12. ASSUME NEW k \in 1..n, k - 1 \in P PROVE k \in P
  <2>1. Allowing(fold[1..(k - 1)], list, k - 1) /\ k \in 0..n /\ k \in 1..Len(list)
    BY <1>12, <1>1 DEF n
  <2>2. Allowing(Allow(fold[1..(k - 1)], list[k]), list, k)
    BY <2>1, AllowOne
  <2> QED
    BY <1>10, <2>1, <2>2
<1> HIDE DEF P
<1>13. \A k \in 0..n : k \in P
  BY <1>1, <1>11, <1>12, ByPrefixes
<1>14. n \in P
  BY <1>1, <1>13
<1> QED
  BY <1>8, <1>14 DEF P, n

\* tree is what the first k entries of a deny list make.
Denying(tree, list, k) ==
  /\ tree \in Objects
  /\ \A q \in Seq(Member) : EndsAt(tree, q) => /\ \E j \in 1..k : list[j] = q
                                              /\ Walk(tree, q) = Scalar("nil")
  /\ \A j \in 1..k : \E q \in Seq(Member) : EndsAt(tree, q) /\ IsPrefix(q, list[j])

\* A tree of the deny list stays an object.
LEMMA DenyObject ==
  EmptyObject \in Objects /\ \A t \in Objects, path \in Path : buildDenyTree(t, path) \in Objects
<1>1. Scalar("nil") \in Leaves
  BY DEF Leaves
<1> QED
  BY <1>1, BranchEnds, ObjectsAre DEF buildDenyTree

\* Before the first entry of a deny list.
LEMMA DenyNone == \A list : Denying(EmptyObject, list, 0)
<1>1. \A k \in 1..0 : FALSE
  OBVIOUS
<1> QED
  BY <1>1, ObjectsAre DEF Denying

\* A further entry of a deny list: it is covered by a leaf above it or gets one,
\* and what it replaces is below it.
LEMMA DenyOne ==
  ASSUME NEW list \in Seq(Entries), NEW k \in 1..Len(list), NEW t, Denying(t, list, k - 1)
  PROVE  Denying(buildDenyTree(t, list[k]), list, k)
<1> DEFINE b == Branch(t, list[k], Scalar("nil"))
           Denied == \E m \in 1..Len(list[k]) - 1 : Walk(t, SubSeq(list[k], 1, m)) = Scalar("nil")
<1>1. Scalar("nil") \in Leaves
  BY DEF Leaves
<1>2. Len(list) \in Nat /\ \A j \in 1..Len(list) : list[j] \in Path /\ list[j] \in Seq(Member)
  BY FormatterAssumption, PathIs
<1>3. t \in Objects
  BY DEF Denying
<1>4. k \in 1..k /\ \A j \in 1..k : j \in 1..Len(list) /\ (j = k \/ j \in 1..(k - 1))
  BY <1>2
<1>5. \A j \in 1..(k - 1) : j \in 1..k
  BY <1>2
<1>6. CASE Denied
  <2>1. PICK m \in 1..Len(list[k]) - 1 : Walk(t, SubSeq(list[k], 1, m)) = Scalar("nil")
    BY <1>6
  <2>2. PICK q : q = Upto(list[k], m)
    OBVIOUS
  <2>3. Len(list[k]) \in Nat /\ m \in 0..Len(list[k])
    BY <1>2
  <2>4. q \in Seq(Member) /\ IsPrefix(q, list[k])
    <3>1. q \in Seq(Member)
      BY <1>2, <2>2, <2>3, UptoIs
    <3>2. Len(q) = m /\ \A j \in 1..m : q[j] = list[k][j]
      BY <1>2, <2>2, <2>3 DEF Upto
    <3> QED
      BY <1>2, <2>3, <3>1, <3>2, PrefixAgrees
  <2>5. EndsAt(t, q)
    BY <1>1, <2>1, <2>2 DEF EndsAt, Upto
  <2>6. buildDenyTree(t, list[k]) = t
    BY <1>6 DEF buildDenyTree
  <2> QED
    BY <1>4, <1>5, <2>4, <2>5, <2>6 DEF Denying
<1>7. CASE ~Denied
  <2>1. buildDenyTree(t, list[k]) = b
    BY <1>7 DEF buildDenyTree
  <2>2. /\ b \in Objects
        /\ \A q \in Seq(Member) :
             /\ EndsAt(b, q) <=> q = list[k] \/ (~Comparable(list[k], q) /\ EndsAt(t, q))
             /\ EndsAt(b, q) => Walk(b, q) = Scalar("nil") \/ Walk(b, q) = Walk(t, q)
    BY <1>1, <1>2, <1>3, BranchEnds
  <2>3. \A q \in Seq(Member) : IsPrefix(q, list[k]) /\ EndsAt(t, q) => q = list[k]
    <3> SUFFICES ASSUME NEW q \in Seq(Member), IsPrefix(q, list[k]), EndsAt(t, q), q # list[k]
                 PROVE  FALSE
      OBVIOUS
    <3>1. list[k] \in Seq(Member) /\ Len(list[k]) \in Nat
      BY <1>2
    <3>2. q = Upto(list[k], Len(q)) /\ Len(q) \in 0..Len(list[k])
      BY <3>1, UptoIs
    <3>3. Len(q) # Len(list[k])
      BY <3>1, <3>2, UptoIs
    <3>4. Len(q) # 0
      <4>1. ~EndsAt(t, << >>)
        BY <1>3, WalkEmpty, ReachedIs, ObjectsAre DEF EndsAt, Objects
      <4> QED
        BY <4>1, EmptySeq
    <3>5. Len(q) \in 1..Len(list[k]) - 1
      BY <3>1, <3>2, <3>3, <3>4
    <3>6. Walk(t, q) = Scalar("nil")
      BY DEF Denying
    <3> QED
      BY <1>7, <3>2, <3>5, <3>6 DEF Upto
  <2> HIDE DEF b
  <2>4. ASSUME NEW q \in Seq(Member), EndsAt(b, q)
        PROVE  (\E j \in 1..k : list[j] = q) /\ Walk(b, q) = Scalar("nil")
    <3>1. CASE q = list[k]
      <4>1. EndsAt(t, q) => Walk(t, q) = Scalar("nil")
        BY DEF Denying
      <4>2. Walk(b, q) = Scalar("nil") \/ EndsAt(t, q)
        BY <2>2, <2>4 DEF EndsAt
      <4> QED
        BY <1>4, <2>2, <2>4, <3>1, <4>1, <4>2
    <3>2. CASE q # list[k]
      <4>1. EndsAt(t, q)
        BY <2>2, <2>4, <3>2
      <4> QED
        BY <1>5, <2>2, <2>4, <4>1 DEF Denying
    <3> QED
      BY <3>1, <3>2
  <2>5. ASSUME NEW j \in 1..k
        PROVE  \E q \in Seq(Member) : EndsAt(b, q) /\ IsPrefix(q, list[j])
    <3>1. list[k] \in Seq(Member) /\ EndsAt(b, list[k]) /\ IsPrefix(list[k], list[k])
      BY <1>2, <2>2, PrefixEnds
    <3>2. CASE j = k
      BY <3>1, <3>2
    <3>3. CASE j # k
      <4>1. PICK q \in Seq(Member) : EndsAt(t, q) /\ IsPrefix(q, list[j])
        BY <1>4, <3>3 DEF Denying
      <4>2. CASE ~Comparable(list[k], q)
        BY <2>2, <4>1, <4>2
      <4>3. CASE IsPrefix(list[k], q)
        BY <1>2, <1>4, <3>1, <4>1, <4>3, PrefixEnds
      <4>4. CASE IsPrefix(q, list[k])
        BY <2>3, <3>1, <4>1, <4>4
      <4> QED
        BY <4>2, <4>3, <4>4 DEF Comparable
    <3> QED
      BY <3>2, <3>3
  <2> QED
    BY <2>1, <2>2, <2>4, <2>5 DEF Denying
<1> QED
  BY <1>6, <1>7

\* What the loop of newDenylistingFilter makes (formatter.go:215-220).
LEMMA DenyTree ==
  ASSUME NEW list \in Seq(Entries)
  PROVE  Denying(FoldLeft(buildDenyTree, EmptyObject, list), list, Len(list))
<1> DEFINE n == Len(list)
           A == Objects
           G == [x \in A \X (1..n) |-> buildDenyTree(x[1], list[x[2]])]
           It(h) == h = [t \in SUBSET DOMAIN list |->
                           IF t = {} THEN EmptyObject ELSE buildDenyTree(h[t \ {Max(t)}], list[Max(t)])]
<1>1. n \in Nat /\ DOMAIN list = 1..n /\ \A j \in 1..n : list[j] \in Path
  BY FormatterAssumption
<1>2. EmptyObject \in A /\ \A a \in A, j \in 1..n : buildDenyTree(a, list[j]) \in A
  BY <1>1, DenyObject
<1>3. G \in [A \X (1..n) -> A]
  BY <1>2
<1>4. \A a \in A, j \in 1..n : G[<<a, j>>] = buildDenyTree(a, list[j])
  OBVIOUS
<1> HIDE DEF n, G, A
<1>5. PICK it : Folds(it, A, EmptyObject, G, n)
  BY <1>1, <1>2, <1>3, FoldExists
<1>6. It(it)
  <2>1. ASSUME NEW t \in SUBSET (1..n), t # {}
        PROVE  it[t] = buildDenyTree(it[t \ {Max(t)}], list[Max(t)])
    <3>1. Max(t) \in t /\ Max(t) \in 1..n /\ \A y \in t : Max(t) >= y
      BY <1>1, <2>1, Greatest DEF Max
    <3>2. it[t] = G[<<it[t \ {Max(t)}], Max(t)>>] /\ it[t \ {Max(t)}] \in A
      BY <3>1, <1>5 DEF Folds
    <3> QED
      BY <3>1, <3>2, <1>4
  <2>2. it = [t \in SUBSET (1..n) |-> it[t]] /\ it[{}] = EmptyObject
    BY <1>5 DEF Folds
  <2> QED
    BY <2>1, <2>2, <1>1
<1> DEFINE fold == CHOOSE h : It(h)
<1>7. It(fold)
  BY <1>6
<1>8. FoldLeft(buildDenyTree, EmptyObject, list) = fold[1..n]
  BY <1>1 DEF FoldLeft, MapThenFoldSet
<1> HIDE DEF fold
<1>9. fold[1..0] = EmptyObject
  BY <1>1, <1>7
<1>10. ASSUME NEW k \in 1..n
       PROVE  fold[1..k] = buildDenyTree(fold[1..(k - 1)], list[k])
  <2>1. 1..k \in SUBSET DOMAIN list /\ 1..k # {} /\ (1..k) \ {k} = 1..(k - 1)
    BY <1>1, Prefix
  <2>2. Max(1..k) = k
    BY <1>1, Prefix DEF Max
  <2> QED
    BY <1>7, <2>1, <2>2
<1> DEFINE P == {k \in 0..n : Denying(fold[1..k], list, k)}
<1>11. 0 \in P
  <2>1. Denying(EmptyObject, list, 0)
    BY DenyNone
  <2> QED
    BY <1>1, <1>9, <2>1
<1>12. ASSUME NEW k \in 1..n, k - 1 \in P PROVE k \in P
  <2>1. Denying(fold[1..(k - 1)], list, k - 1) /\ k \in 0..n /\ k \in 1..Len(list)
    BY <1>12, <1>1 DEF n
  <2>2. Denying(buildDenyTree(fold[1..(k - 1)], list[k]), list, k)
    BY <2>1, DenyOne
  <2> QED
    BY <1>10, <2>1, <2>2
<1> HIDE DEF P
<1>13. \A k \in 0..n : k \in P
  BY <1>1, <1>11, <1>12, ByPrefixes
<1>14. n \in P
  BY <1>1, <1>13
<1> QED
  BY <1>8, <1>14 DEF P, n

----------------------------------------------------------------------------
(* What the filters make of an object.                                     *)

KidLeft(g, wl, in, k) ==
  IF ~IsObject(wl.kids[k]) THEN in.kids[k]
  ELSE IF IsObject(in.kids[k]) THEN g[wl.kids[k]][in.kids[k]] ELSE EmptyObject

PrunedBy(g, wl, in) ==
  Object([k \in {k \in Keys(in) \cap Keys(wl) : Stays(wl.kids[k], KidLeft(g, wl, in, k))}
            |-> KidLeft(g, wl, in, k)])

\* What is pruned depends on what is below, only.
LEMMA SamePruned ==
  ASSUME NEW g, NEW h, NEW wl, NEW in,
         \A k \in Keys(wl) : g[wl.kids[k]] = h[wl.kids[k]]
  PROVE  PrunedBy(g, wl, in) = PrunedBy(h, wl, in)
<1>1. \A k \in Keys(in) \cap Keys(wl) : KidLeft(g, wl, in, k) = KidLeft(h, wl, in, k)
  BY DEF KidLeft
<1> DEFINE S(f) == {k \in Keys(in) \cap Keys(wl) : Stays(wl.kids[k], KidLeft(f, wl, in, k))}
<1>2. S(g) = S(h)
  BY <1>1
<1>3. \A k \in S(g) : KidLeft(g, wl, in, k) = KidLeft(h, wl, in, k)
  BY <1>1
<1>4. [k \in S(g) |-> KidLeft(g, wl, in, k)] = [k \in S(h) |-> KidLeft(h, wl, in, k)]
  <2> HIDE DEF S
  <2> QED
    BY <1>2, <1>3
<1> QED
  BY <1>4 DEF PrunedBy

\* The recursive function AllowlistPrune is defined.
LEMMA PruneDef ==
  \A wl \in Tree, in \in Tree : AllowlistPrune[wl][in] = PrunedBy(AllowlistPrune, wl, in)
<1> DEFINE Is(g, n) == g = [wl \in Nested[n] |-> [in \in Tree |-> PrunedBy(g, wl, in)]]
           P == {n \in 0..Depth : \E g : Is(g, n)}
<1>1. 0 \in P
  <2> DEFINE e == << >>
             g == [wl \in Nested[0] |-> [in \in Tree |-> PrunedBy(e, wl, in)]]
  <2>1. 0 \in 0..Depth
    BY DepthAssumption
  <2>2. \A wl \in Nested[0] : Keys(wl) = {}
    BY <2>1, NestedValue
  <2> HIDE DEF g, e
  <2>3. \A wl \in Nested[0], in \in Tree : PrunedBy(g, wl, in) = PrunedBy(e, wl, in)
    BY <2>2, SamePruned
  <2>4. Is(g, 0)
    BY <2>3 DEF g
  <2> HIDE DEF Is
  <2> QED
    BY <2>1, <2>4
<1>2. ASSUME NEW n \in 1..Depth, n - 1 \in P PROVE n \in P
  <2>1. PICK f : Is(f, n - 1)
    BY <1>2
  <2> DEFINE g == [wl \in Nested[n] |-> [in \in Tree |-> PrunedBy(f, wl, in)]]
  <2>2. n \in 0..Depth /\ n - 1 \in 0..n
    BY DepthAssumption
  <2>3. Nested[n - 1] \subseteq Nested[n]
    BY <2>2, NestedGrows
  <2>4. \A x \in Nested[n - 1] : g[x] = f[x]
    <3> SUFFICES ASSUME NEW x \in Nested[n - 1] PROVE g[x] = f[x]
      OBVIOUS
    <3>1. g[x] = [in \in Tree |-> PrunedBy(f, x, in)]
      BY <2>3
    <3> HIDE DEF g
    <3>2. f[x] = [in \in Tree |-> PrunedBy(f, x, in)]
      BY <2>1
    <3> QED
      BY <3>1, <3>2
  <2>5. \A wl \in Nested[n] : \A k \in Keys(wl) : wl.kids[k] \in Nested[n - 1]
    BY <2>2, NestedValue
  <2>6. \A wl \in Nested[n], in \in Tree : PrunedBy(g, wl, in) = PrunedBy(f, wl, in)
    <3> HIDE DEF g
    <3> QED
      BY <2>4, <2>5, SamePruned
  <2>7. Is(g, n)
    <3>1. PICK h : h = g
      OBVIOUS
    <3>2. \A wl \in Nested[n], in \in Tree : PrunedBy(h, wl, in) = PrunedBy(f, wl, in)
      BY <2>6, <3>1
    <3>3. h = [wl \in Nested[n] |-> [in \in Tree |-> PrunedBy(h, wl, in)]]
      BY <3>1, <3>2
    <3> QED
      BY <3>1, <3>3
  <2> HIDE DEF Is
  <2> QED
    BY <2>2, <2>7
<1>3. Depth \in P
  <2> HIDE DEF P
  <2>1. \A n \in 0..Depth : n \in P
    BY <1>1, <1>2, DepthAssumption, ByPrefixes
  <2> QED
    BY <2>1, DepthAssumption
<1>4. PICK g : Is(g, Depth)
  BY <1>3
<1>5. AllowlistPrune = CHOOSE f : Is(f, Depth)
  BY DEF AllowlistPrune, PrunedBy, KidLeft, Tree
<1>6. Is(AllowlistPrune, Depth)
  <2> HIDE DEF Is
  <2> QED
    BY <1>4, <1>5
<1> DEFINE A == AllowlistPrune
<1> HIDE DEF A
<1>7. A = [wl \in Tree |-> [in \in Tree |-> PrunedBy(A, wl, in)]]
  BY <1>6 DEF Tree, A
<1> QED
  BY <1>7 DEF A

DeletedBy(g, ref, v) ==
  IF ~IsObject(v) THEN v
  ELSE Object([k \in {k \in Keys(v) : k \in Keys(ref) => IsObject(ref.kids[k])} |->
         IF k \in Keys(ref) THEN g[ref.kids[k]][v.kids[k]] ELSE v.kids[k]])

\* What is deleted depends on what is below, only.
LEMMA SameDeleted ==
  ASSUME NEW g, NEW h, NEW ref, NEW v,
         \A k \in Keys(ref) : g[ref.kids[k]] = h[ref.kids[k]]
  PROVE  DeletedBy(g, ref, v) = DeletedBy(h, ref, v)
<1>1. [k \in {k \in Keys(v) : k \in Keys(ref) => IsObject(ref.kids[k])} |->
         IF k \in Keys(ref) THEN g[ref.kids[k]][v.kids[k]] ELSE v.kids[k]]
      = [k \in {k \in Keys(v) : k \in Keys(ref) => IsObject(ref.kids[k])} |->
         IF k \in Keys(ref) THEN h[ref.kids[k]][v.kids[k]] ELSE v.kids[k]]
  OBVIOUS
<1> QED
  BY <1>1 DEF DeletedBy

\* The recursive function recDelete is defined.
LEMMA DeleteDef ==
  \A ref \in Tree, v \in Tree : recDelete[ref][v] = DeletedBy(recDelete, ref, v)
<1> DEFINE Is(g, n) == g = [ref \in Nested[n] |-> [v \in Tree |-> DeletedBy(g, ref, v)]]
           P == {n \in 0..Depth : \E g : Is(g, n)}
<1>1. 0 \in P
  <2> DEFINE e == << >>
             g == [ref \in Nested[0] |-> [v \in Tree |-> DeletedBy(e, ref, v)]]
  <2>1. 0 \in 0..Depth
    BY DepthAssumption
  <2>2. \A ref \in Nested[0] : Keys(ref) = {}
    BY <2>1, NestedValue
  <2> HIDE DEF g, e
  <2>3. \A ref \in Nested[0], v \in Tree : DeletedBy(g, ref, v) = DeletedBy(e, ref, v)
    BY <2>2, SameDeleted
  <2>4. Is(g, 0)
    BY <2>3 DEF g
  <2> HIDE DEF Is
  <2> QED
    BY <2>1, <2>4
<1>2. ASSUME NEW n \in 1..Depth, n - 1 \in P PROVE n \in P
  <2>1. PICK f : Is(f, n - 1)
    BY <1>2
  <2> DEFINE g == [ref \in Nested[n] |-> [v \in Tree |-> DeletedBy(f, ref, v)]]
  <2>2. n \in 0..Depth /\ n - 1 \in 0..n
    BY DepthAssumption
  <2>3. Nested[n - 1] \subseteq Nested[n]
    BY <2>2, NestedGrows
  <2>4. \A x \in Nested[n - 1] : g[x] = f[x]
    <3> SUFFICES ASSUME NEW x \in Nested[n - 1] PROVE g[x] = f[x]
      OBVIOUS
    <3>1. g[x] = [v \in Tree |-> DeletedBy(f, x, v)]
      BY <2>3
    <3> HIDE DEF g
    <3>2. f[x] = [v \in Tree |-> DeletedBy(f, x, v)]
      BY <2>1
    <3> QED
      BY <3>1, <3>2
  <2>5. \A ref \in Nested[n] : \A k \in Keys(ref) : ref.kids[k] \in Nested[n - 1]
    BY <2>2, NestedValue
  <2>6. \A ref \in Nested[n], v \in Tree : DeletedBy(g, ref, v) = DeletedBy(f, ref, v)
    <3> HIDE DEF g
    <3> QED
      BY <2>4, <2>5, SameDeleted
  <2>7. Is(g, n)
    <3>1. PICK h : h = g
      OBVIOUS
    <3>2. \A ref \in Nested[n], v \in Tree : DeletedBy(h, ref, v) = DeletedBy(f, ref, v)
      BY <2>6, <3>1
    <3>3. h = [ref \in Nested[n] |-> [v \in Tree |-> DeletedBy(h, ref, v)]]
      BY <3>1, <3>2
    <3> QED
      BY <3>1, <3>3
  <2> HIDE DEF Is
  <2> QED
    BY <2>2, <2>7
<1>3. Depth \in P
  <2> HIDE DEF P
  <2>1. \A n \in 0..Depth : n \in P
    BY <1>1, <1>2, DepthAssumption, ByPrefixes
  <2> QED
    BY <2>1, DepthAssumption
<1>4. PICK g : Is(g, Depth)
  BY <1>3
<1>5. recDelete = CHOOSE f : Is(f, Depth)
  BY DEF recDelete, DeletedBy, Tree
<1>6. Is(recDelete, Depth)
  <2> HIDE DEF Is
  <2> QED
    BY <1>4, <1>5
<1> DEFINE A == recDelete
<1> HIDE DEF A
<1>7. A = [ref \in Tree |-> [v \in Tree |-> DeletedBy(A, ref, v)]]
  BY <1>6 DEF Tree, A
<1> QED
  BY <1>7 DEF A

\* tree picks what is comparable with an end of it that v has.
Picks(tree, v, p) ==
  \E e \in Seq(Member) : EndsAt(tree, e) /\ Walk(v, e) # Missing /\ Comparable(e, p)

\* tree covers what is at and below its ends.
Covers(tree, p) == \E e \in Seq(Member) : EndsAt(tree, e) /\ IsPrefix(e, p)

\* A tree that is no leaf ends below its members.
LEMMA EndsOn ==
  ASSUME NEW t \in Reached, t \notin Leaves, NEW e \in Seq(Member), EndsAt(t, e)
  PROVE  e # << >> /\ IsObject(t) /\ EndsAt(At(t, Head(e)), Tail(e))
<1>1. e # << >>
  BY WalkEmpty DEF EndsAt
<1>2. Walk(t, e) = Walk(At(t, Head(e)), Tail(e))
  BY <1>1, WalkOn
<1>3. IsObject(t)
  <2> SUFFICES ASSUME ~IsObject(t) PROVE FALSE
    OBVIOUS
  <2>1. Walk(t, e) = Missing
    BY <1>1, WalkNowhere
  <2> QED
    BY <2>1, ReachedIs DEF EndsAt
<1> QED
  BY <1>1, <1>2, <1>3 DEF EndsAt

\* Picking goes down both values at once.
LEMMA PicksOn ==
  ASSUME NEW t \in Reached, t \notin Leaves, NEW v \in Reached,
         NEW k \in Member, NEW q \in Seq(Member)
  PROVE  Picks(t, v, <<k>> \o q) <=> Picks(At(t, k), At(v, k), q)
<1> DEFINE p == <<k>> \o q
<1>1. p \in Seq(Member) /\ p # << >> /\ Head(p) = k /\ Tail(p) = q
  BY Longer
<1> HIDE DEF p
<1>2. ASSUME NEW e \in Seq(Member), EndsAt(t, e), Walk(v, e) # Missing, Comparable(e, p)
      PROVE  Picks(At(t, k), At(v, k), q)
  <2>1. e # << >> /\ EndsAt(At(t, Head(e)), Tail(e)) /\ Tail(e) \in Seq(Member)
    BY <1>2, EndsOn, WalkOn
  <2>2. Walk(v, e) = Walk(At(v, Head(e)), Tail(e))
    BY <2>1, WalkOn
  <2>3. Head(e) = k /\ Comparable(Tail(e), q)
    BY <1>1, <1>2, <2>1, PrefixOn DEF Comparable
  <2> QED
    BY <1>2, <2>1, <2>2, <2>3 DEF Picks
<1>3. ASSUME NEW e \in Seq(Member), EndsAt(At(t, k), e), Walk(At(v, k), e) # Missing,
             Comparable(e, q)
      PROVE  Picks(t, v, p)
  <2>1. PICK f : f = <<k>> \o e
    OBVIOUS
  <2>2. f \in Seq(Member) /\ f # << >> /\ Head(f) = k /\ Tail(f) = e
    BY <2>1, Longer
  <2>3. Walk(t, f) = Walk(At(t, k), e) /\ Walk(v, f) = Walk(At(v, k), e)
    BY <2>2, WalkOn
  <2>4. Comparable(f, p)
    BY <1>1, <1>3, <2>2, PrefixOn DEF Comparable
  <2> QED
    BY <1>3, <2>2, <2>3, <2>4 DEF Picks, EndsAt
<1>4. Picks(t, v, p) <=> Picks(At(t, k), At(v, k), q)
  BY <1>2, <1>3 DEF Picks
<1> QED
  BY <1>4 DEF p

\* Covering goes down one level at a time.
LEMMA CoversOn ==
  ASSUME NEW t \in Reached, t \notin Leaves, NEW k \in Member, NEW q \in Seq(Member)
  PROVE  Covers(t, <<k>> \o q) <=> Covers(At(t, k), q)
<1> DEFINE p == <<k>> \o q
<1>1. p \in Seq(Member) /\ p # << >> /\ Head(p) = k /\ Tail(p) = q
  BY Longer
<1> HIDE DEF p
<1>2. ASSUME NEW e \in Seq(Member), EndsAt(t, e), IsPrefix(e, p)
      PROVE  Covers(At(t, k), q)
  <2>1. e # << >> /\ EndsAt(At(t, Head(e)), Tail(e)) /\ Tail(e) \in Seq(Member)
    BY <1>2, EndsOn, WalkOn
  <2>2. Head(e) = k /\ IsPrefix(Tail(e), q)
    BY <1>1, <1>2, <2>1, PrefixOn
  <2> QED
    BY <2>1, <2>2 DEF Covers
<1>3. ASSUME NEW e \in Seq(Member), EndsAt(At(t, k), e), IsPrefix(e, q)
      PROVE  Covers(t, p)
  <2>1. PICK f : f = <<k>> \o e
    OBVIOUS
  <2>2. f \in Seq(Member) /\ f # << >> /\ Head(f) = k /\ Tail(f) = e
    BY <2>1, Longer
  <2>3. Walk(t, f) = Walk(At(t, k), e)
    BY <2>2, WalkOn
  <2>4. IsPrefix(f, p)
    BY <1>1, <1>3, <2>2, PrefixOn
  <2> QED
    BY <1>3, <2>2, <2>3, <2>4 DEF Covers, EndsAt
<1>4. Covers(t, p) <=> Covers(At(t, k), q)
  BY <1>2, <1>3 DEF Covers
<1> QED
  BY <1>4 DEF p

\* res shows what keep says of what v shows.
Pruned(res, wl, in) ==
  \A p \in Seq(Member) : p # << >> =>
     Walk(res, p).is = IF Picks(wl, in, p) THEN Walk(in, p).is ELSE Missing.is

\* An object of which nothing is left had nothing that was picked.
LEMMA NothingPicked ==
  ASSUME NEW n \in 0..Depth, NEW wl \in Nested[n], IsObject(wl),
         NEW in \in Nested[n], IsObject(in),
         NEW res \in Nested[n], IsObject(res), Pruned(res, wl, in)
  PROVE  /\ res = EmptyObject => \A q \in Seq(Member) : ~Picks(wl, in, q)
         /\ res # EmptyObject => Picks(wl, in, << >>)
<1>1. wl \in Reached /\ in \in Reached /\ res \in Reached /\ wl \notin Leaves
  BY StepDown, ReachedIs
<1>2. ASSUME res = EmptyObject, NEW q \in Seq(Member), Picks(wl, in, q) PROVE FALSE
  <2>1. PICK e \in Seq(Member) : EndsAt(wl, e) /\ Walk(in, e) # Missing
    BY <1>2 DEF Picks
  <2>2. e # << >>
    BY <1>1, <2>1, EndsOn
  <2>3. Picks(wl, in, e)
    BY <2>1, PrefixEnds DEF Picks, Comparable
  <2>4. Walk(res, e).is # Missing.is
    BY <1>1, <2>1, <2>2, <2>3, WalkType, ReachedIs DEF Pruned
  <2>5. Walk(res, e) = Walk(At(res, Head(e)), Tail(e)) /\ Tail(e) \in Seq(Member)
    BY <1>1, <2>2, WalkOn
  <2>6. At(res, Head(e)) = Missing
    BY <1>2, EmptyNested DEF At
  <2>7. \A s \in Seq(Member) : Walk(Missing, s) = Missing
    <3>1. Missing \in Reached /\ ~IsObject(Missing)
      BY StepDown DEF Reached
    <3> QED
      BY <3>1, WalkEmpty, WalkNowhere
  <2> QED
    BY <2>4, <2>5, <2>6, <2>7
<1>3. ASSUME res # EmptyObject PROVE Picks(wl, in, << >>)
  <2>1. PICK k \in Keys(res) : TRUE
    BY <1>3, EmptyIsNothing
  <2>2. k \in Member
    BY <2>1, NestedValue
  <2>9. << >> \in Seq(Member)
    OBVIOUS
  <2>0. PICK z \in Seq(Member) : z = << >>
    BY <2>9
  <2>3. PICK p : p = <<k>> \o z
    OBVIOUS
  <2>4. p \in Seq(Member) /\ p # << >> /\ Head(p) = k /\ Tail(p) = z
    BY <2>2, <2>3, Longer
  <2>5. At(res, k) # Missing /\ At(res, k) \in Reached
    BY <1>1, <2>1, StepDown
  <2>6. Walk(res, p) = At(res, k)
    <3>1. Walk(res, p) = Walk(At(res, k), z)
      BY <1>1, <2>4, WalkOn
    <3>2. Walk(At(res, k), z) = At(res, k)
      BY <2>0, <2>5, WalkEmpty
    <3> QED
      BY <3>1, <3>2
  <2>7. Walk(res, p).is # Missing.is
    BY <2>5, <2>6, ReachedIs
  <2>8. Picks(wl, in, p)
    BY <2>4, <2>7 DEF Pruned
  <2> QED
    BY <2>8, PrefixEnds DEF Picks, Comparable
<1> QED
  BY <1>2, <1>3

\* Nothing is beyond what is missing.
LEMMA WalkMissing == \A s \in Seq(Member) : Walk(Missing, s) = Missing
<1>1. Missing \in Reached /\ ~IsObject(Missing)
  BY StepDown DEF Reached
<1> QED
  BY <1>1, WalkEmpty, WalkNowhere

PruneAt(n, wl, in) ==
  /\ AllowlistPrune[wl][in] \in Nested[n] /\ IsObject(AllowlistPrune[wl][in])
  /\ Pruned(AllowlistPrune[wl][in], wl, in)

\* One level of AllowlistPrune.
LEMMA PruneOn ==
  ASSUME NEW n \in 1..Depth, NEW wl \in Nested[n], IsObject(wl), NEW in \in Nested[n], IsObject(in),
         \A a \in Nested[n - 1], b \in Nested[n - 1] :
            IsObject(a) /\ IsObject(b) => PruneAt(n - 1, a, b)
  PROVE  PruneAt(n, wl, in)
<1> DEFINE Left(k) == KidLeft(AllowlistPrune, wl, in, k)
           ms == {k \in Keys(in) \cap Keys(wl) : Stays(wl.kids[k], Left(k))}
           f == [k \in ms |-> Left(k)]
           res == AllowlistPrune[wl][in]
<1>1. /\ n \in 0..Depth /\ n - 1 \in 0..Depth /\ wl \in Reached /\ in \in Reached
      /\ wl \in Tree /\ in \in Tree /\ wl \notin Leaves
  <2>1. n \in 0..Depth /\ n - 1 \in 0..Depth /\ n \in 0..Depth /\ Depth \in 0..Depth
    BY DepthAssumption
  <2>2. Nested[n] \subseteq Tree
    BY <2>1, NestedGrows DEF Tree
  <2> QED
    BY <2>1, <2>2, ReachedIs DEF Reached
<1>2. res = Object(f)
  BY <1>1, PruneDef DEF PrunedBy
<1>3. \A k \in Keys(in) : k \in Member /\ in.kids[k] \in Nested[n - 1] /\ At(in, k) = in.kids[k]
  <2>1. IsObject(in) /\ \A k \in Keys(in) : k \in Member /\ in.kids[k] \in Nested[n - 1]
    BY <1>1, NestedValue
  <2> QED
    BY <2>1 DEF At
<1>4. \A k \in Keys(wl) : wl.kids[k] \in Nested[n - 1] /\ At(wl, k) = wl.kids[k]
  <2>1. IsObject(wl) /\ \A k \in Keys(wl) : wl.kids[k] \in Nested[n - 1]
    BY <1>1, NestedValue
  <2> QED
    BY <2>1 DEF At
<1>5. \A k \in ms : Left(k) \in Nested[n - 1]
  <2> SUFFICES ASSUME NEW k \in ms PROVE Left(k) \in Nested[n - 1]
    OBVIOUS
  <2>1. k \in Keys(in) /\ k \in Keys(wl) /\ Stays(wl.kids[k], Left(k))
    OBVIOUS
  <2>2. CASE ~IsObject(wl.kids[k])
    BY <1>3, <2>1, <2>2 DEF KidLeft
  <2>3. CASE IsObject(wl.kids[k]) /\ IsObject(in.kids[k])
    BY <1>3, <1>4, <2>1, <2>3 DEF KidLeft, PruneAt
  <2>4. CASE IsObject(wl.kids[k]) /\ ~IsObject(in.kids[k])
    BY <2>1, <2>4 DEF KidLeft, Stays
  <2> QED
    BY <2>2, <2>3, <2>4
<1>6. f \in [ms -> Nested[n - 1]] /\ ms \in SUBSET Member
  <2>1. ms \in SUBSET Member
    BY <1>3
  <2> HIDE DEF ms, Left
  <2> QED
    BY <1>5, <2>1
<1>7. \A k \in ms : f[k] = Left(k)
  OBVIOUS
<1> HIDE DEF f
<1>8. res \in Nested[n] /\ IsObject(res) /\ res.kids = f /\ Keys(res) = ms
  <2> HIDE DEF ms
  <2> QED
    BY <1>2, <1>6, NestedObject
<1>9. res \in Reached
  BY <1>1, <1>8, StepDown
<1>10. \A k : At(res, k) = IF k \in ms THEN Left(k) ELSE Missing
  BY <1>7, <1>8 DEF At
<1> HIDE DEF res, ms
<1>11. ASSUME NEW k \in Member, NEW q \in Seq(Member)
       PROVE  Walk(At(res, k), q).is =
                IF Picks(At(wl, k), At(in, k), q) THEN Walk(At(in, k), q).is ELSE Missing.is
  <2>1. CASE k \notin Keys(wl) \/ k \notin Keys(in)
    <3>1. At(res, k) = Missing
      BY <1>10, <2>1 DEF ms
    <3>2. At(wl, k) = Missing \/ At(in, k) = Missing
      BY <2>1 DEF At
    <3>3. ~Picks(At(wl, k), At(in, k), q)
      BY <3>2, WalkMissing, ReachedIs, <1>1 DEF Picks, EndsAt
    <3> QED
      BY <3>1, <3>3, WalkMissing
  <2>2. ASSUME k \in Keys(wl), k \in Keys(in)
        PROVE  Walk(At(res, k), q).is =
                 IF Picks(At(wl, k), At(in, k), q) THEN Walk(At(in, k), q).is ELSE Missing.is
    <3>1. PICK a \in Nested[n - 1], b \in Nested[n - 1] :
            a = At(wl, k) /\ a = wl.kids[k] /\ b = At(in, k) /\ b = in.kids[k]
      BY <1>3, <1>4, <2>2
    <3>2. a \in Reached /\ b \in Reached /\ b # Missing
      BY <1>1, StepDown, NestedValue
    <3>3. k \in ms <=> Stays(a, Left(k))
      BY <2>2, <3>1 DEF ms
    <3>4. CASE ~IsObject(a)
      <4>1. At(res, k) = b
        BY <1>10, <3>1, <3>3, <3>4 DEF KidLeft, Stays
      <4>2. a \in Leaves
        BY <1>1, <3>4, NestedValue
      <4>3. Picks(a, b, q)
        <5>0. << >> \in Seq(Member)
          OBVIOUS
        <5>1. PICK z \in Seq(Member) : z = << >>
          BY <5>0
        <5>2. EndsAt(a, z) /\ Walk(b, z) # Missing /\ Comparable(z, q)
          <6>1. Walk(a, z) = a /\ Walk(b, z) = b
            BY <3>2, <5>1, WalkEmpty
          <6>2. IsPrefix(z, q)
            BY <5>1, PrefixEnds
          <6> QED
            BY <3>2, <4>2, <6>1, <6>2 DEF EndsAt, Comparable
        <5> QED
          BY <5>2 DEF Picks
      <4> QED
        BY <3>1, <4>1, <4>3
    <3>5. CASE IsObject(a) /\ IsObject(b)
      <4>1. PICK c : c = AllowlistPrune[a][b]
        OBVIOUS
      <4>2. c \in Nested[n - 1] /\ IsObject(c) /\ Pruned(c, a, b)
        BY <3>5, <4>1 DEF PruneAt
      <4>3. Left(k) = c
        BY <3>1, <3>5, <4>1 DEF KidLeft
      <4>4. CASE c = EmptyObject
        <5>1. At(res, k) = Missing
          BY <1>10, <3>3, <3>5, <4>3, <4>4 DEF Stays
        <5>2. ~Picks(a, b, q)
          BY <1>1, <3>5, <4>2, <4>4, NothingPicked
        <5> QED
          BY <3>1, <5>1, <5>2, WalkMissing
      <4>5. CASE c # EmptyObject
        <5>1. At(res, k) = c
          BY <1>10, <3>3, <3>5, <4>3, <4>5 DEF Stays
        <5>2. CASE q = << >>
          <6>1. Picks(a, b, q)
            BY <1>1, <3>5, <4>2, <4>5, <5>2, NothingPicked
          <6>2. c \in Reached /\ Walk(c, q) = c /\ Walk(b, q) = b
            BY <1>1, <3>2, <4>2, <5>2, WalkEmpty, StepDown
          <6>3. c.is = "object" /\ b.is = "object"
            BY <3>5, <4>2 DEF IsObject
          <6> QED
            BY <3>1, <5>1, <6>1, <6>2, <6>3
        <5>3. CASE q # << >>
          BY <3>1, <4>2, <5>1, <5>3 DEF Pruned
        <5> QED
          BY <5>2, <5>3
      <4> QED
        BY <4>4, <4>5
    <3>6. CASE IsObject(a) /\ ~IsObject(b)
      <4>1. At(res, k) = Missing
        BY <1>10, <3>1, <3>3, <3>6 DEF KidLeft, Stays
      <4>2. ~Picks(a, b, q)
        <5> SUFFICES ASSUME NEW e \in Seq(Member), EndsAt(a, e), Walk(b, e) # Missing PROVE FALSE
          BY DEF Picks
        <5>1. a \notin Leaves
          BY <3>2, <3>6, ReachedIs
        <5>2. e # << >>
          BY <3>2, <5>1, EndsOn
        <5> QED
          BY <3>2, <3>6, <5>2, WalkNowhere
      <4> QED
        BY <3>1, <4>1, <4>2, WalkMissing
    <3> QED
      BY <3>4, <3>5, <3>6
  <2> QED
    BY <2>1, <2>2
<1>12. Pruned(res, wl, in)
  <2> SUFFICES ASSUME NEW p \in Seq(Member), p # << >>
               PROVE  Walk(res, p).is = IF Picks(wl, in, p) THEN Walk(in, p).is ELSE Missing.is
    BY DEF Pruned
  <2>1. PICK k \in Member, q \in Seq(Member) : k = Head(p) /\ q = Tail(p) /\ p = <<k>> \o q
    BY <1>1, WalkOn
  <2>2. Walk(res, p) = Walk(At(res, k), q) /\ Walk(in, p) = Walk(At(in, k), q)
    BY <1>1, <1>9, <2>1, WalkOn
  <2>3. Picks(wl, in, p) <=> Picks(At(wl, k), At(in, k), q)
    BY <1>1, <2>1, PicksOn
  <2> QED
    BY <1>11, <2>2, <2>3
<1> QED
  BY <1>8, <1>12 DEF PruneAt, res

\* What AllowlistPrune leaves of an object (formatter.go:97-118): what is
\* comparable with an end of the tree that the object has.
LEMMA PruneKeeps ==
  \A wl \in Objects, in \in Objects : PruneAt(Depth, wl, in)
<1> DEFINE All(n) == \A a \in Nested[n], b \in Nested[n] :
                        IsObject(a) /\ IsObject(b) => PruneAt(n, a, b)
           P == {n \in 0..Depth : All(n)}
<1>1. 0 \in P
  <2>1. 0 \in 0..Depth
    BY DepthAssumption
  <2>2. \A a \in Nested[0] : ~IsObject(a)
    BY <2>1, NestedValue
  <2> QED
    BY <2>1, <2>2
<1>2. ASSUME NEW n \in 1..Depth, n - 1 \in P PROVE n \in P
  <2>1. All(n - 1) /\ n \in 0..Depth
    BY <1>2, DepthAssumption
  <2>2. All(n)
    BY <2>1, PruneOn
  <2> QED
    BY <2>1, <2>2
<1> HIDE DEF P
<1>3. Depth \in P
  <2>1. \A n \in 0..Depth : n \in P
    BY <1>1, <1>2, DepthAssumption, ByPrefixes
  <2> QED
    BY <2>1, DepthAssumption
<1> QED
  BY <1>3 DEF P, Objects, Tree

\* res shows what v shows where the tree does not cover it.
Uncovered(res, ref, v) ==
  \A p \in Seq(Member) :
     Walk(res, p).is = IF Covers(ref, p) THEN Missing.is ELSE Walk(v, p).is

DeleteAt(n, ref, v) ==
  /\ recDelete[ref][v] \in Nested[n] /\ (IsObject(v) => IsObject(recDelete[ref][v]))
  /\ Uncovered(recDelete[ref][v], ref, v)

\* A tree that is no leaf does not cover everything.
LEMMA CoversNot ==
  ASSUME NEW t \in Reached, t \notin Leaves
  PROVE  ~Covers(t, << >>)
<1> SUFFICES ASSUME NEW e \in Seq(Member), EndsAt(t, e), IsPrefix(e, << >>) PROVE FALSE
  BY DEF Covers
<1>1. e # << >>
  BY EndsOn
<1> QED
  BY <1>1, PrefixEnds

\* One level of recDelete.
LEMMA DeleteOn ==
  ASSUME NEW n \in 0..Depth, NEW ref \in Nested[n], IsObject(ref), NEW v \in Nested[n],
         n # 0 => \A a \in Nested[n - 1], b \in Nested[n - 1] : IsObject(a) => DeleteAt(n - 1, a, b)
  PROVE  DeleteAt(n, ref, v)
<1> DEFINE res == recDelete[ref][v]
           f(k) == IF k \in Keys(ref) THEN recDelete[ref.kids[k]][v.kids[k]] ELSE v.kids[k]
           ms == {k \in Keys(v) : k \in Keys(ref) => IsObject(ref.kids[k])}
           fs == [k \in ms |-> f(k)]
<1>1. /\ ref \in Reached /\ v \in Reached /\ ref \in Tree /\ v \in Tree /\ ref \notin Leaves
      /\ n # 0 /\ n \in 1..Depth /\ n - 1 \in 0..Depth
  <2>1. n # 0
    BY NestedValue
  <2>2. n \in 1..Depth /\ n - 1 \in 0..Depth /\ Depth \in 0..Depth
    BY <2>1, DepthAssumption
  <2>3. Nested[n] \subseteq Tree
    BY <2>2, NestedGrows DEF Tree
  <2> QED
    BY <2>1, <2>2, <2>3, ReachedIs DEF Reached
<1>2. CASE ~IsObject(v)
  <2>1. res = v
    BY <1>1, <1>2, PruneDef, DeleteDef DEF DeletedBy
  <2>2. ASSUME NEW p \in Seq(Member), Covers(ref, p) PROVE Walk(v, p) = Missing
    <3>1. p # << >>
      BY <1>1, <2>2, CoversNot
    <3> QED
      BY <1>1, <1>2, <3>1, WalkNowhere
  <2> QED
    BY <1>2, <2>1, <2>2 DEF DeleteAt, Uncovered
<1>3. ASSUME IsObject(v) PROVE DeleteAt(n, ref, v)
  <2>1. res = Object(fs)
    BY <1>1, <1>3, DeleteDef DEF DeletedBy
  <2>2. \A k \in Keys(v) : k \in Member /\ v.kids[k] \in Nested[n - 1] /\ At(v, k) = v.kids[k]
    <3>1. \A k \in Keys(v) : k \in Member /\ v.kids[k] \in Nested[n - 1]
      BY <1>1, <1>3, NestedValue
    <3> QED
      BY <1>3, <3>1 DEF At
  <2>3. \A k \in Keys(ref) : ref.kids[k] \in Nested[n - 1] /\ At(ref, k) = ref.kids[k]
    <3>1. \A k \in Keys(ref) : ref.kids[k] \in Nested[n - 1]
      BY <1>1, NestedValue
    <3> QED
      BY <3>1 DEF At
  <2>4. \A k \in ms : f(k) \in Nested[n - 1]
    <3> SUFFICES ASSUME NEW k \in ms PROVE f(k) \in Nested[n - 1]
      OBVIOUS
    <3>1. CASE k \in Keys(ref)
      <4>1. IsObject(ref.kids[k]) /\ ref.kids[k] \in Nested[n - 1] /\ v.kids[k] \in Nested[n - 1]
        BY <2>2, <2>3, <3>1
      <4> QED
        BY <1>1, <3>1, <4>1 DEF DeleteAt
    <3>2. CASE k \notin Keys(ref)
      BY <2>2, <3>2
    <3> QED
      BY <3>1, <3>2
  <2>5. fs \in [ms -> Nested[n - 1]] /\ ms \in SUBSET Member
    <3>1. ms \in SUBSET Member
      BY <2>2
    <3> HIDE DEF ms, f
    <3> QED
      BY <2>4, <3>1
  <2>6. \A k \in ms : fs[k] = f(k)
    OBVIOUS
  <2> HIDE DEF fs
  <2>7. res \in Nested[n] /\ IsObject(res) /\ res.kids = fs /\ Keys(res) = ms
    <3> HIDE DEF ms
    <3> QED
      BY <1>1, <2>1, <2>5, NestedObject
  <2>8. res \in Reached
    BY <2>7, StepDown
  <2>9. \A k : At(res, k) = IF k \in ms THEN f(k) ELSE Missing
    BY <2>6, <2>7 DEF At
  <2> HIDE DEF res, ms
  <2>10. ASSUME NEW k \in Member, NEW q \in Seq(Member)
         PROVE  Walk(At(res, k), q).is =
                  IF Covers(At(ref, k), q) THEN Missing.is ELSE Walk(At(v, k), q).is
    <3>1. CASE k \notin Keys(v)
      <4>1. At(res, k) = Missing /\ At(v, k) = Missing
        BY <2>9, <3>1 DEF ms, At
      <4> QED
        BY <4>1, WalkMissing
    <3>2. CASE k \in Keys(v) /\ k \notin Keys(ref)
      <4>1. At(res, k) = At(v, k)
        BY <2>2, <2>9, <3>2 DEF ms
      <4>2. At(ref, k) = Missing
        BY <3>2 DEF At
      <4>3. ~Covers(At(ref, k), q)
        BY <1>1, <4>2, WalkMissing, ReachedIs DEF Covers, EndsAt
      <4> QED
        BY <4>1, <4>3
    <3>3. CASE k \in Keys(v) /\ k \in Keys(ref)
      <4>1. PICK a \in Nested[n - 1], b \in Nested[n - 1] :
              a = At(ref, k) /\ a = ref.kids[k] /\ b = At(v, k) /\ b = v.kids[k]
        BY <2>2, <2>3, <3>3
      <4>2. CASE IsObject(a)
        <5>1. At(res, k) = recDelete[a][b]
          BY <2>9, <3>3, <4>1, <4>2 DEF ms
        <5>2. DeleteAt(n - 1, a, b)
          BY <1>1, <4>2
        <5> QED
          BY <4>1, <5>1, <5>2 DEF DeleteAt, Uncovered
      <4>3. CASE ~IsObject(a)
        <5>1. At(res, k) = Missing
          BY <2>9, <4>1, <3>3, <4>3 DEF ms
        <5>2. a \in Leaves /\ a \in Reached
          BY <1>1, <4>3, NestedValue, StepDown
        <5>3. << >> \in Seq(Member)
          OBVIOUS
        <5>4. EndsAt(a, << >>) /\ IsPrefix(<< >>, q)
          BY <5>2, WalkEmpty, PrefixEnds DEF EndsAt
        <5>5. Covers(a, q)
          BY <5>3, <5>4 DEF Covers
        <5> QED
          BY <4>1, <5>1, <5>5, WalkMissing
      <4> QED
        BY <4>2, <4>3
    <3> QED
      BY <3>1, <3>2, <3>3
  <2>11. ASSUME NEW p \in Seq(Member)
         PROVE  Walk(res, p).is = IF Covers(ref, p) THEN Missing.is ELSE Walk(v, p).is
    <3>1. CASE p = << >>
      <4>1. ~Covers(ref, p)
        BY <1>1, <3>1, CoversNot
      <4>2. Walk(res, p) = res /\ Walk(v, p) = v
        BY <1>1, <2>8, <3>1, WalkEmpty
      <4> QED
        BY <1>3, <2>7, <4>1, <4>2 DEF IsObject
    <3>2. CASE p # << >>
      <4>1. PICK k \in Member, q \in Seq(Member) : k = Head(p) /\ q = Tail(p) /\ p = <<k>> \o q
        BY <1>1, <3>2, WalkOn
      <4>2. Walk(res, p) = Walk(At(res, k), q) /\ Walk(v, p) = Walk(At(v, k), q)
        BY <1>1, <2>8, <3>2, <4>1, WalkOn
      <4>3. Covers(ref, p) <=> Covers(At(ref, k), q)
        BY <1>1, <4>1, CoversOn
      <4> QED
        BY <2>10, <4>2, <4>3
    <3> QED
      BY <3>1, <3>2
  <2> QED
    BY <2>7, <2>11 DEF DeleteAt, Uncovered, res
<1> QED
  BY <1>2, <1>3

\* What recDelete leaves of an object (formatter.go:196-213): all that is
\* not at or below an end of the tree.
LEMMA DeleteKeeps ==
  \A ref \in Objects, v \in Objects : DeleteAt(Depth, ref, v)
<1> DEFINE All(n) == \A a \in Nested[n], b \in Nested[n] : IsObject(a) => DeleteAt(n, a, b)
           P == {n \in 0..Depth : All(n)}
<1>1. 0 \in P
  <2>1. 0 \in 0..Depth
    BY DepthAssumption
  <2>2. \A a \in Nested[0] : ~IsObject(a)
    BY <2>1, NestedValue
  <2> QED
    BY <2>1, <2>2
<1>2. ASSUME NEW n \in 1..Depth, n - 1 \in P PROVE n \in P
  <2>1. All(n - 1) /\ n \in 0..Depth
    BY <1>2, DepthAssumption
  <2>2. All(n)
    BY <2>1, DeleteOn
  <2> QED
    BY <2>1, <2>2
<1> HIDE DEF P
<1>3. Depth \in P
  <2>1. \A n \in 0..Depth : n \in P
    BY <1>1, <1>2, DepthAssumption, ByPrefixes
  <2> QED
    BY <2>1, DepthAssumption
<1> QED
  BY <1>3 DEF P, Objects, Tree

----------------------------------------------------------------------------
(* The configurations.                                                     *)

FormatterTypes ==
  /\ remote.AllowList \in Seq(Entries) /\ remote.DenyList \in Seq(Entries)
  /\ DOMAIN remote.Mapping \subseteq Member /\ IsFiniteSet(DOMAIN remote.Mapping)
  /\ remote.Target \in Targets \cup {<< >>}
  /\ entity \in Objects

FormatterShape ==
  remote = [AllowList |-> remote.AllowList, DenyList |-> remote.DenyList,
            Mapping |-> remote.Mapping, Target |-> remote.Target, Group |-> remote.Group]

FormatterInv == FormatterTypes /\ FormatterShape

\* The configuration that asks for nothing has the types.
LEMMA NoDataTypes == NoData => FormatterInv
<1> SUFFICES ASSUME NoData PROVE FormatterInv
  OBVIOUS
<1>1. << >> \in Seq(Entries) /\ DOMAIN << >> = {} /\ IsFiniteSet({})
  BY FS_EmptySet
<1>2. remote.AllowList = << >> /\ remote.DenyList = << >> /\ remote.Mapping = << >>
      /\ remote.Target = << >>
  BY DEF NoData
<1>3. entity \in Objects
  BY ObjectsAre DEF NoData
<1>4. FormatterShape
  BY DEF NoData, FormatterShape
<1> QED
  BY <1>1, <1>2, <1>3, <1>4 DEF FormatterInv, FormatterTypes

\* The types are kept by every configuration and all data.
LEMMA FormatterStep == FormatterInv /\ [AnyData \/ Configure]_formatterVars => FormatterInv'
<1> SUFFICES ASSUME FormatterInv, [AnyData \/ Configure]_formatterVars PROVE FormatterInv'
  OBVIOUS
<1>1. CASE UNCHANGED formatterVars
  BY <1>1 DEF FormatterInv, FormatterTypes, FormatterShape, formatterVars
<1>2. CASE AnyData
  <2>1. entity' \in Objects
    BY <1>2, FormatterAssumption DEF AnyData, Objects
  <2> QED
    BY <1>2, <2>1 DEF AnyData, FormatterInv, FormatterTypes, FormatterShape
<1>3. ASSUME Configure PROVE FormatterInv'
  <2>1. UNCHANGED entity
    BY <1>3 DEF Configure
  <2>2. CASE \E e \in Entries : remote' = [remote EXCEPT !.AllowList = Append(@, e)]
    <3>1. PICK e \in Entries : remote' = [remote EXCEPT !.AllowList = Append(@, e)]
      BY <2>2
    <3>2. Append(remote.AllowList, e) \in Seq(Entries)
      BY DEF FormatterInv, FormatterTypes
    <3> QED
      BY <2>1, <3>1, <3>2 DEF FormatterInv, FormatterTypes, FormatterShape
  <2>3. CASE \E e \in Entries : remote' = [remote EXCEPT !.DenyList = Append(@, e)]
    <3>1. PICK e \in Entries : remote' = [remote EXCEPT !.DenyList = Append(@, e)]
      BY <2>3
    <3>2. Append(remote.DenyList, e) \in Seq(Entries)
      BY DEF FormatterInv, FormatterTypes
    <3> QED
      BY <2>1, <3>1, <3>2 DEF FormatterInv, FormatterTypes, FormatterShape
  <2>4. CASE \E k \in Member \ DOMAIN remote.Mapping, n \in NewNames :
               remote' = [remote EXCEPT !.Mapping =
                            [m \in DOMAIN @ \cup {k} |-> IF m = k THEN n ELSE @[m]]]
    <3>1. PICK k \in Member, n \in NewNames :
               remote' = [remote EXCEPT !.Mapping =
                            [m \in DOMAIN @ \cup {k} |-> IF m = k THEN n ELSE @[m]]]
      BY <2>4
    <3>2. DOMAIN remote'.Mapping = DOMAIN remote.Mapping \cup {k}
      BY <3>1 DEF FormatterInv, FormatterShape
    <3>3. IsFiniteSet(DOMAIN remote.Mapping \cup {k})
      BY FS_AddElement DEF FormatterInv, FormatterTypes
    <3>4. DOMAIN remote.Mapping \cup {k} \subseteq Member
      BY DEF FormatterInv, FormatterTypes
    <3>5. /\ remote'.AllowList = remote.AllowList /\ remote'.DenyList = remote.DenyList
          /\ remote'.Target = remote.Target
      BY <3>1 DEF FormatterInv, FormatterShape
    <3>6. FormatterShape'
      BY <3>1 DEF FormatterInv, FormatterShape
    <3> QED
      BY <2>1, <3>2, <3>3, <3>4, <3>5, <3>6 DEF FormatterInv, FormatterTypes
  <2>5. CASE \E t \in Targets : remote' = [remote EXCEPT !.Target = t]
    BY <2>1, <2>5 DEF FormatterInv, FormatterTypes, FormatterShape
  <2>6. CASE remote' = [remote EXCEPT !.Group = "group"]
    BY <2>1, <2>6 DEF FormatterInv, FormatterTypes, FormatterShape
  <2> QED
    BY <1>3, <2>2, <2>3, <2>4, <2>5, <2>6 DEF Configure
<1> QED
  BY <1>1, <1>2, <1>3

\* What Nodes shows of an object.
LEMMA NodesAre ==
  ASSUME NEW v \in Objects, NEW n
  PROVE  n \in Nodes(v) <=> \E p \in Path : n = <<p, Walk(v, p).is>> /\ Walk(v, p) # Missing
<1>1. \A p \in Path : p \in Seq(Member) /\ p # << >>
  BY PathIs
<1>2. v \in Reached /\ IsObject(v)
  BY ObjectsAre DEF Objects
<1>3. \A p \in Path : Walk(v, p) \in Reached
  BY <1>1, <1>2, WalkType
<1>4. \A p \in Path : Walk(v, p).is = Missing.is <=> Walk(v, p) = Missing
  BY <1>3, ReachedIs
<1>5. ASSUME NEW p \in Path, Walk(v, p) # Missing PROVE Head(p) \in Keys(v)
  <2> SUFFICES ASSUME Head(p) \notin Keys(v) PROVE FALSE
    OBVIOUS
  <2>1. At(v, Head(p)) = Missing
    BY DEF At
  <2>2. Walk(v, p) = Walk(At(v, Head(p)), Tail(p)) /\ Tail(p) \in Seq(Member)
    BY <1>1, <1>2, WalkOn
  <2> QED
    BY <1>5, <2>1, <2>2, WalkMissing
<1>6. ASSUME NEW p \in Path, n = <<p, Walk(v, p).is>>, Walk(v, p) # Missing
      PROVE  n \in Nodes(v)
  <2>1. p \in {q \in Path : Head(q) \in Keys(v)} /\ n[2] # Missing.is
    BY <1>4, <1>5, <1>6
  <2> QED
    BY <1>6, <2>1 DEF Nodes
<1>7. ASSUME n \in Nodes(v) PROVE \E p \in Path : n = <<p, Walk(v, p).is>> /\ Walk(v, p) # Missing
  <2>1. PICK p \in Path : n = <<p, Walk(v, p).is>>
    BY <1>7 DEF Nodes
  <2>2. n[2] # Missing.is
    BY <1>7 DEF Nodes
  <2> QED
    BY <1>4, <2>1, <2>2
<1> QED
  BY <1>6, <1>7

\* If what two objects show at a path is the same or nothing, so are the nodes.
LEMMA NodesKept ==
  ASSUME NEW v \in Objects, NEW res \in Objects, NEW keep,
         \A p \in Path : Walk(res, p).is = IF p \in keep THEN Walk(v, p).is ELSE Missing.is
  PROVE  Nodes(res) = {n \in Nodes(v) : n[1] \in keep}
<1>1. \A p \in Path : p \in Seq(Member)
  BY PathIs
<1>2. \A p \in Path : /\ Walk(v, p).is = Missing.is <=> Walk(v, p) = Missing
                      /\ Walk(res, p).is = Missing.is <=> Walk(res, p) = Missing
  BY <1>1, ObjectsAre, WalkType, ReachedIs
<1>3. ASSUME NEW n \in Nodes(res) PROVE n \in Nodes(v) /\ n[1] \in keep
  <2>1. PICK p \in Path : n = <<p, Walk(res, p).is>> /\ Walk(res, p) # Missing
    BY NodesAre
  <2>2. p \in keep /\ Walk(res, p).is = Walk(v, p).is /\ Walk(v, p) # Missing /\ n[1] = p
    BY <1>2, <2>1
  <2> QED
    BY <2>1, <2>2, NodesAre
<1>4. ASSUME NEW n \in Nodes(v), n[1] \in keep PROVE n \in Nodes(res)
  <2>1. PICK p \in Path : n = <<p, Walk(v, p).is>> /\ Walk(v, p) # Missing
    BY NodesAre
  <2>2. p \in keep /\ Walk(res, p).is = Walk(v, p).is /\ Walk(res, p) # Missing
    BY <1>2, <1>4, <2>1
  <2> QED
    BY <2>1, <2>2, NodesAre
<1> QED
  BY <1>3, <1>4

\* What passes a list is an object.
LEMMA Filtered ==
  ASSUME NEW v \in Objects, NEW list \in Seq(Entries)
  PROVE  allowlist(list, v) \in Objects /\ denylist(list, v) \in Objects
<1>1. FoldLeft(Allow, EmptyObject, list) \in Objects
  BY AllowTree DEF Allowing
<1>2. FoldLeft(buildDenyTree, EmptyObject, list) \in Objects
  BY DenyTree DEF Denying
<1> QED
  BY <1>1, <1>2, PruneKeeps, DeleteKeeps
     DEF allowlist, denylist, PruneAt, DeleteAt, Objects, Tree

\* An allow list keeps what is comparable with one of its entries that the
\* data has and that no later entry overrides.
LEMMA AllowlistKeeps ==
  ASSUME NEW v \in Objects, NEW list \in Seq(Entries)
  PROVE  Nodes(allowlist(list, v)) =
           {n \in Nodes(v) :
              \E e \in {m[1] : m \in Nodes(v)}
                         \cap {list[j] : j \in {j \in DOMAIN list : Holds(list, j)}} :
                 Comparable(e, n[1])}
<1> DEFINE T == FoldLeft(Allow, EmptyObject, list)
           there == {m[1] : m \in Nodes(v)}
                      \cap {list[j] : j \in {j \in DOMAIN list : Holds(list, j)}}
           keep == {p \in Path : Picks(T, v, p)}
           res == allowlist(list, v)
<1>1. /\ DOMAIN list = 1..Len(list)
      /\ \A j \in DOMAIN list : list[j] \in Path
  BY FormatterAssumption
<1>2. Allowing(T, list, Len(list)) /\ T \in Objects
  BY AllowTree DEF Allowing
<1>3. res = AllowlistPrune[T][v]
  BY DEF allowlist
<1> HIDE DEF T
<1>4. \A p \in Path : Walk(res, p).is = IF p \in keep THEN Walk(v, p).is ELSE Missing.is
  BY <1>2, <1>3, PruneKeeps, PathIs DEF PruneAt, Pruned
<1>5. Nodes(res) = {n \in Nodes(v) : n[1] \in keep}
  <2> HIDE DEF keep, res
  <2>1. res \in Objects
    BY Filtered DEF res
  <2> QED
    BY <1>4, <2>1, NodesKept
<1>6. ASSUME NEW e \in Seq(Member), EndsAt(T, e), Walk(v, e) # Missing PROVE e \in there
  <2>1. PICK j \in 1..Len(list) : list[j] = e /\ Lasts(list, j, Len(list))
    BY <1>2, <1>6 DEF Allowing
  <2>2. Holds(list, j)
    BY <1>1, <2>1 DEF Holds, Lasts
  <2>3. e \in Path
    BY <1>1, <2>1
  <2>4. <<e, Walk(v, e).is>> \in Nodes(v)
    BY <1>6, <2>3, NodesAre
  <2>5. e \in {m[1] : m \in Nodes(v)}
    <3>1. PICK m \in Nodes(v) : m = <<e, Walk(v, e).is>>
      BY <2>4
    <3>2. m[1] = e
      BY <3>1
    <3> QED
      BY <3>2
  <2> QED
    BY <1>1, <2>1, <2>2, <2>5
<1>7. ASSUME NEW e \in there PROVE e \in Seq(Member) /\ EndsAt(T, e) /\ Walk(v, e) # Missing
  <2>1. PICK j \in DOMAIN list : Holds(list, j) /\ e = list[j]
    OBVIOUS
  <2>2. PICK m \in Nodes(v) : e = m[1]
    OBVIOUS
  <2>3. e \in Path /\ e \in Seq(Member)
    BY <1>1, <2>1, PathIs
  <2>4. PICK p \in Path : m = <<p, Walk(v, p).is>> /\ Walk(v, p) # Missing
    BY NodesAre
  <2>5. Walk(v, e) # Missing
    BY <2>2, <2>4
  <2>6. Lasts(list, j, Len(list))
    BY <1>1, <2>1 DEF Holds, Lasts
  <2> QED
    BY <1>1, <1>2, <2>1, <2>3, <2>5, <2>6 DEF Allowing
<1>8. \A n \in Nodes(v) : n[1] \in keep <=> \E e \in there : Comparable(e, n[1])
  <2> SUFFICES ASSUME NEW n \in Nodes(v)
               PROVE  n[1] \in keep <=> \E e \in there : Comparable(e, n[1])
    OBVIOUS
  <2>1. PICK p \in Path : n = <<p, Walk(v, p).is>>
    BY NodesAre
  <2>2. n[1] = p
    BY <2>1
  <2> HIDE DEF there
  <2> QED
    BY <1>6, <1>7, <2>2 DEF Picks
<1> HIDE DEF keep, there
<1>9. Nodes(res) = {n \in Nodes(v) : \E e \in there : Comparable(e, n[1])}
  BY <1>5, <1>8
<1> QED
  BY <1>9 DEF there

\* A deny list removes what is at and below its entries.
LEMMA DenylistKeeps ==
  ASSUME NEW v \in Objects, NEW list \in Seq(Entries)
  PROVE  Nodes(denylist(list, v)) =
           {n \in Nodes(v) : \A j \in DOMAIN list : ~IsPrefix(list[j], n[1])}
<1> DEFINE T == FoldLeft(buildDenyTree, EmptyObject, list)
           keep == {p \in Path : ~Covers(T, p)}
           res == denylist(list, v)
<1>1. /\ DOMAIN list = 1..Len(list)
      /\ \A j \in DOMAIN list : list[j] \in Path /\ list[j] \in Seq(Member)
  BY FormatterAssumption, PathIs
<1>2. Denying(T, list, Len(list)) /\ T \in Objects
  BY DenyTree DEF Denying
<1>3. res = recDelete[T][v]
  BY DEF denylist
<1> HIDE DEF T
<1>4. \A p \in Path : Walk(res, p).is = IF p \in keep THEN Walk(v, p).is ELSE Missing.is
  BY <1>2, <1>3, DeleteKeeps, PathIs DEF DeleteAt, Uncovered
<1>5. Nodes(res) = {n \in Nodes(v) : n[1] \in keep}
  <2> HIDE DEF keep, res
  <2>1. res \in Objects
    BY Filtered DEF res
  <2> QED
    BY <1>4, <2>1, NodesKept
<1>6. \A p \in Path : Covers(T, p) <=> \E j \in DOMAIN list : IsPrefix(list[j], p)
  <2> SUFFICES ASSUME NEW p \in Path
               PROVE  Covers(T, p) <=> \E j \in DOMAIN list : IsPrefix(list[j], p)
    OBVIOUS
  <2>1. p \in Seq(Member)
    BY PathIs
  <2>2. ASSUME Covers(T, p) PROVE \E j \in DOMAIN list : IsPrefix(list[j], p)
    BY <1>1, <1>2, <2>2 DEF Covers, Denying
  <2>3. ASSUME NEW j \in DOMAIN list, IsPrefix(list[j], p) PROVE Covers(T, p)
    <3>1. PICK q \in Seq(Member) : EndsAt(T, q) /\ IsPrefix(q, list[j])
      BY <1>1, <1>2 DEF Denying
    <3>2. IsPrefix(q, p)
      BY <1>1, <2>1, <2>3, <3>1, PrefixEnds
    <3> QED
      BY <3>1, <3>2 DEF Covers
  <2> QED
    BY <2>2, <2>3
<1>7. \A n \in Nodes(v) : n[1] \in keep <=> \A j \in DOMAIN list : ~IsPrefix(list[j], n[1])
  <2> SUFFICES ASSUME NEW n \in Nodes(v)
               PROVE  n[1] \in keep <=> \A j \in DOMAIN list : ~IsPrefix(list[j], n[1])
    OBVIOUS
  <2>1. PICK p \in Path : n = <<p, Walk(v, p).is>>
    BY NodesAre
  <2>2. n[1] = p
    BY <2>1
  <2> QED
    BY <1>6, <2>2
<1> HIDE DEF keep, res
<1>8. Nodes(res) = {n \in Nodes(v) : \A j \in DOMAIN list : ~IsPrefix(list[j], n[1])}
  BY <1>5, <1>7
<1> QED
  BY <1>8 DEF res

\* In every state of the enumeration, for any lists, data and depth.
THEOREM FiltersExact == FormatterSpec => []FiltersAreExact
<1>1. ASSUME FormatterInv PROVE FiltersAreExact
  <2>1. entity \in Objects /\ remote.AllowList \in Seq(Entries) /\ remote.DenyList \in Seq(Entries)
    BY <1>1 DEF FormatterInv, FormatterTypes
  <2>2. CASE remote.AllowList # << >>
    <3>1. PropertyFilter(remote, entity) = allowlist(remote.AllowList, entity)
      BY <2>2 DEF PropertyFilter
    <3> QED
      BY <2>1, <2>2, <3>1, AllowlistKeeps DEF FiltersAreExact
  <2>3. CASE remote.AllowList = << >>
    <3>1. PropertyFilter(remote, entity) = denylist(remote.DenyList, entity)
      BY <2>3 DEF PropertyFilter
    <3> QED
      BY <2>1, <2>3, <3>1, DenylistKeeps DEF FiltersAreExact
  <2> QED
    BY <2>2, <2>3
<1> QED
  BY <1>1, NoDataTypes, FormatterStep, PTL DEF FormatterSpec

----------------------------------------------------------------------------
(* The sources of parameters.                                              *)

Levels == [data : Reached, broken : BOOLEAN]

\* Levels of the loop over a source.
LEMMA LevelAgain ==
  /\ \A v \in Reached : Level(v) \in Levels /\ Level(v) = [data |-> v, broken |-> FALSE]
  /\ \A l \in Levels : \A key : Follow(l, key) \in Levels
<1>1. \A v \in Reached : Level(v) \in Levels /\ Level(v) = [data |-> v, broken |-> FALSE]
  BY DEF Level, Levels
<1>2. ASSUME NEW l \in Levels, NEW key PROVE Follow(l, key) \in Levels
  <2>1. At(l.data, key) \in Reached
    BY StepDown DEF Levels
  <2> QED
    BY <2>1 DEF Follow, Levels
<1> QED
  BY <1>1, <1>2

\* After k names the loop has got through the first m of them.
Followed(l, v, list, k) ==
  /\ l \in Levels
  /\ \E m \in 0..k :
       /\ l.data = Walk(v, Upto(list, m)) /\ (l.broken <=> m < k)
       /\ \A j \in 1..m : IsObject(Walk(v, Upto(list, j)))
       /\ m < k => ~IsObject(Walk(v, Upto(list, m + 1)))

\* Before the first name of a source.
LEMMA FollowNone ==
  ASSUME NEW v \in Reached, NEW list \in Seq(Member)
  PROVE  Followed(Level(v), v, list, 0)
<1>1. Walk(v, Upto(list, 0)) = v
  BY WalkUpto
<1>2. Level(v).data = Walk(v, Upto(list, 0)) /\ ~Level(v).broken /\ Level(v) \in Levels
  BY <1>1, LevelAgain
<1>3. 0 \in 0..0 /\ ~(0 < 0) /\ \A j \in 1..0 : FALSE
  OBVIOUS
<1> QED
  BY <1>2, <1>3 DEF Followed

\* A further name of a source: the loop goes on or is broken from there.
LEMMA FollowOne ==
  ASSUME NEW v \in Reached, NEW list \in Seq(Member), NEW k \in 1..Len(list),
         NEW l, Followed(l, v, list, k - 1)
  PROVE  Followed(Follow(l, list[k]), v, list, k)
<1>1. PICK m \in 0..(k - 1) :
        /\ l.data = Walk(v, Upto(list, m)) /\ (l.broken <=> m < k - 1)
        /\ \A j \in 1..m : IsObject(Walk(v, Upto(list, j)))
        /\ m < k - 1 => ~IsObject(Walk(v, Upto(list, m + 1)))
  BY DEF Followed
<1>2. k \in Nat /\ m \in Nat /\ m \in 0..k
  OBVIOUS
<1>3. Walk(v, Upto(list, k)) = At(Walk(v, Upto(list, k - 1)), list[k])
  BY WalkUpto
<1>0. l \in Levels /\ Follow(l, list[k]) \in Levels
  BY LevelAgain DEF Followed
<1>4. CASE m < k - 1
  <2>1. l.broken /\ m < k
    BY <1>1, <1>2, <1>4
  <2>2. Follow(l, list[k]) = [l EXCEPT !.broken = TRUE]
    BY <2>1 DEF Follow
  <2>3. Follow(l, list[k]).data = Walk(v, Upto(list, m)) /\ Follow(l, list[k]).broken
    BY <1>0, <1>1, <2>2 DEF Levels
  <2> QED
    BY <1>0, <1>1, <1>2, <1>4, <2>1, <2>3 DEF Followed
<1>5. CASE ~(m < k - 1) /\ IsObject(Walk(v, Upto(list, k)))
  <2>1. m = k - 1 /\ ~l.broken /\ l.data = Walk(v, Upto(list, k - 1))
    BY <1>1, <1>2, <1>5
  <2>2. At(l.data, list[k]) = Walk(v, Upto(list, k))
    BY <1>3, <2>1
  <2>3. Follow(l, list[k]) = [l EXCEPT !.data = Walk(v, Upto(list, k))]
    BY <1>5, <2>1, <2>2 DEF Follow
  <2>4. Follow(l, list[k]).data = Walk(v, Upto(list, k)) /\ ~Follow(l, list[k]).broken
    BY <1>0, <2>1, <2>3 DEF Levels
  <2>5. \A j \in 1..k : j = k \/ j \in 1..m
    BY <1>2, <2>1
  <2>6. \A j \in 1..k : IsObject(Walk(v, Upto(list, j)))
    BY <1>1, <1>5, <2>5
  <2>7. k \in 0..k /\ ~(k < k)
    BY <1>2
  <2> QED
    BY <1>0, <2>4, <2>6, <2>7 DEF Followed
<1>6. CASE ~(m < k - 1) /\ ~IsObject(Walk(v, Upto(list, k)))
  <2>1. m = k - 1 /\ m + 1 = k /\ m < k /\ l.data = Walk(v, Upto(list, k - 1))
    BY <1>1, <1>2, <1>6
  <2>2. At(l.data, list[k]) = Walk(v, Upto(list, k))
    BY <1>3, <2>1
  <2>3. Follow(l, list[k]) = [l EXCEPT !.broken = TRUE]
    BY <1>6, <2>2 DEF Follow
  <2>4. Follow(l, list[k]).data = Walk(v, Upto(list, m)) /\ Follow(l, list[k]).broken
    BY <1>0, <1>1, <2>3 DEF Levels
  <2> QED
    BY <1>0, <1>1, <1>2, <1>6, <2>1, <2>4 DEF Followed
<1> QED
  BY <1>4, <1>5, <1>6

\* What the loop over all names but the last comes to (merging.go:336-353).
LEMMA FollowAll ==
  ASSUME NEW v \in Reached, NEW list \in Seq(Member)
  PROVE  Followed(FoldLeft(Follow, Level(v), list), v, list, Len(list))
<1> DEFINE n == Len(list)
           A == Levels
           G == [x \in A \X (1..n) |-> Follow(x[1], list[x[2]])]
           It(h) == h = [t \in SUBSET DOMAIN list |->
                           IF t = {} THEN Level(v) ELSE Follow(h[t \ {Max(t)}], list[Max(t)])]
<1>1. n \in Nat /\ DOMAIN list = 1..n
  OBVIOUS
<1>2. Level(v) \in A /\ \A a \in A, j \in 1..n : Follow(a, list[j]) \in A
  BY LevelAgain
<1>3. G \in [A \X (1..n) -> A]
  BY <1>2
<1>4. \A a \in A, j \in 1..n : G[<<a, j>>] = Follow(a, list[j])
  OBVIOUS
<1> HIDE DEF n, G, A
<1>5. PICK it : Folds(it, A, Level(v), G, n)
  BY <1>1, <1>2, <1>3, FoldExists
<1>6. It(it)
  <2>1. ASSUME NEW t \in SUBSET (1..n), t # {}
        PROVE  it[t] = Follow(it[t \ {Max(t)}], list[Max(t)])
    <3>1. Max(t) \in t /\ Max(t) \in 1..n /\ \A y \in t : Max(t) >= y
      BY <1>1, <2>1, Greatest DEF Max
    <3>2. it[t] = G[<<it[t \ {Max(t)}], Max(t)>>] /\ it[t \ {Max(t)}] \in A
      BY <3>1, <1>5 DEF Folds
    <3> QED
      BY <3>1, <3>2, <1>4
  <2>2. it = [t \in SUBSET (1..n) |-> it[t]] /\ it[{}] = Level(v)
    BY <1>5 DEF Folds
  <2> QED
    BY <2>1, <2>2, <1>1
<1> DEFINE fold == CHOOSE h : It(h)
<1>7. It(fold)
  BY <1>6
<1>8. FoldLeft(Follow, Level(v), list) = fold[1..n]
  BY <1>1 DEF FoldLeft, MapThenFoldSet
<1> HIDE DEF fold
<1>9. fold[1..0] = Level(v)
  BY <1>1, <1>7
<1>10. ASSUME NEW k \in 1..n
       PROVE  fold[1..k] = Follow(fold[1..(k - 1)], list[k])
  <2>1. 1..k \in SUBSET DOMAIN list /\ 1..k # {} /\ (1..k) \ {k} = 1..(k - 1)
    BY <1>1, Prefix
  <2>2. Max(1..k) = k
    BY <1>1, Prefix DEF Max
  <2> QED
    BY <1>7, <2>1, <2>2
<1> DEFINE P == {k \in 0..n : Followed(fold[1..k], v, list, k)}
<1>11. 0 \in P
  <2>1. Followed(Level(v), v, list, 0)
    BY FollowNone
  <2> QED
    BY <1>1, <1>9, <2>1
<1>12. ASSUME NEW k \in 1..n, k - 1 \in P PROVE k \in P
  <2>1. Followed(fold[1..(k - 1)], v, list, k - 1) /\ k \in 0..n /\ k \in 1..Len(list)
    BY <1>12, <1>1 DEF n
  <2>2. Followed(Follow(fold[1..(k - 1)], list[k]), v, list, k)
    BY <2>1, FollowOne
  <2> QED
    BY <1>10, <2>1, <2>2
<1> HIDE DEF P
<1>13. \A k \in 0..n : k \in P
  BY <1>1, <1>11, <1>12, ByPrefixes
<1>14. n \in P
  BY <1>1, <1>13
<1> QED
  BY <1>8, <1>14 DEF P, n

\* All names but the last, and the last.
LEMMA FrontLast ==
  ASSUME NEW s \in Seq(Member), s # << >>
  PROVE  /\ Front(s) \in Seq(Member) /\ Len(Front(s)) = Len(s) - 1 /\ Last(s) \in Member
         /\ Len(s) - 1 \in Nat /\ s = Append(Front(s), Last(s))
         /\ \A j \in 0..(Len(s) - 1) : Upto(Front(s), j) = Upto(s, j)
<1> DEFINE n == Len(s) - 1
           u == Front(s)
<1>1. n \in Nat /\ Len(s) = n + 1 /\ n \in 0..Len(s)
  BY EmptySeq
<1>2. u = Upto(s, n)
  BY DEF Front, Upto
<1>3. u \in Seq(Member)
  BY <1>1, <1>2, UptoIs
<1>4. Len(u) = n /\ \A j \in 1..n : u[j] = s[j]
  <2> HIDE DEF u
  <2>1. \A j \in 1..n : j \in 1..Len(s)
    BY <1>1
  <2> QED
    BY <1>1, <1>2, <2>1 DEF Upto
<1>5. Last(s) \in Member /\ Last(s) = s[n + 1]
  <2>1. n + 1 \in 1..Len(s)
    BY <1>1
  <2> QED
    BY <1>1, <2>1 DEF Last
<1>6. s = Append(u, Last(s))
  <2> HIDE DEF u, n
  <2>0. Append(u, Last(s)) \in Seq(Member)
    BY <1>3, <1>5
  <2>1. PICK w \in Seq(Member) : w = Append(u, Last(s))
    BY <2>0
  <2>2. Len(w) = n + 1 /\ w[n + 1] = Last(s) /\ \A j \in 1..n : w[j] = u[j]
    BY <1>1, <1>3, <1>4, <1>5, <2>1
  <2>3. \A j \in 1..(n + 1) : j = n + 1 \/ j \in 1..n
    BY <1>1
  <2>4. \A j \in 1..Len(s) : s[j] = w[j]
    BY <1>1, <1>4, <1>5, <2>2, <2>3
  <2> QED
    BY <1>1, <2>1, <2>2, <2>4, SeqEqual
<1>7. ASSUME NEW j \in 0..n PROVE Upto(u, j) = Upto(s, j)
  <2> HIDE DEF u, n
  <2>1. j \in 0..Len(u) /\ j \in 0..Len(s)
    BY <1>1, <1>4
  <2>2. PICK a \in Seq(Member), b \in Seq(Member) : a = Upto(u, j) /\ b = Upto(s, j)
    BY <1>3, <2>1, UptoIs
  <2>3. Len(a) = j /\ Len(b) = j /\ \A x \in 1..j : a[x] = u[x] /\ b[x] = s[x]
    BY <1>3, <2>1, <2>2 DEF Upto
  <2>4. \A x \in 1..j : x \in 1..n
    BY <1>1
  <2> QED
    BY <1>4, <2>2, <2>3, <2>4, SeqEqual
<1> QED
  BY <1>1, <1>3, <1>4, <1>5, <1>6, <1>7

\* How far a path is passable.
LEMMA PassableIs ==
  ASSUME NEW v, NEW s \in Seq(Member), NEW m \in 0..Len(s),
         \A j \in 1..m : IsObject(Walk(v, Upto(s, j))),
         m < Len(s) => ~IsObject(Walk(v, Upto(s, m + 1)))
  PROVE  Passable(v, s) = Upto(s, m)
<1> DEFINE Passes(x) == \A j \in 1..x : IsObject(Walk(v, SubSeq(s, 1, j)))
           ends == {x \in 0..Len(s) : Passes(x)}
           Most(x) == \A y \in ends : y <= x
<1>1. m \in ends
  BY DEF Upto
<1>2. ASSUME NEW y \in ends PROVE y <= m
  <2> SUFFICES ASSUME ~(y <= m) PROVE FALSE
    OBVIOUS
  <2>1. y \in Nat /\ m \in Nat /\ m < Len(s) /\ m + 1 \in 1..y
    OBVIOUS
  <2>2. Passes(y)
    OBVIOUS
  <2> QED
    BY <2>1, <2>2 DEF Upto
<1>3. Most(m)
  BY <1>2
<1>4. \A x \in ends : Most(x) => x = m
  <2> SUFFICES ASSUME NEW x \in ends, Most(x) PROVE x = m
    OBVIOUS
  <2>1. m <= x /\ x <= m /\ x \in Nat /\ m \in Nat
    BY <1>1, <1>2
  <2> QED
    BY <2>1
<1> HIDE DEF ends, Most
<1>5. (CHOOSE x \in ends : Most(x)) = m
  BY <1>1, <1>3, <1>4
<1> QED
  BY <1>5 DEF Passable, Upto, ends, Most

\* What the source of a parameter finds in an object.
LEMMA FoundIs ==
  ASSUME NEW v \in Objects, NEW source \in Path
  PROVE  \/ Found(v, source) = Walk(v, source)
         \/ /\ Walk(v, source) = Missing
            /\ Len(Passable(v, Front(source))) < Len(source) - 1
            /\ Found(v, source) = Walk(v, Append(Passable(v, Front(source)), Last(source)))
<1> DEFINE u == Front(source)
           n == Len(source) - 1
           last == Last(source)
<1>1. v \in Reached /\ source \in Seq(Member) /\ source # << >>
  BY ObjectsAre, PathIs
<1>2. /\ u \in Seq(Member) /\ Len(u) = n /\ last \in Member /\ n \in Nat
      /\ source = Append(u, last)
      /\ \A j \in 0..n : Upto(u, j) = Upto(source, j)
  BY <1>1, FrontLast
<1> DEFINE l == FoldLeft(Follow, Level(v), u)
<1>3. Found(v, source) = At(l.data, last)
  BY DEF Found
<1>4. Followed(l, v, u, n)
  <2> HIDE DEF n
  <2>1. Followed(l, v, u, Len(u))
    BY <1>1, <1>2, FollowAll
  <2> QED
    BY <1>2, <2>1
<1> HIDE DEF u, n, last, l
<1>5. PICK m \in 0..n :
        /\ l.data = Walk(v, Upto(u, m))
        /\ \A j \in 1..m : IsObject(Walk(v, Upto(u, j)))
        /\ m < n => ~IsObject(Walk(v, Upto(u, m + 1)))
  BY <1>4 DEF Followed
<1>6. PICK w \in Seq(Member) : w = Upto(u, m) /\ Len(w) = m
  <2>1. m \in 0..Len(u)
    BY <1>2
  <2>2. Upto(u, m) \in Seq(Member)
    BY <1>2, <2>1, UptoIs
  <2>3. Len(Upto(u, m)) = m
    BY <1>2, <2>1 DEF Upto
  <2> QED
    BY <2>2, <2>3
<1>7. Passable(v, u) = w
  BY <1>2, <1>5, <1>6, PassableIs
<1>8. Found(v, source) = At(Walk(v, w), last)
  BY <1>3, <1>5, <1>6
<1>9. Walk(v, Append(w, last)) = At(Walk(v, w), last)
  BY <1>1, <1>2, WalkAppend
<1>10. CASE m = n
  <2>1. w = u
    BY <1>2, <1>6, <1>10, UptoIs
  <2> QED
    BY <1>2, <1>8, <1>9, <2>1
<1>11. CASE m # n
  <2>1. m < n /\ m + 1 \in 0..n /\ m + 1 \in 0..Len(source) /\ n = Len(source) - 1
    BY <1>1, <1>2, <1>11 DEF n
  <2>2. PICK x \in Seq(Member) : x = Upto(source, m + 1)
    BY <1>1, <2>1, UptoIs
  <2>3. PICK t \in Seq(Member) : source = x \o t
    <3>1. \E t \in Seq(Member) : source = Upto(source, m + 1) \o t
      BY <1>1, <2>1, UptoIs
    <3> QED
      BY <2>2, <3>1
  <2>4. ~IsObject(Walk(v, x)) /\ Walk(v, x) \in Reached
    <3>1. x = Upto(u, m + 1)
      BY <1>2, <2>1, <2>2
    <3>2. Walk(v, x) \in Reached
      BY <1>1, WalkType
    <3> QED
      BY <1>5, <2>1, <3>1, <3>2
  <2>5. t # << >>
    <3>1. Len(x) = m + 1
      BY <1>1, <2>1, <2>2 DEF Upto
    <3>2. Len(source) # Len(x)
      BY <1>1, <2>1, <3>1
    <3> QED
      BY <2>3, <3>2, ConcatEmptySeq
  <2>6. Walk(v, source) = Walk(Walk(v, x), t)
    BY <1>1, <2>3, WalkConcat
  <2>7. Walk(v, source) = Missing
    BY <2>4, <2>5, <2>6, WalkNowhere
  <2> QED
    BY <1>6, <1>7, <1>8, <1>9, <2>1, <2>7 DEF u, last
<1> QED
  BY <1>10, <1>11

\* For any data and depth: a parameter gets the value its source names, or
\* the one of the last name beside the first that is missing, and no other.
THEOREM Sources == FormatterSpec => []SourcesAreFollowed
<1>1. ASSUME FormatterInv PROVE SourcesAreFollowed
  <2>1. entity \in Objects /\ \A source \in Entries : source \in Path
    BY <1>1, FormatterAssumption DEF FormatterInv, FormatterTypes
  <2> QED
    BY <2>1, FoundIs DEF SourcesAreFollowed
<1> QED
  BY <1>1, NoDataTypes, FormatterStep, PTL DEF FormatterSpec

----------------------------------------------------------------------------
(* Renamings.                                                              *)

\* Objects with some of these names, and these values.
Holding(names, values) == [is : {"object"}, kids : UNION {[ms -> values] : ms \in SUBSET names}]

\* The parts of such an object.
LEMMA HoldingIs ==
  ASSUME NEW names, NEW values, NEW d \in Holding(names, values)
  PROVE  /\ IsObject(d) /\ d = Object(d.kids) /\ Keys(d) \subseteq names
         /\ d.kids = [k \in Keys(d) |-> d.kids[k]] /\ \A k \in Keys(d) : d.kids[k] \in values
<1>1. PICK ms \in SUBSET names : d.kids \in [ms -> values]
  BY DEF Holding
<1>2. d = [is |-> "object", kids |-> d.kids]
  BY DEF Holding
<1>3. Keys(d) = ms
  BY <1>1 DEF Keys
<1> QED
  BY <1>1, <1>2, <1>3 DEF IsObject, Object

\* Such an object from its parts.
LEMMA HoldingMade ==
  ASSUME NEW names, NEW values, NEW ms \in SUBSET names, NEW f \in [ms -> values]
  PROVE  Object(f) \in Holding(names, values) /\ Object(f).kids = f /\ Keys(Object(f)) = ms
BY DEF Holding, Object, Keys

\* What one renaming makes of an object.
LEMMA RenameIs ==
  ASSUME NEW names, NEW values, NEW d \in Holding(names, values),
         NEW mapping, NEW former, Head(mapping[former]) \in names, NEW res, res = Rename(mapping, d, former)
  PROVE  /\ res \in Holding(names, values)
         /\ former \notin Keys(d) => res = d
         /\ former \in Keys(d) =>
              /\ Keys(res) = (Keys(d) \cup {Head(mapping[former])}) \ {former}
              /\ \A k \in Keys(res) : res.kids[k] = IF k = Head(mapping[former]) THEN d.kids[former]
                                                ELSE d.kids[k]
<1> DEFINE new == Head(mapping[former])
           all == Keys(d) \cup {new}
           ms == all \ {former}
           f == [k \in all |-> IF k = new THEN d.kids[former] ELSE d.kids[k]]
           g == [k \in ms |-> f[k]]
<1>1. CASE former \notin Keys(d)
  BY <1>1 DEF Rename
<1>2. CASE former \in Keys(d)
  <2>1. Keys(d) \subseteq names /\ \A k \in Keys(d) : d.kids[k] \in values
    BY HoldingIs
  <2>2. Put(d, new, d.kids[former]) = Object(f)
    BY DEF Put
  <2>3. f \in [all -> values] /\ all \in SUBSET names /\ ms \in SUBSET names /\ ms \subseteq all
    <3>1. \A k \in all : (IF k = new THEN d.kids[former] ELSE d.kids[k]) \in values
      BY <1>2, <2>1
    <3>2. all \in SUBSET names
      BY <2>1
    <3> HIDE DEF all, new
    <3> QED
      BY <3>1, <3>2
  <2>4. \A k \in all : f[k] = IF k = new THEN d.kids[former] ELSE d.kids[k]
    OBVIOUS
  <2>5. Object(f) \in Holding(names, values) /\ Object(f).kids = f /\ Keys(Object(f)) = all
    <3>1. f \in [all -> values] /\ all \in SUBSET names
      BY <2>3
    <3> HIDE DEF f, all, ms, new
    <3> QED
      BY ONLY <3>1, HoldingMade
  <2> HIDE DEF f
  <2>6. res = Object(g)
    <3>1. res = Without(Object(f), {former})
      BY <1>2, <2>2 DEF Rename
    <3> QED
      BY <2>5, <3>1 DEF Without
  <2>7. g \in [ms -> values] /\ \A k \in ms : g[k] = f[k]
    BY <2>3
  <2> HIDE DEF g
  <2>8. Object(g) \in Holding(names, values) /\ Object(g).kids = g /\ Keys(Object(g)) = ms
    <3>1. g \in [ms -> values] /\ ms \in SUBSET names
      BY <2>3, <2>7
    <3> HIDE DEF ms, all, new
    <3> QED
      BY ONLY <3>1, HoldingMade
  <2> QED
    BY <1>2, <2>4, <2>6, <2>7, <2>8
<1> QED
  BY <1>1, <1>2

\* No new name is the former key of a renaming, or given to two keys of p.
Unambiguous(mapping, p) ==
  LET former == DOMAIN mapping \cap Keys(p)
  IN /\ \A a, b \in former : Head(mapping[a]) = Head(mapping[b]) => a = b
     /\ \A a \in former : Head(mapping[a]) \notin DOMAIN mapping

NewOnes(mapping, p, done) == {Head(mapping[x]) : x \in DOMAIN mapping \cap Keys(p) \cap done}

\* d is what the renamings of the keys done have made of p.
Renamed(d, mapping, p, done) ==
  /\ Keys(d) = (Keys(p) \ done) \cup NewOnes(mapping, p, done)
  /\ \A x \in DOMAIN mapping \cap Keys(p) \cap done : d.kids[Head(mapping[x])] = p.kids[x]
  /\ \A n \in Keys(p) \ done : n \notin NewOnes(mapping, p, done) => d.kids[n] = p.kids[n]

\* A further renaming.
LEMMA RenameOne ==
  ASSUME NEW names, NEW values, NEW d \in Holding(names, values), NEW mapping, NEW p,
         Unambiguous(mapping, p), NEW done \in SUBSET DOMAIN mapping,
         NEW former \in DOMAIN mapping \ done, Head(mapping[former]) \in names,
         Renamed(d, mapping, p, done)
  PROVE  Renamed(Rename(mapping, d, former), mapping, p, done \cup {former})
<1> DEFINE all == done \cup {former}
           D == DOMAIN mapping
           new == Head(mapping[former])
           had == NewOnes(mapping, p, done)
           has == NewOnes(mapping, p, all)
<1>1. PICK res : res = Rename(mapping, d, former)
  OBVIOUS
<1>2. /\ res \in Holding(names, values)
      /\ former \notin Keys(d) => res = d
      /\ former \in Keys(d) =>
           /\ Keys(res) = (Keys(d) \cup {new}) \ {former}
           /\ \A k \in Keys(res) : res.kids[k] = IF k = new THEN d.kids[former] ELSE d.kids[k]
  BY <1>1, RenameIs
<1>3. /\ Keys(d) = (Keys(p) \ done) \cup had
      /\ \A x \in D \cap Keys(p) \cap done : d.kids[Head(mapping[x])] = p.kids[x]
      /\ \A n \in Keys(p) \ done : n \notin had => d.kids[n] = p.kids[n]
  BY DEF Renamed
<1>4. had \cap D = {} /\ \A x \in D \cap Keys(p) \cap done : Head(mapping[x]) \in had
  BY DEF NewOnes, Unambiguous
<1>5. former \in Keys(d) <=> former \in Keys(p)
  BY <1>3, <1>4
<1>6. CASE former \notin Keys(p)
  <2>1. D \cap Keys(p) \cap all = D \cap Keys(p) \cap done /\ Keys(p) \ all = Keys(p) \ done
    BY <1>6
  <2>2. has = had
    BY <2>1 DEF NewOnes
  <2>3. res = d
    BY <1>2, <1>5, <1>6
  <2> HIDE DEF all, had, has
  <2>4. Renamed(res, mapping, p, all)
    BY <1>3, <2>1, <2>2, <2>3 DEF Renamed, had, has
  <2> QED
    BY <1>1, <2>4 DEF all
<1>7. CASE former \in Keys(p)
  <2>1. D \cap Keys(p) \cap all = (D \cap Keys(p) \cap done) \cup {former}
    BY <1>7
  <2>2. has = had \cup {new}
    <3>1. \A n : n \in has <=> n \in had \/ n = new
      <4> HIDE DEF D, all, new
      <4> QED
        BY <2>1 DEF NewOnes, D, new
    <3> QED
      BY <3>1
  <2>3. new \notin D /\ new \notin had
    BY <1>7 DEF Unambiguous, NewOnes
  <2>4. former \notin had /\ former # new
    BY <1>4, <2>3
  <2>5. /\ Keys(res) = (Keys(d) \cup {new}) \ {former}
        /\ \A k \in Keys(res) : res.kids[k] = IF k = new THEN d.kids[former] ELSE d.kids[k]
    BY <1>2, <1>5, <1>7
  <2>6. d.kids[former] = p.kids[former]
    BY <1>3, <1>7, <2>4
  <2> HIDE DEF had, has, D, new
  <2>7. Keys(res) = (Keys(p) \ all) \cup has
    BY <1>3, <2>2, <2>4, <2>5
  <2>8. ASSUME NEW x \in D \cap Keys(p) \cap all PROVE res.kids[Head(mapping[x])] = p.kids[x]
    <3>1. CASE x = former
      <4>1. new \in Keys(res)
        BY <2>4, <2>5
      <4> QED
        BY <2>5, <2>6, <3>1, <4>1 DEF new
    <3>2. CASE x # former
      <4>1. x \in D \cap Keys(p) \cap done
        BY <3>2
      <4>2. Head(mapping[x]) \in had /\ Head(mapping[x]) # new /\ Head(mapping[x]) \in Keys(res)
        BY <1>4, <2>2, <2>3, <2>7, <4>1
      <4> QED
        BY <1>3, <2>5, <4>1, <4>2
    <3> QED
      BY <3>1, <3>2
  <2>9. ASSUME NEW n \in Keys(p) \ all, n \notin has PROVE res.kids[n] = p.kids[n]
    <3>1. n \in Keys(res) /\ n # new /\ n \in Keys(p) \ done /\ n \notin had
      BY <2>2, <2>7, <2>9
    <3> QED
      BY <1>3, <2>5, <3>1
  <2>10. Renamed(res, mapping, p, all)
    BY <2>7, <2>8, <2>9 DEF Renamed, has, D
  <2> QED
    BY <1>1, <2>10
<1> QED
  BY <1>6, <1>7

\* The first k keys of an order.
Firsts(list, k) == {list[j] : j \in 1..k}

RenamedTo(names, values, d, mapping, p, list, k) ==
  d \in Holding(names, values) /\ Renamed(d, mapping, p, Firsts(list, k))

\* Before the first renaming.
LEMMA RenameNone ==
  ASSUME NEW names, NEW values, NEW p \in Holding(names, values), NEW mapping, NEW list
  PROVE  RenamedTo(names, values, p, mapping, p, list, 0)
<1>1. Firsts(list, 0) = {}
  BY DEF Firsts
<1> QED
  BY <1>1 DEF RenamedTo, Renamed, NewOnes

\* The next renaming of an order.
LEMMA RenameNext ==
  ASSUME NEW names, NEW values, NEW mapping, NEW p, Unambiguous(mapping, p),
         \A x \in DOMAIN mapping : Head(mapping[x]) \in names,
         NEW list \in Seq(DOMAIN mapping),
         \A a, b \in 1..Len(list) : a # b => list[a] # list[b],
         NEW k \in 1..Len(list), NEW d, RenamedTo(names, values, d, mapping, p, list, k - 1)
  PROVE  RenamedTo(names, values, Rename(mapping, d, list[k]), mapping, p, list, k)
<1>1. Len(list) \in Nat /\ list[k] \in DOMAIN mapping
  OBVIOUS
<1>2. \A j \in 1..k : j \in 1..Len(list) /\ (j = k \/ j \in 1..(k - 1))
  BY <1>1
<1>3. \A j \in 1..(k - 1) : j \in 1..k /\ j # k /\ j \in 1..Len(list)
  BY <1>1
<1>4. Firsts(list, k) = Firsts(list, k - 1) \cup {list[k]}
  <2>1. k \in 1..k
    BY <1>1
  <2> QED
    BY <1>2, <1>3, <2>1 DEF Firsts
<1>5. Firsts(list, k - 1) \in SUBSET DOMAIN mapping /\ list[k] \notin Firsts(list, k - 1)
  BY <1>3 DEF Firsts
<1>6. d \in Holding(names, values) /\ Renamed(d, mapping, p, Firsts(list, k - 1))
  BY DEF RenamedTo
<1>7. Rename(mapping, d, list[k]) \in Holding(names, values)
  BY <1>1, <1>6, RenameIs
<1>8. Renamed(Rename(mapping, d, list[k]), mapping, p, Firsts(list, k - 1) \cup {list[k]})
  BY <1>1, <1>5, <1>6, RenameOne
<1> QED
  BY <1>4, <1>7, <1>8 DEF RenamedTo

RenamedIn(mapping, p, list) == FoldLeft(LAMBDA d, former : Rename(mapping, d, former), p, list)

\* All renamings, in one order (formatter.go:69-74).
LEMMA RenameAll ==
  ASSUME NEW names, NEW values, NEW mapping, NEW p \in Holding(names, values),
         Unambiguous(mapping, p),
         \A x \in DOMAIN mapping : Head(mapping[x]) \in names,
         NEW list \in Seq(DOMAIN mapping),
         \A a, b \in 1..Len(list) : a # b => list[a] # list[b]
  PROVE  RenamedTo(names, values, RenamedIn(mapping, p, list), mapping, p, list, Len(list))
<1> DEFINE n == Len(list)
           A == Holding(names, values)
           G == [x \in A \X (1..n) |-> Rename(mapping, x[1], list[x[2]])]
           It(h) == h = [t \in SUBSET DOMAIN list |->
                           IF t = {} THEN p ELSE Rename(mapping, h[t \ {Max(t)}], list[Max(t)])]
<1>1. n \in Nat /\ DOMAIN list = 1..n
  OBVIOUS
<1>2. p \in A /\ \A a \in A, j \in 1..n : Rename(mapping, a, list[j]) \in A
  BY <1>1, RenameIs
<1>3. G \in [A \X (1..n) -> A]
  BY <1>2
<1>4. \A a \in A, j \in 1..n : G[<<a, j>>] = Rename(mapping, a, list[j])
  OBVIOUS
<1> HIDE DEF n, G, A
<1>5. PICK it : Folds(it, A, p, G, n)
  BY <1>1, <1>2, <1>3, FoldExists
<1>6. It(it)
  <2>1. ASSUME NEW t \in SUBSET (1..n), t # {}
        PROVE  it[t] = Rename(mapping, it[t \ {Max(t)}], list[Max(t)])
    <3>1. Max(t) \in t /\ Max(t) \in 1..n /\ \A y \in t : Max(t) >= y
      BY <1>1, <2>1, Greatest DEF Max
    <3>2. it[t] = G[<<it[t \ {Max(t)}], Max(t)>>] /\ it[t \ {Max(t)}] \in A
      BY <3>1, <1>5 DEF Folds
    <3> QED
      BY <3>1, <3>2, <1>4
  <2>2. it = [t \in SUBSET (1..n) |-> it[t]] /\ it[{}] = p
    BY <1>5 DEF Folds
  <2> QED
    BY <2>1, <2>2, <1>1
<1> DEFINE fold == CHOOSE h : It(h)
<1>7. It(fold)
  BY <1>6
<1>8. RenamedIn(mapping, p, list) = fold[1..n]
  BY <1>1 DEF RenamedIn, FoldLeft, MapThenFoldSet
<1> HIDE DEF fold
<1>9. fold[1..0] = p
  BY <1>1, <1>7
<1>10. ASSUME NEW k \in 1..n
       PROVE  fold[1..k] = Rename(mapping, fold[1..(k - 1)], list[k])
  <2>1. 1..k \in SUBSET DOMAIN list /\ 1..k # {} /\ (1..k) \ {k} = 1..(k - 1)
    BY <1>1, Prefix
  <2>2. Max(1..k) = k
    BY <1>1, Prefix DEF Max
  <2> QED
    BY <1>7, <2>1, <2>2
<1> DEFINE P == {k \in 0..n : RenamedTo(names, values, fold[1..k], mapping, p, list, k)}
<1>11. 0 \in P
  <2>1. RenamedTo(names, values, p, mapping, p, list, 0)
    BY RenameNone
  <2> QED
    BY <1>1, <1>9, <2>1
<1>12. ASSUME NEW k \in 1..n, k - 1 \in P PROVE k \in P
  <2>1. RenamedTo(names, values, fold[1..(k - 1)], mapping, p, list, k - 1) /\ k \in 0..n /\ k \in 1..Len(list)
    BY <1>12, <1>1 DEF n
  <2>2. RenamedTo(names, values, Rename(mapping, fold[1..(k - 1)], list[k]), mapping, p, list, k)
    BY <2>1, RenameNext
  <2> QED
    BY <1>10, <2>1, <2>2
<1> HIDE DEF P
<1>13. \A k \in 0..n : k \in P
  BY <1>1, <1>11, <1>12, ByPrefixes
<1>14. n \in P
  BY <1>1, <1>13
<1> QED
  BY <1>8, <1>14 DEF P, n

\* The orders of a finite set: there is one, and each names all of the set.
LEMMA OrdersAre ==
  ASSUME NEW S, IsFiniteSet(S)
  PROVE  /\ SetToSeqs(S) # {}
         /\ \A o \in SetToSeqs(S) : /\ o \in Seq(S) /\ Firsts(o, Len(o)) = S
                                    /\ \A a, b \in 1..Len(o) : a # b => o[a] # o[b]
<1> DEFINE c == Cardinality(S)
           D == 1..c
<1>1. c \in Nat /\ ExistsBijection(D, S)
  BY FS_CardinalityType
<1>2. IsFiniteSet(D) /\ Cardinality(D) = c
  BY <1>1, FS_Interval
<1>3. SetToSeqs(S) # {}
  <2>1. PICK f : f \in Bijection(D, S)
    BY <1>1 DEF ExistsBijection
  <2>2. f \in [D -> S] /\ \A a, b \in D : a # b => f[a] # f[b]
    BY <2>1 DEF Bijection, Injection, IsInjective
  <2> QED
    BY <2>2 DEF SetToSeqs
<1>4. ASSUME NEW o \in SetToSeqs(S)
      PROVE  /\ o \in Seq(S) /\ Firsts(o, Len(o)) = S
             /\ \A a, b \in 1..Len(o) : a # b => o[a] # o[b]
  <2>1. o \in [D -> S] /\ \A a, b \in D : a # b => o[a] # o[b]
    BY DEF SetToSeqs
  <2>2. o \in Seq(S) /\ Len(o) = c
    BY <1>1, <2>1
  <2>3. o \in Injection(D, S)
    BY <2>1 DEF Injection, IsInjective
  <2>4. o \in Surjection(D, S)
    BY <1>2, <2>3, FS_Injection
  <2>5. Firsts(o, c) = S
    BY <2>1, <2>4 DEF Firsts, Surjection
  <2> QED
    BY <2>1, <2>2, <2>5
<1> QED
  BY <1>3, <1>4

NewNamesOf(mapping, p) == [k \in DOMAIN mapping \cap Keys(p) |-> Head(mapping[k])]

\* The object with the members renamed at once.
RenamedAtOnce(mapping, p) ==
  LET former == DOMAIN mapping \cap Keys(p)
      new == NewNamesOf(mapping, p)
      From(n) == IF n \in Range(new) THEN CHOOSE k \in former : new[k] = n ELSE n
  IN Object([n \in Range(new) \cup (Keys(p) \ former) |-> p.kids[From(n)]])

\* When all are renamed.
LEMMA RenamedResult ==
  ASSUME NEW names, NEW values, NEW d \in Holding(names, values), NEW mapping, NEW p,
         Unambiguous(mapping, p), Renamed(d, mapping, p, DOMAIN mapping)
  PROVE  d = RenamedAtOnce(mapping, p)
<1> DEFINE D == DOMAIN mapping
           former == D \cap Keys(p)
           new == NewNamesOf(mapping, p)
           From(n) == IF n \in Range(new) THEN CHOOSE k \in former : new[k] = n ELSE n
           all == Range(new) \cup (Keys(p) \ former)
<1>1. DOMAIN new = former /\ \A k \in former : new[k] = Head(mapping[k])
  BY DEF NewNamesOf
<1> HIDE DEF new
<1>2. Range(new) = NewOnes(mapping, p, D)
  <2>1. Range(new) = {Head(mapping[k]) : k \in former}
    BY <1>1 DEF Range
  <2> QED
    BY <2>1 DEF NewOnes
<1>3. Keys(d) = all
  BY <1>2 DEF Renamed
<1>4. ASSUME NEW n \in all PROVE d.kids[n] = p.kids[From(n)]
  <2>1. CASE n \in Range(new)
    <3>1. PICK k \in former : new[k] = n
      BY <1>1, <2>1 DEF Range
    <3>2. \A j \in former : new[j] = n => j = k
      BY <1>1, <3>1 DEF Unambiguous
    <3>3. From(n) = k
      <4> HIDE DEF former
      <4> QED
        BY <2>1, <3>1, <3>2
    <3>4. d.kids[Head(mapping[k])] = p.kids[k]
      BY <3>1 DEF Renamed
    <3> QED
      BY <1>1, <3>1, <3>3, <3>4
  <2>2. CASE n \notin Range(new)
    <3>1. n \in Keys(p) \ D
      BY <2>2
    <3>2. d.kids[n] = p.kids[n]
      BY <1>2, <2>2, <3>1 DEF Renamed
    <3> QED
      BY <2>2, <3>2
  <2> QED
    BY <2>1, <2>2
<1>5. d = Object(d.kids) /\ d.kids = [k \in Keys(d) |-> d.kids[k]]
  BY HoldingIs
<1>6. d.kids = [n \in all |-> p.kids[From(n)]]
  <2> HIDE DEF all, From
  <2> QED
    BY <1>3, <1>4, <1>5
<1> QED
  BY <1>5, <1>6 DEF RenamedAtOnce, new

\* The order of the renamings does not show.
LEMMA RenamingsAre ==
  ASSUME NEW p \in Objects, NEW mapping, IsFiniteSet(DOMAIN mapping), Unambiguous(mapping, p)
  PROVE  Renamings(mapping, p) = {RenamedAtOnce(mapping, p)}
<1> DEFINE names == Keys(p) \cup {Head(mapping[x]) : x \in DOMAIN mapping}
           values == {p.kids[k] : k \in Keys(p)}
           Made(o) == RenamedIn(mapping, p, o)
<1>1. p \in Holding(names, values)
  <2>1. p = Object(p.kids) /\ p.kids = [k \in Keys(p) |-> p.kids[k]]
    <3>1. Depth \in 0..Depth
      BY DepthAssumption
    <3> QED
      BY <3>1, NestedValue DEF Objects, Tree
  <2>2. p.kids \in [Keys(p) -> values] /\ Keys(p) \in SUBSET names
    BY <2>1
  <2> HIDE DEF names, values
  <2> QED
    BY <2>1, <2>2, HoldingMade
<1>2. \A x \in DOMAIN mapping : Head(mapping[x]) \in names
  OBVIOUS
<1> HIDE DEF names, values
<1>3. ASSUME NEW o \in SetToSeqs(DOMAIN mapping) PROVE Made(o) = RenamedAtOnce(mapping, p)
  <2>1. /\ o \in Seq(DOMAIN mapping) /\ Firsts(o, Len(o)) = DOMAIN mapping
        /\ \A a, b \in 1..Len(o) : a # b => o[a] # o[b]
    BY OrdersAre
  <2>2. RenamedTo(names, values, Made(o), mapping, p, o, Len(o))
    BY <1>1, <1>2, <2>1, RenameAll
  <2> HIDE DEF Made
  <2>3. Made(o) \in Holding(names, values) /\ Renamed(Made(o), mapping, p, DOMAIN mapping)
    BY <2>1, <2>2 DEF RenamedTo
  <2> QED
    BY <2>3, RenamedResult
<1>4. Renamings(mapping, p) = {Made(o) : o \in SetToSeqs(DOMAIN mapping)}
  BY DEF Renamings, RenamedIn
<1> HIDE DEF Made
<1> QED
  BY <1>3, <1>4, OrdersAre

\* What the target leads to is an object.
LEMMA TargetObject ==
  ASSUME NEW v \in Objects, NEW target \in Targets \cup {<< >>}
  PROVE  extractTarget(target, v) \in Objects
<1>1. target \in Seq(Member)
  <2>1. << >> \in Seq(Member)
    OBVIOUS
  <2>2. \A t \in Targets : t \in Seq(Member)
    BY FormatterAssumption, PathIs
  <2> QED
    BY <2>1, <2>2
<1>2. Walk(v, target) \in Reached
  BY <1>1, ObjectsAre, WalkType
<1> QED
  BY <1>2, ObjectsAre, StepDown DEF extractTarget, ObjectOr, Objects, Reached

\* What passes the filters of a configuration is an object.
LEMMA PassedObject ==
  ASSUME FormatterInv
  PROVE  PropertyFilter(remote, extractTarget(remote.Target, entity)) \in Objects
<1>1. extractTarget(remote.Target, entity) \in Objects
  BY TargetObject DEF FormatterInv, FormatterTypes
<1> QED
  BY <1>1, Filtered DEF PropertyFilter, FormatterInv, FormatterTypes

\* For any configuration, data and depth: what comes out of Format is the
\* members under the target that pass the filter, renamed at once, in whatever
\* order Go visits the mapping.
THEOREM FormatExact == FormatterSpec => []FormatIsExact
<1>1. ASSUME FormatterInv PROVE FormatIsExact
  <2> DEFINE p == PropertyFilter(remote, extractTarget(remote.Target, entity))
             m == remote.Mapping
             new == [k \in DOMAIN m \cap DOMAIN p.kids |-> Head(m[k])]
  <2>1. p \in Objects
    BY <1>1, PassedObject
  <2>2. Keys(p) = DOMAIN p.kids
    BY DEF Keys
  <2> HIDE DEF p
  <2>3. ASSUME IsInjective(new), Range(new) \cap DOMAIN m = {}
        PROVE  Renamings(m, p) = {RenamedAtOnce(m, p)}
    <3>1. Unambiguous(m, p)
      <4>1. \A a, b \in DOMAIN m \cap Keys(p) : Head(m[a]) = Head(m[b]) => a = b
        BY <2>2, <2>3 DEF IsInjective
      <4>2. \A a \in DOMAIN m \cap Keys(p) : Head(m[a]) \in Range(new)
        BY <2>2 DEF Range
      <4> HIDE DEF new
      <4>3. \A a \in DOMAIN m \cap Keys(p) : Head(m[a]) \notin DOMAIN m
        BY <2>3, <4>2
      <4> QED
        BY <4>1, <4>3 DEF Unambiguous
    <3>2. IsFiniteSet(DOMAIN m)
      BY <1>1 DEF FormatterInv, FormatterTypes
    <3> QED
      BY <2>1, <3>1, <3>2, RenamingsAre
  <2>4. Format(remote, entity) = {Grouped(remote.Group, d) : d \in Renamings(m, p)}
    BY DEF Format, p
  <2>5. ASSUME IsInjective(new), Range(new) \cap DOMAIN m = {}
        PROVE  Format(remote, entity) = {Grouped(remote.Group, RenamedAtOnce(m, p))}
    BY <2>3, <2>4, <2>5
  <2> QED
    BY <2>5 DEF FormatIsExact, RenamedAtOnce, NewNamesOf, Keys, p
<1> QED
  BY <1>1, NoDataTypes, FormatterStep, PTL DEF FormatterSpec
=============================================================================

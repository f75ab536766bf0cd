------------------------- MODULE MergeAccumulator -------------------------
(***************************************************************************)
(* The data half of proxy/merging.go: backend responses, the default       *)
(* response combiner (combineData) and the incrementalMergeAccumulator     *)
(* that both merge strategies feed one answer at a time.                   *)
(*                                                                         *)
(* A Response keeps the two fields merging looks at, Data and IsComplete.  *)
(* Data is a Go map: a function from a set of keys to values, or NilData   *)
(* for a nil map (a backend that answers with the JSON document null).     *)
(* An error is only told apart by its origin (ErrorKind).                  *)
(***************************************************************************)
EXTENDS Integers, Sequences

CONSTANTS Key,          \* top-level keys of response bodies
          Value,        \* values found under them
          NilData,      \* the nil map
          NilResponse,  \* the nil *Response
          NoError       \* the nil error

ErrorKind == {"backend", "null", "deadline", "canceled"}

Map == UNION {[S -> Value] : S \in SUBSET Key}

Response == [Data : Map \cup {NilData}, IsComplete : BOOLEAN]

ASSUME NilAssumption == /\ NilData \notin Map
                        /\ NilResponse \notin Response
                        /\ NoError \notin ErrorKind

\* What a proxy returns: the pair (*Response, error).
KeysOf(res) == IF res.Data = NilData THEN {} ELSE DOMAIN res.Data

---------------------------------------------------------------------------
(* The combiner.                                                           *)

\* Mutated form of Overlay: the first value of a key is kept.
OverlayKeepsFirst(old, new) ==
  [k \in DOMAIN old \cup DOMAIN new |->
     IF k \in DOMAIN old THEN old[k] ELSE new[k]]

\* for k, v := range new { old[k] = v }
Overlay(old, new) ==
  [k \in DOMAIN old \cup DOMAIN new |->
     IF k \in DOMAIN new THEN new[k] ELSE old[k]]

\* combineData(2, {p, q}): a nil map contributes nothing and makes the result
\* incomplete; the map of the first part that has one receives the others.
combineData(p, q) ==
  [Data |-> CASE p.Data = NilData /\ q.Data = NilData -> [k \in {} |-> NilData]
              [] p.Data = NilData /\ q.Data # NilData -> q.Data
              [] p.Data # NilData /\ q.Data = NilData -> p.Data
              [] OTHER -> Overlay(p.Data, q.Data),
   IsComplete |-> /\ p.Data # NilData /\ p.IsComplete
                  /\ q.Data # NilData /\ q.IsComplete]

---------------------------------------------------------------------------
(* incrementalMergeAccumulator.                                            *)

Accumulator == [pending : Int,
                data    : Response \cup {NilResponse},
                errs    : Seq(ErrorKind)]

newIncrementalMergeAccumulator(total) ==
  [pending |-> total, data |-> NilResponse, errs |-> << >>]

Incomplete(res) == [res EXCEPT !.IsComplete = FALSE]

\* Merge(nil, err)
MergeFailure(acc, err) ==
  [pending |-> acc.pending - 1,
   data    |-> IF acc.data = NilResponse THEN NilResponse ELSE Incomplete(acc.data),
   errs    |-> Append(acc.errs, err)]

\* Merge(res, nil) for a non-nil res: neither strategy passes (nil, nil), both
\* turn a nil response into errNullResult before they hand it over.
MergeResponse(acc, res) ==
  [pending |-> acc.pending - 1,
   data    |-> IF acc.data = NilResponse THEN res ELSE combineData(acc.data, res),
   errs    |-> acc.errs]

Merge(acc, res, err) ==
  IF err # NoError THEN MergeFailure(acc, err) ELSE MergeResponse(acc, res)

\* What a merged proxy returns.  errs is the list inside the mergeError, << >>
\* for a nil error (newMergeError).
Outcome == [resp : Response \cup {NilResponse}, errs : Seq(ErrorKind)]

\* Mutated form of Result: only missing answers make the result incomplete.
ResultIgnoresErrors(acc) ==
  [resp |-> IF acc.data # NilResponse /\ acc.pending > 0
              THEN Incomplete(acc.data) ELSE acc.data,
   errs |-> acc.errs]

Result(acc) ==
  [resp |-> CASE acc.data = NilResponse -> NilResponse
              [] acc.data # NilResponse /\ (acc.pending > 0 \/ acc.errs # << >>)
                   -> Incomplete(acc.data)
              [] OTHER -> acc.data,
   errs |-> acc.errs]
===========================================================================

------------------------- MODULE MCSequentialMerge -------------------------
(***************************************************************************)
(* TLC instance of SequentialMerge: three backends, and endpoint           *)
(* configurations in which the third (and the second) refers to earlier    *)
(* responses, to itself, to a later one and to one that does not exist.    *)
(***************************************************************************)
EXTENDS SequentialMerge

CONSTANTS k1

Ref(n, k) == [backendIndex |-> n, source |-> k]

NoUrls == [b \in Backend |-> << >>]

\* Only the last backend refers to the first.
RefLate == [urls |-> [NoUrls EXCEPT ![3] = <<Ref(1, k1), Ref(2, k1)>>], propagated |-> << >>]

\* Every backend does, and to one that is not there.
RefAlways == [urls |-> <<<<Ref(1, k1)>>, <<Ref(4, k1)>>, <<Ref(3, k1)>>>>,
              propagated |-> <<Ref(1, k1)>>]

\* The whole bodies of the first two responses.
RefBody == [urls |-> NoUrls, propagated |-> <<Ref(1, FullBody), Ref(2, FullBody), Ref(4, k1)>>]

MCEndpoints == {RefLate, RefAlways, RefBody}
===========================================================================

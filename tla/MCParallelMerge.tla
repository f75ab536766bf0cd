-------------------------- MODULE MCParallelMerge --------------------------
(***************************************************************************)
(* TLC instance of ParallelMerge: three backends, each of which may be     *)
(* filtered out, fail, or answer with a body over one key, or with none.   *)
(***************************************************************************)
EXTENDS ParallelMerge
===========================================================================

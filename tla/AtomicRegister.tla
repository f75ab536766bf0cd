--------------------------- MODULE AtomicRegister ---------------------------
(***************************************************************************)
(* What the users of a register (register/register.go) count on: one map   *)
(* from namespaces and names to what was stored last, and lookups that see *)
(* it as it is at some moment during the call.                             *)
(***************************************************************************)
CONSTANTS Namespace, Name, Value,
          NoValue, \* nothing is stored
          Default, \* what the wrapper of a namespace returns then
          Reader

VARIABLES store, result

vars == <<store, result>>

Empty == [n \in Name |-> NoValue]

Found(ns, v) == IF v = NoValue THEN Default[ns] ELSE v

Init == /\ store = [ns \in Namespace |-> Empty]
        /\ result = [r \in Reader |-> NoValue]

Put(ns, n, v) == /\ store' = [store EXCEPT ![ns][n] = v]
                 /\ UNCHANGED result

Get(r, ns, n) == /\ result' = [result EXCEPT ![r] = Found(ns, store[ns][n])]
                 /\ UNCHANGED store

Next == \E ns \in Namespace, n \in Name :
          \/ \E v \in Value : Put(ns, n, v)
          \/ \E r \in Reader : Get(r, ns, n)

Spec == Init /\ [][Next]_vars
=============================================================================

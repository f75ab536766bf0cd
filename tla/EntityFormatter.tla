-------------------------- MODULE EntityFormatter --------------------------
(***************************************************************************)
(* How proxy/formatter.go shapes the data of a backend's response: the     *)
(* target is taken out, the allow or deny list is applied to it, first     *)
(* level keys are renamed, and the result is put under the group.          *)
(*                                                                         *)
(* A JSON value is an object, with its members, or a scalar.  A path is a  *)
(* sequence of keys: "a.b" in the configuration.  The flatmap formatter,   *)
(* which hands the data to a library, is left out.                         *)
(***************************************************************************)
EXTENDS Integers, Sequences, FiniteSets, SequencesExt

CONSTANTS Member, \* names of the members of objects
          Depth   \* bound on objects in objects, and on what paths name

ASSUME DepthAssumption == Depth \in Nat \ {0}

Object(f) == [is |-> "object", kids |-> f]
Scalar(v) == [is |-> v, kids |-> << >>]

\* Objects whose members have these values.
ObjectsOf(values) == [is : {"object"}, kids : UNION {[ms -> values] : ms \in SUBSET Member}]

\* The values with objects in objects to a depth of n.  Leaves of the lists'
\* trees are "true" or "nil", what the data hold is "1".
Nested[n \in 0..Depth] ==
  {Scalar(v) : v \in {"1", "true", "nil"}} \cup (IF n = 0 THEN {} ELSE ObjectsOf(Nested[n - 1]))

Tree == Nested[Depth]

Path == SeqOf(Member, Depth) \ {<< >>}

EmptyObject == Object(<< >>)
Missing == Scalar("none")

IsObject(v) == v.is = "object"
Keys(v) == DOMAIN v.kids
Put(v, key, kid) ==
  Object([k \in Keys(v) \cup {key} |-> IF k = key THEN kid ELSE v.kids[k]])
Without(v, keys) == Object([k \in Keys(v) \ keys |-> v.kids[k]])

\* What follows every step into an object: an array in the data is a scalar.
At(v, key) == IF IsObject(v) /\ key \in Keys(v) THEN v.kids[key] ELSE Missing

Walk(v, path) == FoldLeft(At, v, path)

ObjectOr(v, other) == IF IsObject(v) THEN v ELSE other

\* tree with a leaf at the end of path: objects are made where there are none,
\* whatever stands there, and the rest of the tree stays.
Branch(tree, path, leaf) ==
  LET from[i \in 1..Len(path) + 1] ==
        IF i > Len(path) THEN leaf
        ELSE Put(ObjectOr(Walk(tree, SubSeq(path, 1, i - 1)), EmptyObject), path[i], from[i + 1])
  IN from[1]

----------------------------------------------------------------------------
(* extractTarget *)

extractTarget(target, data) == ObjectOr(Walk(data, target), EmptyObject)

----------------------------------------------------------------------------
(* The allow list: a tree whose leaves are the allowed paths. *)

\* buildDictPath, then true at the end: the latest entry replaces whatever
\* stands in its way, also the leaf of an entry that allowed more.
Allow(wl, path) == Branch(wl, path, Scalar("true"))

\* An object of which nothing is left is deleted, one that was empty as well.
Stays(allowed, left) == IsObject(allowed) => left # EmptyObject

\* The filter that a tree makes: what it leaves of an object.
AllowlistPrune[wl \in Tree] ==
  [in \in Tree |->
     LET Left(k) == IF ~IsObject(wl.kids[k]) THEN in.kids[k]
                    ELSE IF IsObject(in.kids[k]) THEN AllowlistPrune[wl.kids[k]][in.kids[k]]
                    ELSE EmptyObject
     IN Object([k \in {k \in Keys(in) \cap Keys(wl) : Stays(wl.kids[k], Left(k))} |-> Left(k)])]

allowlist(entries, data) == AllowlistPrune[FoldLeft(Allow, EmptyObject, entries)][data]

----------------------------------------------------------------------------
(* The deny list: a tree whose leaves are the denied paths. *)

\* Mutated form of buildDenyTree: built like the tree of the allow list.
buildDenyTreeOver(tree, path) == Allow(tree, path)

\* What is below a denied path need not be visited: a leaf stays.
buildDenyTree(tree, path) ==
  IF \E i \in 1..Len(path) - 1 : Walk(tree, SubSeq(path, 1, i)) = Scalar("nil")
    THEN tree
    ELSE Branch(tree, path, Scalar("nil"))

recDelete[ref \in Tree] ==
  [v \in Tree |->
     IF ~IsObject(v) THEN v
     ELSE Object([k \in {k \in Keys(v) : k \in Keys(ref) => IsObject(ref.kids[k])} |->
            IF k \in Keys(ref) THEN recDelete[ref.kids[k]][v.kids[k]] ELSE v.kids[k]])]

denylist(entries, data) == recDelete[FoldLeft(buildDenyTree, EmptyObject, entries)][data]

----------------------------------------------------------------------------
(* Mapping and Format.  A mapping is a function from former keys to new    *)
(* names, paths in the configuration of which only the first key counts.   *)

Rename(mapping, data, former) ==
  IF former \in Keys(data)
    THEN Without(Put(data, Head(mapping[former]), data.kids[former]), {former})
    ELSE data

\* for formerKey, newKey := range e.Mapping: Go iterates in any order.
Renamings(mapping, data) ==
  {FoldLeft(LAMBDA d, former : Rename(mapping, d, former), data, order) :
     order \in SetToSeqs(DOMAIN mapping)}

\* A list that is empty does nothing; an allow list hides a deny list.
PropertyFilter(remote, data) ==
  IF remote.AllowList # << >> THEN allowlist(remote.AllowList, data)
                              ELSE denylist(remote.DenyList, data)

Grouped(group, data) == IF group = "" THEN data ELSE Put(EmptyObject, group, data)

\* Mutated form of Format: filters are applied to what the target is taken from.
FormatFilteredFirst(remote, data) ==
  {Grouped(remote.Group, d) :
     d \in Renamings(remote.Mapping,
                     extractTarget(remote.Target, PropertyFilter(remote, data)))}

Format(remote, data) ==
  {Grouped(remote.Group, d) :
     d \in Renamings(remote.Mapping,
                     PropertyFilter(remote, extractTarget(remote.Target, data)))}

----------------------------------------------------------------------------
(* Checked over bounded configurations and data: a state is a configuration *)
(* and the data it is applied to.                                           *)

CONSTANTS Data,     \* of responses
          Entries,  \* of the lists
          NewNames, \* of the mappings, of which only the first member counts
          Targets,
          MaxItems  \* bound on what a configuration asks for

ASSUME FormatterAssumption == /\ Data \subseteq {v \in Tree : IsObject(v)}
                              /\ Entries \subseteq Path /\ Targets \subseteq Path

VARIABLES remote, \* the formatting fields of config.Backend
          entity  \* the data of the response

formatterVars == <<remote, entity>>

Items == Len(remote.AllowList) + Len(remote.DenyList) + Cardinality(DOMAIN remote.Mapping)
           + (IF remote.Target = << >> THEN 0 ELSE 1) + (IF remote.Group = "" THEN 0 ELSE 1)

NoData ==
  /\ remote = [AllowList |-> << >>, DenyList |-> << >>, Mapping |-> << >>,
               Target |-> << >>, Group |-> ""]
  /\ entity = EmptyObject

AnyData == Items = 0 /\ entity' \in Data /\ UNCHANGED remote

Configure ==
  /\ Items < MaxItems
  /\ \/ \E e \in Entries : remote' = [remote EXCEPT !.AllowList = Append(@, e)]
     \/ \E e \in Entries : remote' = [remote EXCEPT !.DenyList = Append(@, e)]
     \/ \E k \in Member \ DOMAIN remote.Mapping, n \in NewNames :
          remote' = [remote EXCEPT !.Mapping =
                       [m \in DOMAIN @ \cup {k} |-> IF m = k THEN n ELSE @[m]]]
     \/ \E t \in Targets : remote' = [remote EXCEPT !.Target = t]
     \/ remote' = [remote EXCEPT !.Group = "group"]
  /\ UNCHANGED entity

FormatterSpec == NoData /\ [][AnyData \/ Configure]_formatterVars

\* The values in an object, with their paths; what an object is shows in them.
Nodes(v) ==
  {n \in {<<p, Walk(v, p).is>> : p \in {p \in Path : Head(p) \in Keys(v)}} : n[2] # Missing.is}

Comparable(e, f) == IsPrefix(e, f) \/ IsPrefix(f, e)

\* An entry of the allow list holds unless a later one is above or below it.
Holds(list, i) == \A j \in DOMAIN list : j > i /\ Comparable(list[i], list[j])
                                           => list[i] = list[j]

\* newAllowlistingFilter and AllowlistPrune (formatter.go:97-156): an allow
\* list keeps what is at and below its entries, and the objects on the way to
\* those the data has, nothing else: no empty object is left on the way.
\* buildDenyTree and recDelete (formatter.go:158-213): a deny list removes what
\* is at and below its entries, nothing else, in whatever order they are given.
FiltersAreExact ==
  LET list == remote.AllowList
      nodes == Nodes(entity)
      allowed == {list[i] : i \in {j \in DOMAIN list : Holds(list, j)}}
      there == {n[1] : n \in nodes} \cap allowed
  IN Nodes(PropertyFilter(remote, entity)) =
       IF list # << >> THEN {n \in nodes : \E e \in there : Comparable(e, n[1])}
       ELSE {n \in nodes : \A i \in DOMAIN remote.DenyList : ~IsPrefix(remote.DenyList[i], n[1])}

\* Format (formatter.go:61-80): unless a new name is the former key of another
\* renaming or two keys get the same one, the order of the renamings does not
\* show: the values under the target that pass the filter come out, the renamed
\* ones over those that had the name, and the filter saw the former names.
FormatIsExact ==
  LET passed == PropertyFilter(remote, extractTarget(remote.Target, entity)).kids
      former == DOMAIN remote.Mapping \cap DOMAIN passed
      new == [k \in former |-> Head(remote.Mapping[k])]
      Source(n) == IF n \in Range(new) THEN CHOOSE k \in former : new[k] = n ELSE n
      result == Object([n \in Range(new) \cup (DOMAIN passed \ former) |-> passed[Source(n)]])
  IN IsInjective(new) /\ Range(new) \cap DOMAIN remote.Mapping = {} =>
       Format(remote, entity) = {Grouped(remote.Group, result)}
=============================================================================

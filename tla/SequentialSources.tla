------------------------- MODULE SequentialSources -------------------------
(***************************************************************************)
(* How sequentialMerge (proxy/merging.go) finds the value of a dotted      *)
(* source, {{.Resp0_a.b}}, in the data of a response.  SequentialMerge has *)
(* sources of one key; here they are paths, and the data are the trees of  *)
(* EntityFormatter.                                                        *)
(***************************************************************************)
EXTENDS EntityFormatter

Level(data) == [data |-> data, broken |-> FALSE]

\* Mutated form of Follow: a name that leads nowhere is skipped.
FollowOn(level, key) ==
  IF IsObject(At(level.data, key)) THEN [level EXCEPT !.data = At(level.data, key)] ELSE level

\* One round of the loop over r.source[:len(r.source)-1]: it ends at a name that
\* is not there or is no object, and the level reached so far stays.
Follow(level, key) ==
  IF ~level.broken /\ IsObject(At(level.data, key))
    THEN [level EXCEPT !.data = At(level.data, key)]
    ELSE [level EXCEPT !.broken = TRUE]

\* The last name is looked up at that level, wherever the loop ended.
Found(data, source) == At(FoldLeft(Follow, Level(data), Front(source)).data, Last(source))

\* The longest beginning of a path that leads through objects only.
Passable(data, path) ==
  LET ends == {n \in 0..Len(path) : \A m \in 1..n : IsObject(Walk(data, SubSeq(path, 1, m)))}
  IN SubSeq(path, 1, CHOOSE n \in ends : \A m \in ends : m <= n)

\* A parameter gets the value its source names if the data has one.  If they
\* do not (merging.go:341-353, 374), it stays unset or gets the value of the
\* source's last name beside the name that is missing, and no other.
\* It is looked at once for each data, which the options of a format do not change.
SourcesAreFollowed ==
  Items = 0 /\ entity # EmptyObject => \A source \in Entries :
    LET found == Found(entity, source)
        named == Walk(entity, source)
        way == Passable(entity, Front(source))
    IN \/ found = named
       \/ /\ named = Missing /\ Len(way) < Len(source) - 1
          /\ found = Walk(entity, Append(way, Last(source)))
=============================================================================

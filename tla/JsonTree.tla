------------------------------ MODULE JsonTree ------------------------------
(***************************************************************************)
(* The trees of ordered JSON (ojModel.go).  A map is a sequence of keys    *)
(* with their values: the order of a file is kept.                         *)
(***************************************************************************)
EXTENDS Sequences

Str(t)   == [str |-> t]
Flag(b)  == [bool |-> b]
List(l)  == [list |-> l]
Map(kvs) == [map |-> kvs]

\* No object at all, a nil pointer: printed as nothing, even where JSON needs one.
Nil == [nil |-> TRUE]

Keys(o) == {o.map[i][1] : i \in DOMAIN o.map}

\* The first value of a key stays: Put does nothing for a key the map has.
Put(o, key, value) == IF key \in Keys(o) THEN o ELSE Map(Append(o.map, <<key, value>>))
=============================================================================

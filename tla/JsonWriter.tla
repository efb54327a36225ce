----------------------------- MODULE JsonWriter -----------------------------
(***************************************************************************)
(* JSONString (ojToJson.go): the text of a tree, with a line break and its *)
(* indentation as one " ".                                                 *)
(***************************************************************************)
EXTENDS JsonTree, Integers

LOCAL INSTANCE SequencesExt

Quoted(string) == <<"\"">> \o string \o <<"\"">>

\* Mutant: no comma between the items.
LinesWithoutCommas(open, items, close) ==
    <<open>> \o FlattenSeq([i \in DOMAIN items |-> <<" ">> \o items[i]]) \o <<" ", close>>

\* The items of a map or a list: each on a line of its own, a comma between them.
Lines(open, items, close) ==
    IF items = <<>> THEN <<open, close>>
    ELSE <<open>> \o FlattenSeq([i \in DOMAIN items |->
                        <<" ">> \o items[i] \o (IF i < Len(items) THEN <<",">> ELSE <<>>)])
                  \o <<" ", close>>

RECURSIVE writeJSON(_)
writeJSON(j) ==
    CASE DOMAIN j = {"nil"}  -> <<>>
      [] DOMAIN j = {"str"}  -> Quoted(j.str)
      [] DOMAIN j = {"bool"} -> <<IF j.bool THEN "true" ELSE "false">>
      [] DOMAIN j = {"list"} -> Lines("[", [i \in DOMAIN j.list |-> writeJSON(j.list[i])], "]")
      [] DOMAIN j = {"map"}  ->
            Lines("{", [i \in DOMAIN j.map |->
                            Quoted(j.map[i][1]) \o <<":", " ">> \o writeJSON(j.map[i][2])], "}")

JSONString(j) == writeJSON(j)
=============================================================================

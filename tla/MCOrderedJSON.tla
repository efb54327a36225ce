--------------------------- MODULE MCOrderedJSON ---------------------------
EXTENDS OrderedJSON, JsonWriter, JsonGrammar

McChars == {"{", "}", "[", "]", ",", ":", "\"", "\\", " ", "true"}

McPieces == {<<ch>> : ch \in McChars \ {"\\"}}
    \union {<<"\"", "\\", "\"", "\"">>, <<"\"", "\\", "\\", "\"">>,
            <<"\"", "\"", ":", "true">>, <<"\"", "true", "\"", ":", "true">>}

\* A quote after an escaped backslash: it ends a string, and the parser goes on.
MissesAnEnd(t) == \E k \in DOMAIN t : t[k] = "\"" /\ Backslashes(t, k) > 0 /\ Backslashes(t, k) % 2 = 0

(***************************************************************************)
(* The parser accepts exactly the language of the grammar, and gives the   *)
(* tree that the grammar gives: nothing moves to another list or map, no   *)
(* element is read twice, and elements are lost only as junk of a list.    *)
(* Not so of texts in which the parser misses the end of a string.         *)
(***************************************************************************)
ReadsByGrammar ==
    ~MissesAnEnd(text) =>
        /\ outcome = "accepted" => pending = Denoted(text) /\ pending # Nil
        /\ outcome \notin {"reading", "accepted"} /\ done => Denoted(text) = Nil
        /\ outcome # "reading" /\ ~done =>
            \A more \in {<<>>, <<"]">>, <<"}">>, <<"\"", "]">>, <<" ">>} : Denoted(text \o more) = Nil

(***************************************************************************)
(* What is written of an accepted text is accepted, and is the tree that   *)
(* was read: strings keep their escapes, lists their order, maps their     *)
(* keys.                                                                   *)
(***************************************************************************)
WrittenIsReadBack == tree # Nil => outcome \in {"reading", "accepted"} /\ (outcome = "accepted" => pending = tree)

(***************************************************************************)
(* The inner loop deals with every character: no two states hand one to    *)
(* each other for ever.                                                    *)
(***************************************************************************)
EveryCharIsDealtWith == ~done ~> (done \/ outcome # "reading")
=============================================================================

---------------------------- MODULE JsonGrammar ----------------------------
(***************************************************************************)
(* The language ParseOrderedJSON is for, by recursive descent:             *)
(*                                                                         *)
(*   value = string | true | false | list | map                           *)
(*   list  = "[" "]"  |  "[" value junk { "," value junk } "]"             *)
(*   map   = "{" "}"  |  "{" [","] pair { "," pair } "}"                   *)
(*   pair  = string ":" value                                              *)
(*                                                                         *)
(* White space may stand between symbols.  A string ends as in JSON, at    *)
(* the first quote that follows no backslash, or an even number of them,   *)
(* which escape each other.  A word ends before white space, a comma or a  *)
(* closing bracket, and needs one of them.  Junk is any text without a     *)
(* comma or "]": JSON has none of it, nor the first comma of a map.        *)
(***************************************************************************)
EXTENDS JsonTree, Integers

LOCAL INSTANCE FiniteSetsExt

NoParse == <<>>   \* otherwise: a tree, and the position after it

Is(t, i, ch) == i <= Len(t) /\ t[i] = ch

\* The first position from i on where the character is one of these, or none: 0.
Find(t, i, chars) ==
    LET found == {k \in i..Len(t) : t[k] \in chars} IN IF found = {} THEN 0 ELSE Min(found)

Skip(t, i) ==
    LET found == {k \in i..Len(t) : t[k] # " "} IN IF found = {} THEN Len(t) + 1 ELSE Min(found)

\* How many backslashes stand right before k.
Backslashes(t, k) == k - 1 - Max({0} \union {m \in 1..(k - 1) : t[m] # "\\"})

\* The string that starts at i.
StringAt(t, i) ==
    LET ends == {k \in (i + 1)..Len(t) : t[k] = "\"" /\ Backslashes(t, k) % 2 = 0}
    IN  IF Is(t, i, "\"") /\ ends # {} THEN <<SubSeq(t, i + 1, Min(ends) - 1), Min(ends) + 1>> ELSE NoParse

Word(t, i) ==
    LET end == Find(t, i, {" ", ",", "]", "}"})
    IN  CASE end > 0 /\ SubSeq(t, i, end - 1) = <<"true">>  -> <<Flag(TRUE), end>>
          [] end > 0 /\ SubSeq(t, i, end - 1) = <<"false">> -> <<Flag(FALSE), end>>
          [] OTHER -> NoParse

RECURSIVE ValueAt(_, _), Elements(_, _, _), Pairs(_, _, _)

ValueAt(t, start) ==
    LET i == Skip(t, start)
        inner == Skip(t, i + 1)
        string == StringAt(t, i)
    IN  CASE Is(t, i, "\"") -> IF string = NoParse THEN NoParse ELSE <<Str(string[1]), string[2]>>
          [] Is(t, i, "[") -> IF Is(t, inner, "]") THEN <<List(<<>>), inner + 1>> ELSE Elements(t, inner, <<>>)
          [] Is(t, i, "{") -> IF Is(t, inner, "}") THEN <<Map(<<>>), inner + 1>>
                              ELSE Pairs(t, IF Is(t, inner, ",") THEN inner + 1 ELSE inner, Map(<<>>))
          [] OTHER -> Word(t, i)

Elements(t, i, list) ==
    LET item == ValueAt(t, i)
        next == Find(t, item[2], {",", "]"})
    IN  IF item = NoParse THEN NoParse
        ELSE IF next = 0 THEN NoParse
        ELSE IF t[next] = "]" THEN <<List(Append(list, item[1])), next + 1>>
        ELSE Elements(t, next + 1, Append(list, item[1]))

Pairs(t, i, map) ==
    LET key == StringAt(t, Skip(t, i))
        colon == Skip(t, key[2])
        value == ValueAt(t, colon + 1)
        next == Skip(t, value[2])
        more == Put(map, key[1], value[1])
    IN  IF key = NoParse THEN NoParse
        ELSE IF ~Is(t, colon, ":") THEN NoParse
        ELSE IF value = NoParse THEN NoParse
        ELSE IF Is(t, next, "}") THEN <<more, next + 1>>
        ELSE IF Is(t, next, ",") THEN Pairs(t, next + 1, more)
        ELSE NoParse

\* The tree of a text, Nil if it is not in the language.
Denoted(t) ==
    LET value == ValueAt(t, 1)
    IN  IF value # NoParse THEN (IF Skip(t, value[2]) > Len(t) THEN value[1] ELSE Nil) ELSE Nil
=============================================================================

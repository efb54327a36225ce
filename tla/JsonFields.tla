----------------------------- MODULE JsonFields -----------------------------
(***************************************************************************)
(* The values of the scenario format in ordered JSON: how the parser reads *)
(* a field of each kind (parseValue.go, parseList.go), what it keeps of a  *)
(* missing one, and when the writer puts it back.                          *)
(*                                                                         *)
(* Every value type of the model (JSONBytesFromString, JSONCheckUint64,    *)
(* ...) is a record of the value, the JSON it was read from, and whether   *)
(* it was specified; Whatever is the value of "*".  Text is interpreted by a    *)
(* constant, numbers are bytes, and value trees are strings or lists of    *)
(* strings.  Lengths and ranges of numbers, hashes and seeds are left out. *)
(***************************************************************************)
EXTENDS JsonTree, Integers, SequencesExt

CONSTANTS
    Interpret,   \* the bytes of every text the interpreter accepts
    Address,     \* the texts that give 32 of them
    Whatever          \* whatever value

ASSUME FieldsAssumption ==
    /\ Address \subseteq DOMAIN Interpret
    /\ \A text \in DOMAIN Interpret : Interpret[text] \in Seq(0..255)
    /\ "" \in DOMAIN Interpret /\ Interpret[""] = <<>>
    /\ "*" \notin DOMAIN Interpret

Star == Str("*")

Is(form, j) == DOMAIN j = {form}
At(o, k) == o.map[CHOOSE i \in DOMAIN o.map : o.map[i][1] = k][2]
Each(l, Op(_)) == [i \in DOMAIN l |-> Op(l[i])]

\* What the loops append of a list (SelectSeq, in terms the proofs can take apart).
Kept(l, P(_)) == FlattenSeq(Each(l, LAMBDA e : IF P(e) THEN <<e>> ELSE <<>>))

\* Fields of one object with more of them.
With(fields, others) ==
    [k \in DOMAIN fields \union DOMAIN others |-> IF k \in DOMAIN fields THEN fields[k] ELSE others[k]]

\* Keys that older scenarios use for others.
Renamed(o, alias) ==
    Map([i \in DOMAIN o.map |->
            <<IF o.map[i][1] \in DOMAIN alias THEN alias[o.map[i][1]] ELSE o.map[i][1], o.map[i][2]>>])

(***************************************************************************)
(* Reading.                                                                *)
(***************************************************************************)
IsBytes(j) == Is("str", j) /\ j.str \in DOMAIN Interpret
IsTree(j) == IsBytes(j) \/ (Is("list", j) /\ \A i \in DOMAIN j.list : IsBytes(j.list[i]))
IsAddress(j) == Is("str", j) /\ j.str \in Address
IsCheck(j) == j = Star \/ IsTree(j)

Accepted(kind, j) ==
    CASE kind = "text"      -> Is("str", j)
      [] kind = "texts"     -> Is("list", j) /\ \A i \in DOMAIN j.list : Is("str", j.list[i])
      [] kind = "flag"      -> Is("bool", j)
      [] kind = "bytes"     -> IsBytes(j)
      [] kind = "address"   -> IsAddress(j)
      [] kind = "tree"      -> IsTree(j)
      [] kind = "bytesList" -> Is("list", j) /\ \A i \in DOMAIN j.list : IsBytes(j.list[i])
      [] kind = "trees"     -> Is("list", j) /\ \A i \in DOMAIN j.list : IsTree(j.list[i])
      [] kind = "check"     -> IsCheck(j)
      [] kind = "checkText" -> j = Star \/ IsBytes(j)
      [] kind = "checkList" -> IsCheck(j) \/ (Is("list", j) /\ \A i \in DOMAIN j.list : IsCheck(j.list[i]))

\* InterpretSubTree: the strings of a list are joined.
Value(j) ==
    IF j = Star THEN Whatever
    ELSE IF Is("str", j) THEN Interpret[j.str]
    ELSE FlattenSeq(Each(j.list, LAMBDA s : Interpret[s.str]))

Read(value, original) == [value |-> value, original |-> original, unspecified |-> FALSE]

\* A single value is a list of one, and "" a list of none.
parseCheckValueList(j) ==
    CASE j = Star     -> Read(Whatever, j)
      [] j = Str("")  -> Read(<<>>, List(<<>>))
      [] Is("list", j) -> Read(Each(j.list, Value), j)
      [] OTHER        -> Read(<<Value(j)>>, List(<<j>>))

Parsed(kind, j) ==
    CASE kind = "text"                    -> Read(j.str, j)
      [] kind = "flag"                    -> Read(j.bool, j)
      [] kind = "texts"                   -> Read(Each(j.list, LAMBDA t : t.str), j)
      [] kind \in {"bytesList", "trees"}  -> Read(Each(j.list, Value), j)
      [] kind = "checkList"               -> parseCheckValueList(j)
      [] kind \in {"bytes", "address", "tree", "check", "checkText"} -> Read(Value(j), j)

\* What a field is where the object does not have it: the zero value of its type,
\* which knows no original for check values, or an explicit "unspecified".
Missing(kind, unspecified) ==
    LET value ==
            CASE kind = "text" -> ""
              [] kind = "flag" -> FALSE
              [] OTHER         -> <<>>
        original ==
            CASE kind = "flag" -> Flag(FALSE)
              [] kind \in {"texts", "bytesList", "trees", "checkList"} -> List(<<>>)
              [] kind = "check" /\ ~unspecified -> Nil
              [] OTHER -> Str("")
    IN  [value |-> value, original |-> original, unspecified |-> unspecified]

\* The fields of an object, those it does not have included.
Fields(o, kinds, unspecified) ==
    [k \in DOMAIN kinds |-> IF k \in Keys(o) THEN Parsed(kinds[k], At(o, k))
                            ELSE Missing(kinds[k], unspecified)]

\* Unknown keys are refused, unless somebody else reads them.
FieldsAccepted(o, kinds, others) ==
    /\ Is("map", o)
    /\ Keys(o) \subseteq DOMAIN kinds \union others
    /\ \A k \in Keys(o) \intersect DOMAIN kinds : Accepted(kinds[k], At(o, k))

(***************************************************************************)
(* Writing: the original of each field, in the order of the table, where   *)
(* its condition holds.                                                    *)
(***************************************************************************)
NotEmpty(v) == v.value # <<>> /\ v.value # Whatever

WrittenIf(condition, v) ==
    CASE condition = "always"    -> TRUE
      [] condition = "original"  -> v.original # Str("")
      [] condition = "value"     -> NotEmpty(v)
      [] condition = "nonempty"  -> v.value # <<>>
      [] condition = "specified" -> ~v.unspecified
      [] condition = "specifiedValue"    -> ~v.unspecified /\ NotEmpty(v)
      [] condition = "specifiedOriginal" -> ~v.unspecified /\ v.original # Str("")
      [] condition = "true"      -> v.value
      [] condition = "false"     -> ~v.value

WriteFields(fields, table) ==
    LET written == Kept(table, LAMBDA e : WrittenIf(e[2], fields[e[1]]))
    IN  Each(written, LAMBDA e : <<e[1], fields[e[1]].original>>)

(***************************************************************************)
(* What a step runner sees of the fields: values, and for some of them     *)
(* whether they were specified at all.                                     *)
(***************************************************************************)
Seen(fields, optional) ==
    [k \in DOMAIN fields |-> IF k \in optional /\ fields[k].unspecified THEN Whatever ELSE fields[k].value]
=============================================================================

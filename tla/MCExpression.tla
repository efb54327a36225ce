---------------------------- MODULE MCExpression ----------------------------
EXTENDS ExprRoundTrip, SequencesExt

McFiles == [path \in {<<"a">>, <<"5">>, <<"1">>} |->
    CASE path = <<"a">> -> [contents |-> <<7, 8>>, code |-> <<"f", "5">>]
      [] path = <<"5">> -> [contents |-> <<>>, code |-> "not JSON"]
      [] path = <<"1">> -> [contents |-> <<9>>, code |-> "no code"]]

Pieces == {HexPrefix, BinaryPrefix} \union
    {<<ch>> : ch \in {"0", "1", "5", "a", "_", ",", "-", "+", ".", "#", "|"}}
McBodies == {FlattenSeq(pieces) : pieces \in UNION {[1..n -> Pieces] : n \in 0..3}}
McPrefixes == {<<>>, <<"str:">>, <<"address:">>, <<"sc:">>, <<"bech32:">>, <<"u16:">>, <<"u8:">>, <<"i64:">>,
               <<"i8:">>, <<"biguint:">>, <<"bigfloat:">>, <<"nested:">>, <<"nested:", "i8:">>,
               <<"keccak256:">>, <<"file:">>, <<"mxsc:">>}
McTexts == {prefix \o body : prefix \in McPrefixes, body \in McBodies}
    \union {<<"true">>, <<"false">>, <<"true", "|", "false">>, <<"backticks", "a">>, <<"i16:", "-", "0", "b", "1", "1">>,
            <<"u8:", "0", "x", "0", "0", "1">>, <<"i8:", "-", "0", "x", "0", "0", "1">>}
McValues == [1..5 -> {0, 5, 95, 97, 35, 124}]
McVMType == <<5>>
McFloat == <<1, 10, 200>>

(***************************************************************************)
(* 1. Numbers.                                                             *)
(***************************************************************************)
\* A numeral as one writes it: a sign, a base, digits in groups.
NumeralOf(body) ==
    LET signed == body # <<>> /\ Head(body) \in {"+", "-"}
        rest == Ungrouped(IF signed THEN Tail(body) ELSE body)
        base == CASE IsPrefix(HexPrefix, rest) -> 16
                  [] IsPrefix(BinaryPrefix, rest) -> 2
                  [] OTHER -> 10
    IN  [sign |-> IF signed THEN Head(body) ELSE "", base |-> base,
         digits |-> IF base = 10 THEN rest ELSE After(HexPrefix, rest)]

IsNumber(body) == LET n == NumeralOf(body) IN IsNumeral(n.digits, n.base)

Number(body) ==
    LET n == NumeralOf(body)
    IN  (IF n.sign = "-" THEN -1 ELSE 1) * ValueOf(Unsigned(n.digits), n.base)

\* What is no numeral and taken for one: "0x" without digits, a sign after "0b", which
\* does not count, and one within a decimal number, if that does not make it negative.
IsTakenForNumber(body) ==
    LET n == NumeralOf(body)
    IN  \/ n.base = 16 /\ n.digits = <<>>
        \/ n.base = 2 /\ IsNumeral(Unsigned(n.digits), 2)
        \/ /\ n.base = 10 /\ IsNumeral(Unsigned(n.digits), 10)
           /\ Head(n.digits) = "-" => Number(body) = 0

Width(prefix) == (UnsignedWidth @@ SignedWidth)[prefix]
HasSign(prefix, body) == prefix \in DOMAIN SignedWidth /\ NumeralOf(body).sign # ""

\* Without a sign, a number of a signed type may have all of its bits.
Fits(prefix, body) ==
    LET width == Width(prefix)
    IN  IF HasSign(prefix, body) THEN width > 2 \/ FitsIn(Number(body), width)
        ELSE Number(body) >= 0 /\ (width > 2 \/ Number(body) < 256 ^ width)

\* Numerals that fit and are refused: a sign has no place in an unsigned number that is
\* not decimal, leading zeros of one in base 16 take their bytes if it has no sign, and
\* commas group no binary digits, although a comment there says that they do.
IsRefusedForm(prefix, body) ==
    LET n == NumeralOf(body)
    IN  \/ prefix \in DOMAIN UnsignedWidth /\ n.sign # "" /\ (n.base # 10 \/ ~IsNumber(body))
        \/ ~HasSign(prefix, body) /\ n.base = 16 /\ Len(n.digits) > 2 * Width(prefix)
        \/ n.base = 2 /\ Occurs(",", body)

(***************************************************************************)
(* A number with a fixed width has that width and is the number written,   *)
(* as two's complement where it has a sign.  It is accepted if it fits,    *)
(* unless it has one of the forms above, and what is no number is refused. *)
(* With a point in it, it is a floating point number of any width, and     *)
(* with "|" one number among other things.                                 *)
(***************************************************************************)
Numeric(prefix) == prefix \in DOMAIN UnsignedWidth \union DOMAIN SignedWidth

FixedWidthIsNumber ==
    value # NotYet /\ hint = "" /\ text # <<>> /\ Numeric(Head(text))
        /\ ~Occurs(".", text) /\ ~Occurs("|", text) =>
        LET prefix == Head(text)
            body == Tail(text)
            width == Width(prefix)
        IN  /\ IsOk(value) <=> /\ IsNumber(body) \/ IsTakenForNumber(body)
                               /\ Fits(prefix, body) /\ ~IsRefusedForm(prefix, body)
            /\ IsOk(value) =>
                 /\ Len(value.bytes) = width
                 /\ \A i \in 1..(width - 3) : value.bytes[i] = IF Number(body) < 0 THEN 255 ELSE 0
                 /\ width <= 2 => SetBytes(value.bytes) = Number(body) % (256 ^ width)

\* The bytes of an address that say who it is.
NameOf(b) == SubSeq(b, IF IsContract(b) THEN ReservedPrefix + 1 ELSE 1, AddressLen - 1)
HasShard(b) == Last(b) # Underscore
Separates(b) == \E i \in DOMAIN b : string(b)[i] \in {"#", "|"}

\* Texts that are read as something else.
Mistaken(b, h) ==
    \/ h = "number" /\ b # <<>> /\ Head(b) = 0
    \/ h = "str" /\ Occurs("|", string(b))
    \/ h = "address" /\ Len(b) = AddressLen /\ Separates(NameOf(b))
    \/ h = "address" /\ Len(b) = AddressLen /\ IsContract(b) /\ SubSeq(b, LeadingZeros + 1, ReservedPrefix) # VMType

\* Texts that are for people only.
Unreadable(b, h) ==
    \/ h = "none" /\ b # <<>>
    \/ h = "code" /\ Len(b) > CodeShown
    \/ h \in {"address", "bech32"} /\ Len(b) # AddressLen /\ b # <<>>
    \/ h = "address" /\ Len(b) = AddressLen /\ HasShard(b) /\ ~IsContract(b) /\ ~canInterpretAsString(Front(b))

\* A contract address of a low shard, whose shard id is printed with one digit: the
\* interpreter panics.
ShardCutShort(b, h) ==
    h = "address" /\ Len(b) = AddressLen /\ IsContract(b) /\ Last(b) < 16

(***************************************************************************)
(* The reconstructed text of a value is read back as that value, but for   *)
(* forms for people only, and two defects: texts that the interpreter      *)
(* takes for another value (a number is without its zeros, a "|" or "#"    *)
(* within a string or a name is a separator, an address has the VM type of *)
(* the interpreter), and contract addresses of a low shard.  The forms for *)
(* people only are never taken for a value.                                *)
(***************************************************************************)
ReconstructedIsReadBack ==
    again # NotYet =>
        LET b == value.bytes
        IN  /\ again = value <=> ~Mistaken(b, hint) /\ ~Unreadable(b, hint) /\ ~ShardCutShort(b, hint)
            /\ IsOk(again) /\ again # value => Mistaken(b, hint)

(***************************************************************************)
(* The interpreter returns bytes or an error.  It panics on a signed       *)
(* number without digits, on the shard id of a contract address that is    *)
(* not two hex digits, and on a contract file without a code; a text it    *)
(* reconstructed itself is of those only as a contract address whose shard *)
(* is below 16 or whose name has a "#".                                    *)
(***************************************************************************)
BadShard(part) == LET tokens == Split(Tail(part), "#") IN
    Len(tokens) > 2 \/ (Len(tokens) = 2 /\ (Len(tokens[2]) # 2 \/ ~IsNumeral(tokens[2], 16)))

PartPanics(part) ==
    /\ part # <<>>
    /\ \/ Head(part) \in DOMAIN SignedWidth /\ Tail(part) = <<>>
       \/ Head(part) = "sc:" /\ BadShard(part)
       \/ Head(part) = "mxsc:" /\ Tail(part) = <<"1">>

PanicsOnlyWhere ==
    /\ value = Panic => \E i \in DOMAIN Split(text, "|") : LET part == Split(text, "|")[i] IN
                            PartPanics(part) \/ (part # <<>> /\ Head(part) = "nested:" /\ PartPanics(Tail(part)))
    /\ again = Panic => /\ hint = "address" /\ Len(value.bytes) = AddressLen /\ IsContract(value.bytes)
                        /\ \/ ShardCutShort(value.bytes, hint)
                           \/ Occurs("#", string(NameOf(value.bytes)))
=============================================================================

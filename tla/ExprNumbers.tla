----------------------------- MODULE ExprNumbers -----------------------------
(***************************************************************************)
(* The text of expressions, and how the interpreter reads numbers in it    *)
(* (interpreter.go).                                                       *)
(*                                                                         *)
(* A text is a sequence of characters (strings of length one, or \xNN for  *)
(* a byte that has none here) and of words that the interpreter looks for  *)
(* at its start: prefixes such as "u8:", and "true" and "false".  "0x" and *)
(* "0b" are two characters each, since 0 and b may be hex digits; capitals *)
(* are left out.  Bytes are numbers, and floating point numbers have no    *)
(* exponent.  Bound: integers are less than 2^23.                          *)
(***************************************************************************)
EXTENDS Sequences, Integers

LOCAL INSTANCE SequencesExt
LOCAL INSTANCE TLC

CONSTANT FloatBytes   \* the encoding of a floating point number, by math/big

\* What a function returns: bytes, an error, or never (it panics).
Bytes(b) == [bytes |-> b]
Error    == [error |-> TRUE]
Panic    == [panic |-> TRUE]
IsOk(r)  == DOMAIN r = {"bytes"}
Then(r, Op(_)) == IF IsOk(r) THEN Op(r.bytes) ELSE r
Both(r1, r2) == Then(r1, LAMBDA b1 : Then(r2, LAMBDA b2 : Bytes(b1 \o b2)))

Occurs(ch, text) == \E i \in DOMAIN text : text[i] = ch

(***************************************************************************)
(* Characters and digits.                                                  *)
(***************************************************************************)
Digits == <<"0", "1", "2", "3", "4", "5", "6", "7", "8", "9", "a", "b", "c", "d", "e", "f">>
Digit == [ch \in ToSet(Digits) |-> CHOOSE d \in 0..15 : Digits[d + 1] = ch]

CharOf ==
    [b \in 0..255 |->
        CASE b \in 48..57  -> Digits[b - 47]
          [] b \in 97..102 -> Digits[b - 86]
          [] b = 95  -> "_"
          [] b = 35  -> "#"
          [] b = 124 -> "|"
          [] b = 46  -> "."
          [] b = 43  -> "+"
          [] b = 45  -> "-"
          [] b = 32  -> " "
          [] b = 44  -> ","
          [] b = 120 -> "x"
          [] OTHER   -> "\\x" \o ToString(b)]
CodeOf == [ch \in {CharOf[b] : b \in 0..255} |-> CHOOSE b \in 0..255 : CharOf[b] = ch]

Codes(text) == [i \in DOMAIN text |-> CodeOf[text[i]]]
string(bytes) == [i \in DOMAIN bytes |-> CharOf[bytes[i]]]

IsNumeral(text, base) == text # <<>> /\ \A i \in DOMAIN text : text[i] \in DOMAIN Digit /\ Digit[text[i]] < base
ValueOf(digits, base) == FoldLeft(LAMBDA n, ch : (base * n) + Digit[ch], 0, digits)
SetBytes(bytes) == FoldLeft(LAMBDA n, b : (256 * n) + b, 0, bytes)

RECURSIVE BigEndian(_, _), Decimal(_)
BigEndian(n, base) == IF n = 0 THEN <<>> ELSE Append(BigEndian(n \div base, base), n % base)
Decimal(n) == IF n < 10 THEN <<Digits[n + 1]>> ELSE Append(Decimal(n \div 10), Digits[(n % 10) + 1])

Hex(bytes) == FlattenSeq([i \in DOMAIN bytes |-> <<Digits[(bytes[i] \div 16) + 1], Digits[(bytes[i] % 16) + 1]>>])

DecodeString(text) ==
    IF Len(text) % 2 = 1 \/ \E i \in DOMAIN text : text[i] \notin DOMAIN Digit THEN Error
    ELSE Bytes([i \in 1..(Len(text) \div 2) |-> (16 * Digit[text[(2 * i) - 1]]) + Digit[text[2 * i]]])

(***************************************************************************)
(* Two's complement (mx-components-big-int).                               *)
(***************************************************************************)
Repeat(b, n) == [i \in 1..n |-> b]
CopyAlignRight(bytes, width) == Repeat(0, width - Len(bytes)) \o bytes

FitsIn(n, width) == -(2 ^ ((8 * width) - 1)) <= n /\ n < 2 ^ ((8 * width) - 1)

ToBytesOfLength(n, width) ==
    IF width <= 3 /\ ~FitsIn(n, width) THEN Error
    ELSE IF n >= 0 THEN Bytes(CopyAlignRight(BigEndian(n, 256), width))
    ELSE LET low == CopyAlignRight(BigEndian((n + 2 ^ 24) % 2 ^ 24, 256), 3)
         IN  Bytes(Repeat(255, width - 3) \o SubSeq(low, 4 - (IF width < 3 THEN width ELSE 3), 3))

ToBytes(n) ==
    IF n = 0 THEN Bytes(<<>>)
    ELSE ToBytesOfLength(n, CHOOSE w \in 1..3 : FitsIn(n, w) /\ \A v \in 1..(w - 1) : ~FitsIn(n, v))

(***************************************************************************)
(* Numbers.                                                                *)
(***************************************************************************)
\* What groups digits is left out.
Without(text, ch) == SelectSeq(text, LAMBDA c : c # ch)
Ungrouped(text) == Without(Without(text, "_"), ",")

HexPrefix == <<"0", "x">>
BinaryPrefix == <<"0", "b">>
After(prefix, text) == SubSeq(text, Len(prefix) + 1, Len(text))

PaddedHex(digits) == DecodeString(IF Len(digits) % 2 = 1 THEN <<"0">> \o digits ELSE digits)

\* big.Int.SetString: a sign is allowed, and Bytes() is the absolute value.
Unsigned(text) == IF text # <<>> /\ Head(text) \in {"+", "-"} THEN Tail(text) ELSE text

interpretUnsignedNumber(strRaw) ==
    LET str == Ungrouped(strRaw)
        \* Here the commas are still there.
        bits == After(BinaryPrefix, Without(strRaw, "_"))
        magnitude(text, base) == Bytes(BigEndian(ValueOf(Unsigned(text), base), 256))
    IN  IF IsPrefix(HexPrefix, str) THEN PaddedHex(After(HexPrefix, str))
        ELSE IF IsPrefix(BinaryPrefix, str)
        THEN IF IsNumeral(Unsigned(bits), 2) THEN magnitude(bits, 2) ELSE Error
        ELSE IF ~IsNumeral(Unsigned(str), 10) THEN Error
        ELSE IF Head(str) = "-" /\ ValueOf(Tail(str), 10) > 0 THEN Error
        ELSE magnitude(str, 10)

\* Mutant: a number that is too long is not refused.
UnsignedOfAnyLength(strRaw, width) ==
    Then(interpretUnsignedNumber(strRaw), LAMBDA b : Bytes(CopyAlignRight(b, width)))

interpretUnsignedNumberFixedWidth(strRaw, width) ==
    Then(interpretUnsignedNumber(strRaw),
         LAMBDA b : IF Len(b) > width THEN Error ELSE Bytes(CopyAlignRight(b, width)))

\* big.Float.SetString takes a base after a sign, the hexadecimal one too.
interpretFloatingPointNumber(strRaw) ==
    LET str == Ungrouped(strRaw)
        unsigned == Unsigned(str)
        base == CASE IsPrefix(HexPrefix, unsigned) -> 16
                  [] IsPrefix(BinaryPrefix, unsigned) -> 2
                  [] OTHER -> 10
        point == IF base = 10 THEN unsigned ELSE After(HexPrefix, unsigned)
        digits == Without(point, ".")
    IN  IF IsPrefix(HexPrefix, str) THEN PaddedHex(After(HexPrefix, str))
        ELSE IF IsNumeral(digits, base) /\ Len(point) <= Len(digits) + 1
        THEN Bytes(FloatBytes)
        ELSE Error

\* Width 0 is the least that can contain the number.
interpretNumberWithSign(strRaw, width) ==
    Then(interpretUnsignedNumber(Tail(strRaw)),
         LAMBDA b : LET number == IF Head(strRaw) = "-" THEN -SetBytes(b) ELSE SetBytes(b)
                    IN  IF width = 0 THEN ToBytes(number) ELSE ToBytesOfLength(number, width))

interpretNumber(strRaw, width) ==
    IF Occurs(".", strRaw) THEN interpretFloatingPointNumber(strRaw)
    ELSE IF strRaw = <<>> THEN Panic
    ELSE IF Head(strRaw) \in {"-", "+"} THEN interpretNumberWithSign(strRaw, width)
    ELSE IF width = 0 THEN interpretUnsignedNumber(strRaw)
    ELSE interpretUnsignedNumberFixedWidth(strRaw, width)

UnsignedWidth == ("u64:" :> 8) @@ ("u32:" :> 4) @@ ("u16:" :> 2) @@ ("u8:" :> 1)
SignedWidth   == ("i64:" :> 8) @@ ("i32:" :> 4) @@ ("i16:" :> 2) @@ ("i8:" :> 1)

WithLength(bytes) == Bytes(CopyAlignRight(BigEndian(Len(bytes), 256), 4) \o bytes)
=============================================================================

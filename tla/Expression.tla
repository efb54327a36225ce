----------------------------- MODULE Expression -----------------------------
(***************************************************************************)
(* The interpreter of expressions (interpreter.go, functions.go), from     *)
(* text to bytes, and the reconstructor (reconstructor.go), from bytes to  *)
(* text.  Addresses are shorter than 32 bytes; hashes and the checksum of  *)
(* bech32 are stand-ins for what libraries compute.                        *)
(***************************************************************************)
EXTENDS ExprNumbers

LOCAL INSTANCE SequencesExt
LOCAL INSTANCE FiniteSetsExt

CONSTANTS
    AddressLen,     \* 32
    LeadingZeros,   \* SCAddressNumLeadingZeros, 8
    VMType,         \* the VM type the interpreter is configured with, 2 bytes
    CodeShown,      \* how many bytes of a code are shown, 10
    Files           \* the files there are: path -> [contents, code]

ReservedPrefix == LeadingZeros + Len(VMType)   \* SCAddressReservedPrefixLength

Split(text, separator) ==
    LET cuts == {0, Len(text) + 1} \union {i \in DOMAIN text : text[i] = separator}
        cut == SetToSortSeq(cuts, <)
    IN  [i \in 1..(Len(cut) - 1) |-> SubSeq(text, cut[i] + 1, cut[i + 1] - 1)]

(***************************************************************************)
(* Files, with a resolver that does not allow them to be missing.          *)
(***************************************************************************)
ResolveFileValue(path) ==
    IF path = <<>> THEN Bytes(<<>>)
    ELSE IF path \in DOMAIN Files THEN Bytes(Files[path].contents)
    ELSE Error

\* Mutant: what is not JSON is not noticed.
MxscUnchecked(path) ==
    IF ~IsOk(ResolveFileValue(path)) THEN Error
    ELSE IF path \notin DOMAIN Files \/ Files[path].code \in {"not JSON", "no code"} THEN Panic
    ELSE DecodeString(Files[path].code)

\* The code of a contract file; a code that is not hex is no error, but no code.
interpretMxscJson(path) ==
    IF ~IsOk(ResolveFileValue(path)) THEN Error
    ELSE IF path \notin DOMAIN Files THEN Error
    ELSE IF Files[path].code = "not JSON" THEN Error
    ELSE IF Files[path].code = "no code" THEN Panic
    ELSE LET code == DecodeString(Files[path].code) IN IF IsOk(code) THEN code ELSE Bytes(<<>>)

(***************************************************************************)
(* Addresses.                                                              *)
(***************************************************************************)
Underscore == 95

decodeShardId(shardIdRaw) ==
    Then(DecodeString(shardIdRaw), LAMBDA shardId : IF Len(shardId) # 1 THEN Error ELSE Bytes(shardId))

\* Mutant: zeros after a short name.
PaddedWithZeros(prefix, start) ==
    [i \in 1..AddressLen |-> IF i > start /\ i - start <= Len(prefix) THEN prefix[i - start] ELSE 0]

createAddressFromPrefix(prefix, start) ==
    [i \in 1..AddressLen |->
        IF i <= start THEN 0 ELSE IF i - start <= Len(prefix) THEN prefix[i - start] ELSE Underscore]

createAddressOptionalShardId(input, zeros) ==
    LET tokens == Split(input, "#")
        address == createAddressFromPrefix(Codes(tokens[1]), zeros)
    IN  CASE Len(tokens) = 1 -> Bytes(address)
          [] Len(tokens) = 2 ->
                Then(decodeShardId(tokens[2]),
                     LAMBDA shardId : Bytes([address EXCEPT ![AddressLen] = shardId[1]]))
          [] OTHER -> Error

\* The VM type is copied into the address even if there is none.
scExpression(input) ==
    LET address == createAddressOptionalShardId(input, ReservedPrefix)
    IN  IF ~IsOk(address) THEN Panic
        ELSE Bytes([i \in 1..AddressLen |->
                        IF i \in (LeadingZeros + 1)..ReservedPrefix THEN VMType[i - LeadingZeros]
                        ELSE address.bytes[i]])

bech32Decode(input) ==
    Then(DecodeString(input), LAMBDA b : IF Len(b) # AddressLen THEN Error ELSE Bytes(b))

(***************************************************************************)
(* The interpreter.                                                        *)
(***************************************************************************)
Keccak256(data) == Bytes(<<255>> \o data)

StrPrefixes == {"str:", "backticks", "quotes"}   \* the last two for two of them

RECURSIVE InterpretString(_)

\* A text without "|" that is not empty.
InterpretPart(part) ==
    LET prefix == Head(part)
        argument == Tail(part)
    IN  CASE part = <<"false">>    -> Bytes(<<>>)
          [] part = <<"true">>     -> Bytes(<<1>>)
          [] prefix \in StrPrefixes -> Bytes(Codes(argument))
          [] prefix = "address:"   -> createAddressOptionalShardId(argument, 0)
          [] prefix = "bech32:"    -> bech32Decode(argument)
          [] prefix = "sc:"        -> scExpression(argument)
          [] prefix \in DOMAIN UnsignedWidth ->
                interpretUnsignedNumberFixedWidth(argument, UnsignedWidth[prefix])
          [] prefix \in DOMAIN SignedWidth -> interpretNumber(argument, SignedWidth[prefix])
          [] prefix = "biguint:"   -> Then(interpretUnsignedNumber(argument), WithLength)
          [] prefix = "bigfloat:"  -> Then(interpretFloatingPointNumber(argument), WithLength)
          [] prefix = "nested:"    -> Then(InterpretString(argument), WithLength)
          [] OTHER                 -> interpretNumber(part, 0)

\* The prefixes that come before "|" is looked for take all of the text.
InterpretString(strRaw) ==
    IF strRaw = <<>> THEN Bytes(<<>>)
    ELSE IF Head(strRaw) = "mxsc:" THEN interpretMxscJson(Tail(strRaw))
    ELSE IF Head(strRaw) = "file:" THEN ResolveFileValue(Tail(strRaw))
    ELSE IF Head(strRaw) = "keccak256:" THEN Then(InterpretString(Tail(strRaw)), Keccak256)
    ELSE IF Occurs("|", strRaw)
    THEN FoldLeft(LAMBDA done, part : Both(done, InterpretString(part)), Bytes(<<>>), Split(strRaw, "|"))
    ELSE InterpretPart(strRaw)

(***************************************************************************)
(* The reconstructor.  A remark in brackets after the bytes is one word.   *)
(***************************************************************************)
\* "bech32" is an address where Bech32Addr is set.
Hints == {"none", "number", "address", "bech32", "str", "code", "hex"}

Remark == " (...)"

canInterpretAsString(bytes) == bytes # <<>> /\ \A i \in DOMAIN bytes : bytes[i] \in 32..126

unknownByteArrayPretty(bytes) == IF bytes = <<>> THEN <<>> ELSE HexPrefix \o Hex(bytes) \o <<Remark>>

RECURSIVE TrimRight(_)
TrimRight(bytes) == IF bytes # <<>> /\ Last(bytes) = Underscore THEN TrimRight(Front(bytes)) ELSE bytes

\* The shard id of a contract is printed without a leading zero.
ShardOfContract(shardID) == IF shardID < 16 THEN <<Digits[shardID + 1]>> ELSE Hex(<<shardID>>)

IsContract(value) == \A i \in 1..LeadingZeros : value[i] = 0

addressPretty(value) ==
    LET shardID == Last(value)
        padded == shardID = Underscore
        name == string(TrimRight(SubSeq(value, IF IsContract(value) THEN ReservedPrefix + 1 ELSE 1, AddressLen - 1)))
        regular == <<"address:">> \o name \o <<"#">> \o Hex(<<shardID>>)
    IN  IF Len(value) # AddressLen THEN unknownByteArrayPretty(value)
        ELSE IF IsContract(value) THEN <<"sc:">> \o name \o (IF padded THEN <<>> ELSE <<"#">> \o ShardOfContract(shardID))
        ELSE IF padded THEN <<"address:">> \o name
        ELSE IF canInterpretAsString(Front(value)) THEN regular
        ELSE HexPrefix \o Hex(value) \o <<Remark>>

codePretty(bytes) ==
    IF bytes = <<>> THEN <<>>
    ELSE IF Len(bytes) > CodeShown THEN HexPrefix \o Hex(SubSeq(bytes, 1, CodeShown)) \o <<".", ".", ".">>
    ELSE HexPrefix \o Hex(bytes)

Reconstruct(value, hint) ==
    CASE hint = "number"  -> Decimal(SetBytes(value))
      [] hint = "str"     -> <<"str:">> \o string(value)
      [] hint = "address" -> addressPretty(value)
      [] hint = "bech32"  -> IF Len(value) = AddressLen THEN <<"bech32:">> \o Hex(value)
                             ELSE unknownByteArrayPretty(value)
      [] hint = "code"    -> codePretty(value)
      [] hint = "hex"     -> HexPrefix \o Hex(value)
      [] hint = "none"    -> unknownByteArrayPretty(value)
=============================================================================

---------------------------- MODULE TokenStorage ----------------------------
(***************************************************************************)
(* ESDT tokens as they lie in the storage of mock accounts (package        *)
(* esdtconvert): the keys, what setState writes under them, the reading of *)
(* one token by its key, and the scan that finds every token of an account.*)
(*                                                                         *)
(* Names and keys are sequences of bytes, because the key of an instance   *)
(* is the name followed by the nonce, with nothing in between, and the     *)
(* scan has to part them again.  Creator, royalties, hash, URIs and        *)
(* attributes of an instance are one value, attrs.  Protobuf encoding, the *)
(* type and the frozen flag are left out; nothing reads the last two back. *)
(***************************************************************************)
EXTENDS Integers, Sequences, FiniteSets, SequencesExt

CONSTANTS
    Token,     \* token identifiers, sequences of bytes
    Nonce,     \* the nonces of instances
    NoAttrs    \* metadata that says nothing

Byte == 0..255
Separator == 45             \* the byte of "-"
esdtRandomSequenceLength == 6

ASSUME TokenAssumption == Token \subseteq Seq(Byte) /\ Nonce \subseteq Nat

\* big.Int SetUint64(n).Bytes(): big endian, no leading zeros, nothing for 0.
Bytes[n \in Nat] == IF n = 0 THEN <<>> ELSE Append(Bytes[n \div 256], n % 256)

\* big.Int SetBytes(b).
SetBytes(b) == FoldLeft(LAMBDA n, byte : 256 * n + byte, 0, b)

Key(prefix, rest) == [prefix |-> prefix, rest |-> rest]
makeTokenKey(t, n) == Key("esdt", t \o Bytes[n])
makeTokenRolesKey(t) == Key("role", t)
makeLastNonceKey(t) == Key("nonce", t)
KeysWith(prefix, source) == {k \in DOMAIN source : k.prefix = prefix}

NoMetaData == [stored |-> FALSE, nonce |-> 0, attrs |-> NoAttrs]
MetaData(n, attrs) == [stored |-> TRUE, nonce |-> n, attrs |-> attrs]

\* An ESDigitalToken.  Empty bytes under a key read as NoToken.
Instance(value, meta) == [value |-> value, meta |-> meta]
NoToken == Instance(0, NoMetaData)

(***************************************************************************)
(* Writing.                                                                *)
(***************************************************************************)
Put(storage, k, v) ==
    [x \in DOMAIN storage \union {k} |-> IF x = k THEN v ELSE storage[x]]

WriteInstance(t, storage, i) ==
    Put(storage, makeTokenKey(t, i.nonce), Instance(i.balance, MetaData(i.nonce, i.attrs)))

WriteToken(storage, d) ==
    LET instances == FoldLeft(LAMBDA s, i : WriteInstance(d.token, s, i), storage, d.instances)
    IN  Put(Put(instances, makeLastNonceKey(d.token), Bytes[d.lastNonce]),
            makeTokenRolesKey(d.token), d.roles)

WriteScenariosESDTToStorage(data, storage) == FoldLeft(WriteToken, storage, data)

(***************************************************************************)
(* Reading one token, whose key is known.  The metadata the system account *)
(* has under the same key replaces the holder's.                           *)
(***************************************************************************)
getTokenDataByKey(k, source, system) ==
    IF k \notin DOMAIN source \/ source[k] = NoToken THEN NoToken
    ELSE IF k \notin DOMAIN system \/ system[k] = NoToken THEN source[k]
    ELSE [source[k] EXCEPT !.meta = system[k].meta]

GetTokenData(t, n, source, system) == getTokenDataByKey(makeTokenKey(t, n), source, system)

NoStorage == [k \in {} |-> NoToken]
GetTokenBalance(t, n, source) == GetTokenData(t, n, source, NoStorage).value

SetTokenBalance(t, n, balance, storage) ==
    LET k == makeTokenKey(t, n)
    IN  Put(storage, k, [getTokenDataByKey(k, storage, NoStorage) EXCEPT !.value = balance])

(***************************************************************************)
(* Reading all tokens of an account.  The rest of a key is cut at its      *)
(* separators, and the second piece after six bytes.                       *)
(***************************************************************************)
\* Mutant: off by one, a nonce of one byte is taken for a part of the name.
ExtractLongNonces(args) ==
    LET cuts  == {i \in DOMAIN args : args[i] = Separator}
        first == Min(cuts)
        name  == first + esdtRandomSequenceLength
    IN  IF cuts = {} \/ Len(args) - first <= esdtRandomSequenceLength + 1
        THEN [token |-> args, nonce |-> 0]
        ELSE [token |-> SubSeq(args, 1, name), nonce |-> SetBytes(SubSeq(args, name + 1, Len(args)))]

extractTokenIdentifierAndNonceESDTWipe(args) ==
    LET cuts   == {i \in DOMAIN args : args[i] = Separator}
        first  == Min(cuts)
        second == Min((cuts \ {first}) \union {Len(args) + 1})
        name   == first + esdtRandomSequenceLength
    IN  IF cuts = {} \/ second - first - 1 <= esdtRandomSequenceLength
        THEN [token |-> args, nonce |-> 0]
        ELSE [token |-> SubSeq(args, 1, name),
              nonce |-> SetBytes(SubSeq(args, name + 1, second - 1))]

loadMockESDTDataInstance(k, source, system) ==
    LET data == getTokenDataByKey(k, source, system)
        id   == extractTokenIdentifierAndNonceESDTWipe(k.rest)
    IN  [token |-> id.token, balance |-> data.value, attrs |-> data.meta.attrs,
         nonce |-> IF data.meta.stored THEN data.meta.nonce ELSE id.nonce]

\* MockESDTData by token.
GetFullMockESDTData(source, system) ==
    LET loaded == {loadMockESDTDataInstance(k, source, system) : k \in KeysWith("esdt", source)}
        held   == {i \in loaded : i.balance > 0}
        named  == {k.rest : k \in KeysWith("nonce", source) \union KeysWith("role", source)}
    IN  [t \in {i.token : i \in held} \union named |->
            [instances |-> {[nonce |-> i.nonce, balance |-> i.balance, attrs |-> i.attrs] :
                                i \in {j \in held : j.token = t}},
             lastNonce |-> IF makeLastNonceKey(t) \in DOMAIN source
                           THEN SetBytes(source[makeLastNonceKey(t)]) ELSE 0,
             roles     |-> IF makeTokenRolesKey(t) \in DOMAIN source
                           THEN source[makeTokenRolesKey(t)] ELSE {}]]
=============================================================================

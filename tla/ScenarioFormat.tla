--------------------------- MODULE ScenarioFormat ---------------------------
(***************************************************************************)
(* The scenario format: what the parser (package scenjsonparse) accepts    *)
(* and makes of it, and how the writer (package scenjsonwrite) prints it.  *)
(* Each object is a table of the fields the parser knows, with the kind    *)
(* of each, and a table of the fields the writer knows, in its order, with *)
(* the condition under which it writes each.                               *)
(***************************************************************************)
EXTENDS JsonFields

Pairs(o, Op(_)) == [i \in DOMAIN o.map |-> <<o.map[i][1], Op(o.map[i][2])>>]
NotPlus(kv) == kv[1] # "+"
WithoutPlus(o) == Map(Kept(o.map, NotPlus))
Plus(more) == IF more THEN << <<"+", Str("")>> >> ELSE <<>>
WhenAny(k, l) == IF l = <<>> THEN <<>> ELSE << <<k, List(l)>> >>
NoFields == Map(<<>>)

(***************************************************************************)
(* Tokens.  A string stands for a balance.  Fields of an instance may lie  *)
(* in the token itself, those are its first instance.                      *)
(***************************************************************************)
InstanceKinds ==
    [nonce |-> "bytes", balance |-> "bytes", creator |-> "address", royalties |-> "bytes",
     hash |-> "bytes", uri |-> "bytesList", attributes |-> "tree"]
TokenKinds == [lastNonce |-> "bytes", roles |-> "texts", frozen |-> "bytes"]

CheckInstanceKinds ==
    [nonce |-> "bytes", balance |-> "checkText", creator |-> "check", royalties |-> "checkText",
     hash |-> "check", uri |-> "checkList", attributes |-> "check"]
CheckTokenKinds == [lastNonce |-> "checkText", roles |-> "texts", frozen |-> "checkText"]

InstancesOf(j) == IF "instances" \in Keys(j) THEN At(j, "instances").list ELSE <<>>

TokenAccepted(j, instanceKinds, tokenKinds) ==
    \/ Is("str", j) /\ Accepted(instanceKinds["balance"], j)
    \/ /\ FieldsAccepted(j, With(instanceKinds, tokenKinds), {"instances"})
       /\ "instances" \in Keys(j) => Is("list", At(j, "instances"))
       /\ \A i \in DOMAIN InstancesOf(j) : FieldsAccepted(InstancesOf(j)[i], instanceKinds, {})

\* The fields missing from a map are unspecified in a check; the others of a
\* single balance, and all of a setState, are zero values.
ParseToken(j, instanceKinds, tokenKinds, check) ==
    IF Is("str", j)
    THEN [instances |-> <<Fields(Map(<< <<"balance", j>> >>), instanceKinds, FALSE)>>,
          token     |-> Fields(NoFields, tokenKinds, FALSE)]
    ELSE LET explicit == Each(InstancesOf(j), LAMBDA i : Fields(i, instanceKinds, check))
             first    == IF Keys(j) \intersect DOMAIN instanceKinds = {} THEN <<>>
                         ELSE <<Fields(j, instanceKinds, check)>>
         IN  [instances |-> first \o explicit, token |-> Fields(j, tokenKinds, FALSE)]

InstanceWritten ==
    << <<"nonce", "always">>, <<"balance", "original">>, <<"creator", "original">>,
       <<"royalties", "original">>, <<"hash", "original">>, <<"uri", "nonempty">>,
       <<"attributes", "value">> >>
CheckInstanceWritten ==
    << <<"nonce", "always">>, <<"balance", "original">>, <<"creator", "specifiedValue">>,
       <<"royalties", "specifiedOriginal">>, <<"hash", "specifiedValue">>,
       <<"uri", "specified">>, <<"attributes", "specifiedValue">> >>
TokenWritten == << <<"lastNonce", "original">>, <<"roles", "nonempty">>, <<"frozen", "original">> >>

isCompactESDT(d) ==
    /\ Len(d.instances) = 1 /\ d.instances[1].nonce.original = Str("")
    /\ d.token.roles.value = <<>> /\ d.token.frozen.original = Str("")

esdtItemToOJ(d, instanceWritten) ==
    IF isCompactESDT(d) THEN d.instances[1].balance.original
    ELSE Map(WhenAny("instances", Each(d.instances, LAMBDA i : Map(WriteFields(i, instanceWritten))))
             \o WriteFields(d.token, TokenWritten))

SeenToken(d, optional) ==
    [instances |-> Each(d.instances, LAMBDA i : Seen(i, optional)), token |-> Seen(d.token, {})]

(***************************************************************************)
(* Accounts of setState.                                                   *)
(***************************************************************************)
AccountKinds ==
    [comment |-> "text", update |-> "flag", shard |-> "bytes", nonce |-> "bytes",
     balance |-> "bytes", username |-> "bytes", code |-> "bytes", codeMetadata |-> "bytes",
     owner |-> "bytes", asyncCallData |-> "text", developerRewards |-> "bytes"]

\* Entries of a storage, in order: later ones win.
EntriesAccepted(o, kind) ==
    Is("map", o) /\ \A i \in DOMAIN o.map : o.map[i][1] \in DOMAIN Interpret /\ Accepted(kind, o.map[i][2])

Tokens(o, instanceKinds, tokenKinds, check) ==
    Pairs(o, LAMBDA j : ParseToken(j, instanceKinds, tokenKinds, check))
TokensAccepted(o, instanceKinds, tokenKinds) ==
    /\ Is("map", o)
    /\ \A i \in DOMAIN o.map : /\ o.map[i][1] \in DOMAIN Interpret
                               /\ TokenAccepted(o.map[i][2], instanceKinds, tokenKinds)

Member(o, k) == IF k \in Keys(o) THEN At(o, k) ELSE NoFields

AccountAccepted(o) ==
    /\ FieldsAccepted(o, AccountKinds, {"esdt", "storage"})
    /\ TokensAccepted(Member(o, "esdt"), InstanceKinds, TokenKinds)
    /\ EntriesAccepted(Member(o, "storage"), "tree")

processAccount(o) ==
    [fields  |-> Fields(o, AccountKinds, TRUE),
     esdt    |-> Tokens(Member(o, "esdt"), InstanceKinds, TokenKinds, FALSE),
     storage |-> Pairs(Member(o, "storage"), LAMBDA j : Parsed("tree", j))]

\* Mutant: the owner is not written.
AccountWithoutOwner ==
    << <<"comment", "original">>, <<"update", "true">>, <<"shard", "original">>,
       <<"nonce", "original">>, <<"balance", "original">>, <<"esdt", "nonempty">>,
       <<"username", "value">>, <<"storage", "nonempty">>, <<"code", "original">>,
       <<"codeMetadata", "original">>, <<"developerRewards", "original">>,
       <<"asyncCallData", "original">> >>
AccountWritten ==
    << <<"comment", "original">>, <<"update", "true">>, <<"shard", "original">>,
       <<"nonce", "original">>, <<"balance", "original">>, <<"esdt", "nonempty">>,
       <<"username", "value">>, <<"storage", "nonempty">>, <<"code", "original">>,
       <<"codeMetadata", "original">>, <<"owner", "value">>, <<"developerRewards", "original">>,
       <<"asyncCallData", "original">> >>

\* A member that is an object of its own, as a field.
Nested(kvs) == Read(kvs, Map(kvs))

AccountToOJ(a) ==
    LET esdt    == [i \in DOMAIN a.esdt |-> <<a.esdt[i][1], esdtItemToOJ(a.esdt[i][2], InstanceWritten)>>]
        storage == [i \in DOMAIN a.storage |-> <<a.storage[i][1], a.storage[i][2].original>>]
    IN  Map(WriteFields(With(a.fields, [esdt |-> Nested(esdt), storage |-> Nested(storage)]), AccountWritten))

\* An update leaves alone what is unspecified, and a new account with code and no
\* code metadata gets the default.
SeenAccount(a) ==
    [fields  |-> Seen(a.fields, IF a.fields.update.value
                                THEN {"nonce", "balance", "username", "owner", "code", "shard"}
                                ELSE IF a.fields.code.value # <<>> THEN {"codeMetadata"} ELSE {}),
     esdt    |-> [i \in DOMAIN a.esdt |-> <<Interpret[a.esdt[i][1]], SeenToken(a.esdt[i][2], {})>>],
     storage |-> [i \in DOMAIN a.storage |-> <<Interpret[a.storage[i][1]], a.storage[i][2].value>>]]

(***************************************************************************)
(* Accounts of checkState.                                                 *)
(***************************************************************************)
CheckAccountKinds ==
    [comment |-> "text", nonce |-> "checkText", balance |-> "checkText", username |-> "check",
     code |-> "check", codeMetadata |-> "check", owner |-> "check", asyncCallData |-> "check",
     developerRewards |-> "checkText"]

\* Objects that are "*", or list some and allow more.
Starred(j) == j = Star
Listing(j) == IF Starred(j) THEN NoFields ELSE IF Is("map", j) THEN WithoutPlus(j) ELSE j
MoreAllowed(j) == ~Starred(j) /\ "+" \in Keys(j)

CheckAccountAccepted(o) ==
    /\ FieldsAccepted(o, CheckAccountKinds, {"esdt", "storage"})
    /\ TokensAccepted(Listing(Member(o, "esdt")), CheckInstanceKinds, CheckTokenKinds)
    /\ EntriesAccepted(Listing(Member(o, "storage")), "check")

processCheckAccount(o) ==
    LET esdt    == Member(o, "esdt")
        storage == Member(o, "storage")
    IN  [fields          |-> Fields(o, CheckAccountKinds, TRUE),
         IgnoreESDT      |-> Starred(esdt),
         MoreTokens      |-> MoreAllowed(esdt),
         esdt            |-> Tokens(Listing(esdt), CheckInstanceKinds, CheckTokenKinds, TRUE),
         ExplicitStorage |-> "storage" \in Keys(o),
         IgnoreStorage   |-> Starred(storage) \/ "storage" \notin Keys(o),
         MoreStorage     |-> MoreAllowed(storage),
         storage         |-> Pairs(Listing(storage), LAMBDA j : Parsed("check", j))]

CheckAccountWritten ==
    << <<"comment", "original">>, <<"nonce", "specified">>, <<"balance", "specified">>,
       <<"esdt", "specified">>, <<"username", "specified">>, <<"storage", "specified">>,
       <<"code", "specified">>, <<"codeMetadata", "specified">>, <<"owner", "specified">>,
       <<"developerRewards", "specified">>, <<"asyncCallData", "specified">> >>

CheckAccountToOJ(a) ==
    LET tokens  == [i \in DOMAIN a.esdt |->
                        <<a.esdt[i][1], esdtItemToOJ(a.esdt[i][2], CheckInstanceWritten)>>]
        entries == [i \in DOMAIN a.storage |-> <<a.storage[i][1], a.storage[i][2].original>>]
        esdt    == [original    |-> IF a.IgnoreESDT THEN Star ELSE Map(tokens \o Plus(a.MoreTokens)),
                    unspecified |-> ~a.IgnoreESDT /\ a.esdt = <<>>]
        storage == [original    |-> IF a.IgnoreStorage THEN Star ELSE Map(entries \o Plus(a.MoreStorage)),
                    unspecified |-> ~a.ExplicitStorage]
    IN  Map(WriteFields(With(a.fields, [esdt |-> esdt, storage |-> storage]), CheckAccountWritten))

OptionalInCheck == {"codeMetadata", "owner", "asyncCallData"}
OptionalInInstance == {"creator", "royalties", "hash", "uri", "attributes"}

\* MoreESDTTokensAllowed is not read by anybody.
SeenCheckAccount(a) ==
    [fields  |-> Seen(a.fields, OptionalInCheck),
     esdt    |-> <<a.IgnoreESDT,
                   [i \in DOMAIN a.esdt |-> <<Interpret[a.esdt[i][1]], SeenToken(a.esdt[i][2], OptionalInInstance)>>]>>,
     storage |-> <<a.IgnoreStorage, a.MoreStorage,
                   [i \in DOMAIN a.storage |-> <<Interpret[a.storage[i][1]], a.storage[i][2].value>>]>>]

(***************************************************************************)
(* Transactions, and what is expected of them.                             *)
(***************************************************************************)
TxTypes == {"scDeploy", "scCall", "scQuery", "transfer", "validatorReward", "scUpgrade"}
HasSender(type) == type \notin {"scQuery", "validatorReward"}
HasReceiver(type) == type # "scDeploy"
IsSmartContractTx(type) == type \in {"scDeploy", "scUpgrade", "scCall", "scQuery"}
HasValue(type) == type # "scQuery"
HasESDT(type) == type \in {"scCall", "transfer"}
HasFunction(type) == type \in {"scCall", "scQuery"}
HasGas(type) == type \in {"scDeploy", "scUpgrade", "scCall", "transfer"}
HasCode(type) == type \in {"scDeploy", "scUpgrade"}

TransferKinds == [tokenIdentifier |-> "bytes", nonce |-> "bytes", value |-> "bytes"]
TransferWritten == << <<"tokenIdentifier", "original">>, <<"nonce", "original">>, <<"value", "original">> >>

TransferList(j) == IF Is("map", j) THEN <<j>> ELSE j.list
TransfersAccepted(j) ==
    /\ Is("map", j) \/ Is("list", j)
    /\ \A i \in DOMAIN TransferList(j) : FieldsAccepted(TransferList(j)[i], TransferKinds, {})

TxKinds ==
    [nonce |-> "bytes", from |-> "address", to |-> "text", function |-> "text",
     egldValue |-> "bytes", arguments |-> "trees", contractCode |-> "bytes",
     codeMetadata |-> "bytes", gasLimit |-> "bytes", gasPrice |-> "bytes"]
TxAlias == [value |-> "egldValue", esdt |-> "esdtValue"]

TxAccepted(type, j) ==
    Is("map", j) /\
    LET o == Renamed(j, TxAlias)
        Given(k) == k \in Keys(o)
        Filled(k) == Given(k) /\ Parsed(TxKinds[k], At(o, k)).value # Missing(TxKinds[k], TRUE).value
    IN  /\ FieldsAccepted(o, TxKinds, {"esdtValue"})
        /\ Given("from") => HasSender(type)
        /\ Given("to") => IF HasReceiver(type) THEN IsAddress(At(o, "to")) ELSE At(o, "to") = Str("")
        /\ Filled("function") => HasFunction(type)
        /\ Given("egldValue") => HasValue(type)
        /\ Given("esdtValue") => HasESDT(type) /\ TransfersAccepted(At(o, "esdtValue"))
        /\ Filled("arguments") => type # "transfer"
        /\ Filled("contractCode") \/ Filled("codeMetadata") => HasCode(type)
        /\ Given("gasLimit") \/ Given("gasPrice") => HasGas(type)

processTx(type, j) ==
    LET o == Renamed(j, TxAlias)
        transfers == IF "esdtValue" \in Keys(o) THEN TransferList(At(o, "esdtValue")) ELSE <<>>
    IN  [fields  |-> Fields(o, TxKinds, TRUE),
         hasESDT |-> "esdtValue" \in Keys(o),
         esdt    |-> Each(transfers, LAMBDA t : Fields(t, TransferKinds, FALSE))]

\* What transactionToScenarioOJ writes for a type, nonce and code metadata never.
FieldOf(type, k) ==
    CASE k = "from"         -> HasSender(type)
      [] k = "to"           -> HasReceiver(type)
      [] k = "egldValue"    -> HasValue(type)
      [] k = "esdtValue"    -> TRUE
      [] k = "function"     -> HasFunction(type)
      [] k = "contractCode" -> HasCode(type)
      [] k = "arguments"    -> HasFunction(type) \/ type = "scDeploy"
      [] k \in {"gasLimit", "gasPrice"} -> HasGas(type)

TxWritten ==
    << <<"from", "always">>, <<"to", "always">>, <<"egldValue", "original">>,
       <<"esdtValue", "nonempty">>, <<"function", "always">>, <<"contractCode", "always">>,
       <<"arguments", "always">>, <<"gasLimit", "original">>, <<"gasPrice", "original">> >>

transactionToScenarioOJ(type, tx) ==
    LET esdt     == Each(tx.esdt, LAMBDA t : Map(WriteFields(t, TransferWritten)))
        \* "0" goes unsaid
        withoutZero == [tx.fields EXCEPT !.egldValue.original = IF @ = Str("0") THEN Str("") ELSE @]
    IN  Map(WriteFields(With(withoutZero, [esdtValue |-> Read(esdt, List(esdt))]),
                        Kept(TxWritten, LAMBDA e : FieldOf(type, e[1]))))

\* Fields of a transaction that the executor or the exporter reads.
ReadOf(type) ==
    DOMAIN TxKinds \ ((IF IsSmartContractTx(type) THEN {} ELSE {"arguments"})
                      \union (IF type = "scDeploy" THEN {} ELSE {"codeMetadata"})
                      \union (IF type \in {"scCall", "scUpgrade"} THEN {} ELSE {"nonce"}))

\* A transfer with a list of tokens, if only an empty one, is not one of EGLD.
SeenTx(type, tx) ==
    LET seen == Seen(tx.fields, {"codeMetadata"})
    IN  [fields |-> [k \in ReadOf(type) |-> seen[k]],
         ofTokens |-> type = "transfer" /\ tx.hasESDT,
         esdt |-> Each(tx.esdt, LAMBDA t : Seen(t, {}))]

ResultKinds ==
    [out |-> "checkList", status |-> "checkText", message |-> "check", gas |-> "checkText",
     refund |-> "checkText"]
LogKinds == [address |-> "check", endpoint |-> "check", topics |-> "checkList", data |-> "checkList"]

\* Log entries, after which "+" may allow more.
LogsAccepted(j) ==
    \/ j = Star
    \/ /\ Is("list", j)
       /\ \A i \in DOMAIN j.list :
            \/ j.list[i] = Str("+")
            \/ /\ FieldsAccepted(j.list[i], LogKinds, {})
               /\ \A k \in 1..(i - 1) : j.list[k] # Str("+")

ResultAccepted(o) ==
    /\ FieldsAccepted(o, ResultKinds, {"logs"})
    /\ "logs" \in Keys(o) => LogsAccepted(At(o, "logs"))

NotMore(j) == j # Str("+")

processLogList(j) ==
    IF j = Star THEN [IsUnspecified |-> FALSE, IsStar |-> TRUE, MoreAllowedAtEnd |-> FALSE, List |-> <<>>]
    ELSE [IsUnspecified |-> FALSE, IsStar |-> FALSE,
          MoreAllowedAtEnd |-> \E i \in DOMAIN j.list : j.list[i] = Str("+"),
          List |-> Each(Kept(j.list, NotMore), LAMBDA e : Fields(e, LogKinds, FALSE))]

processTxExpectedResult(o) ==
    [fields |-> Fields(o, ResultKinds, TRUE),
     logs   |-> IF "logs" \in Keys(o) THEN processLogList(At(o, "logs"))
                ELSE [IsUnspecified |-> TRUE, IsStar |-> TRUE, MoreAllowedAtEnd |-> FALSE, List |-> <<>>]]

LogWritten == << <<"address", "always">>, <<"endpoint", "always">>, <<"topics", "always">>, <<"data", "always">> >>

logsToOJ(logs) ==
    List(Each(logs.List, LAMBDA e : Map(WriteFields(e, LogWritten)))
         \o IF logs.MoreAllowedAtEnd THEN <<Str("+")>> ELSE <<>>)

ResultWritten ==
    << <<"out", "always">>, <<"status", "specified">>, <<"message", "specified">>,
       <<"logs", "specified">>, <<"gas", "specified">>, <<"refund", "specified">> >>

resultToOJ(r) ==
    LET logs == [original    |-> IF r.logs.IsStar THEN Star ELSE logsToOJ(r.logs),
                 unspecified |-> r.logs.IsUnspecified]
    IN  Map(WriteFields(With(r.fields, [logs |-> logs]), ResultWritten))

SeenResult(r) ==
    [fields |-> Seen(r.fields, {"gas"}),
     logs |-> IF r.logs.IsStar THEN <<>>
              ELSE <<r.logs.MoreAllowedAtEnd, Each(r.logs.List, LAMBDA e : Seen(e, {}))>>]
=============================================================================

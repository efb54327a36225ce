---------------------------- MODULE MCFormatter -----------------------------
(***************************************************************************)
(* Files of one step, whose object has at most two fields, or one field    *)
(* and the list or map it is in: each with a value of each form its kind   *)
(* may have, the empty ones and those that are refused included; and       *)
(* outputs with a value or none in every field.                            *)
(***************************************************************************)
EXTENDS ResultChecks, FiniteSetsExt

\* Two texts for no bytes, one that is an address, one no interpreter accepts.
MCInterpret == ("" :> <<>>) @@ ("0" :> <<>>) @@ ("1" :> <<1>>) @@ ("addr" :> <<1, 1>>)
               @@ ("str:" :> <<>>) @@ ("str:1" :> <<1>>) @@ ("str:|" :> <<>>)
MCAddress == {"addr"}

\* The string of a separator is read as one, between nothing and nothing.
MCStrText == (<<>> :> "str:") @@ (<<1>> :> "str:1") @@ (<<124>> :> "str:|")
MCAddressText == <<1, 1>> :> "addr"

Texts == {Str(""), Str("0"), Str("1")}
Trees == Texts \union {List(<<Str("1"), Str("")>>)}

Samples(kind) ==
    CASE kind = "text"      -> {Str(""), Str("1")}
      [] kind = "texts"     -> {List(<<>>), List(<<Str("1")>>)}
      [] kind = "flag"      -> {Flag(TRUE), Flag(FALSE)}
      [] kind = "bytes"     -> Texts \union {Str("?")}
      [] kind = "address"   -> {Str("addr"), Str("")}
      [] kind = "tree"      -> Trees
      [] kind = "bytesList" -> {List(<<>>), List(<<Str("")>>)}
      [] kind = "trees"     -> {List(<<>>), List(<<Str("1")>>)}
      [] kind = "check"     -> {Str(""), Str("0"), Star, List(<<Str("1"), Str("")>>)}
      [] kind = "checkText" -> {Str(""), Str("0"), Str("1"), Star}
      [] kind = "checkList" -> {Str(""), Str("1"), Star, List(<<>>), List(<<Star, Str("1")>>)}

\* The members an object may have, and the objects with at most two of them.
Members(kinds, k) == {<<k, v>> : v \in Samples(kinds[k])}
Single(kinds) == {Map(<<>>)} \union {Map(<<f>>) : f \in UNION {Members(kinds, k) : k \in DOMAIN kinds}}
Double(kinds) ==
    UNION {LET k == CHOOSE x \in pair : TRUE
               l == CHOOSE x \in pair : x # k
           IN  {Map(<<f, g>>) : f \in Members(kinds, k), g \in Members(kinds, l)}
             : pair \in kSubset(2, DOMAIN kinds)}
Objects(kinds) == Single(kinds) \union Double(kinds)

One(k, v) == Map(<< <<k, v>> >>)
Join(o, p) == Map(o.map \o p.map)
OfSteps(steps) == One("steps", List(steps))
StepWith(type, o) == Join(One("step", Str(type)), o)
InStep(type, k, v) == OfSteps(<<StepWith(type, One(k, v))>>)

\* Tokens: a balance, an object, instances of their own, or both.
TokensOf(instanceKinds, tokenKinds) ==
    {Str("1"), Str(""), Star} \union Objects(instanceKinds @@ tokenKinds)
    \union {One("instances", List(<<i>>)) : i \in Objects(instanceKinds)}
    \union {Join(One("instances", List(<<i, One("balance", Str("1"))>>)), o) :
                i \in Single(instanceKinds), o \in Single(tokenKinds)}

Account(o) == InStep("setState", "accounts", One("addr", o))
CheckAccount(o) == InStep("checkState", "accounts", One("addr", o))

AccountFiles ==
    {Account(o) : o \in Objects(AccountKinds)}
    \union {Account(One("esdt", One("1", t))) : t \in TokensOf(InstanceKinds, TokenKinds)}
    \union {Account(One("storage", Map(<< <<"1", v>>, <<k, Str("")>> >>))) :
                v \in Trees, k \in {"", "0", "?"}}
    \union {InStep("setState", "accounts", One("1", Map(<<>>)))}

More == One("+", Str(""))
CheckAccountFiles ==
    {CheckAccount(o) : o \in Objects(CheckAccountKinds)}
    \union {CheckAccount(One("esdt", e)) :
                e \in {Star, More, Map(<<>>)}
                      \union {One("1", t) : t \in TokensOf(CheckInstanceKinds, CheckTokenKinds)}
                      \union {Join(One("1", Str("1")), More)}}
    \union {CheckAccount(One("storage", s)) :
                s \in {Star, More, Map(<<>>)} \union {One("1", v) : v \in Samples("check")}
                      \union {Join(One("1", Star), More)}}
    \union {InStep("checkState", "accounts", Join(One("addr", Map(<<>>)), More))}

\* Transactions with the addresses their type asks for, and without.
Addresses(type) ==
    Join(IF HasSender(type) THEN One("from", Str("addr")) ELSE Map(<<>>),
         IF HasReceiver(type) THEN One("to", Str("addr")) ELSE Map(<<>>))
OtherTxKinds == [k \in DOMAIN TxKinds \ {"from", "to"} |-> TxKinds[k]]
TransferSamples ==
    {List(<<>>), One("value", Str("1")), List(<<One("nonce", Str("0")), One("tokenIdentifier", Str("1"))>>)}
TxObjects(type) ==
    {Join(Addresses(type), o) : o \in Objects(OtherTxKinds)}
    \union {Join(Addresses(type), One(k, v)) : k \in {"esdt", "esdtValue"}, v \in TransferSamples}
    \union {Join(Addresses(type), One("value", v)) : v \in Texts}
    \union Objects([from |-> "address", to |-> "address"])

TxFiles == UNION {{InStep(type, "tx", o) : o \in TxObjects(type)} : type \in TxTypes}

\* Conditions on results, on logs, and where they are in the step.
CallStep(o) == OfSteps(<<StepWith("scCall", Join(One("tx", Addresses("scCall")), One("expect", o)))>>)
LogLists == {List(<<e>>) : e \in Objects(LogKinds)}
            \union {List(<<Map(<<>>), One("endpoint", Star)>>), List(<<Map(<<>>), Str("+")>>), List(<<Str("+")>>), List(<<Str("+"), Map(<<>>)>>), Star}
LogFiles == {CallStep(One("logs", l)) : l \in LogLists}
ResultFiles == {CallStep(o) : o \in Objects(ResultKinds)}

StepFiles ==
    {OfSteps(<<StepWith(type, o)>>) :
        type \in StepTypes,
        o \in Objects([comment |-> "text", id |-> "text", txId |-> "text", path |-> "text",
                       traceGas |-> "flag", displayLogs |-> "flag", blockHashes |-> "bytesList"])}
    \union {OfSteps(<<StepWith(type, Map(<<f, g>>))>>) :
                type \in StepTypes, f, g \in {<<"tx", Map(<<>>)>>, <<"expect", Map(<<>>)>>}}
    \union {InStep("setState", "currentBlockInfo", b) : b \in Objects(BlockInfoKinds)}
    \union {InStep("setState", "newAddresses", List(<<Join(a, b)>>)) :
                a \in Single([creatorNonce |-> "bytes"]),
                b \in Objects([creatorAddress |-> "address", newAddress |-> "address"])}

ScenarioFiles ==
    Objects([name |-> "text", comment |-> "text", checkGas |-> "flag", traceGas |-> "flag"])
    \union {One("gasSchedule", Str(g)) : g \in GasSchedules \union {"v5"}}
    \union {OfSteps(<<s, t>>) : s, t \in {One("step", Str("scCall")), StepWith("scCall", One("expect", Map(<<>>))),
                                          One("step", Str("dumpState")), One("step", Str("?"))}}

MCFiles ==
    AccountFiles \union CheckAccountFiles \union TxFiles \union LogFiles \union ResultFiles
    \union StepFiles \union ScenarioFiles

\* Outputs that differ in the fields, and outputs that differ in their logs.
SomeBytes == {<<>>, <<1>>}
Lists == {<<>>, << <<>> >>, << <<1>> >>, << <<1>>, <<1>> >>}
Results == [ReturnCode : SomeBytes, ReturnMessage : SomeBytes, ReturnData : Lists,
            GasRefund : SomeBytes, GasRemaining : SomeBytes, Logs : {<<>>}]
NoResult == [ReturnCode |-> <<>>, ReturnMessage |-> <<>>, ReturnData |-> <<>>,
             GasRefund |-> <<>>, GasRemaining |-> <<>>, Logs |-> <<>>]
OneLog == [Address : SomeBytes, Identifier : SomeBytes, Topics : Lists, Data : Lists \ {<< <<1>>, <<1>> >>}]
          \union [Address : {<<>>, <<1, 1>>}, Identifier : {<<1>>, <<124>>}, Topics : {<<>>}, Data : {<<>>}]
NoLog == [Address |-> <<>>, Identifier |-> <<>>, Topics |-> <<>>, Data |-> <<>>]
MCOutputs ==
    Results \union {[NoResult EXCEPT !.Logs = logs] :
                        logs \in {<<log>> : log \in OneLog}
                                 \union {<<log, [NoLog EXCEPT !.Topics = << <<1>> >>]>> :
                                            log \in [Address : {<<>>}, Identifier : SomeBytes,
                                                      Topics : {<<>>}, Data : {<<>>}]}}
=============================================================================

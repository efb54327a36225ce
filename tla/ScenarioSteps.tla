--------------------------- MODULE ScenarioSteps ----------------------------
(***************************************************************************)
(* Steps and scenarios: processScenarioStep and ParseScenarioFile of the   *)
(* parser, ScenarioToOrderedJSON of the writer.                            *)
(***************************************************************************)
EXTENDS ScenarioFormat

(***************************************************************************)
(* The objects of a step.                                                  *)
(***************************************************************************)
BlockInfoKinds ==
    [blockTimestamp |-> "bytes", blockTimestampMs |-> "bytes", blockNonce |-> "bytes",
     blockRound |-> "bytes", blockEpoch |-> "bytes", blockRandomSeed |-> "tree"]
BlockInfoWritten ==
    << <<"blockTimestamp", "original">>, <<"blockTimestampMs", "original">>,
       <<"blockNonce", "original">>, <<"blockRound", "original">>, <<"blockEpoch", "original">>,
       <<"blockRandomSeed", "specified">> >>

\* A seed of no bytes is too short.
BlockInfoAccepted(o) ==
    /\ FieldsAccepted(o, BlockInfoKinds, {})
    /\ "blockRandomSeed" \in Keys(o) => Value(At(o, "blockRandomSeed")) # <<>>

\* What is "" stays as it was.
SeenBlockInfo(b) ==
    [k \in DOMAIN b |-> IF b[k].unspecified \/ b[k].original = Str("") THEN Whatever ELSE b[k].value]

NewAddressKinds == [creatorAddress |-> "address", creatorNonce |-> "bytes", newAddress |-> "address"]
NewAddressWritten ==
    << <<"creatorAddress", "always">>, <<"creatorNonce", "always">>, <<"newAddress", "always">> >>

EachOf(o) == {o.map[i][2] : i \in DOMAIN o.map}

\* The object under key k of the steps of a type: what it has to be, what the
\* parser makes of it, what the writer prints, and what the runners see.
ObjectAccepted(type, k, j) ==
    CASE type = "setState" /\ k = "accounts" ->
            Is("map", j) /\ Keys(j) \subseteq Address /\ \A a \in EachOf(j) : AccountAccepted(a)
      [] type = "setState" /\ k = "newAddresses" ->
            Is("list", j) /\ \A i \in DOMAIN j.list : FieldsAccepted(j.list[i], NewAddressKinds, {})
      [] type = "checkState" ->
            /\ Is("map", j) /\ Keys(j) \subseteq Address \union {"+"}
            /\ \A a \in EachOf(WithoutPlus(j)) : CheckAccountAccepted(a)
      [] k \in {"previousBlockInfo", "currentBlockInfo"} -> BlockInfoAccepted(j)
      [] k = "tx"     -> TxAccepted(type, j)
      [] k = "expect" -> IsSmartContractTx(type) /\ ResultAccepted(j)

ParseObject(type, k, j) ==
    CASE type = "setState" /\ k = "accounts" -> Pairs(j, processAccount)
      [] k = "newAddresses" -> Each(j.list, LAMBDA n : Fields(n, NewAddressKinds, FALSE))
      [] type = "checkState" ->
            [Accounts |-> Pairs(WithoutPlus(j), processCheckAccount), MoreAccountsAllowed |-> "+" \in Keys(j)]
      [] k \in {"previousBlockInfo", "currentBlockInfo"} -> Fields(j, BlockInfoKinds, TRUE)
      [] k = "tx"     -> processTx(type, j)
      [] k = "expect" -> processTxExpectedResult(j)

WriteObject(type, k, x) ==
    CASE type = "setState" /\ k = "accounts" ->
            Map([i \in DOMAIN x |-> <<x[i][1], AccountToOJ(x[i][2])>>])
      [] k = "newAddresses" -> List(Each(x, LAMBDA n : Map(WriteFields(n, NewAddressWritten))))
      [] type = "checkState" ->
            Map([i \in DOMAIN x.Accounts |-> <<x.Accounts[i][1], CheckAccountToOJ(x.Accounts[i][2])>>]
                \o Plus(x.MoreAccountsAllowed))
      [] k \in {"previousBlockInfo", "currentBlockInfo"} -> Map(WriteFields(x, BlockInfoWritten))
      [] k = "tx"     -> transactionToScenarioOJ(type, x)
      [] k = "expect" -> resultToOJ(x)

SeenObject(type, k, x) ==
    CASE type = "setState" /\ k = "accounts" ->
            [i \in DOMAIN x |-> <<Interpret[x[i][1]], SeenAccount(x[i][2])>>]
      [] k = "newAddresses" -> Each(x, LAMBDA n : Seen(n, {}))
      [] type = "checkState" ->
            <<x.MoreAccountsAllowed,
              [i \in DOMAIN x.Accounts |-> <<Interpret[x.Accounts[i][1]], SeenCheckAccount(x.Accounts[i][2])>>]>>
      [] k \in {"previousBlockInfo", "currentBlockInfo"} -> SeenBlockInfo(x)
      [] k = "tx"     -> SeenTx(type, x)
      [] k = "expect" -> SeenResult(x)

(***************************************************************************)
(* Steps.                                                                  *)
(***************************************************************************)
StepTypes == {"externalSteps", "setState", "checkState", "dumpState"} \union TxTypes
StepAlias == [txId |-> "id"]

StepKinds(type) ==
    CASE type = "externalSteps" -> [comment |-> "text", path |-> "text", traceGas |-> "flag"]
      [] type = "setState"      -> [comment |-> "text", id |-> "text", blockHashes |-> "bytesList"]
      [] type = "checkState"    -> [comment |-> "text", id |-> "text"]
      [] type = "dumpState"     -> [comment |-> "text"]
      [] type \in TxTypes       -> [comment |-> "text", id |-> "text", displayLogs |-> "flag"]

StepObjects(type) ==
    CASE type = "setState"   -> {"accounts", "newAddresses", "previousBlockInfo", "currentBlockInfo"}
      [] type = "checkState" -> {"accounts"}
      [] type \in TxTypes    -> {"tx", "expect"}
      [] OTHER               -> {}

\* Mutant: what is expected is written before the transaction.
ExpectBeforeTx ==
    << <<"id", "original">>, <<"comment", "original">>, <<"displayLogs", "true">>,
       <<"expect", "specified">>, <<"tx", "always">> >>
TxStepWritten ==
    << <<"id", "original">>, <<"comment", "original">>, <<"displayLogs", "true">>,
       <<"tx", "always">>, <<"expect", "specified">> >>

\* The block infos are pointers, empty ones are written.
StepWritten(type) ==
    CASE type = "externalSteps" -> << <<"comment", "original">>, <<"path", "always">> >>
      [] type = "setState" ->
            << <<"id", "original">>, <<"comment", "original">>, <<"accounts", "nonempty">>,
               <<"newAddresses", "nonempty">>, <<"previousBlockInfo", "specified">>,
               <<"currentBlockInfo", "specified">>, <<"blockHashes", "nonempty">> >>
      [] type = "checkState" ->
            << <<"id", "original">>, <<"comment", "original">>, <<"accounts", "always">> >>
      [] type = "dumpState" -> << <<"comment", "original">> >>
      [] type \in TxTypes -> TxStepWritten

TypeOf(o) == At(o, "step").str

\* Only transactions have another name for the id.
Step(o) == IF TypeOf(o) \in TxTypes THEN Renamed(o, StepAlias) ELSE o

FieldsOfStepAccepted(type, o) ==
    /\ FieldsAccepted(o, StepKinds(type), StepObjects(type) \union {"step"})
    /\ \A k \in Keys(o) \intersect StepObjects(type) : ObjectAccepted(type, k, At(o, k))

StepAccepted(j) ==
    /\ Is("map", j) /\ "step" \in Keys(j) /\ Is("str", At(j, "step"))
    /\ TypeOf(j) \in StepTypes
    /\ FieldsOfStepAccepted(TypeOf(j), Step(j))

\* "expect" asks the transaction for its type, which is not there before "tx".
ParserPanics(j) ==
    /\ Is("map", j) /\ "step" \in Keys(j) /\ Is("str", At(j, "step"))
    /\ TypeOf(j) \in TxTypes
    /\ \E i \in DOMAIN j.map :
        LET before == Map(SubSeq(Step(j).map, 1, i - 1))
        IN  /\ j.map[i][1] = "expect"
            /\ "tx" \notin Keys(before)
            /\ FieldsOfStepAccepted(TypeOf(j), before)

processScenarioStep(j) ==
    LET type == TypeOf(j)
        o    == Step(j)
    IN  [type    |-> type,
         fields  |-> Fields(o, StepKinds(type), TRUE),
         objects |-> [k \in Keys(o) \intersect StepObjects(type) |-> ParseObject(type, k, At(o, k))]]

\* The accounts of a check and the transaction are dereferenced.
WriterPanics(step) ==
    \/ step.type = "checkState" /\ "accounts" \notin DOMAIN step.objects
    \/ step.type \in TxTypes /\ "tx" \notin DOMAIN step.objects

StepToOJ(step) ==
    LET objects == [k \in StepObjects(step.type) |->
                        IF k \in DOMAIN step.objects
                        THEN Read(step.objects[k], WriteObject(step.type, k, step.objects[k]))
                        ELSE Missing("object", TRUE)]
    IN  Map(<< <<"step", Str(step.type)>> >> \o WriteFields(With(step.fields, objects), StepWritten(step.type)))

\* Accounts and new addresses that are not there are like none.
Absent(k) == IF k \in {"accounts", "newAddresses"} THEN <<>> ELSE Whatever

SeenStep(step) ==
    [type    |-> step.type,
     fields  |-> Seen(step.fields, {"traceGas"}),
     objects |-> [k \in StepObjects(step.type) |->
                    IF k \in DOMAIN step.objects THEN SeenObject(step.type, k, step.objects[k])
                    ELSE Absent(k)]]

(***************************************************************************)
(* Scenarios.                                                              *)
(***************************************************************************)
ScenarioKinds ==
    [name |-> "text", comment |-> "text", checkGas |-> "flag", traceGas |-> "flag", gasSchedule |-> "text"]
GasSchedules == {"default", "dummy", "v3", "v4"}

StepsOf(o) == IF "steps" \in Keys(o) THEN At(o, "steps").list ELSE <<>>

ScenarioAccepted(o) ==
    /\ FieldsAccepted(o, ScenarioKinds, {"steps"})
    /\ "gasSchedule" \in Keys(o) => At(o, "gasSchedule").str \in GasSchedules
    /\ "steps" \in Keys(o) => Is("list", At(o, "steps"))
    /\ \A i \in DOMAIN StepsOf(o) : StepAccepted(StepsOf(o)[i])

ParseScenarioFile(o) ==
    LET defaults == Map(<< <<"checkGas", Flag(TRUE)>>, <<"gasSchedule", Str("default")>> >>)
        Given(kv) == kv[1] \notin Keys(o)
        filled   == Map(o.map \o Kept(defaults.map, Given))
    IN  [fields |-> Fields(filled, ScenarioKinds, FALSE),
         Steps  |-> Each(StepsOf(o), processScenarioStep)]

ScenarioWritten ==
    << <<"name", "original">>, <<"comment", "original">>, <<"checkGas", "false">>,
       <<"traceGas", "true">>, <<"gasSchedule", "original">>, <<"steps", "always">> >>

ScenarioToOrderedJSON(scenario) ==
    LET withoutDefault ==
            [scenario.fields EXCEPT !.gasSchedule.original = IF @ = Str("default") THEN Str("") ELSE @]
        steps == Each(scenario.Steps, StepToOJ)
    IN  Map(WriteFields(With(withoutDefault, [steps |-> Read(steps, List(steps))]), ScenarioWritten))

SeenScenario(scenario) ==
    [fields |-> Seen(scenario.fields, {}), Steps |-> Each(scenario.Steps, SeenStep)]
=============================================================================

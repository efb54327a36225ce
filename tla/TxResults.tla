----------------------------- MODULE TxResults ------------------------------
(***************************************************************************)
(* What is expected of a transaction, against what it gave:                *)
(* stepCheckTxResult.go with the Check functions of the conditions.  An    *)
(* output is a record of ReturnCode, ReturnMessage, ReturnData, GasRefund, *)
(* GasRemaining and Logs, a log one of Address, Identifier, Topics and     *)
(* Data; all are bytes or lists of bytes.                                  *)
(***************************************************************************)
EXTENDS ScenarioFormat

CONSTANTS
    StrText,       \* the reconstructor's text for bytes that are shown as a string
    AddressText,   \* its text for bytes that have the length of an address
    Remark         \* its text for all other bytes: hexadecimal, and a remark in brackets

ASSUME TextAssumption ==
    /\ Remark \notin DOMAIN Interpret
    /\ "*" \notin Range(StrText) \union Range(AddressText) \union {Remark}

Check(condition, other) == condition.value \in {Whatever, other}

\* Mutant: a list of conditions is one on the first elements.
CheckPrefix(conditions, other) ==
    \/ conditions.value = Whatever
    \/ /\ Len(conditions.value) <= Len(other)
       /\ \A i \in DOMAIN conditions.value : conditions.value[i] \in {Whatever, other[i]}

CheckList(conditions, other) ==
    \/ conditions.value = Whatever
    \/ /\ Len(conditions.value) = Len(other)
       /\ \A i \in DOMAIN other : conditions.value[i] \in {Whatever, other[i]}

checkTxLog(expected, actual) ==
    /\ Check(expected.address, actual.Address)
    /\ Check(expected.endpoint, actual.Identifier)
    /\ CheckList(expected.topics, actual.Topics)
    /\ CheckList(expected.data, actual.Data)

checkTxLogs(expected, actual) ==
    \/ expected.IsStar
    \/ /\ Len(actual) >= Len(expected.List)
       /\ \A i \in DOMAIN actual :
            IF i <= Len(expected.List) THEN checkTxLog(expected.List[i], actual[i])
            ELSE expected.MoreAllowedAtEnd

\* Gas that is not specified is not checked, all the rest is: to be 0 or empty.
checkTxResults(blResult, checkGas, output) ==
    LET expected == blResult.fields
    IN  /\ Check(expected.status, output.ReturnCode)
        /\ Check(expected.message, output.ReturnMessage)
        /\ CheckList(expected.out, output.ReturnData)
        /\ Check(expected.refund, output.GasRefund)
        /\ checkGas /\ ~expected.gas.unspecified => Check(expected.gas, output.GasRemaining)
        /\ checkTxLogs(blResult.logs, output.Logs)

(***************************************************************************)
(* The log that was not expected, as the message of the error shows it:    *)
(* every value reconstructed, topics and data without a hint.              *)
(***************************************************************************)
Reconstruct(bytes, hint) ==
    CASE hint = "str" -> StrText[bytes]
      [] hint = "address" /\ bytes \in DOMAIN AddressText -> AddressText[bytes]
      [] OTHER -> IF bytes = <<>> THEN "" ELSE Remark

JSONCheckBytesReconstructed(bytes, hint) == Read(bytes, Str(Reconstruct(bytes, hint)))

ReconstructedList(values) ==
    Read(values, List(Each(values, LAMBDA bytes : Str(Reconstruct(bytes, "none")))))

\* Mutant: topics and data change places.
SwappedLog(log) ==
    [address  |-> JSONCheckBytesReconstructed(log.Address, "address"),
     endpoint |-> JSONCheckBytesReconstructed(log.Identifier, "str"),
     topics   |-> ReconstructedList(log.Data),
     data     |-> ReconstructedList(log.Topics)]
convertLogToTestFormat(log) ==
    [address  |-> JSONCheckBytesReconstructed(log.Address, "address"),
     endpoint |-> JSONCheckBytesReconstructed(log.Identifier, "str"),
     topics   |-> ReconstructedList(log.Topics),
     data     |-> ReconstructedList(log.Data)]

logToOJ(log) == Map(WriteFields(log, LogWritten))
=============================================================================

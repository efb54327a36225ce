---------------------------- MODULE ResultChecks ----------------------------
(***************************************************************************)
(* The conditions of a scenario file on the results of its transactions,   *)
(* as they are checked, against what they say: the meaning of "expect",    *)
(* stated of the JSON itself, knows nothing of the records in between.     *)
(***************************************************************************)
EXTENDS Formatter, TxResults

CONSTANT Outputs   \* results a transaction may have

Bytes == Seq(0..255)
Log == [Address : Bytes, Identifier : Bytes, Topics : Seq(Bytes), Data : Seq(Bytes)]

ASSUME OutputsAssumption ==
    Outputs \subseteq
        [ReturnCode : Bytes, ReturnMessage : Bytes, ReturnData : Seq(Bytes),
         GasRefund : Bytes, GasRemaining : Bytes, Logs : Seq(Log)]

ASSUME IdentifierAssumption ==
    \A output \in Outputs : \A i \in DOMAIN output.Logs : output.Logs[i].Identifier \in DOMAIN StrText

ExpectIn(j) == IF "expect" \in Keys(j) THEN {At(j, "expect")} ELSE {}

\* The conditions of a file that can be read.
ExpectationsOf(j) ==
    IF Reading(j) = "succeeds"
    THEN UNION {ExpectIn(StepsOf(j)[i]) : i \in DOMAIN StepsOf(j)}
    ELSE {}

Expectations == ExpectationsOf(file)

(***************************************************************************)
(* The meaning of a condition: "*" is met by everything, other values by   *)
(* themselves, a list by a list of its length, a single value by the list  *)
(* of it, and the empty text by the empty list.                            *)
(***************************************************************************)
Meets(bytes, j) == j = Star \/ bytes = Value(j)

MeetsList(values, j) ==
    CASE j = Star      -> TRUE
      [] j = Str("")   -> values = <<>>
      [] Is("list", j) -> Len(values) = Len(j.list) /\ \A i \in DOMAIN values : Meets(values[i], j.list[i])
      [] OTHER         -> Len(values) = 1 /\ Meets(values[1], j)

\* What is not mentioned is asked to be empty.
Asked(o, k) == IF k \in Keys(o) THEN At(o, k) ELSE Str("")

MeetsLog(log, o) ==
    /\ Meets(log.Address, Asked(o, "address"))
    /\ Meets(log.Identifier, Asked(o, "endpoint"))
    /\ MeetsList(log.Topics, Asked(o, "topics"))
    /\ MeetsList(log.Data, Asked(o, "data"))

\* One log each for the entries, and any number for "+".
MeetsLogs(logs, j) ==
    \/ j = Star
    \/ LET more == \E i \in DOMAIN j.list : j.list[i] = Str("+")
           entries == Kept(j.list, NotMore)
       IN  /\ IF more THEN Len(logs) >= Len(entries) ELSE Len(logs) = Len(entries)
           /\ \A i \in DOMAIN entries : MeetsLog(logs[i], entries[i])

\* Only gas and logs may go unmentioned with nothing asked of them.
MeetsExpectation(output, o, checkGas) ==
    /\ Meets(output.ReturnCode, Asked(o, "status"))
    /\ Meets(output.ReturnMessage, Asked(o, "message"))
    /\ MeetsList(output.ReturnData, Asked(o, "out"))
    /\ Meets(output.GasRefund, Asked(o, "refund"))
    /\ checkGas /\ "gas" \in Keys(o) => Meets(output.GasRemaining, At(o, "gas"))
    /\ "logs" \in Keys(o) => MeetsLogs(output.Logs, At(o, "logs"))

(***************************************************************************)
(* Properties.                                                             *)
(***************************************************************************)
\* checkTxResults accepts exactly the outputs that meet what the file says, through
\* all the defaults of the parser and the model (the zero value of Out, logs that are
\* "*" when missing, gas that is not checked), and of formatted files as of others.
ResultsCheckedAsWritten ==
    \A o \in Expectations, output \in Outputs, checkGas \in BOOLEAN :
        checkTxResults(processTxExpectedResult(o), checkGas, output)
            <=> MeetsExpectation(output, o, checkGas)

Unexpected(expected, actual) ==
    {i \in DOMAIN actual : i > Len(expected.List) \/ ~checkTxLog(expected.List[i], actual[i])}

\* The interpreter takes what is shown of a log.  Bytes with a remark it refuses, and
\* so all topics and data but empty ones.
Readable(log) ==
    /\ Reconstruct(log.Address, "address") \in DOMAIN Interpret
    /\ Reconstruct(log.Identifier, "str") \in DOMAIN Interpret
    /\ \A i \in DOMAIN log.Topics : log.Topics[i] = <<>>
    /\ \A i \in DOMAIN log.Data : log.Data[i] = <<>>

\* The log it takes it for: texts of other bytes are possible, see ExprRoundTrip.
AsRead(log) ==
    [log EXCEPT !.Address    = Interpret[Reconstruct(@, "address")],
                !.Identifier = Interpret[Reconstruct(@, "str")]]

\* When a log is not the expected one, the error shows it in the format of the scenario
\* (convertLogToTestFormat; only the topics where those are wrong).  Put into the file as
\* it is printed, that is refused, or a condition which the log it is read as meets and no
\* other log of any output: nothing of a log is lost or mixed up on the way.
ReportedLogIsReadAsShown ==
    \A o \in Expectations, output \in Outputs :
        LET expected == processTxExpectedResult(o).logs
        IN  ~checkTxLogs(expected, output.Logs) =>
                \A i \in Unexpected(expected, output.Logs) :
                    LET log     == output.Logs[i]
                        printed == List(<<logToOJ(convertLogToTestFormat(log))>>)
                    IN  /\ LogsAccepted(printed) <=> Readable(log)
                        /\ Readable(log) => \A other \in Outputs : \A k \in DOMAIN other.Logs :
                            checkTxLogs(processLogList(printed), <<other.Logs[k]>>)
                                <=> other.Logs[k] = AsRead(log)
=============================================================================

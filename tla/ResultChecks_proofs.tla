--------------------------- MODULE ResultChecks_proofs ---------------------------
(***************************************************************************)
(* Machine-checked proofs about Formatter and ResultChecks: for every      *)
(* value of the constants, the conditions of a scenario on the results of  *)
(* transactions are checked as they are written, in files as they are      *)
(* found and as the formatter leaves them; and what the formatter has      *)
(* written it never changes again.                                         *)
(***************************************************************************)
EXTENDS ResultChecks, Sums_proofs

\* "Whatever" is a value of its own, no bytes and no list.
WhateverIsNoList == \A S : Whatever \notin Seq(S)

\* The lists of a condition are finite sequences.
Listed(j) == Is("list", j) => j.list \in Seq(Range(j.list))
ListedTree(j) == Listed(j) /\ (Is("list", j) => \A x \in Range(j.list) : Listed(x))
ListedObject(o) == \A k \in Keys(o) : ListedTree(At(o, k))
ListedLogs(j) == Listed(j) /\ (Is("list", j) => \A x \in Range(j.list) : Is("map", x) => ListedObject(x))
ListedExpectation(o) == ListedObject(o) /\ ("logs" \in Keys(o) => ListedLogs(At(o, "logs")))

----------------------------------------------------------------------------
(* Values *)

\* What is made of a list, element by element, is a list of the same length.
LEMMA MappedList ==
    ASSUME NEW S, NEW l \in Seq(S), NEW f, f = [i \in DOMAIN l |-> f[i]]
    PROVE  f \in Seq(Range(f)) /\ Len(f) = Len(l) /\ DOMAIN f = 1..Len(l) /\ DOMAIN l = 1..Len(l)
<1>1. DOMAIN l = 1..Len(l) /\ Len(l) \in Nat
  OBVIOUS
<1>2. f \in [1..Len(l) -> Range(f)]
  BY <1>1 DEF Range
<1> QED BY <1>1, <1>2

\* What is made of a list, if each element is made into a V.
LEMMA MappedInto ==
    ASSUME NEW S, NEW l \in Seq(S), NEW V, NEW f, f = [i \in DOMAIN l |-> f[i]], \A i \in DOMAIN l : f[i] \in V
    PROVE  f \in Seq(V)
<1>1. DOMAIN l = 1..Len(l) /\ Len(l) \in Nat
  OBVIOUS
<1>2. f \in [1..Len(l) -> V]
  BY <1>1
<1> QED BY <1>1, <1>2

\* What is read of a value that is not "*" are bytes.
LEMMA ValueIsBytes ==
    ASSUME NEW j, j # Star, IsTree(j), Listed(j)
    PROVE  Value(j) \in Bytes
<1>1. CASE IsBytes(j)
  BY <1>1, FieldsAssumption DEF IsBytes, Is, Value, Bytes
<1>2. CASE Is("list", j) /\ \A i \in DOMAIN j.list : IsBytes(j.list[i])
  <2> DEFINE parts == [i \in DOMAIN j.list |-> Interpret[j.list[i].str]]
  <2>1. j.list \in Seq(Range(j.list))
    BY <1>2 DEF Listed
  <2>2. \A i \in DOMAIN j.list : Interpret[j.list[i].str] \in Bytes
    BY <1>2, FieldsAssumption DEF IsBytes, Bytes
  <2>3. parts \in Seq(Bytes)
    BY <2>1, <2>2
  <2>4. FlattenSeq(parts) \in Bytes
    BY <2>3, FlattenType DEF Bytes
  <2>5. ~Is("str", j)
    BY <1>2 DEF Is
  <2> QED BY <2>4, <2>5 DEF Value, Each
<1> QED BY <1>1, <1>2 DEF IsTree

\* A single condition is met by what it says, and "*" by everything.
LEMMA CheckMeans ==
    ASSUME WhateverIsNoList, NEW j, IsCheck(j), Listed(j), NEW bytes
    PROVE  Value(j) \in {Whatever, bytes} <=> Meets(bytes, j)
<1>1. CASE j = Star
  BY <1>1 DEF Meets, Value
<1>2. CASE j # Star
  <2>1. Value(j) \in Bytes
    BY <1>2, ValueIsBytes DEF IsCheck
  <2>2. Value(j) # Whatever
    BY <2>1 DEF WhateverIsNoList, Bytes
  <2> QED BY <1>2, <2>2 DEF Meets
<1> QED BY <1>1, <1>2

\* What the parser makes of the empty text, and of an absent condition.
LEMMA EmptyList ==
    ASSUME WhateverIsNoList, NEW conditions, conditions.value = <<>>, NEW values \in Seq(Bytes)
    PROVE  CheckList(conditions, values) <=> values = <<>>
<1>1. <<>> # Whatever
  <2>1. <<>> \in Seq(Nat)
    OBVIOUS
  <2> QED BY <2>1 DEF WhateverIsNoList
<1> QED BY <1>1 DEF CheckList

\* A list of conditions is met one by one.
LEMMA ListMeans ==
    ASSUME WhateverIsNoList, NEW j, Accepted("checkList", j), ListedTree(j), NEW values \in Seq(Bytes)
    PROVE  CheckList(parseCheckValueList(j), values) <=> MeetsList(values, j)
<1>1. IsCheck(j) \/ (Is("list", j) /\ \A i \in DOMAIN j.list : IsCheck(j.list[i]))
  BY DEF Accepted
<1>2. CASE j = Star
  <2>1. j # Str("") /\ ~Is("list", j)
    BY <1>2 DEF Star, Str, Is
  <2> QED BY <1>2, <2>1 DEF CheckList, parseCheckValueList, MeetsList, Read
<1>3. CASE j = Str("")
  <2>1. j # Star /\ ~Is("list", j)
    BY <1>3 DEF Star, Str, Is
  <2>2. parseCheckValueList(j).value = <<>> /\ (MeetsList(values, j) <=> values = <<>>)
    BY <1>3, <2>1 DEF parseCheckValueList, MeetsList, Read
  <2> QED BY <2>2, EmptyList
<1>4. CASE Is("list", j) /\ j # Star /\ j # Str("")
  <2> DEFINE read == [i \in DOMAIN j.list |-> Value(j.list[i])]
             parsed == parseCheckValueList(j)
  <2>1. j.list \in Seq(Range(j.list)) /\ \A i \in DOMAIN j.list : Listed(j.list[i])
    BY <1>4 DEF ListedTree, Listed, Range
  <2>2. \A i \in DOMAIN j.list : IsCheck(j.list[i])
    <3>1. CASE IsCheck(j)
      <4>1. IsTree(j) /\ ~IsBytes(j)
        BY <1>4, <3>1 DEF IsCheck, IsBytes, Is
      <4> QED BY <4>1 DEF IsTree, IsCheck
    <3> QED BY <1>1, <3>1
  <2>3. parsed.value = read
    BY <1>4 DEF parseCheckValueList, Each, Read
  <2>4. read \in Seq(Range(read)) /\ Len(read) = Len(j.list) /\ DOMAIN j.list = 1..Len(j.list)
    <3>1. read = [i \in DOMAIN j.list |-> read[i]]
      OBVIOUS
    <3> HIDE DEF read
    <3> QED BY <2>1, <3>1, MappedList
  <2>5. read # Whatever
    BY <2>4 DEF WhateverIsNoList
  <2>6. \A i \in DOMAIN j.list : read[i] \in {Whatever, values[i]} <=> Meets(values[i], j.list[i])
    BY <2>1, <2>2, CheckMeans
  <2>7. CheckList(parsed, values) <=>
            Len(read) = Len(values) /\ \A i \in DOMAIN values : read[i] \in {Whatever, values[i]}
    BY <2>3, <2>5 DEF CheckList
  <2>8. MeetsList(values, j) <=>
            Len(values) = Len(j.list) /\ \A i \in DOMAIN values : Meets(values[i], j.list[i])
    BY <1>4 DEF MeetsList
  <2>9. Len(values) = Len(j.list) => DOMAIN values = DOMAIN j.list
    BY <2>4
  <2>10. Len(values) = Len(j.list) =>
            ((\A i \in DOMAIN values : read[i] \in {Whatever, values[i]})
                <=> \A i \in DOMAIN values : Meets(values[i], j.list[i]))
    BY <2>6, <2>9
  <2>11. CheckList(parsed, values) <=> MeetsList(values, j)
    <3> HIDE DEF read, parsed
    <3> QED BY <2>4, <2>7, <2>8, <2>10
  <2> QED BY <2>11
<1>5. CASE ~Is("list", j) /\ j # Star /\ j # Str("")
  <2>1. IsCheck(j) /\ Listed(j)
    BY <1>1, <1>5 DEF Listed
  <2>2. parseCheckValueList(j).value = <<Value(j)>>
    BY <1>5 DEF parseCheckValueList, Read
  <2>3. <<Value(j)>> # Whatever
    <3>1. <<Value(j)>> \in Seq({Value(j)})
      OBVIOUS
    <3> QED BY <3>1 DEF WhateverIsNoList
  <2>4. CheckList(parseCheckValueList(j), values) <=>
            1 = Len(values) /\ \A i \in DOMAIN values : <<Value(j)>>[i] \in {Whatever, values[i]}
    BY <2>2, <2>3 DEF CheckList
  <2>5. Len(values) = 1 => DOMAIN values = {1}
    OBVIOUS
  <2>6. Value(j) \in {Whatever, values[1]} <=> Meets(values[1], j)
    BY <2>1, CheckMeans
  <2>7. MeetsList(values, j) <=> Len(values) = 1 /\ Meets(values[1], j)
    BY <1>5 DEF MeetsList
  <2> QED BY <2>4, <2>5, <2>6, <2>7
<1> QED BY <1>2, <1>3, <1>4, <1>5

----------------------------------------------------------------------------
(* Objects *)

\* A condition in an object, on one value.
LEMMA FieldMeans ==
    ASSUME WhateverIsNoList, NEW o, NEW kinds, NEW others, NEW unspecified,
           FieldsAccepted(o, kinds, others), ListedObject(o),
           NEW k \in DOMAIN kinds, kinds[k] \in {"check", "checkText"}, NEW bytes
    PROVE  Check(Fields(o, kinds, unspecified)[k], bytes) <=> Meets(bytes, Asked(o, k))
<1> DEFINE field == Fields(o, kinds, unspecified)[k]
<1>1. CASE k \in Keys(o)
  <2>1. Accepted(kinds[k], At(o, k)) /\ Listed(At(o, k))
    BY <1>1 DEF FieldsAccepted, ListedObject, ListedTree
  <2>2. IsCheck(At(o, k))
    BY <2>1 DEF Accepted, IsCheck, IsTree
  <2>3. field.value = Value(At(o, k))
    BY <1>1 DEF Fields, Parsed, Read
  <2>4. Asked(o, k) = At(o, k)
    BY <1>1 DEF Asked
  <2> HIDE DEF field
  <2>5. Check(field, bytes) <=> Meets(bytes, Asked(o, k))
    BY <2>1, <2>2, <2>3, <2>4, CheckMeans DEF Check
  <2> QED BY <2>5 DEF field
<1>2. CASE k \notin Keys(o)
  <2>1. field.value = <<>>
    BY <1>2 DEF Fields, Missing
  <2>2. Asked(o, k) = Str("") /\ Str("") # Star /\ IsCheck(Str("")) /\ Listed(Str(""))
    BY <1>2, FieldsAssumption DEF Asked, Str, Star, IsCheck, IsTree, IsBytes, Listed, Is
  <2>3. Value(Str("")) = <<>>
    BY <2>2, FieldsAssumption DEF Value, Str, Is
  <2> HIDE DEF field
  <2>4. Check(field, bytes) <=> Meets(bytes, Asked(o, k))
    BY <2>1, <2>2, <2>3, CheckMeans DEF Check
  <2> QED BY <2>4 DEF field
<1> QED BY <1>1, <1>2

\* A condition in an object, on a list.
LEMMA FieldListMeans ==
    ASSUME WhateverIsNoList, NEW o, NEW kinds, NEW others, NEW unspecified,
           FieldsAccepted(o, kinds, others), ListedObject(o),
           NEW k \in DOMAIN kinds, kinds[k] = "checkList", NEW values \in Seq(Bytes)
    PROVE  CheckList(Fields(o, kinds, unspecified)[k], values) <=> MeetsList(values, Asked(o, k))
<1> DEFINE field == Fields(o, kinds, unspecified)[k]
<1>1. CASE k \in Keys(o)
  <2>1. Accepted("checkList", At(o, k)) /\ ListedTree(At(o, k))
    BY <1>1 DEF FieldsAccepted, ListedObject
  <2>2. field = parseCheckValueList(At(o, k))
    BY <1>1 DEF Fields, Parsed
  <2>3. Asked(o, k) = At(o, k)
    BY <1>1 DEF Asked
  <2> HIDE DEF field
  <2>4. CheckList(field, values) <=> MeetsList(values, Asked(o, k))
    BY <2>1, <2>2, <2>3, ListMeans
  <2> QED BY <2>4 DEF field
<1>2. CASE k \notin Keys(o)
  <2>1. field.value = <<>>
    BY <1>2 DEF Fields, Missing
  <2>2. Asked(o, k) = Str("") /\ Str("") # Star
    BY <1>2 DEF Asked, Str, Star
  <2>3. MeetsList(values, Str("")) <=> values = <<>>
    <3>1. ~Is("list", Str(""))
      BY DEF Is, Str
    <3> QED BY <2>2, <3>1 DEF MeetsList
  <2> HIDE DEF field
  <2>4. CheckList(field, values) <=> MeetsList(values, Asked(o, k))
    BY <2>1, <2>2, <2>3, EmptyList
  <2> QED BY <2>4 DEF field
<1> QED BY <1>1, <1>2

\* An entry among the logs is met by the logs it describes.
LEMMA LogMeans ==
    ASSUME WhateverIsNoList, NEW e, FieldsAccepted(e, LogKinds, {}), ListedObject(e), NEW log \in Log
    PROVE  checkTxLog(Fields(e, LogKinds, FALSE), log) <=> MeetsLog(log, e)
<1> DEFINE fields == Fields(e, LogKinds, FALSE)
<1>1. /\ {"address", "endpoint", "topics", "data"} = DOMAIN LogKinds
      /\ LogKinds["address"] = "check" /\ LogKinds["endpoint"] = "check"
      /\ LogKinds["topics"] = "checkList" /\ LogKinds["data"] = "checkList"
  BY DEF LogKinds
<1>2. log.Topics \in Seq(Bytes) /\ log.Data \in Seq(Bytes)
  BY DEF Log
<1>3. Check(fields["address"], log.Address) <=> Meets(log.Address, Asked(e, "address"))
  BY <1>1, FieldMeans
<1>4. Check(fields["endpoint"], log.Identifier) <=> Meets(log.Identifier, Asked(e, "endpoint"))
  BY <1>1, FieldMeans
<1>5. CheckList(fields["topics"], log.Topics) <=> MeetsList(log.Topics, Asked(e, "topics"))
  BY <1>1, <1>2, FieldListMeans
<1>6. CheckList(fields["data"], log.Data) <=> MeetsList(log.Data, Asked(e, "data"))
  BY <1>1, <1>2, FieldListMeans
<1> HIDE DEF fields
<1>7. checkTxLog(fields, log) <=> MeetsLog(log, e)
  BY <1>3, <1>4, <1>5, <1>6 DEF checkTxLog, MeetsLog
<1> QED BY <1>7 DEF fields

\* The entries of a list of logs, without "+", are accepted ones.
LEMMA EntriesOf ==
    ASSUME NEW j, LogsAccepted(j), j # Star, ListedLogs(j)
    PROVE  Kept(j.list, NotMore) \in Seq({e \in Range(j.list) : FieldsAccepted(e, LogKinds, {}) /\ ListedObject(e)})
<1> DEFINE S == {e \in Range(j.list) : FieldsAccepted(e, LogKinds, {}) /\ ListedObject(e)}
           parts == [i \in DOMAIN j.list |-> IF NotMore(j.list[i]) THEN <<j.list[i]>> ELSE <<>>]
<1>1. Is("list", j) /\ j.list \in Seq(Range(j.list))
  BY DEF LogsAccepted, ListedLogs, Listed
<1>2. ASSUME NEW i \in DOMAIN j.list, NotMore(j.list[i]) PROVE j.list[i] \in S
  <2>1. FieldsAccepted(j.list[i], LogKinds, {}) /\ j.list[i] \in Range(j.list)
    BY <1>2 DEF LogsAccepted, NotMore, Range
  <2>2. Is("map", j.list[i])
    BY <2>1 DEF FieldsAccepted
  <2> QED BY <1>1, <2>1, <2>2 DEF ListedLogs
<1>3. \A i \in DOMAIN j.list : parts[i] \in Seq(S)
  <2> HIDE DEF S
  <2> QED BY <1>2
<1> HIDE DEF S
<1>4. parts \in Seq(Seq(S))
  <2>1. parts = [i \in DOMAIN j.list |-> parts[i]]
    OBVIOUS
  <2> HIDE DEF parts
  <2> QED BY <1>1, <1>3, <2>1, MappedInto
<1>5. FlattenSeq(parts) \in Seq(S)
  BY <1>4, FlattenType
<1>6. Kept(j.list, NotMore) = FlattenSeq(parts)
  BY DEF Kept, Each
<1> QED BY <1>5, <1>6 DEF S

\* A list of logs is met by one log for each entry, and any number of others for "+".
LEMMA LogsMean ==
    ASSUME WhateverIsNoList, NEW j, LogsAccepted(j), ListedLogs(j), NEW logs \in Seq(Log)
    PROVE  checkTxLogs(processLogList(j), logs) <=> MeetsLogs(logs, j)
<1>1. CASE j = Star
  BY <1>1 DEF checkTxLogs, processLogList, MeetsLogs
<1>2. CASE j # Star
  <2> DEFINE entries == Kept(j.list, NotMore)
             list == [i \in DOMAIN entries |-> Fields(entries[i], LogKinds, FALSE)]
             more == \E i \in DOMAIN j.list : j.list[i] = Str("+")
             S == {e \in Range(j.list) : FieldsAccepted(e, LogKinds, {}) /\ ListedObject(e)}
             expected == processLogList(j)
  <2>1. entries \in Seq(S)
    BY <1>2, EntriesOf
  <2>2. expected.IsStar = FALSE /\ expected.MoreAllowedAtEnd = more /\ expected.List = list
    BY <1>2 DEF processLogList, Each
  <2> HIDE DEF entries, more
  <2>3. \A i \in DOMAIN entries : FieldsAccepted(entries[i], LogKinds, {}) /\ ListedObject(entries[i])
    <3>1. \A i \in DOMAIN entries : entries[i] \in S
      <4> HIDE DEF S
      <4> QED BY <2>1
    <3> QED BY <3>1
  <2>4. Len(list) = Len(entries) /\ DOMAIN entries = 1..Len(entries) /\ Len(entries) \in Nat
    <3> HIDE DEF S
    <3>1. list = [i \in DOMAIN entries |-> list[i]]
      OBVIOUS
    <3> HIDE DEF list
    <3> QED BY <2>1, <3>1, MappedList
  <2>5. \A i \in DOMAIN logs : logs[i] \in Log
    OBVIOUS
  <2>6. DOMAIN logs = 1..Len(logs) /\ Len(logs) \in Nat
    OBVIOUS
  <2>7. \A i \in DOMAIN logs : i \in DOMAIN entries =>
            (checkTxLog(list[i], logs[i]) <=> MeetsLog(logs[i], entries[i]))
    BY <2>3, <2>5, LogMeans
  <2>8. checkTxLogs(expected, logs) <=>
            /\ Len(logs) >= Len(entries)
            /\ \A i \in DOMAIN logs : IF i <= Len(entries) THEN checkTxLog(list[i], logs[i]) ELSE more
    <3> HIDE DEF list, expected
    <3> QED BY <2>2, <2>4 DEF checkTxLogs
  <2>9. MeetsLogs(logs, j) <=>
            /\ IF more THEN Len(logs) >= Len(entries) ELSE Len(logs) = Len(entries)
            /\ \A i \in DOMAIN entries : MeetsLog(logs[i], entries[i])
    BY <1>2 DEF MeetsLogs, entries, more
  <2> HIDE DEF list, S, expected
  <2>10. ASSUME Len(logs) >= Len(entries)
         PROVE  (\A i \in DOMAIN logs : IF i <= Len(entries) THEN checkTxLog(list[i], logs[i]) ELSE more)
                    <=> /\ more \/ Len(logs) = Len(entries)
                        /\ \A i \in DOMAIN entries : MeetsLog(logs[i], entries[i])
    <3>1. \A i \in DOMAIN entries : i \in DOMAIN logs /\ i <= Len(entries)
      BY <2>4, <2>6, <2>10
    <3>2. \A i \in DOMAIN logs : i <= Len(entries) => i \in DOMAIN entries
      BY <2>4, <2>6
    <3>3. Len(logs) = Len(entries) <=> \A i \in DOMAIN logs : i <= Len(entries)
      BY <2>4, <2>6, <2>10
    <3> QED BY <2>7, <3>1, <3>2, <3>3
  <2>11. more \in BOOLEAN
    BY DEF more
  <2>12. checkTxLogs(expected, logs) <=> MeetsLogs(logs, j)
    BY <2>4, <2>6, <2>8, <2>9, <2>10, <2>11
  <2> QED BY <2>12 DEF expected
<1> QED BY <1>1, <1>2

\* The conditions of a step are met by the results they describe.
LEMMA ExpectationMeans ==
    ASSUME WhateverIsNoList, NEW o, ResultAccepted(o), ListedExpectation(o),
           NEW output \in Outputs, NEW checkGas \in BOOLEAN
    PROVE  checkTxResults(processTxExpectedResult(o), checkGas, output)
               <=> MeetsExpectation(output, o, checkGas)
<1> DEFINE result == processTxExpectedResult(o)
           fields == Fields(o, ResultKinds, TRUE)
<1>1. FieldsAccepted(o, ResultKinds, {"logs"}) /\ ListedObject(o)
  BY DEF ResultAccepted, ListedExpectation
<1>2. /\ DOMAIN ResultKinds = {"out", "status", "message", "gas", "refund"}
      /\ ResultKinds["out"] = "checkList" /\ ResultKinds["status"] = "checkText"
      /\ ResultKinds["message"] = "check" /\ ResultKinds["gas"] = "checkText"
      /\ ResultKinds["refund"] = "checkText"
  BY DEF ResultKinds
<1>3. output.ReturnData \in Seq(Bytes) /\ output.Logs \in Seq(Log)
  BY OutputsAssumption
<1>4. Check(fields["status"], output.ReturnCode) <=> Meets(output.ReturnCode, Asked(o, "status"))
  BY <1>1, <1>2, FieldMeans
<1>5. Check(fields["message"], output.ReturnMessage) <=> Meets(output.ReturnMessage, Asked(o, "message"))
  BY <1>1, <1>2, FieldMeans
<1>6. Check(fields["refund"], output.GasRefund) <=> Meets(output.GasRefund, Asked(o, "refund"))
  BY <1>1, <1>2, FieldMeans
<1>7. Check(fields["gas"], output.GasRemaining) <=> Meets(output.GasRemaining, Asked(o, "gas"))
  BY <1>1, <1>2, FieldMeans
<1>8. CheckList(fields["out"], output.ReturnData) <=> MeetsList(output.ReturnData, Asked(o, "out"))
  BY <1>1, <1>2, <1>3, FieldListMeans
<1>9. fields["gas"].unspecified <=> "gas" \notin Keys(o)
  <2>1. CASE "gas" \in Keys(o)
    BY <1>2, <2>1 DEF Fields, Parsed, Read
  <2>2. CASE "gas" \notin Keys(o)
    BY <1>2, <2>2 DEF Fields, Missing
  <2> QED BY <2>1, <2>2
<1>10. "gas" \in Keys(o) => Asked(o, "gas") = At(o, "gas")
  BY DEF Asked
<1>11. result.fields = fields
  BY DEF processTxExpectedResult
<1>12. checkTxLogs(result.logs, output.Logs) <=> ("logs" \in Keys(o) => MeetsLogs(output.Logs, At(o, "logs")))
  <2>1. CASE "logs" \in Keys(o)
    <3>1. LogsAccepted(At(o, "logs")) /\ ListedLogs(At(o, "logs"))
      BY <2>1 DEF ResultAccepted, ListedExpectation
    <3>2. result.logs = processLogList(At(o, "logs"))
      BY <2>1 DEF processTxExpectedResult
    <3> HIDE DEF result
    <3> QED BY <1>3, <2>1, <3>1, <3>2, LogsMean
  <2>2. CASE "logs" \notin Keys(o)
    BY <2>2 DEF processTxExpectedResult, checkTxLogs
  <2> QED BY <2>1, <2>2
<1> HIDE DEF result, fields
<1>13. checkTxResults(result, checkGas, output) <=>
          /\ Check(fields["status"], output.ReturnCode)
          /\ Check(fields["message"], output.ReturnMessage)
          /\ CheckList(fields["out"], output.ReturnData)
          /\ Check(fields["refund"], output.GasRefund)
          /\ checkGas /\ ~fields["gas"].unspecified => Check(fields["gas"], output.GasRemaining)
          /\ checkTxLogs(result.logs, output.Logs)
  BY <1>11 DEF checkTxResults
<1>14. checkTxResults(result, checkGas, output) <=> MeetsExpectation(output, o, checkGas)
  BY <1>4, <1>5, <1>6, <1>7, <1>8, <1>9, <1>10, <1>12, <1>13 DEF MeetsExpectation
<1> QED BY <1>14 DEF result

----------------------------------------------------------------------------
(* Files *)

\* The other name of an id is no name of the conditions.
LEMMA KeyKept ==
    ASSUME NEW s
    PROVE  /\ DOMAIN Step(s).map = DOMAIN s.map
           /\ \A i \in DOMAIN s.map : Step(s).map[i][1] = "expect" <=> s.map[i][1] = "expect"
           /\ "expect" \in Keys(Step(s)) <=> "expect" \in Keys(s)
<1> DEFINE o == Step(s)
<1>1. DOMAIN o.map = DOMAIN s.map /\ \A i \in DOMAIN s.map : o.map[i][1] = "expect" <=> s.map[i][1] = "expect"
  <2>1. DOMAIN StepAlias = {"txId"} /\ StepAlias["txId"] = "id"
    BY DEF StepAlias
  <2>2. CASE TypeOf(s) \in TxTypes
    <3>1. o.map = [i \in DOMAIN s.map |->
              <<IF s.map[i][1] \in DOMAIN StepAlias THEN StepAlias[s.map[i][1]] ELSE s.map[i][1], s.map[i][2]>>]
      BY <2>2 DEF Step, Renamed, Map
    <3> HIDE DEF o
    <3> QED BY <2>1, <3>1
  <2>3. CASE TypeOf(s) \notin TxTypes
    BY <2>3 DEF Step
  <2> QED BY <2>2, <2>3
<1> HIDE DEF o
<1>2. "expect" \in Keys(o) <=> "expect" \in Keys(s)
  BY <1>1 DEF Keys
<1> QED BY <1>1, <1>2 DEF o

\* What a step is read as: its type and what is expected of it.
LEMMA StepExpects ==
    ASSUME NEW s, StepAccepted(s), "expect" \in Keys(s)
    PROVE  /\ TypeOf(s) \in TxTypes /\ ResultAccepted(At(s, "expect"))
           /\ "expect" \in Keys(Step(s)) /\ At(Step(s), "expect") = At(s, "expect")
<1> DEFINE type == TypeOf(s)
           o == Step(s)
<1>1. /\ DOMAIN o.map = DOMAIN s.map
      /\ \A i \in DOMAIN s.map : o.map[i][1] = "expect" <=> s.map[i][1] = "expect"
      /\ "expect" \in Keys(o)
  BY KeyKept
<1>2. \A i \in DOMAIN s.map : o.map[i][2] = s.map[i][2]
  <2>1. CASE type \in TxTypes
    BY <2>1 DEF Step, Renamed, Map
  <2>2. CASE type \notin TxTypes
    BY <2>2 DEF Step
  <2> QED BY <2>1, <2>2
<1>3. type \in StepTypes /\ FieldsOfStepAccepted(type, o)
  BY DEF StepAccepted
<1> HIDE DEF o, type
<1>4. "expect" \in Keys(o)
  BY <1>1
<1>5. At(o, "expect") = At(s, "expect")
  <2>1. (CHOOSE i \in DOMAIN o.map : o.map[i][1] = "expect") = (CHOOSE i \in DOMAIN s.map : s.map[i][1] = "expect")
    BY <1>1
  <2>2. (CHOOSE i \in DOMAIN s.map : s.map[i][1] = "expect") \in DOMAIN s.map
    <3>1. \E i \in DOMAIN s.map : s.map[i][1] = "expect"
      BY DEF Keys
    <3> QED BY <3>1
  <2> QED BY <1>2, <2>1, <2>2 DEF At
<1>6. "expect" \in DOMAIN StepKinds(type) \union StepObjects(type) \union {"step"}
  BY <1>3, <1>4 DEF FieldsOfStepAccepted, FieldsAccepted
<1>7. type \in TxTypes
  BY <1>3, <1>6 DEF StepTypes, StepKinds, StepObjects, TxTypes
<1>8. "expect" \in StepObjects(type)
  BY <1>7 DEF StepObjects, TxTypes
<1>9. ObjectAccepted(type, "expect", At(o, "expect"))
  BY <1>3, <1>4, <1>8 DEF FieldsOfStepAccepted
<1>10. ResultAccepted(At(o, "expect"))
  BY <1>7, <1>9 DEF ObjectAccepted, TxTypes
<1> QED BY <1>4, <1>5, <1>7, <1>10 DEF o, type

\* A file that can be read has steps that can.
LEMMA StepsAccepted ==
    ASSUME NEW j, Reading(j) = "succeeds", NEW i \in DOMAIN StepsOf(j)
    PROVE  StepAccepted(StepsOf(j)[i])
<1>1. ScenarioAccepted(j)
  BY DEF Reading
<1> QED BY <1>1 DEF ScenarioAccepted

\* What a file expects is accepted by the parser.
LEMMA ExpectationsAccepted ==
    ASSUME NEW j, NEW o \in ExpectationsOf(j)
    PROVE  ResultAccepted(o)
<1>1. PICK i \in DOMAIN StepsOf(j) : o \in ExpectIn(StepsOf(j)[i])
  BY DEF ExpectationsOf
<1>2. Reading(j) = "succeeds"
  BY DEF ExpectationsOf
<1>3. "expect" \in Keys(StepsOf(j)[i]) /\ o = At(StepsOf(j)[i], "expect")
  BY <1>1 DEF ExpectIn
<1> QED BY <1>2, <1>3, StepsAccepted, StepExpects

----------------------------------------------------------------------------
(* What is written *)

\* A list is one of its elements.
LEMMA ListOfItsOwn ==
    ASSUME NEW S, NEW l \in Seq(S)
    PROVE  l \in Seq(Range(l)) /\ Range(l) \subseteq S
<1>1. l = [i \in DOMAIN l |-> l[i]]
  OBVIOUS
<1>2. Range(l) \subseteq S
  BY DEF Range
<1> QED BY <1>1, <1>2, MappedList

\* The entry that is written for a line of a table.
Entry(fields, e) == <<e[1], fields[e[1]].original>>

\* The fields that are written are those whose condition holds.
LEMMA WrittenEntries ==
    ASSUME NEW fields, NEW table, table \in Seq(Range(table))
    PROVE  /\ WriteFields(fields, table) \in Seq(Range(WriteFields(fields, table)))
           /\ \A i \in DOMAIN WriteFields(fields, table) : \E e \in Range(table) :
                WrittenIf(e[2], fields[e[1]]) /\ WriteFields(fields, table)[i] = Entry(fields, e)
<1> DEFINE S == {e \in Range(table) : WrittenIf(e[2], fields[e[1]])}
           parts == [k \in DOMAIN table |-> IF WrittenIf(table[k][2], fields[table[k][1]]) THEN <<table[k]>> ELSE <<>>]
           written == FlattenSeq(parts)
<1>1. ASSUME NEW k \in DOMAIN table, WrittenIf(table[k][2], fields[table[k][1]]) PROVE table[k] \in S
  BY <1>1 DEF Range
<1>2. \A k \in DOMAIN table : parts[k] \in Seq(S)
  <2> HIDE DEF S
  <2> QED BY <1>1
<1>3. parts = [k \in DOMAIN table |-> parts[k]]
  OBVIOUS
<1>4. WriteFields(fields, table) = [k \in DOMAIN written |-> Entry(fields, written[k])]
  BY DEF WriteFields, Kept, Each, Entry
<1> HIDE DEF S, parts
<1>5. written \in Seq(S)
  <2>1. parts \in Seq(Seq(S))
    BY <1>2, <1>3, MappedInto
  <2> QED BY <2>1, FlattenType
<1> HIDE DEF written
<1>6. WriteFields(fields, table) \in Seq(Range(WriteFields(fields, table)))
  <2>1. WriteFields(fields, table) = [k \in DOMAIN written |-> WriteFields(fields, table)[k]]
    BY <1>4
  <2> QED BY <1>5, <2>1, MappedList
<1>7. \A i \in DOMAIN WriteFields(fields, table) :
          written[i] \in S /\ WriteFields(fields, table)[i] = Entry(fields, written[i])
  BY <1>4, <1>5
<1> QED BY <1>6, <1>7 DEF S

\* What an object that was written has under a key.
LEMMA WrittenAt ==
    ASSUME NEW fields, NEW table, table \in Seq(Range(table)), NEW before,
           NEW k, k \in Keys(Map(before \o WriteFields(fields, table))),
           before \in Seq(Range(before)), \A i \in DOMAIN before : before[i][1] # k
    PROVE  /\ At(Map(before \o WriteFields(fields, table)), k) = fields[k].original
           /\ \E e \in Range(table) : e[1] = k /\ WrittenIf(e[2], fields[k])
<1> DEFINE w == WriteFields(fields, table)
           all == before \o w
           n == CHOOSE i \in DOMAIN all : all[i][1] = k
<1>0. w \in Seq(Range(w))
  BY WrittenEntries
<1>1. \E i \in DOMAIN all : all[i][1] = k
  BY DEF Keys, Map
<1>2. n \in DOMAIN all /\ all[n][1] = k
  BY <1>1
<1>3. At(Map(all), k) = all[n][2]
  BY DEF At, Map
<1>4. PICK m \in DOMAIN w : all[n] = w[m]
  <2> HIDE DEF w, n
  <2>1. /\ all \in Seq(Range(before) \union Range(w)) /\ Len(all) = Len(before) + Len(w)
        /\ \A i \in 1..Len(all) : all[i] = IF i <= Len(before) THEN before[i] ELSE w[i - Len(before)]
    BY <1>0, ConcatProperties
  <2>2. n \in 1..Len(all) /\ Len(before) \in Nat /\ Len(w) \in Nat /\ DOMAIN before = 1..Len(before) /\ DOMAIN w = 1..Len(w)
    BY <1>0, <1>2, <2>1
  <2> HIDE DEF all
  <2>3. n > Len(before)
    <3> SUFFICES ASSUME n <= Len(before) PROVE FALSE
      BY <2>2
    <3>1. n \in DOMAIN before /\ all[n] = before[n]
      BY <2>1, <2>2
    <3> QED BY <1>2, <3>1
  <2>4. n - Len(before) \in DOMAIN w /\ all[n] = w[n - Len(before)]
    BY <2>1, <2>2, <2>3
  <2> QED BY <2>4
<1>5. PICK e \in Range(table) : WrittenIf(e[2], fields[e[1]]) /\ w[m] = Entry(fields, e)
  BY WrittenEntries
<1> HIDE DEF w, all, n
<1>6. all[n][1] = e[1] /\ all[n][2] = fields[e[1]].original
  BY <1>4, <1>5 DEF Entry
<1>7. At(Map(all), k) = fields[k].original /\ e[1] = k /\ WrittenIf(e[2], fields[k])
  BY <1>2, <1>3, <1>5, <1>6
<1> QED BY <1>7 DEF all, w

\* The same of an object that is only these fields.
LEMMA WrittenAlone ==
    ASSUME NEW fields, NEW table, table \in Seq(Range(table)),
           NEW k, k \in Keys(Map(WriteFields(fields, table)))
    PROVE  /\ At(Map(WriteFields(fields, table)), k) = fields[k].original
           /\ \E e \in Range(table) : e[1] = k /\ WrittenIf(e[2], fields[k])
<1> DEFINE w == WriteFields(fields, table)
<1>1. <<>> \o w = w
  BY WrittenEntries, ConcatEmptySeq
<1> HIDE DEF w
<1>2. ASSUME NEW none, none = <<>>
      PROVE  /\ At(Map(none \o w), k) = fields[k].original
             /\ \E e \in Range(table) : e[1] = k /\ WrittenIf(e[2], fields[k])
  <2>1. k \in Keys(Map(none \o w))
    BY <1>1, <1>2 DEF w
  <2>2. DOMAIN none = {} /\ none \in Seq(Range(none))
    BY <1>2 DEF Range
  <2>3. \A i \in DOMAIN none : none[i][1] # k
    BY <2>2
  <2> QED BY <2>1, <2>2, <2>3, WrittenAt DEF w
<1>3. /\ At(Map(<<>> \o w), k) = fields[k].original
      /\ \E e \in Range(table) : e[1] = k /\ WrittenIf(e[2], fields[k])
  BY <1>2
<1>4. At(Map(w), k) = fields[k].original
  BY <1>1, <1>3
<1> QED BY <1>3, <1>4 DEF w

\* What is kept of a condition, to be written, is in proper lists again.
LEMMA OriginalListed ==
    ASSUME NEW o, NEW kinds, NEW unspecified, ListedObject(o),
           NEW k \in DOMAIN kinds, kinds[k] \in {"check", "checkText", "checkList"}
    PROVE  ListedTree(Fields(o, kinds, unspecified)[k].original)
<1> DEFINE original == Fields(o, kinds, unspecified)[k].original
<1>1. ListedTree(List(<<>>)) /\ ListedTree(Str("")) /\ ListedTree(Nil)
  <2>1. <<>> \in Seq(Range(<<>>)) /\ Range(<<>>) = {}
    BY DEF Range
  <2> QED BY <2>1 DEF ListedTree, Listed, List, Str, Nil, Is
<1>2. CASE k \in Keys(o)
  <2> DEFINE j == At(o, k)
  <2>1. ListedTree(j)
    BY <1>2 DEF ListedObject
  <2>2. original = Parsed(kinds[k], j).original
    BY <1>2 DEF Fields
  <2> HIDE DEF j
  <2>3. original \in {j, List(<<>>), List(<<j>>)} /\ (original = List(<<j>>) => original = j \/ ~Is("list", j))
    <3>1. CASE kinds[k] = "checkList"
      <4>1. original = parseCheckValueList(j).original
        BY <2>2, <3>1 DEF Parsed
      <4> HIDE DEF original
      <4>2. CASE j = Star
        <5>1. j # Str("") /\ ~Is("list", j)
          BY <4>2 DEF Star, Str, Is
        <5> QED BY <4>1, <4>2, <5>1 DEF parseCheckValueList, Read
      <4>3. CASE j = Str("")
        <5>1. j # Star /\ ~Is("list", j)
          BY <4>3 DEF Star, Str, Is
        <5> QED BY <4>1, <4>3, <5>1 DEF parseCheckValueList, Read
      <4>4. CASE j # Star /\ j # Str("") /\ Is("list", j)
        BY <4>1, <4>4 DEF parseCheckValueList, Read
      <4>5. CASE j # Star /\ j # Str("") /\ ~Is("list", j)
        BY <4>1, <4>5 DEF parseCheckValueList, Read
      <4> QED BY <4>2, <4>3, <4>4, <4>5
    <3>2. CASE kinds[k] # "checkList"
      BY <2>2, <3>2 DEF Parsed, Read
    <3> QED BY <3>1, <3>2
  <2>4. ASSUME ~Is("list", j) PROVE ListedTree(List(<<j>>))
    <3>1. <<j>> \in Seq(Range(<<j>>)) /\ Range(<<j>>) = {j}
      BY DEF Range
    <3> QED BY <2>4, <3>1 DEF ListedTree, Listed, List
  <2> HIDE DEF original
  <2>5. ListedTree(original)
    BY <1>1, <2>1, <2>3, <2>4
  <2> QED BY <2>5 DEF original
<1>3. CASE k \notin Keys(o)
  <2>1. original = Missing(kinds[k], unspecified).original
    BY <1>3 DEF Fields
  <2>2. original \in {List(<<>>), Str(""), Nil}
    BY <2>1 DEF Missing
  <2> HIDE DEF original
  <2>3. ListedTree(original)
    BY <1>1, <2>2
  <2> QED BY <2>3 DEF original
<1> QED BY <1>2, <1>3

\* A log entry that is written has proper lists.
LEMMA WrittenLog ==
    ASSUME NEW e, ListedObject(e)
    PROVE  ListedObject(Map(WriteFields(Fields(e, LogKinds, FALSE), LogWritten)))
<1> DEFINE fields == Fields(e, LogKinds, FALSE)
<1>1. /\ LogWritten \in Seq(Range(LogWritten))
      /\ \A x \in Range(LogWritten) : x[1] \in {"address", "endpoint", "topics", "data"}
  BY DEF LogWritten, Range
<1>2. /\ DOMAIN LogKinds = {"address", "endpoint", "topics", "data"}
      /\ \A k \in DOMAIN LogKinds : LogKinds[k] \in {"check", "checkText", "checkList"}
  BY DEF LogKinds
<1>3. \A k \in DOMAIN LogKinds : ListedTree(fields[k].original)
  BY <1>2, OriginalListed
<1> HIDE DEF fields
<1>4. ASSUME NEW k \in Keys(Map(WriteFields(fields, LogWritten)))
      PROVE  ListedTree(At(Map(WriteFields(fields, LogWritten)), k))
  BY <1>1, <1>2, <1>3, WrittenAlone
<1> QED BY <1>4 DEF ListedObject, fields

\* So has the list of logs that is written.
LEMMA WrittenLogs ==
    ASSUME NEW j, LogsAccepted(j), ListedLogs(j), j # Star
    PROVE  /\ ListedTree(logsToOJ(processLogList(j))) /\ ListedLogs(logsToOJ(processLogList(j)))
<1> DEFINE logs == processLogList(j)
           entries == Kept(j.list, NotMore)
           S == {e \in Range(j.list) : FieldsAccepted(e, LogKinds, {}) /\ ListedObject(e)}
           objects == [i \in DOMAIN logs.List |-> Map(WriteFields(logs.List[i], LogWritten))]
           plus == IF logs.MoreAllowedAtEnd THEN <<Str("+")>> ELSE <<>>
           all == objects \o plus
<1>1. entries \in Seq(S)
  BY EntriesOf
<1>2. /\ logs.List = [i \in DOMAIN entries |-> Fields(entries[i], LogKinds, FALSE)]
      /\ DOMAIN logs.List = DOMAIN entries
  BY DEF processLogList, Each
<1> HIDE DEF logs, entries
<1>3. \A i \in DOMAIN entries : ListedObject(entries[i])
  <2>1. \A i \in DOMAIN entries : entries[i] \in S
    <3> HIDE DEF S
    <3> QED BY <1>1
  <2> QED BY <2>1
<1> HIDE DEF S
<1>4. \A i \in DOMAIN objects : ListedObject(objects[i]) /\ ~Is("list", objects[i])
  <2>1. ASSUME NEW i \in DOMAIN entries PROVE ListedObject(objects[i]) /\ ~Is("list", objects[i])
    <3>1. objects[i] = Map(WriteFields(Fields(entries[i], LogKinds, FALSE), LogWritten))
      BY <1>2, <2>1
    <3> HIDE DEF objects
    <3>2. ListedObject(entries[i])
      BY <1>3, <2>1
    <3>3. ListedObject(objects[i])
      BY <3>1, <3>2, WrittenLog
    <3>4. ~Is("list", objects[i])
      BY <3>1 DEF Is, Map
    <3> QED BY <3>3, <3>4
  <2> QED BY <1>2, <2>1
<1>5. objects \in Seq(Range(objects))
  <2>1. objects = [i \in DOMAIN entries |-> objects[i]]
    BY <1>2
  <2> HIDE DEF objects
  <2> QED BY <1>1, <2>1, MappedList
<1>6. logsToOJ(logs) = List(all)
  BY DEF logsToOJ, Each
<1> HIDE DEF objects
<1>7. plus \in Seq({Str("+")})
  OBVIOUS
<1> HIDE DEF plus
<1>8. all \in Seq(Range(objects) \union {Str("+")})
  <2>1. objects \in Seq(Range(objects) \union {Str("+")}) /\ plus \in Seq(Range(objects) \union {Str("+")})
    BY <1>5, <1>7
  <2> QED BY <2>1, ConcatProperties
<1> HIDE DEF all
<1>9. all \in Seq(Range(all)) /\ Range(all) \subseteq Range(objects) \union {Str("+")}
  BY <1>8, ListOfItsOwn
<1>10. \A x \in Range(all) : ~Is("list", x) /\ (Is("map", x) => ListedObject(x))
  <2>1. \A x \in Range(objects) : ListedObject(x) /\ ~Is("list", x)
    BY <1>4 DEF Range
  <2>2. ~Is("list", Str("+")) /\ ~Is("map", Str("+"))
    BY DEF Is, Str
  <2> QED BY <1>9, <2>1, <2>2
<1>11. ListedTree(List(all)) /\ ListedLogs(List(all))
  BY <1>9, <1>10 DEF ListedTree, ListedLogs, Listed, List
<1> QED BY <1>6, <1>11 DEF logs

\* So have the conditions that are written for a step.
LEMMA WrittenResult ==
    ASSUME NEW o, ResultAccepted(o), ListedExpectation(o)
    PROVE  ListedExpectation(resultToOJ(processTxExpectedResult(o)))
<1> DEFINE r == processTxExpectedResult(o)
           logs == [original    |-> IF r.logs.IsStar THEN Star ELSE logsToOJ(r.logs),
                    unspecified |-> r.logs.IsUnspecified]
           read == Fields(o, ResultKinds, TRUE)
           fields == With(r.fields, [logs |-> logs])
           w == resultToOJ(r)
<1>1. ListedObject(o)
  BY DEF ListedExpectation
<1>2. /\ DOMAIN ResultKinds = {"out", "status", "message", "gas", "refund"}
      /\ \A k \in DOMAIN ResultKinds : ResultKinds[k] \in {"check", "checkText", "checkList"}
  BY DEF ResultKinds
<1>3. \A k \in DOMAIN ResultKinds : ListedTree(read[k].original)
  BY <1>1, <1>2, OriginalListed
<1>4. /\ ResultWritten \in Seq(Range(ResultWritten))
      /\ \A e \in Range(ResultWritten) : e[1] \in {"out", "status", "message", "gas", "refund", "logs"}
  BY DEF ResultWritten, Range
<1>5. r.fields = read /\ DOMAIN read = DOMAIN ResultKinds
  BY DEF processTxExpectedResult, Fields
<1>6. ListedTree(logs.original) /\ ListedLogs(logs.original)
  <2>1. ListedTree(Star) /\ ListedLogs(Star)
    BY DEF ListedTree, ListedLogs, Listed, Star, Str, Is
  <2>2. CASE r.logs.IsStar
    BY <2>1, <2>2
  <2>3. CASE ~r.logs.IsStar
    <3>1. "logs" \in Keys(o) /\ r.logs = processLogList(At(o, "logs"))
      BY <2>3 DEF processTxExpectedResult
    <3>2. LogsAccepted(At(o, "logs")) /\ ListedLogs(At(o, "logs"))
      BY <3>1 DEF ResultAccepted, ListedExpectation
    <3>3. At(o, "logs") # Star
      BY <2>3, <3>1 DEF processLogList
    <3>4. logs.original = logsToOJ(processLogList(At(o, "logs")))
      BY <2>3, <3>1
    <3> HIDE DEF logs
    <3> QED BY <3>2, <3>3, <3>4, WrittenLogs
  <2> QED BY <2>2, <2>3
<1>7. w = Map(WriteFields(fields, ResultWritten))
  BY DEF resultToOJ
<1> HIDE DEF r, logs, read
<1>8. /\ \A k \in DOMAIN ResultKinds : fields[k] = read[k]
      /\ fields["logs"] = logs
  BY <1>2, <1>5 DEF With
<1> HIDE DEF fields, w
<1>9. ASSUME NEW k \in Keys(w)
      PROVE  At(w, k) = fields[k].original /\ k \in DOMAIN ResultKinds \union {"logs"}
  BY <1>2, <1>4, <1>7, WrittenAlone
<1>10. ListedObject(w)
  BY <1>3, <1>6, <1>8, <1>9 DEF ListedObject
<1>11. "logs" \in Keys(w) => ListedLogs(At(w, "logs"))
  BY <1>6, <1>8, <1>9
<1>12. ListedExpectation(w)
  BY <1>10, <1>11 DEF ListedExpectation
<1> QED BY <1>12 DEF w, r

\* Only transactions have a line for what is expected, which is left out if nothing was.
LEMMA StepTables ==
    ASSUME NEW type \in StepTypes
    PROVE  /\ StepWritten(type) \in Seq(Range(StepWritten(type)))
           /\ \A e \in Range(StepWritten(type)) : e[1] = "expect" => type \in TxTypes /\ e[2] = "specified"
<1>1. CASE type = "externalSteps"
  <2>1. StepWritten(type) = << <<"comment", "original">>, <<"path", "always">> >>
    BY <1>1 DEF StepWritten, TxTypes
  <2> QED BY <2>1 DEF Range
<1>2. CASE type = "setState"
  <2>1. StepWritten(type) =
            << <<"id", "original">>, <<"comment", "original">>, <<"accounts", "nonempty">>,
               <<"newAddresses", "nonempty">>, <<"previousBlockInfo", "specified">>,
               <<"currentBlockInfo", "specified">>, <<"blockHashes", "nonempty">> >>
    BY <1>2 DEF StepWritten, TxTypes
  <2> QED BY <2>1 DEF Range
<1>3. CASE type = "checkState"
  <2>1. StepWritten(type) = << <<"id", "original">>, <<"comment", "original">>, <<"accounts", "always">> >>
    BY <1>3 DEF StepWritten, TxTypes
  <2> QED BY <2>1 DEF Range
<1>4. CASE type = "dumpState"
  <2>1. StepWritten(type) = << <<"comment", "original">> >>
    BY <1>4 DEF StepWritten, TxTypes
  <2> QED BY <2>1 DEF Range
<1>5. CASE type \in TxTypes
  <2>1. StepWritten(type) = TxStepWritten
    BY <1>5 DEF StepWritten, TxTypes
  <2>2. TxStepWritten \in Seq(Range(TxStepWritten))
    BY DEF TxStepWritten, Range
  <2>3. \A e \in Range(TxStepWritten) : e[1] = "expect" => e[2] = "specified"
    BY DEF TxStepWritten, Range
  <2> QED BY <1>5, <2>1, <2>2, <2>3
<1> QED BY <1>1, <1>2, <1>3, <1>4, <1>5 DEF StepTypes

\* What is written for a step expects what was read.
LEMMA WrittenStep ==
    ASSUME NEW s, StepAccepted(s), "expect" \in Keys(StepToOJ(processScenarioStep(s)))
    PROVE  /\ "expect" \in Keys(s)
           /\ At(StepToOJ(processScenarioStep(s)), "expect") = resultToOJ(processTxExpectedResult(At(s, "expect")))
<1> DEFINE step == processScenarioStep(s)
           type == TypeOf(s)
           o == Step(s)
           objects == [k \in StepObjects(step.type) |->
                        IF k \in DOMAIN step.objects
                        THEN Read(step.objects[k], WriteObject(step.type, k, step.objects[k]))
                        ELSE Missing("object", TRUE)]
           fields == With(step.fields, objects)
           table == StepWritten(type)
           first == << <<"step", Str(type)>> >>
           w == WriteFields(fields, table)
           all == Map(first \o w)
<1>1. type \in StepTypes
  BY DEF StepAccepted
<1>2. /\ step.type = type /\ step.fields = Fields(o, StepKinds(type), TRUE)
      /\ step.objects = [k \in Keys(o) \intersect StepObjects(type) |-> ParseObject(type, k, At(o, k))]
  BY DEF processScenarioStep
<1>3. StepToOJ(step) = all
  BY <1>2 DEF StepToOJ
<1> HIDE DEF type, step, fields, objects, o
<1>4. /\ table \in Seq(Range(table))
      /\ \A e \in Range(table) : e[1] = "expect" => type \in TxTypes /\ e[2] = "specified"
  BY <1>1, StepTables
<1>5. /\ At(all, "expect") = fields["expect"].original
      /\ \E e \in Range(table) : e[1] = "expect" /\ WrittenIf(e[2], fields["expect"])
  <2>1. first \in Seq(Range(first))
    BY DEF Range
  <2>2. \A i \in DOMAIN first : first[i][1] # "expect"
    OBVIOUS
  <2>3. "expect" \in Keys(all)
    BY <1>3 DEF step
  <2> HIDE DEF first, table
  <2> QED BY <1>4, <2>1, <2>2, <2>3, WrittenAt
<1>6. type \in TxTypes /\ WrittenIf("specified", fields["expect"])
  BY <1>4, <1>5
<1>7. ~fields["expect"].unspecified
  BY <1>6 DEF WrittenIf
<1>8. fields["expect"] = objects["expect"]
  <2>1. "expect" \notin DOMAIN step.fields
    BY <1>2, <1>6 DEF Fields, StepKinds, TxTypes
  <2>2. "expect" \in DOMAIN objects
    BY <1>2, <1>6 DEF objects, StepObjects, TxTypes
  <2> QED BY <2>1, <2>2 DEF fields, With
<1>9. "expect" \in StepObjects(type)
  BY <1>6 DEF StepObjects, TxTypes
<1>10. "expect" \in DOMAIN step.objects
  <2> SUFFICES ASSUME "expect" \notin DOMAIN step.objects PROVE FALSE
    OBVIOUS
  <2>1. objects["expect"] = Missing("object", TRUE)
    BY <1>2, <1>9 DEF objects
  <2>2. Missing("object", TRUE).unspecified
    BY DEF Missing
  <2> QED BY <1>7, <1>8, <2>1, <2>2
<1>11. "expect" \in Keys(o) /\ step.objects["expect"] = ParseObject(type, "expect", At(o, "expect"))
  BY <1>2, <1>10
<1>12. "expect" \in Keys(s)
  BY <1>6, <1>11, KeyKept DEF o, type
<1>13. At(o, "expect") = At(s, "expect")
  BY <1>12, StepExpects DEF o
<1>14. step.objects["expect"] = processTxExpectedResult(At(s, "expect"))
  BY <1>6, <1>11, <1>13 DEF ParseObject, TxTypes
<1>15. objects["expect"].original = WriteObject(type, "expect", step.objects["expect"])
  BY <1>2, <1>9, <1>10 DEF objects, Read
<1>16. objects["expect"].original = resultToOJ(processTxExpectedResult(At(s, "expect")))
  BY <1>6, <1>14, <1>15 DEF WriteObject, TxTypes
<1> QED BY <1>3, <1>5, <1>8, <1>12, <1>16 DEF step

\* A file that was written has a step for each of those that were read.
LEMMA WrittenSteps ==
    ASSUME NEW j, NEW i \in DOMAIN StepsOf(ScenarioToOrderedJSON(ParseScenarioFile(j)))
    PROVE  /\ i \in DOMAIN StepsOf(j)
           /\ StepsOf(ScenarioToOrderedJSON(ParseScenarioFile(j)))[i] = StepToOJ(processScenarioStep(StepsOf(j)[i]))
<1> DEFINE scenario == ParseScenarioFile(j)
           withoutDefault == [scenario.fields EXCEPT !.gasSchedule.original = IF @ = Str("default") THEN Str("") ELSE @]
           steps == Each(scenario.Steps, StepToOJ)
           member == Read(steps, List(steps))
           fields == With(withoutDefault, [steps |-> member])
           written == ScenarioToOrderedJSON(scenario)
<1>1. written = Map(WriteFields(fields, ScenarioWritten))
  BY DEF ScenarioToOrderedJSON
<1>2. DOMAIN scenario.fields = DOMAIN ScenarioKinds /\ scenario.Steps = Each(StepsOf(j), processScenarioStep)
  BY DEF ParseScenarioFile, Fields
<1>3. DOMAIN steps = DOMAIN StepsOf(j)
      /\ \A n \in DOMAIN steps : steps[n] = StepToOJ(processScenarioStep(StepsOf(j)[n]))
  BY <1>2 DEF Each
<1> HIDE DEF scenario
<1>4. "steps" \notin DOMAIN withoutDefault
  BY <1>2 DEF ScenarioKinds
<1> HIDE DEF withoutDefault, member
<1>5. fields["steps"] = member
  BY <1>4 DEF With
<1> HIDE DEF fields
<1>6. ScenarioWritten \in Seq(Range(ScenarioWritten))
  BY DEF ScenarioWritten, Range
<1>7. "steps" \in Keys(written) => At(written, "steps") = member.original
  BY <1>1, <1>5, <1>6, WrittenAlone
<1>8. member.original.list = steps
  BY DEF member, Read, List
<1> HIDE DEF steps, written
<1>9. i \in DOMAIN StepsOf(written)
  BY DEF written, scenario
<1>10. "steps" \in Keys(written)
  BY <1>9 DEF StepsOf
<1>11. StepsOf(written) = steps
  BY <1>7, <1>8, <1>10 DEF StepsOf
<1> QED BY <1>3, <1>9, <1>11 DEF written, scenario

----------------------------------------------------------------------------
(* The log an error shows *)

\* What is shown of a value is a condition if the interpreter takes it: "*" is never shown.
LEMMA ShownText ==
    ASSUME NEW text, text # "*"
    PROVE  /\ Str(text) # Star /\ Listed(Str(text)) /\ ListedTree(Str(text))
           /\ IsCheck(Str(text)) <=> text \in DOMAIN Interpret
           /\ Accepted("check", Str(text)) <=> text \in DOMAIN Interpret
           /\ \A bytes : Meets(bytes, Str(text)) <=> bytes = Interpret[text]
<1> DEFINE j == Str(text)
<1>1. Is("str", j) /\ ~Is("list", j) /\ j.str = text /\ j # Star
  BY DEF Is, Str, Star
<1> HIDE DEF j
<1>2. IsCheck(j) <=> text \in DOMAIN Interpret
  BY <1>1 DEF IsCheck, IsTree, IsBytes
<1>3. Accepted("check", j) <=> IsCheck(j)
  BY DEF Accepted
<1>4. Listed(j) /\ ListedTree(j)
  BY <1>1 DEF Listed, ListedTree
<1>5. Value(j) = Interpret[text]
  BY <1>1 DEF Value
<1> QED BY <1>1, <1>2, <1>3, <1>4, <1>5 DEF Meets, j

\* What the reconstructor shows is never "*", and without a hint it can be read of no bytes only.
LEMMA ReconstructedText ==
    /\ \A bytes : Reconstruct(bytes, "none") = IF bytes = <<>> THEN "" ELSE Remark
    /\ \A bytes : Reconstruct(bytes, "none") # "*" /\ Reconstruct(bytes, "address") # "*"
    /\ \A bytes \in DOMAIN StrText : Reconstruct(bytes, "str") # "*"
<1>1. \A bytes : Reconstruct(bytes, "none") = IF bytes = <<>> THEN "" ELSE Remark
  BY DEF Reconstruct
<1>2. ASSUME NEW bytes PROVE Reconstruct(bytes, "address") # "*"
  <2>1. CASE bytes \in DOMAIN AddressText
    BY <2>1, TextAssumption DEF Reconstruct, Range
  <2>2. CASE bytes \notin DOMAIN AddressText
    BY <2>2, TextAssumption DEF Reconstruct
  <2> QED BY <2>1, <2>2
<1>3. \A bytes \in DOMAIN StrText : Reconstruct(bytes, "str") # "*"
  BY TextAssumption DEF Reconstruct, Range
<1>4. \A bytes : Reconstruct(bytes, "none") # "*"
  <2>1. Remark # "*" /\ "" # "*"
    BY TextAssumption
  <2> QED BY <1>1, <2>1
<1> QED BY <1>1, <1>2, <1>3, <1>4

\* A list that is shown is a condition if it has only empty bytes, and means what it shows.
LEMMA ShownList ==
    ASSUME NEW list \in Seq(Bytes)
    PROVE  LET j == ReconstructedList(list).original
               empty == \A i \in DOMAIN list : list[i] = <<>>
           IN  /\ Accepted("checkList", j) <=> empty
               /\ ListedTree(j)
               /\ empty => \A values \in Seq(Bytes) : MeetsList(values, j) <=> values = list
<1> DEFINE words == [i \in DOMAIN list |-> Str(Reconstruct(list[i], "none"))]
           j == List(words)
           empty == \A i \in DOMAIN list : list[i] = <<>>
<1>1. ReconstructedList(list).original = j
  BY DEF ReconstructedList, Read, Each
<1>2. words \in Seq(Range(words)) /\ Len(words) = Len(list) /\ DOMAIN list = 1..Len(list)
  <2>1. words = [i \in DOMAIN list |-> words[i]]
    OBVIOUS
  <2> HIDE DEF words
  <2> QED BY <2>1, MappedList
<1>3. ASSUME NEW i \in DOMAIN list
      PROVE  /\ Listed(words[i]) /\ ~Is("list", words[i])
             /\ IsCheck(words[i]) <=> list[i] = <<>>
             /\ IsBytes(words[i]) <=> list[i] = <<>>
             /\ list[i] = <<>> => \A bytes : Meets(bytes, words[i]) <=> bytes = list[i]
  <2> DEFINE text == Reconstruct(list[i], "none")
  <2>1. words[i] = Str(text) /\ text # "*" /\ text = IF list[i] = <<>> THEN "" ELSE Remark
    BY ReconstructedText
  <2>2. text \in DOMAIN Interpret <=> list[i] = <<>>
    BY <2>1, FieldsAssumption, TextAssumption
  <2>3. list[i] = <<>> => Interpret[text] = list[i]
    BY <2>1, FieldsAssumption
  <2> HIDE DEF text, words
  <2>4. IsBytes(words[i]) <=> text \in DOMAIN Interpret
    <3>1. DOMAIN Str(text) = {"str"} /\ Str(text).str = text
      BY DEF Str
    <3> QED BY <2>1, <3>1 DEF IsBytes, Is
  <2>5. ~Is("list", words[i])
    BY <2>1 DEF Is, Str
  <2> QED BY <2>1, <2>2, <2>3, <2>4, <2>5, ShownText
<1>4. DOMAIN words = DOMAIN list
  OBVIOUS
<1> HIDE DEF words
<1>5. Is("list", j) /\ j.list = words /\ j # Star /\ j # Str("")
  BY DEF Is, List, Star, Str
<1> HIDE DEF j
<1>6. Accepted("checkList", j) <=> empty
  <2>1. Accepted("checkList", j) <=> IsCheck(j) \/ \A i \in DOMAIN words : IsCheck(words[i])
    BY <1>5 DEF Accepted
  <2>2. IsCheck(j) <=> \A i \in DOMAIN words : IsBytes(words[i])
    <3>1. ~IsBytes(j)
      BY <1>5 DEF IsBytes, Is
    <3> QED BY <1>5, <3>1 DEF IsCheck, IsTree
  <2> QED BY <1>3, <1>4, <2>1, <2>2
<1>7. ListedTree(j)
  <2>1. \A x \in Range(words) : Listed(x)
    BY <1>3, <1>4 DEF Range
  <2>2. j.list \in Seq(Range(j.list))
    BY <1>2, <1>5
  <2> QED BY <1>5, <2>1, <2>2 DEF ListedTree, Listed
<1>8. ASSUME empty, NEW values \in Seq(Bytes) PROVE MeetsList(values, j) <=> values = list
  <2>1. MeetsList(values, j) <=> Len(values) = Len(words) /\ \A i \in DOMAIN values : Meets(values[i], words[i])
    BY <1>5 DEF MeetsList
  <2>2. \A i \in DOMAIN list : Meets(values[i], words[i]) <=> values[i] = list[i]
    BY <1>3, <1>8
  <2>3. Len(values) = Len(list) => DOMAIN values = DOMAIN list
    BY <1>2
  <2>4. Len(values) = Len(list) /\ (\A i \in DOMAIN list : values[i] = list[i]) => values = list
    BY <1>2
  <2> QED BY <1>2, <2>1, <2>2, <2>3, <2>4
<1> QED BY <1>1, <1>6, <1>7, <1>8

\* The object that is printed for a log has the text of each of its fields.
LEMMA PrintedFields ==
    ASSUME NEW log
    PROVE  LET p == logToOJ(convertLogToTestFormat(log))
           IN  /\ DOMAIN p = {"map"} /\ Keys(p) = DOMAIN LogKinds
               /\ At(p, "address") = Str(Reconstruct(log.Address, "address"))
               /\ At(p, "endpoint") = Str(Reconstruct(log.Identifier, "str"))
               /\ At(p, "topics") = ReconstructedList(log.Topics).original
               /\ At(p, "data") = ReconstructedList(log.Data).original
<1> DEFINE c == convertLogToTestFormat(log)
           w == WriteFields(c, LogWritten)
           parts == [i \in DOMAIN LogWritten |-> IF WrittenIf(LogWritten[i][2], c[LogWritten[i][1]])
                                                 THEN <<LogWritten[i]>> ELSE <<>>]
<1>1. /\ LogWritten \in Seq(Range(LogWritten)) /\ DOMAIN LogWritten = 1..4
      /\ LogWritten[1] = <<"address", "always">> /\ LogWritten[2] = <<"endpoint", "always">>
      /\ LogWritten[3] = <<"topics", "always">> /\ LogWritten[4] = <<"data", "always">>
  BY DEF LogWritten, Range
<1>2. DOMAIN LogKinds = {"address", "endpoint", "topics", "data"}
  BY DEF LogKinds
<1>3. /\ c["address"].original = Str(Reconstruct(log.Address, "address"))
      /\ c["endpoint"].original = Str(Reconstruct(log.Identifier, "str"))
      /\ c["topics"].original = ReconstructedList(log.Topics).original
      /\ c["data"].original = ReconstructedList(log.Data).original
  BY DEF convertLogToTestFormat, JSONCheckBytesReconstructed, Read
<1> HIDE DEF c
<1>4. \A i \in DOMAIN LogWritten : WrittenIf(LogWritten[i][2], c[LogWritten[i][1]])
  <2>1. \A i \in DOMAIN LogWritten : LogWritten[i][2] = "always"
    BY <1>1
  <2> QED BY <2>1 DEF WrittenIf
<1>5. parts = [i \in DOMAIN LogWritten |-> <<LogWritten[i]>>]
  BY <1>4
<1>6. FlattenSeq(parts) = LogWritten
  BY <1>1, <1>5, FlattenSingletons
<1>7. w = [i \in DOMAIN LogWritten |-> Entry(c, LogWritten[i])]
  <2>1. w = [i \in DOMAIN FlattenSeq(parts) |-> Entry(c, FlattenSeq(parts)[i])]
    BY DEF WriteFields, Kept, Each, Entry
  <2> HIDE DEF parts
  <2> QED BY <1>6, <2>1
<1> HIDE DEF w
<1>8. \A i \in DOMAIN w : w[i][1] = LogWritten[i][1]
  BY <1>7 DEF Entry
<1>9. Keys(Map(w)) = {"address", "endpoint", "topics", "data"}
  <2>1. Keys(Map(w)) = {w[i][1] : i \in 1..4}
    BY <1>1, <1>7 DEF Keys, Map
  <2>2. w[1][1] = "address" /\ w[2][1] = "endpoint" /\ w[3][1] = "topics" /\ w[4][1] = "data"
    <3>1. DOMAIN w = 1..4 /\ 1 \in 1..4 /\ 2 \in 1..4 /\ 3 \in 1..4 /\ 4 \in 1..4
      BY <1>1, <1>7
    <3>2. w[1][1] = LogWritten[1][1] /\ w[2][1] = LogWritten[2][1]
          /\ w[3][1] = LogWritten[3][1] /\ w[4][1] = LogWritten[4][1]
      BY <1>8, <3>1
    <3> QED BY <1>1, <3>2
  <2> QED BY <2>1, <2>2
<1>10. \A k \in Keys(Map(w)) : At(Map(w), k) = c[k].original
  BY <1>1, WrittenAlone DEF w
<1>11. logToOJ(convertLogToTestFormat(log)) = Map(w)
  BY DEF logToOJ, w, c
<1>12. DOMAIN Map(w) = {"map"}
  BY DEF Map
<1> QED BY <1>2, <1>3, <1>9, <1>10, <1>11, <1>12

\* Put into the file as it is printed, a log is refused, or a condition which the log it
\* is read as meets, and no other.
LEMMA PrintedIsMet ==
    ASSUME WhateverIsNoList, NEW log \in Log, log.Identifier \in DOMAIN StrText
    PROVE  LET printed == List(<<logToOJ(convertLogToTestFormat(log))>>)
           IN  /\ LogsAccepted(printed) <=> Readable(log)
               /\ Readable(log) =>
                    \A other \in Log : checkTxLogs(processLogList(printed), <<other>>) <=> other = AsRead(log)
<1> DEFINE p == logToOJ(convertLogToTestFormat(log))
           addressText == Reconstruct(log.Address, "address")
           endpointText == Reconstruct(log.Identifier, "str")
           address == Str(addressText)
           endpoint == Str(endpointText)
           topics == ReconstructedList(log.Topics).original
           data == ReconstructedList(log.Data).original
           printed == List(<<p>>)
           noTopics == \A i \in DOMAIN log.Topics : log.Topics[i] = <<>>
           noData == \A i \in DOMAIN log.Data : log.Data[i] = <<>>
<1>0. log.Topics \in Seq(Bytes) /\ log.Data \in Seq(Bytes)
  BY DEF Log
<1>1. /\ DOMAIN p = {"map"} /\ Keys(p) = DOMAIN LogKinds
      /\ At(p, "address") = address /\ At(p, "endpoint") = endpoint
      /\ At(p, "topics") = topics /\ At(p, "data") = data
  BY PrintedFields
<1>2. addressText # "*" /\ endpointText # "*"
  BY ReconstructedText
<1>3. Readable(log) <=> /\ addressText \in DOMAIN Interpret /\ endpointText \in DOMAIN Interpret
                        /\ noTopics /\ noData
  BY DEF Readable
<1>4. /\ Accepted("checkList", topics) <=> noTopics
      /\ ListedTree(topics)
      /\ noTopics => \A values \in Seq(Bytes) : MeetsList(values, topics) <=> values = log.Topics
  BY <1>0, ShownList
<1>5. /\ Accepted("checkList", data) <=> noData
      /\ ListedTree(data)
      /\ noData => \A values \in Seq(Bytes) : MeetsList(values, data) <=> values = log.Data
  BY <1>0, ShownList
<1>6. /\ DOMAIN LogKinds = {"address", "endpoint", "topics", "data"}
      /\ LogKinds["address"] = "check" /\ LogKinds["endpoint"] = "check"
      /\ LogKinds["topics"] = "checkList" /\ LogKinds["data"] = "checkList"
  BY DEF LogKinds
<1>7. AsRead(log) = [log EXCEPT !.Address = Interpret[addressText], !.Identifier = Interpret[endpointText]]
  BY DEF AsRead
<1> HIDE DEF p, addressText, endpointText, topics, data, noTopics, noData
<1>8. /\ ListedTree(address) /\ ListedTree(endpoint)
      /\ Accepted("check", address) <=> addressText \in DOMAIN Interpret
      /\ Accepted("check", endpoint) <=> endpointText \in DOMAIN Interpret
      /\ \A bytes : Meets(bytes, address) <=> bytes = Interpret[addressText]
      /\ \A bytes : Meets(bytes, endpoint) <=> bytes = Interpret[endpointText]
  BY <1>2, ShownText
<1> HIDE DEF address, endpoint
<1>9. FieldsAccepted(p, LogKinds, {}) <=> Readable(log)
  <2>1. FieldsAccepted(p, LogKinds, {}) <=>
            /\ Accepted("check", address) /\ Accepted("check", endpoint)
            /\ Accepted("checkList", topics) /\ Accepted("checkList", data)
    BY <1>1, <1>6 DEF FieldsAccepted, Is
  <2> QED BY <1>3, <1>4, <1>5, <1>8, <2>1
<1>10. ListedObject(p)
  BY <1>1, <1>4, <1>5, <1>6, <1>8 DEF ListedObject
<1>11. p # Str("+")
  BY <1>1 DEF Str
<1>12. Is("list", printed) /\ printed.list = <<p>> /\ printed # Star
  BY DEF List, Is, Star, Str
<1> HIDE DEF printed
<1>13. LogsAccepted(printed) <=> FieldsAccepted(p, LogKinds, {})
  BY <1>11, <1>12 DEF LogsAccepted
<1>14. ListedLogs(printed)
  BY <1>10, <1>12 DEF ListedLogs, Listed, Range
<1>15. Kept(printed.list, NotMore) = <<p>>
  <2>1. Kept(printed.list, NotMore) = FlattenSeq([i \in DOMAIN <<p>> |-> <<(<<p>>)[i]>>])
    BY <1>11, <1>12 DEF Kept, Each, NotMore
  <2>2. <<p>> \in Seq({p})
    OBVIOUS
  <2> QED BY <2>1, <2>2, FlattenSingletons
<1>16. ASSUME Readable(log), NEW other \in Log
       PROVE  checkTxLogs(processLogList(printed), <<other>>) <=> other = AsRead(log)
  <2>1. <<other>> \in Seq(Log) /\ Len(<<other>>) = 1 /\ (<<other>>)[1] = other
    OBVIOUS
  <2>2. checkTxLogs(processLogList(printed), <<other>>) <=> MeetsLogs(<<other>>, printed)
    BY <1>9, <1>13, <1>14, <1>16, <2>1, LogsMean
  <2>3. ~ \E i \in DOMAIN printed.list : printed.list[i] = Str("+")
    BY <1>11, <1>12
  <2>4. MeetsLogs(<<other>>, printed) <=> MeetsLog(other, p)
    BY <1>12, <1>15, <2>3 DEF MeetsLogs
  <2>5. MeetsLog(other, p) <=>
            /\ other.Address = Interpret[addressText] /\ other.Identifier = Interpret[endpointText]
            /\ other.Topics = log.Topics /\ other.Data = log.Data
    <3>1. /\ Asked(p, "address") = address /\ Asked(p, "endpoint") = endpoint
          /\ Asked(p, "topics") = topics /\ Asked(p, "data") = data
      BY <1>1, <1>6 DEF Asked
    <3>2. other.Topics \in Seq(Bytes) /\ other.Data \in Seq(Bytes)
      BY DEF Log
    <3> QED BY <1>3, <1>4, <1>5, <1>8, <1>16, <3>1, <3>2 DEF MeetsLog
  <2>6. other = AsRead(log) <=>
            /\ other.Address = Interpret[addressText] /\ other.Identifier = Interpret[endpointText]
            /\ other.Topics = log.Topics /\ other.Data = log.Data
    BY <1>7 DEF Log
  <2> QED BY <2>2, <2>4, <2>5, <2>6
<1> QED BY <1>9, <1>13, <1>16 DEF printed, p

----------------------------------------------------------------------------
(* Files are JSON *)

\* What JSON contains, and the members of an object.
LEMMA JsonParts ==
    ASSUME NEW S, NEW j \in JsonOf(S)
    PROVE  /\ Is("list", j) => j.list \in Seq(S)
           /\ Is("map", j) => /\ j.map \in Seq(STRING \X S)
                              /\ \A k \in Keys(j) : At(j, k) \in S
<1>1. Is("list", j) => j.list \in Seq(S)
  BY DEF Is, JsonOf, Scalars
<1>2. Is("map", j) => j.map \in Seq(STRING \X S)
  BY DEF Is, JsonOf, Scalars
<1>3. ASSUME Is("map", j), NEW k \in Keys(j) PROVE At(j, k) \in S
  <2> DEFINE n == CHOOSE i \in DOMAIN j.map : j.map[i][1] = k
  <2>1. \E i \in DOMAIN j.map : j.map[i][1] = k
    BY <1>3 DEF Keys
  <2>2. n \in DOMAIN j.map
    BY <2>1
  <2>3. At(j, k) = j.map[n][2]
    BY DEF At
  <2> HIDE DEF n
  <2>4. j.map[n] \in STRING \X S
    BY <1>2, <1>3, <2>2
  <2> QED BY <2>3, <2>4
<1> QED BY <1>1, <1>2, <1>3

\* Lists in JSON are lists.
LEMMA JsonListed ==
    ASSUME NEW V
    PROVE  /\ \A j \in JsonOf(V) : Listed(j) /\ (Is("list", j) => \A x \in Range(j.list) : x \in V)
           /\ \A j \in JsonOf(JsonOf(V)) : ListedTree(j)
           /\ \A j \in JsonOf(JsonOf(JsonOf(V))) : Is("map", j) => ListedObject(j)
           /\ \A j \in JsonOf(JsonOf(JsonOf(JsonOf(V)))) : ListedLogs(j)
<1>1. ASSUME NEW U, NEW j \in JsonOf(U)
      PROVE  Listed(j) /\ (Is("list", j) => \A x \in Range(j.list) : x \in U)
  <2>1. Is("list", j) => j.list \in Seq(U)
    BY JsonParts
  <2>2. \A l \in Seq(U) : l \in Seq(Range(l)) /\ \A x \in Range(l) : x \in U
    <3> SUFFICES ASSUME NEW l \in Seq(U) PROVE l \in Seq(Range(l)) /\ \A x \in Range(l) : x \in U
      OBVIOUS
    <3>1. \A i \in DOMAIN l : l[i] \in U
      OBVIOUS
    <3>2. l = [i \in DOMAIN l |-> l[i]]
      OBVIOUS
    <3>3. l \in Seq(Range(l))
      BY <3>2, MappedList
    <3> QED BY <3>1, <3>3 DEF Range
  <2> QED BY <2>1, <2>2 DEF Listed
<1>2. ASSUME NEW U, NEW j \in JsonOf(JsonOf(U)) PROVE ListedTree(j)
  <2>1. Listed(j) /\ (Is("list", j) => \A x \in Range(j.list) : x \in JsonOf(U))
    BY <1>1
  <2> QED BY <1>1, <2>1 DEF ListedTree
<1>3. ASSUME NEW U, NEW j \in JsonOf(JsonOf(JsonOf(U))), Is("map", j) PROVE ListedObject(j)
  <2>1. \A k \in Keys(j) : At(j, k) \in JsonOf(JsonOf(U))
    BY <1>3, JsonParts
  <2> QED BY <1>2, <2>1 DEF ListedObject
<1>4. ASSUME NEW j \in JsonOf(JsonOf(JsonOf(JsonOf(V)))) PROVE ListedLogs(j)
  <2>1. Listed(j) /\ (Is("list", j) => \A x \in Range(j.list) : x \in JsonOf(JsonOf(JsonOf(V))))
    BY <1>1
  <2> QED BY <1>3, <2>1 DEF ListedLogs
<1> QED BY <1>1, <1>2, <1>3, <1>4

\* So are those of what a file at hand expects.
LEMMA FilesListed ==
    ASSUME NEW j \in Files, NEW o \in ExpectationsOf(j)
    PROVE  ListedExpectation(o)
<1> DEFINE V == JsonOf(JsonOf(JsonOf(JsonOf(Scalars))))
           expectation == JsonOf(JsonOf(JsonOf(JsonOf(V))))
           step == JsonOf(expectation)
<1>1. j \in JsonOf(JsonOf(step))
  BY FilesAssumption DEF StepJson, TokenJson
<1>2. PICK i \in DOMAIN StepsOf(j) : "expect" \in Keys(StepsOf(j)[i]) /\ o = At(StepsOf(j)[i], "expect")
  BY DEF ExpectationsOf, ExpectIn
<1>3. Reading(j) = "succeeds"
  BY DEF ExpectationsOf
<1> DEFINE s == StepsOf(j)[i]
<1>4. StepAccepted(s) /\ Is("map", s)
  BY <1>3, StepsAccepted DEF StepAccepted
<1> HIDE DEF step
<1>5. s \in step
  <2>1. "steps" \in Keys(j) /\ Is("map", j) /\ Is("list", At(j, "steps"))
    BY <1>2, <1>3 DEF StepsOf, Reading, ScenarioAccepted, FieldsAccepted
  <2>2. At(j, "steps") \in JsonOf(step)
    BY <1>1, <2>1, JsonParts
  <2>3. At(j, "steps").list \in Seq(step)
    BY <2>1, <2>2, JsonParts
  <2>4. StepsOf(j) = At(j, "steps").list
    BY <2>1 DEF StepsOf
  <2> QED BY <2>3, <2>4
<1> HIDE DEF s
<1>6. o \in expectation /\ Is("map", o)
  <2> HIDE DEF expectation
  <2>1. s \in JsonOf(expectation)
    BY <1>5 DEF step
  <2>2. o = At(s, "expect") /\ "expect" \in Keys(s)
    BY <1>2 DEF s
  <2>3. o \in expectation
    BY <1>4, <2>1, <2>2, JsonParts
  <2>4. ResultAccepted(o)
    BY <1>4, <2>2, StepExpects
  <2> QED BY <2>3, <2>4 DEF ResultAccepted, FieldsAccepted
<1> HIDE DEF V
<1>7. \A k \in Keys(o) : At(o, k) \in JsonOf(JsonOf(JsonOf(V)))
  BY <1>6, JsonParts
<1>8. ListedObject(o)
  BY <1>6, JsonListed
<1>9. "logs" \in Keys(o) => ListedLogs(At(o, "logs"))
  <2>1. V = JsonOf(JsonOf(JsonOf(JsonOf(Scalars))))
    BY DEF V
  <2> DEFINE U == JsonOf(JsonOf(JsonOf(Scalars)))
  <2>2. V = JsonOf(U)
    BY <2>1
  <2> HIDE DEF U
  <2>3. "logs" \in Keys(o) => At(o, "logs") \in JsonOf(JsonOf(JsonOf(JsonOf(U))))
    BY <1>7, <2>2
  <2> QED BY <2>3, JsonListed
<1> QED BY <1>8, <1>9 DEF ListedExpectation

----------------------------------------------------------------------------
(* Writing again what was read of what was written *)

\* The kinds of values.
AllKinds == {"text", "texts", "flag", "bytes", "address", "tree", "bytesList", "trees", "check", "checkText", "checkList"}

\* What is kept of a value is read as that value.
LEMMA ParsedAgain ==
    ASSUME NEW kind \in AllKinds, NEW j
    PROVE  /\ Parsed(kind, Parsed(kind, j).original) = Parsed(kind, j)
           /\ ~Parsed(kind, j).unspecified
<1>0. Star # Str("") /\ ~Is("list", Star) /\ ~Is("list", Str(""))
  BY DEF Star, Str, Is
<1>1. CASE kind = "checkList"
  <2>1. Parsed(kind, j) = parseCheckValueList(j)
    BY <1>1 DEF Parsed
  <2>2. CASE j = Star \/ (j # Str("") /\ Is("list", j))
    <3>1. parseCheckValueList(j).original = j /\ ~parseCheckValueList(j).unspecified
      <4>1. CASE j = Star
        BY <1>0, <4>1 DEF parseCheckValueList, Read
      <4>2. CASE j # Star
        BY <1>0, <2>2, <4>2 DEF parseCheckValueList, Read
      <4> QED BY <4>1, <4>2
    <3> QED BY <2>1, <3>1
  <2>3. CASE j # Star /\ j = Str("")
    <3>1. parseCheckValueList(j) = Read(<<>>, List(<<>>))
      BY <1>0, <2>3 DEF parseCheckValueList
    <3>2. List(<<>>) # Star /\ List(<<>>) # Str("") /\ Is("list", List(<<>>)) /\ List(<<>>).list = <<>>
      BY DEF List, Star, Str, Is
    <3>3. Each(<<>>, Value) = <<>>
      BY DEF Each
    <3>4. parseCheckValueList(List(<<>>)) = Read(<<>>, List(<<>>))
      BY <3>2, <3>3 DEF parseCheckValueList
    <3>5. Read(<<>>, List(<<>>)).original = List(<<>>) /\ ~Read(<<>>, List(<<>>)).unspecified
      BY DEF Read
    <3>6. Parsed(kind, List(<<>>)) = parseCheckValueList(List(<<>>))
      BY <1>1 DEF Parsed
    <3> QED BY <2>1, <3>1, <3>4, <3>5, <3>6
  <2>4. CASE j # Star /\ j # Str("") /\ ~Is("list", j)
    <3>1. parseCheckValueList(j) = Read(<<Value(j)>>, List(<<j>>))
      BY <2>4 DEF parseCheckValueList
    <3>2. List(<<j>>) # Star /\ List(<<j>>) # Str("") /\ Is("list", List(<<j>>)) /\ List(<<j>>).list = <<j>>
      BY DEF List, Star, Str, Is
    <3>3. Each(<<j>>, Value) = <<Value(j)>>
      BY DEF Each
    <3>4. parseCheckValueList(List(<<j>>)) = Read(<<Value(j)>>, List(<<j>>))
      BY <3>2, <3>3 DEF parseCheckValueList
    <3>5. Read(<<Value(j)>>, List(<<j>>)).original = List(<<j>>) /\ ~Read(<<Value(j)>>, List(<<j>>)).unspecified
      BY DEF Read
    <3>6. Parsed(kind, List(<<j>>)) = parseCheckValueList(List(<<j>>))
      BY <1>1 DEF Parsed
    <3> QED BY <2>1, <3>1, <3>4, <3>5, <3>6
  <2> QED BY <2>2, <2>3, <2>4
<1>2. CASE kind # "checkList"
  <2>1. Parsed(kind, j).original = j /\ ~Parsed(kind, j).unspecified
    BY <1>2 DEF Parsed, Read, AllKinds
  <2> QED BY <2>1
<1> QED BY <1>1, <1>2

\* The zero value of a field is read as something with the same original.
LEMMA MissingAgain ==
    ASSUME NEW kind \in AllKinds, NEW u \in BOOLEAN
    PROVE  /\ Parsed(kind, Missing(kind, u).original).original = Missing(kind, u).original
           /\ Missing(kind, u).unspecified = u
<1>1. Missing(kind, u).unspecified = u
  BY DEF Missing
<1>2. CASE kind = "checkList"
  <2>1. Missing(kind, u).original = List(<<>>)
    BY <1>2 DEF Missing
  <2>2. List(<<>>) # Star /\ List(<<>>) # Str("") /\ Is("list", List(<<>>))
    BY DEF List, Star, Str, Is
  <2>3. parseCheckValueList(List(<<>>)).original = List(<<>>)
    BY <2>2 DEF parseCheckValueList, Read
  <2> QED BY <1>1, <1>2, <2>1, <2>3 DEF Parsed
<1>3. CASE kind # "checkList"
  <2>1. \A j : Parsed(kind, j).original = j
    BY <1>3 DEF Parsed, Read, AllKinds
  <2> QED BY <1>1, <2>1
<1> QED BY <1>2, <1>3

\* Conditions that tell a missing value from one that was written.
Suits(kind, condition, u) ==
    /\ kind \in AllKinds
    /\ \/ condition \in {"always", "specified"}
       \/ condition \in {"original", "specifiedOriginal"} /\ kind \in {"text", "bytes", "address", "tree", "checkText"}
       \/ condition \in {"value", "nonempty", "specifiedValue"} /\ kind \notin {"text", "flag"}
       \/ condition = "true" /\ kind = "flag"

\* Two values are written or not, and if they are, alike.
Alike(condition, v, w) ==
    /\ WrittenIf(condition, v) <=> WrittenIf(condition, w)
    /\ WrittenIf(condition, v) => v.original = w.original

\* A field that was read back from where it was written, or missed where it was not.
LEMMA FieldAgain ==
    ASSUME NEW kind, NEW c, NEW u \in BOOLEAN, Suits(kind, c, u), NEW v, NEW w,
           v = Missing(kind, u) \/ \E j : v = Parsed(kind, j),
           w = IF WrittenIf(c, v) THEN Parsed(kind, v.original) ELSE Missing(kind, u)
    PROVE  Alike(c, v, w)
<1> kind \in AllKinds
  BY DEF Suits
<1>1. CASE \E j : v = Parsed(kind, j)
  <2>1. Parsed(kind, v.original) = v /\ ~v.unspecified
    BY <1>1, ParsedAgain
  <2>2. CASE WrittenIf(c, v)
    BY <2>1, <2>2 DEF Alike
  <2>3. CASE ~WrittenIf(c, v)
    <3>1. w = Missing(kind, u)
      BY <2>3
    <3>2. c # "always" /\ c # "specified"
      BY <2>1, <2>3 DEF WrittenIf
    <3>3. ~WrittenIf(c, Missing(kind, u))
      <4>1. CASE c \in {"original", "specifiedOriginal"}
        <5>1. Missing(kind, u).original = Str("")
          BY <3>2, <4>1 DEF Missing, Suits
        <5> QED BY <4>1, <5>1 DEF WrittenIf
      <4>2. CASE c \in {"value", "nonempty", "specifiedValue"}
        <5>1. Missing(kind, u).value = <<>>
          BY <3>2, <4>2 DEF Missing, Suits
        <5> QED BY <4>2, <5>1 DEF WrittenIf, NotEmpty
      <4>3. CASE c = "true"
        <5>1. Missing(kind, u).value = FALSE
          BY <3>2, <4>3 DEF Missing, Suits
        <5> QED BY <4>3, <5>1 DEF WrittenIf
      <4> QED BY <3>2, <4>1, <4>2, <4>3 DEF Suits
    <3> QED BY <2>3, <3>1, <3>3 DEF Alike
  <2> QED BY <2>2, <2>3
<1>2. CASE v = Missing(kind, u)
  <2>1. Parsed(kind, v.original).original = v.original /\ v.unspecified = u
    BY <1>2, MissingAgain
  <2>2. CASE ~WrittenIf(c, v)
    BY <1>2, <2>2 DEF Alike
  <2>3. CASE WrittenIf(c, v)
    <3>0. ~Parsed(kind, v.original).unspecified
      BY ParsedAgain
    <3>1. c \in {"always", "specified"}
      <4>1. CASE c \in {"original", "specifiedOriginal"}
        <5>1. Missing(kind, u).original = Str("")
          BY <4>1 DEF Missing, Suits
        <5> QED BY <1>2, <2>3, <4>1, <5>1 DEF WrittenIf
      <4>2. CASE c \in {"value", "nonempty", "specifiedValue"}
        <5>1. Missing(kind, u).value = <<>>
          BY <4>2 DEF Missing, Suits
        <5> QED BY <1>2, <2>3, <4>2, <5>1 DEF WrittenIf, NotEmpty
      <4>3. CASE c = "true"
        <5>1. Missing(kind, u).value = FALSE
          BY <4>3 DEF Missing, Suits
        <5> QED BY <1>2, <2>3, <4>3, <5>1 DEF WrittenIf
      <4> QED BY <4>1, <4>2, <4>3 DEF Suits
    <3>2. w = Parsed(kind, v.original)
      BY <2>3
    <3>3. WrittenIf(c, w)
      BY <3>0, <3>1, <3>2 DEF WrittenIf
    <3> QED BY <2>1, <2>3, <3>2, <3>3 DEF Alike
  <2> QED BY <2>2, <2>3
<1> QED BY <1>1, <1>2

\* The partial concatenations of sequences.
LEMMA FlattenSteps ==
    ASSUME NEW V, NEW seqs \in Seq(Seq(V))
    PROVE  \E g \in [0..Len(seqs) -> Seq(V)] :
                /\ g[0] = <<>> /\ \A n \in 1..Len(seqs) : g[n] = g[n - 1] \o seqs[n]
                /\ FlattenSeq(seqs) = g[Len(seqs)]
<1> DEFINE L == Len(seqs)
           X == Seq(V)
           step == [n \in Nat |-> [x \in X |-> IF n \in 1..L THEN x \o seqs[n] ELSE x]]
<1>1. L \in Nat /\ \A n \in 1..L : seqs[n] \in Seq(V)
  BY LenProperties, ElementOfSeq
<1> HIDE DEF L
<1>2. step \in [Nat -> [X -> X]]
  <2>1. ASSUME NEW n \in 1..L, NEW x \in X PROVE x \o seqs[n] \in X
    BY <1>1, ConcatProperties
  <2> QED BY <2>1
<1>3. <<>> \in X
  BY EmptySeq
<1>4. \A n \in 1..L : \A x \in X : step[n][x] = x \o seqs[n]
  <2>1. \A n \in 1..L : n \in Nat
    BY <1>1
  <2> HIDE DEF X
  <2> QED BY <2>1
<1> HIDE DEF step, X
<1>5. PICK g : Iterates(g, X, <<>>, step, L)
  BY <1>1, <1>2, <1>3, RecursiveFunction
<1>6. g \in [0..L -> X] /\ g[0] = <<>> /\ \A n \in 1..L : g[n] = step[n][g[n - 1]]
  BY <1>5 DEF Iterates
<1>7. \A n \in 1..L : g[n - 1] \in X
  BY <1>1, <1>6
<1>8. \A n \in 1..L : g[n] = g[n - 1] \o seqs[n]
  BY <1>4, <1>6, <1>7
<1>9. FlattenSeq(seqs) = g[L]
  BY <1>6, <1>8, FlattenIsLast DEF L, X
<1> QED BY <1>1, <1>6, <1>8, <1>9 DEF X, L

\* Both parts of a sequence are in it.
LEMMA ConcatHas ==
    ASSUME NEW V, NEW a \in Seq(V), NEW b \in Seq(V)
    PROVE  /\ a \o b \in Seq(V)
           /\ \A n \in DOMAIN a : n \in DOMAIN (a \o b) /\ (a \o b)[n] = a[n]
           /\ \A m \in DOMAIN (a \o b) :
                IF m <= Len(a) THEN m \in DOMAIN a /\ (a \o b)[m] = a[m]
                ELSE m - Len(a) \in DOMAIN b /\ (a \o b)[m] = b[m - Len(a)]
<1>1. Len(a) \in Nat /\ Len(b) \in Nat /\ DOMAIN a = 1..Len(a) /\ DOMAIN b = 1..Len(b)
  OBVIOUS
<1>2. /\ a \o b \in Seq(V) /\ Len(a \o b) = Len(a) + Len(b)
      /\ \A n \in 1..Len(a \o b) : (a \o b)[n] = IF n <= Len(a) THEN a[n] ELSE b[n - Len(a)]
  BY ConcatProperties
<1>3. DOMAIN (a \o b) = 1..(Len(a) + Len(b))
  BY <1>2
<1> QED BY <1>1, <1>2, <1>3

\* Nothing that is in one of the sequences is lost.
LEMMA FlattenHas ==
    ASSUME NEW V, NEW seqs \in Seq(Seq(V)), NEW k \in DOMAIN seqs, NEW i \in DOMAIN seqs[k]
    PROVE  \E n \in DOMAIN FlattenSeq(seqs) : FlattenSeq(seqs)[n] = seqs[k][i]
<1>1. PICK g \in [0..Len(seqs) -> Seq(V)] :
            /\ g[0] = <<>> /\ \A n \in 1..Len(seqs) : g[n] = g[n - 1] \o seqs[n]
            /\ FlattenSeq(seqs) = g[Len(seqs)]
  BY FlattenSteps
<1>2. Len(seqs) \in Nat /\ DOMAIN seqs = 1..Len(seqs) /\ \A n \in 1..Len(seqs) : seqs[n] \in Seq(V)
  OBVIOUS
<1> DEFINE Has(m) == \E n \in DOMAIN g[m] : g[m][n] = seqs[k][i]
           T == {m \in Nat : k + m <= Len(seqs) => Has(k + m)}
<1>3. 0 \in T
  <2>1. k \in 1..Len(seqs) /\ k - 1 \in 0..Len(seqs) /\ g[k - 1] \in Seq(V) /\ seqs[k] \in Seq(V)
    BY <1>2
  <2>2. g[k] = g[k - 1] \o seqs[k]
    BY <1>1, <2>1
  <2>3. /\ g[k] \in Seq(V) /\ Len(g[k]) = Len(g[k - 1]) + Len(seqs[k])
        /\ \A n \in 1..Len(g[k]) : g[k][n] = IF n <= Len(g[k - 1]) THEN g[k - 1][n] ELSE seqs[k][n - Len(g[k - 1])]
    BY <2>1, <2>2, ConcatProperties
  <2>4. i \in 1..Len(seqs[k]) /\ Len(g[k - 1]) \in Nat /\ Len(seqs[k]) \in Nat
    BY <2>1
  <2>5. Len(g[k - 1]) + i \in 1..Len(g[k]) /\ g[k][Len(g[k - 1]) + i] = seqs[k][i]
    <3> HIDE DEF T, Has
    <3> DEFINE n == Len(g[k - 1]) + i
    <3>1. n \in 1..Len(g[k]) /\ ~(n <= Len(g[k - 1])) /\ n - Len(g[k - 1]) = i
      BY <2>3, <2>4
    <3> HIDE DEF n
    <3>2. g[k][n] = seqs[k][n - Len(g[k - 1])]
      BY <2>3, <3>1
    <3> QED BY <3>1, <3>2 DEF n
  <2>6. Has(k)
    <3> HIDE DEF T
    <3>1. DOMAIN g[k] = 1..Len(g[k])
      BY <2>3
    <3>2. Len(g[k - 1]) + i \in DOMAIN g[k]
      BY <2>5, <3>1
    <3> QED BY <2>5, <3>2
  <2>7. k + 0 = k
    BY <2>1
  <2> HIDE DEF Has
  <2> QED BY <2>6, <2>7
<1>4. ASSUME NEW m \in Nat, m \in T PROVE m + 1 \in T
  <2> SUFFICES ASSUME k + (m + 1) <= Len(seqs) PROVE Has(k + (m + 1))
    OBVIOUS
  <2> DEFINE l == k + (m + 1)
  <2>1. k \in Nat /\ l \in 1..Len(seqs) /\ l - 1 = k + m /\ l - 1 \in 0..Len(seqs) /\ g[l - 1] \in Seq(V) /\ seqs[l] \in Seq(V)
    BY <1>2
  <2>2. Has(l - 1)
    BY <1>2, <1>4, <2>1
  <2> HIDE DEF l
  <2>3. g[l] = g[l - 1] \o seqs[l]
    BY <1>1, <2>1
  <2>4. PICK n \in DOMAIN g[l - 1] : g[l - 1][n] = seqs[k][i]
    BY <2>2
  <2>5. n \in DOMAIN (g[l - 1] \o seqs[l]) /\ (g[l - 1] \o seqs[l])[n] = g[l - 1][n]
    <3> HIDE DEF T, Has
    <3>1. ASSUME NEW a \in Seq(V), NEW b \in Seq(V), n \in DOMAIN a PROVE n \in DOMAIN (a \o b) /\ (a \o b)[n] = a[n]
      BY <3>1, ConcatHas
    <3> QED BY <2>1, <2>4, <3>1
  <2>6. n \in DOMAIN g[l] /\ g[l][n] = seqs[k][i]
    BY <2>3, <2>4, <2>5
  <2> QED BY <2>6 DEF l
<1> HIDE DEF T, Has
<1>5. Nat \subseteq T
  BY <1>3, <1>4, NumbersBelow
<1>6. Len(seqs) - k \in Nat /\ k + (Len(seqs) - k) = Len(seqs)
  BY <1>2
<1>7. Has(Len(seqs))
  <2>1. Len(seqs) - k \in T
    BY <1>5, <1>6
  <2> QED BY <1>2, <1>6, <2>1 DEF T
<1> QED BY <1>1, <1>7 DEF Has

\* A list whose first elements are kept, and the rest are not.
LEMMA FlattenFront ==
    ASSUME NEW V, NEW l \in Seq(V), NEW parts, NEW N \in Nat, Len(l) <= N,
           parts = [i \in 1..N |-> IF i <= Len(l) THEN <<l[i]>> ELSE <<>>]
    PROVE  FlattenSeq(parts) = l
<1> DEFINE M(n) == IF n <= Len(l) THEN n ELSE Len(l)
           g == [n \in 0..N |-> [i \in 1..M(n) |-> l[i]]]
<1>1. DOMAIN l = 1..Len(l) /\ Len(l) \in Nat /\ \A i \in 1..Len(l) : l[i] \in V
  OBVIOUS
<1>2. parts \in Seq(Seq(V)) /\ Len(parts) = N
  <2>1. parts \in [1..N -> Seq(V)]
    BY <1>1
  <2> QED BY <2>1
<1>3. ASSUME NEW n \in 0..Len(l) PROVE [i \in 1..n |-> l[i]] \in Seq(V) /\ Len([i \in 1..n |-> l[i]]) = n
  <2>1. [i \in 1..n |-> l[i]] \in [1..n -> V]
    BY <1>1
  <2> QED BY <2>1
<1>4. g \in [0..Len(parts) -> Seq(V)] /\ g[0] = <<>>
  <2>1. [i \in 1..0 |-> l[i]] = <<>>
    OBVIOUS
  <2>2. M(0) = 0 /\ \A n \in 0..N : M(n) \in 0..Len(l)
    BY <1>1
  <2> HIDE DEF M
  <2> QED BY <1>1, <1>2, <1>3, <2>1, <2>2
<1>5. ASSUME NEW n \in 1..Len(parts) PROVE g[n] = g[n - 1] \o parts[n]
  <2>1. n \in 1..N /\ n \in 0..N /\ n - 1 \in 0..N /\ n \in Nat
    BY <1>2
  <2>2. g[n] = [i \in 1..M(n) |-> l[i]] /\ g[n - 1] = [i \in 1..M(n - 1) |-> l[i]]
    BY <2>1
  <2>3. CASE n <= Len(l)
    <3>1. parts[n] = <<l[n]>> /\ M(n) = n /\ M(n - 1) = n - 1
      BY <1>1, <2>1, <2>3
    <3>2. [i \in 1..(n - 1) |-> l[i]] \in Seq(V) /\ Len([i \in 1..(n - 1) |-> l[i]]) = n - 1 /\ <<l[n]>> \in Seq(V)
      BY <1>1, <1>3, <2>1, <2>3
    <3> HIDE DEF g, M
    <3>3. [i \in 1..(n - 1) |-> l[i]] \o <<l[n]>> = [i \in 1..n |-> l[i]]
      BY <2>1, <3>2
    <3> QED BY <2>2, <3>1, <3>3
  <2>4. CASE ~(n <= Len(l))
    <3>1. parts[n] = <<>> /\ M(n) = Len(l) /\ M(n - 1) = Len(l)
      BY <1>1, <2>1, <2>4
    <3>2. [i \in 1..Len(l) |-> l[i]] \in Seq(V)
      BY <1>1, <1>3
    <3> HIDE DEF g, M
    <3>3. [i \in 1..Len(l) |-> l[i]] \o <<>> = [i \in 1..Len(l) |-> l[i]]
      BY <3>2, ConcatEmptySeq
    <3> QED BY <2>2, <3>1, <3>3
  <2> QED BY <2>3, <2>4
<1>6. g[N] = l
  <2>0. Len(l) \in Nat /\ N \in Nat /\ Len(l) <= N
    BY <1>1
  <2>1. M(N) = Len(l) /\ N \in 0..N
    <3> HIDE DEF g
    <3> QED BY <2>0
  <2>2. g[N] = [i \in 1..Len(l) |-> l[i]]
    BY <2>1
  <2> QED BY <1>1, <2>2
<1> HIDE DEF g
<1> QED BY <1>2, <1>4, <1>5, <1>6, FlattenIsLast

\* What Kept keeps of a table.
KeptOf(fields, table) ==
    [k \in DOMAIN table |-> IF WrittenIf(table[k][2], fields[table[k][1]]) THEN <<table[k]>> ELSE <<>>]

\* A line of a table whose condition holds is written.
LEMMA WrittenHas ==
    ASSUME NEW fields, NEW table, table \in Seq(Range(table)), NEW before, before \in Seq(Range(before)),
           NEW e \in Range(table), WrittenIf(e[2], fields[e[1]])
    PROVE  e[1] \in Keys(Map(before \o WriteFields(fields, table)))
<1> DEFINE T == Range(table)
           parts == KeptOf(fields, table)
           written == FlattenSeq(parts)
           w == WriteFields(fields, table)
<1>1. w = [k \in DOMAIN written |-> Entry(fields, written[k])]
  BY DEF WriteFields, Kept, Each, Entry, KeptOf
<1>2. parts \in Seq(Seq(T)) /\ DOMAIN parts = DOMAIN table
  <2>1. \A k \in DOMAIN table : table[k] \in T
    BY DEF Range
  <2> HIDE DEF T
  <2>2. \A k \in DOMAIN table : parts[k] \in Seq(T)
    BY <2>1 DEF KeptOf
  <2>3. parts = [k \in DOMAIN table |-> parts[k]]
    BY DEF KeptOf
  <2>4. DOMAIN parts = DOMAIN table
    BY DEF KeptOf
  <2> HIDE DEF parts
  <2> QED BY <2>2, <2>3, <2>4, MappedInto DEF T
<1>3. PICK k \in DOMAIN table : table[k] = e
  BY DEF Range
<1>4. parts[k] = <<e>>
  BY <1>3 DEF KeptOf
<1>5. 1 \in DOMAIN parts[k] /\ parts[k][1] = e
  BY <1>4
<1> HIDE DEF parts, T
<1>6. PICK n \in DOMAIN written : written[n] = e
  <2>1. \E n \in DOMAIN FlattenSeq(parts) : FlattenSeq(parts)[n] = parts[k][1]
    BY <1>2, <1>5, FlattenHas
  <2> QED BY <1>5, <2>1
<1> HIDE DEF written
<1>7. n \in DOMAIN w /\ w[n] = Entry(fields, e)
  BY <1>1, <1>6
<1>8. w \in Seq(Range(w))
  BY WrittenEntries
<1> HIDE DEF w
<1>9. w[n][1] = e[1]
  BY <1>7 DEF Entry
<1>10. \E m \in DOMAIN (before \o w) : (before \o w)[m] = w[n]
  <2>1. Len(before) \in Nat /\ Len(w) \in Nat /\ n \in 1..Len(w)
    BY <1>7, <1>8
  <2>2. /\ Len(before \o w) = Len(before) + Len(w) /\ before \o w \in Seq(Range(before) \union Range(w))
        /\ \A m \in 1..Len(before \o w) : (before \o w)[m] = IF m <= Len(before) THEN before[m] ELSE w[m - Len(before)]
    BY <1>8, ConcatProperties
  <2> DEFINE m == Len(before) + n
  <2>3. m \in 1..Len(before \o w) /\ ~(m <= Len(before)) /\ m - Len(before) = n
    BY <2>1, <2>2
  <2> HIDE DEF m
  <2>4. (before \o w)[m] = w[n] /\ m \in DOMAIN (before \o w)
    BY <2>2, <2>3
  <2> QED BY <2>4
<1>11. PICK m \in DOMAIN (before \o w) : (before \o w)[m][1] = e[1]
  BY <1>9, <1>10
<1> QED BY <1>11 DEF Keys, Map, w

\* No two lines of a table are about the same field.
Distinct(table) == \A d, e \in Range(table) : d[1] = e[1] => d = e

\* What is under the key of a line of a table.
LEMMA WrittenExactly ==
    ASSUME NEW fields, NEW table, table \in Seq(Range(table)), Distinct(table),
           NEW before, before \in Seq(Range(before)),
           NEW e \in Range(table), \A i \in DOMAIN before : before[i][1] # e[1]
    PROVE  LET o == Map(before \o WriteFields(fields, table))
           IN  /\ e[1] \in Keys(o) <=> WrittenIf(e[2], fields[e[1]])
               /\ e[1] \in Keys(o) => At(o, e[1]) = fields[e[1]].original
<1> DEFINE o == Map(before \o WriteFields(fields, table))
           k == e[1]
<1>1. WrittenIf(e[2], fields[k]) => k \in Keys(o)
  BY WrittenHas
<1>2. ASSUME k \in Keys(o)
      PROVE  At(o, k) = fields[k].original /\ WrittenIf(e[2], fields[k])
  <2>1. /\ At(o, k) = fields[k].original
        /\ \E d \in Range(table) : d[1] = k /\ WrittenIf(d[2], fields[k])
    BY <1>2, WrittenAt
  <2> QED BY <2>1 DEF Distinct
<1> QED BY <1>1, <1>2

\* Fields that are alike are written alike.
LEMMA SameWriting ==
    ASSUME NEW fields, NEW others, NEW table, table \in Seq(Range(table)),
           \A e \in Range(table) : Alike(e[2], fields[e[1]], others[e[1]])
    PROVE  WriteFields(fields, table) = WriteFields(others, table)
<1>1. KeptOf(fields, table) = KeptOf(others, table)
  <2>1. \A k \in DOMAIN table : WrittenIf(table[k][2], fields[table[k][1]]) <=> WrittenIf(table[k][2], others[table[k][1]])
    BY DEF Alike, Range
  <2> QED BY <2>1 DEF KeptOf
<1> DEFINE S == {e \in Range(table) : WrittenIf(e[2], fields[e[1]])}
           parts == KeptOf(fields, table)
           written == FlattenSeq(parts)
<1>2. written \in Seq(S)
  <2>1. ASSUME NEW k \in DOMAIN table, WrittenIf(table[k][2], fields[table[k][1]]) PROVE table[k] \in S
    BY <2>1 DEF Range
  <2>2. \A k \in DOMAIN table : parts[k] \in Seq(S)
    <3> HIDE DEF S
    <3> QED BY <2>1 DEF KeptOf
  <2>3. parts = [k \in DOMAIN table |-> parts[k]]
    BY DEF KeptOf
  <2> HIDE DEF S, parts
  <2>4. parts \in Seq(Seq(S))
    BY <2>2, <2>3, MappedInto
  <2> QED BY <2>4, FlattenType
<1>3. WriteFields(fields, table) = [k \in DOMAIN written |-> Entry(fields, written[k])]
  BY DEF WriteFields, Kept, Each, Entry, KeptOf
<1>4. WriteFields(others, table) = [k \in DOMAIN FlattenSeq(KeptOf(others, table)) |-> Entry(others, FlattenSeq(KeptOf(others, table))[k])]
  BY DEF WriteFields, Kept, Each, Entry, KeptOf
<1> HIDE DEF parts, written
<1>5. WriteFields(others, table) = [k \in DOMAIN written |-> Entry(others, written[k])]
  BY <1>1, <1>4 DEF written, parts
<1>6. \A k \in DOMAIN written : written[k] \in S
  BY <1>2
<1>7. \A k \in DOMAIN written : Entry(fields, written[k]) = Entry(others, written[k])
  BY <1>6 DEF Alike, Entry
<1> QED BY <1>3, <1>5, <1>7

\* The same of a table that is written alone.
LEMMA WrittenExactlyAlone ==
    ASSUME NEW fields, NEW table, table \in Seq(Range(table)), Distinct(table), NEW e \in Range(table)
    PROVE  LET o == Map(WriteFields(fields, table))
           IN  /\ e[1] \in Keys(o) <=> WrittenIf(e[2], fields[e[1]])
               /\ e[1] \in Keys(o) => At(o, e[1]) = fields[e[1]].original
<1> DEFINE w == WriteFields(fields, table)
           Right(o) == /\ e[1] \in Keys(o) <=> WrittenIf(e[2], fields[e[1]])
                       /\ e[1] \in Keys(o) => At(o, e[1]) = fields[e[1]].original
<1>1. <<>> \o w = w
  BY WrittenEntries, ConcatEmptySeq
<1>2. <<>> \in Seq(Range(<<>>)) /\ \A i \in DOMAIN <<>> : <<>>[i][1] # e[1]
  OBVIOUS
<1>3. ASSUME NEW none, none = <<>> PROVE Right(Map(none \o w))
  <2>1. none \in Seq(Range(none)) /\ \A i \in DOMAIN none : none[i][1] # e[1]
    BY <1>2, <1>3
  <2> QED BY <2>1, WrittenExactly
<1> HIDE DEF Right
<1>4. Right(Map(w))
  BY <1>1, <1>3
<1> QED BY <1>4 DEF Right

\* Nothing is written but what the table is about.
LEMMA WrittenKeys ==
    ASSUME NEW fields, NEW table, table \in Seq(Range(table))
    PROVE  /\ WriteFields(fields, table) \in Seq(Range(WriteFields(fields, table)))
           /\ \A i \in DOMAIN WriteFields(fields, table) :
                /\ \E e \in Range(table) : WriteFields(fields, table)[i][1] = e[1]
                /\ WriteFields(fields, table)[i] = <<WriteFields(fields, table)[i][1], WriteFields(fields, table)[i][2]>>
<1> DEFINE w == WriteFields(fields, table)
<1>1. w \in Seq(Range(w)) /\ \A i \in DOMAIN w : \E e \in Range(table) : w[i] = Entry(fields, e)
  BY WrittenEntries
<1> HIDE DEF w
<1>2. \A i \in DOMAIN w : (\E e \in Range(table) : w[i][1] = e[1]) /\ w[i] = <<w[i][1], w[i][2]>>
  BY <1>1 DEF Entry
<1> QED BY <1>1, <1>2 DEF w

\* An object has what was written of these fields, each under its key.
Holds(o, fields, table) ==
    \A e \in Range(table) : /\ e[1] \in Keys(o) <=> WrittenIf(e[2], fields[e[1]])
                            /\ e[1] \in Keys(o) => At(o, e[1]) = fields[e[1]].original

\* What was written does, alone and after others.
LEMMA WrittenHolds ==
    ASSUME NEW fields, NEW table, table \in Seq(Range(table)), Distinct(table)
    PROVE  /\ Holds(Map(WriteFields(fields, table)), fields, table)
           /\ \A before :
                /\ before \in Seq(Range(before))
                /\ \A i \in DOMAIN before : \A e \in Range(table) : before[i][1] # e[1]
                => Holds(Map(before \o WriteFields(fields, table)), fields, table)
<1>1. ASSUME NEW e \in Range(table)
      PROVE  LET o == Map(WriteFields(fields, table))
             IN  /\ e[1] \in Keys(o) <=> WrittenIf(e[2], fields[e[1]])
                 /\ e[1] \in Keys(o) => At(o, e[1]) = fields[e[1]].original
  BY WrittenExactlyAlone
<1>2. ASSUME NEW before, before \in Seq(Range(before)),
             \A i \in DOMAIN before : \A e \in Range(table) : before[i][1] # e[1],
             NEW e \in Range(table)
      PROVE  LET o == Map(before \o WriteFields(fields, table))
             IN  /\ e[1] \in Keys(o) <=> WrittenIf(e[2], fields[e[1]])
                 /\ e[1] \in Keys(o) => At(o, e[1]) = fields[e[1]].original
  <2>1. \A i \in DOMAIN before : before[i][1] # e[1]
    BY <1>2
  <2> QED BY <1>2, <2>1, WrittenExactly
<1>3. Holds(Map(WriteFields(fields, table)), fields, table)
  BY <1>1 DEF Holds
<1>4. ASSUME NEW before, before \in Seq(Range(before)),
             \A i \in DOMAIN before : \A e \in Range(table) : before[i][1] # e[1]
      PROVE  Holds(Map(before \o WriteFields(fields, table)), fields, table)
  BY <1>2, <1>4 DEF Holds
<1> QED BY <1>3, <1>4

\* A field that a table is about, read from an object that has it.
LEMMA FieldsAgain ==
    ASSUME NEW p, NEW o, NEW kinds, NEW u \in BOOLEAN, NEW fields, NEW table, Holds(p, fields, table),
           NEW e \in Range(table), e[1] \in DOMAIN kinds, Suits(kinds[e[1]], e[2], u),
           fields[e[1]] = Fields(o, kinds, u)[e[1]]
    PROVE  Alike(e[2], fields[e[1]], Fields(p, kinds, u)[e[1]])
<1> DEFINE k == e[1]
           v == fields[k]
           w == Fields(p, kinds, u)[k]
<1>1. /\ k \in Keys(p) <=> WrittenIf(e[2], v)
      /\ k \in Keys(p) => At(p, k) = v.original
  BY DEF Holds
<1>2. v = Missing(kinds[k], u) \/ \E j : v = Parsed(kinds[k], j)
  BY DEF Fields
<1>3. w = IF k \in Keys(p) THEN Parsed(kinds[k], At(p, k)) ELSE Missing(kinds[k], u)
  BY DEF Fields
<1> HIDE DEF v, w
<1>4. w = IF WrittenIf(e[2], v) THEN Parsed(kinds[k], v.original) ELSE Missing(kinds[k], u)
  BY <1>1, <1>3
<1>5. Alike(e[2], v, w)
  BY <1>2, <1>4, FieldAgain
<1> QED BY <1>5 DEF v, w

\* A table is about the fields of an object and some others, and its conditions suit them.
TableFits(kinds, table, u, others) ==
    /\ table \in Seq(Range(table)) /\ Distinct(table)
    /\ \A e \in Range(table) : (e[1] \in DOMAIN kinds /\ Suits(kinds[e[1]], e[2], u)) \/ e[1] \in others

\* An object that has what was written is written as it was, when its other members are.
LEMMA ObjectAgain ==
    ASSUME NEW p, NEW o, NEW kinds, NEW u \in BOOLEAN, NEW table, NEW others, TableFits(kinds, table, u, others),
           NEW fields, Holds(p, fields, table), NEW fields2,
           \A e \in Range(table) :
                IF e[1] \in others THEN Alike(e[2], fields[e[1]], fields2[e[1]])
                ELSE /\ fields[e[1]] = Fields(o, kinds, u)[e[1]]
                     /\ fields2[e[1]] = Fields(p, kinds, u)[e[1]]
    PROVE  WriteFields(fields2, table) = WriteFields(fields, table)
<1>1. ASSUME NEW e \in Range(table) PROVE Alike(e[2], fields[e[1]], fields2[e[1]])
  <2>1. CASE e[1] \in others
    BY <2>1
  <2>2. CASE e[1] \notin others
    <3>1. e[1] \in DOMAIN kinds /\ Suits(kinds[e[1]], e[2], u)
      BY <2>2 DEF TableFits
    <3>2. fields[e[1]] = Fields(o, kinds, u)[e[1]] /\ fields2[e[1]] = Fields(p, kinds, u)[e[1]]
      BY <2>2
    <3> QED BY <3>1, <3>2, FieldsAgain
  <2> QED BY <2>1, <2>2
<1>2. table \in Seq(Range(table))
  BY DEF TableFits
<1> QED BY <1>1, <1>2, SameWriting

\* An object that is nothing but its fields.
LEMMA FieldsWritten ==
    ASSUME NEW p, NEW o, NEW kinds, NEW u \in BOOLEAN, NEW table, TableFits(kinds, table, u, {}),
           Holds(p, Fields(o, kinds, u), table)
    PROVE  WriteFields(Fields(p, kinds, u), table) = WriteFields(Fields(o, kinds, u), table)
<1> DEFINE fields == Fields(o, kinds, u)
           fields2 == Fields(p, kinds, u)
<1>1. \A e \in Range(table) :
          IF e[1] \in {} THEN Alike(e[2], fields[e[1]], fields2[e[1]])
          ELSE fields[e[1]] = Fields(o, kinds, u)[e[1]] /\ fields2[e[1]] = Fields(p, kinds, u)[e[1]]
  OBVIOUS
<1> QED BY <1>1, ObjectAgain

\* So what such an object was written as is written again as it is.
LEMMA FieldsAreAll ==
    ASSUME NEW o, NEW kinds, NEW u \in BOOLEAN, NEW table, TableFits(kinds, table, u, {})
    PROVE  LET w == WriteFields(Fields(o, kinds, u), table)
           IN  WriteFields(Fields(Map(w), kinds, u), table) = w
<1> DEFINE fields == Fields(o, kinds, u)
           w == WriteFields(fields, table)
<1>1. Holds(Map(w), fields, table)
  BY WrittenHolds DEF TableFits
<1> QED BY <1>1, FieldsWritten

----------------------------------------------------------------------------
(* The tables of the writer *)

\* A table is a list of its lines.
LEMMA TableIsList == ASSUME NEW n \in Nat, NEW t, t = [i \in 1..n |-> t[i]] PROVE t \in Seq(Range(t))
<1>1. \A i \in 1..n : t[i] \in Range(t)
  BY DEF Range
<1>2. t \in [1..n -> Range(t)]
  BY <1>1
<1> QED BY <1>2

\* The tables are about the fields of what they are tables of: those of instances,
LEMMA InstanceFits ==
    /\ TableFits(InstanceKinds, InstanceWritten, FALSE, {})
    /\ <<"nonce", "always">> \in Range(InstanceWritten)
<1>0. /\ DOMAIN InstanceWritten = 1..7
      /\ InstanceWritten[1] = <<"nonce", "always">> /\ InstanceWritten[2] = <<"balance", "original">>
         /\ InstanceWritten[3] = <<"creator", "original">>
         /\ InstanceWritten[4] = <<"royalties", "original">>
         /\ InstanceWritten[5] = <<"hash", "original">> /\ InstanceWritten[6] = <<"uri", "nonempty">>
         /\ InstanceWritten[7] = <<"attributes", "value">>
  BY DEF InstanceWritten
<1>1. ASSUME NEW e \in Range(InstanceWritten)
      PROVE  e = <<"nonce", "always">> \/ e = <<"balance", "original">> \/ e = <<"creator", "original">>
             \/ e = <<"royalties", "original">> \/ e = <<"hash", "original">> \/ e = <<"uri", "nonempty">>
             \/ e = <<"attributes", "value">>
  BY <1>0 DEF Range
<1>2. InstanceWritten \in Seq(Range(InstanceWritten))
  <2>1. InstanceWritten = [i \in 1..7 |-> InstanceWritten[i]]
    BY DEF InstanceWritten
  <2> QED BY <2>1, TableIsList
<1>3. Distinct(InstanceWritten)
  BY <1>1 DEF Distinct
<1>4. ASSUME NEW e \in Range(InstanceWritten)
      PROVE  (e[1] \in DOMAIN InstanceKinds /\ Suits(InstanceKinds[e[1]], e[2], FALSE)) \/ e[1] \in {}
  BY <1>1 DEF InstanceKinds, Suits, AllKinds
<1>5. <<"nonce", "always">> \in Range(InstanceWritten)
  BY <1>0 DEF Range
<1> QED BY <1>2, <1>3, <1>4, <1>5 DEF TableFits

\* Instances in checks.
LEMMA CheckInstanceFits ==
    /\ TableFits(CheckInstanceKinds, CheckInstanceWritten, TRUE, {})
    /\ <<"nonce", "always">> \in Range(CheckInstanceWritten)
<1>0. /\ DOMAIN CheckInstanceWritten = 1..7
      /\ CheckInstanceWritten[1] = <<"nonce", "always">>
         /\ CheckInstanceWritten[2] = <<"balance", "original">>
         /\ CheckInstanceWritten[3] = <<"creator", "specifiedValue">>
         /\ CheckInstanceWritten[4] = <<"royalties", "specifiedOriginal">>
         /\ CheckInstanceWritten[5] = <<"hash", "specifiedValue">>
         /\ CheckInstanceWritten[6] = <<"uri", "specified">>
         /\ CheckInstanceWritten[7] = <<"attributes", "specifiedValue">>
  BY DEF CheckInstanceWritten
<1>1. ASSUME NEW e \in Range(CheckInstanceWritten)
      PROVE  e = <<"nonce", "always">> \/ e = <<"balance", "original">>
             \/ e = <<"creator", "specifiedValue">> \/ e = <<"royalties", "specifiedOriginal">>
             \/ e = <<"hash", "specifiedValue">> \/ e = <<"uri", "specified">>
             \/ e = <<"attributes", "specifiedValue">>
  BY <1>0 DEF Range
<1>2. CheckInstanceWritten \in Seq(Range(CheckInstanceWritten))
  <2>1. CheckInstanceWritten = [i \in 1..7 |-> CheckInstanceWritten[i]]
    BY DEF CheckInstanceWritten
  <2> QED BY <2>1, TableIsList
<1>3. Distinct(CheckInstanceWritten)
  BY <1>1 DEF Distinct
<1>4. ASSUME NEW e \in Range(CheckInstanceWritten)
      PROVE  (e[1] \in DOMAIN CheckInstanceKinds /\ Suits(CheckInstanceKinds[e[1]], e[2], TRUE)) \/ e[1] \in {}
  BY <1>1 DEF CheckInstanceKinds, Suits, AllKinds
<1>5. <<"nonce", "always">> \in Range(CheckInstanceWritten)
  BY <1>0 DEF Range
<1> QED BY <1>2, <1>3, <1>4, <1>5 DEF TableFits

\* Tokens.
LEMMA TokenFits ==
    /\ TableFits(TokenKinds, TokenWritten, FALSE, {})
    /\ <<"roles", "nonempty">> \in Range(TokenWritten)
    /\ <<"frozen", "original">> \in Range(TokenWritten)
<1>0. /\ DOMAIN TokenWritten = 1..3
      /\ TokenWritten[1] = <<"lastNonce", "original">> /\ TokenWritten[2] = <<"roles", "nonempty">>
         /\ TokenWritten[3] = <<"frozen", "original">>
  BY DEF TokenWritten
<1>1. ASSUME NEW e \in Range(TokenWritten)
      PROVE  e = <<"lastNonce", "original">> \/ e = <<"roles", "nonempty">> \/ e = <<"frozen", "original">>
  BY <1>0 DEF Range
<1>2. TokenWritten \in Seq(Range(TokenWritten))
  <2>1. TokenWritten = [i \in 1..3 |-> TokenWritten[i]]
    BY DEF TokenWritten
  <2> QED BY <2>1, TableIsList
<1>3. Distinct(TokenWritten)
  BY <1>1 DEF Distinct
<1>4. ASSUME NEW e \in Range(TokenWritten)
      PROVE  (e[1] \in DOMAIN TokenKinds /\ Suits(TokenKinds[e[1]], e[2], FALSE)) \/ e[1] \in {}
  BY <1>1 DEF TokenKinds, Suits, AllKinds
<1>5. <<"roles", "nonempty">> \in Range(TokenWritten)
  BY <1>0 DEF Range
<1>6. <<"frozen", "original">> \in Range(TokenWritten)
  BY <1>0 DEF Range
<1> QED BY <1>2, <1>3, <1>4, <1>5, <1>6 DEF TableFits

\* Tokens in checks.
LEMMA CheckTokenFits ==
    TableFits(CheckTokenKinds, TokenWritten, FALSE, {})
<1>0. /\ DOMAIN TokenWritten = 1..3
      /\ TokenWritten[1] = <<"lastNonce", "original">> /\ TokenWritten[2] = <<"roles", "nonempty">>
         /\ TokenWritten[3] = <<"frozen", "original">>
  BY DEF TokenWritten
<1>1. ASSUME NEW e \in Range(TokenWritten)
      PROVE  e = <<"lastNonce", "original">> \/ e = <<"roles", "nonempty">> \/ e = <<"frozen", "original">>
  BY <1>0 DEF Range
<1>2. TokenWritten \in Seq(Range(TokenWritten))
  <2>1. TokenWritten = [i \in 1..3 |-> TokenWritten[i]]
    BY DEF TokenWritten
  <2> QED BY <2>1, TableIsList
<1>3. Distinct(TokenWritten)
  BY <1>1 DEF Distinct
<1>4. ASSUME NEW e \in Range(TokenWritten)
      PROVE  (e[1] \in DOMAIN CheckTokenKinds /\ Suits(CheckTokenKinds[e[1]], e[2], FALSE)) \/ e[1] \in {}
  BY <1>1 DEF CheckTokenKinds, Suits, AllKinds
<1> QED BY <1>2, <1>3, <1>4 DEF TableFits

\* Accounts.
LEMMA AccountFits ==
    /\ TableFits(AccountKinds, AccountWritten, TRUE, {"esdt", "storage"})
    /\ <<"esdt", "nonempty">> \in Range(AccountWritten)
    /\ <<"storage", "nonempty">> \in Range(AccountWritten)
<1>0. /\ DOMAIN AccountWritten = 1..13
      /\ AccountWritten[1] = <<"comment", "original">> /\ AccountWritten[2] = <<"update", "true">>
         /\ AccountWritten[3] = <<"shard", "original">> /\ AccountWritten[4] = <<"nonce", "original">>
         /\ AccountWritten[5] = <<"balance", "original">> /\ AccountWritten[6] = <<"esdt", "nonempty">>
         /\ AccountWritten[7] = <<"username", "value">> /\ AccountWritten[8] = <<"storage", "nonempty">>
         /\ AccountWritten[9] = <<"code", "original">>
         /\ AccountWritten[10] = <<"codeMetadata", "original">>
         /\ AccountWritten[11] = <<"owner", "value">>
         /\ AccountWritten[12] = <<"developerRewards", "original">>
         /\ AccountWritten[13] = <<"asyncCallData", "original">>
  BY DEF AccountWritten
<1>1. ASSUME NEW e \in Range(AccountWritten)
      PROVE  e = <<"comment", "original">> \/ e = <<"update", "true">> \/ e = <<"shard", "original">>
             \/ e = <<"nonce", "original">> \/ e = <<"balance", "original">> \/ e = <<"esdt", "nonempty">>
             \/ e = <<"username", "value">> \/ e = <<"storage", "nonempty">> \/ e = <<"code", "original">>
             \/ e = <<"codeMetadata", "original">> \/ e = <<"owner", "value">>
             \/ e = <<"developerRewards", "original">> \/ e = <<"asyncCallData", "original">>
  BY <1>0 DEF Range
<1>2. AccountWritten \in Seq(Range(AccountWritten))
  <2>1. AccountWritten = [i \in 1..13 |-> AccountWritten[i]]
    BY DEF AccountWritten
  <2> QED BY <2>1, TableIsList
<1>3. Distinct(AccountWritten)
  BY <1>1 DEF Distinct
<1>4. ASSUME NEW e \in Range(AccountWritten)
      PROVE  (e[1] \in DOMAIN AccountKinds /\ Suits(AccountKinds[e[1]], e[2], TRUE)) \/ e[1] \in {"esdt", "storage"}
  BY <1>1 DEF AccountKinds, Suits, AllKinds
<1>5. <<"esdt", "nonempty">> \in Range(AccountWritten)
  BY <1>0 DEF Range
<1>6. <<"storage", "nonempty">> \in Range(AccountWritten)
  BY <1>0 DEF Range
<1> QED BY <1>2, <1>3, <1>4, <1>5, <1>6 DEF TableFits

\* Accounts in checks.
LEMMA CheckAccountFits ==
    /\ TableFits(CheckAccountKinds, CheckAccountWritten, TRUE, {"esdt", "storage"})
    /\ <<"esdt", "specified">> \in Range(CheckAccountWritten)
    /\ <<"storage", "specified">> \in Range(CheckAccountWritten)
<1>0. /\ DOMAIN CheckAccountWritten = 1..11
      /\ CheckAccountWritten[1] = <<"comment", "original">>
         /\ CheckAccountWritten[2] = <<"nonce", "specified">>
         /\ CheckAccountWritten[3] = <<"balance", "specified">>
         /\ CheckAccountWritten[4] = <<"esdt", "specified">>
         /\ CheckAccountWritten[5] = <<"username", "specified">>
         /\ CheckAccountWritten[6] = <<"storage", "specified">>
         /\ CheckAccountWritten[7] = <<"code", "specified">>
         /\ CheckAccountWritten[8] = <<"codeMetadata", "specified">>
         /\ CheckAccountWritten[9] = <<"owner", "specified">>
         /\ CheckAccountWritten[10] = <<"developerRewards", "specified">>
         /\ CheckAccountWritten[11] = <<"asyncCallData", "specified">>
  BY DEF CheckAccountWritten
<1>1. ASSUME NEW e \in Range(CheckAccountWritten)
      PROVE  e = <<"comment", "original">> \/ e = <<"nonce", "specified">> \/ e = <<"balance", "specified">>
             \/ e = <<"esdt", "specified">> \/ e = <<"username", "specified">>
             \/ e = <<"storage", "specified">> \/ e = <<"code", "specified">>
             \/ e = <<"codeMetadata", "specified">> \/ e = <<"owner", "specified">>
             \/ e = <<"developerRewards", "specified">> \/ e = <<"asyncCallData", "specified">>
  BY <1>0 DEF Range
<1>2. CheckAccountWritten \in Seq(Range(CheckAccountWritten))
  <2>1. CheckAccountWritten = [i \in 1..11 |-> CheckAccountWritten[i]]
    BY DEF CheckAccountWritten
  <2> QED BY <2>1, TableIsList
<1>3. Distinct(CheckAccountWritten)
  BY <1>1 DEF Distinct
<1>4. ASSUME NEW e \in Range(CheckAccountWritten)
      PROVE  (e[1] \in DOMAIN CheckAccountKinds /\ Suits(CheckAccountKinds[e[1]], e[2], TRUE)) \/ e[1] \in {"esdt", "storage"}
  BY <1>1 DEF CheckAccountKinds, Suits, AllKinds
<1>5. <<"esdt", "specified">> \in Range(CheckAccountWritten)
  BY <1>0 DEF Range
<1>6. <<"storage", "specified">> \in Range(CheckAccountWritten)
  BY <1>0 DEF Range
<1> QED BY <1>2, <1>3, <1>4, <1>5, <1>6 DEF TableFits

\* Block infos.
LEMMA BlockInfoFits ==
    TableFits(BlockInfoKinds, BlockInfoWritten, TRUE, {})
<1>0. /\ DOMAIN BlockInfoWritten = 1..6
      /\ BlockInfoWritten[1] = <<"blockTimestamp", "original">>
         /\ BlockInfoWritten[2] = <<"blockTimestampMs", "original">>
         /\ BlockInfoWritten[3] = <<"blockNonce", "original">>
         /\ BlockInfoWritten[4] = <<"blockRound", "original">>
         /\ BlockInfoWritten[5] = <<"blockEpoch", "original">>
         /\ BlockInfoWritten[6] = <<"blockRandomSeed", "specified">>
  BY DEF BlockInfoWritten
<1>1. ASSUME NEW e \in Range(BlockInfoWritten)
      PROVE  e = <<"blockTimestamp", "original">> \/ e = <<"blockTimestampMs", "original">>
             \/ e = <<"blockNonce", "original">> \/ e = <<"blockRound", "original">>
             \/ e = <<"blockEpoch", "original">> \/ e = <<"blockRandomSeed", "specified">>
  BY <1>0 DEF Range
<1>2. BlockInfoWritten \in Seq(Range(BlockInfoWritten))
  <2>1. BlockInfoWritten = [i \in 1..6 |-> BlockInfoWritten[i]]
    BY DEF BlockInfoWritten
  <2> QED BY <2>1, TableIsList
<1>3. Distinct(BlockInfoWritten)
  BY <1>1 DEF Distinct
<1>4. ASSUME NEW e \in Range(BlockInfoWritten)
      PROVE  (e[1] \in DOMAIN BlockInfoKinds /\ Suits(BlockInfoKinds[e[1]], e[2], TRUE)) \/ e[1] \in {}
  BY <1>1 DEF BlockInfoKinds, Suits, AllKinds
<1> QED BY <1>2, <1>3, <1>4 DEF TableFits

\* New addresses.
LEMMA NewAddressFits ==
    TableFits(NewAddressKinds, NewAddressWritten, FALSE, {})
<1>0. /\ DOMAIN NewAddressWritten = 1..3
      /\ NewAddressWritten[1] = <<"creatorAddress", "always">>
         /\ NewAddressWritten[2] = <<"creatorNonce", "always">>
         /\ NewAddressWritten[3] = <<"newAddress", "always">>
  BY DEF NewAddressWritten
<1>1. ASSUME NEW e \in Range(NewAddressWritten)
      PROVE  e = <<"creatorAddress", "always">> \/ e = <<"creatorNonce", "always">>
             \/ e = <<"newAddress", "always">>
  BY <1>0 DEF Range
<1>2. NewAddressWritten \in Seq(Range(NewAddressWritten))
  <2>1. NewAddressWritten = [i \in 1..3 |-> NewAddressWritten[i]]
    BY DEF NewAddressWritten
  <2> QED BY <2>1, TableIsList
<1>3. Distinct(NewAddressWritten)
  BY <1>1 DEF Distinct
<1>4. ASSUME NEW e \in Range(NewAddressWritten)
      PROVE  (e[1] \in DOMAIN NewAddressKinds /\ Suits(NewAddressKinds[e[1]], e[2], FALSE)) \/ e[1] \in {}
  BY <1>1 DEF NewAddressKinds, Suits, AllKinds
<1> QED BY <1>2, <1>3, <1>4 DEF TableFits

\* Transfers of tokens.
LEMMA TransferFits ==
    TableFits(TransferKinds, TransferWritten, FALSE, {})
<1>0. /\ DOMAIN TransferWritten = 1..3
      /\ TransferWritten[1] = <<"tokenIdentifier", "original">>
         /\ TransferWritten[2] = <<"nonce", "original">> /\ TransferWritten[3] = <<"value", "original">>
  BY DEF TransferWritten
<1>1. ASSUME NEW e \in Range(TransferWritten)
      PROVE  e = <<"tokenIdentifier", "original">> \/ e = <<"nonce", "original">>
             \/ e = <<"value", "original">>
  BY <1>0 DEF Range
<1>2. TransferWritten \in Seq(Range(TransferWritten))
  <2>1. TransferWritten = [i \in 1..3 |-> TransferWritten[i]]
    BY DEF TransferWritten
  <2> QED BY <2>1, TableIsList
<1>3. Distinct(TransferWritten)
  BY <1>1 DEF Distinct
<1>4. ASSUME NEW e \in Range(TransferWritten)
      PROVE  (e[1] \in DOMAIN TransferKinds /\ Suits(TransferKinds[e[1]], e[2], FALSE)) \/ e[1] \in {}
  BY <1>1 DEF TransferKinds, Suits, AllKinds
<1> QED BY <1>2, <1>3, <1>4 DEF TableFits

\* Transactions, all types together.
LEMMA TxFits ==
    /\ TableFits(TxKinds, TxWritten, TRUE, {"esdtValue"})
    /\ <<"from", "always">> \in Range(TxWritten)
    /\ <<"to", "always">> \in Range(TxWritten)
    /\ <<"egldValue", "original">> \in Range(TxWritten)
    /\ <<"esdtValue", "nonempty">> \in Range(TxWritten)
<1>0. /\ DOMAIN TxWritten = 1..9
      /\ TxWritten[1] = <<"from", "always">> /\ TxWritten[2] = <<"to", "always">>
         /\ TxWritten[3] = <<"egldValue", "original">> /\ TxWritten[4] = <<"esdtValue", "nonempty">>
         /\ TxWritten[5] = <<"function", "always">> /\ TxWritten[6] = <<"contractCode", "always">>
         /\ TxWritten[7] = <<"arguments", "always">> /\ TxWritten[8] = <<"gasLimit", "original">>
         /\ TxWritten[9] = <<"gasPrice", "original">>
  BY DEF TxWritten
<1>1. ASSUME NEW e \in Range(TxWritten)
      PROVE  e = <<"from", "always">> \/ e = <<"to", "always">> \/ e = <<"egldValue", "original">>
             \/ e = <<"esdtValue", "nonempty">> \/ e = <<"function", "always">>
             \/ e = <<"contractCode", "always">> \/ e = <<"arguments", "always">>
             \/ e = <<"gasLimit", "original">> \/ e = <<"gasPrice", "original">>
  <2>1. PICK i \in DOMAIN TxWritten : TxWritten[i] = e
    BY DEF Range
  <2> QED BY <1>0, <2>1
<1>2. TxWritten \in Seq(Range(TxWritten))
  <2>1. TxWritten = [i \in 1..9 |-> TxWritten[i]]
    BY DEF TxWritten
  <2> QED BY <2>1, TableIsList
<1>3. Distinct(TxWritten)
  BY <1>1 DEF Distinct
<1>4. ASSUME NEW e \in Range(TxWritten)
      PROVE  (e[1] \in DOMAIN TxKinds /\ Suits(TxKinds[e[1]], e[2], TRUE)) \/ e[1] \in {"esdtValue"}
  BY <1>1 DEF TxKinds, Suits, AllKinds
<1>5. <<"from", "always">> \in Range(TxWritten)
  BY <1>0 DEF Range
<1>6. <<"to", "always">> \in Range(TxWritten)
  BY <1>0 DEF Range
<1>7. <<"egldValue", "original">> \in Range(TxWritten)
  BY <1>0 DEF Range
<1>8. <<"esdtValue", "nonempty">> \in Range(TxWritten)
  BY <1>0 DEF Range
<1> QED BY <1>2, <1>3, <1>4, <1>5, <1>6, <1>7, <1>8 DEF TableFits

\* Log entries.
LEMMA LogFits ==
    TableFits(LogKinds, LogWritten, FALSE, {})
<1>0. /\ DOMAIN LogWritten = 1..4
      /\ LogWritten[1] = <<"address", "always">> /\ LogWritten[2] = <<"endpoint", "always">>
         /\ LogWritten[3] = <<"topics", "always">> /\ LogWritten[4] = <<"data", "always">>
  BY DEF LogWritten
<1>1. ASSUME NEW e \in Range(LogWritten)
      PROVE  e = <<"address", "always">> \/ e = <<"endpoint", "always">> \/ e = <<"topics", "always">>
             \/ e = <<"data", "always">>
  BY <1>0 DEF Range
<1>2. LogWritten \in Seq(Range(LogWritten))
  <2>1. LogWritten = [i \in 1..4 |-> LogWritten[i]]
    BY DEF LogWritten
  <2> QED BY <2>1, TableIsList
<1>3. Distinct(LogWritten)
  BY <1>1 DEF Distinct
<1>4. ASSUME NEW e \in Range(LogWritten)
      PROVE  (e[1] \in DOMAIN LogKinds /\ Suits(LogKinds[e[1]], e[2], FALSE)) \/ e[1] \in {}
  BY <1>1 DEF LogKinds, Suits, AllKinds
<1> QED BY <1>2, <1>3, <1>4 DEF TableFits

\* What is expected of a transaction.
LEMMA ResultFits ==
    /\ TableFits(ResultKinds, ResultWritten, TRUE, {"logs"})
    /\ <<"logs", "specified">> \in Range(ResultWritten)
<1>0. /\ DOMAIN ResultWritten = 1..6
      /\ ResultWritten[1] = <<"out", "always">> /\ ResultWritten[2] = <<"status", "specified">>
         /\ ResultWritten[3] = <<"message", "specified">> /\ ResultWritten[4] = <<"logs", "specified">>
         /\ ResultWritten[5] = <<"gas", "specified">> /\ ResultWritten[6] = <<"refund", "specified">>
  BY DEF ResultWritten
<1>1. ASSUME NEW e \in Range(ResultWritten)
      PROVE  e = <<"out", "always">> \/ e = <<"status", "specified">> \/ e = <<"message", "specified">>
             \/ e = <<"logs", "specified">> \/ e = <<"gas", "specified">> \/ e = <<"refund", "specified">>
  BY <1>0 DEF Range
<1>2. ResultWritten \in Seq(Range(ResultWritten))
  <2>1. ResultWritten = [i \in 1..6 |-> ResultWritten[i]]
    BY DEF ResultWritten
  <2> QED BY <2>1, TableIsList
<1>3. Distinct(ResultWritten)
  BY <1>1 DEF Distinct
<1>4. ASSUME NEW e \in Range(ResultWritten)
      PROVE  (e[1] \in DOMAIN ResultKinds /\ Suits(ResultKinds[e[1]], e[2], TRUE)) \/ e[1] \in {"logs"}
  BY <1>1 DEF ResultKinds, Suits, AllKinds
<1>5. <<"logs", "specified">> \in Range(ResultWritten)
  BY <1>0 DEF Range
<1> QED BY <1>2, <1>3, <1>4, <1>5 DEF TableFits

\* Scenarios: three lines are not those of a plain field.
LEMMA ScenarioFits ==
    /\ TableFits(ScenarioKinds, ScenarioWritten, FALSE, {"checkGas", "gasSchedule", "steps"})
    /\ <<"checkGas", "false">> \in Range(ScenarioWritten)
    /\ <<"gasSchedule", "original">> \in Range(ScenarioWritten)
    /\ <<"steps", "always">> \in Range(ScenarioWritten)
<1>0. /\ DOMAIN ScenarioWritten = 1..6
      /\ ScenarioWritten[1] = <<"name", "original">> /\ ScenarioWritten[2] = <<"comment", "original">>
         /\ ScenarioWritten[3] = <<"checkGas", "false">> /\ ScenarioWritten[4] = <<"traceGas", "true">>
         /\ ScenarioWritten[5] = <<"gasSchedule", "original">>
         /\ ScenarioWritten[6] = <<"steps", "always">>
  BY DEF ScenarioWritten
<1>1. ASSUME NEW e \in Range(ScenarioWritten)
      PROVE  e = <<"name", "original">> \/ e = <<"comment", "original">> \/ e = <<"checkGas", "false">>
             \/ e = <<"traceGas", "true">> \/ e = <<"gasSchedule", "original">> \/ e = <<"steps", "always">>
  BY <1>0 DEF Range
<1>2. ScenarioWritten \in Seq(Range(ScenarioWritten))
  <2>1. ScenarioWritten = [i \in 1..6 |-> ScenarioWritten[i]]
    BY DEF ScenarioWritten
  <2> QED BY <2>1, TableIsList
<1>3. Distinct(ScenarioWritten)
  BY <1>1 DEF Distinct
<1>4. ASSUME NEW e \in Range(ScenarioWritten)
      PROVE  (e[1] \in DOMAIN ScenarioKinds /\ Suits(ScenarioKinds[e[1]], e[2], FALSE)) \/ e[1] \in {"checkGas", "gasSchedule", "steps"}
  BY <1>1 DEF ScenarioKinds, Suits, AllKinds
<1>5. <<"checkGas", "false">> \in Range(ScenarioWritten)
  BY <1>0 DEF Range
<1>6. <<"gasSchedule", "original">> \in Range(ScenarioWritten)
  BY <1>0 DEF Range
<1>7. <<"steps", "always">> \in Range(ScenarioWritten)
  BY <1>0 DEF Range
<1> QED BY <1>2, <1>3, <1>4, <1>5, <1>6, <1>7 DEF TableFits

\* The tables of each step.
KindsOfExternalSteps == [comment |-> "text", path |-> "text", traceGas |-> "flag"]
WrittenOfExternalSteps ==
    << <<"comment", "original">>, <<"path", "always">> >>
KindsOfSetState == [comment |-> "text", id |-> "text", blockHashes |-> "bytesList"]
WrittenOfSetState ==
    << <<"id", "original">>, <<"comment", "original">>, <<"accounts", "nonempty">>
       , <<"newAddresses", "nonempty">>, <<"previousBlockInfo", "specified">>
       , <<"currentBlockInfo", "specified">>, <<"blockHashes", "nonempty">> >>
KindsOfCheckState == [comment |-> "text", id |-> "text"]
WrittenOfCheckState ==
    << <<"id", "original">>, <<"comment", "original">>, <<"accounts", "always">> >>
KindsOfDumpState == [comment |-> "text"]
WrittenOfDumpState ==
    << <<"comment", "original">> >>
KindsOfTxStep == [comment |-> "text", id |-> "text", displayLogs |-> "flag"]

\* External steps.
LEMMA ExternalStepsFits ==
    TableFits(KindsOfExternalSteps, WrittenOfExternalSteps, TRUE, {})
<1>0. /\ DOMAIN WrittenOfExternalSteps = 1..2
      /\ WrittenOfExternalSteps[1] = <<"comment", "original">>
         /\ WrittenOfExternalSteps[2] = <<"path", "always">>
  BY DEF WrittenOfExternalSteps
<1>1. ASSUME NEW e \in Range(WrittenOfExternalSteps)
      PROVE  e = <<"comment", "original">> \/ e = <<"path", "always">>
  BY <1>0 DEF Range
<1>2. WrittenOfExternalSteps \in Seq(Range(WrittenOfExternalSteps))
  <2>1. WrittenOfExternalSteps = [i \in 1..2 |-> WrittenOfExternalSteps[i]]
    BY DEF WrittenOfExternalSteps
  <2> QED BY <2>1, TableIsList
<1>3. Distinct(WrittenOfExternalSteps)
  BY <1>1 DEF Distinct
<1>4. ASSUME NEW e \in Range(WrittenOfExternalSteps)
      PROVE  (e[1] \in DOMAIN KindsOfExternalSteps /\ Suits(KindsOfExternalSteps[e[1]], e[2], TRUE)) \/ e[1] \in {}
  BY <1>1 DEF KindsOfExternalSteps, Suits, AllKinds
<1> QED BY <1>2, <1>3, <1>4 DEF TableFits

\* Steps that set the state.
LEMMA SetStateFits ==
    TableFits(KindsOfSetState, WrittenOfSetState, TRUE, {"accounts", "newAddresses", "previousBlockInfo", "currentBlockInfo"})
<1>0. /\ DOMAIN WrittenOfSetState = 1..7
      /\ WrittenOfSetState[1] = <<"id", "original">> /\ WrittenOfSetState[2] = <<"comment", "original">>
         /\ WrittenOfSetState[3] = <<"accounts", "nonempty">>
         /\ WrittenOfSetState[4] = <<"newAddresses", "nonempty">>
         /\ WrittenOfSetState[5] = <<"previousBlockInfo", "specified">>
         /\ WrittenOfSetState[6] = <<"currentBlockInfo", "specified">>
         /\ WrittenOfSetState[7] = <<"blockHashes", "nonempty">>
  BY DEF WrittenOfSetState
<1>1. ASSUME NEW e \in Range(WrittenOfSetState)
      PROVE  e = <<"id", "original">> \/ e = <<"comment", "original">> \/ e = <<"accounts", "nonempty">>
             \/ e = <<"newAddresses", "nonempty">> \/ e = <<"previousBlockInfo", "specified">>
             \/ e = <<"currentBlockInfo", "specified">> \/ e = <<"blockHashes", "nonempty">>
  BY <1>0 DEF Range
<1>2. WrittenOfSetState \in Seq(Range(WrittenOfSetState))
  <2>1. WrittenOfSetState = [i \in 1..7 |-> WrittenOfSetState[i]]
    BY DEF WrittenOfSetState
  <2> QED BY <2>1, TableIsList
<1>3. Distinct(WrittenOfSetState)
  BY <1>1 DEF Distinct
<1>4. ASSUME NEW e \in Range(WrittenOfSetState)
      PROVE  (e[1] \in DOMAIN KindsOfSetState /\ Suits(KindsOfSetState[e[1]], e[2], TRUE)) \/ e[1] \in {"accounts", "newAddresses", "previousBlockInfo", "currentBlockInfo"}
  BY <1>1 DEF KindsOfSetState, Suits, AllKinds
<1> QED BY <1>2, <1>3, <1>4 DEF TableFits

\* Steps that check it.
LEMMA CheckStateFits ==
    /\ TableFits(KindsOfCheckState, WrittenOfCheckState, TRUE, {"accounts"})
    /\ <<"accounts", "always">> \in Range(WrittenOfCheckState)
<1>0. /\ DOMAIN WrittenOfCheckState = 1..3
      /\ WrittenOfCheckState[1] = <<"id", "original">>
         /\ WrittenOfCheckState[2] = <<"comment", "original">>
         /\ WrittenOfCheckState[3] = <<"accounts", "always">>
  BY DEF WrittenOfCheckState
<1>1. ASSUME NEW e \in Range(WrittenOfCheckState)
      PROVE  e = <<"id", "original">> \/ e = <<"comment", "original">> \/ e = <<"accounts", "always">>
  BY <1>0 DEF Range
<1>2. WrittenOfCheckState \in Seq(Range(WrittenOfCheckState))
  <2>1. WrittenOfCheckState = [i \in 1..3 |-> WrittenOfCheckState[i]]
    BY DEF WrittenOfCheckState
  <2> QED BY <2>1, TableIsList
<1>3. Distinct(WrittenOfCheckState)
  BY <1>1 DEF Distinct
<1>4. ASSUME NEW e \in Range(WrittenOfCheckState)
      PROVE  (e[1] \in DOMAIN KindsOfCheckState /\ Suits(KindsOfCheckState[e[1]], e[2], TRUE)) \/ e[1] \in {"accounts"}
  BY <1>1 DEF KindsOfCheckState, Suits, AllKinds
<1>5. <<"accounts", "always">> \in Range(WrittenOfCheckState)
  BY <1>0 DEF Range
<1> QED BY <1>2, <1>3, <1>4, <1>5 DEF TableFits

\* Steps that dump it.
LEMMA DumpStateFits ==
    TableFits(KindsOfDumpState, WrittenOfDumpState, TRUE, {})
<1>0. /\ DOMAIN WrittenOfDumpState = 1..1
      /\ WrittenOfDumpState[1] = <<"comment", "original">>
  BY DEF WrittenOfDumpState
<1>1. ASSUME NEW e \in Range(WrittenOfDumpState)
      PROVE  e = <<"comment", "original">>
  BY <1>0 DEF Range
<1>2. WrittenOfDumpState \in Seq(Range(WrittenOfDumpState))
  <2>1. WrittenOfDumpState = [i \in 1..1 |-> WrittenOfDumpState[i]]
    BY DEF WrittenOfDumpState
  <2> QED BY <2>1, TableIsList
<1>3. Distinct(WrittenOfDumpState)
  BY <1>1 DEF Distinct
<1>4. ASSUME NEW e \in Range(WrittenOfDumpState)
      PROVE  (e[1] \in DOMAIN KindsOfDumpState /\ Suits(KindsOfDumpState[e[1]], e[2], TRUE)) \/ e[1] \in {}
  BY <1>1 DEF KindsOfDumpState, Suits, AllKinds
<1> QED BY <1>2, <1>3, <1>4 DEF TableFits

\* Steps with a transaction.
LEMMA TxStepFits ==
    /\ TableFits(KindsOfTxStep, TxStepWritten, TRUE, {"tx", "expect"})
    /\ <<"tx", "always">> \in Range(TxStepWritten)
    /\ <<"expect", "specified">> \in Range(TxStepWritten)
<1>0. /\ DOMAIN TxStepWritten = 1..5
      /\ TxStepWritten[1] = <<"id", "original">> /\ TxStepWritten[2] = <<"comment", "original">>
         /\ TxStepWritten[3] = <<"displayLogs", "true">> /\ TxStepWritten[4] = <<"tx", "always">>
         /\ TxStepWritten[5] = <<"expect", "specified">>
  BY DEF TxStepWritten
<1>1. ASSUME NEW e \in Range(TxStepWritten)
      PROVE  e = <<"id", "original">> \/ e = <<"comment", "original">> \/ e = <<"displayLogs", "true">>
             \/ e = <<"tx", "always">> \/ e = <<"expect", "specified">>
  BY <1>0 DEF Range
<1>2. TxStepWritten \in Seq(Range(TxStepWritten))
  <2>1. TxStepWritten = [i \in 1..5 |-> TxStepWritten[i]]
    BY DEF TxStepWritten
  <2> QED BY <2>1, TableIsList
<1>3. Distinct(TxStepWritten)
  BY <1>1 DEF Distinct
<1>4. ASSUME NEW e \in Range(TxStepWritten)
      PROVE  (e[1] \in DOMAIN KindsOfTxStep /\ Suits(KindsOfTxStep[e[1]], e[2], TRUE)) \/ e[1] \in {"tx", "expect"}
  BY <1>1 DEF KindsOfTxStep, Suits, AllKinds
<1>5. <<"tx", "always">> \in Range(TxStepWritten)
  BY <1>0 DEF Range
<1>6. <<"expect", "specified">> \in Range(TxStepWritten)
  BY <1>0 DEF Range
<1> QED BY <1>2, <1>3, <1>4, <1>5, <1>6 DEF TableFits

\* So the table of any step.
LEMMA StepFits ==
    ASSUME NEW type \in StepTypes
    PROVE  /\ TableFits(StepKinds(type), StepWritten(type), TRUE, StepObjects(type))
           /\ type = "checkState" => <<"accounts", "always">> \in Range(StepWritten(type))
           /\ type \in TxTypes => <<"tx", "always">> \in Range(StepWritten(type))
<1>0. \A s \in TxTypes : s \notin {"externalSteps", "setState", "checkState", "dumpState"}
  BY DEF TxTypes
<1>1. CASE type = "externalSteps"
  <2>1. /\ StepWritten(type) = WrittenOfExternalSteps /\ StepKinds(type) = KindsOfExternalSteps
        /\ StepObjects(type) = {}
    BY <1>1 DEF StepWritten, StepKinds, StepObjects, TxTypes, KindsOfExternalSteps, WrittenOfExternalSteps
  <2> QED BY <1>1, <2>1, <1>0, ExternalStepsFits
<1>2. CASE type = "setState"
  <2>1. /\ StepWritten(type) = WrittenOfSetState /\ StepKinds(type) = KindsOfSetState
        /\ StepObjects(type) = {"accounts", "newAddresses", "previousBlockInfo", "currentBlockInfo"}
    BY <1>2 DEF StepWritten, StepKinds, StepObjects, TxTypes, KindsOfSetState, WrittenOfSetState
  <2> QED BY <1>2, <2>1, <1>0, SetStateFits
<1>3. CASE type = "checkState"
  <2>1. /\ StepWritten(type) = WrittenOfCheckState /\ StepKinds(type) = KindsOfCheckState
        /\ StepObjects(type) = {"accounts"}
    BY <1>3 DEF StepWritten, StepKinds, StepObjects, TxTypes, KindsOfCheckState, WrittenOfCheckState
  <2> QED BY <1>3, <2>1, <1>0, CheckStateFits
<1>4. CASE type = "dumpState"
  <2>1. /\ StepWritten(type) = WrittenOfDumpState /\ StepKinds(type) = KindsOfDumpState
        /\ StepObjects(type) = {}
    BY <1>4 DEF StepWritten, StepKinds, StepObjects, TxTypes, KindsOfDumpState, WrittenOfDumpState
  <2> QED BY <1>4, <2>1, <1>0, DumpStateFits
<1>5. CASE type \in TxTypes
  <2>1. /\ StepWritten(type) = TxStepWritten /\ StepKinds(type) = KindsOfTxStep
        /\ StepObjects(type) = {"tx", "expect"}
    BY <1>5 DEF StepWritten, StepKinds, StepObjects, TxTypes, KindsOfTxStep
  <2> QED BY <1>5, <2>1, <1>0, TxStepFits
<1> QED BY <1>1, <1>2, <1>3, <1>4, <1>5 DEF StepTypes

----------------------------------------------------------------------------
(* Tokens *)

\* What two lists of members are together.
LEMMA KeysAfter ==
    ASSUME NEW a, a \in Seq(Range(a)), NEW b, b \in Seq(Range(b)), NEW k
    PROVE  /\ k \in Keys(Map(a \o b)) <=> k \in Keys(Map(a)) \/ k \in Keys(Map(b))
           /\ k \in Keys(Map(a \o b)) =>
                \/ \E i \in DOMAIN a : a[i][1] = k /\ At(Map(a \o b), k) = a[i][2]
                \/ \E i \in DOMAIN b : b[i][1] = k /\ At(Map(a \o b), k) = b[i][2]
<1> DEFINE all == a \o b
           n == CHOOSE i \in DOMAIN all : all[i][1] = k
<1>1. /\ DOMAIN a = 1..Len(a) /\ DOMAIN b = 1..Len(b) /\ Len(a) \in Nat /\ Len(b) \in Nat
      /\ DOMAIN all = 1..(Len(a) + Len(b))
      /\ \A i \in DOMAIN all : all[i] = IF i <= Len(a) THEN a[i] ELSE b[i - Len(a)]
  <2>1. /\ all \in Seq(Range(a) \union Range(b)) /\ Len(all) = Len(a) + Len(b)
        /\ \A i \in 1..Len(all) : all[i] = IF i <= Len(a) THEN a[i] ELSE b[i - Len(a)]
    BY ConcatProperties
  <2> HIDE DEF all
  <2> QED BY <2>1
<1>2. Keys(Map(all)) = {all[i][1] : i \in DOMAIN all} /\ At(Map(all), k) = all[n][2]
      /\ Keys(Map(a)) = {a[i][1] : i \in DOMAIN a} /\ Keys(Map(b)) = {b[i][1] : i \in DOMAIN b}
  BY DEF Keys, Map, At
<1>3. k \in Keys(Map(all)) => n \in DOMAIN all /\ all[n][1] = k
  <2> SUFFICES ASSUME \E i \in DOMAIN all : all[i][1] = k PROVE n \in DOMAIN all /\ all[n][1] = k
    BY <1>2
  <2> QED OBVIOUS
<1> HIDE DEF n, all
<1>4. \A i \in DOMAIN all : \/ i \in DOMAIN a /\ all[i] = a[i]
                            \/ i - Len(a) \in DOMAIN b /\ all[i] = b[i - Len(a)]
  BY <1>1
<1>5. \A i \in DOMAIN a : i \in DOMAIN all /\ all[i] = a[i]
  BY <1>1
<1>6. ASSUME NEW i \in DOMAIN b PROVE Len(a) + i \in DOMAIN all /\ all[Len(a) + i] = b[i]
  <2> DEFINE m == Len(a) + i
  <2>1. m \in DOMAIN all /\ ~(m <= Len(a)) /\ m - Len(a) = i
    BY <1>1
  <2> HIDE DEF m
  <2>2. all[m] = b[i]
    BY <1>1, <2>1
  <2> QED BY <2>1, <2>2 DEF m
<1>7. k \in Keys(Map(all)) <=> k \in Keys(Map(a)) \/ k \in Keys(Map(b))
  BY <1>2, <1>4, <1>5, <1>6
<1>8. k \in Keys(Map(all)) =>
         \/ \E i \in DOMAIN a : a[i][1] = k /\ At(Map(all), k) = a[i][2]
         \/ \E i \in DOMAIN b : b[i][1] = k /\ At(Map(all), k) = b[i][2]
  BY <1>2, <1>3, <1>4
<1> QED BY <1>7, <1>8 DEF all

\* The tables of a token in setState, and in checkState.
TokenTables(instanceKinds, tokenKinds, instanceWritten, check) ==
    \/ /\ instanceKinds = InstanceKinds /\ tokenKinds = TokenKinds
       /\ instanceWritten = InstanceWritten /\ check = FALSE
    \/ /\ instanceKinds = CheckInstanceKinds /\ tokenKinds = CheckTokenKinds
       /\ instanceWritten = CheckInstanceWritten /\ check = TRUE

\* The tables of tokens are, in accounts and in checks.
LEMMA TablesOfTokens ==
    ASSUME NEW ik, NEW tk, NEW iw, NEW check, TokenTables(ik, tk, iw, check)
    PROVE  /\ check \in BOOLEAN
           /\ TableFits(ik, iw, check, {}) /\ <<"nonce", "always">> \in Range(iw)
           /\ TableFits(tk, TokenWritten, FALSE, {})
           /\ DOMAIN ik = {"nonce", "balance", "creator", "royalties", "hash", "uri", "attributes"}
           /\ DOMAIN tk = {"lastNonce", "roles", "frozen"}
           /\ ik["balance"] \in {"bytes", "checkText"} /\ ik["nonce"] = "bytes"
           /\ tk["roles"] = "texts" /\ tk["frozen"] \in {"bytes", "checkText"}
<1>1. CASE ik = InstanceKinds /\ tk = TokenKinds /\ iw = InstanceWritten /\ check = FALSE
  <2>1. /\ DOMAIN ik = {"nonce", "balance", "creator", "royalties", "hash", "uri", "attributes"}
        /\ DOMAIN tk = {"lastNonce", "roles", "frozen"}
        /\ ik["balance"] = "bytes" /\ ik["nonce"] = "bytes" /\ tk["roles"] = "texts" /\ tk["frozen"] = "bytes"
    BY <1>1 DEF InstanceKinds, TokenKinds
  <2>2. /\ TableFits(ik, iw, check, {}) /\ <<"nonce", "always">> \in Range(iw)
        /\ TableFits(tk, TokenWritten, FALSE, {})
    BY <1>1, InstanceFits, TokenFits
  <2> QED BY <1>1, <2>1, <2>2
<1>2. CASE ik = CheckInstanceKinds /\ tk = CheckTokenKinds /\ iw = CheckInstanceWritten /\ check = TRUE
  <2>1. /\ DOMAIN ik = {"nonce", "balance", "creator", "royalties", "hash", "uri", "attributes"}
        /\ DOMAIN tk = {"lastNonce", "roles", "frozen"}
        /\ ik["balance"] = "checkText" /\ ik["nonce"] = "bytes" /\ tk["roles"] = "texts" /\ tk["frozen"] = "checkText"
    BY <1>2 DEF CheckInstanceKinds, CheckTokenKinds
  <2>2. /\ TableFits(ik, iw, check, {}) /\ <<"nonce", "always">> \in Range(iw)
        /\ TableFits(tk, TokenWritten, FALSE, {})
    BY <1>2, CheckInstanceFits, CheckTokenFits
  <2> QED BY <1>2, <2>1, <2>2
<1> QED BY <1>1, <1>2 DEF TokenTables

\* A balance that stands for a token stays one.
LEMMA BalanceAgain ==
    ASSUME NEW ik, NEW tk, NEW iw, NEW check, TokenTables(ik, tk, iw, check), NEW j, Is("str", j)
    PROVE  esdtItemToOJ(ParseToken(j, ik, tk, check), iw) = j
<1> DEFINE d == ParseToken(j, ik, tk, check)
           o == Map(<< <<"balance", j>> >>)
<1>1. d.instances = <<Fields(o, ik, FALSE)>> /\ d.token = Fields(NoFields, tk, FALSE)
  BY DEF ParseToken
<1>2. /\ "balance" \in Keys(o) /\ At(o, "balance") = j /\ "nonce" \notin Keys(o)
      /\ Keys(NoFields) = {}
  BY DEF Keys, At, Map, NoFields
<1> HIDE DEF o
<1>3. {"balance", "nonce"} \subseteq DOMAIN ik /\ ik["balance"] \in {"bytes", "checkText"} /\ ik["nonce"] = "bytes"
      /\ tk["roles"] = "texts" /\ tk["frozen"] \in {"bytes", "checkText"} /\ {"roles", "frozen"} \subseteq DOMAIN tk
  BY TablesOfTokens
<1>4. Fields(o, ik, FALSE)["nonce"].original = Str("") /\ Fields(o, ik, FALSE)["balance"].original = j
  BY <1>2, <1>3 DEF Fields, Missing, Parsed, Read
<1>5. Fields(NoFields, tk, FALSE)["roles"].value = <<>> /\ Fields(NoFields, tk, FALSE)["frozen"].original = Str("")
  BY <1>2, <1>3 DEF Fields, Missing
<1> HIDE DEF d
<1>6. Len(d.instances) = 1 /\ d.instances[1] = Fields(o, ik, FALSE)
  BY <1>1
<1>7. isCompactESDT(d)
  BY <1>1, <1>4, <1>5, <1>6 DEF isCompactESDT
<1> QED BY <1>4, <1>6, <1>7 DEF esdtItemToOJ, d

\* A balance that was read is text.
LEMMA BalanceIsText ==
    ASSUME NEW o, NEW ik, "balance" \in DOMAIN ik, ik["balance"] \in {"bytes", "checkText"}, NEW u,
           "balance" \in Keys(o) => Accepted(ik["balance"], At(o, "balance"))
    PROVE  Is("str", Fields(o, ik, u)["balance"].original)
<1>1. CASE "balance" \in Keys(o)
  <2> DEFINE j == At(o, "balance")
  <2>1. Fields(o, ik, u)["balance"].original = j
    BY <1>1 DEF Fields, Parsed, Read
  <2>2. Is("str", j)
    <3>1. Is("str", Star)
      BY DEF Is, Star, Str
    <3>2. j = Star \/ IsBytes(j)
      BY <1>1 DEF Accepted
    <3> QED BY <3>1, <3>2 DEF IsBytes
  <2> QED BY <2>1, <2>2
<1>2. CASE "balance" \notin Keys(o)
  <2>1. Fields(o, ik, u)["balance"].original = Str("")
    BY <1>2 DEF Fields, Missing
  <2> QED BY <2>1 DEF Is, Str
<1> QED BY <1>1, <1>2

\* The instances of a token that was read are those of the token, or the token itself.
LEMMA InstancesRead ==
    ASSUME NEW ik, NEW tk, NEW iw, NEW check, TokenTables(ik, tk, iw, check),
           NEW S, NEW j \in JsonOf(JsonOf(S)), TokenAccepted(j, ik, tk), ~Is("str", j)
    PROVE  LET d == ParseToken(j, ik, tk, check)
               Instances == {Fields(o, ik, check) : o \in {o \in JsonOf(JsonOf(S)) \union S :
                                "balance" \in Keys(o) => Accepted(ik["balance"], At(o, "balance"))}}
           IN  d.instances \in Seq(Instances) /\ d.token = Fields(j, tk, FALSE)
<1> DEFINE d == ParseToken(j, ik, tk, check)
           Fit == {o \in JsonOf(JsonOf(S)) \union S :
                        "balance" \in Keys(o) => Accepted(ik["balance"], At(o, "balance"))}
           Instances == {Fields(o, ik, check) : o \in Fit}
           l == InstancesOf(j)
           explicit == Each(l, LAMBDA i : Fields(i, ik, check))
           first == IF Keys(j) \intersect DOMAIN ik = {} THEN <<>> ELSE <<Fields(j, ik, check)>>
<1>0. "balance" \in DOMAIN ik
  BY TablesOfTokens
<1>1. /\ FieldsAccepted(j, With(ik, tk), {"instances"})
      /\ "instances" \in Keys(j) => Is("list", At(j, "instances"))
      /\ \A i \in DOMAIN l : FieldsAccepted(l[i], ik, {})
  BY DEF TokenAccepted
<1>2. d.instances = first \o explicit /\ d.token = Fields(j, tk, FALSE)
  BY DEF ParseToken
<1>3. l \in Seq(S)
  <2>1. CASE "instances" \in Keys(j)
    <3>1. Is("map", j)
      BY <1>1 DEF FieldsAccepted
    <3>2. At(j, "instances") \in JsonOf(S)
      BY <2>1, <3>1, JsonParts
    <3>3. At(j, "instances").list \in Seq(S)
      BY <1>1, <2>1, <3>2, JsonParts
    <3> QED BY <2>1, <3>3 DEF InstancesOf
  <2>2. CASE "instances" \notin Keys(j)
    <3>1. l = <<>>
      BY <2>2 DEF InstancesOf
    <3> HIDE DEF l
    <3> QED BY <3>1
  <2> QED BY <2>1, <2>2
<1>4. j \in Fit
  <2>1. "balance" \in DOMAIN With(ik, tk) /\ With(ik, tk)["balance"] = ik["balance"]
    BY <1>0 DEF With
  <2>2. "balance" \in Keys(j) => Accepted(ik["balance"], At(j, "balance"))
    BY <1>1, <2>1 DEF FieldsAccepted
  <2> QED BY <2>2
<1>5. first \in Seq(Instances)
  <2>1. Fields(j, ik, check) \in Instances
    BY <1>4
  <2> HIDE DEF Instances, Fit
  <2> QED BY <2>1
<1>6. explicit \in Seq(Instances)
  <2>1. ASSUME NEW i \in DOMAIN l PROVE Fields(l[i], ik, check) \in Instances
    <3>1. l[i] \in S
      BY <1>3
    <3>2. "balance" \in Keys(l[i]) => Accepted(ik["balance"], At(l[i], "balance"))
      BY <1>0, <1>1 DEF FieldsAccepted
    <3> QED BY <3>1, <3>2
  <2>2. explicit = [i \in DOMAIN l |-> Fields(l[i], ik, check)]
    BY DEF Each
  <2> HIDE DEF l, Instances, explicit
  <2>3. \A i \in DOMAIN l : explicit[i] \in Instances
    BY <2>1, <2>2
  <2> QED BY <1>3, <2>2, <2>3, MappedInto
<1> HIDE DEF first, explicit, Instances, d
<1>7. d.instances \in Seq(Instances)
  BY <1>2, <1>5, <1>6, ConcatProperties
<1> QED BY <1>2, <1>7 DEF Instances, d

\* A token that was written is written again as it is.
LEMMA TokenAgain ==
    ASSUME NEW ik, NEW tk, NEW iw, NEW check, TokenTables(ik, tk, iw, check),
           NEW S, NEW j \in JsonOf(JsonOf(S)), TokenAccepted(j, ik, tk)
    PROVE  LET w == esdtItemToOJ(ParseToken(j, ik, tk, check), iw)
           IN  esdtItemToOJ(ParseToken(w, ik, tk, check), iw) = w
<1> DEFINE d == ParseToken(j, ik, tk, check)
           w == esdtItemToOJ(d, iw)
           Fit == {o \in JsonOf(JsonOf(S)) \union S :
                        "balance" \in Keys(o) => Accepted(ik["balance"], At(o, "balance"))}
           Instances == {Fields(o, ik, check) : o \in Fit}
<1>0. /\ check \in BOOLEAN
      /\ TableFits(ik, iw, check, {}) /\ <<"nonce", "always">> \in Range(iw)
      /\ TableFits(tk, TokenWritten, FALSE, {})
      /\ DOMAIN ik = {"nonce", "balance", "creator", "royalties", "hash", "uri", "attributes"}
      /\ DOMAIN tk = {"lastNonce", "roles", "frozen"}
      /\ ik["balance"] \in {"bytes", "checkText"} /\ ik["nonce"] = "bytes"
      /\ tk["roles"] = "texts" /\ tk["frozen"] \in {"bytes", "checkText"}
  BY TablesOfTokens
<1>1. CASE Is("str", j)
  <2>1. w = j
    BY <1>1, BalanceAgain
  <2> QED BY <1>1, <2>1, BalanceAgain
<1>2. CASE ~Is("str", j)
  <2>1. d.instances \in Seq(Instances) /\ d.token = Fields(j, tk, FALSE)
    BY <1>2, InstancesRead
  <2>2. CASE isCompactESDT(d)
    <3>1. w = d.instances[1].balance.original
      BY <2>2 DEF esdtItemToOJ
    <3> HIDE DEF d, w
    <3>2. d.instances[1] \in Instances
      <4>1. 1 \in DOMAIN d.instances
        <5>1. Len(d.instances) = 1
          BY <2>2 DEF isCompactESDT
        <5> HIDE DEF Instances
        <5> QED BY <2>1, <5>1
      <4> HIDE DEF Instances
      <4> QED BY <2>1, <4>1
    <3>3. PICK o \in Fit : d.instances[1] = Fields(o, ik, check)
      BY <3>2
    <3>4. Is("str", w)
      BY <1>0, <3>1, <3>3, BalanceIsText
    <3> QED BY <3>4, BalanceAgain DEF w, d
  <2>3. CASE ~isCompactESDT(d)
    <3> DEFINE L == Each(d.instances, LAMBDA i : Map(WriteFields(i, iw)))
               before == WhenAny("instances", L)
               tail == WriteFields(d.token, TokenWritten)
               e == ParseToken(w, ik, tk, check)
    <3>1. w = Map(before \o tail)
      BY <2>3 DEF esdtItemToOJ
    <3>2. DOMAIN L = DOMAIN d.instances /\ \A i \in DOMAIN d.instances : L[i] = Map(WriteFields(d.instances[i], iw))
      BY DEF Each
    <3>2a. L \in Seq(Range(L)) /\ Len(L) = Len(d.instances)
      <4>1. L = [i \in DOMAIN d.instances |-> L[i]]
        BY DEF Each
      <4> HIDE DEF L, d, Instances
      <4>2. L \in Seq(Range(L))
        BY <2>1, <4>1, MappedList
      <4> QED BY <2>1, <3>2, <4>2
    <3> HIDE DEF d, L, Instances
    <3>3. /\ before \in Seq(Range(before))
          /\ \A i \in DOMAIN before : before[i][1] = "instances" /\ before[i][2] = List(L)
          /\ L # <<>> => "instances" \in Keys(Map(before))
          /\ L = <<>> => "instances" \notin Keys(Map(before))
      <4>1. CASE L = <<>>
        <5>1. before = <<>>
          BY <4>1 DEF WhenAny
        <5> HIDE DEF before
        <5> QED BY <4>1, <5>1 DEF Keys, Map
      <4>2. CASE L # <<>>
        <5>1. before = << <<"instances", List(L)>> >>
          BY <4>2 DEF WhenAny
        <5> HIDE DEF before
        <5> QED BY <4>2, <5>1 DEF Keys, Map, Range
      <4> QED BY <4>1, <4>2
    <3>4. /\ TokenWritten \in Seq(Range(TokenWritten)) /\ Distinct(TokenWritten)
          /\ \A x \in Range(TokenWritten) : x[1] \in DOMAIN tk
      BY <1>0 DEF TableFits
    <3>5. /\ tail \in Seq(Range(tail))
          /\ \A i \in DOMAIN tail : tail[i][1] \in DOMAIN tk
      BY <3>4, WrittenKeys
    <3> HIDE DEF before, tail
    <3>6. \A k \in Keys(w) : k = "instances" \/ k \in DOMAIN tk
      <4>1. ASSUME NEW k \in Keys(w) PROVE k = "instances" \/ k \in DOMAIN tk
        <5>1. k \in Keys(Map(before)) \/ k \in Keys(Map(tail))
          BY <3>1, <3>3, <3>5, KeysAfter
        <5> QED BY <3>3, <3>5, <5>1 DEF Keys, Map
      <4> QED BY <4>1
    <3>7. InstancesOf(w) = L
      <4>1. "instances" \in Keys(w) <=> L # <<>>
        <5>1. "instances" \notin Keys(Map(tail))
          BY <1>0, <3>5 DEF Keys, Map
        <5> QED BY <3>1, <3>3, <3>5, <5>1, KeysAfter
      <4>2. CASE L = <<>>
        BY <4>1, <4>2 DEF InstancesOf
      <4>3. CASE L # <<>>
        <5>1. \A i \in DOMAIN tail : tail[i][1] # "instances"
          BY <1>0, <3>5
        <5>2. At(w, "instances") = List(L)
          BY <3>1, <3>3, <3>5, <4>1, <4>3, <5>1, KeysAfter
        <5> QED BY <4>1, <4>3, <5>2 DEF InstancesOf, List
      <4> QED BY <4>2, <4>3
    <3>8. ~Is("str", w) /\ Keys(w) \intersect DOMAIN ik = {}
      <4>1. ~Is("str", w)
        BY <3>1 DEF Is, Map
      <4> QED BY <1>0, <3>6, <4>1
    <3>9. /\ e.instances = <<>> \o Each(L, LAMBDA i : Fields(i, ik, check))
          /\ e.token = Fields(w, tk, FALSE)
      BY <3>7, <3>8 DEF ParseToken
    <3> DEFINE again == [i \in DOMAIN L |-> Fields(L[i], ik, check)]
    <3>10. again \in Seq(Range(again)) /\ Len(again) = Len(L)
      <4>1. again = [i \in DOMAIN L |-> again[i]] /\ DOMAIN again = DOMAIN L
        OBVIOUS
      <4> HIDE DEF again
      <4>2. again \in Seq(Range(again))
        BY <3>2a, <4>1, MappedList
      <4> QED BY <3>2a, <4>1, <4>2
    <3>11. e.instances = again /\ Len(again) = Len(d.instances)
      <4>1. Each(L, LAMBDA i : Fields(i, ik, check)) = again
        BY DEF Each
      <4> HIDE DEF again, e
      <4> QED BY <3>2a, <3>9, <3>10, <4>1, ConcatEmptySeq
    <3> HIDE DEF e, w
    <3>12. Holds(w, d.token, TokenWritten)
      <4>1. \A i \in DOMAIN before : \A x \in Range(TokenWritten) : before[i][1] # x[1]
        BY <1>0, <3>3, <3>4
      <4> QED BY <3>1, <3>3, <3>4, <4>1, WrittenHolds DEF tail
    <3>13. WriteFields(e.token, TokenWritten) = tail
      <4>1. Holds(w, Fields(j, tk, FALSE), TokenWritten)
        BY <2>1, <3>12
      <4>2. WriteFields(Fields(w, tk, FALSE), TokenWritten) = WriteFields(Fields(j, tk, FALSE), TokenWritten)
        <5>1. ASSUME NEW u \in BOOLEAN, u = FALSE
              PROVE  WriteFields(Fields(w, tk, u), TokenWritten) = WriteFields(Fields(j, tk, u), TokenWritten)
          <6>1. TableFits(tk, TokenWritten, u, {}) /\ Holds(w, Fields(j, tk, u), TokenWritten)
            BY <1>0, <4>1, <5>1
          <6> QED BY <6>1, FieldsWritten
        <5> QED BY <5>1
      <4> QED BY <2>1, <3>9, <4>2 DEF tail
    <3>14. ASSUME NEW i \in DOMAIN L
           PROVE  /\ Map(WriteFields(again[i], iw)) = L[i]
                  /\ again[i].nonce.original = d.instances[i].nonce.original
      <4>1. d.instances[i] \in Instances
        BY <2>1, <3>2
      <4>2. PICK o \in Fit : d.instances[i] = Fields(o, ik, check)
        BY <4>1 DEF Instances
      <4> DEFINE f == Fields(o, ik, check)
                 p == Map(WriteFields(f, iw))
      <4>3. L[i] = p /\ again[i] = Fields(p, ik, check)
        BY <3>2, <4>2
      <4>4. WriteFields(Fields(p, ik, check), iw) = WriteFields(f, iw)
        BY <1>0, FieldsAreAll
      <4>5. Holds(p, f, iw)
        BY <1>0, WrittenHolds DEF TableFits
      <4> HIDE DEF p, f, again
      <4>6. Alike("always", f["nonce"], Fields(p, ik, check)["nonce"])
        <5> DEFINE x == <<"nonce", "always">>
        <5>1. x[1] = "nonce" /\ x[2] = "always" /\ x \in Range(iw) /\ Suits(ik["nonce"], "always", check) /\ "nonce" \in DOMAIN ik
          BY <1>0 DEF Suits, AllKinds
        <5> HIDE DEF x
        <5> QED BY <1>0, <4>5, <5>1, FieldsAgain DEF f
      <4>7. WrittenIf("always", f["nonce"])
        BY DEF WrittenIf
      <4> QED BY <4>2, <4>3, <4>4, <4>6, <4>7 DEF Alike, p, f
    <3>15. ~isCompactESDT(e)
      <4>1. Alike("nonempty", d.token["roles"], e.token["roles"])
        <5> DEFINE x == <<"roles", "nonempty">>
        <5>1. x[1] = "roles" /\ x[2] = "nonempty" /\ x \in Range(TokenWritten)
          BY TokenFits
        <5> HIDE DEF x
        <5>2. Suits(tk["roles"], "nonempty", FALSE) /\ "roles" \in DOMAIN tk
          BY <1>0 DEF Suits, AllKinds
        <5> QED BY <2>1, <3>9, <3>12, <5>1, <5>2, FieldsAgain
      <4>2. Alike("original", d.token["frozen"], e.token["frozen"])
        <5> DEFINE x == <<"frozen", "original">>
        <5>1. x[1] = "frozen" /\ x[2] = "original" /\ x \in Range(TokenWritten)
          BY TokenFits
        <5> HIDE DEF x
        <5>2. Suits(tk["frozen"], "original", FALSE) /\ "frozen" \in DOMAIN tk
          BY <1>0 DEF Suits, AllKinds
        <5> QED BY <2>1, <3>9, <3>12, <5>1, <5>2, FieldsAgain
      <4>3. d.token["roles"].value = <<>> <=> e.token["roles"].value = <<>>
        BY <4>1 DEF Alike, WrittenIf
      <4>4. d.token["frozen"].original = Str("") <=> e.token["frozen"].original = Str("")
        BY <4>2 DEF Alike, WrittenIf
      <4>5. Len(d.instances) = 1 => e.instances[1].nonce.original = d.instances[1].nonce.original
        <5> HAVE Len(d.instances) = 1
        <5>1. 1 \in DOMAIN L
          BY <3>2a
        <5> QED BY <3>11, <3>14, <5>1
      <4> HIDE DEF again
      <4> QED BY <2>3, <3>11, <4>3, <4>4, <4>5 DEF isCompactESDT
    <3>16. Each(e.instances, LAMBDA i : Map(WriteFields(i, iw))) = L
      <4>1. Each(e.instances, LAMBDA i : Map(WriteFields(i, iw))) = [i \in DOMAIN again |-> Map(WriteFields(again[i], iw))]
        BY <3>11 DEF Each
      <4>2. [i \in DOMAIN again |-> Map(WriteFields(again[i], iw))] = [i \in DOMAIN L |-> L[i]]
        BY <3>14
      <4>3. [i \in DOMAIN L |-> L[i]] = L
        BY <3>2a
      <4> QED BY <4>1, <4>2, <4>3
    <3>17. esdtItemToOJ(e, iw) = Map(before \o tail)
      BY <3>13, <3>15, <3>16 DEF esdtItemToOJ, before
    <3> QED BY <3>1, <3>17 DEF e, w, d
  <2> QED BY <2>2, <2>3
<1> QED BY <1>1, <1>2

----------------------------------------------------------------------------
(* Accounts *)

\* The tokens of an account, and the entries of its storage, as they are written.
WrittenTokens(tokens, iw) == [i \in DOMAIN tokens |-> <<tokens[i][1], esdtItemToOJ(tokens[i][2], iw)>>]
WrittenValues(entries) == [i \in DOMAIN entries |-> <<entries[i][1], entries[i][2].original>>]

\* They are written again as they are.
LEMMA TokensAgain ==
    ASSUME NEW ik, NEW tk, NEW iw, NEW check, TokenTables(ik, tk, iw, check), NEW S, NEW m,
           \A i \in DOMAIN m.map : m.map[i][2] \in JsonOf(JsonOf(S)) /\ TokenAccepted(m.map[i][2], ik, tk)
    PROVE  LET w == WrittenTokens(Tokens(m, ik, tk, check), iw)
           IN  WrittenTokens(Tokens(Map(w), ik, tk, check), iw) = w
<1> DEFINE token(i) == esdtItemToOJ(ParseToken(m.map[i][2], ik, tk, check), iw)
           w == WrittenTokens(Tokens(m, ik, tk, check), iw)
<1>1. w = [i \in DOMAIN m.map |-> <<m.map[i][1], token(i)>>]
  BY DEF WrittenTokens, Tokens, Pairs
<1> HIDE DEF w
<1>2. WrittenTokens(Tokens(Map(w), ik, tk, check), iw)
          = [i \in DOMAIN w |-> <<w[i][1], esdtItemToOJ(ParseToken(w[i][2], ik, tk, check), iw)>>]
  BY DEF WrittenTokens, Tokens, Pairs, Map
<1>3. ASSUME NEW i \in DOMAIN m.map
      PROVE  w[i][1] = m.map[i][1] /\ esdtItemToOJ(ParseToken(w[i][2], ik, tk, check), iw) = token(i)
  <2>1. w[i][1] = m.map[i][1] /\ w[i][2] = token(i)
    <3> HIDE DEF token
    <3> QED BY <1>1
  <2>2. esdtItemToOJ(ParseToken(token(i), ik, tk, check), iw) = token(i)
    BY TokenAgain
  <2> QED BY <2>1, <2>2
<1> HIDE DEF token
<1>4. DOMAIN w = DOMAIN m.map
  BY <1>1
<1> QED BY <1>1, <1>2, <1>3, <1>4 DEF w

\* So are the entries of a storage.
LEMMA ValuesAgain ==
    ASSUME NEW kind \in AllKinds, NEW m
    PROVE  LET w == WrittenValues(Pairs(m, LAMBDA j : Parsed(kind, j)))
           IN  WrittenValues(Pairs(Map(w), LAMBDA j : Parsed(kind, j))) = w
<1> DEFINE original(i) == Parsed(kind, m.map[i][2]).original
           w == WrittenValues(Pairs(m, LAMBDA j : Parsed(kind, j)))
<1>1. w = [i \in DOMAIN m.map |-> <<m.map[i][1], original(i)>>]
  BY DEF WrittenValues, Pairs
<1> HIDE DEF w
<1>2. WrittenValues(Pairs(Map(w), LAMBDA j : Parsed(kind, j)))
          = [i \in DOMAIN w |-> <<w[i][1], Parsed(kind, w[i][2]).original>>]
  BY DEF WrittenValues, Pairs, Map
<1>3. ASSUME NEW i \in DOMAIN m.map
      PROVE  w[i][1] = m.map[i][1] /\ Parsed(kind, w[i][2]).original = original(i)
  <2>1. w[i][1] = m.map[i][1] /\ w[i][2] = original(i)
    <3> HIDE DEF original
    <3> QED BY <1>1
  <2>2. Parsed(kind, original(i)) = Parsed(kind, m.map[i][2])
    BY ParsedAgain
  <2> QED BY <2>1, <2>2
<1> HIDE DEF original
<1>4. DOMAIN w = DOMAIN m.map
  BY <1>1
<1> QED BY <1>1, <1>2, <1>3, <1>4 DEF w

\* A member that is written if it has something is missed as nothing.
LEMMA MemberAgain ==
    ASSUME NEW w, NEW k, NEW kvs, k \in Keys(w) <=> kvs # <<>>, k \in Keys(w) => At(w, k) = Map(kvs)
    PROVE  Member(w, k) = Map(kvs)
BY DEF Member, NoFields

\* An account that was written is written again as it is.
LEMMA AccountAgain ==
    ASSUME NEW S, NEW o \in JsonOf(JsonOf(JsonOf(JsonOf(S)))), AccountAccepted(o)
    PROVE  LET w == AccountToOJ(processAccount(o)) IN AccountToOJ(processAccount(w)) = w
<1> DEFINE a == processAccount(o)
           esdt == WrittenTokens(Tokens(Member(o, "esdt"), InstanceKinds, TokenKinds, FALSE), InstanceWritten)
           storage == WrittenValues(Pairs(Member(o, "storage"), LAMBDA j : Parsed("tree", j)))
           fields == With(Fields(o, AccountKinds, TRUE), [esdt |-> Nested(esdt), storage |-> Nested(storage)])
           w == Map(WriteFields(fields, AccountWritten))
           esdt2 == WrittenTokens(Tokens(Member(w, "esdt"), InstanceKinds, TokenKinds, FALSE), InstanceWritten)
           storage2 == WrittenValues(Pairs(Member(w, "storage"), LAMBDA j : Parsed("tree", j)))
           fields2 == With(Fields(w, AccountKinds, TRUE), [esdt |-> Nested(esdt2), storage |-> Nested(storage2)])
<1>1. AccountToOJ(processAccount(o)) = w
  BY DEF processAccount, AccountToOJ, WrittenTokens, WrittenValues
<1> HIDE DEF w
<1>2. AccountToOJ(processAccount(w)) = Map(WriteFields(fields2, AccountWritten))
  BY DEF processAccount, AccountToOJ, WrittenTokens, WrittenValues
<1> HIDE DEF esdt, storage, esdt2, storage2
<1>3. /\ fields["esdt"] = Nested(esdt) /\ fields["storage"] = Nested(storage)
      /\ fields2["esdt"] = Nested(esdt2) /\ fields2["storage"] = Nested(storage2)
      /\ \A k \in DOMAIN AccountKinds : /\ fields[k] = Fields(o, AccountKinds, TRUE)[k]
                                        /\ fields2[k] = Fields(w, AccountKinds, TRUE)[k]
  <2>1. "esdt" \notin DOMAIN AccountKinds /\ "storage" \notin DOMAIN AccountKinds
    BY DEF AccountKinds
  <2>2. DOMAIN Fields(o, AccountKinds, TRUE) = DOMAIN AccountKinds /\ DOMAIN Fields(w, AccountKinds, TRUE) = DOMAIN AccountKinds
    BY DEF Fields
  <2> QED BY <2>1, <2>2 DEF With
<1>4. /\ AccountWritten \in Seq(Range(AccountWritten)) /\ Distinct(AccountWritten)
      /\ TableFits(AccountKinds, AccountWritten, TRUE, {"esdt", "storage"})
  BY AccountFits DEF TableFits
<1> HIDE DEF fields, fields2
<1>5. Holds(w, fields, AccountWritten)
  BY <1>4, WrittenHolds DEF w
<1>6. /\ "esdt" \in Keys(w) <=> esdt # <<>>
      /\ "esdt" \in Keys(w) => At(w, "esdt") = Map(esdt)
  <2> DEFINE x == <<"esdt", "nonempty">>
  <2>1. x[1] = "esdt" /\ x[2] = "nonempty" /\ x \in Range(AccountWritten)
    BY AccountFits
  <2> HIDE DEF x
  <2>2. Nested(esdt).value = esdt /\ Nested(esdt).original = Map(esdt)
    BY DEF Nested, Read
  <2>3. WrittenIf("nonempty", fields["esdt"]) <=> esdt # <<>>
    BY <1>3, <2>2 DEF WrittenIf
  <2>4. /\ "esdt" \in Keys(w) <=> WrittenIf("nonempty", fields["esdt"])
        /\ "esdt" \in Keys(w) => At(w, "esdt") = fields["esdt"].original
    BY <1>5, <2>1 DEF Holds
  <2> QED BY <1>3, <2>2, <2>3, <2>4
<1>7. /\ "storage" \in Keys(w) <=> storage # <<>>
      /\ "storage" \in Keys(w) => At(w, "storage") = Map(storage)
  <2> DEFINE x == <<"storage", "nonempty">>
  <2>1. x[1] = "storage" /\ x[2] = "nonempty" /\ x \in Range(AccountWritten)
    BY AccountFits
  <2> HIDE DEF x
  <2>2. Nested(storage).value = storage /\ Nested(storage).original = Map(storage)
    BY DEF Nested, Read
  <2>3. WrittenIf("nonempty", fields["storage"]) <=> storage # <<>>
    BY <1>3, <2>2 DEF WrittenIf
  <2>4. /\ "storage" \in Keys(w) <=> WrittenIf("nonempty", fields["storage"])
        /\ "storage" \in Keys(w) => At(w, "storage") = fields["storage"].original
    BY <1>5, <2>1 DEF Holds
  <2> QED BY <1>3, <2>2, <2>3, <2>4
<1>8. esdt2 = esdt
  <2> DEFINE m == Member(o, "esdt")
  <2>1. Member(w, "esdt") = Map(esdt)
    BY <1>6, MemberAgain
  <2>2. ASSUME NEW i \in DOMAIN m.map
        PROVE  m.map[i][2] \in JsonOf(JsonOf(S)) /\ TokenAccepted(m.map[i][2], InstanceKinds, TokenKinds)
    <3>1. Is("map", m) /\ TokenAccepted(m.map[i][2], InstanceKinds, TokenKinds)
      BY DEF AccountAccepted, TokensAccepted
    <3>2. "esdt" \in Keys(o)
      <4> SUFFICES ASSUME "esdt" \notin Keys(o) PROVE FALSE
        OBVIOUS
      <4> QED BY DEF Member, NoFields, Map
    <3>3. m = At(o, "esdt") /\ Is("map", o)
      BY <3>2 DEF Member, AccountAccepted, FieldsAccepted
    <3>4. m \in JsonOf(JsonOf(JsonOf(S)))
      BY <3>2, <3>3, JsonParts
    <3> HIDE DEF m
    <3>5. m.map \in Seq(STRING \X JsonOf(JsonOf(S)))
      BY <3>1, <3>4, JsonParts
    <3>6. m.map[i] \in STRING \X JsonOf(JsonOf(S))
      BY <3>5
    <3> QED BY <3>1, <3>6
  <2>3. TokenTables(InstanceKinds, TokenKinds, InstanceWritten, FALSE)
    BY DEF TokenTables
  <2> HIDE DEF m
  <2>4. WrittenTokens(Tokens(Map(esdt), InstanceKinds, TokenKinds, FALSE), InstanceWritten) = esdt
    BY <2>2, <2>3, TokensAgain DEF esdt, m
  <2> QED BY <2>1, <2>4 DEF esdt2
<1>9. storage2 = storage
  <2>1. Member(w, "storage") = Map(storage)
    BY <1>7, MemberAgain
  <2>2. "tree" \in AllKinds
    BY DEF AllKinds
  <2>3. WrittenValues(Pairs(Map(storage), LAMBDA j : Parsed("tree", j))) = storage
    BY <2>2, ValuesAgain DEF storage
  <2> QED BY <2>1, <2>3 DEF storage2
<1>10. ASSUME NEW u \in BOOLEAN, u = TRUE
       PROVE  WriteFields(fields2, AccountWritten) = WriteFields(fields, AccountWritten)
  <2> DEFINE others == {"esdt", "storage"}
  <2>1. ASSUME NEW e \in Range(AccountWritten)
        PROVE  IF e[1] \in others THEN Alike(e[2], fields[e[1]], fields2[e[1]])
               ELSE fields[e[1]] = Fields(o, AccountKinds, u)[e[1]] /\ fields2[e[1]] = Fields(w, AccountKinds, u)[e[1]]
    <3>1. CASE e[1] \in others
      <4>1. fields[e[1]] = fields2[e[1]]
        BY <1>3, <1>8, <1>9, <3>1
      <4> QED BY <3>1, <4>1 DEF Alike
    <3>2. CASE e[1] \notin others
      <4>1. e[1] \in DOMAIN AccountKinds
        BY <1>4, <3>2 DEF TableFits
      <4> QED BY <1>3, <1>10, <3>2, <4>1
    <3> QED BY <3>1, <3>2
  <2>2. TableFits(AccountKinds, AccountWritten, u, others)
    BY <1>4, <1>10
  <2> HIDE DEF others
  <2> QED BY <1>5, <2>1, <2>2, ObjectAgain
<1>11. Map(WriteFields(fields2, AccountWritten)) = w
  BY <1>10 DEF w
<1> QED BY <1>1, <1>2, <1>11

\* What is kept of members without "+".
LEMMA PlusKept ==
    ASSUME NEW V, NEW l \in Seq(V)
    PROVE  Kept(l, NotPlus) \in Seq({x \in V : NotPlus(x)})
<1> DEFINE S == {x \in V : NotPlus(x)}
           parts == [i \in DOMAIN l |-> IF NotPlus(l[i]) THEN <<l[i]>> ELSE <<>>]
<1>1. ASSUME NEW i \in DOMAIN l, NotPlus(l[i]) PROVE l[i] \in S
  BY <1>1
<1>2. \A i \in DOMAIN l : parts[i] \in Seq(S)
  <2> HIDE DEF S
  <2> QED BY <1>1
<1>3. parts = [i \in DOMAIN l |-> parts[i]]
  OBVIOUS
<1>4. Kept(l, NotPlus) = FlattenSeq(parts)
  BY DEF Kept, Each
<1> HIDE DEF S, parts
<1>5. parts \in Seq(Seq(S))
  BY <1>2, <1>3, MappedInto
<1>6. FlattenSeq(parts) \in Seq(S)
  BY <1>5, FlattenType
<1> QED BY <1>4, <1>6 DEF S

\* Members with "+" after them are read as these members, and more.
LEMMA PlusAgain ==
    ASSUME NEW V, NEW t \in Seq(V), \A i \in DOMAIN t : t[i][1] # "+", NEW more \in BOOLEAN,
           NEW m, m = Map(t \o Plus(more))
    PROVE  /\ WithoutPlus(m) = Map(t) /\ ("+" \in Keys(m) <=> more)
           /\ ~Starred(m) /\ Listing(m) = Map(t) /\ MoreAllowed(m) = more
<1> DEFINE plus == Plus(more)
           all == t \o plus
           parts == [i \in DOMAIN all |-> IF NotPlus(all[i]) THEN <<all[i]>> ELSE <<>>]
           W == V \union {<<"+", Str("")>>}
<1>0. t \in Seq(W) /\ Len(t) \in Nat /\ DOMAIN t = 1..Len(t)
  <2>1. V \subseteq W
    OBVIOUS
  <2> HIDE DEF W
  <2> QED BY <2>1
<1> DEFINE x == <<"+", Str("")>>
<1>0a. x \in W /\ x[1] = "+" /\ (more => plus = <<x>>) /\ (~more => plus = <<>>)
  BY DEF Plus
<1> HIDE DEF plus, W, x
<1>1. /\ plus \in Seq(W) /\ Len(plus) \in Nat /\ DOMAIN plus = 1..Len(plus)
      /\ \A i \in DOMAIN plus : plus[i][1] = "+"
      /\ 1 \in DOMAIN plus <=> more
  <2>1. CASE more
    <3>1. plus = <<x>>
      BY <1>0a, <2>1
    <3> QED BY <1>0a, <2>1, <3>1
  <2>2. CASE ~more
    <3>1. plus = <<>>
      BY <1>0a, <2>2
    <3> QED BY <2>2, <3>1
  <2> QED BY <2>1, <2>2
<1>2. /\ all \in Seq(W) /\ Len(all) = Len(t) + Len(plus) /\ Len(plus) \in Nat
      /\ \A i \in 1..Len(all) : all[i] = IF i <= Len(t) THEN t[i] ELSE plus[i - Len(t)]
  <2>1. Len(plus) \in Nat /\ plus \in Seq(W) /\ t \in Seq(W)
    BY <1>0, <1>1
  <2> HIDE DEF all
  <2>2. /\ t \o plus \in Seq(W) /\ Len(t \o plus) = Len(t) + Len(plus)
        /\ \A i \in 1..Len(t) + Len(plus) : (t \o plus)[i] = IF i <= Len(t) THEN t[i] ELSE plus[i - Len(t)]
    BY <2>1, ConcatProperties
  <2> QED BY <2>1, <2>2 DEF all
<1>3. m.map = all
  BY DEF Map, plus
<1> HIDE DEF all
<1>4. DOMAIN all = 1..Len(all) /\ Len(all) \in Nat /\ Len(t) <= Len(all) /\ DOMAIN plus = 1..Len(plus)
  <2>1. DOMAIN all = 1..Len(all) /\ Len(all) \in Nat
    BY <1>2
  <2>2. DOMAIN plus = 1..Len(plus)
    BY <1>1
  <2>3. Len(t) <= Len(all)
    BY <1>0, <1>2
  <2> QED BY <2>1, <2>2, <2>3
<1>5. ASSUME NEW i \in 1..Len(all)
      PROVE  IF i <= Len(t) THEN all[i] = t[i] /\ all[i][1] # "+" ELSE all[i][1] = "+" /\ 1 \in DOMAIN plus
  <2>1. CASE i <= Len(t)
    <3>1. i \in DOMAIN t
      BY <1>0, <2>1
    <3> QED BY <1>2, <2>1, <3>1
  <2>2. CASE ~(i <= Len(t))
    <3>1. i - Len(t) \in DOMAIN plus
      BY <1>0, <1>2, <1>4, <2>2
    <3>2. 1 \in DOMAIN plus
      BY <1>4, <3>1
    <3> QED BY <1>1, <1>2, <2>2, <3>1, <3>2
  <2> QED BY <2>1, <2>2
<1>6. parts = [i \in 1..Len(all) |-> IF i <= Len(t) THEN <<t[i]>> ELSE <<>>]
  BY <1>4, <1>5 DEF NotPlus
<1>7. Kept(all, NotPlus) = FlattenSeq(parts)
  BY DEF Kept, Each
<1> HIDE DEF parts
<1>8. FlattenSeq(parts) = t
  BY <1>4, <1>6, FlattenFront
<1>9. WithoutPlus(m) = Map(t)
  BY <1>3, <1>7, <1>8 DEF WithoutPlus
<1>10. "+" \in Keys(m) <=> more
  <2>1. ASSUME "+" \in Keys(m) PROVE more
    <3>1. PICK i \in DOMAIN all : all[i][1] = "+"
      BY <1>3, <2>1 DEF Keys
    <3> QED BY <1>1, <1>4, <1>5, <3>1
  <2>2. ASSUME more PROVE "+" \in Keys(m)
    <3> DEFINE n == Len(t) + 1
    <3>1. n \in 1..Len(all) /\ ~(n <= Len(t))
      <4>1. 1 \in 1..Len(plus)
        BY <1>1, <1>4, <2>2
      <4> QED BY <1>0, <1>2, <4>1
    <3> HIDE DEF n
    <3>2. n \in DOMAIN all /\ all[n][1] = "+"
      BY <1>4, <1>5, <3>1
    <3> QED BY <1>3, <3>2 DEF Keys
  <2> QED BY <2>1, <2>2
<1>11. ~Starred(m) /\ Is("map", m)
  BY DEF Starred, Star, Str, Map, Is
<1>12. MoreAllowed(m) = more
  BY <1>10, <1>11 DEF MoreAllowed
<1> QED BY <1>9, <1>10, <1>11, <1>12 DEF Listing

\* The members that a check lists.
LEMMA ListedMembers ==
    ASSUME NEW S, NEW m \in JsonOf(S) \union {NoFields}, Is("map", Listing(m))
    PROVE  Listing(m).map \in Seq({kv \in STRING \X S : NotPlus(kv)})
<1> DEFINE T == STRING \X S
           P == {kv \in T : NotPlus(kv)}
<1>1. CASE Starred(m)
  <2>1. Listing(m).map = <<>>
    BY <1>1 DEF Listing, NoFields, Map
  <2> HIDE DEF P
  <2> QED BY <2>1 DEF P
<1>2. CASE ~Starred(m)
  <2>1. Is("map", m)
    BY <1>2 DEF Listing
  <2>2. m.map \in Seq(T)
    <3>1. CASE m \in JsonOf(S)
      <4> HIDE DEF T
      <4> QED BY <2>1, <3>1, JsonParts DEF T
    <3>2. CASE m = NoFields
      <4>1. m.map = <<>>
        BY <3>2 DEF NoFields, Map
      <4> HIDE DEF T
      <4> QED BY <4>1
    <3> QED BY <3>1, <3>2
  <2>3. Listing(m).map = Kept(m.map, NotPlus)
    BY <1>2, <2>1 DEF Listing, WithoutPlus, Map
  <2> QED BY <2>2, <2>3, PlusKept
<1> QED BY <1>1, <1>2

\* What a check says of the tokens is written, and read, as it was.
LEMMA CheckTokensAgain ==
    ASSUME NEW S, NEW m \in JsonOf(JsonOf(JsonOf(S))) \union {NoFields},
           TokensAccepted(Listing(m), CheckInstanceKinds, CheckTokenKinds), NEW more \in BOOLEAN
    PROVE  LET w == WrittenTokens(Tokens(Listing(m), CheckInstanceKinds, CheckTokenKinds, TRUE), CheckInstanceWritten)
               p == Map(w \o Plus(more))
           IN  /\ ~Starred(p) /\ MoreAllowed(p) = more
               /\ WrittenTokens(Tokens(Listing(p), CheckInstanceKinds, CheckTokenKinds, TRUE), CheckInstanceWritten) = w
               /\ Tokens(Listing(p), CheckInstanceKinds, CheckTokenKinds, TRUE) = <<>>
                    <=> Tokens(Listing(m), CheckInstanceKinds, CheckTokenKinds, TRUE) = <<>>
<1> DEFINE l == Listing(m)
           T == {kv \in STRING \X JsonOf(JsonOf(S)) : NotPlus(kv)}
           read(o) == Tokens(o, CheckInstanceKinds, CheckTokenKinds, TRUE)
           w == WrittenTokens(read(l), CheckInstanceWritten)
           p == Map(w \o Plus(more))
<1>1. l.map \in Seq(T) /\ \A i \in DOMAIN l.map : TokenAccepted(l.map[i][2], CheckInstanceKinds, CheckTokenKinds)
  BY ListedMembers DEF TokensAccepted
<1>2. DOMAIN w = DOMAIN l.map /\ \A i \in DOMAIN l.map : w[i][1] = l.map[i][1]
  BY DEF WrittenTokens, Tokens, Pairs
<1>3. w = [i \in DOMAIN l.map |-> w[i]]
  BY DEF WrittenTokens, Tokens, Pairs
<1>4. DOMAIN read(l) = DOMAIN l.map /\ \A o : read(o) = [i \in DOMAIN o.map |-> read(o)[i]] /\ DOMAIN read(o) = DOMAIN o.map
  BY DEF Tokens, Pairs
<1> HIDE DEF l, w, read
<1>5. \A i \in DOMAIN l.map : l.map[i] \in T
  <2> HIDE DEF T
  <2> QED BY <1>1
<1>6. \A i \in DOMAIN w : w[i][1] # "+"
  BY <1>2, <1>5 DEF NotPlus
<1>7. w \in Seq(Range(w))
  <2> HIDE DEF T
  <2> QED BY <1>1, <1>3, MappedList
<1>8. ~Starred(p) /\ Listing(p) = Map(w) /\ MoreAllowed(p) = more
  BY <1>6, <1>7, PlusAgain
<1> HIDE DEF p
<1>9. WrittenTokens(read(Map(w)), CheckInstanceWritten) = w
  <2>1. TokenTables(CheckInstanceKinds, CheckTokenKinds, CheckInstanceWritten, TRUE)
    BY DEF TokenTables
  <2>2. \A i \in DOMAIN l.map : l.map[i][2] \in JsonOf(JsonOf(S)) /\ TokenAccepted(l.map[i][2], CheckInstanceKinds, CheckTokenKinds)
    BY <1>1, <1>5
  <2> QED BY <2>1, <2>2, TokensAgain DEF w, read
<1>10. read(Map(w)) = <<>> <=> read(l) = <<>>
  <2>1. DOMAIN read(Map(w)) = DOMAIN l.map
    BY <1>2, <1>4 DEF Map
  <2>2. \A o : read(o) = <<>> <=> DOMAIN read(o) = {}
    <3> SUFFICES ASSUME NEW o PROVE read(o) = <<>> <=> DOMAIN read(o) = {}
      OBVIOUS
    <3>1. read(o) = [i \in DOMAIN read(o) |-> read(o)[i]]
      BY <1>4
    <3> QED BY <3>1
  <2> QED BY <1>4, <2>1, <2>2
<1> QED BY <1>8, <1>9, <1>10 DEF w, read, l, p

\* Likewise what it says of the storage.
LEMMA CheckStorageAgain ==
    ASSUME NEW S, NEW m \in JsonOf(S) \union {NoFields}, EntriesAccepted(Listing(m), "check"), NEW more \in BOOLEAN
    PROVE  LET w == WrittenValues(Pairs(Listing(m), LAMBDA j : Parsed("check", j)))
               p == Map(w \o Plus(more))
           IN  /\ ~Starred(p) /\ MoreAllowed(p) = more
               /\ WrittenValues(Pairs(Listing(p), LAMBDA j : Parsed("check", j))) = w
<1> DEFINE l == Listing(m)
           T == {kv \in STRING \X S : NotPlus(kv)}
           read(o) == Pairs(o, LAMBDA j : Parsed("check", j))
           w == WrittenValues(read(l))
           p == Map(w \o Plus(more))
<1>1. l.map \in Seq(T)
  BY ListedMembers DEF EntriesAccepted
<1>2. DOMAIN w = DOMAIN l.map /\ \A i \in DOMAIN l.map : w[i][1] = l.map[i][1]
  BY DEF WrittenValues, Pairs
<1>3. w = [i \in DOMAIN l.map |-> w[i]]
  BY DEF WrittenValues, Pairs
<1> HIDE DEF l, w, read
<1>4. \A i \in DOMAIN l.map : l.map[i] \in T
  <2> HIDE DEF T
  <2> QED BY <1>1
<1>5. \A i \in DOMAIN w : w[i][1] # "+"
  BY <1>2, <1>4 DEF NotPlus
<1>6. w \in Seq(Range(w))
  <2> HIDE DEF T
  <2> QED BY <1>1, <1>3, MappedList
<1>7. ~Starred(p) /\ Listing(p) = Map(w) /\ MoreAllowed(p) = more
  BY <1>5, <1>6, PlusAgain
<1> HIDE DEF p
<1>8. WrittenValues(read(Map(w))) = w
  <2>1. "check" \in AllKinds
    BY DEF AllKinds
  <2> QED BY <2>1, ValuesAgain DEF w, read
<1> QED BY <1>7, <1>8 DEF w, read, l, p

\* What a check says of an account is written again as it is.
LEMMA CheckAccountAgain ==
    ASSUME NEW S, NEW o \in JsonOf(JsonOf(JsonOf(JsonOf(S)))), CheckAccountAccepted(o)
    PROVE  LET w == CheckAccountToOJ(processCheckAccount(o)) IN CheckAccountToOJ(processCheckAccount(w)) = w
<1> DEFINE tokensOf(q) == Tokens(Listing(Member(q, "esdt")), CheckInstanceKinds, CheckTokenKinds, TRUE)
           valuesOf(q) == Pairs(Listing(Member(q, "storage")), LAMBDA j : Parsed("check", j))
           tokens(q) == WrittenTokens(tokensOf(q), CheckInstanceWritten)
           values(q) == WrittenValues(valuesOf(q))
           starred(q) == Starred(Member(q, "storage")) \/ "storage" \notin Keys(q)
           esdt(q) == [original |-> IF Starred(Member(q, "esdt")) THEN Star
                                    ELSE Map(tokens(q) \o Plus(MoreAllowed(Member(q, "esdt")))),
                       unspecified |-> ~Starred(Member(q, "esdt")) /\ tokensOf(q) = <<>>]
           storage(q) == [original |-> IF starred(q) THEN Star
                                       ELSE Map(values(q) \o Plus(MoreAllowed(Member(q, "storage")))),
                          unspecified |-> ~("storage" \in Keys(q))]
           fields(q) == With(Fields(q, CheckAccountKinds, TRUE), [esdt |-> esdt(q), storage |-> storage(q)])
           w == Map(WriteFields(fields(o), CheckAccountWritten))
<1>1. \A q : CheckAccountToOJ(processCheckAccount(q)) = Map(WriteFields(fields(q), CheckAccountWritten))
  <2> SUFFICES ASSUME NEW q
               PROVE  CheckAccountToOJ(processCheckAccount(q)) = Map(WriteFields(fields(q), CheckAccountWritten))
    OBVIOUS
  <2> DEFINE a == processCheckAccount(q)
             esdtOf == [original |-> IF a.IgnoreESDT THEN Star
                                     ELSE Map(WrittenTokens(a.esdt, CheckInstanceWritten) \o Plus(a.MoreTokens)),
                        unspecified |-> ~a.IgnoreESDT /\ a.esdt = <<>>]
             storageOf == [original |-> IF a.IgnoreStorage THEN Star
                                        ELSE Map(WrittenValues(a.storage) \o Plus(a.MoreStorage)),
                           unspecified |-> ~a.ExplicitStorage]
  <2>1. /\ a.fields = Fields(q, CheckAccountKinds, TRUE)
        /\ a.IgnoreESDT = Starred(Member(q, "esdt")) /\ a.MoreTokens = MoreAllowed(Member(q, "esdt"))
        /\ a.esdt = tokensOf(q) /\ a.storage = valuesOf(q)
        /\ a.ExplicitStorage = ("storage" \in Keys(q)) /\ a.IgnoreStorage = starred(q)
        /\ a.MoreStorage = MoreAllowed(Member(q, "storage"))
    BY DEF processCheckAccount
  <2>2. CheckAccountToOJ(a)
            = Map(WriteFields(With(a.fields, [esdt |-> esdtOf, storage |-> storageOf]), CheckAccountWritten))
    BY DEF CheckAccountToOJ, WrittenTokens, WrittenValues
  <2> HIDE DEF a, tokensOf, valuesOf, starred
  <2>3. esdtOf = esdt(q) /\ storageOf = storage(q)
    BY <2>1
  <2> HIDE DEF esdtOf, storageOf, esdt, storage
  <2> QED BY <2>1, <2>2, <2>3 DEF a
<1> HIDE DEF w
<1>2. \A q : /\ fields(q)["esdt"] = esdt(q) /\ fields(q)["storage"] = storage(q)
             /\ \A k \in DOMAIN CheckAccountKinds : fields(q)[k] = Fields(q, CheckAccountKinds, TRUE)[k]
  <2> SUFFICES ASSUME NEW q
               PROVE  /\ fields(q)["esdt"] = esdt(q) /\ fields(q)["storage"] = storage(q)
                      /\ \A k \in DOMAIN CheckAccountKinds : fields(q)[k] = Fields(q, CheckAccountKinds, TRUE)[k]
    OBVIOUS
  <2> HIDE DEF esdt, storage
  <2>1. "esdt" \notin DOMAIN CheckAccountKinds /\ "storage" \notin DOMAIN CheckAccountKinds
    BY DEF CheckAccountKinds
  <2>2. DOMAIN Fields(q, CheckAccountKinds, TRUE) = DOMAIN CheckAccountKinds
    BY DEF Fields
  <2> QED BY <2>1, <2>2 DEF With
<1>3. /\ CheckAccountWritten \in Seq(Range(CheckAccountWritten)) /\ Distinct(CheckAccountWritten)
      /\ TableFits(CheckAccountKinds, CheckAccountWritten, TRUE, {"esdt", "storage"})
  BY CheckAccountFits DEF TableFits
<1> HIDE DEF fields
<1>4. Holds(w, fields(o), CheckAccountWritten)
  BY <1>3, WrittenHolds DEF w
<1> HIDE DEF esdt, storage
<1>5. ASSUME NEW k \in {"esdt", "storage"}
      PROVE  /\ k \in Keys(w) <=> ~fields(o)[k].unspecified
             /\ k \in Keys(w) => At(w, k) = fields(o)[k].original
  <2> DEFINE x == <<k, "specified">>
  <2>1. x[1] = k /\ x[2] = "specified" /\ x \in Range(CheckAccountWritten)
    BY CheckAccountFits
  <2> HIDE DEF x
  <2> QED BY <1>4, <2>1 DEF Holds, WrittenIf
<1>6. Alike("specified", esdt(o), esdt(w))
  <2> DEFINE m == Member(o, "esdt")
             n == Member(w, "esdt")
  <2>1. /\ m \in JsonOf(JsonOf(JsonOf(S))) \union {NoFields}
        /\ TokensAccepted(Listing(m), CheckInstanceKinds, CheckTokenKinds)
    <3>1. Is("map", o)
      BY DEF CheckAccountAccepted, FieldsAccepted
    <3>2. "esdt" \in Keys(o) => At(o, "esdt") \in JsonOf(JsonOf(JsonOf(S)))
      BY <3>1, JsonParts
    <3> QED BY <3>2 DEF Member, CheckAccountAccepted
  <2>2. /\ esdt(o).original = IF Starred(m) THEN Star ELSE Map(tokens(o) \o Plus(MoreAllowed(m)))
        /\ esdt(w).original = IF Starred(n) THEN Star ELSE Map(tokens(w) \o Plus(MoreAllowed(n)))
        /\ esdt(o).unspecified <=> ~Starred(m) /\ tokensOf(o) = <<>>
        /\ esdt(w).unspecified <=> ~Starred(n) /\ tokensOf(w) = <<>>
    <3> HIDE DEF tokens, tokensOf
    <3> QED BY DEF esdt
  <2>3. /\ "esdt" \in Keys(w) <=> ~esdt(o).unspecified
        /\ "esdt" \in Keys(w) => At(w, "esdt") = esdt(o).original
    BY <1>2, <1>5
  <2>4. \A more \in BOOLEAN :
          LET p == Map(tokens(o) \o Plus(more))
              again == Tokens(Listing(p), CheckInstanceKinds, CheckTokenKinds, TRUE)
          IN  /\ ~Starred(p) /\ MoreAllowed(p) = more
              /\ WrittenTokens(again, CheckInstanceWritten) = tokens(o)
              /\ again = <<>> <=> tokensOf(o) = <<>>
    BY <2>1, CheckTokensAgain
  <2>5. tokensOf(w) = Tokens(Listing(n), CheckInstanceKinds, CheckTokenKinds, TRUE)
        /\ tokens(w) = WrittenTokens(tokensOf(w), CheckInstanceWritten)
    OBVIOUS
  <2>6. MoreAllowed(m) \in BOOLEAN
    BY DEF MoreAllowed
  <2>7. tokensOf(o) = <<>> => tokens(o) = <<>>
    <3> HIDE DEF tokensOf
    <3> QED BY DEF WrittenTokens
  <2> HIDE DEF tokens, tokensOf, m
  <2>8. CASE Starred(m)
    <3>1. n = Star
      BY <2>2, <2>3, <2>8 DEF Member
    <3> HIDE DEF n
    <3>2. Starred(n)
      BY <3>1 DEF Starred
    <3> QED BY <2>2, <2>8, <3>2 DEF Alike, WrittenIf
  <2>9. CASE ~Starred(m) /\ tokensOf(o) = <<>>
    <3>1. n = NoFields
      BY <2>2, <2>3, <2>9 DEF Member
    <3>2. Map(tokens(o) \o Plus(FALSE)) = NoFields
      <4>1. tokens(o) \o Plus(FALSE) = <<>> \o <<>>
        BY <2>7, <2>9 DEF Plus
      <4>2. <<>> \o <<>> = <<>>
        OBVIOUS
      <4> QED BY <4>1, <4>2 DEF NoFields
    <3> HIDE DEF n
    <3>3. ~Starred(n) /\ tokensOf(w) = <<>>
      BY <2>4, <2>5, <2>9, <3>1, <3>2
    <3> QED BY <2>2, <2>9, <3>3 DEF Alike, WrittenIf
  <2>10. CASE ~Starred(m) /\ tokensOf(o) # <<>>
    <3>1. n = Map(tokens(o) \o Plus(MoreAllowed(m)))
      BY <2>2, <2>3, <2>10 DEF Member
    <3> HIDE DEF n
    <3>2. /\ ~Starred(n) /\ MoreAllowed(n) = MoreAllowed(m) /\ tokensOf(w) # <<>>
          /\ tokens(w) = tokens(o)
      BY <2>4, <2>5, <2>6, <2>10, <3>1
    <3> QED BY <2>2, <2>10, <3>2 DEF Alike, WrittenIf
  <2> QED BY <2>8, <2>9, <2>10
<1>7. Alike("specified", storage(o), storage(w))
  <2> DEFINE m == Member(o, "storage")
             n == Member(w, "storage")
  <2>1. /\ m \in JsonOf(JsonOf(JsonOf(S))) \union {NoFields}
        /\ EntriesAccepted(Listing(m), "check")
    <3>1. Is("map", o)
      BY DEF CheckAccountAccepted, FieldsAccepted
    <3>2. "storage" \in Keys(o) => At(o, "storage") \in JsonOf(JsonOf(JsonOf(S)))
      BY <3>1, JsonParts
    <3> QED BY <3>2 DEF Member, CheckAccountAccepted
  <2>2. /\ storage(o).original = IF starred(o) THEN Star ELSE Map(values(o) \o Plus(MoreAllowed(m)))
        /\ storage(w).original = IF starred(w) THEN Star ELSE Map(values(w) \o Plus(MoreAllowed(n)))
        /\ storage(o).unspecified <=> "storage" \notin Keys(o)
        /\ storage(w).unspecified <=> "storage" \notin Keys(w)
    <3> HIDE DEF values, starred
    <3> QED BY DEF storage
  <2>3. /\ "storage" \in Keys(w) <=> ~storage(o).unspecified
        /\ "storage" \in Keys(w) => At(w, "storage") = storage(o).original
    BY <1>2, <1>5
  <2>4. LET p == Map(values(o) \o Plus(MoreAllowed(m)))
        IN  /\ ~Starred(p) /\ MoreAllowed(p) = MoreAllowed(m)
            /\ WrittenValues(Pairs(Listing(p), LAMBDA j : Parsed("check", j))) = values(o)
    <3>1. MoreAllowed(m) \in BOOLEAN
      BY DEF MoreAllowed
    <3> QED BY <2>1, <3>1, CheckStorageAgain
  <2>5. values(w) = WrittenValues(Pairs(Listing(n), LAMBDA j : Parsed("check", j)))
    OBVIOUS
  <2>6. /\ starred(o) <=> Starred(m) \/ "storage" \notin Keys(o)
        /\ starred(w) <=> Starred(n) \/ "storage" \notin Keys(w)
    OBVIOUS
  <2> HIDE DEF values, valuesOf, starred, m
  <2>7. CASE "storage" \notin Keys(o)
    BY <2>2, <2>3, <2>7 DEF Alike, WrittenIf
  <2>8. CASE "storage" \in Keys(o) /\ Starred(m)
    <3>1. n = Star /\ "storage" \in Keys(w)
      BY <2>2, <2>3, <2>6, <2>8 DEF Member
    <3> HIDE DEF n
    <3>2. Starred(n)
      BY <3>1 DEF Starred
    <3> QED BY <2>2, <2>6, <2>8, <3>1, <3>2 DEF Alike, WrittenIf
  <2>9. CASE "storage" \in Keys(o) /\ ~Starred(m)
    <3>1. n = Map(values(o) \o Plus(MoreAllowed(m))) /\ "storage" \in Keys(w)
      BY <2>2, <2>3, <2>6, <2>9 DEF Member
    <3> HIDE DEF n
    <3>2. ~Starred(n) /\ MoreAllowed(n) = MoreAllowed(m) /\ values(w) = values(o)
      BY <2>4, <2>5, <3>1
    <3> QED BY <2>2, <2>6, <2>9, <3>1, <3>2 DEF Alike, WrittenIf
  <2> QED BY <2>7, <2>8, <2>9
<1>8. ASSUME NEW u \in BOOLEAN, u = TRUE
      PROVE  WriteFields(fields(w), CheckAccountWritten) = WriteFields(fields(o), CheckAccountWritten)
  <2> DEFINE others == {"esdt", "storage"}
             before == fields(o)
             after == fields(w)
  <2>1. ASSUME NEW e \in Range(CheckAccountWritten)
        PROVE  IF e[1] \in others THEN Alike(e[2], before[e[1]], after[e[1]])
               ELSE before[e[1]] = Fields(o, CheckAccountKinds, u)[e[1]] /\ after[e[1]] = Fields(w, CheckAccountKinds, u)[e[1]]
    <3>1. CASE e[1] \in others
      <4> DEFINE x == <<e[1], "specified">>
      <4>1. x[1] = e[1] /\ x[2] = "specified" /\ x \in Range(CheckAccountWritten)
        BY <3>1, CheckAccountFits
      <4> HIDE DEF x
      <4>2. e[2] = "specified"
        BY <1>3, <4>1 DEF Distinct
      <4> QED BY <1>2, <1>6, <1>7, <3>1, <4>2
    <3>2. CASE e[1] \notin others
      <4>1. e[1] \in DOMAIN CheckAccountKinds
        BY <1>3, <3>2 DEF TableFits
      <4> QED BY <1>2, <1>8, <3>2, <4>1
    <3> QED BY <3>1, <3>2
  <2>2. TableFits(CheckAccountKinds, CheckAccountWritten, u, others)
    BY <1>3, <1>8
  <2> HIDE DEF others
  <2> QED BY <1>4, <2>1, <2>2, ObjectAgain
<1>9. Map(WriteFields(fields(w), CheckAccountWritten)) = w
  BY <1>8 DEF w
<1> QED BY <1>1, <1>9 DEF w

----------------------------------------------------------------------------
(* Transactions and what is expected of them *)

\* Objects that are nothing but their fields, where what is missed is unspecified, or is not.
LEMMA OptionalAgain ==
    ASSUME NEW o, NEW kinds, NEW table, TableFits(kinds, table, TRUE, {})
    PROVE  WriteFields(Fields(Map(WriteFields(Fields(o, kinds, TRUE), table)), kinds, TRUE), table)
               = WriteFields(Fields(o, kinds, TRUE), table)
<1>1. ASSUME NEW u \in BOOLEAN, u = TRUE
      PROVE  WriteFields(Fields(Map(WriteFields(Fields(o, kinds, u), table)), kinds, u), table)
                 = WriteFields(Fields(o, kinds, u), table)
  <2>1. TableFits(kinds, table, u, {})
    BY <1>1
  <2> QED BY <2>1, FieldsAreAll
<1> QED BY <1>1

\* The same of zero values.
LEMMA ZeroAgain ==
    ASSUME NEW o, NEW kinds, NEW table, TableFits(kinds, table, FALSE, {})
    PROVE  WriteFields(Fields(Map(WriteFields(Fields(o, kinds, FALSE), table)), kinds, FALSE), table)
               = WriteFields(Fields(o, kinds, FALSE), table)
<1>1. ASSUME NEW u \in BOOLEAN, u = FALSE
      PROVE  WriteFields(Fields(Map(WriteFields(Fields(o, kinds, u), table)), kinds, u), table)
                 = WriteFields(Fields(o, kinds, u), table)
  <2>1. TableFits(kinds, table, u, {})
    BY <1>1
  <2> QED BY <2>1, FieldsAreAll
<1> QED BY <1>1

\* A list of such objects.
WrittenList(l, kinds, table) == [i \in DOMAIN l |-> Map(WriteFields(Fields(l[i], kinds, FALSE), table))]

\* Written again, they are the same.
LEMMA ListAgain ==
    ASSUME NEW l, NEW kinds, NEW table, TableFits(kinds, table, FALSE, {})
    PROVE  WrittenList(WrittenList(l, kinds, table), kinds, table) = WrittenList(l, kinds, table)
<1> DEFINE again(t) == Map(WriteFields(Fields(t, kinds, FALSE), table))
           w == WrittenList(l, kinds, table)
<1>1. \A s : WrittenList(s, kinds, table) = [i \in DOMAIN s |-> again(s[i])]
  BY DEF WrittenList
<1>2. w = [i \in DOMAIN l |-> again(l[i])]
  BY <1>1
<1> HIDE DEF w
<1>3. WrittenList(w, kinds, table) = [i \in DOMAIN w |-> again(w[i])]
  BY <1>1
<1>4. \A t : again(again(t)) = again(t)
  BY ZeroAgain
<1> HIDE DEF again
<1> QED BY <1>2, <1>3, <1>4 DEF w

\* The lines of a transaction that its type has.
WrittenOfTx(type) == Kept(TxWritten, LAMBDA e : FieldOf(type, e[1]))

\* What is left of the table for a type is a table for the fields, and has the transfers.
LEMMA TxTableFits ==
    ASSUME NEW type
    PROVE  /\ TableFits(TxKinds, WrittenOfTx(type), TRUE, {"esdtValue", "egldValue"})
           /\ Range(WrittenOfTx(type)) \subseteq Range(TxWritten)
           /\ <<"esdtValue", "nonempty">> \in Range(WrittenOfTx(type))
<1> DEFINE S == Range(TxWritten)
           parts == [i \in DOMAIN TxWritten |-> IF FieldOf(type, TxWritten[i][1]) THEN <<TxWritten[i]>> ELSE <<>>]
           table == WrittenOfTx(type)
<1>1. TxWritten \in Seq(S) /\ Distinct(TxWritten)
      /\ \A e \in S : (e[1] \in DOMAIN TxKinds /\ Suits(TxKinds[e[1]], e[2], TRUE)) \/ e[1] \in {"esdtValue"}
  BY TxFits DEF TableFits
<1>2. table = FlattenSeq(parts)
  BY DEF WrittenOfTx, Kept, Each
<1>3. \A i \in DOMAIN TxWritten : TxWritten[i] \in S
  BY DEF Range
<1>4. PICK k \in DOMAIN TxWritten : TxWritten[k] = <<"esdtValue", "nonempty">>
  BY TxFits DEF Range
<1>5. parts[k] = <<TxWritten[k]>>
  <2>1. TxWritten[k][1] = "esdtValue"
    BY <1>4
  <2>2. FieldOf(type, "esdtValue")
    BY DEF FieldOf
  <2> QED BY <2>1, <2>2
<1>6. parts = [i \in DOMAIN TxWritten |-> parts[i]]
  OBVIOUS
<1> HIDE DEF S, table
<1>7. \A i \in DOMAIN TxWritten : parts[i] \in Seq(S)
  BY <1>3
<1> HIDE DEF parts
<1>8. parts \in Seq(Seq(S)) /\ k \in DOMAIN parts
  BY <1>1, <1>6, <1>7, MappedInto
<1>9. table \in Seq(S)
  BY <1>2, <1>8, FlattenType
<1>10. table \in Seq(Range(table)) /\ Range(table) \subseteq S
  BY <1>9, ListOfItsOwn
<1>11. \E n \in DOMAIN table : table[n] = TxWritten[k]
  <2>1. 1 \in DOMAIN parts[k] /\ parts[k][1] = TxWritten[k]
    BY <1>5
  <2> QED BY <1>2, <1>8, <2>1, FlattenHas
<1>12. <<"esdtValue", "nonempty">> \in Range(table)
  BY <1>4, <1>11 DEF Range
<1>13. Distinct(table)
  BY <1>1, <1>10 DEF Distinct, S
<1>14. TableFits(TxKinds, table, TRUE, {"esdtValue", "egldValue"})
  BY <1>1, <1>10, <1>13 DEF TableFits
<1> QED BY <1>10, <1>12, <1>14 DEF S, table

\* Nothing that is written has another name.
LEMMA TxNotRenamed ==
    ASSUME NEW fields, NEW table, table \in Seq(Range(table)), Range(table) \subseteq Range(TxWritten)
    PROVE  Renamed(Map(WriteFields(fields, table)), TxAlias) = Map(WriteFields(fields, table))
<1> DEFINE w == WriteFields(fields, table)
<1>1. /\ w \in Seq(Range(w))
      /\ \A i \in DOMAIN w : (\E e \in Range(table) : w[i][1] = e[1]) /\ w[i] = <<w[i][1], w[i][2]>>
  BY WrittenKeys
<1>2. \A e \in Range(TxWritten) : e[1] \notin DOMAIN TxAlias
  <2>1. DOMAIN TxAlias = {"value", "esdt"}
    BY DEF TxAlias
  <2>2. \A e \in Range(TxWritten) : e[1] \in DOMAIN TxKinds \/ e[1] = "esdtValue"
    BY TxFits DEF TableFits
  <2> QED BY <2>1, <2>2 DEF TxKinds
<1> HIDE DEF w
<1>3. w = [i \in DOMAIN w |-> <<w[i][1], w[i][2]>>]
  <2>1. w = [i \in DOMAIN w |-> w[i]]
    BY <1>1
  <2> QED BY <1>1, <2>1
<1>4. \A i \in DOMAIN w : w[i][1] \notin DOMAIN TxAlias
  BY <1>1, <1>2
<1>5. Map(w).map = w
  BY DEF Map
<1> HIDE DEF w
<1>6. [i \in DOMAIN w |-> <<IF w[i][1] \in DOMAIN TxAlias THEN TxAlias[w[i][1]] ELSE w[i][1], w[i][2]>>]
          = [i \in DOMAIN w |-> <<w[i][1], w[i][2]>>]
  BY <1>4
<1>7. Renamed(Map(w), TxAlias) = Map(w)
  BY <1>3, <1>5, <1>6 DEF Renamed
<1> QED BY <1>7 DEF w

\* A transaction that was written is written again as it is.
LEMMA TxAgain ==
    ASSUME NEW type, NEW j
    PROVE  LET w == transactionToScenarioOJ(type, processTx(type, j))
           IN  transactionToScenarioOJ(type, processTx(type, w)) = w
<1> DEFINE named(q) == Renamed(q, TxAlias)
           transfers(q) == IF "esdtValue" \in Keys(named(q)) THEN TransferList(At(named(q), "esdtValue")) ELSE <<>>
           esdt(q) == WrittenList(transfers(q), TransferKinds, TransferWritten)
           read(q) == Fields(named(q), TxKinds, TRUE)
           zeroless(q) == [read(q) EXCEPT !.egldValue.original = IF @ = Str("0") THEN Str("") ELSE @]
           fields(q) == With(zeroless(q), [esdtValue |-> Read(esdt(q), List(esdt(q)))])
           table == WrittenOfTx(type)
           p == WriteFields(fields(j), table)
           w == Map(p)
<1>1. \A q : transactionToScenarioOJ(type, processTx(type, q)) = Map(WriteFields(fields(q), table))
  BY DEF transactionToScenarioOJ, processTx, WrittenOfTx, WrittenList, Each
<1>2. /\ TableFits(TxKinds, table, TRUE, {"esdtValue", "egldValue"})
      /\ table \in Seq(Range(table)) /\ Distinct(table)
      /\ Range(table) \subseteq Range(TxWritten)
      /\ <<"esdtValue", "nonempty">> \in Range(table)
  BY TxTableFits DEF TableFits
<1>3. \A q : /\ fields(q)["esdtValue"] = Read(esdt(q), List(esdt(q)))
             /\ \A k \in DOMAIN TxKinds \ {"egldValue"} : fields(q)[k] = read(q)[k]
             /\ fields(q)["egldValue"].original = IF read(q)["egldValue"].original = Str("0") THEN Str("")
                                                  ELSE read(q)["egldValue"].original
  <2> SUFFICES ASSUME NEW q
               PROVE  /\ fields(q)["esdtValue"] = Read(esdt(q), List(esdt(q)))
                      /\ \A k \in DOMAIN TxKinds \ {"egldValue"} : fields(q)[k] = read(q)[k]
                      /\ fields(q)["egldValue"].original = IF read(q)["egldValue"].original = Str("0") THEN Str("")
                                                           ELSE read(q)["egldValue"].original
    OBVIOUS
  <2> HIDE DEF table, esdt, named
  <2>1. "esdtValue" \notin DOMAIN TxKinds /\ "egldValue" \in DOMAIN TxKinds
    BY DEF TxKinds
  <2>2. DOMAIN read(q) = DOMAIN TxKinds /\ read(q) = [k \in DOMAIN TxKinds |-> read(q)[k]]
    BY DEF Fields
  <2>3. "original" \in DOMAIN read(q)["egldValue"]
    <3>1. TxKinds["egldValue"] = "bytes"
      BY DEF TxKinds
    <3>2. read(q)["egldValue"] = IF "egldValue" \in Keys(named(q)) THEN Parsed("bytes", At(named(q), "egldValue"))
                                 ELSE Missing("bytes", TRUE)
      BY <2>1, <3>1 DEF Fields
    <3> HIDE DEF read
    <3>3. \A y : "original" \in DOMAIN Parsed("bytes", y)
      BY DEF Parsed, Read
    <3>4. ASSUME NEW kind, NEW u PROVE "original" \in DOMAIN Missing(kind, u)
      <4>1. \A x, y, z : DOMAIN [value |-> x, original |-> y, unspecified |-> z] = {"value", "original", "unspecified"}
        OBVIOUS
      <4> QED BY <4>1 DEF Missing
    <3>5. "original" \in DOMAIN Missing("bytes", TRUE)
      BY <3>4
    <3> QED BY <3>2, <3>3, <3>5
  <2> HIDE DEF read
  <2>4. /\ DOMAIN zeroless(q) = DOMAIN TxKinds
        /\ \A k \in DOMAIN TxKinds \ {"egldValue"} : zeroless(q)[k] = read(q)[k]
        /\ zeroless(q)["egldValue"].original = IF read(q)["egldValue"].original = Str("0") THEN Str("")
                                               ELSE read(q)["egldValue"].original
    BY <2>1, <2>2, <2>3
  <2> HIDE DEF zeroless
  <2> QED BY <2>1, <2>4 DEF With
<1> HIDE DEF table, p, fields
<1>4. named(w) = w
  BY <1>2, TxNotRenamed DEF p
<1>5. Holds(w, fields(j), table)
  BY <1>2, WrittenHolds DEF p
<1>6. /\ "esdtValue" \in Keys(w) <=> esdt(j) # <<>>
      /\ "esdtValue" \in Keys(w) => At(w, "esdtValue") = List(esdt(j))
  <2> DEFINE x == <<"esdtValue", "nonempty">>
  <2>1. x[1] = "esdtValue" /\ x[2] = "nonempty" /\ x \in Range(table)
    BY <1>2
  <2> HIDE DEF x, esdt
  <2>2. /\ "esdtValue" \in Keys(w) <=> WrittenIf("nonempty", fields(j)["esdtValue"])
        /\ "esdtValue" \in Keys(w) => At(w, "esdtValue") = fields(j)["esdtValue"].original
    BY <1>5, <2>1 DEF Holds
  <2>3. fields(j)["esdtValue"].value = esdt(j) /\ fields(j)["esdtValue"].original = List(esdt(j))
    <3>1. \A q : fields(q)["esdtValue"] = Read(esdt(q), List(esdt(q)))
      BY <1>3
    <3>2. \A l : Read(l, List(l)).value = l /\ Read(l, List(l)).original = List(l)
      BY DEF Read
    <3> HIDE DEF w
    <3> QED BY <3>1, <3>2
  <2> QED BY <2>2, <2>3 DEF WrittenIf
<1>7. esdt(w) = esdt(j)
  <2>1. WrittenList(esdt(j), TransferKinds, TransferWritten) = esdt(j)
    BY TransferFits, ListAgain
  <2>2. transfers(w) = esdt(j)
    <3> HIDE DEF esdt, named, w
    <3>1. CASE esdt(j) = <<>>
      BY <1>4, <1>6, <3>1
    <3>2. CASE esdt(j) # <<>>
      <4>1. transfers(w) = TransferList(List(esdt(j)))
        BY <1>4, <1>6, <3>2
      <4>2. TransferList(List(esdt(j))) = esdt(j)
        BY DEF TransferList, List, Is
      <4> QED BY <4>1, <4>2
    <3> QED BY <3>1, <3>2
  <2> HIDE DEF transfers
  <2>3. esdt(w) = WrittenList(esdt(j), TransferKinds, TransferWritten)
    BY <2>2
  <2> QED BY <2>1, <2>3
<1> HIDE DEF w, esdt
<1>8. ASSUME <<"egldValue", "original">> \in Range(table)
      PROVE  Alike("original", fields(j)["egldValue"], fields(w)["egldValue"])
  <2> DEFINE x == <<"egldValue", "original">>
             v == fields(j)["egldValue"]
             z == fields(w)["egldValue"]
             before == read(j)["egldValue"]
             after == read(w)["egldValue"]
  <2>1. x[1] = "egldValue" /\ x[2] = "original" /\ x \in Range(table)
    BY <1>8
  <2> HIDE DEF x
  <2>2. /\ "egldValue" \in Keys(w) <=> v.original # Str("")
        /\ "egldValue" \in Keys(w) => At(w, "egldValue") = v.original
    BY <1>5, <2>1 DEF Holds, WrittenIf
  <2>3. /\ v.original = IF before.original = Str("0") THEN Str("") ELSE before.original
        /\ z.original = IF after.original = Str("0") THEN Str("") ELSE after.original
    BY <1>3
  <2>4. "egldValue" \in DOMAIN TxKinds /\ TxKinds["egldValue"] = "bytes"
    BY DEF TxKinds
  <2>5. /\ "egldValue" \in Keys(w) => after = Parsed("bytes", At(w, "egldValue"))
        /\ "egldValue" \notin Keys(w) => after = Missing("bytes", TRUE)
    <3>1. read(w) = Fields(w, TxKinds, TRUE)
      BY <1>4
    <3> HIDE DEF read
    <3> QED BY <2>4, <3>1 DEF Fields
  <2>6. \A y : Parsed("bytes", y).original = y
    BY DEF Parsed, Read
  <2>7. Missing("bytes", TRUE).original = Str("")
    BY DEF Missing
  <2>8. Str("") # Str("0")
    BY DEF Str
  <2> HIDE DEF v, z, before, after
  <2>9. v.original # Str("0")
    BY <2>3, <2>8
  <2>10. after.original = v.original
    BY <2>2, <2>5, <2>6, <2>7
  <2>11. z.original = v.original
    BY <2>3, <2>9, <2>10
  <2> QED BY <2>11 DEF Alike, WrittenIf, v, z
<1> HIDE DEF read
<1>9. ASSUME NEW u \in BOOLEAN, u = TRUE
      PROVE  WriteFields(fields(w), table) = WriteFields(fields(j), table)
  <2> DEFINE others == {"esdtValue", "egldValue"}
             before == fields(j)
             after == fields(w)
  <2>1. ASSUME NEW e \in Range(table)
        PROVE  IF e[1] \in others THEN Alike(e[2], before[e[1]], after[e[1]])
               ELSE before[e[1]] = Fields(named(j), TxKinds, u)[e[1]] /\ after[e[1]] = Fields(w, TxKinds, u)[e[1]]
    <3>1. CASE e[1] = "esdtValue"
      <4>1. before[e[1]] = after[e[1]]
        BY <1>3, <1>7, <3>1
      <4> QED BY <3>1, <4>1 DEF Alike
    <3>2. CASE e[1] = "egldValue"
      <4> DEFINE x == <<"egldValue", "original">>
      <4>1. x[1] = "egldValue" /\ x[2] = "original" /\ x \in Range(TxWritten) /\ e \in Range(TxWritten) /\ Distinct(TxWritten)
        BY <1>2, TxFits DEF TableFits
      <4> HIDE DEF x
      <4>2. e = x
        BY <3>2, <4>1 DEF Distinct
      <4>3. e[2] = "original"
        BY <4>1, <4>2
      <4>4. <<"egldValue", "original">> \in Range(table)
        BY <4>2 DEF x
      <4>5. Alike("original", fields(j)["egldValue"], fields(w)["egldValue"])
        BY <1>8, <4>4
      <4> QED BY <3>2, <4>3, <4>5
    <3>3. CASE e[1] \notin others
      <4>1. e[1] \in DOMAIN TxKinds \ {"egldValue"}
        BY <1>2, <3>3 DEF TableFits
      <4>2. before[e[1]] = read(j)[e[1]] /\ after[e[1]] = read(w)[e[1]]
        BY <1>3, <4>1
      <4>3. read(j) = Fields(named(j), TxKinds, u) /\ read(w) = Fields(w, TxKinds, u)
        BY <1>4, <1>9 DEF read
      <4> QED BY <3>3, <4>2, <4>3
    <3> QED BY <3>1, <3>2, <3>3
  <2>2. TableFits(TxKinds, table, u, others)
    BY <1>2, <1>9
  <2> HIDE DEF others
  <2> QED BY <1>5, <2>1, <2>2, ObjectAgain
<1>10. Map(WriteFields(fields(w), table)) = w
  BY <1>9 DEF w, p
<1>11. transactionToScenarioOJ(type, processTx(type, w)) = w
  BY <1>1, <1>10
<1> QED BY <1>1, <1>11 DEF w, p

\* Entries with "+" after them are read as these entries, and more.
LEMMA MoreAgain ==
    ASSUME NEW V, NEW t \in Seq(V), \A i \in DOMAIN t : t[i] # Str("+"), NEW more \in BOOLEAN,
           NEW l, l = t \o IF more THEN <<Str("+")>> ELSE <<>>
    PROVE  Kept(l, NotMore) = t /\ ((\E i \in DOMAIN l : l[i] = Str("+")) <=> more)
<1> DEFINE plus == IF more THEN <<Str("+")>> ELSE <<>>
           parts == [i \in DOMAIN l |-> IF NotMore(l[i]) THEN <<l[i]>> ELSE <<>>]
           W == V \union {Str("+")}
<1>1. t \in Seq(W) /\ Len(t) \in Nat /\ DOMAIN t = 1..Len(t)
  <2>1. V \subseteq W
    OBVIOUS
  <2> HIDE DEF W
  <2> QED BY <2>1
<1>2. Str("+") \in W
  OBVIOUS
<1> HIDE DEF W
<1>3. /\ plus \in Seq(W) /\ Len(plus) \in Nat /\ DOMAIN plus = 1..Len(plus)
      /\ \A i \in DOMAIN plus : plus[i] = Str("+")
      /\ 1 \in DOMAIN plus <=> more
  <2>1. CASE more
    <3>1. plus = <<Str("+")>>
      BY <2>1
    <3> HIDE DEF plus
    <3> QED BY <1>2, <2>1, <3>1
  <2>2. CASE ~more
    <3>1. plus = <<>>
      BY <2>2
    <3> HIDE DEF plus
    <3> QED BY <2>2, <3>1
  <2> QED BY <2>1, <2>2
<1>4. l = t \o plus
  OBVIOUS
<1> HIDE DEF plus
<1>5. /\ l \in Seq(W) /\ Len(l) = Len(t) + Len(plus)
      /\ \A i \in 1..Len(l) : l[i] = IF i <= Len(t) THEN t[i] ELSE plus[i - Len(t)]
  <2>1. /\ t \o plus \in Seq(W) /\ Len(t \o plus) = Len(t) + Len(plus)
        /\ \A i \in 1..Len(t) + Len(plus) : (t \o plus)[i] = IF i <= Len(t) THEN t[i] ELSE plus[i - Len(t)]
    BY <1>1, <1>3, ConcatProperties
  <2> QED BY <1>4, <2>1
<1>6. DOMAIN l = 1..Len(l) /\ Len(l) \in Nat /\ Len(t) <= Len(l)
  <2>1. DOMAIN l = 1..Len(l) /\ Len(l) \in Nat
    BY <1>5
  <2> QED BY <1>1, <1>3, <1>5, <2>1
<1>7. ASSUME NEW i \in 1..Len(l)
      PROVE  IF i <= Len(t) THEN l[i] = t[i] /\ l[i] # Str("+") ELSE l[i] = Str("+") /\ 1 \in DOMAIN plus
  <2>1. CASE i <= Len(t)
    <3>1. i \in DOMAIN t
      BY <1>1, <2>1
    <3> QED BY <1>5, <2>1, <3>1
  <2>2. CASE ~(i <= Len(t))
    <3>1. i - Len(t) \in 1..Len(plus) /\ 1 \in 1..Len(plus)
      BY <1>1, <1>3, <1>5, <1>6, <2>2
    <3> QED BY <1>3, <1>5, <2>2, <3>1
  <2> QED BY <2>1, <2>2
<1>8. parts = [i \in 1..Len(l) |-> IF i <= Len(t) THEN <<t[i]>> ELSE <<>>]
  BY <1>6, <1>7 DEF NotMore
<1>9. Kept(l, NotMore) = FlattenSeq(parts)
  BY DEF Kept, Each
<1> HIDE DEF parts
<1>10. FlattenSeq(parts) = t
  BY <1>6, <1>8, FlattenFront
<1>11. (\E i \in DOMAIN l : l[i] = Str("+")) <=> more
  <2>1. ASSUME NEW i \in DOMAIN l, l[i] = Str("+") PROVE more
    BY <1>3, <1>6, <1>7, <2>1
  <2>2. ASSUME more PROVE \E i \in DOMAIN l : l[i] = Str("+")
    <3> DEFINE n == Len(t) + 1
    <3>1. n \in 1..Len(l) /\ ~(n <= Len(t))
      <4>1. 1 \in 1..Len(plus)
        BY <1>3, <2>2
      <4> QED BY <1>1, <1>3, <1>5, <4>1
    <3> HIDE DEF n
    <3> QED BY <1>6, <1>7, <3>1
  <2> QED BY <2>1, <2>2
<1> QED BY <1>9, <1>10, <1>11

\* Logs that are listed are listed again as they are.
LEMMA LogsAgain ==
    ASSUME NEW S, NEW j, Is("list", j), j.list \in Seq(S)
    PROVE  LET w == logsToOJ(processLogList(j))
           IN  /\ j # Star /\ w # Star /\ ~processLogList(j).IsStar /\ ~processLogList(w).IsStar
               /\ logsToOJ(processLogList(w)) = w
<1> DEFINE entries(q) == Kept(q.list, NotMore)
           more(q) == \E i \in DOMAIN q.list : q.list[i] = Str("+")
           objects(q) == WrittenList(entries(q), LogKinds, LogWritten)
           w == logsToOJ(processLogList(j))
<1>1. \A q : Is("list", q) => q # Star
  BY DEF Is, Star, Str
<1>2. ASSUME NEW q, q # Star
      PROVE  /\ logsToOJ(processLogList(q)) = List(objects(q) \o IF more(q) THEN <<Str("+")>> ELSE <<>>)
             /\ ~processLogList(q).IsStar
  <2> DEFINE p == processLogList(q)
  <2>1. p.List = [i \in DOMAIN entries(q) |-> Fields(entries(q)[i], LogKinds, FALSE)]
        /\ p.IsStar = FALSE /\ p.MoreAllowedAtEnd = more(q)
    BY <1>2 DEF processLogList, Each
  <2> HIDE DEF p, entries, more
  <2>2. logsToOJ(p) = List([i \in DOMAIN p.List |-> Map(WriteFields(p.List[i], LogWritten))]
                            \o IF p.MoreAllowedAtEnd THEN <<Str("+")>> ELSE <<>>)
    BY DEF logsToOJ, Each
  <2>3. [i \in DOMAIN p.List |-> Map(WriteFields(p.List[i], LogWritten))] = objects(q)
    BY <2>1 DEF WrittenList
  <2> HIDE DEF objects
  <2>4. logsToOJ(p) = List(objects(q) \o IF more(q) THEN <<Str("+")>> ELSE <<>>)
    BY <2>1, <2>2, <2>3
  <2> QED BY <2>1, <2>4 DEF p
<1>3. w = List(objects(j) \o IF more(j) THEN <<Str("+")>> ELSE <<>>)
  BY <1>1, <1>2
<1>4. Is("list", w) /\ w.list = objects(j) \o IF more(j) THEN <<Str("+")>> ELSE <<>>
  <2> HIDE DEF w, objects, more
  <2> QED BY <1>3 DEF Is, List
<1>5. entries(j) \in Seq(S)
  <2> DEFINE parts == [i \in DOMAIN j.list |-> IF NotMore(j.list[i]) THEN <<j.list[i]>> ELSE <<>>]
  <2>1. Kept(j.list, NotMore) = FlattenSeq(parts) /\ parts = [i \in DOMAIN j.list |-> parts[i]]
    BY DEF Kept, Each
  <2>2. \A i \in DOMAIN j.list : j.list[i] \in S
    OBVIOUS
  <2>3. \A i \in DOMAIN j.list : parts[i] \in Seq(S)
    BY <2>2
  <2> HIDE DEF parts
  <2>4. parts \in Seq(Seq(S))
    BY <2>1, <2>3, MappedInto
  <2> QED BY <2>1, <2>4, FlattenType
<1> HIDE DEF w, entries
<1>6. objects(j) \in Seq(Range(objects(j))) /\ \A i \in DOMAIN objects(j) : objects(j)[i] # Str("+")
  <2>1. objects(j) = [i \in DOMAIN entries(j) |-> objects(j)[i]]
    BY DEF WrittenList
  <2>2. \A i \in DOMAIN objects(j) : objects(j)[i] = Map(WriteFields(Fields(entries(j)[i], LogKinds, FALSE), LogWritten))
    BY DEF WrittenList
  <2>3. \A m : Map(m) # Str("+")
    BY DEF Map, Str
  <2> HIDE DEF objects
  <2>4. objects(j) \in Seq(Range(objects(j)))
    BY <1>5, <2>1, MappedList
  <2> QED BY <2>2, <2>3, <2>4
<1>7. more(j) \in BOOLEAN
  OBVIOUS
<1> HIDE DEF objects, more
<1>8. Kept(w.list, NotMore) = objects(j) /\ ((\E i \in DOMAIN w.list : w.list[i] = Str("+")) <=> more(j))
  BY <1>4, <1>6, <1>7, MoreAgain
<1>9. entries(w) = objects(j) /\ (more(w) <=> more(j))
  BY <1>8 DEF entries, more
<1>10. objects(w) = objects(j)
  <2>1. WrittenList(objects(j), LogKinds, LogWritten) = objects(j)
    BY LogFits, ListAgain DEF objects
  <2> QED BY <1>9, <2>1 DEF objects
<1>11. more(w) = more(j)
  BY <1>9 DEF more
<1>12. logsToOJ(processLogList(w)) = w
  BY <1>1, <1>2, <1>3, <1>4, <1>10, <1>11
<1>13. /\ j # Star /\ w # Star /\ ~processLogList(j).IsStar /\ ~processLogList(w).IsStar
  BY <1>1, <1>2, <1>4
<1> QED BY <1>12, <1>13 DEF w

\* What is expected of a transaction is written again as it is.
LEMMA ResultAgain ==
    ASSUME NEW S, NEW o \in JsonOf(JsonOf(S)), ResultAccepted(o)
    PROVE  LET w == resultToOJ(processTxExpectedResult(o)) IN resultToOJ(processTxExpectedResult(w)) = w
<1> DEFINE list(q) == processLogList(At(q, "logs"))
           logs(q) == [original |-> IF "logs" \in Keys(q) /\ ~list(q).IsStar THEN logsToOJ(list(q)) ELSE Star,
                       unspecified |-> "logs" \notin Keys(q)]
           fields(q) == With(Fields(q, ResultKinds, TRUE), [logs |-> logs(q)])
           w == Map(WriteFields(fields(o), ResultWritten))
<1>1. \A q : resultToOJ(processTxExpectedResult(q)) = Map(WriteFields(fields(q), ResultWritten))
  <2> SUFFICES ASSUME NEW q
               PROVE  resultToOJ(processTxExpectedResult(q)) = Map(WriteFields(fields(q), ResultWritten))
    OBVIOUS
  <2> DEFINE r == processTxExpectedResult(q)
             written == [original    |-> IF r.logs.IsStar THEN Star ELSE logsToOJ(r.logs),
                         unspecified |-> r.logs.IsUnspecified]
  <2>1. r.fields = Fields(q, ResultKinds, TRUE)
        /\ r.logs = IF "logs" \in Keys(q) THEN list(q)
                    ELSE [IsUnspecified |-> TRUE, IsStar |-> TRUE, MoreAllowedAtEnd |-> FALSE, List |-> <<>>]
    BY DEF processTxExpectedResult
  <2>2. resultToOJ(r) = Map(WriteFields(With(r.fields, [logs |-> written]), ResultWritten))
    BY DEF resultToOJ
  <2> HIDE DEF r
  <2>3. written = logs(q)
    <3>1. CASE "logs" \in Keys(q)
      <4>1. r.logs = list(q)
        BY <2>1, <3>1
      <4>2. list(q).IsUnspecified = FALSE
        BY DEF processLogList
      <4> HIDE DEF list
      <4>3. r.logs.IsUnspecified = ("logs" \notin Keys(q))
        BY <3>1, <4>1, <4>2
      <4>4. (IF r.logs.IsStar THEN Star ELSE logsToOJ(r.logs))
                = IF "logs" \in Keys(q) /\ ~list(q).IsStar THEN logsToOJ(list(q)) ELSE Star
        BY <3>1, <4>1
      <4> QED BY <4>3, <4>4
    <3>2. CASE "logs" \notin Keys(q)
      <4>1. r.logs.IsUnspecified = TRUE /\ r.logs.IsStar = TRUE
        BY <2>1, <3>2
      <4> HIDE DEF list
      <4>2. r.logs.IsUnspecified = ("logs" \notin Keys(q))
        BY <3>2, <4>1
      <4>3. (IF r.logs.IsStar THEN Star ELSE logsToOJ(r.logs))
                = IF "logs" \in Keys(q) /\ ~list(q).IsStar THEN logsToOJ(list(q)) ELSE Star
        BY <3>2, <4>1
      <4> QED BY <4>2, <4>3
    <3> QED BY <3>1, <3>2
  <2> HIDE DEF written, logs
  <2> QED BY <2>1, <2>2, <2>3 DEF r
<1> HIDE DEF w
<1>2. \A q : /\ fields(q)["logs"] = logs(q)
             /\ \A k \in DOMAIN ResultKinds : fields(q)[k] = Fields(q, ResultKinds, TRUE)[k]
  <2> SUFFICES ASSUME NEW q
               PROVE  /\ fields(q)["logs"] = logs(q)
                      /\ \A k \in DOMAIN ResultKinds : fields(q)[k] = Fields(q, ResultKinds, TRUE)[k]
    OBVIOUS
  <2> HIDE DEF logs
  <2>1. "logs" \notin DOMAIN ResultKinds
    BY DEF ResultKinds
  <2>2. DOMAIN Fields(q, ResultKinds, TRUE) = DOMAIN ResultKinds
    BY DEF Fields
  <2> QED BY <2>1, <2>2 DEF With
<1>3. /\ ResultWritten \in Seq(Range(ResultWritten)) /\ Distinct(ResultWritten)
      /\ TableFits(ResultKinds, ResultWritten, TRUE, {"logs"})
  BY ResultFits DEF TableFits
<1> HIDE DEF fields
<1>4. Holds(w, fields(o), ResultWritten)
  BY <1>3, WrittenHolds DEF w
<1>5. /\ "logs" \in Keys(w) <=> "logs" \in Keys(o)
      /\ "logs" \in Keys(w) => At(w, "logs") = logs(o).original
  <2> DEFINE x == <<"logs", "specified">>
  <2>1. x[1] = "logs" /\ x[2] = "specified" /\ x \in Range(ResultWritten)
    BY ResultFits
  <2> HIDE DEF x
  <2>2. logs(o).unspecified = ("logs" \notin Keys(o))
    OBVIOUS
  <2> HIDE DEF logs
  <2> QED BY <1>2, <1>4, <2>1, <2>2 DEF Holds, WrittenIf
<1>6. \A q : logs(q).original = (IF "logs" \in Keys(q) /\ ~list(q).IsStar THEN logsToOJ(list(q)) ELSE Star)
             /\ (logs(q).unspecified <=> "logs" \notin Keys(q))
  <2> HIDE DEF list
  <2> QED OBVIOUS
<1> HIDE DEF logs
<1>7. Alike("specified", logs(o), logs(w))
  <2>1. CASE "logs" \notin Keys(o)
    BY <1>5, <1>6, <2>1 DEF Alike, WrittenIf
  <2>2. CASE "logs" \in Keys(o) /\ At(o, "logs") = Star
    <3>1. list(o).IsStar
      BY <2>2 DEF processLogList
    <3>2. At(w, "logs") = Star
      BY <1>5, <1>6, <2>2, <3>1
    <3>3. list(w).IsStar
      BY <3>2 DEF processLogList
    <3> HIDE DEF list
    <3> QED BY <1>5, <1>6, <2>2, <3>1, <3>3 DEF Alike, WrittenIf
  <2>3. CASE "logs" \in Keys(o) /\ At(o, "logs") # Star
    <3> DEFINE j == At(o, "logs")
    <3>1. Is("list", j)
      BY <2>3 DEF ResultAccepted, LogsAccepted
    <3>2. Is("map", o)
      BY DEF ResultAccepted, FieldsAccepted
    <3>3. j \in JsonOf(S)
      BY <2>3, <3>2, JsonParts
    <3> HIDE DEF j
    <3>4. j.list \in Seq(S)
      BY <3>1, <3>3, JsonParts
    <3> DEFINE v == logsToOJ(processLogList(j))
    <3>5. /\ ~processLogList(j).IsStar /\ ~processLogList(v).IsStar
          /\ logsToOJ(processLogList(v)) = v
      BY <3>1, <3>4, LogsAgain
    <3>6. logs(o).original = v
      BY <1>6, <2>3, <3>5 DEF j
    <3> HIDE DEF v
    <3>7. At(w, "logs") = v /\ "logs" \in Keys(w)
      BY <1>5, <2>3, <3>6
    <3>8. logs(w).original = v
      BY <1>6, <3>5, <3>7
    <3> HIDE DEF list
    <3> QED BY <1>5, <1>6, <2>3, <3>6, <3>8 DEF Alike, WrittenIf
  <2> QED BY <2>1, <2>2, <2>3
<1>8. ASSUME NEW u \in BOOLEAN, u = TRUE
      PROVE  WriteFields(fields(w), ResultWritten) = WriteFields(fields(o), ResultWritten)
  <2> DEFINE others == {"logs"}
             before == fields(o)
             after == fields(w)
  <2>1. ASSUME NEW e \in Range(ResultWritten)
        PROVE  IF e[1] \in others THEN Alike(e[2], before[e[1]], after[e[1]])
               ELSE before[e[1]] = Fields(o, ResultKinds, u)[e[1]] /\ after[e[1]] = Fields(w, ResultKinds, u)[e[1]]
    <3>1. CASE e[1] \in others
      <4> DEFINE x == <<"logs", "specified">>
      <4>1. x[1] = e[1] /\ x[2] = "specified" /\ x \in Range(ResultWritten)
        BY <3>1, ResultFits
      <4> HIDE DEF x
      <4>2. e[2] = "specified"
        BY <1>3, <4>1 DEF Distinct
      <4> QED BY <1>2, <1>7, <3>1, <4>2
    <3>2. CASE e[1] \notin others
      <4>1. e[1] \in DOMAIN ResultKinds
        BY <1>3, <3>2 DEF TableFits
      <4> QED BY <1>2, <1>8, <3>2, <4>1
    <3> QED BY <3>1, <3>2
  <2>2. TableFits(ResultKinds, ResultWritten, u, others)
    BY <1>3, <1>8
  <2>3. Holds(w, before, ResultWritten)
    BY <1>4
  <2> HIDE DEF others, before, after, list
  <2>4. WriteFields(after, ResultWritten) = WriteFields(before, ResultWritten)
    BY <2>1, <2>2, <2>3, ObjectAgain
  <2> QED BY <2>4 DEF before, after
<1>9. Map(WriteFields(fields(w), ResultWritten)) = w
  BY <1>8 DEF w
<1> QED BY <1>1, <1>9 DEF w

----------------------------------------------------------------------------
(* The objects of steps *)

\* The accounts of setState, as they are written.
LEMMA AccountsAgain ==
    ASSUME NEW S, NEW j \in JsonOf(JsonOf(JsonOf(JsonOf(JsonOf(S))))), ObjectAccepted("setState", "accounts", j)
    PROVE  LET x == ParseObject("setState", "accounts", j)
               w == WriteObject("setState", "accounts", x)
           IN  /\ WriteObject("setState", "accounts", ParseObject("setState", "accounts", w)) = w
               /\ ParseObject("setState", "accounts", w) = <<>> <=> x = <<>>
<1> DEFINE read(q) == ParseObject("setState", "accounts", q)
           written(q) == WriteObject("setState", "accounts", read(q))
           w == written(j)
           account(i) == AccountToOJ(processAccount(j.map[i][2]))
<1>1. Is("map", j) /\ \A a \in EachOf(j) : AccountAccepted(a)
  BY DEF ObjectAccepted
<1>2. j.map \in Seq(STRING \X JsonOf(JsonOf(JsonOf(JsonOf(S)))))
  BY <1>1, JsonParts
<1>3. ASSUME NEW i \in DOMAIN j.map
      PROVE  AccountToOJ(processAccount(account(i))) = account(i)
  <2>1. j.map[i] \in STRING \X JsonOf(JsonOf(JsonOf(JsonOf(S))))
    BY <1>2
  <2>2. j.map[i][2] \in JsonOf(JsonOf(JsonOf(JsonOf(S)))) /\ AccountAccepted(j.map[i][2])
    BY <1>1, <2>1 DEF EachOf
  <2> QED BY <2>2, AccountAgain
<1>4. \A q : /\ read(q) = [i \in DOMAIN q.map |-> <<q.map[i][1], processAccount(q.map[i][2])>>]
             /\ written(q) = Map([i \in DOMAIN q.map |-> <<q.map[i][1], AccountToOJ(processAccount(q.map[i][2]))>>])
  <2> SUFFICES ASSUME NEW q
               PROVE  /\ read(q) = [i \in DOMAIN q.map |-> <<q.map[i][1], processAccount(q.map[i][2])>>]
                      /\ written(q) = Map([i \in DOMAIN q.map |-> <<q.map[i][1], AccountToOJ(processAccount(q.map[i][2]))>>])
    OBVIOUS
  <2>1. read(q) = [i \in DOMAIN q.map |-> <<q.map[i][1], processAccount(q.map[i][2])>>]
    BY DEF ParseObject, Pairs
  <2> DEFINE x == read(q)
  <2>2. \A x0 : WriteObject("setState", "accounts", x0) = Map([i \in DOMAIN x0 |-> <<x0[i][1], AccountToOJ(x0[i][2])>>])
    BY DEF WriteObject
  <2>3. written(q) = Map([i \in DOMAIN x |-> <<x[i][1], AccountToOJ(x[i][2])>>])
    BY <2>2
  <2> HIDE DEF read
  <2>4. [i \in DOMAIN x |-> <<x[i][1], AccountToOJ(x[i][2])>>]
            = [i \in DOMAIN q.map |-> <<q.map[i][1], AccountToOJ(processAccount(q.map[i][2]))>>]
    BY <2>1
  <2> QED BY <2>1, <2>3, <2>4
<1>5. w = Map([i \in DOMAIN j.map |-> <<j.map[i][1], account(i)>>])
  BY <1>4
<1> HIDE DEF read, w, written
<1>6. w.map = [i \in DOMAIN j.map |-> <<j.map[i][1], account(i)>>]
  <2> HIDE DEF account
  <2> QED BY <1>5 DEF Map
<1>7. written(w) = Map([i \in DOMAIN w.map |-> <<w.map[i][1], AccountToOJ(processAccount(w.map[i][2]))>>])
  BY <1>4
<1> HIDE DEF account
<1>8. [i \in DOMAIN w.map |-> <<w.map[i][1], AccountToOJ(processAccount(w.map[i][2]))>>]
          = [i \in DOMAIN j.map |-> <<j.map[i][1], account(i)>>]
  BY <1>3, <1>6
<1>9. written(w) = w
  BY <1>5, <1>7, <1>8
<1>10. read(w) = <<>> <=> read(j) = <<>>
  <2>1. \A q : read(q) = <<>> <=> DOMAIN q.map = {}
    <3> SUFFICES ASSUME NEW q PROVE read(q) = <<>> <=> DOMAIN q.map = {}
      OBVIOUS
    <3>1. read(q) = [i \in DOMAIN q.map |-> <<q.map[i][1], processAccount(q.map[i][2])>>]
      BY <1>4
    <3> QED BY <3>1
  <2>2. DOMAIN w.map = DOMAIN j.map
    BY <1>6
  <2> QED BY <2>1, <2>2
<1> QED BY <1>9, <1>10 DEF w, read, written

\* The new addresses.
LEMMA NewAddressesAgain ==
    ASSUME NEW j
    PROVE  LET x == ParseObject("setState", "newAddresses", j)
               w == WriteObject("setState", "newAddresses", x)
           IN  /\ WriteObject("setState", "newAddresses", ParseObject("setState", "newAddresses", w)) = w
               /\ ParseObject("setState", "newAddresses", w) = <<>> <=> x = <<>>
<1> DEFINE read(q) == ParseObject("setState", "newAddresses", q)
           written(q) == WriteObject("setState", "newAddresses", read(q))
           list == WrittenList(j.list, NewAddressKinds, NewAddressWritten)
<1>1. \A q : /\ read(q) = [i \in DOMAIN q.list |-> Fields(q.list[i], NewAddressKinds, FALSE)]
             /\ written(q) = List(WrittenList(q.list, NewAddressKinds, NewAddressWritten))
  <2> SUFFICES ASSUME NEW q
               PROVE  /\ read(q) = [i \in DOMAIN q.list |-> Fields(q.list[i], NewAddressKinds, FALSE)]
                      /\ written(q) = List(WrittenList(q.list, NewAddressKinds, NewAddressWritten))
    OBVIOUS
  <2>1. read(q) = [i \in DOMAIN q.list |-> Fields(q.list[i], NewAddressKinds, FALSE)]
    BY DEF ParseObject, Each
  <2>2. \A x0 : WriteObject("setState", "newAddresses", x0)
                    = List([i \in DOMAIN x0 |-> Map(WriteFields(x0[i], NewAddressWritten))])
    BY DEF WriteObject, Each
  <2> DEFINE x == read(q)
  <2>3. written(q) = List([i \in DOMAIN x |-> Map(WriteFields(x[i], NewAddressWritten))])
    BY <2>2
  <2> HIDE DEF read
  <2>4. [i \in DOMAIN x |-> Map(WriteFields(x[i], NewAddressWritten))] = WrittenList(q.list, NewAddressKinds, NewAddressWritten)
    BY <2>1 DEF WrittenList
  <2> QED BY <2>1, <2>3, <2>4
<1> HIDE DEF read, written
<1>2. written(j).list = list
  BY <1>1 DEF List
<1>3. WrittenList(list, NewAddressKinds, NewAddressWritten) = list
  BY NewAddressFits, ListAgain
<1>4. written(written(j)) = written(j)
  BY <1>1, <1>2, <1>3
<1>5. read(written(j)) = <<>> <=> read(j) = <<>>
  <2>1. \A q : read(q) = <<>> <=> DOMAIN q.list = {}
    <3> SUFFICES ASSUME NEW q PROVE read(q) = <<>> <=> DOMAIN q.list = {}
      OBVIOUS
    <3> DEFINE f(i) == Fields(q.list[i], NewAddressKinds, FALSE)
    <3>1. read(q) = [i \in DOMAIN q.list |-> f(i)]
      BY <1>1
    <3> HIDE DEF f
    <3> QED BY <3>1
  <2>2. DOMAIN list = DOMAIN j.list
    BY DEF WrittenList
  <2> QED BY <1>2, <2>1, <2>2
<1> QED BY <1>4, <1>5 DEF written, read

\* The accounts of checkState.
LEMMA CheckAccountsAgain ==
    ASSUME NEW S, NEW j \in JsonOf(JsonOf(JsonOf(JsonOf(JsonOf(S))))), ObjectAccepted("checkState", "accounts", j)
    PROVE  LET w == WriteObject("checkState", "accounts", ParseObject("checkState", "accounts", j))
           IN  WriteObject("checkState", "accounts", ParseObject("checkState", "accounts", w)) = w
<1> DEFINE read(q) == ParseObject("checkState", "accounts", q)
           written(q) == WriteObject("checkState", "accounts", read(q))
           listed(q) == WithoutPlus(q).map
           accounts(q) == [i \in DOMAIN listed(q) |-> <<listed(q)[i][1], CheckAccountToOJ(processCheckAccount(listed(q)[i][2]))>>]
           more(q) == "+" \in Keys(q)
           T == {kv \in STRING \X JsonOf(JsonOf(JsonOf(JsonOf(S)))) : NotPlus(kv)}
           w == written(j)
<1>1. Is("map", j) /\ \A a \in EachOf(WithoutPlus(j)) : CheckAccountAccepted(a)
  BY DEF ObjectAccepted
<1>2. \A q : written(q) = Map(accounts(q) \o Plus(more(q)))
  <2> SUFFICES ASSUME NEW q PROVE written(q) = Map(accounts(q) \o Plus(more(q)))
    OBVIOUS
  <2> DEFINE x == read(q)
  <2>1. x.Accounts = [i \in DOMAIN listed(q) |-> <<listed(q)[i][1], processCheckAccount(listed(q)[i][2])>>]
        /\ x.MoreAccountsAllowed = more(q)
    BY DEF ParseObject, Pairs
  <2> HIDE DEF x, listed, more
  <2>2. WriteObject("checkState", "accounts", x)
            = Map([i \in DOMAIN x.Accounts |-> <<x.Accounts[i][1], CheckAccountToOJ(x.Accounts[i][2])>>] \o Plus(x.MoreAccountsAllowed))
    BY DEF WriteObject
  <2>3. [i \in DOMAIN x.Accounts |-> <<x.Accounts[i][1], CheckAccountToOJ(x.Accounts[i][2])>>] = accounts(q)
    BY <2>1
  <2> HIDE DEF accounts
  <2> QED BY <2>1, <2>2, <2>3 DEF x
<1>3. listed(j) \in Seq(T)
  <2> DEFINE V == STRING \X JsonOf(JsonOf(JsonOf(JsonOf(S))))
  <2>1. j.map \in Seq(V)
    BY <1>1, JsonParts
  <2>2. listed(j) = Kept(j.map, NotPlus)
    BY DEF WithoutPlus, Map
  <2> HIDE DEF V, listed
  <2>3. Kept(j.map, NotPlus) \in Seq({x \in V : NotPlus(x)})
    BY <2>1, PlusKept
  <2> QED BY <2>2, <2>3 DEF V
<1>4. \A i \in DOMAIN listed(j) : listed(j)[i] \in T
  <2> HIDE DEF T, listed
  <2> QED BY <1>3
<1>5. ASSUME NEW i \in DOMAIN listed(j)
      PROVE  LET a == CheckAccountToOJ(processCheckAccount(listed(j)[i][2]))
             IN  CheckAccountToOJ(processCheckAccount(a)) = a
  <2>1. listed(j)[i][2] \in JsonOf(JsonOf(JsonOf(JsonOf(S))))
    BY <1>4
  <2>2. CheckAccountAccepted(listed(j)[i][2])
    BY <1>1 DEF EachOf
  <2> QED BY <2>1, <2>2, CheckAccountAgain
<1> HIDE DEF listed
<1>6. accounts(j) \in Seq(Range(accounts(j))) /\ \A i \in DOMAIN accounts(j) : accounts(j)[i][1] # "+"
  <2>1. accounts(j) = [i \in DOMAIN listed(j) |-> accounts(j)[i]]
    OBVIOUS
  <2>2. \A i \in DOMAIN accounts(j) : accounts(j)[i][1] = listed(j)[i][1] /\ i \in DOMAIN listed(j)
    OBVIOUS
  <2>3. \A i \in DOMAIN listed(j) : listed(j)[i][1] # "+"
    BY <1>4 DEF NotPlus
  <2> HIDE DEF accounts, T
  <2> QED BY <1>3, <2>1, <2>2, <2>3, MappedList
<1>7. w = Map(accounts(j) \o Plus(more(j))) /\ more(j) \in BOOLEAN
  BY <1>2
<1> HIDE DEF w, written
<1>8. WithoutPlus(w) = Map(accounts(j)) /\ (more(w) <=> more(j))
  <2> HIDE DEF accounts
  <2> QED BY <1>6, <1>7, PlusAgain
<1>9. listed(w) = accounts(j)
  <2> HIDE DEF accounts
  <2> QED BY <1>8 DEF listed, Map
<1>10. accounts(w) = accounts(j)
  BY <1>5, <1>9
<1>11. more(w) = more(j)
  BY <1>8
<1> HIDE DEF accounts, more
<1>12. written(w) = w
  BY <1>2, <1>7, <1>10, <1>11
<1> QED BY <1>12 DEF w, written

\* Every object of a step is written again as it is.
LEMMA MembersAgain ==
    ASSUME NEW S, NEW type \in StepTypes, NEW k \in StepObjects(type),
           NEW j \in JsonOf(JsonOf(JsonOf(JsonOf(JsonOf(S))))), ObjectAccepted(type, k, j)
    PROVE  LET x == ParseObject(type, k, j)
               w == WriteObject(type, k, x)
           IN  /\ WriteObject(type, k, ParseObject(type, k, w)) = w
               /\ type = "setState" /\ k \in {"accounts", "newAddresses"}
                    => (ParseObject(type, k, w) = <<>> <=> x = <<>>)
<1> DEFINE again(t, l) ==
               LET x == ParseObject(t, l, j)
                   w == WriteObject(t, l, x)
               IN  /\ WriteObject(t, l, ParseObject(t, l, w)) = w
                   /\ t = "setState" /\ l \in {"accounts", "newAddresses"}
                        => (ParseObject(t, l, w) = <<>> <=> x = <<>>)
<1>0. "setState" \notin TxTypes /\ "checkState" \notin TxTypes
  BY DEF TxTypes
<1>1. CASE type = "setState" /\ k = "accounts"
  <2>1. again("setState", "accounts")
    BY <1>1, AccountsAgain
  <2> HIDE DEF again
  <2>2. again(type, k)
    BY <1>1, <2>1
  <2> QED BY <2>2 DEF again
<1>2. CASE type = "setState" /\ k = "newAddresses"
  <2>1. again("setState", "newAddresses")
    BY <1>2, NewAddressesAgain
  <2> HIDE DEF again
  <2>2. again(type, k)
    BY <1>2, <2>1
  <2> QED BY <2>2 DEF again
<1>3. CASE type = "checkState" /\ k = "accounts"
  <2>1. again("checkState", "accounts")
    BY <1>3, CheckAccountsAgain
  <2> HIDE DEF again
  <2>2. again(type, k)
    BY <1>3, <2>1
  <2> QED BY <2>2 DEF again
<1>4. CASE type = "setState" /\ k \in {"previousBlockInfo", "currentBlockInfo"}
  <2> DEFINE written(q) == WriteFields(Fields(q, BlockInfoKinds, TRUE), BlockInfoWritten)
  <2>1. \A q : WriteObject(type, k, ParseObject(type, k, q)) = Map(written(q))
    BY <1>4 DEF ParseObject, WriteObject
  <2>2. written(Map(written(j))) = written(j)
    BY BlockInfoFits, OptionalAgain
  <2> HIDE DEF written
  <2> QED BY <1>4, <2>1, <2>2
<1>5. CASE type \in TxTypes /\ k = "tx"
  <2> DEFINE written(q) == transactionToScenarioOJ(type, processTx(type, q))
  <2>1. \A q : WriteObject(type, k, ParseObject(type, k, q)) = written(q)
    BY <1>5 DEF ParseObject, WriteObject, TxTypes
  <2>2. written(written(j)) = written(j)
    BY TxAgain
  <2> HIDE DEF written
  <2> QED BY <1>0, <1>5, <2>1, <2>2
<1>6. CASE type \in TxTypes /\ k = "expect"
  <2> DEFINE written(q) == resultToOJ(processTxExpectedResult(q))
  <2>1. \A q : WriteObject(type, k, ParseObject(type, k, q)) = written(q)
    BY <1>6 DEF ParseObject, WriteObject, TxTypes
  <2>2. written(written(j)) = written(j)
    <3>1. ResultAccepted(j)
      BY <1>6 DEF ObjectAccepted, TxTypes
    <3> QED BY <3>1, ResultAgain
  <2> HIDE DEF written
  <2> QED BY <1>0, <1>6, <2>1, <2>2
<1>7. CASE type \in TxTypes /\ k \notin {"tx", "expect"}
  BY <1>7 DEF StepObjects, TxTypes
<1>8. CASE type \notin TxTypes /\ type \notin {"setState", "checkState"}
  BY <1>8 DEF StepObjects, TxTypes, StepTypes
<1>9. type = "setState" => k \in {"accounts", "newAddresses", "previousBlockInfo", "currentBlockInfo"}
  <2>1. StepObjects("setState") = {"accounts", "newAddresses", "previousBlockInfo", "currentBlockInfo"}
    BY DEF StepObjects, TxTypes
  <2> QED BY <2>1
<1>10. type = "checkState" => k = "accounts"
  <2>1. StepObjects("checkState") = {"accounts"}
    BY DEF StepObjects, TxTypes
  <2> QED BY <2>1
<1> QED BY <1>1, <1>2, <1>3, <1>4, <1>5, <1>6, <1>7, <1>8, <1>9, <1>10

----------------------------------------------------------------------------
(* Steps *)

\* The transaction is always written, and before what is expected of it.
LEMMA TxBeforeExpect ==
    ASSUME NEW fields
    PROVE  \A i \in DOMAIN WriteFields(fields, TxStepWritten) :
                WriteFields(fields, TxStepWritten)[i][1] = "expect" =>
                    \E n \in 1..(i - 1) : WriteFields(fields, TxStepWritten)[n][1] = "tx"
<1> DEFINE table == TxStepWritten
           R == Range(table)
           A == {e \in R : e[1] \notin {"tx", "expect"}}
           parts == KeptOf(fields, table)
           written == FlattenSeq(parts)
           w == WriteFields(fields, table)
<1>1. w = [k \in DOMAIN written |-> Entry(fields, written[k])]
  BY DEF WriteFields, Kept, Each, Entry, KeptOf
<1>2. /\ DOMAIN table = 1..5 /\ Len(table) = 5 /\ table \in Seq(R)
      /\ table[1][1] = "id" /\ table[2][1] = "comment" /\ table[3][1] = "displayLogs"
      /\ table[4] = <<"tx", "always">> /\ table[4][1] = "tx" /\ table[4][2] = "always"
  BY DEF TxStepWritten, Range
<1>3. \A i \in 1..5 : table[i] \in R
  BY <1>2 DEF Range
<1> HIDE DEF table
<1>4. table[1] \in A /\ table[2] \in A /\ table[3] \in A
  <2> HIDE DEF R
  <2> QED BY <1>2, <1>3
<1>5. /\ parts \in Seq(Seq(R)) /\ DOMAIN parts = 1..5
      /\ \A i \in 1..5 : parts[i] \in {<<>>, <<table[i]>>}
      /\ parts[4] = <<table[4]>>
      /\ \A i \in 1..5 : parts[i] \in Seq(R)
  <2>1. parts = [i \in 1..5 |-> parts[i]] /\ \A i \in 1..5 : parts[i] \in {<<>>, <<table[i]>>}
    BY <1>2 DEF KeptOf
  <2>2. parts[4] = <<table[4]>>
    <3>1. WrittenIf("always", fields["tx"])
      BY DEF WrittenIf
    <3>2. 4 \in DOMAIN table /\ WrittenIf(table[4][2], fields[table[4][1]])
      BY <1>2, <3>1
    <3> QED BY <3>2 DEF KeptOf
  <2> HIDE DEF parts, R
  <2>3. \A i \in 1..5 : parts[i] \in Seq(R)
    <3>1. \A x \in R : <<x>> \in Seq(R)
      OBVIOUS
    <3>2. <<>> \in Seq(R)
      OBVIOUS
    <3>3. \A i \in 1..5 : parts[i] = <<>> \/ parts[i] = <<table[i]>>
      BY <2>1
    <3> QED BY ONLY <1>3, <3>1, <3>2, <3>3
  <2>4. parts \in Seq(Seq(R))
    BY <1>2, <2>1, <2>3, MappedInto
  <2>5. DOMAIN parts = 1..5
    BY <2>1
  <2> QED BY <2>1, <2>2, <2>3, <2>4, <2>5
<1>6. Len(parts) = 5
  BY <1>5
<1>7. PICK g \in [0..5 -> Seq(R)] :
          /\ g[0] = <<>> /\ \A n \in 1..5 : g[n] = g[n - 1] \o parts[n]
          /\ written = g[5]
  <2> HIDE DEF parts, R
  <2>1. \E g \in [0..Len(parts) -> Seq(R)] :
            /\ g[0] = <<>> /\ \A n \in 1..Len(parts) : g[n] = g[n - 1] \o parts[n]
            /\ written = g[Len(parts)]
    BY <1>5, FlattenSteps DEF written
  <2> HIDE DEF written
  <2> QED BY ONLY <1>6, <2>1
<1> HIDE DEF parts, written, R
<1>7a. /\ g[1] = g[0] \o parts[1] /\ g[2] = g[1] \o parts[2] /\ g[3] = g[2] \o parts[3]
       /\ g[4] = g[3] \o parts[4] /\ g[5] = g[4] \o parts[5]
  <2>1. 1 - 1 = 0 /\ 2 - 1 = 1 /\ 3 - 1 = 2 /\ 4 - 1 = 3 /\ 5 - 1 = 4
    OBVIOUS
  <2>2. /\ g[1] = g[1 - 1] \o parts[1] /\ g[2] = g[2 - 1] \o parts[2] /\ g[3] = g[3 - 1] \o parts[3]
        /\ g[4] = g[4 - 1] \o parts[4] /\ g[5] = g[5 - 1] \o parts[5]
    <3>1. 1 \in 1..5 /\ 2 \in 1..5 /\ 3 \in 1..5 /\ 4 \in 1..5 /\ 5 \in 1..5
      OBVIOUS
    <3> QED BY ONLY <1>7, <3>1
  <2> QED BY ONLY <2>1, <2>2
<1>7b. \A n \in 1..5 : parts[n] \in Seq(R) /\ g[n] \in Seq(R)
  <2>1. \A n \in 1..5 : n \in 0..5
    OBVIOUS
  <2> QED BY <1>5, <1>7, <2>1
<1>8. g[3] \in Seq(A)
  <2>1. parts[1] \in Seq(A) /\ parts[2] \in Seq(A) /\ parts[3] \in Seq(A)
    <3> HIDE DEF A
    <3>1. ASSUME NEW i \in 1..5, table[i] \in A PROVE parts[i] \in Seq(A)
      <4>1. \A x \in A : <<x>> \in Seq(A)
        OBVIOUS
      <4>2. <<>> \in Seq(A)
        OBVIOUS
      <4>3. parts[i] = <<>> \/ parts[i] = <<table[i]>>
        BY <1>5
      <4> QED BY ONLY <3>1, <4>1, <4>2, <4>3
    <3>2. 1 \in 1..5 /\ 2 \in 1..5 /\ 3 \in 1..5
      OBVIOUS
    <3> QED BY ONLY <1>4, <3>1, <3>2
  <2>2. g[1] = g[0] \o parts[1] /\ g[2] = g[1] \o parts[2] /\ g[3] = g[2] \o parts[3]
    BY <1>7a
  <2> HIDE DEF A
  <2>3. g[0] \in Seq(A)
    BY <1>7
  <2>4. g[1] \in Seq(A)
    BY <2>1, <2>2, <2>3, ConcatProperties
  <2>5. g[2] \in Seq(A)
    BY <2>1, <2>2, <2>4, ConcatProperties
  <2> QED BY <2>1, <2>2, <2>5, ConcatProperties
<1> DEFINE m == Len(g[3])
<1>9. m \in Nat /\ \A i \in 1..m : g[3][i] \in A
  <2> HIDE DEF A
  <2> QED BY <1>8
<1>10. /\ g[4] \in Seq(R) /\ Len(g[4]) = m + 1 /\ g[4][m + 1] = table[4]
       /\ \A i \in 1..m : g[4][i] = g[3][i]
  <2>1. g[4] = g[3] \o <<table[4]>> /\ g[3] \in Seq(R) /\ <<table[4]>> \in Seq(R)
    <3>1. table[4] \in R
      BY <1>3
    <3> QED BY <1>5, <1>7a, <1>7b, <3>1
  <2>2. Len(<<table[4]>>) = 1 /\ <<table[4]>>[1] = table[4]
    OBVIOUS
  <2> DEFINE one == <<table[4]>>
  <2> HIDE DEF one
  <2>3. /\ g[3] \o one \in Seq(R) /\ Len(g[3] \o one) = m + Len(one)
        /\ \A i \in 1..(m + Len(one)) : (g[3] \o one)[i] = IF i <= m THEN g[3][i] ELSE one[i - m]
    BY <2>1, ConcatProperties DEF one
  <2> HIDE DEF m
  <2>4. m + 1 \in 1..(m + Len(one)) /\ ~(m + 1 <= m) /\ (m + 1) - m = 1 /\ Len(one) = 1 /\ one[1] = table[4]
    BY <1>9, <2>2 DEF one
  <2>5. \A i \in 1..m : i \in 1..(m + Len(one)) /\ i <= m
    BY <1>9, <2>4
  <2>6. g[4] = g[3] \o one
    BY <2>1 DEF one
  <2> QED BY <2>3, <2>4, <2>5, <2>6
<1>11. g[5] \in Seq(R) /\ \A i \in 1..(m + 1) : i \in DOMAIN g[5] /\ g[5][i] = g[4][i]
  <2>1. g[5] = g[4] \o parts[5] /\ parts[5] \in Seq(R)
    BY <1>7a, <1>7b
  <2> HIDE DEF m
  <2>2. DOMAIN g[4] = 1..(m + 1)
    BY <1>10
  <2>3. g[4] \o parts[5] \in Seq(R) /\ \A i \in DOMAIN g[4] : i \in DOMAIN (g[4] \o parts[5]) /\ (g[4] \o parts[5])[i] = g[4][i]
    BY <1>10, <2>1, ConcatHas
  <2> QED BY <2>1, <2>2, <2>3
<1>12. DOMAIN w = DOMAIN g[5] /\ \A i \in DOMAIN w : w[i][1] = g[5][i][1]
  BY <1>1, <1>7 DEF Entry
<1>13. ASSUME NEW i \in DOMAIN w, w[i][1] = "expect" PROVE \E n \in 1..(i - 1) : w[n][1] = "tx"
  <2>1. i \in DOMAIN g[5] /\ g[5][i][1] = "expect"
    BY <1>12, <1>13
  <2>2. i \in Nat /\ 1 <= i
    BY <1>11, <2>1
  <2>3. ~(i <= m)
    <3> SUFFICES ASSUME i <= m PROVE FALSE
      OBVIOUS
    <3> HIDE DEF m
    <3>1. i \in 1..m /\ i \in 1..(m + 1)
      BY <1>9, <2>2
    <3>2. g[5][i] \in A
      BY <1>9, <1>10, <1>11, <3>1
    <3> QED BY <2>1, <3>2
  <2> HIDE DEF m, A
  <2>4. i # m + 1
    <3> SUFFICES ASSUME i = m + 1 PROVE FALSE
      OBVIOUS
    <3>1. m + 1 \in 1..(m + 1)
      BY <1>9
    <3>2. g[5][m + 1] = table[4]
      BY <1>10, <1>11, <3>1
    <3> QED BY <1>2, <2>1, <3>2
  <2>5. m + 1 \in 1..(i - 1) /\ m + 1 \in 1..(m + 1)
    BY <1>9, <2>2, <2>3, <2>4
  <2>6. g[5][m + 1] = table[4] /\ m + 1 \in DOMAIN g[5]
    BY <1>10, <1>11, <2>5
  <2>7. w[m + 1][1] = "tx"
    BY <1>2, <1>12, <2>6
  <2> QED BY <2>5, <2>7
<1> QED BY <1>13 DEF w, table

\* When the lines about the objects of a step are written, and no line is about its type.
LEMMA StepRows ==
    ASSUME NEW type \in StepTypes, NEW e \in Range(StepWritten(type))
    PROVE  /\ e[1] # "step" /\ e[1] # "txId"
           /\ e[1] \in StepObjects(type) =>
                /\ e[1] \notin DOMAIN StepKinds(type)
                /\ \/ e[2] = "specified"
                   \/ e[2] = "nonempty" /\ type = "setState" /\ e[1] \in {"accounts", "newAddresses"}
                   \/ e[2] = "always" /\ type = "checkState" /\ e[1] = "accounts"
                   \/ e[2] = "always" /\ type \in TxTypes /\ e[1] = "tx"
<1>1. CASE type = "externalSteps"
  <2>1. StepWritten(type) = << <<"comment", "original">>, <<"path", "always">> >> /\ StepObjects(type) = {}
    BY <1>1 DEF StepWritten, StepObjects, TxTypes
  <2> QED BY <2>1 DEF Range
<1>2. CASE type = "setState"
  <2>1. /\ StepWritten(type) = WrittenOfSetState /\ StepKinds(type) = KindsOfSetState
        /\ StepObjects(type) = {"accounts", "newAddresses", "previousBlockInfo", "currentBlockInfo"}
    BY <1>2 DEF StepWritten, StepKinds, StepObjects, TxTypes, WrittenOfSetState, KindsOfSetState
  <2>2. \A d \in Range(WrittenOfSetState) :
            \/ d = <<"id", "original">> \/ d = <<"comment", "original">>
            \/ d = <<"accounts", "nonempty">> \/ d = <<"newAddresses", "nonempty">>
            \/ d = <<"previousBlockInfo", "specified">> \/ d = <<"currentBlockInfo", "specified">>
            \/ d = <<"blockHashes", "nonempty">>
    BY DEF WrittenOfSetState, Range
  <2>3. DOMAIN KindsOfSetState = {"comment", "id", "blockHashes"}
    BY DEF KindsOfSetState
  <2> QED BY <1>2, <2>1, <2>2, <2>3
<1>3. CASE type = "checkState"
  <2>1. /\ StepWritten(type) = WrittenOfCheckState /\ StepKinds(type) = KindsOfCheckState
        /\ StepObjects(type) = {"accounts"}
    BY <1>3 DEF StepWritten, StepKinds, StepObjects, TxTypes, WrittenOfCheckState, KindsOfCheckState
  <2>2. \A d \in Range(WrittenOfCheckState) :
            d = <<"id", "original">> \/ d = <<"comment", "original">> \/ d = <<"accounts", "always">>
    BY DEF WrittenOfCheckState, Range
  <2>3. DOMAIN KindsOfCheckState = {"comment", "id"}
    BY DEF KindsOfCheckState
  <2> QED BY <1>3, <2>1, <2>2, <2>3
<1>4. CASE type = "dumpState"
  <2>1. StepWritten(type) = << <<"comment", "original">> >> /\ StepObjects(type) = {}
    BY <1>4 DEF StepWritten, StepObjects, TxTypes
  <2> QED BY <2>1 DEF Range
<1>5. CASE type \in TxTypes
  <2>1. /\ StepWritten(type) = TxStepWritten /\ StepKinds(type) = KindsOfTxStep
        /\ StepObjects(type) = {"tx", "expect"}
    BY <1>5 DEF StepWritten, StepKinds, StepObjects, TxTypes, KindsOfTxStep
  <2>2. \A d \in Range(TxStepWritten) :
            \/ d = <<"id", "original">> \/ d = <<"comment", "original">> \/ d = <<"displayLogs", "true">>
            \/ d = <<"tx", "always">> \/ d = <<"expect", "specified">>
    BY DEF TxStepWritten, Range
  <2>3. DOMAIN KindsOfTxStep = {"comment", "id", "displayLogs"}
    BY DEF KindsOfTxStep
  <2> QED BY <1>5, <2>1, <2>2, <2>3
<1> QED BY <1>1, <1>2, <1>3, <1>4, <1>5 DEF StepTypes

\* The other name of an id changes no value.
LEMMA StepParts ==
    ASSUME NEW S, NEW j \in JsonOf(S), Is("map", j)
    PROVE  \A k \in Keys(Step(j)) : At(Step(j), k) \in S
<1>1. j.map \in Seq(STRING \X S)
  BY JsonParts
<1>2. \A i \in DOMAIN j.map : j.map[i][2] \in S
  <2>1. \A i \in DOMAIN j.map : j.map[i] \in STRING \X S
    BY <1>1
  <2> QED BY <2>1
<1>3. DOMAIN Step(j).map = DOMAIN j.map /\ \A i \in DOMAIN j.map : Step(j).map[i][2] = j.map[i][2]
  <2>1. CASE TypeOf(j) \in TxTypes
    BY <2>1 DEF Step, Renamed, Map
  <2>2. CASE TypeOf(j) \notin TxTypes
    BY <2>2 DEF Step
  <2> QED BY <2>1, <2>2
<1>4. ASSUME NEW k \in Keys(Step(j)) PROVE At(Step(j), k) \in S
  <2> DEFINE o == Step(j)
             n == CHOOSE i \in DOMAIN o.map : o.map[i][1] = k
  <2>1. \E i \in DOMAIN o.map : o.map[i][1] = k
    BY DEF Keys
  <2> HIDE DEF o
  <2>2. n \in DOMAIN o.map
    BY <2>1
  <2>3. At(o, k) = o.map[n][2]
    BY DEF At
  <2> HIDE DEF n
  <2>4. At(o, k) \in S
    BY <1>2, <1>3, <2>2, <2>3 DEF o
  <2> QED BY <2>4 DEF o
<1> QED BY <1>4

\* What the writer knows of a step: its fields, and its objects as fields.
WrittenMember(type, o, k) ==
    IF k \in Keys(o)
    THEN Read(ParseObject(type, k, At(o, k)), WriteObject(type, k, ParseObject(type, k, At(o, k))))
    ELSE Missing("object", TRUE)
WrittenMembers(type, o) == [k \in StepObjects(type) |-> WrittenMember(type, o, k)]
FieldsOfStep(type, o) == With(Fields(o, StepKinds(type), TRUE), WrittenMembers(type, o))

\* The writer prints the type first, then those.
LEMMA StepPrinted ==
    ASSUME NEW j
    PROVE  LET type == TypeOf(j)
           IN  StepToOJ(processScenarioStep(j))
                   = Map(<< <<"step", Str(type)>> >> \o WriteFields(FieldsOfStep(type, Step(j)), StepWritten(type)))
<1> DEFINE step == processScenarioStep(j)
           type == TypeOf(j)
           o == Step(j)
           objects == [k \in StepObjects(step.type) |->
                        IF k \in DOMAIN step.objects
                        THEN Read(step.objects[k], WriteObject(step.type, k, step.objects[k]))
                        ELSE Missing("object", TRUE)]
<1>1. /\ step.type = type /\ step.fields = Fields(o, StepKinds(type), TRUE)
      /\ step.objects = [k \in Keys(o) \intersect StepObjects(type) |-> ParseObject(type, k, At(o, k))]
  BY DEF processScenarioStep
<1>2. StepToOJ(step) = Map(<< <<"step", Str(step.type)>> >> \o WriteFields(With(step.fields, objects), StepWritten(step.type)))
  BY DEF StepToOJ
<1> HIDE DEF step, type, o
<1>3. objects = WrittenMembers(type, o)
  BY <1>1 DEF WrittenMembers, WrittenMember
<1> HIDE DEF objects
<1>4. StepToOJ(step) = Map(<< <<"step", Str(type)>> >> \o WriteFields(FieldsOfStep(type, o), StepWritten(type)))
  BY <1>1, <1>2, <1>3 DEF FieldsOfStep
<1> QED BY <1>4 DEF step, type, o

\* Lines about objects are about those, the others about the fields.
LEMMA StepLines ==
    ASSUME NEW type \in StepTypes, NEW o, NEW e \in Range(StepWritten(type))
    PROVE  FieldsOfStep(type, o)[e[1]]
               = IF e[1] \in StepObjects(type) THEN WrittenMember(type, o, e[1])
                 ELSE Fields(o, StepKinds(type), TRUE)[e[1]]
<1> DEFINE fields == Fields(o, StepKinds(type), TRUE)
           objects == WrittenMembers(type, o)
<1>1. DOMAIN fields = DOMAIN StepKinds(type)
  BY DEF Fields
<1>2. DOMAIN objects = StepObjects(type) /\ \A k \in StepObjects(type) : objects[k] = WrittenMember(type, o, k)
  BY DEF WrittenMembers
<1>3. e[1] \in StepObjects(type) => e[1] \notin DOMAIN StepKinds(type)
  BY StepRows
<1>4. e[1] \in DOMAIN StepKinds(type) \union StepObjects(type)
  BY StepFits DEF TableFits
<1>5. FieldsOfStep(type, o) = With(fields, objects)
  BY DEF FieldsOfStep
<1> HIDE DEF fields, objects
<1>6. FieldsOfStep(type, o)[e[1]] = IF e[1] \in StepObjects(type) THEN WrittenMember(type, o, e[1]) ELSE fields[e[1]]
  BY <1>1, <1>2, <1>3, <1>4, <1>5 DEF With
<1> QED BY <1>6 DEF fields

\* What was written after the type has the type, and nothing by another name.
LEMMA TypeWritten ==
    ASSUME NEW type \in StepTypes, NEW fields
    PROVE  LET table == StepWritten(type)
               first == << <<"step", Str(type)>> >>
               w == Map(first \o WriteFields(fields, table))
           IN  /\ Is("map", w) /\ TypeOf(w) = type /\ Step(w) = w
               /\ Holds(w, fields, table)
<1> DEFINE table == StepWritten(type)
           first == << <<"step", Str(type)>> >>
           written == WriteFields(fields, table)
           all == first \o written
           w == Map(all)
<1>1. table \in Seq(Range(table)) /\ Distinct(table)
  BY StepFits DEF TableFits
<1>2. \A e \in Range(table) : e[1] # "step" /\ e[1] # "txId"
  BY StepRows
<1>3. /\ first \in Seq(Range(first)) /\ Len(first) = 1 /\ DOMAIN first = {1}
      /\ first[1][1] = "step" /\ first[1][2] = Str(type) /\ first[1] = <<first[1][1], first[1][2]>>
  BY DEF Range
<1> HIDE DEF first, table
<1>4. /\ written \in Seq(Range(written))
      /\ \A i \in DOMAIN written : /\ \E e \in Range(table) : written[i][1] = e[1]
                                   /\ written[i] = <<written[i][1], written[i][2]>>
  BY <1>1, WrittenKeys
<1>5. Holds(w, fields, table)
  <2>1. \A i \in DOMAIN first : \A e \in Range(table) : first[i][1] # e[1]
    BY <1>2, <1>3
  <2> QED BY <1>1, <1>3, <2>1, WrittenHolds
<1> HIDE DEF written
<1>6. /\ all \in Seq(Range(first) \union Range(written)) /\ Len(all) = 1 + Len(written)
      /\ \A i \in 1..Len(all) : all[i] = IF i <= 1 THEN first[i] ELSE written[i - 1]
  <2> DEFINE R == Range(first) \union Range(written)
  <2>1. first \in Seq(R) /\ written \in Seq(R)
    BY <1>3, <1>4
  <2> HIDE DEF R
  <2>2. /\ all \in Seq(R) /\ Len(all) = Len(first) + Len(written)
        /\ \A i \in 1..(Len(first) + Len(written)) : all[i] = IF i <= Len(first) THEN first[i] ELSE written[i - Len(first)]
    BY <2>1, ConcatProperties
  <2> QED BY <1>3, <2>2 DEF R
<1>7. Len(written) \in Nat /\ DOMAIN written = 1..Len(written)
  BY <1>4
<1>8. DOMAIN all = 1..(1 + Len(written))
  BY <1>6, <1>7
<1>9. /\ 1 \in DOMAIN all /\ all[1] = first[1]
      /\ \A i \in DOMAIN all : i # 1 => i - 1 \in DOMAIN written /\ all[i] = written[i - 1]
  BY <1>6, <1>7, <1>8
<1> HIDE DEF all
<1>10. \A i \in DOMAIN all : all[i] = <<all[i][1], all[i][2]>> /\ all[i][1] # "txId" /\ (all[i][1] = "step" <=> i = 1)
  <2> SUFFICES ASSUME NEW i \in DOMAIN all
               PROVE  all[i] = <<all[i][1], all[i][2]>> /\ all[i][1] # "txId" /\ (all[i][1] = "step" <=> i = 1)
    OBVIOUS
  <2>1. CASE i = 1
    BY <1>3, <1>9, <2>1
  <2>2. CASE i # 1
    <3>1. i - 1 \in DOMAIN written /\ all[i] = written[i - 1]
      BY <1>9, <2>2
    <3> QED BY <1>2, <1>4, <2>2, <3>1
  <2> QED BY <2>1, <2>2
<1>11. w.map = all /\ Is("map", w)
  BY DEF Map, Is
<1>12. TypeOf(w) = type
  <2> DEFINE n == CHOOSE i \in DOMAIN w.map : w.map[i][1] = "step"
  <2>1. n = 1
    BY <1>9, <1>10, <1>11
  <2>2. At(w, "step") = w.map[n][2]
    BY DEF At
  <2> HIDE DEF n
  <2>3. At(w, "step") = Str(type)
    BY <1>3, <1>9, <1>11, <2>1, <2>2
  <2> QED BY <2>3 DEF TypeOf, Str
<1>13. Step(w) = w
  <2>1. Renamed(w, StepAlias) = w
    <3>1. DOMAIN StepAlias = {"txId"}
      BY DEF StepAlias
    <3>2. all = [i \in DOMAIN all |-> <<all[i][1], all[i][2]>>]
      <4>1. all = [i \in DOMAIN all |-> all[i]]
        BY <1>6
      <4> QED BY <1>10, <4>1
    <3>3. [i \in DOMAIN all |-> <<IF all[i][1] \in DOMAIN StepAlias THEN StepAlias[all[i][1]] ELSE all[i][1], all[i][2]>>]
              = [i \in DOMAIN all |-> <<all[i][1], all[i][2]>>]
      BY <1>10, <3>1
    <3> QED BY <1>11, <3>2, <3>3 DEF Renamed, w
  <2> QED BY <2>1 DEF Step
<1> QED BY <1>5, <1>11, <1>12, <1>13 DEF w, all, written, first, table

\* An object of a step is written again as it is, and the writer finds what it needs.
LEMMA MemberWritten ==
    ASSUME NEW S, NEW type \in StepTypes, NEW o, NEW w, NEW e \in Range(StepWritten(type)),
           e[1] \in StepObjects(type),
           e[1] \in Keys(o) => /\ At(o, e[1]) \in JsonOf(JsonOf(JsonOf(JsonOf(JsonOf(S)))))
                               /\ ObjectAccepted(type, e[1], At(o, e[1])),
           type = "checkState" => "accounts" \in Keys(o),
           type \in TxTypes => "tx" \in Keys(o),
           Holds(w, FieldsOfStep(type, o), StepWritten(type))
    PROVE  Alike(e[2], WrittenMember(type, o, e[1]), WrittenMember(type, w, e[1]))
<1> DEFINE k == e[1]
           v == WrittenMember(type, o, k)
           z == WrittenMember(type, w, k)
           x == ParseObject(type, k, At(o, k))
           y == WriteObject(type, k, x)
<1>1. /\ k \in Keys(w) <=> WrittenIf(e[2], v)
      /\ k \in Keys(w) => At(w, k) = v.original
  BY StepLines DEF Holds
<1>2. \/ e[2] = "specified"
      \/ e[2] = "nonempty" /\ type = "setState" /\ k \in {"accounts", "newAddresses"}
      \/ e[2] = "always" /\ k \in Keys(o)
  BY StepRows
<1>3. CASE k \in Keys(o)
  <2>1. /\ WriteObject(type, k, ParseObject(type, k, y)) = y
        /\ type = "setState" /\ k \in {"accounts", "newAddresses"}
             => (ParseObject(type, k, y) = <<>> <=> x = <<>>)
    BY <1>3, MembersAgain
  <2>2. v = Read(x, y)
    BY <1>3 DEF WrittenMember
  <2> HIDE DEF x, y, v
  <2>3. v.value = x /\ v.original = y /\ v.unspecified = FALSE
    BY <2>2 DEF Read
  <2>4. CASE k \in Keys(w)
    <3>1. At(w, k) = y
      BY <1>1, <2>3, <2>4
    <3>2. z = Read(ParseObject(type, k, y), WriteObject(type, k, ParseObject(type, k, y)))
      BY <2>4, <3>1 DEF WrittenMember
    <3> HIDE DEF z
    <3>3. z.value = ParseObject(type, k, y) /\ z.original = y /\ z.unspecified = FALSE
      BY <2>1, <3>2 DEF Read
    <3>4. WrittenIf(e[2], v) <=> WrittenIf(e[2], z)
      <4>1. CASE e[2] \in {"specified", "always"}
        BY <2>3, <3>3, <4>1 DEF WrittenIf
      <4>2. CASE e[2] = "nonempty"
        <5>1. x = <<>> <=> ParseObject(type, k, y) = <<>>
          BY <1>2, <2>1, <4>2
        <5> QED BY <2>3, <3>3, <4>2, <5>1 DEF WrittenIf
      <4> QED BY <1>2, <4>1, <4>2
    <3>5. Alike(e[2], v, z)
      BY <2>3, <3>3, <3>4 DEF Alike
    <3> QED BY <3>5 DEF z, v
  <2>5. CASE k \notin Keys(w)
    <3>1. ~WrittenIf(e[2], v)
      BY <1>1, <2>5
    <3>2. e[2] = "nonempty"
      BY <1>2, <2>3, <3>1 DEF WrittenIf
    <3>3. z = Missing("object", TRUE)
      BY <2>5 DEF WrittenMember
    <3> HIDE DEF z
    <3>4. z.value = <<>>
      BY <3>3 DEF Missing
    <3>5. ~WrittenIf(e[2], z)
      BY <3>2, <3>4 DEF WrittenIf
    <3>6. Alike(e[2], v, z)
      BY <3>1, <3>5 DEF Alike
    <3> QED BY <3>6 DEF z, v
  <2> QED BY <2>4, <2>5
<1>4. CASE k \notin Keys(o)
  <2>1. v = Missing("object", TRUE)
    BY <1>4 DEF WrittenMember
  <2> HIDE DEF v
  <2>2. v.value = <<>> /\ v.unspecified = TRUE
    BY <2>1 DEF Missing
  <2>3. ~WrittenIf(e[2], v)
    BY <1>2, <1>4, <2>2 DEF WrittenIf
  <2>4. z = v
    BY <1>1, <2>1, <2>3 DEF WrittenMember
  <2>5. Alike(e[2], v, z)
    BY <2>4 DEF Alike
  <2> QED BY <2>5 DEF v
<1> QED BY <1>3, <1>4

\* What the writer needs to know of a step.
LEMMA WriterNeeds ==
    ASSUME NEW j, TypeOf(j) \in StepTypes
    PROVE  WriterPanics(processScenarioStep(j))
               <=> \/ TypeOf(j) = "checkState" /\ "accounts" \notin Keys(Step(j))
                   \/ TypeOf(j) \in TxTypes /\ "tx" \notin Keys(Step(j))
<1> DEFINE step == processScenarioStep(j)
<1>1. step.type = TypeOf(j) /\ DOMAIN step.objects = Keys(Step(j)) \intersect StepObjects(TypeOf(j))
  BY DEF processScenarioStep
<1> HIDE DEF step
<1>2. "accounts" \in StepObjects("checkState") /\ \A type \in TxTypes : "tx" \in StepObjects(type)
  BY DEF StepObjects, TxTypes
<1>3. WriterPanics(step) <=> \/ TypeOf(j) = "checkState" /\ "accounts" \notin Keys(Step(j))
                             \/ TypeOf(j) \in TxTypes /\ "tx" \notin Keys(Step(j))
  BY <1>1, <1>2 DEF WriterPanics
<1> QED BY <1>3 DEF step

\* A step that was written is written again as it is.
LEMMA StepAgain ==
    ASSUME NEW S, NEW j \in JsonOf(JsonOf(JsonOf(JsonOf(JsonOf(JsonOf(S)))))), StepAccepted(j),
           ~WriterPanics(processScenarioStep(j))
    PROVE  LET w == StepToOJ(processScenarioStep(j))
           IN  StepToOJ(processScenarioStep(w)) = w /\ ~WriterPanics(processScenarioStep(w)) /\ ~ParserPanics(w)
<1> DEFINE type == TypeOf(j)
           o == Step(j)
           table == StepWritten(type)
           first == << <<"step", Str(type)>> >>
           fields == FieldsOfStep(type, o)
           written == WriteFields(fields, table)
           w == Map(first \o written)
<1>1. type \in StepTypes /\ Is("map", j) /\ FieldsOfStepAccepted(type, o)
  BY DEF StepAccepted
<1>2. StepToOJ(processScenarioStep(j)) = w
  BY StepPrinted
<1>3. Is("map", w) /\ TypeOf(w) = type /\ Step(w) = w /\ Holds(w, fields, table)
  BY <1>1, TypeWritten
<1>4. /\ type = "checkState" => "accounts" \in Keys(o)
      /\ type \in TxTypes => "tx" \in Keys(o)
  BY <1>1, WriterNeeds
<1>5. ASSUME NEW k \in StepObjects(type), k \in Keys(o)
      PROVE  At(o, k) \in JsonOf(JsonOf(JsonOf(JsonOf(JsonOf(S))))) /\ ObjectAccepted(type, k, At(o, k))
  <2>1. At(o, k) \in JsonOf(JsonOf(JsonOf(JsonOf(JsonOf(S)))))
    BY <1>1, <1>5, StepParts
  <2>2. ObjectAccepted(type, k, At(o, k))
    BY <1>1, <1>5 DEF FieldsOfStepAccepted
  <2> QED BY <2>1, <2>2
<1> DEFINE fields2 == FieldsOfStep(type, w)
<1>6. WriteFields(fields2, table) = written
  <2> HIDE DEF type, o, w
  <2>1. ASSUME NEW u \in BOOLEAN, u = TRUE
        PROVE  WriteFields(fields2, table) = WriteFields(fields, table)
    <3>1. TableFits(StepKinds(type), table, u, StepObjects(type))
      BY <1>1, <2>1, StepFits
    <3>2. ASSUME NEW e \in Range(table)
          PROVE  IF e[1] \in StepObjects(type) THEN Alike(e[2], fields[e[1]], fields2[e[1]])
                 ELSE /\ fields[e[1]] = Fields(o, StepKinds(type), u)[e[1]]
                      /\ fields2[e[1]] = Fields(w, StepKinds(type), u)[e[1]]
      <4>1. /\ fields[e[1]] = IF e[1] \in StepObjects(type) THEN WrittenMember(type, o, e[1])
                              ELSE Fields(o, StepKinds(type), TRUE)[e[1]]
            /\ fields2[e[1]] = IF e[1] \in StepObjects(type) THEN WrittenMember(type, w, e[1])
                               ELSE Fields(w, StepKinds(type), TRUE)[e[1]]
        BY <1>1, StepLines
      <4>2. CASE e[1] \in StepObjects(type)
        <5>1. Alike(e[2], WrittenMember(type, o, e[1]), WrittenMember(type, w, e[1]))
          BY <1>1, <1>3, <1>4, <1>5, <4>2, MemberWritten
        <5> QED BY <4>1, <4>2, <5>1
      <4>3. CASE e[1] \notin StepObjects(type)
        BY <2>1, <4>1, <4>3
      <4> QED BY <4>2, <4>3
    <3> HIDE DEF fields, fields2, table
    <3> QED BY <1>3, <3>1, <3>2, ObjectAgain
  <2> QED BY <2>1
<1>7. StepToOJ(processScenarioStep(w)) = w
  <2>1. StepToOJ(processScenarioStep(w)) = Map(first \o WriteFields(fields2, table))
    <3> HIDE DEF w
    <3>1. StepToOJ(processScenarioStep(w))
              = Map(<< <<"step", Str(TypeOf(w))>> >> \o WriteFields(FieldsOfStep(TypeOf(w), Step(w)), StepWritten(TypeOf(w))))
      BY StepPrinted
    <3> QED BY <1>3, <3>1
  <2> QED BY <1>6, <2>1
<1>8. ~WriterPanics(processScenarioStep(w))
  <2> HIDE DEF w, o, type
  <2>1. ASSUME NEW e \in Range(table), e[2] = "always" PROVE e[1] \in Keys(w)
    <3>1. WrittenIf(e[2], fields[e[1]])
      BY <2>1 DEF WrittenIf
    <3> HIDE DEF table, fields
    <3> QED BY <1>3, <3>1 DEF Holds
  <2>2. type = "checkState" => "accounts" \in Keys(w)
    <3> DEFINE x == <<"accounts", "always">>
    <3>1. x[1] = "accounts" /\ x[2] = "always" /\ (type = "checkState" => x \in Range(table))
      BY <1>1, StepFits
    <3> HIDE DEF x, table
    <3> QED BY <2>1, <3>1
  <2>3. type \in TxTypes => "tx" \in Keys(w)
    <3> DEFINE x == <<"tx", "always">>
    <3>1. x[1] = "tx" /\ x[2] = "always" /\ (type \in TxTypes => x \in Range(table))
      BY <1>1, StepFits
    <3> HIDE DEF x, table
    <3> QED BY <2>1, <3>1
  <2> QED BY <1>1, <1>3, <2>2, <2>3, WriterNeeds
<1>9. ~ParserPanics(w)
  <2> SUFFICES ASSUME type \in TxTypes, NEW i \in DOMAIN w.map, w.map[i][1] = "expect"
               PROVE  "tx" \in Keys(Map(SubSeq(w.map, 1, i - 1)))
    BY <1>3 DEF ParserPanics
  <2>1. table = TxStepWritten
    BY DEF StepWritten, TxTypes
  <2>2. \A n \in DOMAIN written : written[n][1] = "expect" => \E m \in 1..(n - 1) : written[m][1] = "tx"
    BY <2>1, TxBeforeExpect
  <2>3. written \in Seq(Range(written))
    BY <1>1, StepFits, WrittenKeys DEF TableFits
  <2>4. /\ first \in Seq(Range(first)) /\ Len(first) = 1 /\ DOMAIN first = {1} /\ first[1][1] = "step"
    BY DEF Range
  <2> HIDE DEF first, written
  <2> DEFINE all == first \o written
             R == Range(first) \union Range(written)
  <2>5. /\ all \in Seq(R) /\ Len(all) = 1 + Len(written)
        /\ \A n \in 1..(1 + Len(written)) : all[n] = IF n <= 1 THEN first[n] ELSE written[n - 1]
    <3>1. first \in Seq(R) /\ written \in Seq(R)
      BY <2>3, <2>4
    <3> HIDE DEF R
    <3>2. /\ all \in Seq(R) /\ Len(all) = Len(first) + Len(written)
          /\ \A n \in 1..(Len(first) + Len(written)) : all[n] = IF n <= Len(first) THEN first[n] ELSE written[n - Len(first)]
      BY <3>1, ConcatProperties
    <3> HIDE DEF all
    <3> QED BY <2>4, <3>2
  <2>6. Len(written) \in Nat /\ DOMAIN written = 1..Len(written)
    BY <2>3
  <2>7. w.map = all /\ i \in 1..(1 + Len(written))
    <3>1. w.map = all
      BY DEF Map
    <3> HIDE DEF all, w, R
    <3> QED BY <2>5, <2>6, <3>1
  <2> HIDE DEF all, w
  <2>8. i # 1 /\ i - 1 \in DOMAIN written /\ written[i - 1][1] = "expect"
    BY <2>4, <2>5, <2>6, <2>7
  <2>9. PICK m \in 1..(i - 1 - 1) : written[m][1] = "tx"
    BY <2>2, <2>8
  <2>10. m + 1 \in 1..(i - 1) /\ all[m + 1][1] = "tx"
    <3>1. m + 1 \in 1..(1 + Len(written)) /\ ~(m + 1 <= 1) /\ m + 1 - 1 = m /\ m + 1 \in 1..(i - 1)
      BY <2>6, <2>7, <2>8
    <3> QED BY <2>5, <2>9, <3>1
  <2> DEFINE before == SubSeq(all, 1, i - 1)
  <2>11. /\ before \in Seq(R) /\ Len(before) = i - 1
         /\ \A n \in 1..(i - 1) : before[n] = all[n]
    <3>1. \A n \in 1..(i - 1) : all[n] \in R
      <4> HIDE DEF R
      <4> QED BY <2>5, <2>6, <2>7
    <3> HIDE DEF R
    <3>2. i - 1 \in Int /\ 1 <= i - 1 /\ 1 \in Int
      BY <2>6, <2>7, <2>8
    <3>3. /\ before \in Seq(R)
          /\ Len(before) = IF 1 <= i - 1 THEN i - 1 - 1 + 1 ELSE 0
          /\ \A n \in 1..(i - 1 - 1 + 1) : before[n] = all[1 + n - 1]
      BY <3>1, <3>2, SubSeqProperties
    <3> HIDE DEF before
    <3>4. i - 1 - 1 + 1 = i - 1 /\ \A n \in 1..(i - 1) : 1 + n - 1 = n
      BY <3>2
    <3> QED BY <3>2, <3>3, <3>4
  <2> HIDE DEF before, R
  <2>12. DOMAIN before = 1..(i - 1)
    BY <2>11
  <2>13. Map(before).map = before
    BY DEF Map
  <2>14. "tx" \in Keys(Map(before))
    BY <2>10, <2>11, <2>12, <2>13 DEF Keys
  <2> QED BY <2>7, <2>14 DEF before
<1> QED BY <1>2, <1>7, <1>8, <1>9

----------------------------------------------------------------------------
(* Scenarios *)

\* The defaults that are added, each with its key, to a file that does not have them.
Yes == Flag(TRUE)
Defaults == << <<"checkGas", Yes>>, <<"gasSchedule", Str("default")>> >>
Filled(o) == Map(o.map \o Kept(Defaults, LAMBDA kv : kv[1] \notin Keys(o)))

\* Defaults are under their keys, what was there before stays.
LEMMA FilledHas ==
    ASSUME NEW o, o.map \in Seq(Range(o.map))
    PROVE  /\ \A k : k \in Keys(Filled(o)) <=> k \in Keys(o) \union {"checkGas", "gasSchedule"}
           /\ \A k \in Keys(o) : At(Filled(o), k) = At(o, k)
           /\ "checkGas" \notin Keys(o) => At(Filled(o), "checkGas") = Yes
           /\ "gasSchedule" \notin Keys(o) => At(Filled(o), "gasSchedule") = Str("default")
<1> DEFINE D == {<<"checkGas", Yes>>, <<"gasSchedule", Str("default")>>}
           S == {d \in D : d[1] \notin Keys(o)}
           parts == [i \in DOMAIN Defaults |-> IF Defaults[i][1] \notin Keys(o) THEN <<Defaults[i]>> ELSE <<>>]
           kept == FlattenSeq(parts)
           all == o.map \o kept
           f == Filled(o)
<1>1. f = Map(all)
  BY DEF Filled, Kept, Each
<1>2. /\ DOMAIN Defaults = 1..2 /\ Defaults \in Seq(D)
      /\ \A i \in DOMAIN Defaults : Defaults[i] \in D
      /\ \A d \in D : \E i \in DOMAIN Defaults : Defaults[i] = d
  <2>1. /\ DOMAIN Defaults = 1..2
        /\ Defaults[1] = <<"checkGas", Yes>> /\ Defaults[2] = <<"gasSchedule", Str("default")>>
    BY DEF Defaults
  <2>2. Defaults = [i \in 1..2 |-> Defaults[i]]
    BY DEF Defaults
  <2>3. \A i \in 1..2 : i = 1 \/ i = 2
    OBVIOUS
  <2>4. \A i \in 1..2 : Defaults[i] \in D
    BY <2>1, <2>3
  <2>5. Defaults \in Seq(D)
    <3> HIDE DEF D
    <3>1. Defaults \in Seq(Range(Defaults))
      BY <2>2, TableIsList
    <3> QED BY <2>1, <2>2, <2>4, <3>1, MappedInto
  <2>6. 1 \in 1..2 /\ 2 \in 1..2
    OBVIOUS
  <2> QED BY <2>1, <2>4, <2>5, <2>6
<1>3. \A d \in D : /\ d[1] = "checkGas" => d[2] = Yes
                   /\ d[1] = "gasSchedule" => d[2] = Str("default")
                   /\ d[1] \in {"checkGas", "gasSchedule"}
  OBVIOUS
<1>4. \A k \in {"checkGas", "gasSchedule"} : \E d \in D : d[1] = k
  OBVIOUS
<1> HIDE DEF D
<1>6. parts \in Seq(Seq(S)) /\ \A i \in DOMAIN Defaults : parts[i] \in Seq(S)
  <2>1. \A i \in DOMAIN Defaults : Defaults[i][1] \notin Keys(o) => Defaults[i] \in S
    BY <1>2
  <2> HIDE DEF S
  <2>2. \A i \in DOMAIN Defaults : parts[i] \in Seq(S)
    BY <2>1
  <2>3. parts = [i \in DOMAIN Defaults |-> parts[i]]
    OBVIOUS
  <2> HIDE DEF parts
  <2> QED BY <1>2, <2>2, <2>3, MappedInto
<1>7. kept \in Seq(S)
  <2> HIDE DEF S, parts
  <2> QED BY <1>6, FlattenType
<1>8. \A d \in S : \E n \in DOMAIN kept : kept[n] = d
  <2> SUFFICES ASSUME NEW d \in S PROVE \E n \in DOMAIN kept : kept[n] = d
    OBVIOUS
  <2>1. PICK i \in DOMAIN Defaults : Defaults[i] = d
    BY <1>2
  <2>2. parts[i] = <<d>> /\ i \in DOMAIN parts
    BY <2>1
  <2>3. 1 \in DOMAIN parts[i] /\ parts[i][1] = d
    BY <2>2
  <2> HIDE DEF S, parts
  <2>4. \E n \in DOMAIN FlattenSeq(parts) : FlattenSeq(parts)[n] = parts[i][1]
    BY <1>6, <2>2, <2>3, FlattenHas
  <2> QED BY <2>3, <2>4
<1> HIDE DEF kept, parts
<1> DEFINE R == Range(o.map) \union S
<1>9. o.map \in Seq(R) /\ kept \in Seq(R)
  <2> HIDE DEF S
  <2> QED BY <1>7
<1>10. /\ \A n \in DOMAIN o.map : n \in DOMAIN all /\ all[n] = o.map[n]
       /\ \A m \in DOMAIN all :
            IF m <= Len(o.map) THEN m \in DOMAIN o.map /\ all[m] = o.map[m]
            ELSE m - Len(o.map) \in DOMAIN kept /\ all[m] = kept[m - Len(o.map)]
  <2> HIDE DEF R
  <2> QED BY <1>9, ConcatHas
<1>11. \A n \in DOMAIN kept : n + Len(o.map) \in DOMAIN all /\ all[n + Len(o.map)] = kept[n]
  <2> HIDE DEF R, S
  <2>1. /\ Len(o.map) \in Nat /\ Len(kept) \in Nat /\ DOMAIN kept = 1..Len(kept)
    BY <1>7
  <2>2. /\ all \in Seq(R) /\ Len(all) = Len(o.map) + Len(kept)
        /\ \A m \in 1..(Len(o.map) + Len(kept)) : all[m] = IF m <= Len(o.map) THEN o.map[m] ELSE kept[m - Len(o.map)]
    BY <1>9, ConcatProperties
  <2>3. DOMAIN all = 1..(Len(o.map) + Len(kept))
    BY <2>1, <2>2
  <2> HIDE DEF all
  <2>4. \A n \in 1..Len(kept) : /\ n + Len(o.map) \in 1..(Len(o.map) + Len(kept)) /\ ~(n + Len(o.map) <= Len(o.map))
                                /\ n + Len(o.map) - Len(o.map) = n
    BY <2>1
  <2>5. ASSUME NEW n \in DOMAIN kept
        PROVE  n + Len(o.map) \in DOMAIN all /\ all[n + Len(o.map)] = kept[n]
    <3> DEFINE m == n + Len(o.map)
    <3>1. m \in 1..(Len(o.map) + Len(kept)) /\ ~(m <= Len(o.map)) /\ m - Len(o.map) = n
      BY <2>1, <2>4
    <3> HIDE DEF m
    <3>2. m \in DOMAIN all /\ all[m] = kept[n]
      BY <2>2, <2>3, <3>1
    <3> QED BY <3>2 DEF m
  <2> QED BY <2>5
<1>12. \A n \in DOMAIN kept : kept[n] \in S
  <2> HIDE DEF S
  <2> QED BY <1>7
<1> HIDE DEF all
<1>13. \A m \in DOMAIN all : (m \in DOMAIN o.map /\ all[m] = o.map[m]) \/ all[m] \in S
  <2> HIDE DEF S
  <2> QED BY <1>10, <1>12
<1>14. f.map = all
  BY <1>1 DEF Map
<1> HIDE DEF f
<1>15. ASSUME NEW k PROVE k \in Keys(f) <=> k \in Keys(o) \union {"checkGas", "gasSchedule"}
  <2>1. ASSUME k \in Keys(f) PROVE k \in Keys(o) \union {"checkGas", "gasSchedule"}
    <3>1. PICK m \in DOMAIN all : all[m][1] = k
      BY <1>14, <2>1 DEF Keys
    <3> QED BY <1>3, <1>13, <3>1 DEF Keys
  <2>2. ASSUME k \in Keys(o) PROVE k \in Keys(f)
    <3>1. PICK m \in DOMAIN o.map : o.map[m][1] = k
      BY <2>2 DEF Keys
    <3> QED BY <1>10, <1>14, <3>1 DEF Keys
  <2>3. ASSUME k \in {"checkGas", "gasSchedule"}, k \notin Keys(o) PROVE k \in Keys(f)
    <3>1. PICK d \in D : d[1] = k
      BY <1>4, <2>3
    <3>2. PICK n \in DOMAIN kept : kept[n] = d
      BY <1>8, <2>3, <3>1
    <3> QED BY <1>11, <1>14, <3>1, <3>2 DEF Keys
  <2> QED BY <2>1, <2>2, <2>3
<1>16. ASSUME NEW k \in Keys(o) PROVE At(f, k) = At(o, k)
  <2>1. \A m : (m \in DOMAIN all /\ all[m][1] = k) <=> (m \in DOMAIN o.map /\ o.map[m][1] = k)
    BY <1>10, <1>13
  <2> DEFINE n == CHOOSE i \in DOMAIN o.map : o.map[i][1] = k
  <2>2. (CHOOSE i \in DOMAIN all : all[i][1] = k) = n
    BY <2>1
  <2>3. n \in DOMAIN o.map
    <3>1. \E i \in DOMAIN o.map : o.map[i][1] = k
      BY DEF Keys
    <3> QED BY <3>1
  <2>4. At(f, k) = all[n][2] /\ At(o, k) = o.map[n][2]
    BY <1>14, <2>2 DEF At
  <2> HIDE DEF n
  <2> QED BY <1>10, <2>3, <2>4
<1>17. ASSUME NEW k \in {"checkGas", "gasSchedule"}, k \notin Keys(o)
       PROVE  \E d \in D : d[1] = k /\ At(f, k) = d[2]
  <2> DEFINE n == CHOOSE i \in DOMAIN all : all[i][1] = k
  <2>1. \E i \in DOMAIN all : all[i][1] = k
    BY <1>14, <1>15 DEF Keys
  <2>2. n \in DOMAIN all /\ all[n][1] = k
    BY <2>1
  <2>3. At(f, k) = all[n][2]
    BY <1>14 DEF At
  <2> HIDE DEF n
  <2>4. all[n] \in S
    BY <1>13, <1>17, <2>2 DEF Keys
  <2> QED BY <2>2, <2>3, <2>4
<1> QED BY <1>3, <1>15, <1>16, <1>17 DEF f

\* What the writer knows of a scenario: its fields, the default gas schedule unsaid, and its steps.
StepsAgain(q) == [i \in DOMAIN StepsOf(q) |-> StepToOJ(processScenarioStep(StepsOf(q)[i]))]
WithoutDefault(q) ==
    [Fields(Filled(q), ScenarioKinds, FALSE) EXCEPT
        !.gasSchedule.original = IF @ = Str("default") THEN Str("") ELSE @]
FieldsOfScenario(q) == With(WithoutDefault(q), [steps |-> Read(StepsAgain(q), List(StepsAgain(q)))])

\* The writer prints those.
LEMMA ScenarioPrinted ==
    ASSUME NEW q
    PROVE  ScenarioToOrderedJSON(ParseScenarioFile(q)) = Map(WriteFields(FieldsOfScenario(q), ScenarioWritten))
<1> DEFINE scenario == ParseScenarioFile(q)
           steps == Each(scenario.Steps, StepToOJ)
           withoutDefault == [scenario.fields EXCEPT !.gasSchedule.original = IF @ = Str("default") THEN Str("") ELSE @]
<1>1. /\ scenario.fields = Fields(Filled(q), ScenarioKinds, FALSE)
      /\ scenario.Steps = [i \in DOMAIN StepsOf(q) |-> processScenarioStep(StepsOf(q)[i])]
  <2>1. scenario = [fields |-> Fields(Filled(q), ScenarioKinds, FALSE),
                    Steps  |-> [i \in DOMAIN StepsOf(q) |-> processScenarioStep(StepsOf(q)[i])]]
    BY Zenon DEF ParseScenarioFile, Filled, Defaults, Yes, Each, Map
  <2> HIDE DEF scenario
  <2> QED BY <2>1
<1>2. ScenarioToOrderedJSON(scenario) = Map(WriteFields(With(withoutDefault, [steps |-> Read(steps, List(steps))]), ScenarioWritten))
  BY DEF ScenarioToOrderedJSON
<1> HIDE DEF scenario
<1>3. steps = StepsAgain(q)
  BY <1>1 DEF StepsAgain, Each
<1>4. withoutDefault = WithoutDefault(q)
  BY <1>1 DEF WithoutDefault
<1> HIDE DEF steps, withoutDefault
<1> QED BY <1>2, <1>3, <1>4 DEF FieldsOfScenario, scenario

\* Its lines.
LEMMA ScenarioLines ==
    ASSUME NEW q
    PROVE  LET fields == Fields(Filled(q), ScenarioKinds, FALSE)
           IN  /\ FieldsOfScenario(q)["steps"] = Read(StepsAgain(q), List(StepsAgain(q)))
               /\ \A k \in DOMAIN ScenarioKinds \ {"gasSchedule"} : FieldsOfScenario(q)[k] = fields[k]
               /\ FieldsOfScenario(q)["gasSchedule"].original
                    = IF fields["gasSchedule"].original = Str("default") THEN Str("") ELSE fields["gasSchedule"].original
<1> DEFINE fields == Fields(Filled(q), ScenarioKinds, FALSE)
           zero == WithoutDefault(q)
           member == Read(StepsAgain(q), List(StepsAgain(q)))
<1>1. "steps" \notin DOMAIN ScenarioKinds /\ "gasSchedule" \in DOMAIN ScenarioKinds /\ ScenarioKinds["gasSchedule"] = "text"
  BY DEF ScenarioKinds
<1>2. DOMAIN fields = DOMAIN ScenarioKinds /\ fields = [k \in DOMAIN ScenarioKinds |-> fields[k]]
  BY DEF Fields
<1>3. "original" \in DOMAIN fields["gasSchedule"]
  <2>1. fields["gasSchedule"] = IF "gasSchedule" \in Keys(Filled(q)) THEN Parsed("text", At(Filled(q), "gasSchedule"))
                                ELSE Missing("text", FALSE)
    BY <1>1 DEF Fields
  <2> HIDE DEF fields
  <2>2. \A y : "original" \in DOMAIN Parsed("text", y)
    BY DEF Parsed, Read
  <2>3. ASSUME NEW kind, NEW u PROVE "original" \in DOMAIN Missing(kind, u)
    <3>1. \A x, y, z : DOMAIN [value |-> x, original |-> y, unspecified |-> z] = {"value", "original", "unspecified"}
      OBVIOUS
    <3> QED BY <3>1 DEF Missing
  <2>4. "original" \in DOMAIN Missing("text", FALSE)
    BY <2>3
  <2> QED BY <2>1, <2>2, <2>4
<1>4. zero = [fields EXCEPT !.gasSchedule.original = IF @ = Str("default") THEN Str("") ELSE @]
  BY DEF WithoutDefault
<1>5. FieldsOfScenario(q) = With(zero, [steps |-> member])
  BY DEF FieldsOfScenario
<1> HIDE DEF fields, member, zero
<1>6. /\ DOMAIN zero = DOMAIN ScenarioKinds
      /\ \A k \in DOMAIN ScenarioKinds \ {"gasSchedule"} : zero[k] = fields[k]
      /\ zero["gasSchedule"].original = IF fields["gasSchedule"].original = Str("default") THEN Str("")
                                        ELSE fields["gasSchedule"].original
  BY <1>1, <1>2, <1>3, <1>4
<1>7. /\ FieldsOfScenario(q)["steps"] = member
      /\ \A k \in DOMAIN ScenarioKinds : FieldsOfScenario(q)[k] = zero[k]
  BY <1>1, <1>5, <1>6 DEF With
<1>8. /\ FieldsOfScenario(q)["steps"] = member
      /\ \A k \in DOMAIN ScenarioKinds \ {"gasSchedule"} : FieldsOfScenario(q)[k] = fields[k]
      /\ FieldsOfScenario(q)["gasSchedule"].original
            = IF fields["gasSchedule"].original = Str("default") THEN Str("") ELSE fields["gasSchedule"].original
  <2>1. FieldsOfScenario(q)["steps"] = member
    BY <1>7
  <2>2. \A k \in DOMAIN ScenarioKinds \ {"gasSchedule"} : FieldsOfScenario(q)[k] = fields[k]
    BY <1>6, <1>7
  <2>3. FieldsOfScenario(q)["gasSchedule"] = zero["gasSchedule"]
    BY <1>1, <1>7
  <2>4. FieldsOfScenario(q)["gasSchedule"].original
            = IF fields["gasSchedule"].original = Str("default") THEN Str("") ELSE fields["gasSchedule"].original
    BY <1>6, <2>3
  <2> QED BY <2>1, <2>2, <2>4
<1> QED BY <1>8 DEF fields, member

\* A scenario that was written is written again as it is, and nothing of it panics.
LEMMA ScenarioAgain ==
    ASSUME NEW S, NEW j \in JsonOf(JsonOf(JsonOf(JsonOf(JsonOf(JsonOf(JsonOf(JsonOf(S)))))))),
           Reading(j) = "succeeds"
    PROVE  LET w == ScenarioToOrderedJSON(ParseScenarioFile(j))
           IN  ScenarioToOrderedJSON(ParseScenarioFile(w)) = w /\ ~Panics(w)
<1> DEFINE table == ScenarioWritten
           fields == FieldsOfScenario(j)
           written == WriteFields(fields, table)
           w == Map(written)
           fields2 == FieldsOfScenario(w)
           json == JsonOf(JsonOf(JsonOf(JsonOf(JsonOf(JsonOf(S))))))
           Fine(s) == /\ StepToOJ(processScenarioStep(s)) = s
                      /\ ~WriterPanics(processScenarioStep(s)) /\ ~ParserPanics(s)
<1>1. ~Panics(j) /\ ScenarioAccepted(j) /\ Is("map", j)
  BY DEF Reading, ScenarioAccepted, FieldsAccepted
<1>2. ASSUME NEW i \in DOMAIN StepsOf(j) PROVE Fine(StepToOJ(processScenarioStep(StepsOf(j)[i])))
  <2> DEFINE s == StepsOf(j)[i]
  <2>1. StepAccepted(s)
    BY StepsAccepted
  <2>2. ~WriterPanics(processScenarioStep(s))
    BY <1>1 DEF Panics
  <2>3. s \in json
    <3> HIDE DEF json
    <3>1. "steps" \in Keys(j)
      BY DEF StepsOf
    <3>2. At(j, "steps") \in JsonOf(json)
      BY <1>1, <3>1, JsonParts DEF json
    <3>3. Is("list", At(j, "steps"))
      BY <1>1, <3>1 DEF ScenarioAccepted
    <3>4. StepsOf(j) = At(j, "steps").list
      BY <3>1 DEF StepsOf
    <3>5. StepsOf(j) \in Seq(json)
      BY <3>2, <3>3, <3>4, JsonParts
    <3> QED BY <3>5
  <2> HIDE DEF s
  <2>4. Fine(StepToOJ(processScenarioStep(s)))
    BY <2>1, <2>2, <2>3, StepAgain
  <2> QED BY <2>4 DEF s
<1>3. \A q : ScenarioToOrderedJSON(ParseScenarioFile(q)) = Map(WriteFields(FieldsOfScenario(q), table))
  BY ScenarioPrinted
<1>4. table \in Seq(Range(table)) /\ Distinct(table)
  BY ScenarioFits DEF TableFits
<1>5. Holds(w, fields, table)
  BY <1>4, WrittenHolds
<1>6. w.map = written /\ written \in Seq(Range(written))
  BY <1>4, WrittenEntries DEF Map
<1> DEFINE before == Fields(Filled(j), ScenarioKinds, FALSE)
           after == Fields(Filled(w), ScenarioKinds, FALSE)
<1>7. /\ \A k : k \in Keys(Filled(w)) <=> k \in Keys(w) \union {"checkGas", "gasSchedule"}
      /\ \A k \in Keys(w) : At(Filled(w), k) = At(w, k)
      /\ "checkGas" \notin Keys(w) => At(Filled(w), "checkGas") = Yes
      /\ "gasSchedule" \notin Keys(w) => At(Filled(w), "gasSchedule") = Str("default")
  <2> HIDE DEF written, w
  <2> QED BY <1>6, FilledHas
<1>8. /\ fields["steps"] = Read(StepsAgain(j), List(StepsAgain(j)))
      /\ \A k \in DOMAIN ScenarioKinds \ {"gasSchedule"} : fields[k] = before[k]
      /\ fields["gasSchedule"].original
            = IF before["gasSchedule"].original = Str("default") THEN Str("") ELSE before["gasSchedule"].original
      /\ fields2["steps"] = Read(StepsAgain(w), List(StepsAgain(w)))
      /\ \A k \in DOMAIN ScenarioKinds \ {"gasSchedule"} : fields2[k] = after[k]
      /\ fields2["gasSchedule"].original
            = IF after["gasSchedule"].original = Str("default") THEN Str("") ELSE after["gasSchedule"].original
  <2> HIDE DEF w
  <2> QED BY ScenarioLines
<1> HIDE DEF fields, fields2, w, written
<1>9. StepsOf(w) = StepsAgain(j)
  <2> DEFINE x == <<"steps", "always">>
  <2>1. x[1] = "steps" /\ x[2] = "always" /\ x \in Range(table)
    BY ScenarioFits
  <2> HIDE DEF x
  <2>2. "steps" \in Keys(w) /\ At(w, "steps") = fields["steps"].original
    BY <1>5, <2>1 DEF Holds, WrittenIf
  <2>3. At(w, "steps").list = StepsAgain(j)
    <3>1. \A l : Read(l, List(l)).original = List(l) /\ List(l).list = l
      BY DEF Read, List
    <3> HIDE DEF before, after, table
    <3> QED BY <1>8, <2>2, <3>1
  <2> QED BY <2>2, <2>3 DEF StepsOf
<1>10. /\ DOMAIN StepsOf(w) = DOMAIN StepsOf(j)
       /\ \A i \in DOMAIN StepsOf(w) : Fine(StepsOf(w)[i])
  <2>1. /\ DOMAIN StepsAgain(j) = DOMAIN StepsOf(j)
        /\ \A i \in DOMAIN StepsOf(j) : StepsAgain(j)[i] = StepToOJ(processScenarioStep(StepsOf(j)[i]))
    BY DEF StepsAgain
  <2> HIDE DEF Fine
  <2> QED BY <1>2, <1>9, <2>1
<1>11. ~Panics(w)
  BY <1>10 DEF Panics
<1>12. StepsAgain(w) = StepsAgain(j)
  <2>1. StepsAgain(w) = [i \in DOMAIN StepsOf(w) |-> StepToOJ(processScenarioStep(StepsOf(w)[i]))]
    BY DEF StepsAgain
  <2>2. StepsOf(w) = [i \in DOMAIN StepsOf(w) |-> StepsOf(w)[i]]
    BY <1>9 DEF StepsAgain
  <2> QED BY <1>9, <1>10, <2>1, <2>2
<1>13. Alike("false", fields["checkGas"], fields2["checkGas"])
  <2> DEFINE x == <<"checkGas", "false">>
             v == fields["checkGas"]
             z == fields2["checkGas"]
  <2>1. x[1] = "checkGas" /\ x[2] = "false" /\ x \in Range(table)
    BY ScenarioFits
  <2> HIDE DEF x
  <2>2. /\ "checkGas" \in Keys(w) <=> ~v.value
        /\ "checkGas" \in Keys(w) => At(w, "checkGas") = v.original
    BY <1>5, <2>1 DEF Holds, WrittenIf
  <2>3. /\ "checkGas" \in DOMAIN ScenarioKinds \ {"gasSchedule"} /\ ScenarioKinds["checkGas"] = "flag"
    BY DEF ScenarioKinds
  <2>4. z = Parsed("flag", At(Filled(w), "checkGas"))
    BY <1>7, <1>8, <2>3 DEF Fields
  <2>5. v = Parsed("flag", At(Filled(j), "checkGas")) \/ v = Missing("flag", FALSE)
    BY <1>8, <2>3 DEF Fields
  <2> HIDE DEF v, z
  <2>6. \A y : Parsed("flag", y).value = y.bool /\ Parsed("flag", y).original = y
    BY DEF Parsed, Read
  <2>7. v.value <=> v.original.bool
    <3>1. CASE v = Parsed("flag", At(Filled(j), "checkGas"))
      BY <2>6, <3>1
    <3>2. CASE v = Missing("flag", FALSE)
      BY <3>2 DEF Missing, Flag
    <3> QED BY <2>5, <3>1, <3>2
  <2>8. CASE "checkGas" \in Keys(w)
    <3>1. z.original = v.original /\ z.value = v.original.bool
      BY <1>7, <2>2, <2>4, <2>6, <2>8
    <3>2. Alike("false", v, z)
      BY <2>2, <2>7, <2>8, <3>1 DEF Alike, WrittenIf
    <3> QED BY <3>2 DEF v, z
  <2>9. CASE "checkGas" \notin Keys(w)
    <3>1. z.value = Yes.bool
      BY <1>7, <2>4, <2>6, <2>9
    <3>2. Yes.bool
      BY DEF Yes, Flag
    <3>3. Alike("false", v, z)
      BY <2>2, <2>9, <3>1, <3>2 DEF Alike, WrittenIf
    <3> QED BY <3>3 DEF v, z
  <2> QED BY <2>8, <2>9
<1>14. Alike("original", fields["gasSchedule"], fields2["gasSchedule"])
  <2> DEFINE x == <<"gasSchedule", "original">>
             v == fields["gasSchedule"]
             z == fields2["gasSchedule"]
  <2>1. x[1] = "gasSchedule" /\ x[2] = "original" /\ x \in Range(table)
    BY ScenarioFits
  <2> HIDE DEF x
  <2>2. /\ "gasSchedule" \in Keys(w) <=> v.original # Str("")
        /\ "gasSchedule" \in Keys(w) => At(w, "gasSchedule") = v.original
    BY <1>5, <2>1 DEF Holds, WrittenIf
  <2>3. "gasSchedule" \in DOMAIN ScenarioKinds /\ ScenarioKinds["gasSchedule"] = "text"
    BY DEF ScenarioKinds
  <2>4. after["gasSchedule"].original = At(Filled(w), "gasSchedule")
    <3>1. after["gasSchedule"] = Parsed("text", At(Filled(w), "gasSchedule"))
      BY <1>7, <2>3 DEF Fields
    <3> HIDE DEF after
    <3> QED BY <3>1 DEF Parsed, Read
  <2> HIDE DEF before, after
  <2>5. v.original # Str("default") /\ (v.original = Str("") \/ v.original # Str("default"))
    <3>1. Str("") # Str("default")
      BY DEF Str
    <3> QED BY <1>8, <3>1
  <2>6. z.original = v.original
    BY <1>7, <1>8, <2>2, <2>4, <2>5
  <2> HIDE DEF v, z
  <2>7. Alike("original", v, z)
    BY <2>6 DEF Alike, WrittenIf
  <2> QED BY <2>7 DEF v, z
<1>15. ASSUME NEW u \in BOOLEAN, u = FALSE
       PROVE  WriteFields(fields2, table) = WriteFields(fields, table)
  <2> DEFINE others == {"checkGas", "gasSchedule", "steps"}
  <2>1. TableFits(ScenarioKinds, table, u, others)
    BY <1>15, ScenarioFits
  <2>2. ASSUME NEW e \in Range(table)
        PROVE  IF e[1] \in others THEN Alike(e[2], fields[e[1]], fields2[e[1]])
               ELSE /\ fields[e[1]] = Fields(Filled(j), ScenarioKinds, u)[e[1]]
                    /\ fields2[e[1]] = Fields(w, ScenarioKinds, u)[e[1]]
    <3>1. CASE e[1] = "steps"
      <4>1. fields[e[1]] = fields2[e[1]]
        BY <1>8, <1>12, <3>1
      <4> QED BY <3>1, <4>1 DEF Alike
    <3>2. CASE e[1] = "checkGas"
      <4> DEFINE x == <<"checkGas", "false">>
      <4>1. x[1] = "checkGas" /\ x[2] = "false" /\ x \in Range(table)
        BY ScenarioFits
      <4> HIDE DEF x, table
      <4>2. e = x
        BY <1>4, <3>2, <4>1 DEF Distinct
      <4> QED BY <1>13, <3>2, <4>1, <4>2
    <3>3. CASE e[1] = "gasSchedule"
      <4> DEFINE x == <<"gasSchedule", "original">>
      <4>1. x[1] = "gasSchedule" /\ x[2] = "original" /\ x \in Range(table)
        BY ScenarioFits
      <4> HIDE DEF x, table
      <4>2. e = x
        BY <1>4, <3>3, <4>1 DEF Distinct
      <4> QED BY <1>14, <3>3, <4>1, <4>2
    <3>4. CASE e[1] \notin others
      <4>1. e[1] \in DOMAIN ScenarioKinds
        BY <2>1, <3>4 DEF TableFits
      <4>2. fields[e[1]] = before[e[1]] /\ fields2[e[1]] = after[e[1]]
        BY <1>8, <3>4, <4>1
      <4>3. /\ e[1] \in Keys(Filled(w)) <=> e[1] \in Keys(w)
            /\ e[1] \in Keys(w) => At(Filled(w), e[1]) = At(w, e[1])
        BY <1>7, <3>4
      <4>4. Fields(Filled(w), ScenarioKinds, u)[e[1]] = Fields(w, ScenarioKinds, u)[e[1]]
        BY <4>1, <4>3 DEF Fields
      <4>5. before = Fields(Filled(j), ScenarioKinds, u) /\ after = Fields(Filled(w), ScenarioKinds, u)
        BY <1>15
      <4> HIDE DEF before, after
      <4> QED BY <3>4, <4>2, <4>4, <4>5
    <3> QED BY <3>1, <3>2, <3>3, <3>4
  <2> HIDE DEF others
  <2> QED BY <1>5, <2>1, <2>2, ObjectAgain
<1>16. WriteFields(fields2, table) = written
  BY <1>15 DEF written
<1>17. ScenarioToOrderedJSON(ParseScenarioFile(w)) = w
  BY <1>3, <1>16 DEF w, fields2
<1> QED BY <1>3, <1>11, <1>17 DEF w, written, fields

----------------------------------------------------------------------------
(* What is expected *)

\* What the file at hand expects has proper lists, before and after it is formatted.
IInv == \A o \in Expectations : ListedExpectation(o)

\* Formatting keeps lists lists.
LEMMA RewriteKeepsLists == ASSUME IInv, Rewrite PROVE IInv'
<1> SUFFICES ASSUME NEW o \in ExpectationsOf(file') PROVE ListedExpectation(o)
  BY DEF IInv, Expectations
<1>1. Reading(file) = "succeeds" /\ file' = ScenarioToOrderedJSON(ParseScenarioFile(file))
  BY DEF Rewrite
<1>2. PICK i \in DOMAIN StepsOf(file') :
          "expect" \in Keys(StepsOf(file')[i]) /\ o = At(StepsOf(file')[i], "expect")
  BY DEF ExpectationsOf, ExpectIn
<1> DEFINE s == StepsOf(file)[i]
<1>3. i \in DOMAIN StepsOf(file) /\ StepsOf(file')[i] = StepToOJ(processScenarioStep(s))
  BY <1>1, <1>2, WrittenSteps
<1>4. StepAccepted(s)
  BY <1>1, <1>3, StepsAccepted
<1>5. "expect" \in Keys(s) /\ o = resultToOJ(processTxExpectedResult(At(s, "expect")))
  BY <1>2, <1>3, <1>4, WrittenStep
<1>6. At(s, "expect") \in ExpectationsOf(file)
  BY <1>1, <1>3, <1>5 DEF ExpectationsOf, ExpectIn
<1>7. ListedExpectation(At(s, "expect")) /\ ResultAccepted(At(s, "expect"))
  BY <1>6, ExpectationsAccepted DEF IInv, Expectations
<1> QED BY <1>5, <1>7, WrittenResult

\* checkTxResults accepts exactly the outputs that meet what the file says, whatever the
\* file, the interpreter and the outputs, before and after the file is formatted.
THEOREM ChecksAreAsWritten == WhateverIsNoList /\ Spec => []ResultsCheckedAsWritten
<1> SUFFICES ASSUME WhateverIsNoList PROVE Spec => []ResultsCheckedAsWritten
  OBVIOUS
<1>1. Init => IInv
  BY FilesListed DEF Init, IInv, Expectations
<1>2. IInv /\ [Next]_vars => IInv'
  <2> SUFFICES ASSUME IInv, [Next]_vars PROVE IInv'
    OBVIOUS
  <2>1. CASE Rewrite
    BY <2>1, RewriteKeepsLists
  <2>2. CASE UNCHANGED file
    BY <2>2 DEF IInv, Expectations
  <2> QED BY <2>1, <2>2 DEF Next, Refuse, Panic, vars
<1>3. IInv => ResultsCheckedAsWritten
  <2> SUFFICES ASSUME IInv, NEW o \in Expectations, NEW output \in Outputs, NEW checkGas \in BOOLEAN
               PROVE  checkTxResults(processTxExpectedResult(o), checkGas, output)
                          <=> MeetsExpectation(output, o, checkGas)
    BY DEF ResultsCheckedAsWritten
  <2>1. ListedExpectation(o) /\ ResultAccepted(o)
    BY ExpectationsAccepted DEF IInv, Expectations
  <2> QED BY <2>1, ExpectationMeans
<1> QED BY <1>1, <1>2, <1>3, PTL DEF Spec

\* Whatever log was not the expected one, what the error shows of it is refused, or a
\* condition that the log it is read as meets, and no other log of any transaction does.
THEOREM ReportedLogsAreReadAsShown == WhateverIsNoList /\ Spec => []ReportedLogIsReadAsShown
<1> SUFFICES ASSUME WhateverIsNoList PROVE Spec => []ReportedLogIsReadAsShown
  OBVIOUS
<1>1. ReportedLogIsReadAsShown
  <2> SUFFICES ASSUME NEW o \in Expectations, NEW output \in Outputs,
                      NEW i \in Unexpected(processTxExpectedResult(o).logs, output.Logs)
               PROVE  LET log     == output.Logs[i]
                          printed == List(<<logToOJ(convertLogToTestFormat(log))>>)
                      IN  /\ LogsAccepted(printed) <=> Readable(log)
                          /\ Readable(log) => \A other \in Outputs : \A k \in DOMAIN other.Logs :
                                checkTxLogs(processLogList(printed), <<other.Logs[k]>>)
                                    <=> other.Logs[k] = AsRead(log)
    BY DEF ReportedLogIsReadAsShown
  <2>1. i \in DOMAIN output.Logs
    BY DEF Unexpected
  <2>2. \A other \in Outputs : \A k \in DOMAIN other.Logs : other.Logs[k] \in Log
    <3> SUFFICES ASSUME NEW other \in Outputs, NEW k \in DOMAIN other.Logs PROVE other.Logs[k] \in Log
      OBVIOUS
    <3>1. other.Logs \in Seq(Log)
      BY OutputsAssumption
    <3> QED BY <3>1
  <2>3. output.Logs[i] \in Log /\ output.Logs[i].Identifier \in DOMAIN StrText
    BY <2>1, <2>2, IdentifierAssumption
  <2> QED BY <2>2, <2>3, PrintedIsMet
<1> QED BY <1>1, PTL

----------------------------------------------------------------------------
(* The formatter *)

\* What the formatter may have written.
Formatted == {ScenarioToOrderedJSON(ParseScenarioFile(j)) : j \in {f \in Files : Reading(f) = "succeeds"}}

\* What it has written it writes again as it is.
LEMMA FormattedAgain ==
    ASSUME NEW w \in Formatted
    PROVE  ScenarioToOrderedJSON(ParseScenarioFile(w)) = w /\ ~Panics(w)
<1>1. PICK j \in Files : Reading(j) = "succeeds" /\ w = ScenarioToOrderedJSON(ParseScenarioFile(j))
  BY DEF Formatted
<1> DEFINE S == JsonOf(JsonOf(JsonOf(Scalars)))
<1>2. j \in JsonOf(JsonOf(JsonOf(JsonOf(JsonOf(JsonOf(JsonOf(JsonOf(S))))))))
  BY FilesAssumption DEF StepJson, TokenJson
<1> HIDE DEF S
<1> QED BY <1>1, <1>2, ScenarioAgain

\* The file is one of those it may have been at first, or one that was written, and
\* the latter at least after it was written.
FormattedInv ==
    /\ file \in Files \union Formatted
    /\ outcome = "written" => file \in Formatted

\* A file that the formatter has written stays as it is when it is formatted again, and
\* the formatter does not panic, whatever the file was at first.
THEOREM FormattedOnce == Spec => FormattedIsStable
<1>1. Init => FormattedInv
  BY DEF Init, FormattedInv
<1>2. FormattedInv /\ [Next]_vars => FormattedInv'
  <2> SUFFICES ASSUME FormattedInv, [Next]_vars PROVE FormattedInv'
    OBVIOUS
  <2>1. CASE Rewrite
    <3>1. file' \in Formatted
      <4>1. CASE file \in Formatted
        BY <2>1, <4>1, FormattedAgain DEF Rewrite
      <4>2. CASE file \in Files
        BY <2>1, <4>2 DEF Rewrite, Formatted
      <4> QED BY <4>1, <4>2 DEF FormattedInv
    <3> QED BY <3>1 DEF FormattedInv
  <2>2. CASE Refuse \/ Panic
    BY <2>2 DEF FormattedInv, Refuse, Panic
  <2>3. CASE UNCHANGED vars
    BY <2>3 DEF FormattedInv, vars
  <2> QED BY <2>1, <2>2, <2>3 DEF Next
<1>3. FormattedInv /\ [Next]_vars => [outcome = "written" => file' = file /\ outcome' # "panicked"]_vars
  <2> SUFFICES ASSUME FormattedInv, Next, outcome = "written"
               PROVE  file' = file /\ outcome' # "panicked"
    OBVIOUS
  <2>1. file \in Formatted
    BY DEF FormattedInv
  <2>2. CASE Rewrite
    BY <2>1, <2>2, FormattedAgain DEF Rewrite
  <2>3. CASE Refuse
    BY <2>3 DEF Refuse
  <2>4. CASE Panic
    <3>1. Panics(file)
      BY <2>4 DEF Panic, Reading
    <3> QED BY <2>1, <3>1, FormattedAgain
  <2> QED BY <2>2, <2>3, <2>4 DEF Next
<1> QED BY <1>1, <1>2, <1>3, PTL DEF Spec, FormattedIsStable
=============================================================================

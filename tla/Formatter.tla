----------------------------- MODULE Formatter ------------------------------
(***************************************************************************)
(* The fmt command on a scenario file: upgradeScenariosFile parses the     *)
(* file and writes what it parsed over it.  A file that is refused stays   *)
(* as it is, and a panic ends the program before the file is written.      *)
(* The command may be run again at any time.                               *)
(*                                                                         *)
(* Formatting must keep what a file means to the step runners.  Lossy says *)
(* exactly which files do not: forms of the format that the parser knows   *)
(* and the writer has no words for.                                        *)
(***************************************************************************)
EXTENDS ScenarioSteps

CONSTANT Files   \* the files the command may find, as JSON

\* JSON that contains only some values, and scenario files: steps, a step, its accounts,
\* one of them, its tokens, one token, its instances, an instance, a list, a value, a text.
Scalars == [str : STRING] \union [bool : BOOLEAN]
JsonOf(values) == Scalars \union [list : Seq(values)] \union [map : Seq(STRING \X values)]
TokenJson == JsonOf(JsonOf(JsonOf(JsonOf(JsonOf(Scalars)))))
StepJson == JsonOf(JsonOf(JsonOf(JsonOf(TokenJson))))

ASSUME FilesAssumption == Files \subseteq JsonOf(JsonOf(StepJson))

VARIABLES
    file,        \* the contents of the file
    outcome      \* how the last run of the command ended

vars == <<file, outcome>>

\* In the order of the steps, a panic comes before what is wrong after it.
Panics(j) ==
    LET steps == StepsOf(j)
        ParsePanics == \E i \in DOMAIN steps :
                            ParserPanics(steps[i]) /\ \A k \in 1..(i - 1) : StepAccepted(steps[k])
    IN  \/ Is("map", j) /\ ParsePanics
        \/ ScenarioAccepted(j) /\ \E i \in DOMAIN steps : WriterPanics(processScenarioStep(steps[i]))

Reading(j) ==
    CASE Panics(j) -> "panics"
      [] ~Panics(j) /\ ScenarioAccepted(j) -> "succeeds"
      [] ~Panics(j) /\ ~ScenarioAccepted(j) -> "fails"

Init == file \in Files /\ outcome = "none"

Rewrite ==
    /\ Reading(file) = "succeeds"
    /\ file' = ScenarioToOrderedJSON(ParseScenarioFile(file))
    /\ outcome' = "written"

\* The error is printed.
Refuse ==
    /\ Reading(file) = "fails"
    /\ outcome' = "refused"
    /\ UNCHANGED file

Panic ==
    /\ Reading(file) = "panics"
    /\ outcome' = "panicked"
    /\ UNCHANGED file

Next == Rewrite \/ Refuse \/ Panic

Spec == Init /\ [][Next]_vars

(***************************************************************************)
(* What is lost.                                                           *)
(***************************************************************************)
Given(f) == ~f.unspecified

\* The compact form of a token has the balance of its instance, nothing else.
LossyToken(d) ==
    /\ isCompactESDT(d)
    /\ \/ d.token.lastNonce.value # <<>>
       \/ \E k \in DOMAIN d.instances[1] \ {"balance"} : d.instances[1][k].value # <<>>

\* Likewise, and read back it asks for empty values where nothing was asked for.
\* Otherwise, a condition for an empty value is not written.
LossyCheckToken(d) ==
    IF isCompactESDT(d)
    THEN \/ d.token.lastNonce.value # <<>>
         \/ \E k \in OptionalInInstance : ~Given(d.instances[1][k]) \/ d.instances[1][k].value # <<>>
    ELSE \E i \in DOMAIN d.instances :
            \/ \E k \in {"creator", "hash", "attributes"} :
                    Given(d.instances[i][k]) /\ d.instances[i][k].value = <<>>
            \/ Given(d.instances[i].royalties) /\ d.instances[i].royalties.original = Str("")

\* An update of a field to nothing becomes no update.
LossyAccount(a) ==
    \/ \E i \in DOMAIN a.esdt : LossyToken(a.esdt[i][2])
    \/ a.fields.update.value /\
            \/ \E k \in {"nonce", "balance", "code", "shard"} :
                    Given(a.fields[k]) /\ a.fields[k].original = Str("")
            \/ \E k \in {"username", "owner"} : Given(a.fields[k]) /\ a.fields[k].value = <<>>
    \/ /\ ~a.fields.update.value /\ a.fields.code.value # <<>>
       /\ Given(a.fields.codeMetadata) /\ a.fields.codeMetadata.original = Str("")

LossyCheckAccount(a) == \E i \in DOMAIN a.esdt : LossyCheckToken(a.esdt[i][2])

\* Code metadata, nonces and the arguments of an upgrade are not written, addresses
\* that are not there are written, as "", and a transfer of no tokens becomes one of EGLD.
LossyTx(type, tx) ==
    \/ type = "scDeploy" /\ Given(tx.fields.codeMetadata)
    \/ type \in {"scCall", "scUpgrade"} /\ tx.fields.nonce.value # <<>>
    \/ type = "scUpgrade" /\ tx.fields.arguments.value # <<>>
    \/ HasSender(type) /\ tx.fields.from.original = Str("")
    \/ HasReceiver(type) /\ tx.fields.to.original = Str("")
    \/ type = "transfer" /\ tx.hasESDT /\ tx.esdt = <<>>

\* An address or endpoint that is not there is written as nothing at all, and the file
\* is no JSON any more.
LossyLog(e) == e.address.original = Nil \/ e.endpoint.original = Nil

LossyObject(type, k, x) ==
    CASE type = "setState" /\ k = "accounts" -> \E i \in DOMAIN x : LossyAccount(x[i][2])
      [] k = "newAddresses" -> \E i \in DOMAIN x : Str("") \in {x[i].creatorAddress.original, x[i].newAddress.original}
      [] type = "checkState" -> \E i \in DOMAIN x.Accounts : LossyCheckAccount(x.Accounts[i][2])
      [] k = "tx"     -> LossyTx(type, x)
      [] k = "expect" -> \E i \in DOMAIN x.logs.List : LossyLog(x.logs.List[i])
      [] OTHER        -> FALSE

LossyStep(s) ==
    \/ s.type = "externalSteps" /\ Given(s.fields.traceGas)
    \/ \E k \in DOMAIN s.objects : LossyObject(s.type, k, s.objects[k])

Lossy(j) ==
    /\ Reading(j) = "succeeds"
    /\ \E i \in DOMAIN StepsOf(j) : LossyStep(processScenarioStep(StepsOf(j)[i]))

Meaning(j) ==
    IF Reading(j) = "succeeds" THEN SeenScenario(ParseScenarioFile(j)) ELSE [reading |-> Reading(j)]

(***************************************************************************)
(* Properties.                                                             *)
(***************************************************************************)
\* A file is formatted once: what the formatter has written, it does not change
\* when it is run again, whether it can read it or not, and it does not panic.
FormattedIsStable == [][outcome = "written" => file' = file /\ outcome' # "panicked"]_vars

\* Running the scenario before and after formatting is the same, values, which fields
\* are specified and which conditions are checked, unless the file has one of the
\* forms Lossy lists; and those do lose something.
KeepsMeaningUnlessLossy ==
    [][outcome = "none" => ((Meaning(file') = Meaning(file)) <=> ~Lossy(file))]_vars
=============================================================================

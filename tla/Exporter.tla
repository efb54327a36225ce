------------------------------ MODULE Exporter ------------------------------
(***************************************************************************)
(* GetAccountsAndTransactionsFromScenarios: turns a scenario file, and the *)
(* files its externalSteps steps name, into a flat list of accounts and    *)
(* successful transactions, and the position of the transaction to         *)
(* measure.  The recursion over files is a stack of frames.                *)
(*                                                                         *)
(* A name stands for what is copied as it is: function, arguments and gas  *)
(* limit of a transaction; nonce, balance, storage, tokens and owner of an *)
(* account.  A payment is the nonce, the EGLD and the tokens of a          *)
(* transaction.  An address is its first ScAddressPrefixLength bytes and   *)
(* the others.                                                             *)
(***************************************************************************)
EXTENDS Integers, Sequences, SequencesExt

CONSTANTS
    File,       \* the scenario files that exist
    Missing,    \* a path with no file
    Root,       \* the file that is exported
    Library,    \* what may be in the files: a set of [File -> Seq(Step)]
    Address,    \* the addresses in the files: a set of [head, tail]
    MaxDepth    \* bound: the nesting of externalSteps

InvalidBenchmarkTxPos == -1

TxTypes == {"scCall", "scUpgrade", "scDeploy", "scQuery", "transfer", "validatorReward"}

\* The parser takes "expect" from steps of these types only.
IsSmartContractTx == {"scCall", "scUpgrade", "scDeploy", "scQuery"}

\* The expected status: 0 (also when the status is unspecified), another one,
\* "*" (a nil number), or no expected result at all (a nil pointer).
Status == {"ok", "failed", "star", "none"}

\* The head the addresses of contracts get.
ScAddressPrefix == "0x00000000000000000500"

\* An address that a file leaves out: no bytes.
Unnamed == [head |-> "", tail |-> ""]

\* What a transaction has that was not given any.
NoPayment == "none"

minimumAcceptedGasPrice == 1

IsStep(s) ==
    \/ /\ s.kind = "setState"
       /\ s.accounts \in Seq(Range(s.accounts)) /\ s.mocks \in Seq(Range(s.mocks))
       /\ \A a \in Range(s.accounts) : a.code \in BOOLEAN /\ a.address \in Address
       /\ \A m \in Range(s.mocks) : m.address \in Address \union {Unnamed}
    \/ /\ s.kind = "tx" /\ s.type \in TxTypes /\ s.status \in Status
       /\ s.type \notin IsSmartContractTx => s.status = "none"
       /\ {s.from, s.to} \subseteq Address \union {Unnamed}
       /\ s.gasPrice \in Nat /\ s.codeFile \in BOOLEAN
    \/ s.kind = "externalSteps" /\ s.path \in File \union {Missing}
    \/ s.kind \in {"checkState", "dumpState"}

ASSUME FileAssumption == Root \in File /\ Missing \notin File
\* No two of the addresses differ in the first bytes only.
ASSUME AddressAssumption ==
    /\ Unnamed \notin Address
    /\ \A a \in Address : a = [head |-> a.head, tail |-> a.tail]
    /\ \A a, b \in Address : a.tail = b.tail => a = b
ASSUME DepthAssumption == MaxDepth \in Nat \ {0}

\* The steps of the files.
StepsOf(files) == UNION {Range(files[f]) : f \in File}

ASSUME LibraryAssumption ==
    \A files \in Library :
        files \in [File -> Seq(StepsOf(files))] /\ \A s \in StepsOf(files) : IsStep(s)

VARIABLES
    lib,     \* the files
    stack,   \* the calls of getAccountsAndTransactionsFromSteps under way
    pc,      \* "running", "done", "invalid" (an error) or "crashed" (a panic)
    result   \* stateAndBenchmarkInfo of the outermost call

vars == <<lib, stack, pc, result>>

Empty == [Accs |-> <<>>, DeployedAccs |-> <<>>, Txs |-> <<>>, DeployTxs |-> <<>>,
          BenchmarkTxPos |-> InvalidBenchmarkTxPos]

\* i is the index of the next step, from 1; steps loses the ones left out.
Frame(file) == [steps |-> lib[file], i |-> 1, info |-> Empty]

Init ==
    /\ lib \in Library
    /\ stack = <<[steps |-> lib[Root], i |-> 1, info |-> Empty]>>
    /\ pc = "running"
    /\ result = Empty

Top == stack[Len(stack)]
AtStep == pc = "running" /\ Top.i <= Len(Top.steps)
Current == Top.steps[Top.i]

\* The first step of a file is looked at before any other.
ValidFile == Top.i = 1 => Len(Top.steps) > 0 /\ Top.steps[1].kind \in {"setState", "externalSteps"}

SetTop(frame) == stack' = [stack EXCEPT ![Len(stack)] = frame]

\* The step is done; info is what it leaves.
Advance(info) ==
    SetTop([Top EXCEPT !.i = @ + 1, !.info = info]) /\ UNCHANGED <<lib, pc, result>>

\* An error: every caller returns it, and what is invalid with it.
Invalid == pc' = "invalid" /\ stack' = <<>> /\ result' = Empty /\ UNCHANGED lib

Crash == pc' = "crashed" /\ stack' = <<>> /\ UNCHANGED <<lib, result>>

----------------------------------------------------------------------------

BadFile == pc = "running" /\ ~ValidFile /\ Invalid

\* Mutant: a contract without owner is accepted.
AnyOwner(accounts) == TRUE

HaveOwners(accounts) == \A i \in DOMAIN accounts : accounts[i].code => accounts[i].owner

\* append(ScAddressPrefix, address[ScAddressPrefixLength:]...), which panics if
\* there is no address.
ScAddress(address) == [address EXCEPT !.head = ScAddressPrefix]

TestAccount(a) ==
    [name |-> a.name, address |-> IF a.code THEN ScAddress(a.address) ELSE a.address]

\* An account with no nonce, balance, storage or code, which its creator owns.
DeployedAccount(mock) == [name |-> mock.name, address |-> ScAddress(mock.address)]

\* An address to be mocked may be left out, and an account has always one.
AllNamed(mocks) == \A i \in DOMAIN mocks : mocks[i].address # Unnamed

SetState ==
    /\ AtStep /\ ValidFile /\ Current.kind = "setState"
    /\ IF ~HaveOwners(Current.accounts) THEN Invalid
       ELSE /\ AllNamed(Current.mocks)
            /\ Advance([Top.info EXCEPT
                   !.Accs = @ \o [i \in DOMAIN Current.accounts |-> TestAccount(Current.accounts[i])],
                   !.DeployedAccs = @ \o [i \in DOMAIN Current.mocks |->
                                              DeployedAccount(Current.mocks[i])]])

Succeeds(s) == s.status = "ok"

BenchmarkTxPos(info, s) ==
    IF s.ident = "benchmark" /\ info.BenchmarkTxPos = InvalidBenchmarkTxPos
    THEN Len(info.Txs) ELSE info.BenchmarkTxPos

\* Gas that costs nothing costs the least that is accepted.
GasPrice(s) == IF s.gasPrice = 0 THEN minimumAcceptedGasPrice ELSE s.gasPrice

\* The code is read again, by a path relative to the working directory.
HasReceiver(s) == s.type \in {"scCall", "scUpgrade"} => s.to # Unnamed
HasCode(s) == s.type \in {"scDeploy", "scUpgrade"} => s.codeFile

CreateTransaction(s) ==
    [name |-> s.name, payment |-> s.payment, sndAddr |-> s.from, rcvAddr |-> ScAddress(s.to),
     gasPrice |-> GasPrice(s)]

CreateUpgradeTransaction(s) == [CreateTransaction(s) EXCEPT !.payment = NoPayment]

CreateDeployTransaction(s) ==
    [name |-> s.name, payment |-> NoPayment, sndAddr |-> s.from, rcvAddr |-> Unnamed,
     gasPrice |-> GasPrice(s)]

AtGoodTx(types) ==
    /\ AtStep /\ ValidFile /\ Current.kind = "tx" /\ Succeeds(Current)
    /\ Current.type \in types /\ HasReceiver(Current) /\ HasCode(Current)

CallOrUpgrade ==
    /\ AtGoodTx({"scCall", "scUpgrade"})
    /\ Advance([Top.info EXCEPT
           !.BenchmarkTxPos = BenchmarkTxPos(Top.info, Current),
           !.Txs = Append(@, IF Current.type = "scCall" THEN CreateTransaction(Current)
                             ELSE CreateUpgradeTransaction(Current))])

Deploy ==
    /\ AtGoodTx({"scDeploy"})
    /\ Advance([Top.info EXCEPT !.DeployTxs = Append(@, CreateDeployTransaction(Current))])

\* A transaction that is expected to fail is passed over.
FailedTx ==
    /\ AtStep /\ ValidFile /\ Current.kind = "tx" /\ Current.status = "failed"
    /\ Advance(Top.info)

\* ExpectedResult.Status.Value.Cmp, with a nil result or a nil value.
NilResult ==
    /\ AtStep /\ ValidFile /\ Current.kind = "tx" /\ Current.status \in {"star", "none"}
    /\ Crash

\* A slice of an address that is not there, or code that cannot be read.
NotThere ==
    /\ AtStep /\ ValidFile
    /\ \/ Current.kind = "tx" /\ Succeeds(Current) /\ ~(HasReceiver(Current) /\ HasCode(Current))
       \/ Current.kind = "setState" /\ HaveOwners(Current.accounts) /\ ~AllNamed(Current.mocks)
    /\ Crash

\* Mutant: the index moves on although the steps moved down.
DropAndAdvance(frame) == [frame EXCEPT !.steps = RemoveAt(@, frame.i), !.i = @ + 1]

\* The step is cut out of the list, and the index stays.
Drop(frame) == [frame EXCEPT !.steps = RemoveAt(@, frame.i)]

OtherStep ==
    /\ AtStep /\ ValidFile
    /\ \/ Current.kind \in {"checkState", "dumpState"}
       \/ Current.kind = "tx" /\ Succeeds(Current) /\ Current.type = "scQuery"
    /\ SetTop(Drop(Top))
    /\ UNCHANGED <<lib, pc, result>>

ExternalSteps ==
    /\ AtStep /\ ValidFile /\ Current.kind = "externalSteps"
    /\ IF Current.path = Missing THEN Invalid
       ELSE /\ Len(stack) < MaxDepth
            /\ stack' = Append(stack, Frame(Current.path))
            /\ UNCHANGED <<lib, pc, result>>

\* Mutant: the mark of an external file wins.
MergeMark(info, external) ==
    [Accs |-> info.Accs \o external.Accs, DeployedAccs |-> info.DeployedAccs \o external.DeployedAccs,
     Txs |-> info.Txs \o external.Txs, DeployTxs |-> info.DeployTxs \o external.DeployTxs,
     BenchmarkTxPos |-> external.BenchmarkTxPos]

\* The position is taken over as it is: it counts from the first transaction of
\* the external file.
Merge(info, external) ==
    [Accs |-> info.Accs \o external.Accs, DeployedAccs |-> info.DeployedAccs \o external.DeployedAccs,
     Txs |-> info.Txs \o external.Txs, DeployTxs |-> info.DeployTxs \o external.DeployTxs,
     BenchmarkTxPos |-> IF info.BenchmarkTxPos = InvalidBenchmarkTxPos
                        THEN external.BenchmarkTxPos ELSE info.BenchmarkTxPos]

Return ==
    /\ pc = "running" /\ ValidFile /\ Top.i > Len(Top.steps)
    /\ UNCHANGED lib
    /\ IF Len(stack) = 1
       THEN stack' = <<>> /\ pc' = "done" /\ result' = Top.info
       ELSE LET caller == stack[Len(stack) - 1]
            IN  /\ stack' = Append(SubSeq(stack, 1, Len(stack) - 2),
                                   [caller EXCEPT !.i = @ + 1, !.info = Merge(@, Top.info)])
                /\ UNCHANGED <<pc, result>>

Next ==
    \/ BadFile \/ SetState \/ CallOrUpgrade \/ Deploy \/ FailedTx \/ NilResult
    \/ NotThere \/ OtherStep \/ ExternalSteps \/ Return

Spec == Init /\ [][Next]_vars

----------------------------------------------------------------------------
(* What an export should be, from the files alone *)

GoesInto(s) == s.kind = "externalSteps" /\ s.path # Missing

\* The files an export goes into, by how deep it goes and where it begins.
Reaches(files) ==
    LET reaches[d \in 0..MaxDepth] ==
            [f \in File |->
                IF d = 0 THEN {}
                ELSE {f} \union UNION {reaches[d - 1][s.path] : s \in {x \in Range(files[f]) : GoesInto(x)}}]
    IN  reaches

\* What steps have of something, in their order.
Gather(steps, part) == FlattenSeq([i \in DOMAIN steps |-> part[steps[i]]])

\* The steps of files with those of the external files in their place.
Unfolded(files) ==
    LET unfolded[d \in 0..MaxDepth] ==
            [f \in File |->
                IF d = 0 THEN <<>>
                ELSE Gather(files[f], [s \in StepsOf(files) |->
                                          IF GoesInto(s) THEN unfolded[d - 1][s.path] ELSE <<s>>])]
    IN  unfolded

\* The transactions of some types that are expected to succeed.
Successful(files, types) ==
    [s \in StepsOf(files) |->
        IF s.kind = "tx" /\ s.status = "ok" /\ s.type \in types THEN <<s>> ELSE <<>>]

AccountsSet(files) == [s \in StepsOf(files) |-> IF s.kind = "setState" THEN s.accounts ELSE <<>>]
MocksSet(files) == [s \in StepsOf(files) |-> IF s.kind = "setState" THEN s.mocks ELSE <<>>]

AllSteps == Unfolded(lib)[MaxDepth][Root]

Exported == Gather(AllSteps, Successful(lib, {"scCall", "scUpgrade"}))
Deployed == Gather(AllSteps, Successful(lib, {"scDeploy"}))
Accounts == Gather(AllSteps, AccountsSet(lib))
Mocks == Gather(AllSteps, MocksSet(lib))

Marked == LET txs == Exported IN {i \in DOMAIN txs : txs[i].ident = "benchmark"}

\* No file includes another after a transaction of its own or of a file it
\* has included.
TxsFollowExternals(files) ==
    \A f \in Reaches(files)[MaxDepth][Root] : \A i \in DOMAIN files[f] :
        files[f][i].kind = "externalSteps" =>
            \A j \in 1..(i - 1) : files[f][j].kind \notin {"tx", "externalSteps"}

----------------------------------------------------------------------------
(* Properties *)

Names(seq) == [i \in DOMAIN seq |-> seq[i].name]

\* All that is to be exported, once, in the order of the files.
Flattened ==
    /\ Names(result.Txs) = Names(Exported)
    /\ Names(result.DeployTxs) = Names(Deployed)
    /\ Names(result.Accs) = Names(Accounts)
    /\ Names(result.DeployedAccs) = Names(Mocks)

\* A transaction goes to the account its step names, if that is a contract, and
\* to no other.  A contract whose address has not the prefix yet is moved, so
\* that a transaction it sends comes from an account that was not exported; and
\* so is the receiver of a transaction to an account without code.
TxsReachTheirAccounts ==
    LET txs == Exported  accounts == Accounts  mocks == Mocks
        Stays(a) == a.address.head = ScAddressPrefix
    IN  \A i \in DOMAIN txs :
            /\ \A j \in DOMAIN accounts :
                /\ result.Txs[i].rcvAddr = result.Accs[j].address
                       <=> txs[i].to = accounts[j].address /\ (accounts[j].code \/ Stays(accounts[j]))
                /\ result.Txs[i].sndAddr = result.Accs[j].address
                       <=> txs[i].from = accounts[j].address /\ (accounts[j].code => Stays(accounts[j]))
            /\ \A j \in DOMAIN mocks :
                   result.Txs[i].rcvAddr = result.DeployedAccs[j].address <=> txs[i].to = mocks[j].address

\* Calls keep their payment, everything has a gas price.
PaidFor ==
    LET txs == Exported
    IN  /\ \A i \in DOMAIN txs : txs[i].type = "scCall" => result.Txs[i].payment = txs[i].payment
        /\ \A i \in DOMAIN result.Txs : result.Txs[i].gasPrice > 0
        /\ \A i \in DOMAIN result.DeployTxs : result.DeployTxs[i].gasPrice > 0

\* An export has the successful transactions, the deployments, the accounts and
\* the mocked addresses of all files, in the order in which the executor would
\* run their steps, where steps are cut out of the list too; and although the
\* addresses of contracts are changed in three places, what belongs together
\* in the files still does in the export.
ExportIsFlattening == pc = "done" => Flattened /\ TxsReachTheirAccounts /\ PaidFor

\* exporter.go: BenchmarkTxPos is the position of the first exported
\* transaction whose id is "benchmark".
BenchmarkIsFirstMarked ==
    pc = "done" =>
        LET marked == Marked
            pos    == result.BenchmarkTxPos + 1
        IN  IF marked = {} THEN result.BenchmarkTxPos = InvalidBenchmarkTxPos
            ELSE pos \in marked /\ \A i \in marked : pos <= i

\* The position is right where files come before transactions, and is set
\* exactly if there is something to measure.
BenchmarkUnlessShifted ==
    /\ TxsFollowExternals(lib) => BenchmarkIsFirstMarked
    /\ pc = "done" => (result.BenchmarkTxPos = InvalidBenchmarkTxPos <=> Marked = {})

\* A file that does not begin as it has to, or has an account without owner or a
\* path that leads nowhere.
Unexportable(steps) ==
    \/ Len(steps) = 0 \/ steps[1].kind \notin {"setState", "externalSteps"}
    \/ \E s \in Range(steps) :
          \/ s.kind = "setState" /\ \E a \in Range(s.accounts) : a.code /\ ~a.owner
          \/ s.kind = "externalSteps" /\ s.path = Missing

\* A file without a status, a receiver, code or an address.
Lacks(steps) ==
    \E s \in Range(steps) :
        \/ s.kind = "tx" /\ s.status \in {"star", "none"}
        \/ s.kind = "tx" /\ s.status = "ok" /\ s.type # "scQuery"
           /\ \/ s.type # "scDeploy" /\ s.to = Unnamed
              \/ s.type # "scCall" /\ ~s.codeFile
        \/ s.kind = "setState" /\ \E m \in Range(s.mocks) : m.address = Unnamed

\* An export succeeds only if every file it went into could be exported, fails
\* only if one could not, and crashes only where a file has a transaction without
\* an expected status, as every transfer is, without a receiver, or with code that
\* is not found, or a mock without an address.
InvalidIffBadFile ==
    LET reached == Reaches(lib)[MaxDepth][Root]
    IN  /\ pc = "done" => \A f \in reached : ~Unexportable(lib[f]) /\ ~Lacks(lib[f])
        /\ pc = "crashed" => \E f \in reached : Lacks(lib[f])
        /\ pc = "invalid" => \E f \in reached : Unexportable(lib[f])
=============================================================================

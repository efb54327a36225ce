---------------------------- MODULE TxExecution ----------------------------
(***************************************************************************)
(* ScenarioExecutor.executeTx: one transaction step of a scenario, from    *)
(* the gas payment to the deferred commit or rollback, against the mock    *)
(* world, the external VM and the external builtin functions.              *)
(*                                                                         *)
(* pc follows the function's order of effects:                             *)
(*   idle -> dispatch -> (builtin) -> (vm) -> output -> deferred -> idle   *)
(* The VM runs between "vm" and "output"; through the blockchain hook it   *)
(* takes and reverts snapshots and runs builtin functions, which write     *)
(* storage and append to the same journal the executor rolls back.         *)
(*                                                                         *)
(* tx.GasPayment is GasLimit * GasPrice.  tx.ESDTValue lists amounts of    *)
(* one fungible token: none, one (ESDTTransfer), or more                   *)
(* (MultiESDTNFTTransfer); ESDTListed says that it is not nil, that the    *)
(* step has the field, be it an empty list.  Balances are big integers in  *)
(* the code, Int here.  Multi transfers to an address without account are  *)
(* left out.                                                               *)
(***************************************************************************)
EXTENDS MockWorld

CONSTANTS
    Genesis,     \* the account map the transactions start from
    Tx,          \* the transactions of the scenario
    NoTx,        \* "no transaction yet"
    VMOutputs,   \* what the VM may return with return code Ok
    BalancedVM,  \* whether its balance deltas always sum to the call value
    Creatable,   \* addresses a running contract may send tokens to and create
    NonPayable,  \* contracts whose code metadata is not payable
    TokenKey,    \* the storage key of the token moved by builtin transfers
    RewardKey,   \* the storage key of validator rewards
    MaxNonce,    \* bound: no transaction starts at or above this nonce
    MaxBalance,  \* bound: no reward and no contract raises a balance above this
    MaxJournal   \* bound: the VM takes no step with this many snapshots

TxTypes == {"ScDeploy", "ScCall", "ScQuery", "Transfer", "ValidatorReward", "ScUpgrade"}

Transaction == [Type : TxTypes, From : Addr, To : Addr, EGLDValue : Nat,
                ESDTValue : Seq(Nat), ESDTListed : BOOLEAN, GasPayment : Nat]

IsOutput(out, addrs, keys) ==
    /\ DOMAIN out.OutputAccounts \subseteq addrs
    /\ \A a \in DOMAIN out.OutputAccounts : IsOutputAccount(out.OutputAccounts[a], keys)
    /\ out.DeletedAccounts \subseteq addrs

ASSUME GenesisAssumption ==
    IsAccountMap(Genesis) /\ \A a \in DOMAIN Genesis : Genesis[a].Balance >= 0
ASSUME TxAssumption ==
    /\ Tx \subseteq Transaction /\ NoTx \notin Transaction
    /\ \A t \in Tx : t.ESDTValue # <<>> => t.ESDTListed
\* The VM protects the token keys: no contract writes them directly.
ASSUME VMAssumption ==
    \A out \in VMOutputs : IsOutput(out, Addr \ {SystemAccount}, Key \ {TokenKey})
ASSUME KeyAssumption == TokenKey \in Key /\ RewardKey \in Key /\ TokenKey # RewardKey
ASSUME BalancedAssumption == BalancedVM \in BOOLEAN
ASSUME CreatableAssumption == Creatable \subseteq Addr \ {SystemAccount}
ASSUME BoundAssumption == MaxNonce \in Nat /\ MaxBalance \in Nat /\ MaxJournal \in Nat

VARIABLES
    pc,       \* where executeTx stands
    tx,       \* its argument
    err,      \* the variable the deferred function reads
    output,   \* the VM output, real or made up by the executor
    result,   \* what executeTx returns: an Ok output, a failed output, an error
    pending,  \* the token transfers a builtin call has still to do
    marks     \* the snapshots somebody may revert to: the executor's, then the
              \* VM's stack; world is the account map when it was taken (ghost)

txVars == <<pc, tx, err, output, result, pending, marks>>
vars == <<AcctMap, Snapshots, pc, tx, err, output, result, pending, marks>>

NoOutput == [Ok |-> FALSE, OutputAccounts |-> <<>>, DeletedAccounts |-> {}]

EmptyOk == [NoOutput EXCEPT !.Ok = TRUE]

\* A return code other than Ok; outOfFundsResult is one.
FailedOutput == NoOutput

HasSender(t) == t.Type \notin {"ScQuery", "ValidatorReward"}

Init ==
    /\ AcctMap = Genesis
    /\ Snapshots = <<>>
    /\ pc = "idle"
    /\ tx = NoTx
    /\ err = FALSE
    /\ output = NoOutput
    /\ result = "none"
    /\ pending = <<>>
    /\ marks = <<>>

----------------------------------------------------------------------------
(* Before the snapshot: nonce and gas *)

IncNonce(am, addr) == [am EXCEPT ![addr].Nonce = @ + 1]

\* UpdateWorldStateBefore, when the sender can pay.
UpdateWorldStateBefore(am, addr, gasPayment) ==
    [IncNonce(am, addr) EXCEPT ![addr].Balance = @ - gasPayment]

WithinBounds(t) ==
    /\ HasSender(t) /\ t.From \in DOMAIN AcctMap => AcctMap[t.From].Nonce < MaxNonce
    /\ t.Type = "ValidatorReward" /\ t.To \in DOMAIN AcctMap =>
          AcctMap[t.To].Balance + t.EGLDValue <= MaxBalance

\* The sender is unknown or cannot pay the gas: an error before any snapshot.
\* The nonce is already incremented when the balance is looked at.
RejectTx(t) ==
    /\ pc = "idle" /\ WithinBounds(t) /\ HasSender(t)
    /\ \/ t.From \notin DOMAIN AcctMap /\ UNCHANGED AcctMap
       \/ /\ t.From \in DOMAIN AcctMap
          /\ AcctMap[t.From].Balance < t.GasPayment
          /\ AcctMap' = IncNonce(AcctMap, t.From)
    /\ result' = "error"
    /\ UNCHANGED <<Snapshots, pc, tx, err, output, pending, marks>>

\* Mutant: the index is read before the backup is made.
IndexBeforeBackup(am) ==
    /\ Snapshots' = SnapshotState(Snapshots, am)
    /\ marks' = Append(marks, [id |-> JournalLen(Snapshots), world |-> am])

TakeMark(am) ==
    /\ Snapshots' = SnapshotState(Snapshots, am)
    /\ marks' = Append(marks, [id |-> JournalLen(Snapshots'), world |-> am])

\* Gas, nonce, then CreateStateBackup.
BeginTx(t) ==
    /\ pc = "idle" /\ WithinBounds(t)
    /\ \/ /\ HasSender(t)
          /\ t.From \in DOMAIN AcctMap
          /\ AcctMap[t.From].Balance >= t.GasPayment
          /\ AcctMap' = UpdateWorldStateBefore(AcctMap, t.From, t.GasPayment)
       \/ ~HasSender(t) /\ UNCHANGED AcctMap
    /\ TakeMark(AcctMap')
    /\ tx' = t
    /\ pc' = "dispatch"
    /\ err' = FALSE
    /\ result' = "none"
    /\ UNCHANGED <<output, pending>>

----------------------------------------------------------------------------
(* The switch on the transaction type *)

\* Mutant: the executor does not look at the balance.
BalanceNotChecked(t) == TRUE

senderHasEnoughBalance(t) == HasSender(t) => AcctMap[t.From].Balance >= t.EGLDValue

\* Mutant: the error is returned, but the outer err stays nil.
FailWithShadowedErr ==
    /\ err' = FALSE
    /\ result' = "error"
    /\ pc' = "deferred"

\* return nil, err with the outer err set: the deferred function rolls back.
Fail ==
    /\ err' = TRUE
    /\ result' = "error"
    /\ pc' = "deferred"

Produce(out) ==
    /\ output' = out
    /\ pc' = "output"

OutOfFunds ==
    /\ pc = "dispatch" /\ ~senderHasEnoughBalance(tx)
    /\ Produce(FailedOutput)
    /\ UNCHANGED <<AcctMap, Snapshots, tx, err, result, pending, marks>>

DispatchDeploy ==
    /\ pc = "dispatch" /\ senderHasEnoughBalance(tx)
    /\ tx.Type = "ScDeploy"
    /\ pc' = "vm"
    /\ UNCHANGED <<AcctMap, Snapshots, tx, err, output, result, pending, marks>>

\* A query runs as a call the contract makes to itself.
DispatchCall ==
    /\ pc = "dispatch" /\ senderHasEnoughBalance(tx)
    /\ tx.Type \in {"ScCall", "ScQuery"}
    /\ tx' = IF tx.Type = "ScQuery" THEN [tx EXCEPT !.From = tx.To] ELSE tx
    /\ IF tx.To \in DOMAIN AcctMap /\ AcctMap[tx.To].Code # NoCode
       THEN /\ pc' = IF tx.ESDTValue = <<>> THEN "vm" ELSE "builtin"
            /\ pending' = tx.ESDTValue
            /\ UNCHANGED <<err, result>>
       ELSE Fail /\ UNCHANGED pending
    /\ UNCHANGED <<AcctMap, Snapshots, output, marks>>

\* simpleTransferOutput, or the start of directESDTTransfer.  A single token
\* transfer names the recipient, so ProcessBuiltInFunction creates it; a multi
\* transfer names the caller, and the recipient has to exist.
DispatchTransfer ==
    /\ pc = "dispatch" /\ senderHasEnoughBalance(tx)
    /\ tx.Type = "Transfer"
    /\ \/ /\ ~tx.ESDTListed /\ tx.ESDTValue = <<>>
          /\ Produce([Ok |-> TRUE,
                      OutputAccounts |-> [a \in {tx.To} |->
                          [BalanceDelta |-> tx.EGLDValue, Nonce |-> 0, Code |-> NoCode,
                           StorageUpdates |-> <<>>]],
                      DeletedAccounts |-> {}])
          /\ UNCHANGED <<AcctMap, pending>>
       \/ /\ Len(tx.ESDTValue) = 1
          /\ AcctMap' = ensureAccountExists(AcctMap, tx.To)
          /\ pending' = tx.ESDTValue
          /\ pc' = "builtin"
          /\ UNCHANGED output
       \/ /\ Len(tx.ESDTValue) > 1 /\ tx.To \in DOMAIN AcctMap
          /\ pending' = tx.ESDTValue
          /\ pc' = "builtin"
          /\ UNCHANGED <<AcctMap, output>>
    /\ UNCHANGED <<Snapshots, tx, err, result, marks>>

\* directESDTTransfer with nothing to transfer: the input is left as it is, so
\* the recipient is created before the container has no function named "".
DispatchEmptyTransfer ==
    /\ pc = "dispatch" /\ senderHasEnoughBalance(tx)
    /\ tx.Type = "Transfer"
    /\ tx.ESDTListed /\ tx.ESDTValue = <<>>
    /\ AcctMap' = ensureAccountExists(AcctMap, tx.To)
    /\ Fail
    /\ UNCHANGED <<Snapshots, tx, output, pending, marks>>

\* validatorRewardOutput: balance and the reward storage key move together.
DispatchReward ==
    /\ pc = "dispatch"
    /\ tx.Type = "ValidatorReward"
    /\ IF tx.To \in DOMAIN AcctMap
       THEN /\ Produce([Ok |-> TRUE,
                        OutputAccounts |-> [a \in {tx.To} |->
                            [BalanceDelta |-> tx.EGLDValue, Nonce |-> 0, Code |-> NoCode,
                             StorageUpdates |-> [k \in {RewardKey} |->
                                 AcctMap[tx.To].Storage[RewardKey] + tx.EGLDValue]]],
                        DeletedAccounts |-> {}])
            /\ UNCHANGED <<err, result>>
       ELSE Fail /\ UNCHANGED output
    /\ UNCHANGED <<AcctMap, Snapshots, tx, pending, marks>>

\* The default case returns a new error without assigning err: the deferred
\* function will commit.  ScUpgrade parses, and ends here.
DispatchUnknown ==
    /\ pc = "dispatch" /\ senderHasEnoughBalance(tx)
    /\ tx.Type = "ScUpgrade"
    /\ result' = "error"
    /\ pc' = "deferred"
    /\ UNCHANGED <<AcctMap, Snapshots, tx, err, output, pending, marks>>

----------------------------------------------------------------------------
(* Builtin token transfers: external code writing through SaveKeyValue, which *)
(* writes the storage of one account and then backs up the whole world        *)

Payable(addr) == AcctMap[addr].Code = NoCode \/ addr \notin NonPayable

CanDebit(am, snd, amount) == am[snd].Storage[TokenKey] >= amount

Debit(am, snd, amount) ==
    WriteStorage(am, snd, TokenKey, am[snd].Storage[TokenKey] - amount)

Credit(am, rcv, amount) ==
    WriteStorage(am, rcv, TokenKey, am[rcv].Storage[TokenKey] + amount)

\* One transfer of amount: two writes, two backups.
MoveTokens(am, snd, rcv, amount) ==
    LET debited  == Debit(am, snd, amount)
        credited == Credit(debited, rcv, amount)
    IN  /\ AcctMap' = credited
        /\ Snapshots' = SnapshotState(SnapshotState(Snapshots, debited), credited)

BuiltinMove ==
    /\ pc = "builtin" /\ pending # <<>>
    /\ Payable(tx.To) /\ CanDebit(AcctMap, tx.From, Head(pending))
    /\ MoveTokens(AcctMap, tx.From, tx.To, Head(pending))
    /\ pending' = Tail(pending)
    /\ UNCHANGED <<pc, tx, err, output, result, marks>>

\* Not enough tokens: nothing of this transfer is written, earlier ones were.
\* Not payable: a single transfer has debited the sender by then, a multi
\* transfer checks first.
BuiltinFail ==
    /\ pc = "builtin" /\ pending # <<>>
    /\ \/ ~CanDebit(AcctMap, tx.From, Head(pending)) /\ UNCHANGED worldVars
       \/ /\ CanDebit(AcctMap, tx.From, Head(pending)) /\ ~Payable(tx.To)
          /\ IF Len(tx.ESDTValue) = 1
             THEN /\ AcctMap' = Debit(AcctMap, tx.From, Head(pending))
                  /\ Snapshots' = SnapshotState(Snapshots, AcctMap')
             ELSE UNCHANGED worldVars
    /\ Fail
    /\ UNCHANGED <<tx, output, pending, marks>>

\* The transfer's own output is discarded before a call, and is the
\* transaction's (empty) output otherwise.
BuiltinDone ==
    /\ pc = "builtin" /\ pending = <<>>
    /\ IF tx.Type = "ScCall" THEN pc' = "vm" /\ UNCHANGED output ELSE Produce(EmptyOk)
    /\ UNCHANGED <<AcctMap, Snapshots, tx, err, result, pending, marks>>

----------------------------------------------------------------------------
(* The VM, external: it calls the blockchain hook any number of times *)

VMRunning == pc = "vm" /\ Len(Snapshots) < MaxJournal

VMGetSnapshot ==
    /\ VMRunning
    /\ TakeMark(AcctMap)
    /\ UNCHANGED <<AcctMap, pc, tx, err, output, result, pending>>

Pop(s) == SubSeq(s, 1, Len(s) - 1)

\* The VM reverts to the snapshots it took, last taken first.
VMRevert ==
    /\ pc \in {"vm", "vmfault"} /\ Len(marks) > 1
    /\ RevertToSnapshot(marks[Len(marks)].id)
    /\ marks' = Pop(marks)
    /\ pc' = "vm"
    /\ UNCHANGED <<tx, err, output, result, pending>>

\* A nested call succeeded: its snapshot will not be reverted to.
VMDiscard ==
    /\ pc = "vm" /\ Len(marks) > 1
    /\ marks' = Pop(marks)
    /\ UNCHANGED <<AcctMap, Snapshots, pc, tx, err, output, result, pending>>

\* A contract sends tokens, under a snapshot the VM took for the call.
\* ProcessBuiltInFunction creates a missing recipient before anything else.
VMTransfer(snd, rcv, amount) ==
    /\ VMRunning /\ Len(marks) > 1
    /\ snd \in DOMAIN AcctMap /\ AcctMap[snd].Code # NoCode
    /\ rcv \in (DOMAIN AcctMap \union Creatable) \ {SystemAccount}
    /\ LET am == ensureAccountExists(AcctMap, rcv)
           payable == am[rcv].Code = NoCode \/ rcv \notin NonPayable
       IN  IF ~CanDebit(am, snd, amount)
           THEN AcctMap' = am /\ UNCHANGED Snapshots /\ pc' = "vmfault"
           ELSE IF payable
           THEN MoveTokens(am, snd, rcv, amount) /\ UNCHANGED pc
           ELSE /\ AcctMap' = Debit(am, snd, amount)
                /\ Snapshots' = SnapshotState(Snapshots, AcctMap')
                /\ pc' = "vmfault"
    /\ UNCHANGED <<tx, err, output, result, pending, marks>>

\* A builtin function saves token metadata in the system account, which
\* LoadAccount creates.
VMSystemWrite ==
    /\ VMRunning
    /\ AcctMap' = WriteStorage(ensureAccountExists(AcctMap, SystemAccount),
                               SystemAccount, TokenKey, 1)
    /\ Snapshots' = SnapshotState(Snapshots, AcctMap')
    /\ UNCHANGED <<pc, tx, err, output, result, pending, marks>>

\* RunSmartContractCall or RunSmartContractCreate returns an error.
VMError ==
    /\ pc = "vm"
    /\ Fail
    /\ UNCHANGED <<AcctMap, Snapshots, tx, output, pending, marks>>

VMReturnFailed ==
    /\ pc = "vm"
    /\ Produce(FailedOutput)
    /\ UNCHANGED <<AcctMap, Snapshots, tx, err, result, pending, marks>>

DeltaSum(outputAccounts) ==
    SumFunction([a \in DOMAIN outputAccounts |-> outputAccounts[a].BalanceDelta])

BalanceAfter(a, out) ==
    (IF a \in DOMAIN AcctMap THEN AcctMap[a].Balance ELSE 0)
        - (IF HasSender(tx) /\ a = tx.From THEN tx.EGLDValue ELSE 0)
        + out.OutputAccounts[a].BalanceDelta

\* The VM lets no account spend what it does not have.  The deltas of a query
\* cancel out: the executor checks the sum only where there is a sender.
VMReturnOk ==
    /\ pc = "vm"
    /\ \E out \in VMOutputs :
          /\ \A a \in DOMAIN out.OutputAccounts : BalanceAfter(a, out) \in 0..MaxBalance
          /\ BalancedVM \/ tx.Type = "ScQuery" =>
                DeltaSum(out.OutputAccounts) = tx.EGLDValue
          /\ Produce([Ok |-> TRUE, OutputAccounts |-> out.OutputAccounts,
                      DeletedAccounts |-> out.DeletedAccounts])
    /\ UNCHANGED <<AcctMap, Snapshots, tx, err, result, pending, marks>>

----------------------------------------------------------------------------
(* After the output *)

\* Mutant: the call value is not taken from the sender.
ValueNotSubtracted(am, t) == am

SubtractValue(am, t) ==
    IF HasSender(t) THEN UpdateBalanceWithDelta(am, t.From, -t.EGLDValue) ELSE am

\* updateStateAfterTx.  The sum is checked once everything is applied, and the
\* error goes to a variable that shadows err: the deferred function commits.
updateStateAfterTx ==
    /\ pc = "output" /\ output.Ok
    /\ AcctMap' = UpdateAccounts(SubtractValue(AcctMap, tx),
                                 output.OutputAccounts, output.DeletedAccounts)
    /\ result' = IF HasSender(tx) /\ DeltaSum(output.OutputAccounts) # tx.EGLDValue
                 THEN "error" ELSE "ok"
    /\ pc' = "deferred"
    /\ UNCHANGED <<Snapshots, tx, err, output, pending, marks>>

\* Mutant: a failed output does not set err.
FailedOutputCommitted ==
    /\ pc = "output" /\ ~output.Ok
    /\ result' = "retcode"
    /\ pc' = "deferred"
    /\ UNCHANGED <<AcctMap, Snapshots, tx, err, output, pending, marks>>

\* A failed output is returned without an error, and rolled back.
TxStepFailed ==
    /\ pc = "output" /\ ~output.Ok
    /\ err' = TRUE
    /\ result' = "retcode"
    /\ pc' = "deferred"
    /\ UNCHANGED <<AcctMap, Snapshots, tx, output, pending, marks>>

Return ==
    /\ pc' = "idle"
    /\ output' = NoOutput
    /\ pending' = <<>>
    /\ marks' = <<>>
    /\ tx' = NoTx
    /\ err' = FALSE
    /\ UNCHANGED result

\* The deferred function.  The results of executeTx are unnamed, so an error
\* of RollbackChanges is lost.
DeferredRollback ==
    /\ pc = "deferred" /\ err
    /\ RollbackChanges
    /\ Return

DeferredCommit ==
    /\ pc = "deferred" /\ ~err
    /\ CommitChanges
    /\ Return

----------------------------------------------------------------------------
VMAmounts == {1, 2}

VMStep ==
    \/ VMGetSnapshot
    \/ VMRevert
    \/ VMDiscard
    \/ \E snd, rcv \in Addr, amount \in VMAmounts : VMTransfer(snd, rcv, amount)
    \/ VMSystemWrite
    \/ VMError
    \/ VMReturnFailed
    \/ VMReturnOk

Dispatch ==
    \/ OutOfFunds
    \/ DispatchDeploy
    \/ DispatchCall
    \/ DispatchTransfer
    \/ DispatchEmptyTransfer
    \/ DispatchReward
    \/ DispatchUnknown

Next ==
    \/ \E t \in Tx : RejectTx(t) \/ BeginTx(t)
    \/ Dispatch
    \/ BuiltinMove
    \/ BuiltinFail
    \/ BuiltinDone
    \/ VMStep
    \/ updateStateAfterTx
    \/ TxStepFailed
    \/ DeferredRollback
    \/ DeferredCommit

Spec == Init /\ [][Next]_vars
----------------------------------------------------------------------------
(* Properties *)

\* Every variable has its type.  The output type covers what the VM returns
\* and what the executor makes up itself.
TypeOK ==
    /\ IsAccountMap(AcctMap)
    /\ \A i \in 1..Len(Snapshots) : IsAccountMap(Snapshots[i])
    /\ pc \in {"idle", "dispatch", "builtin", "vm", "vmfault", "output", "deferred"}
    /\ tx \in Transaction \union {NoTx}
    /\ err \in BOOLEAN
    /\ output.Ok \in BOOLEAN /\ IsOutput(output, Addr, Key)
    /\ result \in {"none", "ok", "retcode", "error"}
    /\ pending \in Seq(Nat)
    /\ \A i \in 1..Len(marks) : marks[i].id \in Nat

\* Whatever a transaction and the VM did, the journal is empty once executeTx
\* has returned.  RollbackChanges always reverts to index 0: a snapshot left
\* behind would make the next failed transaction restore an older world.
JournalEmptyBetweenTxs == pc = "idle" => Snapshots = <<>> /\ marks = <<>>

\* A snapshot index handed out by GetSnapshot keeps naming the same world until
\* it is reverted to, although SaveKeyValue appends to the same journal and
\* inner reverts truncate it; index 0 is the executor's.
JournalHoldsMarks ==
    /\ pc # "idle" => Len(marks) >= 1 /\ marks[1].id = 0
    /\ \A i \in 1..Len(marks) :
          /\ marks[i].id < Len(Snapshots)
          /\ Snapshots[marks[i].id + 1] = marks[i].world
    /\ \A i, j \in 1..Len(marks) : i < j => marks[i].id < marks[j].id

\* No transaction leaves an account with a negative balance: the executor
\* looks at the balance after the gas is gone, and no failure path keeps half
\* of a transfer.
NoNegativeBalance == \A a \in DOMAIN AcctMap : AcctMap[a].Balance >= 0

\* Accounts a running transaction created, other than the system account.
CreatedSince(world) == Unrestorable(AcctMap, world)

LastMark == marks[Len(marks)]

\* Among the VM's steps, only a revert shortens the journal.
VMReverts == pc \in {"vm", "vmfault"} /\ Len(Snapshots') < Len(Snapshots)

Restores(am, world) ==
    \A a \in DOMAIN world : a \in DOMAIN am /\ Ledger(am, a) = Ledger(world, a)

\* The deferred function sees the error of every path that fails before the
\* output is applied: when such a transaction has created no account, each
\* account has again the balance and the storage of the executor's snapshot.
FailedTxRestores ==
    [][pc = "deferred" /\ err /\ CreatedSince(marks[1].world) = {}
       => Restores(AcctMap', marks[1].world)]_vars

\* When the VM reverts to its last snapshot, everything written since is gone
\* from every account, unless an account was created since.
RevertRestoresMark ==
    [][VMReverts /\ CreatedSince(LastMark.world) = {}
       => Restores(AcctMap', LastMark.world)]_vars

\* A transaction reported as successful, with a sender and without deleted
\* accounts, moves EGLD and neither mints nor burns it: what the sum of the
\* balance deltas is checked for.
SuccessConservesEgld ==
    [][pc = "output" /\ result' = "ok" /\ HasSender(tx) /\ output.DeletedAccounts = {} =>
          EgldTotal(AcctMap') = EgldTotal(marks[1].world)]_vars

\* Gas stays paid and the nonce stays used whatever the outcome: no step of the
\* executor, rollback included, takes a nonce back.
NonceNeverGoesBack ==
    [][\A a \in DOMAIN AcctMap \intersect DOMAIN AcctMap' :
          AcctMap'[a].Nonce >= AcctMap[a].Nonce]_vars

\* Between transactions there are as many tokens as in the genesis state:
\* a transfer that fails after its first write is undone.
TokensConserved == pc = "idle" => TokenTotal(AcctMap, TokenKey) = TokenTotal(Genesis, TokenKey)

\* worldUpdate.go says of RollbackChanges that it "should be called after the
\* VM test has run, if the tx has failed": a transaction that returns an error
\* or a failed output leaves the balances and storages of the snapshot.
FailedTxIsRolledBack ==
    [][pc = "deferred" /\ result # "ok" => Restores(AcctMap', marks[1].world)]_vars
============================================================================

# Verification of mx-chain-scenario-go

The repository is a test framework for smart contracts. It parses *scenarios*, JSON
files of steps that set accounts, run transactions and check the outcome, and executes
them on a mock blockchain with a real or a dummy virtual machine. The same files can be
exported (as input of benchmarks) and reformatted. A defect in it does not lose money: it
makes a contract test pass that should fail, or the other way round. What this
project asks of the code is therefore that **a step does what the scenario says, all of
it or none of it, and that nothing left behind by one step, transaction or file changes
the verdict of another**.

Contents: 1 inventory, 2 modules, 3 how the models correspond to the code, 4 the runs,
5 bounds and fairness, 6 disagreements found, 7 proofs, 8 what is not modelled,
9 observations, 10 plan. Paths are relative to the repository; `worldmock/` and
`scenario/` are below `src/`.

## 1. Inventory

One process, one goroutine: nothing runs concurrently. What is hard here is control
flow over shared mutable objects: one executor, one world, one journal, one VM and one
file resolver are used by every scenario of a directory, through nested calls, early
returns and deferred functions.

| Component | State it keeps | Operations | Talks to | What is hard | What makes it correct |
|---|---|---|---|---|---|
| Transaction execution (`scenario/executor/stepRunTx.go`, `worldmock/worldUpdate.go`) | none of its own; `err` and `output` of the running call | `executeTx`: gas and nonce, snapshot, dispatch by type, VM or builtin transfer, application of the output, deferred commit or rollback | account map, journal, builtin functions, VM | effects before and after the snapshot; three ways to fail; an error that is shadowed; unnamed results | a transaction has all of its effects or none but gas and nonce; EGLD and tokens are neither made nor lost |
| Account map and journal (`worldAccountMap.go`, `worldAccountsAdapter.go`, `worldAccount.go`) | accounts; a list of copies of the account map | snapshot, revert to an index, commit, storage writes (each appends a copy) | executor, VM and builtin functions, which all hold indices | an index must go on naming the same world while others append and truncate | a revert restores what the index was taken of; the journal is empty between transactions |
| Builtin functions (`builtinFunctionsWrapper.go`, `mockESDT.go`) | none | token transfers, creation of accounts | account map and journal | a transfer that fails half way | a failed transfer moves nothing |
| Scenario controller (`scenario/io/scenarioDir.go`, `scenarioOne.go`, `scenarioRunner.go`) | `RunsNewTest`, counters | walk a directory, run one file | parser, executor | one executor for all files | each file gets the verdict it has alone; the run ends |
| Step loop (`execScenario.go`, `stepSelector.go`, `stepExternal.go`, `gasTraceUtil.go`, `vmScenarioExecutor.go`) | file resolver, `checkGas`, stack of trace flags, VM | run steps, nest external step files, create the VM | all steps, file resolver | fields saved and restored by hand around nested runs, on error paths too | stack discipline; paths, flags and gas checks are those of the file a step is in |
| Set state step (`stepSetState.go`, `worldAccountValidate.go`) | – | write, update accounts; block info; new-address mocks | world, converter | partial application; "unspecified" fields | says what it does and does nothing else |
| Blockchain hook (`worldBlockchainHook.go`, `mockAddress.go`) | compiled code by hash | new addresses, code lookup | VM | the cache key is a hash set elsewhere; addresses from one byte of the nonce | a call runs current code; a new address is new |
| Check state step (`stepCheckState.go`, `valueCheck.go`) | – | compare every account with what a scenario expects | ESDT conversion | merging two sides with defaults; `*`, `+`, unspecified | passes exactly when what it says is true |
| ESDT conversion (`worldmock/esdtconvert`) | – (storage keys of accounts) | write tokens to storage, read by key, scan storage | check, dump, builtin functions | keys without separators; metadata that moves to the system account | a scan finds exactly what is there |
| Dump world (`stepDumpWorld.go`) | – | accounts back to scenario form | ESDT conversion | the same | a dump restores the tokens |
| Exporter (`scenario/exporter`) | the list being collected | flatten files to accounts, deployments and transactions | parser | steps are cut out of a list while it is iterated; indices into merged lists; addresses changed in three places | everything, in order, or an error; what one address named still belongs together |
| Parser, writer, formatter (`scenario/json/parse`, `.../write`, `scenario/io/fmtDir.go`) | the file that is replaced | parse, write, rewrite files | ordered JSON, interpreter | order of keys; forms the writer has no words for | a formatted file means the same and is not changed again |
| Ordered JSON (`orderedjson`) | a stack of parser states, the result of the last finished one | parse character by character, print | parser, writer | states that hand characters and results to each other; escapes; junk that is ignored | the automaton reads a language one can write down, and what is printed is read back |
| Results check (`stepCheckTxResult.go`) | – | compare an output with `expect` | – | logs, wildcards | passes exactly when the expectation holds |
| Expression interpreter, reconstructor (`scenario/expression`) | – | text to bytes, bytes to text | file resolver | prefixes, number widths and signs, separators within values | a number has the width it is given; what is shown of a value is read back as that value, or not at all |
| File resolver (`fileresolver`) | context path, replacements, whether files may be missing | resolve, clone | step loop | shared by nested runs; a clone forgets what may be missing | resolves against the file that is running |
| CLI, stubs, test VM | – | flags; constant answers | controllers | – | – |

The hazards of this code, each at its line, are in `PROJECT.json`. They fall into five
groups: *effects that survive a failure* (journal, shadowed error, half a transfer, half a
setState), *state of one file seen by another* (resolver, trace flags, gas check, VM),
*indices that outlive what they index* (snapshots, benchmark position, code hashes), *two
representations that do not come apart as they were put together* (token keys, formatted
files), and *loops and cycles* (files that include themselves).

## 2. Modules

    MockWorld ── TxExecution ── TxAtomicity ─ refines ─> AtomicLedger
        │                           └────── TxExecution_proofs
        └────── SetState ────── SetState_proofs
    ScenarioRunner ── DirectoryVerdicts ─ refines ─> DirectoryRun
                              └────── ScenarioRunner_proofs
    Exporter ── Exporter_proofs
    TokenStorage ── CheckState ── CheckedLedger ─ refines ─> TokenLedger
                        └────── CheckState_proofs
    JsonFields ── ScenarioFormat ─┬─ ScenarioSteps ── Formatter ─┐
                                  └─ TxResults ──────────────────┴─ ResultChecks
    JsonTree ─┬─ OrderedJSON ── OrderedJSON_proofs
              ├─ JsonWriter
              └─ JsonGrammar
    ExprNumbers ── Expression ── ExprRoundTrip

`A ── B` means that B extends A; the proofs about
MockWorld's users, ScenarioRunner, Exporter, CheckState and ResultChecks also extend `Sums_proofs` (induction, flattened sequences, sums over functions). Each group has an `MC` module with the small instances TLC checks, and a `.cfg` per run.

* `MockWorld`: accounts, the account map, the journal and the operations on both. It is
  the shared ground of transactions and of setState steps.
* `TxExecution`: `executeTx` as a state machine with the VM and the builtin functions as
  its environment.
* `AtomicLedger`: what a transaction promises. An open transaction either takes effect as a
  whole, or leaves the ledger as it was after gas.
* `ScenarioRunner`: controllers, step loop, external steps, files that are missing. `DirectoryRun`:
  what a directory run promises, given the verdict of each file on its own;
  `DirectoryVerdicts` defines that verdict by evaluating a file with recursive functions (over its steps, and
  over how deep files include one another), and the mapping.
* `SetState`: setState steps between deployments, upgrades and calls.
* `TokenStorage`: how tokens are laid out in storage. `CheckState`: setState, transfers,
  checkState and dump on such storage. `TokenLedger`: the same with accounts that
  simply hold tokens, and checks that say what they mean. `CheckedLedger`: the mapping.
* `Exporter`: the traversal of files, and what becomes of addresses and payments.
* `JsonFields`: kinds of fields, how each is read and written. `ScenarioFormat`: the objects
  of the format. `ScenarioSteps`: steps and files. `Formatter`: the fmt command.
  `TxResults`: an output against a parsed `expect`. `ResultChecks`: the same against the JSON of it.
* `JsonTree`: values. `OrderedJSON`: the parser as a stack automaton, the printer's text read again.
  `JsonWriter`: the printer. `JsonGrammar`: the language, by recursion over the text.
* `ExprNumbers`: numbers of every base, sign and width. `Expression`: interpreter and reconstructor.
  `ExprRoundTrip`: a value on its way from a text to bytes, to a text, to bytes.

## 3. How the models correspond to the code

`PROJECT.json` maps every definition to its lines. The shape of each model:

**MockWorld / TxExecution.** `AcctMap` is a function on the existing addresses; absence
from its domain is a nil account. `Snapshots` is the slice of the adapter, and an index is a
length at the time, as in `JournalLen`. `pc` says where `executeTx` is:
`idle -> dispatch -> (builtin | vm | vmfault) -> output -> deferred -> idle`; a transaction
refused before the snapshot stays `idle`. `err` is the variable that the deferred function
reads, which is not the one returned in every case, and `result` is what the caller sees. `ESDTListed` tells a step with an empty
list of token transfers from one without a list: the former creates its recipient and fails (`DispatchEmptyTransfer`). One
action per piece of code between points where the VM, a builtin function or an error may
intervene. `LoadAccountStorageFrom` ranges over a Go map and stops at the first
account the snapshot does not have: in the model, any subset of the other accounts may
be restored. The VM is external: it may take snapshots, revert, discard, move tokens through
the hook (creating accounts, if `Creatable` allows), write system storage, fail, and return any
output of `VMOutputs`; `BalancedVM` says whether its deltas add up to the call value.
`marks` is a ghost: the snapshots somebody may still revert to, with the world at the time.

**ScenarioRunner.** `frames` is the call stack of `RunScenario`s, `walking`, `walked`,
`counts` and `verdicts` are the locals of the walk, and the other variables are fields of the one executor and
controller: `fileResolver` (a reference; `contextPath` has the contents of each resolver
object), `checkGas`, `scenarioTraceGas`, `vm`, `World`. A step that is not an external one
is a set of marks it leaves in the world, marks it expects, whether it fails, and the
gas schedule its expected gas is right under. Error paths pop frames one at a time, as the
returns do. A file may name files that are missing; whether that is an error is a flag of the
resolver, which `Clone` does not copy.

**SetState.** `pc = "accounts"` while a step goes through its accounts, so that a step that
fails half way has applied a prefix. `Unspecified` is what the step does not say. `Details` has the fields of an account that an
update does not treat like nonce, balance, code and storage: `convertDetails` and `UpdateDetails` give the former where an account is set and
where it is updated, and what the VM reports of code metadata comes with deployments and upgrades (`PutMetadata`). `Blockhashes`
is replaced by every step. The new
address of a deployment comes from the mocks or from `GenerateMockAddress`, which keeps one
byte of the nonce and 17 bytes of the creator. `CompiledCode` is the cache of the hook, by code hash. `last` and
`before` are ghosts.

**CheckState.** Storage keys are sequences of bytes, because how they are cut is the point;
`Key(prefix, rest)` stands for the prefixes, which never overlap. `FullData` is the scan of
`GetFullMockESDTData`. Two fields, balance and owner, stand for all plain ones: a number
and bytes, compared with and without a default. `found` caches the scan in a variable.

**Exporter.** `stack` has one entry per running `getAccountsAndTransactionsFromSteps`, with
its remaining steps (the code cuts what it does not export out of the slice and decrements the index)
and what it has collected. An address is its first ten bytes and the rest, as the exporter replaces
the former. What it copies unchanged is a name.

**Formatter.** An object of the format is a table: the fields it may have, the kind of each,
the order in which they are written and the condition under which one is. What a file *means* is
what runners and exporter can see of it: values, which fields are specified, which conditions
are checked. `Lossy` lists, form by form, what the writer drops; `KeepsMeaningUnlessLossy` says
that the list is exact. The interpreter is a constant, `Interpret`, and so are the
texts of the reconstructor. `TxResults` follows
`checkTxResults` over the parsed conditions; `ResultsCheckedAsWritten` compares it with what the JSON of
`expect` says to a reader, through none of the records in between.

**OrderedJSON.** One action per state of the parser and condition in it; a state deals with the
character (`done`) or hands it to another state. `pending` is the result a finished state leaves for the one
below. A word without quotes is one character, as nothing looks inside it. The
environment appends pieces to the input. `JsonGrammar` says by recursion which texts are values and of
what. Its strings end where those of JSON do, at a quote after an even number of backslashes; `ReadsByGrammar` compares, except for texts
in which the parser, which looks at one backslash only, misses such an end (`MissesAnEnd`).

**Expression.** A text is a sequence of characters, of which only prefixes that end with a colon are one symbol; `0x` and `0b` are two
characters each, since `hex.DecodeString` takes both of `0b` for digits. Numbers are
computed as the code does, digit by digit into bytes, and compared with integers in the properties. Addresses are shorter
than 32 bytes (five in the run, with one leading zero and one byte of VM type in those of contracts).

## 4. The runs

| Run | Module, config | States | What it shows |
|---|---|---|---|
| `transactions` | MCTxExecution, MCTransactions | 2.2 M | every transaction type, a VM with unbalanced deltas and created accounts: no negative balance, EGLD conserved by success, nonces never go back, failed transactions restored where no account was created, journal empty between transactions and each index still naming its world |
| `vm_calls` | MCTxExecution, MCVMCalls | 88 k | nested snapshots and reverts of the VM with token transfers: tokens conserved, reverts complete, `executeTx` implements `AtomicLedger` |
| `value_and_token` | MCTxExecution, MCMismatch | violation | a transaction that returns an error is committed |
| `directory_run` | MCScenarioRunner, MCDirectory | 1.5 k | directory and single runs in any order: trace stack matches the call stack, flags, resolver and gas check are those of the file, each file gets the verdict it has alone, the run ends |
| `set_state` | MCSetState, MCSetState | 915 k | steps of every form, two of which fail half way: what they say holds and nothing else changes, with the exceptions the two properties name (code metadata, developer rewards and `asyncCallData` of updates, block hashes); new addresses are new, calls run current code |
| `export` | MCExporter, MCExport | 61 k | exports are the flattening of the files or fail for a reason; transactions reach the accounts their steps name; the benchmark position is right where external files come first |
| `check_state` | MCCheckState, MCCheckState | 46 k | scans find exactly the tokens there are, dumps restore them, and checks, none of which has owner `"*"`, mean what they say (`TokenLedger`) |
| `dash_nonce` | MCCheckState, MCDashNonce | violation | an instance whose nonce has the byte of `-` |
| `owner_star` | MCCheckState, MCOwnerStar | violation | a check that accepts any owner fails for an account that has one |
| `format` | MCFormatter, MCFormat | 13 k | 7860 files: formatting twice is formatting once, exactly the listed forms lose something; what files expect of transactions is checked against 150 outputs as it is written, and the log that a failed check reports is refused when pasted or read as what it shows |
| `json_text` | MCOrderedJSON, MCOrderedJSON | 403 k | every text of up to five pieces: the parser reads the language of the grammar (where it sees the ends of strings), meets none of the states it guards against, deals with every character, and reads back what the printer makes of each tree |
| `expressions` | MCExpression, MCExpression | 229 k | every body of up to three pieces after each prefix, and every value of the instance under each hint: numbers have the width asked for, reconstructed texts are read back as the value but for the listed forms, and the interpreter panics only where listed |

Every property of a passing run has a mutant in `PROJECT.json`: a plausible bug in one definition
(a snapshot index taken after the backup, a pop left out on the error path, a merge that shifts the
mark, a value without its placeholder, ...) for which TLC finds that property violated.

Deadlock is checked except where the system may stop: `directory_run` ends after
`MaxCalls` calls, an export, a text and a value come to an end, and the scenario of `check_state`,
`dash_nonce` and `owner_star` stops at a failed check.

## 5. Bounds and fairness

*Transactions.* Five addresses: a user, an address without account, a payable contract, one that
is not, the system account. Every account a transaction can treat differently is there, and a rollback needs
two accounts besides the created one to be visibly partial. `MaxNonce` 2: two transactions
per sender, so that what the first leaves in the journal can harm the second; balances of 0 to 3 cover "not enough for the gas", "enough
for the gas, not the value" and "enough". `MaxBalance` 4 and `MaxJournal` 4 (3 with every
type): the executor's snapshot, two of the VM and a storage backup between them, so that inner
reverts cut the journal while outer indices are still in use.

*Directory.* Seven files in the walk, nested two deep, with one excluded, one that does not parse, one that fails
inside an external step, one that asks for a gas schedule that does not exist and one that names a missing file. `MaxCalls` 3: a run before
and after a directory run. The files agree on their gas schedule otherwise: see section 9.

*setState.* Two creators; code metadata, `asyncCallData` and block hashes that are there and that are not, so that what is kept differs from what is replaced; `ByteSize` 2 with `MaxNonce` 2, so that the byte wraps exactly where
the code's 256 would and the claim holds up to there; `Word` 16 and `MsPerSecond` 10, so that the
multiplication can wrap; `MaxMocks` 1. Contracts are only updated with code they have
(section 9), and the two creators differ in the bytes that addresses keep.

*Exporter.* Three files with up to three steps each, depth 3; every file that has an error has it
alone, so that its effect is seen. Four addresses: a user, a contract that has the prefix already, one that
gets it, a mocked one. No two of them differ in the first ten bytes only (`AddressAssumption`, section 9).

*CheckState.* Nonces 0, 1 and 300, of no, one and two bytes (0, 1 and 45 in `dash_nonce`); a fungible token and a
collection; amounts of 1 and at most 2 of an instance; 21 checks which cover each comparison with a
value, `*` and nothing, but for owner `"*"`, which `owner_star` adds (section 6).

*Formatter.* One step per file, as steps are treated one by one, and objects with at most two fields, as a
condition of the writer relates at most two. Every kind of field takes each of its forms, the
empty and the refused ones too.

*JSON.* Pieces are the seven characters that matter to the parser, white space and a word, and four
longer ones: a string with an escaped quote, one with an escaped backslash, and two pairs with different keys, so that a map has an
order to keep. Five of them reach
every pair of nested states, an element after junk, and a text that goes on after its end. A text that is
refused is compared with the grammar under five continuations.

*Expressions.* Pieces are `0x`, `0b`, four digits (0, 1, 5 and `a`), both signs, the point, what groups digits (`_` and `,`) and the
separators `#` and `|`. Three of them hold a sign, a base and a digit, a base, a leading zero and a digit, or a digit, a separator and a digit; two
longer texts have one leading zero more than fits. Values are all
five bytes over 0, 5 (the VM type), `_`, `a`, `#` and `|`. Numbers up to two bytes are compared by
value, wider ones by their padding; TLC's integers have 32 bits. Hashes and checksums are stand-ins.

*Fairness.* Three specifications assume it. `ScenarioRunner`: `WF_vars(Advance)`, where `Advance` is what a
controller does after it was called. The program is a single
thread that waits for nothing, so it goes on; whether anybody calls a controller again is
not assumed. That files do not include themselves is an assumption (`AcyclicAssumption`): one
that does recurses until the stack is gone. `DirectoryRun` says what a walk may do; that it ends is `DirectoryRunEnds`. `OrderedJSON`:
`WF_vars(Settle)`, as the inner loop of the parser does nothing else until the character is done; that the
input goes on or ends is not assumed.

## 6. Where the code does not do what it says

Three runs end in a counterexample; `PROJECT.json` quotes the text each one contradicts.

1. `stepRunTx.go:134`: the error of `updateStateAfterTx` is assigned to a new `err`, so the
   deferred function commits a transaction that is reported as failed
   (`FailedTxIsRolledBack`). The legal scenario that does it is a transfer with a value and a token.
2. `account_esdt_read.go:126`: token keys are cut at every dash, also at one in the
   nonce, so that instance 45 is found under a token that nobody has (`FullDataIsComplete`).
3. `stepCheckState.go:115`: the owner is compared with the bytes of the condition, which are none for `"*"`, while
   `valueCheck.go:12` says that `"*"` allows all values (`ImplementsTokenLedger`, where the ledger takes it so).
   `json/integrationTests/example.scen.json` has such a check.

## 7. What is proved

Thirty-three theorems, for every value of the constants, hence for any number of accounts,
keys, transactions, snapshots, VM outputs, files, steps and characters. Seven modules hold them, over the lemmas of
`Sums_proofs`.

*Assumptions.* Only those the modules name. For transactions: `AddrAssumption` (the system account is an
address, finitely many), `CodeAssumption`, `GenesisAssumption` (the first world is an account map
without negative balances), `TxAssumption`, `VMAssumption` (the VM returns well-formed
outputs and does not write token keys), `KeyAssumption`, `BalancedAssumption`, `CreatableAssumption`,
`BoundAssumption`; for SetState also `StepAssumption`, `AddressAssumption`,
`UnspecifiedAssumption`, `NoInfoAssumption`, `DetailsAssumption` (the default code metadata are metadata, an empty
`asyncCallData` is one) and `WidthAssumption`; for ScenarioRunner `FileAssumption`
(finitely many files), `ScenarioAssumption`, `WalkAssumption`, `MissingAssumption`, `VMAssumption`,
`GasAssumption`, `OptionAssumption` and `AcyclicAssumption` (no file includes itself); for Exporter
`FileAssumption`, `LibraryAssumption` (what the parser lets through), `AddressAssumption` (no two addresses differ in
their first ten bytes only) and `DepthAssumption`; for CheckState `TokenAssumption`, `CheckAssumption`, `AmountAssumption` and
`AccountAssumption` (what the parser makes of an account: finitely many entries, lists, balances and nonces that are numbers),
`AccountCheckAssumption` (the same of what a check expects), and for CheckedLedger `AttrsAssumption`: scenarios set an instance with the
same metadata wherever they do, and none without a nonce; for ResultChecks `FieldsAssumption`
(the interpreter gives bytes, none for the empty text, and has no number for `*`), `OutputsAssumption` (outputs are bytes and lists of bytes),
`TextAssumption` (bytes with a remark are refused, no text of the reconstructor is `*`), `IdentifierAssumption` (which identifiers have a text)
and `FilesAssumption` of Formatter: a scenario file is JSON, no deeper than the format is (steps, a step, its accounts, an account, its
tokens, a token, its instances, an instance, a list, a value). The depth is bounded, lengths and texts are not; a value that is a list of
lists of lists in an instance of a token is beyond it. That of `AttrsAssumption` restricts scenarios, not the code: `TokenLedger` has metadata per instance, the
code has copies, on accounts or on the system account, which agree only if they were set to agree. TLC evaluates all of them. The bounds are constants as well: the theorems hold for any bound.

*Transactions* (`TxExecution_proofs`). `IInv` has four parts:

* `TypeInv`: the type invariant, with marks and journal entries account maps.
* `ControlInv`: what `pc` implies of `tx`, `err` and the existence of sender and receiver. Without
  it a step that debits the sender might be taken of an account that is not there.
* `JournalInv`: the journal is empty when idle, the first mark has index 0, and every mark names its
  world (`MarksHold`). This is the heart of the argument: appending keeps marks below the length
  (`AppendKeepsMarks`), taking a mark adds one at the end (`TakeKeepsMarks`), and a revert cuts exactly those above (`RevertKeepsMarks`).
* `SnapshotsWithin`: accounts of snapshots still exist while a transaction can be rolled back. Without
  it a restore might meet an account that has gone; it ceases to hold once an output with deleted accounts
  is applied, which is why it is conditional.

From it: `TypeCorrect`, `JournalEmpty` (JournalEmptyBetweenTxs), `JournalMarks`
(JournalHoldsMarks), and the action properties `RollbackRestores` (FailedTxRestores) and
`RevertRestoresLastMark` (RevertRestoresMark): `RevertRestores` shows what a revert to a mark
gives if no account was created, `RollbackIsNext` and `OnlyRevertShortens` that the steps in question are reverts. Both
exempt created accounts, where a restore stops half way (section 9).

*Balances* (`TxExecution_proofs`). `BalancesNotNegative` (NoNegativeBalance) and `NoncesStay` (NonceNeverGoesBack)
rest on `FundsInv`: balances are not negative in the world and in every mark; while a transaction runs the sender
has what the executor looked at before (`Funded`), as nothing until the output changes a
balance, reverts included (`SameFunds`, `RevertFunds`); at the output the balance less the value plus the
deltas was checked. Nonces of marks are those of the world at dispatch, so that a revert takes none back.

*EGLD* (`TxExecution_proofs`). `EgldConserved` (SuccessConservesEgld): a transaction reported as successful conserves EGLD,
whatever the deltas of the VM are. `EgldInv`: until the output is applied, the present world and all marks have the
funds of the executor's mark. Then the sum of the balances changes by the value, which the sender pays, and by the deltas
(`AppliedTotal`), and the executor has just compared these two. The lemmas on sums are in `Sums_proofs`: `SumFunction` is a
fold, so each is an induction over subsets of the domain. The library's induction theorems take an operator as parameter and
are of no use here; `NumbersBelow` and `FamilyOfSubsets` say the same of *sets* of numbers and of subsets, and are proved
from `WFMin`, which gives a least counterexample.

*Tokens* (`TxExecution_proofs`). `TokensAreConserved` (TokensConserved) has the hypothesis `TokensOnlyMove`: the VM creates no
account, outputs delete none, nobody sends tokens from or to the system account, and that account is not a contract. The
first is needed: if a contract creates an account and then fails, the rollback stops half way (section 9) and a
transfer it had begun keeps one of its two sides. TLC shows it in six states when `Creatable` has an
address. `TokenInv` says that the present world and all marks have the tokens of the first one, except `Halfway`, while a failed
transaction waits for its rollback; that it will be complete is `UndoInv`.

*Atomicity* (`TxExecution_proofs`). `TransactionsAreAtomic` (ImplementsAtomicLedger): `executeTx` implements `AtomicLedger`.
`UndoInv` says in which ways a running transaction can still be undone: nothing was created since the mark (`Restorable`), only
the recipient of a single transfer was, before anything moved (`SinglePending`, `NothingMoved`), or nothing can fail any more
(`Finishing`). `OutcomeInv` ties `result` and `err`: a failure that the deferred function does not see has changed nothing.
A refused transaction is the abstract refusal, `BeginTx` the abstract charge, the steps in between stutter (`FirstMark`: the abstract state
is that of the first mark while a transaction is open), `DeferredRollback` aborts and `DeferredCommit` commits. The hypotheses
`AtomicSteps` are those the implementation needs: no account created by the VM, deltas that add up to the call value, and no transfer with both
a value and tokens, which is the disagreement of section 6. The instance of `vm_calls` satisfies them.

*Directory runs* (`ScenarioRunner_proofs`). `IInv` has `TypeOK`, `Phases` (what `pc` implies of frames and VM) and
`FramesFit` (one trace flag per frame, every frame's resolver has the context of its file, flags and gas
check as declared). The types need `NotDeeperThanFiles`: by `AcyclicAssumption` no file is on the call stack twice, so
there is a resolver object for one more external step. From it: `TypeCorrect`, `StackMatches`,
`TracedRight`, `ResolverRight` and `GasCheckRight`.

`DirectoryIsImplemented` is the refinement: for every directory and every sequence of calls before and between, a
directory run is one of `DirectoryRun`, under one hypothesis, `SchedulesAgree`. It is needed because the VM is made
once (section 9): all gas schedules that can be provided are the same, and a file that asks for another one passes under none. TLC
evaluates it on the instance of `directory_run` (`MCSchedules`). The argument:

* `VerdictInv` adds three things to `IInv`: the VM has the schedule of some scenario (`OneOfTheVMs`), there is one verdict per
  file that is done with and `counts.failed` counts those that failed (`BooksKept`), and the call stack replays the file (`ReplaysWalk`).
* `ReplaysWalk` is the heart of it: every frame has an entry, the executor it was entered with. The first entry is `Fresh`, an
  empty world under the present VM; the entry of each frame is what the frame below makes of its own entry in the steps
  before its external step; and the top frame has made of its entry what the executor is now, or has met a step that fails.
  An entry carries the gas check and the world through external steps, as the executor does.
* Each action keeps this (`ExecuteStepReplays`, `ExternalStepReplays`, `NotParsedReplays`, `DoneReplays`, `FailedReplays`). A failure stays
  one to the end of the file (`StaysFailed`), frame by frame, so that the outermost file fails (`OutermostVerdict`).
* The evaluation is a recursive function of the steps (`RunStepsDef`) and one of the depth (`IncludedDef`).
  Its depth is the number of files, which is enough by `NotDeeperThanFiles`.

*Set state* (`SetState_proofs`). `TypeCorrect` uses `IInv`: `TypeOK`, creators never vanish (a deployment increments
the nonce of one), and `pos` and `last` while a step runs. `CallsRunTheirCode` adds `CodeInv`
(every account has the hash of its code, and the cache has each code under its hash) under two hypotheses: the
first world has the right hashes, and `[]UpdatesRestateCode`, no update gives an account code it
does not have. The second is needed: `stepSetState.go:101` changes the code and not the
hash, after which calls go on running the old code.

*Effects of a step* (`SetState_proofs`). `EffectHolds` (StepTakesEffect) and `NothingElseChanges`
(StepChangesNothingElse), from `SetAccountSays` for one account and an invariant that says of every account how it relates
to the world before the step and to the entries of the step that were reached. Neither says that a step does all it says and only
that, for it does not: of an update, code metadata and developer reward have no effect and `asyncCallData` is replaced though not
mentioned, and the block hashes are replaced by every step. Both properties name these exceptions and say what happens there.

*New addresses* (`SetState_proofs`). `AddressesAreNew` (NewAddressIsNew) has the hypothesis `DeploymentsFit`,
which says what a scenario has to observe: deployments of a creator fit into the byte of the nonce that
addresses keep and creators differ in the bytes they keep (`AddressesDiffer`); no address is mocked twice (`MocksDiffer`);
steps leave nonces of creators alone and put no contract where one may be deployed
(`LeftToDeployments`). Then deployments have addresses apart (`GivesApart`), and those still to come have no code
(`Free`). The instance of `set_state` satisfies it.

*JSON parser* (`OrderedJSON_proofs`). `StackShape`: below each state is one that waits for it, a map below each key, and
`pending` is set exactly where a state finds a result. From it `NeverImpossible` (NoImpossibleState), for texts of
any length.

*Exporter* (`Exporter_proofs`). `ExportsFlatten` (ExportIsFlattening), `BenchmarkIsFound` (BenchmarkUnlessShifted) and
`ExportsEndRightly` (InvalidIffBadFile). `IInv` says of every call under way that what is left of its list is what is left
of its file (`InPlace`: as many steps behind as were cut out), that what it has collected is what the steps it passed are to give,
those of external files included (`Collected`, `Positioned`), that they and the files they went into can be exported
(`PassesSoFar`), and that the call below it waits for its file (`Waits`). `NoTxYet` is what makes the position right without the
shift the code leaves out. `Unfolded` and `Reaches`, the files put in place of the steps that include them, are recursive
functions over the depth; `RecursiveFunction` gives their defining equations, and `GatherConcat` lets a flattening be taken
apart, both from `NumbersBelow`. `FrameStep` is the induction step for a step of a file as well as for a whole external file.
The theorems are about files that do not nest deeper than `MaxDepth`, for any `MaxDepth`: n files that do not include themselves need
no more than n. One that does is exported until the stack overflows, and nothing is claimed of it.

*Check state and dump* (`CheckState_proofs`). `TypeCorrect`, `ScanFindsAll` (FullDataIsComplete), `DumpRestores`
(DumpRestoresTokens) and `LedgerIsImplemented` (ImplementsTokenLedger). `IInv` says of every entry of every storage what it may be (`SoundEntry`); under a token key lie the data of an
instance, and if there are metadata, on the account or on the system account, their nonce is the one in the key: this is
what the scan reports, and a type invariant would not give it. The last three theorems have the hypothesis `KeysComeApart`:
token identifiers have one dash, before their last six bytes, and no byte of a nonce is a dash. The second half is the disagreement of section 6;
the instance of `check_state` satisfies both, that of `dash_nonce` does not. `LedgerIsImplemented` has one more, `NoOwnerStar`: no check
accepts any owner, which is the third disagreement, and what `owner_star` drops. The argument:

* `BytesDef` and `SetBytesTrace` give the recursive functions behind `Bytes` and `FoldLeft` their equations (each exists, by induction over
  numbers, and CHOOSE takes it), from which `BytesAreReadBack`: SetBytes undoes Bytes, for every number.
* `KeyComesApart`: the scan cuts a key where `makeTokenKey` joined it.
* `ScanIsComplete`: `GetFullMockESDTData` is the function from `TokensIn`, the tokens a storage has, to what `Find` reads by their keys.
* `CopyTokens`: setting what a dump says puts under every key what `Copied` says, whatever the order of the maps; keys are
  written independently, so that it is enough to count which were written. `CopyIsTheSame`: the scan of the copy finds the same.

*Checks mean what they say* (`CheckState_proofs`). `LedgerIsImplemented`: on storage, setState, token changes, transfers and checkState do what
`TokenLedger` says of accounts that simply hold tokens. Its invariant `LedgerInv` adds to `IInv` two things about metadata that no scan tells:

* `CentralInv`: the system account has metadata and nothing else, neither balances nor entries. Without it a transfer, which may write to the
  system account, could change what that account holds.
* `AttrsInv`: metadata, on an account (`HolderSays`) or on the system account (`CentralSays`), are those of the instance. `IInv` says only that their
  nonce is right; a check of attributes needs all of it, as it reads the system account once the instance has moved.

The argument: `MapViewIs` reads the view of an account off its keys, by `ScanIsComplete`, without a scan. `ConvertedView` says what a freshly set
account holds, from `LastWrite`: of several writes to one key, by lists in lists, the last one counts. `SetStateInLedger`,
`SetBalanceInLedger` and `TransferInLedger` are the steps (a transfer to oneself, an instance that empties, and metadata that move to the system account
included), and `ChecksAreMet` goes through a check form by form: `checkAccounts` finds no error exactly if `Meets` holds, tokens
that are expected but not held and held but not expected included.

*Results of transactions* (`ResultChecks_proofs`). `ChecksAreAsWritten` (ResultsCheckedAsWritten) and `ReportedLogsAreReadAsShown`
(ReportedLogIsReadAsShown), under `WhateverIsNoList`: the model writes "any value" as a value that is no list, the code has a flag. What a condition means
is stated of the JSON, what is checked went through the parser, the defaults of missing fields and the records of the model.

* `CheckMeans`, `ListMeans`, `LogsMean` and `ExpectationMeans` say of a value, a list, the logs and the whole condition that both agree. A list of
  conditions, a single one that stands for a list of one, `""` for the empty list and `*` are cases of their own in `ListMeans`;
  in `LogsMean` the entries are what the loop keeps without `+`.
* `IInv`, that lists in the conditions of the present file are finite sequences, is what the first three need. It is stated of the file at hand, which the formatter
  replaces: `WrittenStep` says that what is written as `expect` of a step is what was read there, and `WrittenResult` that its lists are lists again
  (the parser puts single values into lists of one, and invents `[]`).
* `PrintedIsMet`: the object printed for a log has all four fields (`FlattenSingletons`: a loop that skips nothing), and the parser takes each exactly
  if the interpreter takes the text. Nothing is assumed of the texts of addresses and strings but that they are not `*`: which of them are read as other
  bytes is what `expressions` checks.

*The formatter* (`ResultChecks_proofs`). `FormattedOnce` (FormattedIsStable): what was written is not changed by formatting it again, and formatting it does
not panic. `FormattedInv` is the inductive invariant: the file is one that may be there at first or one that was `Formatted`, and the latter once the outcome
is "written". What makes it inductive is `FormattedAgain`: for any file that is read, parsing what was written and writing that gives the same text.
No part of the model is the identity there: the parser has defaults, the writer leaves out what equals them, the model keeps original text or value, and both put lists around
single values. So the argument goes down the file:

* Fields are tables in the code's order: name, how it is read, when it is written. `Suits` says which conditions tell a missing
  value of a kind from one that was written, and `FieldAgain` that under those a value that is written is read as itself, and one that is not written is missing and is not
  written the second time either (`Alike`). `ObjectAgain` is that for a table.
* Token instances, tokens, accounts, checked accounts, new addresses, block infos, transactions, logs and expected results are each a lemma of the form "written, read and
  written is written", the forms `LossyToken` and its like list included: they lose something once, and nothing the second time.
  This needs it of the compact form of a token, of `""` for an address that is missing, and of code metadata that are dropped.
* `StepAgain` composes them for a step, `ScenarioAgain` for a file. A panic of the parser is excluded by `TxBeforeExpect` (the writer puts `tx` before `expect`),
  one of the writer by `WriterNeeds` (`tx` and `accounts` are always written, so that they are there again).
* A file that was written but cannot be read (a log entry without address, section 9) is refused the second time, and left as it is.

*Only model-checked.* `DirectoryRunEnds` and `EveryCharIsDealtWith` (liveness is out of the prover's reach); `KeepsMeaningUnlessLossy` of Formatter; the properties of
Expression, and that the parser reads its grammar. `JsonGrammar` and `JsonWriter` have recursive operators, which the prover does
not support. What recursive functions compute can be proved where the induction is over one number and can be put as a set of
numbers, as for Exporter, CheckState and the verdicts of files.

## 8. What is not modelled

* Replaced contract paths of the file resolver; relative paths as text: paths are names.
* Inside the words of a JSON text: the parser does not look there. In the parser of scenarios: keys that occur twice, numbers and
  lengths, and values that are maps.
* What libraries compute: big numbers in text, hex, bech32, keccak, protobuf, the data field of a deployment.
* Read-only queries of the hook, root hashes and the unused trie methods, which change nothing; shards and user names, which a setState
  step treats like the nonce. Code metadata, developer rewards and `asyncCallData`, which it does not, are in SetState only.
* The branch of `UpdateAccountFromOutputAccount` for an output account without a balance delta (`worldUpdate.go:78`): the outputs that the
  executor makes up have one, and of the VM's it is assumed, as `updateStateAfterTx` does, which adds them up without looking.
* Multi transfers to an address without an account: what creates it, and when, is up to the library.
* NFT transfers and roles inside `executeTx`: the builtin functions are a library. CheckState has
  NFT transfers as far as they touch storage.
* Command line, stubs of node components, the dummy VM of the tests: no state, no logic.

## 9. Observations

What the code does and no text contradicts. The models follow the code; where a property would not hold,
the instances avoid the form and the place says so.

* A rollback of a transaction that created an account is partial: `LoadAccountStorageFrom` returns at the first account the
  snapshot does not have, in map order (`worldAccountMap.go:125`), and the results of `executeTx` are unnamed, so the
  error is lost. `FailedTxRestores` and `RevertRestoresMark` say what does hold.
* Transactions: `displayLogs` stays on once set (`stepRunTx.go:24`); `MockWorld.Clear` keeps
  `LastCreatedContractAddress` (`worldDef.go:100`). ScUpgrade pays gas and is then refused as unknown
  (`stepRunTx.go:128`).
* Directory runs: the VM, and with it the gas schedule, is made once; later scenarios of a directory
  run under the first one's schedule (`vmScenarioExecutor.go:50`). The walk ignores errors of
  the file system (`scenarioDir.go:26`). After an external step `checkGas` is that of the included file
  (`execScenario.go:11`): `OwnGasCheck` says until when it is the file's own.
* setState: an update of the code keeps its hash (`stepSetState.go:101`). It drops code metadata and developer reward, also where it
  mentions them (`:85`), and empties `asyncCallData` where it does not (`:106`); block hashes are replaced by every step, also
  one that has none (`:41`). `StepTakesEffect` and `StepChangesNothingElse` except these and nothing else. Further: seconds times 1000 wrap (`:206`); of two mocks for the
  same deployment the first wins (`worldBlockchainHook.go:43`); the messages for a wrong
  address and for a wrong length are swapped (`worldAccountValidate.go:31`, `:37`). Creators that agree in 17 bytes deploy over
  each other (`mockAddress.go:17`).
* checkState: `"+"` among tokens is read and never used (`parseAccountsCheck.go:63`); developer rewards and the frozen flag are not
  compared.
* Exporter: `BenchmarkTxPos` of an external file is used without adding the number of
  transactions before it (`exporter.go:157`; `BenchmarkUnlessShifted` says when it is right). Transfers have no expected result, which is
  dereferenced (`:99`); a missing receiver, or a mock without an address, is sliced (`:117`, `:183`); code is read again relative to
  the working directory, and so are external files, and its absence panics (`getSCCode.go:13`). The prefix of contracts is put on accounts
  with code, receivers and mocks, but not on senders and owners: a contract with an `address:` name is exported under another
  address than its transactions come from, and a call to an account without code goes nowhere
  (`TxsReachTheirAccounts`). Contracts that differ in the first ten bytes only would become one. Upgrades and
  deployments lose value and nonce. The error of writing tokens is dropped (`:201`).
* JSON: whatever stands between an element of a list and the next comma or bracket is ignored (`ojParse.go:124`); a quote after an
  escaped backslash is taken as escaped (`:83`), so that `"\\"` has no end; `MissesAnEnd` excepts such texts.
* Numbers: leading zeros of a hexadecimal number count as bytes, so that `u8:0x001` is refused; the comma is not taken out of binary
  numbers, so that `0b1,0` is refused although `interpreter.go:280` says that commas group digits; a sign after `0b` is accepted and
  dropped, and so is `0x` without digits. `FixedWidthIsNumber` lists these forms.
* Expressions: a shard below 16 is printed with one digit, which the interpreter panics on (`reconstructor.go:123`); `|` and `#`
  within a value are printed as they are and read as separators; a contract address of another VM type is read back with
  the interpreter's; `mxsc:` takes code that is not hex as no code, and panics on a file without code
  (`interpreter.go:404`); a signed number without digits panics.
* The log in the message of a failed check (`stepCheckTxResult.go:147`) is in the format of a scenario, but its topics and data are bytes
  with a remark, `0x01 (1)`, which the interpreter refuses unless they are empty.
* Formatter, forms that lose something (`Lossy`): compact tokens with a last nonce or metadata; compact token checks, which
  become stricter; conditions for an empty creator, hash, attributes or royalties; `traceGas` of external
  steps; code metadata of deployments, nonces of calls and upgrades, arguments of upgrades; updates to an empty value;
  missing `from`, `to` and addresses of mocks, written as `""` and then refused; a transfer of an empty list of tokens,
  which becomes one of EGLD. A log entry without address or endpoint is written as text that is not
  JSON (`writeCommon.go:47`; `LossyLog`). `expect` before `tx` panics in the parser (`parseScenario.go:298`), a step without `tx` or
  `accounts` in the writer.

## 10. Plan

Everything that was planned first is in place: transactions (the core: everything else is tested through
them), the runner around them, setState, exporter, checks, formatter, results, expressions and JSON. What is left:

1. Composition of `TxExecution` and `SetState` with the step loop, so that a scenario is a sequence of real steps
   and the VM cache meets rollbacks. The parts they share (`MockWorld`) are one module already.
2. The queries of the hook, over the same accounts, and NFT transfers as a builtin function.
3. Proofs: `KeepsMeaningUnlessLossy`, over the lemmas on what is read back that `FormattedOnce` rests on.

------------------------------ MODULE SetState ------------------------------
(***************************************************************************)
(* ScenarioExecutor.ExecuteSetStateStep, and what contract deployments do  *)
(* with what it prepared: the addresses MockWorld.NewAddress gives out and *)
(* the compiled code the VM keeps by code hash.                            *)
(*                                                                         *)
(* A setState step goes through its accounts one by one, then replaces the *)
(* block info, then adds its new-address mocks; it stops at the first      *)
(* error and undoes nothing.  Transactions are atomic here: TxExecution    *)
(* has their inside.                                                       *)
(*                                                                         *)
(* An update does not treat all fields alike: it sets the ones that are    *)
(* specified, but never code metadata and developer reward, and            *)
(* asyncCallData always.  A step replaces the block hashes whether it has  *)
(* any or not.                                                             *)
(*                                                                         *)
(* Left out: owner, username and shard, which a step treats like the nonce *)
(* of an account; ESDT data, which is storage; round, epoch and random     *)
(* seed of a block, which are treated like its nonce; addresses that are   *)
(* not 32 bytes long, refused before anything else is.  Transactions here  *)
(* send no data on, so that they leave asyncCallData alone.                *)
(***************************************************************************)
EXTENDS MockWorld

CONSTANTS
    Genesis,      \* the account map before the first step
    SCAddr,       \* the addresses with eight leading zeros
    Unspecified,  \* what a step says nothing about
    Metadata,     \* code metadata
    NoMetadata,   \* no bytes of it
    DefaultCodeMetadata,
    CallData,     \* asyncCallData
    NoCallData,   \* "", also of an account that does not mention it
    BlockHash,
    NoInfo,       \* the nil block info
    SetStateStep, \* the steps of the scenario
    Creator,      \* the accounts that deploy contracts
    Trunk,        \* the 17 bytes of a creator GenerateMockAddress copies
    ByteSize,     \* byte(n) is n % ByteSize
    Word,         \* uint64 arithmetic is % Word
    MsPerSecond,
    MaxNonce,     \* bound: nobody deploys at or above this nonce
    MaxMocks      \* bound: no step adds mocks to that many

Maybe(S) == S \union {Unspecified}

\* An account in a step.  Storage maps the keys that are mentioned.
IsAccountSpec(spec) ==
    /\ spec.Address \in Addr /\ spec.Update \in BOOLEAN
    /\ spec.Nonce \in Maybe(Nat) /\ spec.Balance \in Maybe(Nat)
    /\ spec.Code \in Maybe(Code \union {NoCode})
    /\ spec.CodeMetadata \in Maybe(Metadata) /\ spec.DeveloperReward \in Maybe(Nat)
    /\ spec.AsyncCallData \in CallData
    /\ DOMAIN spec.Storage \subseteq Key /\ spec.Storage \in [DOMAIN spec.Storage -> Nat]

AccountDetails == [CodeMetadata : Metadata, DeveloperReward : Nat, AsyncCallData : CallData]

NewAddressMock == [CreatorAddress : Addr, CreatorNonce : Nat, NewAddress : Addr]

TestBlockInfo == [TimestampMs : Maybe(0..(Word - 1)), Timestamp : Maybe(Nat), Nonce : Maybe(Nat)]

BlockInfo == [TimestampMs : 0..(Word - 1), Nonce : Nat]

IsSetStateStep(s) ==
    /\ Len(s.Accounts) \in Nat /\ DOMAIN s.Accounts = 1..Len(s.Accounts)
    /\ \A i \in DOMAIN s.Accounts : IsAccountSpec(s.Accounts[i])
    /\ s.PreviousBlockInfo \in TestBlockInfo \union {NoInfo}
    /\ s.CurrentBlockInfo \in TestBlockInfo \union {NoInfo}
    /\ s.BlockHashes \in Seq(BlockHash)
    /\ s.NewAddressMocks \in Seq(NewAddressMock)

ASSUME StepAssumption == \A s \in SetStateStep : IsSetStateStep(s)
ASSUME GenesisAssumption == IsAccountMap(Genesis)
ASSUME AddressAssumption ==
    /\ SCAddr \subseteq Addr /\ Creator \subseteq DOMAIN Genesis
    /\ Creator \subseteq DOMAIN Trunk
    /\ \A c \in Creator, n \in 0..(ByteSize - 1) : <<Trunk[c], n>> \in Addr
ASSUME UnspecifiedAssumption == Unspecified \notin Nat \union Code \union {NoCode} \union Metadata
ASSUME DetailsAssumption ==
    NoMetadata \in Metadata /\ DefaultCodeMetadata \in Metadata /\ NoCallData \in CallData
ASSUME NoInfoAssumption == NoInfo \notin TestBlockInfo \union BlockInfo
ASSUME WidthAssumption ==
    ByteSize \in Nat \ {0} /\ Word \in Nat \ {0} /\ MsPerSecond \in Nat \ {0}
ASSUME BoundAssumption == MaxNonce \in Nat /\ MaxMocks \in Nat

VARIABLES
    pc,                 \* "idle": between steps; "accounts": in a setState
    step,               \* the setState step
    pos,                \* the account it is at
    Details,            \* the fields of the accounts that AcctMap leaves out
    PreviousBlockInfo,  \* of MockWorld
    CurrentBlockInfo,   \* of MockWorld
    Blockhashes,        \* of MockWorld
    NewAddressMocks,    \* of MockWorld
    CompiledCode,       \* of MockWorld: what the VM saved, by code hash
    last,               \* what happened last (ghost)
    before              \* the world when the setState step began (ghost)

worldInfo == <<PreviousBlockInfo, CurrentBlockInfo, Blockhashes, NewAddressMocks>>
vars == <<AcctMap, Snapshots, Details, pc, step, pos, worldInfo, CompiledCode, last, before>>

WorldNow == [AcctMap |-> AcctMap, Details |-> Details, Previous |-> PreviousBlockInfo,
             Current |-> CurrentBlockInfo, Hashes |-> Blockhashes, Mocks |-> NewAddressMocks]

NoDetails == [CodeMetadata |-> NoMetadata, DeveloperReward |-> 0, AsyncCallData |-> NoCallData]

NoWorld == [AcctMap |-> [a \in {} |-> EmptyAccount], Details |-> [a \in {} |-> NoDetails],
            Previous |-> NoInfo, Current |-> NoInfo, Hashes |-> <<>>, Mocks |-> <<>>]

NoStep == [Accounts |-> <<>>, PreviousBlockInfo |-> NoInfo, CurrentBlockInfo |-> NoInfo,
           BlockHashes |-> <<>>, NewAddressMocks |-> <<>>]

Init ==
    /\ AcctMap = Genesis /\ Snapshots = <<>>
    /\ Details = [a \in DOMAIN Genesis |-> [NoDetails EXCEPT
                     !.CodeMetadata = IF Genesis[a].Code = NoCode THEN @ ELSE DefaultCodeMetadata]]
    /\ pc = "idle" /\ step = NoStep /\ pos = 0
    /\ PreviousBlockInfo = NoInfo /\ CurrentBlockInfo = NoInfo
    /\ Blockhashes = <<>> /\ NewAddressMocks = <<>>
    /\ CompiledCode = [h \in {} |-> NoCode]
    /\ last = [op |-> "none"]
    /\ before = NoWorld

----------------------------------------------------------------------------
(* The accounts of a step *)

OrElse(value, default) == IF value = Unspecified THEN default ELSE value

\* Mutant: an account without balance keeps the parser's "unspecified".
ConvertWithoutDefault(spec) ==
    [Nonce    |-> OrElse(spec.Nonce, 0),
     Balance  |-> spec.Balance,
     Storage  |-> [k \in Key |-> IF k \in DOMAIN spec.Storage THEN spec.Storage[k] ELSE 0],
     Code     |-> OrElse(spec.Code, NoCode),
     CodeHash |-> NoHash]

convertAccount(spec) ==
    [Nonce    |-> OrElse(spec.Nonce, 0),
     Balance  |-> OrElse(spec.Balance, 0),
     Storage  |-> [k \in Key |-> IF k \in DOMAIN spec.Storage THEN spec.Storage[k] ELSE 0],
     Code     |-> OrElse(spec.Code, NoCode),
     CodeHash |-> NoHash]

\* Code without metadata gets the default; an account without code gets none.
convertDetails(spec) ==
    [CodeMetadata    |-> OrElse(spec.CodeMetadata,
                            IF convertAccount(spec).Code = NoCode THEN NoMetadata
                            ELSE DefaultCodeMetadata),
     DeveloperReward |-> OrElse(spec.DeveloperReward, 0),
     AsyncCallData   |-> spec.AsyncCallData]

\* The address of a contract looks like one, and that of a user does not.  An
\* update is validated as if it were the whole account.
Validate(addr, account) == account.Code # NoCode <=> addr \in SCAddr

\* Mutant: an update without nonce sets it to zero.
UpdateResetsNonce(existing, spec) ==
    [convertAccount(spec) EXCEPT
        !.Balance  = OrElse(spec.Balance, existing.Balance),
        !.Storage  = [k \in Key |-> IF k \in DOMAIN spec.Storage
                                    THEN spec.Storage[k] ELSE existing.Storage[k]],
        !.Code     = OrElse(spec.Code, existing.Code),
        !.CodeHash = existing.CodeHash]

\* The code hash stays, whatever the code becomes.
UpdateAccount(existing, spec) ==
    [existing EXCEPT
        !.Nonce   = OrElse(spec.Nonce, @),
        !.Balance = OrElse(spec.Balance, @),
        !.Storage = [k \in Key |-> IF k \in DOMAIN spec.Storage THEN spec.Storage[k] ELSE @[k]],
        !.Code    = OrElse(spec.Code, @)]

\* What is said of code metadata and developer reward is dropped.
UpdateDetails(existing, spec) == [existing EXCEPT !.AsyncCallData = spec.AsyncCallData]

CanSet(spec) ==
    /\ Validate(spec.Address, convertAccount(spec))
    /\ spec.Update => spec.Address \in DOMAIN AcctMap

BeginSetState ==
    /\ pc = "idle"
    /\ \E s \in SetStateStep :
          /\ s.NewAddressMocks # <<>> => Len(NewAddressMocks) < MaxMocks
          /\ step' = s
    /\ pc' = "accounts" /\ pos' = 1
    /\ last' = [op |-> "none"]
    /\ before' = WorldNow
    /\ UNCHANGED <<AcctMap, Snapshots, Details, worldInfo, CompiledCode>>

SetAccount ==
    /\ pc = "accounts" /\ pos <= Len(step.Accounts)
    /\ LET spec == step.Accounts[pos]
       IN  /\ CanSet(spec)
           /\ AcctMap' = PutAccount(AcctMap, spec.Address,
                            IF spec.Update THEN UpdateAccount(AcctMap[spec.Address], spec)
                            ELSE convertAccount(spec))
           /\ Details' = PutEntry(Details, spec.Address,
                            IF spec.Update THEN UpdateDetails(Details[spec.Address], spec)
                            ELSE convertDetails(spec))
    /\ pos' = pos + 1
    /\ UNCHANGED <<Snapshots, pc, step, worldInfo, CompiledCode, last, before>>

\* Mutant: the step skips an account it cannot set.
SkipAccount == pos' = pos + 1 /\ UNCHANGED <<pc, last>>

StopAtAccount == pc' = "idle" /\ last' = [op |-> "setState", ok |-> FALSE] /\ UNCHANGED pos

SetAccountFails ==
    /\ pc = "accounts" /\ pos <= Len(step.Accounts)
    /\ ~CanSet(step.Accounts[pos])
    /\ StopAtAccount
    /\ UNCHANGED <<AcctMap, Snapshots, Details, step, worldInfo, CompiledCode, before>>

----------------------------------------------------------------------------
(* Block info and new-address mocks *)

\* Milliseconds take precedence; seconds are multiplied in uint64.
convertBlockInfo(test, current) ==
    IF test = NoInfo THEN current
    ELSE LET info == IF current = NoInfo THEN [TimestampMs |-> 0, Nonce |-> 0] ELSE current
         IN  [TimestampMs |->
                IF test.TimestampMs # Unspecified THEN test.TimestampMs
                ELSE IF test.Timestamp # Unspecified THEN (test.Timestamp * MsPerSecond) % Word
                ELSE info.TimestampMs,
              Nonce |-> OrElse(test.Nonce, info.Nonce)]

validateNewAddressMocks(mocks) == \A i \in DOMAIN mocks : mocks[i].NewAddress \in SCAddr

SetBlockInfo ==
    /\ pc = "accounts" /\ pos > Len(step.Accounts)
    /\ PreviousBlockInfo' = convertBlockInfo(step.PreviousBlockInfo, PreviousBlockInfo)
    /\ CurrentBlockInfo' = convertBlockInfo(step.CurrentBlockInfo, CurrentBlockInfo)
    /\ Blockhashes' = step.BlockHashes
    /\ LET valid == validateNewAddressMocks(step.NewAddressMocks)
       IN  /\ NewAddressMocks' = IF valid THEN NewAddressMocks \o step.NewAddressMocks
                                 ELSE NewAddressMocks
           /\ last' = [op |-> "setState", ok |-> valid]
    /\ pc' = "idle"
    /\ UNCHANGED <<AcctMap, Snapshots, Details, step, pos, CompiledCode, before>>

----------------------------------------------------------------------------
(* Deployments and calls *)

NoSetState == pc = "idle" /\ step' = NoStep /\ pos' = 0 /\ before' = NoWorld /\ UNCHANGED pc

\* Mutant: the nonce does not reach the address.
GenerateWithoutNonce(creator, nonce) == <<Trunk[creator], 0>>

GenerateMockAddress(creator, nonce) == <<Trunk[creator], nonce % ByteSize>>

\* The first mock of the creator and nonce wins.
NewAddress(creator, nonce) ==
    LET matching == {i \in DOMAIN NewAddressMocks :
                        /\ NewAddressMocks[i].CreatorAddress = creator
                        /\ NewAddressMocks[i].CreatorNonce = nonce}
    IN  IF matching = {} THEN GenerateMockAddress(creator, nonce)
        ELSE NewAddressMocks[CHOOSE i \in matching : \A j \in matching : i <= j].NewAddress

Output(nonce, code) ==
    [BalanceDelta |-> 0, Nonce |-> nonce, Code |-> code, StorageUpdates |-> [k \in {} |-> 0]]

\* SetCodeAndMetadata, on an account that is created if there is none: what the
\* VM reports are always bytes.
PutMetadata(addr) ==
    \E metadata \in Metadata \ {NoMetadata} :
        LET existing == IF addr \in DOMAIN Details THEN Details[addr] ELSE NoDetails
        IN  Details' = PutEntry(Details, addr, [existing EXCEPT !.CodeMetadata = metadata])

\* A deployment that succeeds: the VM asks for the address with the nonce the
\* creator had before, and reports both accounts.
Deploy ==
    /\ NoSetState
    /\ \E creator \in Creator, code \in Code :
          LET nonce == AcctMap[creator].Nonce
              addr  == NewAddress(creator, nonce)
          IN  /\ nonce < MaxNonce
              /\ AcctMap' = UpdateAccounts(AcctMap,
                                [a \in {creator, addr} |->
                                    IF a = creator THEN Output(nonce + 1, NoCode) ELSE Output(0, code)],
                                {})
              /\ PutMetadata(addr)
              /\ last' = [op |-> "deploy", addr |-> addr,
                          fresh |-> addr \notin DOMAIN AcctMap \/ AcctMap[addr].Code = NoCode]
    /\ UNCHANGED <<Snapshots, worldInfo, CompiledCode>>

\* An upgrade by the contract's owner, through the VM.
Upgrade ==
    /\ NoSetState
    /\ \E addr \in DOMAIN AcctMap, code \in Code :
          /\ AcctMap[addr].Code # NoCode
          /\ AcctMap' = UpdateAccounts(AcctMap, [a \in {addr} |-> Output(0, code)], {})
          /\ PutMetadata(addr)
          /\ last' = [op |-> "none"]
    /\ UNCHANGED <<Snapshots, worldInfo, CompiledCode>>

\* The VM runs what GetCompiledCode has for the code hash of the account; if
\* there is nothing it compiles the code and calls SaveCompiledCode.
Call ==
    /\ NoSetState
    /\ \E addr \in DOMAIN AcctMap :
          LET acct == AcctMap[addr]
          IN  /\ acct.Code # NoCode
              /\ CompiledCode' = IF acct.CodeHash \in DOMAIN CompiledCode THEN CompiledCode
                                 ELSE PutEntry(CompiledCode, acct.CodeHash, acct.Code)
              /\ last' = [op |-> "call", addr |-> addr, code |-> CompiledCode'[acct.CodeHash]]
    /\ UNCHANGED <<AcctMap, Snapshots, Details, worldInfo>>

Next ==
    \/ BeginSetState \/ SetAccount \/ SetAccountFails \/ SetBlockInfo
    \/ Deploy \/ Upgrade \/ Call

Spec == Init /\ [][Next]_vars
----------------------------------------------------------------------------
(* Properties *)

\* Every variable has its type: account maps and block info keep their form
\* through updates that specify any part of them.
TypeOK ==
    /\ IsAccountMap(AcctMap) /\ Snapshots = <<>>
    /\ Details \in [DOMAIN AcctMap -> AccountDetails]
    /\ pc \in {"idle", "accounts"} /\ step \in SetStateStep \union {NoStep}
    /\ pos \in 0..(Len(step.Accounts) + 1)
    /\ PreviousBlockInfo \in BlockInfo \union {NoInfo}
    /\ CurrentBlockInfo \in BlockInfo \union {NoInfo}
    /\ Blockhashes \in Seq(BlockHash) /\ NewAddressMocks \in Seq(NewAddressMock)
    /\ DOMAIN CompiledCode \subseteq CodeHashes
    /\ \A h \in DOMAIN CompiledCode : CompiledCode[h] \in Code

\* Whether the step is running, has ended or has failed: how far it has come.
InStep == pc = "accounts" \/ last.op = "setState"
Visited(addr) == {i \in 1..(pos - 1) : step.Accounts[i].Address = addr}

Same(addr, field) ==
    /\ addr \in DOMAIN AcctMap /\ addr \in DOMAIN before.AcctMap
    /\ AcctMap[addr][field] = before.AcctMap[addr][field]

\* What a setState step, also one that fails half way, leaves as it was: accounts
\* it has not come to; of the accounts it only updates, fields and storage keys it
\* does not mention, and code metadata and developer reward even if it does; block
\* info it does not mention; block hashes, if it fails at an account; mocks, if it
\* fails.  Two things it does not mention change all the same, and
\* StepTakesEffect says to what: the asyncCallData of an update, the block hashes.
StepChangesNothingElse ==
    InStep =>
        /\ \A addr \in Addr :
             IF Visited(addr) = {}
             THEN /\ addr \in DOMAIN AcctMap <=> addr \in DOMAIN before.AcctMap
                  /\ addr \in DOMAIN AcctMap => /\ AcctMap[addr] = before.AcctMap[addr]
                                                /\ Details[addr] = before.Details[addr]
             ELSE (\A i \in Visited(addr) : step.Accounts[i].Update) =>
                  LET Keeps(field) == \A i \in Visited(addr) : step.Accounts[i][field] = Unspecified
                  IN  /\ \A field \in {"Nonce", "Balance", "Code"} : Keeps(field) => Same(addr, field)
                      /\ \A k \in Key :
                            (\A i \in Visited(addr) : k \notin DOMAIN step.Accounts[i].Storage)
                            => AcctMap[addr].Storage[k] = before.AcctMap[addr].Storage[k]
                      /\ Details[addr].CodeMetadata = before.Details[addr].CodeMetadata
                      /\ Details[addr].DeveloperReward = before.Details[addr].DeveloperReward
        /\ pos <= Len(step.Accounts) \/ step.PreviousBlockInfo = NoInfo
              => PreviousBlockInfo = before.Previous
        /\ pos <= Len(step.Accounts) \/ step.CurrentBlockInfo = NoInfo
              => CurrentBlockInfo = before.Current
        /\ pos <= Len(step.Accounts) => Blockhashes = before.Hashes
        /\ (last.op = "setState" /\ ~last.ok) => NewAddressMocks = before.Mocks

\* What a setState step makes so, in steps too that fail later: what it says of an
\* account it has come to, if it does not come to the same account again.  Of an
\* update that is nonce, balance, code and storage, not code metadata and developer
\* reward; asyncCallData is what the step says, empty if it says nothing.  So are
\* the block hashes, once all accounts are set.
StepTakesEffect ==
    InStep =>
        /\ \A i \in 1..(pos - 1) :
            LET spec == step.Accounts[i]
            IN  (\A j \in Visited(spec.Address) : j <= i) =>
                /\ spec.Address \in DOMAIN AcctMap
                /\ \A field \in {"Nonce", "Balance", "Code"} :
                      spec[field] \in {Unspecified, AcctMap[spec.Address][field]}
                /\ \A k \in DOMAIN spec.Storage :
                      AcctMap[spec.Address].Storage[k] = spec.Storage[k]
                /\ \A field \in {"CodeMetadata", "DeveloperReward"} :
                      spec.Update \/ spec[field] \in {Unspecified, Details[spec.Address][field]}
                /\ Details[spec.Address].AsyncCallData = spec.AsyncCallData
        /\ last.op = "setState" /\ pos > Len(step.Accounts) => Blockhashes = step.BlockHashes

\* worldBlockchainHook.go: "NewAddress provides the address for a new account".
\* No deployment replaces a contract that is there.
NewAddressIsNew == last.op = "deploy" => last.fresh

\* A call runs the code its account has, never code compiled for an earlier
\* version of it.
RunsItsCode == last.op = "call" => last.code = AcctMap[last.addr].Code
============================================================================

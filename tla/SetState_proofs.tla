-------------------------- MODULE SetState_proofs --------------------------
(***************************************************************************)
(* Machine-checked proofs about SetState, for every value of its           *)
(* constants: type correctness; that calls run the code their account has  *)
(* as long as updates do not change code; that a setState step does what   *)
(* it says and nothing else, also if it fails half way; and under what     *)
(* conditions on a scenario no deployment replaces a contract there is.    *)
(***************************************************************************)
EXTENDS SetState, Sums_proofs

----------------------------------------------------------------------------
(* The operators of MockWorld turn account maps into account maps *)

\* Every address an account map has is a known one, and has an account.
LEMMA AccountMapEntry ==
    ASSUME NEW am, IsAccountMap(am), NEW a \in DOMAIN am
    PROVE  a \in Addr /\ am[a] \in Account
  BY DEF IsAccountMap

\* EmptyAccount, what CreateAccount makes, is an account.
LEMMA EmptyAccountType == EmptyAccount \in Account
  BY DEF EmptyAccount, Account, NoHash, CodeHashes

\* Storing an account under a known address keeps the type.
LEMMA PutEntryType ==
    ASSUME NEW am, IsAccountMap(am), NEW a \in Addr, NEW account \in Account
    PROVE  /\ IsAccountMap(PutEntry(am, a, account))
           /\ DOMAIN PutEntry(am, a, account) = DOMAIN am \union {a}
  BY DEF IsAccountMap, PutEntry

\* An output account turns an account into an account.
LEMMA OutputAccountType ==
    ASSUME NEW acct \in Account, NEW oa, IsOutputAccount(oa, Key)
    PROVE  UpdateAccountFromOutputAccount(acct, oa) \in Account
<1> DEFINE updated == [acct EXCEPT
            !.Balance = @ + oa.BalanceDelta,
            !.Nonce   = IF oa.Nonce > @ THEN oa.Nonce ELSE @,
            !.Storage = [k \in Key |-> IF k \in DOMAIN oa.StorageUpdates
                                       THEN oa.StorageUpdates[k] ELSE @[k]]]
<1>1. [k \in Key |-> IF k \in DOMAIN oa.StorageUpdates
                     THEN oa.StorageUpdates[k] ELSE acct.Storage[k]] \in [Key -> Nat]
  BY DEF IsOutputAccount, Account
<1>2. updated \in Account
  <2>1. acct.Balance + oa.BalanceDelta \in Int
    BY DEF IsOutputAccount, Account
  <2>2. (IF oa.Nonce > acct.Nonce THEN oa.Nonce ELSE acct.Nonce) \in Nat
    BY DEF IsOutputAccount, Account
  <2>3. ASSUME NEW b \in Int, NEW n \in Nat, NEW st \in [Key -> Nat]
        PROVE  [acct EXCEPT !.Balance = b, !.Nonce = n, !.Storage = st] \in Account
    BY DEF Account
  <2> QED BY <1>1, <2>1, <2>2, <2>3
<1>3. oa.Code # NoCode => SetCodeAndMetadata(updated, oa.Code) \in Account
  BY <1>2 DEF IsOutputAccount, SetCodeAndMetadata, Account, CodeHashes
<1> QED BY <1>2, <1>3 DEF UpdateAccountFromOutputAccount

----------------------------------------------------------------------------
(* Accounts of a step *)

\* convertAccount makes an account, with defaults for what is not specified.
LEMMA ConvertType ==
    ASSUME NEW spec, IsAccountSpec(spec)
    PROVE  convertAccount(spec) \in Account
<1> DEFINE nonce == OrElse(spec.Nonce, 0)
           balance == OrElse(spec.Balance, 0)
           storage == [k \in Key |-> IF k \in DOMAIN spec.Storage THEN spec.Storage[k] ELSE 0]
           code == OrElse(spec.Code, NoCode)
<1>1. nonce \in Nat /\ balance \in Int
  BY DEF IsAccountSpec, OrElse, Maybe
<1>2. storage \in [Key -> Nat]
  BY DEF IsAccountSpec
<1>3. code \in Code \union {NoCode}
  BY DEF IsAccountSpec, OrElse, Maybe
<1>4. convertAccount(spec) = [Nonce |-> nonce, Balance |-> balance, Storage |-> storage,
                              Code |-> code, CodeHash |-> NoHash]
  BY DEF convertAccount
<1> HIDE DEF nonce, balance, storage, code
<1> QED BY <1>1, <1>2, <1>3, <1>4 DEF Account, CodeHashes

\* An update of an account is an account; its code is the one specified, if
\* any, and its code hash the old one.
LEMMA UpdateType ==
    ASSUME NEW acct \in Account, NEW spec, IsAccountSpec(spec)
    PROVE  /\ UpdateAccount(acct, spec) \in Account
           /\ UpdateAccount(acct, spec).Code = OrElse(spec.Code, acct.Code)
           /\ UpdateAccount(acct, spec).CodeHash = acct.CodeHash
<1> DEFINE nonce == OrElse(spec.Nonce, acct.Nonce)
           balance == OrElse(spec.Balance, acct.Balance)
           storage == [k \in Key |-> IF k \in DOMAIN spec.Storage THEN spec.Storage[k]
                                     ELSE acct.Storage[k]]
           code == OrElse(spec.Code, acct.Code)
<1>1. acct.Nonce \in Nat /\ acct.Balance \in Int /\ acct.Storage \in [Key -> Nat]
      /\ acct.Code \in Code \union {NoCode}
  BY DEF Account
<1>2. nonce \in Nat /\ balance \in Int
  BY <1>1 DEF IsAccountSpec, OrElse, Maybe
<1>3. storage \in [Key -> Nat]
  BY <1>1 DEF IsAccountSpec
<1>4. code \in Code \union {NoCode}
  BY <1>1 DEF IsAccountSpec, OrElse, Maybe
<1>5. UpdateAccount(acct, spec) =
          [acct EXCEPT !.Nonce = nonce, !.Balance = balance, !.Storage = storage, !.Code = code]
  BY DEF UpdateAccount, Account
<1> HIDE DEF nonce, balance, storage, code
<1>6. /\ UpdateAccount(acct, spec) \in Account
      /\ UpdateAccount(acct, spec).Code = code
      /\ UpdateAccount(acct, spec).CodeHash = acct.CodeHash
  BY <1>2, <1>3, <1>4, <1>5 DEF Account
<1> QED BY <1>6 DEF code

\* The code of an account agrees with its hash.
HashAgrees(acct) == acct.Code # NoCode => acct.CodeHash = HashOf(acct.Code)

\* What PutAccount stores: the account, with a hash where there was none.
LEMMA PutAccountType ==
    ASSUME NEW am, IsAccountMap(am), NEW a \in Addr, NEW acct \in Account
    PROVE  /\ IsAccountMap(PutAccount(am, a, acct))
           /\ DOMAIN PutAccount(am, a, acct) = DOMAIN am \union {a}
           /\ \A b \in DOMAIN am \ {a} : PutAccount(am, a, acct)[b] = am[b]
           /\ acct.CodeHash = NoHash \/ HashAgrees(acct) => HashAgrees(PutAccount(am, a, acct)[a])
<1> DEFINE put == IF acct.Code # NoCode /\ acct.CodeHash = NoHash
                  THEN [acct EXCEPT !.CodeHash = HashOf(acct.Code)] ELSE acct
<1>1. /\ put \in Account
      /\ acct.CodeHash = NoHash \/ HashAgrees(acct) => HashAgrees(put)
  <2>1. CASE acct.Code # NoCode /\ acct.CodeHash = NoHash
    <3>1. HashOf(acct.Code) \in CodeHashes
      BY <2>1 DEF Account, CodeHashes
    <3>2. put = [acct EXCEPT !.CodeHash = HashOf(acct.Code)]
      BY <2>1
    <3>3. put \in Account /\ put.Code = acct.Code /\ put.CodeHash = HashOf(acct.Code)
      BY <3>1, <3>2 DEF Account
    <3> QED BY <3>3 DEF HashAgrees
  <2>2. CASE ~(acct.Code # NoCode /\ acct.CodeHash = NoHash)
    BY <2>2 DEF HashAgrees
  <2> QED BY <2>1, <2>2
<1>2. PutAccount(am, a, acct) = PutEntry(am, a, put)
  BY DEF PutAccount, Account
<1> HIDE DEF put
<1>3. PutEntry(am, a, put)[a] = put /\ \A b \in DOMAIN am \ {a} : PutEntry(am, a, put)[b] = am[b]
  BY DEF PutEntry
<1>4. IsAccountMap(PutEntry(am, a, put)) /\ DOMAIN PutEntry(am, a, put) = DOMAIN am \union {a}
  BY <1>1, PutEntryType
<1>5. acct.CodeHash = NoHash \/ HashAgrees(acct) => HashAgrees(PutEntry(am, a, put)[a])
  BY <1>1, <1>3
<1> QED BY <1>2, <1>3, <1>4, <1>5

----------------------------------------------------------------------------
(* Output accounts *)

\* What a transaction reports of an account it deploys or calls.
LEMMA OutputType ==
    ASSUME NEW nonce \in Nat, NEW code \in Code \union {NoCode}
    PROVE  IsOutputAccount(Output(nonce, code), Key)
  BY DEF Output, IsOutputAccount

\* UpdateAccounts, with such reports and no deletions, keeps all accounts and
\* the agreement of code and hash.
LEMMA UpdateAccountsHash ==
    ASSUME NEW am, IsAccountMap(am), NEW D \in SUBSET Addr, NEW oas,
           oas = [a \in D |-> oas[a]], \A a \in D : IsOutputAccount(oas[a], Key)
    PROVE  /\ IsAccountMap(UpdateAccounts(am, oas, {}))
           /\ DOMAIN UpdateAccounts(am, oas, {}) = DOMAIN am \union D
           /\ (\A a \in DOMAIN am : HashAgrees(am[a]))
              => \A a \in DOMAIN am \union D : HashAgrees(UpdateAccounts(am, oas, {})[a])
<1> DEFINE acct(a) == IF a \in DOMAIN am THEN am[a] ELSE EmptyAccount
           new(a) == IF a \in D THEN UpdateAccountFromOutputAccount(acct(a), oas[a]) ELSE acct(a)
<1>1. UpdateAccounts(am, oas, {}) = [a \in DOMAIN am \union D |-> new(a)]
  BY DEF UpdateAccounts
<1>2. \A a \in DOMAIN am \union D : a \in Addr /\ acct(a) \in Account
  BY EmptyAccountType DEF IsAccountMap
<1>3. \A a \in DOMAIN am \union D : new(a) \in Account
  BY <1>2, OutputAccountType
<1>4. ASSUME NEW ac \in Account, HashAgrees(ac), NEW oa, IsOutputAccount(oa, Key)
      PROVE  HashAgrees(UpdateAccountFromOutputAccount(ac, oa))
  <2> DEFINE b == ac.Balance + oa.BalanceDelta
             n == IF oa.Nonce > ac.Nonce THEN oa.Nonce ELSE ac.Nonce
             st == [k \in Key |-> IF k \in DOMAIN oa.StorageUpdates
                                  THEN oa.StorageUpdates[k] ELSE ac.Storage[k]]
             updated == [ac EXCEPT !.Balance = b, !.Nonce = n, !.Storage = st]
  <2>1. UpdateAccountFromOutputAccount(ac, oa) =
            IF oa.Code = NoCode THEN updated ELSE SetCodeAndMetadata(updated, oa.Code)
    BY DEF UpdateAccountFromOutputAccount, Account
  <2> HIDE DEF b, n, st
  <2>2. updated.Code = ac.Code /\ updated.CodeHash = ac.CodeHash
    BY DEF Account
  <2>3. /\ SetCodeAndMetadata(updated, oa.Code).Code = oa.Code
        /\ SetCodeAndMetadata(updated, oa.Code).CodeHash = HashOf(oa.Code)
    BY DEF SetCodeAndMetadata, Account
  <2> HIDE DEF updated
  <2> QED BY <1>4, <2>1, <2>2, <2>3 DEF HashAgrees
<1>5. (\A a \in DOMAIN am : HashAgrees(am[a])) => \A a \in DOMAIN am \union D : HashAgrees(acct(a))
  BY DEF HashAgrees, EmptyAccount
<1>6. (\A a \in DOMAIN am : HashAgrees(am[a])) => \A a \in DOMAIN am \union D : HashAgrees(new(a))
  BY <1>2, <1>4, <1>5
<1> HIDE DEF new, acct
<1> QED BY <1>1, <1>2, <1>3, <1>6 DEF IsAccountMap

----------------------------------------------------------------------------
(* Addresses of deployments *)

\* A deployment's address, mocked or generated, is a known one.
LEMMA NewAddressType ==
    ASSUME NewAddressMocks \in Seq(NewAddressMock), NEW c \in Creator, NEW n \in Nat
    PROVE  NewAddress(c, n) \in Addr
<1> DEFINE matching == {i \in DOMAIN NewAddressMocks :
                          /\ NewAddressMocks[i].CreatorAddress = c
                          /\ NewAddressMocks[i].CreatorNonce = n}
           least == CHOOSE i \in matching : \A j \in matching : i <= j
<1>1. NewAddress(c, n) = IF matching = {} THEN GenerateMockAddress(c, n)
                         ELSE NewAddressMocks[least].NewAddress
  BY DEF NewAddress
<1>2. GenerateMockAddress(c, n) \in Addr
  <2>1. n % ByteSize \in 0..(ByteSize - 1)
    BY WidthAssumption
  <2> QED BY <2>1, AddressAssumption DEF GenerateMockAddress
<1>3. \A i \in DOMAIN NewAddressMocks : NewAddressMocks[i] \in NewAddressMock
  OBVIOUS
<1>4. matching \in SUBSET Nat /\ matching \subseteq DOMAIN NewAddressMocks
  OBVIOUS
<1> HIDE DEF matching
<1>5. matching # {} => \E i \in matching : \A j \in matching : i <= j
  BY <1>4, LeastIndex
<1>6. matching # {} => least \in matching
  BY <1>5
<1>7. \A i \in matching : NewAddressMocks[i].NewAddress \in Addr
  BY <1>3, <1>4 DEF NewAddressMock
<1> QED BY <1>1, <1>2, <1>6, <1>7

----------------------------------------------------------------------------
(* The other fields of accounts *)

\* NoDetails, of accounts that transactions create.
LEMMA NoDetailsType == NoDetails \in AccountDetails
  BY DetailsAssumption DEF NoDetails, AccountDetails

\* An account of a step has the details it specifies, with defaults.
LEMMA DetailsSay ==
    ASSUME NEW spec, IsAccountSpec(spec)
    PROVE  LET new == convertDetails(spec)
           IN  /\ new \in AccountDetails
               /\ spec.CodeMetadata \in {Unspecified, new.CodeMetadata}
               /\ spec.DeveloperReward \in {Unspecified, new.DeveloperReward}
               /\ new.AsyncCallData = spec.AsyncCallData
<1> DEFINE default == IF convertAccount(spec).Code = NoCode THEN NoMetadata ELSE DefaultCodeMetadata
           metadata == OrElse(spec.CodeMetadata, default)
           reward == OrElse(spec.DeveloperReward, 0)
<1>1. default \in Metadata
  BY DetailsAssumption
<1> HIDE DEF default
<1>2. /\ metadata \in Metadata /\ spec.CodeMetadata \in {Unspecified, metadata}
      /\ reward \in Nat /\ spec.DeveloperReward \in {Unspecified, reward}
      /\ spec.AsyncCallData \in CallData
  BY <1>1 DEF IsAccountSpec, OrElse, Maybe
<1>3. convertDetails(spec) = [CodeMetadata |-> metadata, DeveloperReward |-> reward,
                              AsyncCallData |-> spec.AsyncCallData]
  BY DEF convertDetails, default
<1> HIDE DEF metadata, reward
<1> QED BY <1>2, <1>3 DEF AccountDetails

\* An update changes asyncCallData and nothing else of them.
LEMMA UpdatedDetailsSay ==
    ASSUME NEW d \in AccountDetails, NEW spec, IsAccountSpec(spec)
    PROVE  LET new == UpdateDetails(d, spec)
           IN  /\ new \in AccountDetails
               /\ new.CodeMetadata = d.CodeMetadata /\ new.DeveloperReward = d.DeveloperReward
               /\ new.AsyncCallData = spec.AsyncCallData
<1>1. spec.AsyncCallData \in CallData
  BY DEF IsAccountSpec
<1> QED BY <1>1 DEF UpdateDetails, AccountDetails

\* Code metadata are put where there is an account, or with a new one.
LEMMA PutMetadataType ==
    ASSUME Details \in [DOMAIN AcctMap -> AccountDetails], NEW addr, PutMetadata(addr)
    PROVE  Details' \in [DOMAIN AcctMap \union {addr} -> AccountDetails]
<1> DEFINE old == IF addr \in DOMAIN Details THEN Details[addr] ELSE NoDetails
<1>1. PICK metadata \in Metadata :
        Details' = PutEntry(Details, addr, [old EXCEPT !.CodeMetadata = metadata])
  BY DEF PutMetadata
<1>2. old \in AccountDetails
  BY NoDetailsType
<1> HIDE DEF old
<1>3. [old EXCEPT !.CodeMetadata = metadata] \in AccountDetails
  BY <1>2 DEF AccountDetails
<1> QED BY <1>1, <1>3 DEF PutEntry

----------------------------------------------------------------------------
(* Type correctness *)

\* The accounts of a step are within reach while it runs; deployers exist.
IInv ==
    /\ TypeOK
    /\ Creator \subseteq DOMAIN AcctMap
    /\ pc = "accounts" => pos >= 1 /\ last.op = "none"

\* NoStep has the form of a step.
LEMMA StepForm == \A s \in SetStateStep \union {NoStep} : IsSetStateStep(s)
<1>1. IsSetStateStep(NoStep)
  <2>1. NoStep.NewAddressMocks \in Seq(NewAddressMock)
    BY DEF NoStep
  <2> QED BY <2>1 DEF NoStep, IsSetStateStep
<1> QED BY <1>1, StepAssumption

\* The account a step is at has the form of one.
LEMMA AccountForm ==
    ASSUME IInv, pc = "accounts", pos <= Len(step.Accounts)
    PROVE  IsAccountSpec(step.Accounts[pos])
<1>1. IsSetStateStep(step)
  BY StepForm DEF IInv, TypeOK
<1>2. pos \in 1..Len(step.Accounts)
  BY <1>1 DEF IInv, TypeOK, IsSetStateStep
<1> QED BY <1>1, <1>2 DEF IsSetStateStep

\* Block info stays block info, in uint64 whatever the seconds are.
LEMMA BlockInfoType ==
    ASSUME NEW test \in TestBlockInfo \union {NoInfo}, NEW current \in BlockInfo \union {NoInfo}
    PROVE  convertBlockInfo(test, current) \in BlockInfo \union {NoInfo}
<1>1. CASE test = NoInfo
  BY <1>1 DEF convertBlockInfo
<1>2. CASE test # NoInfo
  <2> DEFINE info == IF current = NoInfo THEN [TimestampMs |-> 0, Nonce |-> 0] ELSE current
             ms == IF test.TimestampMs # Unspecified THEN test.TimestampMs
                   ELSE IF test.Timestamp # Unspecified THEN (test.Timestamp * MsPerSecond) % Word
                   ELSE info.TimestampMs
             nonce == OrElse(test.Nonce, info.Nonce)
  <2>1. info.TimestampMs \in 0..(Word - 1) /\ info.Nonce \in Nat
    BY WidthAssumption DEF BlockInfo
  <2>2. test \in TestBlockInfo
    BY <1>2
  <2>3. \A seconds \in Nat : (seconds * MsPerSecond) % Word \in 0..(Word - 1)
    <3>1. ASSUME NEW seconds \in Nat PROVE seconds * MsPerSecond \in Nat
      BY WidthAssumption
    <3>2. ASSUME NEW x \in Nat PROVE x % Word \in 0..(Word - 1)
      BY WidthAssumption
    <3> QED BY <3>1, <3>2
  <2>4. ms \in 0..(Word - 1) /\ nonce \in Nat
    <3> HIDE DEF info
    <3>1. /\ test.TimestampMs \in 0..(Word - 1) \union {Unspecified}
          /\ test.Timestamp \in Nat \union {Unspecified}
          /\ test.Nonce \in Nat \union {Unspecified}
      BY <2>2 DEF TestBlockInfo, Maybe
    <3> QED BY <2>1, <2>3, <3>1 DEF OrElse
  <2>5. convertBlockInfo(test, current) = [TimestampMs |-> ms, Nonce |-> nonce]
    BY <1>2 DEF convertBlockInfo
  <2> HIDE DEF ms, nonce
  <2> QED BY <2>4, <2>5 DEF BlockInfo
<1> QED BY <1>1, <1>2

\* The initial state satisfies the invariant.
LEMMA InitIInv == Init => IInv
<1> SUFFICES ASSUME Init PROVE IInv
  OBVIOUS
<1>1. NewAddressMocks \in Seq(NewAddressMock)
  BY DEF Init
<1>2. pos \in 0..(Len(step.Accounts) + 1)
  BY DEF Init, NoStep
<1>3. DOMAIN CompiledCode = {}
  BY DEF Init
<1>4. IsAccountMap(AcctMap) /\ Creator \subseteq DOMAIN AcctMap
  BY GenesisAssumption, AddressAssumption DEF Init
<1>6. Details \in [DOMAIN AcctMap -> AccountDetails]
  <2>1. ASSUME NEW metadata \in Metadata
        PROVE  [NoDetails EXCEPT !.CodeMetadata = metadata] \in AccountDetails
    BY NoDetailsType DEF AccountDetails
  <2>2. NoDetails.CodeMetadata \in Metadata
    BY NoDetailsType DEF AccountDetails
  <2>3. \A a \in DOMAIN Genesis :
           (IF Genesis[a].Code = NoCode THEN NoDetails.CodeMetadata ELSE DefaultCodeMetadata) \in Metadata
    BY <2>2, DetailsAssumption
  <2>4. Details = [a \in DOMAIN AcctMap |-> [NoDetails EXCEPT !.CodeMetadata =
                     IF Genesis[a].Code = NoCode THEN NoDetails.CodeMetadata ELSE DefaultCodeMetadata]]
    BY DEF Init
  <2>5. DOMAIN AcctMap = DOMAIN Genesis
    BY DEF Init
  <2> QED BY <2>1, <2>3, <2>4, <2>5
<1>7. Blockhashes \in Seq(BlockHash)
  BY DEF Init
<1>5. Snapshots = <<>> /\ pc = "idle" /\ step \in SetStateStep \union {NoStep}
      /\ PreviousBlockInfo = NoInfo /\ CurrentBlockInfo = NoInfo
  BY DEF Init
<1> QED BY <1>1, <1>2, <1>3, <1>4, <1>5, <1>6, <1>7 DEF IInv, TypeOK

\* Starting a step changes nothing of the world.
LEMMA BeginTypes == IInv /\ BeginSetState => IInv'
<1> SUFFICES ASSUME IInv, BeginSetState PROVE IInv'
  OBVIOUS
<1>1. step' \in SetStateStep \union {NoStep} /\ IsSetStateStep(step')
  BY StepForm DEF BeginSetState
<1>2. pos' \in 0..(Len(step.Accounts) + 1)' /\ pos' >= 1
  BY <1>1 DEF BeginSetState, IsSetStateStep
<1>3. pc' = "accounts" /\ last'.op = "none"
  BY DEF BeginSetState
<1>4. UNCHANGED <<AcctMap, Snapshots, Details, PreviousBlockInfo, CurrentBlockInfo, Blockhashes,
                  NewAddressMocks, CompiledCode>>
  BY DEF BeginSetState, worldInfo
<1> QED BY <1>1, <1>2, <1>3, <1>4 DEF IInv, TypeOK

\* What a successful SetAccount puts, and where.
LEMMA SetAccountWorld ==
    ASSUME IInv, SetAccount
    PROVE  LET spec == step.Accounts[pos]
               acct == IF spec.Update THEN UpdateAccount(AcctMap[spec.Address], spec)
                       ELSE convertAccount(spec)
           IN  /\ spec.Address \in Addr /\ acct \in Account
               /\ AcctMap' = PutAccount(AcctMap, spec.Address, acct)
               /\ spec.Update => spec.Address \in DOMAIN AcctMap
<1> DEFINE spec == step.Accounts[pos]
<1>1. IsAccountSpec(spec)
  BY AccountForm DEF SetAccount
<1> HIDE DEF spec
<1>2. spec.Update => spec.Address \in DOMAIN AcctMap
  BY DEF SetAccount, CanSet, spec
<1>3. AcctMap' = PutAccount(AcctMap, spec.Address,
                            IF spec.Update THEN UpdateAccount(AcctMap[spec.Address], spec)
                            ELSE convertAccount(spec))
  BY DEF SetAccount, spec
<1>4. spec.Update => UpdateAccount(AcctMap[spec.Address], spec) \in Account
  BY <1>1, <1>2, UpdateType, AccountMapEntry DEF IInv, TypeOK
<1>5. convertAccount(spec) \in Account
  BY <1>1, ConvertType
<1>6. spec.Address \in Addr
  BY <1>1 DEF IsAccountSpec
<1> QED BY <1>2, <1>3, <1>4, <1>5, <1>6 DEF spec

\* What a successful SetAccount makes of the other fields.
LEMMA SetAccountDetails ==
    ASSUME IInv, SetAccount
    PROVE  LET spec == step.Accounts[pos]
               new == IF spec.Update THEN UpdateDetails(Details[spec.Address], spec)
                      ELSE convertDetails(spec)
           IN  /\ Details' \in [DOMAIN AcctMap \union {spec.Address} -> AccountDetails]
               /\ Details'[spec.Address] = new
               /\ \A b \in DOMAIN AcctMap \ {spec.Address} : Details'[b] = Details[b]
               /\ spec.Update => Details[spec.Address] \in AccountDetails
<1> DEFINE spec == step.Accounts[pos]
           new == IF spec.Update THEN UpdateDetails(Details[spec.Address], spec)
                  ELSE convertDetails(spec)
<1>1. IsAccountSpec(spec)
  BY AccountForm DEF SetAccount
<1>2. Details \in [DOMAIN AcctMap -> AccountDetails]
  BY DEF IInv, TypeOK
<1>3. spec.Update => Details[spec.Address] \in AccountDetails
  BY <1>2, SetAccountWorld
<1>4. Details' = PutEntry(Details, spec.Address, new)
  BY DEF SetAccount
<1>5. new \in AccountDetails
  BY <1>1, <1>3, DetailsSay, UpdatedDetailsSay
<1> HIDE DEF new, spec
<1>6. /\ Details' \in [DOMAIN AcctMap \union {spec.Address} -> AccountDetails]
      /\ Details'[spec.Address] = new
      /\ \A b \in DOMAIN AcctMap \ {spec.Address} : Details'[b] = Details[b]
  BY <1>2, <1>4, <1>5 DEF PutEntry
<1> QED BY <1>3, <1>6 DEF new, spec

\* Setting an account keeps all types.
LEMMA SetAccountTypes == IInv /\ SetAccount => IInv'
<1> SUFFICES ASSUME IInv, SetAccount PROVE IInv'
  OBVIOUS
<1> DEFINE spec == step.Accounts[pos]
           acct == IF spec.Update THEN UpdateAccount(AcctMap[spec.Address], spec)
                   ELSE convertAccount(spec)
<1>5. /\ spec.Address \in Addr /\ acct \in Account
      /\ AcctMap' = PutAccount(AcctMap, spec.Address, acct)
  BY SetAccountWorld
<1> HIDE DEF spec, acct
<1>1. /\ IsAccountMap(AcctMap') /\ DOMAIN AcctMap \subseteq DOMAIN AcctMap'
      /\ Details' \in [DOMAIN AcctMap' -> AccountDetails]
  <2>1. IsAccountMap(AcctMap)
    BY DEF IInv, TypeOK
  <2>2. IsAccountMap(AcctMap') /\ DOMAIN AcctMap' = DOMAIN AcctMap \union {spec.Address}
    BY <1>5, <2>1, PutAccountType
  <2>3. Details' \in [DOMAIN AcctMap \union {spec.Address} -> AccountDetails]
    BY SetAccountDetails DEF spec
  <2> QED BY <2>2, <2>3
<1>2. IsSetStateStep(step)
  BY StepForm DEF IInv, TypeOK
<1>3. pos' \in 0..(Len(step.Accounts) + 1) /\ pos' >= 1
  BY <1>2 DEF IInv, TypeOK, SetAccount, IsSetStateStep
<1>4. UNCHANGED <<Snapshots, pc, step, PreviousBlockInfo, CurrentBlockInfo, Blockhashes,
                  NewAddressMocks, CompiledCode, last>>
  BY DEF SetAccount, worldInfo
<1> QED BY <1>1, <1>3, <1>4 DEF IInv, TypeOK

\* Stopping at an account keeps all types.
LEMMA SetAccountFailsTypes == IInv /\ SetAccountFails => IInv'
  BY DEF IInv, TypeOK, SetAccountFails, StopAtAccount, worldInfo

\* Applying block info and mocks keeps all types.
LEMMA SetBlockInfoTypes == IInv /\ SetBlockInfo => IInv'
<1> SUFFICES ASSUME IInv, SetBlockInfo PROVE IInv'
  OBVIOUS
<1>1. IsSetStateStep(step)
  BY StepForm DEF IInv, TypeOK
<1>2. PreviousBlockInfo' \in BlockInfo \union {NoInfo}
  BY <1>1, BlockInfoType DEF SetBlockInfo, IInv, TypeOK, IsSetStateStep
<1>3. CurrentBlockInfo' \in BlockInfo \union {NoInfo}
  BY <1>1, BlockInfoType DEF SetBlockInfo, IInv, TypeOK, IsSetStateStep
<1>4. NewAddressMocks' \in Seq(NewAddressMock)
  <2>1. NewAddressMocks \o step.NewAddressMocks \in Seq(NewAddressMock)
    BY <1>1 DEF IInv, TypeOK, IsSetStateStep
  <2> QED BY <2>1 DEF SetBlockInfo, IInv, TypeOK
<1>5. pc' = "idle" /\ UNCHANGED <<AcctMap, Snapshots, Details, step, pos, CompiledCode>>
  BY DEF SetBlockInfo
<1>6. Blockhashes' \in Seq(BlockHash)
  BY <1>1 DEF SetBlockInfo, IsSetStateStep
<1> QED BY <1>2, <1>3, <1>4, <1>5, <1>6 DEF IInv, TypeOK

\* Between steps nothing is left of the last one.
LEMMA NoSetStateTypes ==
    ASSUME IInv, NoSetState
    PROVE  pc' = "idle" /\ step' \in SetStateStep \union {NoStep}
           /\ pos' \in 0..(Len(step.Accounts) + 1)'
  BY DEF NoSetState, NoStep

\* What a deployment does to the world: two output accounts.
LEMMA DeployWorld ==
    ASSUME IInv, Deploy
    PROVE  \E D \in SUBSET Addr : \E oas :
              /\ oas = [a \in D |-> oas[a]] /\ \A a \in D : IsOutputAccount(oas[a], Key)
              /\ AcctMap' = UpdateAccounts(AcctMap, oas, {})
              /\ Details' \in [DOMAIN AcctMap \union D -> AccountDetails]
              /\ last'.op = "deploy"
<1>1. PICK c \in Creator, code \in Code :
        /\ AcctMap' = UpdateAccounts(AcctMap,
                         [a \in {c, NewAddress(c, AcctMap[c].Nonce)} |->
                             IF a = c THEN Output(AcctMap[c].Nonce + 1, NoCode)
                             ELSE Output(0, code)], {})
        /\ PutMetadata(NewAddress(c, AcctMap[c].Nonce))
        /\ last'.op = "deploy"
  BY DEF Deploy
<1> DEFINE addr == NewAddress(c, AcctMap[c].Nonce)
           D == {c, addr}
           oas == [a \in D |-> IF a = c THEN Output(AcctMap[c].Nonce + 1, NoCode)
                               ELSE Output(0, code)]
<1>2. c \in Addr /\ AcctMap[c].Nonce \in Nat
  BY AccountMapEntry DEF IInv, TypeOK, Account
<1>3. addr \in Addr
  BY <1>2, NewAddressType DEF IInv, TypeOK
<1>4. \A a \in D : IsOutputAccount(oas[a], Key)
  BY <1>2, OutputType
<1>5. oas = [a \in D |-> oas[a]]
  OBVIOUS
<1>6. AcctMap' = UpdateAccounts(AcctMap, oas, {})
  BY <1>1
<1>7. D \in SUBSET Addr
  BY <1>2, <1>3
<1>8. Details' \in [DOMAIN AcctMap \union D -> AccountDetails]
  <2>1. Details' \in [DOMAIN AcctMap \union {addr} -> AccountDetails]
    BY <1>1, PutMetadataType DEF IInv, TypeOK
  <2>2. DOMAIN AcctMap \union {addr} = DOMAIN AcctMap \union D
    BY DEF IInv
  <2> QED BY <2>1, <2>2
<1> HIDE DEF D, oas
<1> QED BY <1>1, <1>4, <1>5, <1>6, <1>7, <1>8

\* What an upgrade does to the world: one output account.
LEMMA UpgradeWorld ==
    ASSUME IInv, Upgrade
    PROVE  \E D \in SUBSET Addr : \E oas :
              /\ oas = [a \in D |-> oas[a]] /\ \A a \in D : IsOutputAccount(oas[a], Key)
              /\ AcctMap' = UpdateAccounts(AcctMap, oas, {})
              /\ Details' \in [DOMAIN AcctMap \union D -> AccountDetails]
              /\ last'.op = "none"
<1>1. PICK addr \in DOMAIN AcctMap, code \in Code :
        /\ AcctMap' = UpdateAccounts(AcctMap, [a \in {addr} |-> Output(0, code)], {})
        /\ PutMetadata(addr)
  BY Zenon DEF Upgrade
<1>6. last'.op = "none"
  BY DEF Upgrade
<1> DEFINE D == {addr}
           oas == [a \in D |-> Output(0, code)]
<1>2. D \in SUBSET Addr
  BY AccountMapEntry DEF IInv, TypeOK
<1>3. \A a \in D : IsOutputAccount(oas[a], Key)
  BY OutputType
<1>4. oas = [a \in D |-> oas[a]]
  OBVIOUS
<1>5. AcctMap' = UpdateAccounts(AcctMap, oas, {})
  BY <1>1
<1>7. Details' \in [DOMAIN AcctMap \union D -> AccountDetails]
  BY <1>1, PutMetadataType DEF IInv, TypeOK
<1> HIDE DEF D, oas
<1> QED BY <1>2, <1>3, <1>4, <1>5, <1>6, <1>7

\* A deployment or an upgrade keeps all types.
LEMMA OutputsTypes ==
    ASSUME IInv, NoSetState, UNCHANGED <<Snapshots, worldInfo, CompiledCode>>,
           NEW D \in SUBSET Addr, NEW oas,
           oas = [a \in D |-> oas[a]], \A a \in D : IsOutputAccount(oas[a], Key),
           AcctMap' = UpdateAccounts(AcctMap, oas, {}),
           Details' \in [DOMAIN AcctMap \union D -> AccountDetails]
    PROVE  IInv'
<1>1. IsAccountMap(AcctMap)
  BY DEF IInv, TypeOK
<1>2. IsAccountMap(AcctMap') /\ DOMAIN AcctMap' = DOMAIN AcctMap \union D
  BY <1>1, UpdateAccountsHash
<1>3. UNCHANGED <<Snapshots, PreviousBlockInfo, CurrentBlockInfo, Blockhashes, NewAddressMocks,
                  CompiledCode>>
  BY DEF worldInfo
<1> QED BY <1>2, <1>3, NoSetStateTypes DEF IInv, TypeOK

\* A call keeps all types: what the VM saves is code of an account.
LEMMA CallTypes == IInv /\ Call => IInv'
<1> SUFFICES ASSUME IInv, Call PROVE IInv'
  OBVIOUS
<1>1. PICK addr \in DOMAIN AcctMap :
        /\ AcctMap[addr].Code # NoCode
        /\ CompiledCode' = IF AcctMap[addr].CodeHash \in DOMAIN CompiledCode THEN CompiledCode
                           ELSE PutEntry(CompiledCode, AcctMap[addr].CodeHash, AcctMap[addr].Code)
  BY DEF Call
<1>2. AcctMap[addr].Code \in Code /\ AcctMap[addr].CodeHash \in CodeHashes
  BY <1>1, AccountMapEntry DEF IInv, TypeOK, Account
<1>3. DOMAIN CompiledCode' \subseteq CodeHashes /\ \A h \in DOMAIN CompiledCode' : CompiledCode'[h] \in Code
  BY <1>1, <1>2 DEF IInv, TypeOK, PutEntry
<1>4. NoSetState /\ UNCHANGED <<AcctMap, Snapshots, Details, PreviousBlockInfo, CurrentBlockInfo,
                                Blockhashes, NewAddressMocks>>
  BY DEF Call, worldInfo
<1> QED BY <1>3, <1>4, NoSetStateTypes DEF IInv, TypeOK

\* The invariant is inductive.
LEMMA NextIInv == IInv /\ [Next]_vars => IInv'
<1> SUFFICES ASSUME IInv, [Next]_vars PROVE IInv'
  OBVIOUS
<1>1. CASE Deploy
  <2>1. NoSetState /\ UNCHANGED <<Snapshots, worldInfo, CompiledCode>>
    BY <1>1 DEF Deploy
  <2> QED BY <1>1, <2>1, DeployWorld, OutputsTypes
<1>2. CASE Upgrade
  <2>1. NoSetState /\ UNCHANGED <<Snapshots, worldInfo, CompiledCode>>
    BY <1>2 DEF Upgrade
  <2> QED BY <1>2, <2>1, UpgradeWorld, OutputsTypes
<1>3. CASE UNCHANGED vars
  BY <1>3 DEF vars, worldInfo, IInv, TypeOK
<1> QED BY <1>1, <1>2, <1>3, BeginTypes, SetAccountTypes, SetAccountFailsTypes,
           SetBlockInfoTypes, CallTypes DEF Next

\* Every reachable state satisfies the invariant.
THEOREM Invariance == Spec => []IInv
<1> QED BY InitIInv, NextIInv, PTL DEF Spec

\* Account maps keep their form and block info its width through every step of
\* any scenario, whatever is left unspecified in it.
THEOREM TypeCorrect == Spec => []TypeOK
<1>1. IInv => TypeOK
  BY DEF IInv
<1> QED BY <1>1, Invariance, PTL

----------------------------------------------------------------------------
(* Calls run current code *)

\* No update gives an existing account code it does not have.
UpdatesRestateCode ==
    pc = "accounts" /\ pos <= Len(step.Accounts) =>
        LET spec == step.Accounts[pos]
        IN  spec.Update /\ spec.Address \in DOMAIN AcctMap =>
                spec.Code \in {Unspecified, NoCode, AcctMap[spec.Address].Code}

\* Hashes name codes, in accounts and for what the VM saved.
CodeInv ==
    /\ \A a \in DOMAIN AcctMap : HashAgrees(AcctMap[a])
    /\ \A h \in DOMAIN CompiledCode : h = HashOf(CompiledCode[h])
    /\ RunsItsCode

\* An account that is set has the hash of its code, unless its code is changed
\* by an update.
LEMMA SetAccountCode ==
    ASSUME IInv, CodeInv, UpdatesRestateCode, SetAccount
    PROVE  CodeInv'
<1> DEFINE spec == step.Accounts[pos]
           acct == IF spec.Update THEN UpdateAccount(AcctMap[spec.Address], spec)
                   ELSE convertAccount(spec)
<1>1. /\ spec.Address \in Addr /\ acct \in Account
      /\ AcctMap' = PutAccount(AcctMap, spec.Address, acct)
      /\ spec.Update => spec.Address \in DOMAIN AcctMap
  BY SetAccountWorld
<1>2. IsAccountSpec(spec) /\ pc = "accounts" /\ pos <= Len(step.Accounts)
  BY AccountForm DEF SetAccount
<1>3. acct.CodeHash = NoHash \/ HashAgrees(acct)
  <2>1. CASE spec.Update
    <3> DEFINE old == AcctMap[spec.Address]
    <3>1. old \in Account /\ HashAgrees(old)
      BY <1>1, <2>1, AccountMapEntry DEF IInv, TypeOK, CodeInv
    <3>2. acct = UpdateAccount(old, spec)
      BY <2>1
    <3>3. acct.Code = OrElse(spec.Code, old.Code) /\ acct.CodeHash = old.CodeHash
      BY <1>2, <3>1, <3>2, UpdateType
    <3>4. OrElse(spec.Code, old.Code) \in {NoCode, old.Code}
      BY <1>1, <1>2, <2>1 DEF UpdatesRestateCode, OrElse
    <3> HIDE DEF old, acct, spec
    <3> QED BY <3>1, <3>3, <3>4 DEF HashAgrees
  <2>2. CASE ~spec.Update
    BY <2>2 DEF convertAccount
  <2> QED BY <2>1, <2>2
<1> HIDE DEF acct, spec
<1>4. IsAccountMap(AcctMap)
  BY DEF IInv, TypeOK
<1>5. /\ DOMAIN AcctMap' = DOMAIN AcctMap \union {spec.Address}
      /\ \A b \in DOMAIN AcctMap \ {spec.Address} : AcctMap'[b] = AcctMap[b]
      /\ HashAgrees(AcctMap'[spec.Address])
  BY <1>1, <1>3, <1>4, PutAccountType
<1>6. \A a \in DOMAIN AcctMap' : HashAgrees(AcctMap'[a])
  BY <1>5 DEF CodeInv
<1>7. CompiledCode' = CompiledCode /\ last'.op = "none"
  BY <1>2 DEF SetAccount, IInv
<1> QED BY <1>6, <1>7 DEF CodeInv, RunsItsCode, HashAgrees

\* SetCodeAndMetadata: deployed and upgraded code comes with its hash.
LEMMA OutputsCode ==
    ASSUME IInv, CodeInv, last'.op # "call", UNCHANGED CompiledCode,
           NEW D \in SUBSET Addr, NEW oas,
           oas = [a \in D |-> oas[a]], \A a \in D : IsOutputAccount(oas[a], Key),
           AcctMap' = UpdateAccounts(AcctMap, oas, {})
    PROVE  CodeInv'
<1>1. IsAccountMap(AcctMap) /\ \A a \in DOMAIN AcctMap : HashAgrees(AcctMap[a])
  BY DEF IInv, TypeOK, CodeInv
<1>2. \A a \in DOMAIN AcctMap' : HashAgrees(AcctMap'[a])
  BY <1>1, UpdateAccountsHash
<1> QED BY <1>2 DEF CodeInv, RunsItsCode, HashAgrees

\* What a call finds under the hash of its account's code is that code.
LEMMA CallCode ==
    ASSUME IInv, CodeInv, Call
    PROVE  CodeInv'
<1>1. PICK addr \in DOMAIN AcctMap :
        /\ AcctMap[addr].Code # NoCode
        /\ CompiledCode' = IF AcctMap[addr].CodeHash \in DOMAIN CompiledCode THEN CompiledCode
                           ELSE PutEntry(CompiledCode, AcctMap[addr].CodeHash, AcctMap[addr].Code)
        /\ last' = [op |-> "call", addr |-> addr, code |-> CompiledCode'[AcctMap[addr].CodeHash]]
  BY DEF Call
<1> DEFINE hash == AcctMap[addr].CodeHash
           code == AcctMap[addr].Code
<1>2. hash = HashOf(code)
  BY <1>1 DEF CodeInv, HashAgrees
<1> HIDE DEF hash, code
<1>3. /\ hash \in DOMAIN CompiledCode'
      /\ \A h \in DOMAIN CompiledCode' : h = HashOf(CompiledCode'[h])
  <2>1. CASE hash \in DOMAIN CompiledCode
    BY <1>1, <2>1 DEF CodeInv, hash
  <2>2. CASE hash \notin DOMAIN CompiledCode
    <3>1. CompiledCode' = PutEntry(CompiledCode, hash, code)
      BY <1>1, <2>2 DEF hash, code
    <3> QED BY <1>2, <3>1 DEF CodeInv, PutEntry
  <2> QED BY <2>1, <2>2
<1>4. CompiledCode'[hash] = code
  BY <1>2, <1>3 DEF HashOf
<1>5. last'.addr = addr /\ last'.code = code
  BY <1>1, <1>4 DEF hash
<1>6. UNCHANGED AcctMap
  BY DEF Call
<1>7. RunsItsCode'
  BY <1>5, <1>6 DEF RunsItsCode, code
<1>8. \A a \in DOMAIN AcctMap' : HashAgrees(AcctMap'[a])
  BY <1>6 DEF CodeInv
<1> QED BY <1>3, <1>7, <1>8 DEF CodeInv

\* Every step keeps hashes and codes together.
LEMMA NextCodeInv == IInv /\ CodeInv /\ UpdatesRestateCode /\ [Next]_vars => CodeInv'
<1> SUFFICES ASSUME IInv, CodeInv, UpdatesRestateCode, [Next]_vars PROVE CodeInv'
  OBVIOUS
<1>1. CASE BeginSetState
  BY <1>1 DEF BeginSetState, CodeInv, RunsItsCode, HashAgrees
<1>2. CASE SetAccount
  BY <1>2, SetAccountCode
<1>3. CASE SetAccountFails
  BY <1>3 DEF SetAccountFails, StopAtAccount, CodeInv, RunsItsCode, HashAgrees
<1>4. CASE SetBlockInfo
  BY <1>4 DEF SetBlockInfo, CodeInv, RunsItsCode, HashAgrees
<1>5. CASE Deploy
  <2>1. UNCHANGED CompiledCode
    BY <1>5 DEF Deploy
  <2> QED BY <1>5, <2>1, DeployWorld, OutputsCode
<1>6. CASE Upgrade
  <2>1. UNCHANGED CompiledCode
    BY <1>6 DEF Upgrade
  <2> QED BY <1>6, <2>1, UpgradeWorld, OutputsCode
<1>7. CASE Call
  BY <1>7, CallCode
<1>8. CASE UNCHANGED vars
  BY <1>8 DEF vars, CodeInv, RunsItsCode, HashAgrees
<1> QED BY <1>1, <1>2, <1>3, <1>4, <1>5, <1>6, <1>7, <1>8 DEF Next

\* If no update changes the code of an account, and the first world has the
\* right hashes, deployments, upgrades and setState steps never make a call run
\* other code than its account has: code compiled once is found by its hash.
THEOREM CallsRunTheirCode ==
    ASSUME \A a \in DOMAIN Genesis : HashAgrees(Genesis[a])
    PROVE  Spec /\ []UpdatesRestateCode => []RunsItsCode
<1>1. Init => CodeInv
  BY DEF Init, CodeInv, RunsItsCode
<1>2. CodeInv => RunsItsCode
  BY DEF CodeInv
<1> QED BY <1>1, <1>2, NextCodeInv, Invariance, PTL DEF Spec

----------------------------------------------------------------------------
(* One account *)

\* An account made from a specification has what is specified.
LEMMA ConvertSays ==
    ASSUME NEW spec, IsAccountSpec(spec)
    PROVE  /\ spec.Nonce \in {Unspecified, convertAccount(spec).Nonce}
           /\ spec.Balance \in {Unspecified, convertAccount(spec).Balance}
           /\ spec.Code \in {Unspecified, convertAccount(spec).Code}
           /\ \A k \in DOMAIN spec.Storage : convertAccount(spec).Storage[k] = spec.Storage[k]
<1>1. DOMAIN spec.Storage \subseteq Key
  BY DEF IsAccountSpec
<1> QED BY <1>1 DEF convertAccount, OrElse

\* An updated account has what is specified, and the rest as it was.
LEMMA UpdateSays ==
    ASSUME NEW acct \in Account, NEW spec, IsAccountSpec(spec)
    PROVE  LET new == UpdateAccount(acct, spec)
           IN  /\ new.Nonce = OrElse(spec.Nonce, acct.Nonce)
               /\ new.Balance = OrElse(spec.Balance, acct.Balance)
               /\ new.Code = OrElse(spec.Code, acct.Code)
               /\ \A k \in Key : new.Storage[k] = IF k \in DOMAIN spec.Storage THEN spec.Storage[k]
                                                  ELSE acct.Storage[k]
<1> DEFINE nonce == OrElse(spec.Nonce, acct.Nonce)
           balance == OrElse(spec.Balance, acct.Balance)
           storage == [k \in Key |-> IF k \in DOMAIN spec.Storage THEN spec.Storage[k]
                                     ELSE acct.Storage[k]]
           code == OrElse(spec.Code, acct.Code)
<1>1. UpdateAccount(acct, spec) =
          [acct EXCEPT !.Nonce = nonce, !.Balance = balance, !.Storage = storage, !.Code = code]
  BY DEF UpdateAccount, Account
<1> HIDE DEF nonce, balance, storage, code
<1>2. LET new == UpdateAccount(acct, spec)
      IN  new.Nonce = nonce /\ new.Balance = balance /\ new.Code = code /\ new.Storage = storage
  BY <1>1 DEF Account
<1> QED BY <1>2 DEF nonce, balance, storage, code

\* PutAccount adds at most a hash to the account it stores.
LEMMA PutSays ==
    ASSUME NEW am, NEW a \in Addr, NEW acct \in Account
    PROVE  LET put == PutAccount(am, a, acct)[a]
           IN  put.Nonce = acct.Nonce /\ put.Balance = acct.Balance /\ put.Code = acct.Code
               /\ put.Storage = acct.Storage
<1> DEFINE hashed == [acct EXCEPT !.CodeHash = HashOf(acct.Code)]
<1>1. PutAccount(am, a, acct)[a] = IF acct.Code # NoCode /\ acct.CodeHash = NoHash THEN hashed ELSE acct
  BY DEF PutAccount, PutEntry
<1>2. /\ hashed.Nonce = acct.Nonce /\ hashed.Balance = acct.Balance
      /\ hashed.Code = acct.Code /\ hashed.Storage = acct.Storage
  BY DEF Account
<1> HIDE DEF hashed
<1> QED BY <1>1, <1>2

\* What a specification says of an account is so.
Holds(spec, acct) ==
    /\ spec.Nonce \in {Unspecified, acct.Nonce}
    /\ spec.Balance \in {Unspecified, acct.Balance}
    /\ spec.Code \in {Unspecified, acct.Code}
    /\ \A k \in DOMAIN spec.Storage : acct.Storage[k] = spec.Storage[k]

\* What a specification does not say of an account stays as it was.
Leaves(spec, old, new) ==
    /\ spec.Nonce = Unspecified => new.Nonce = old.Nonce
    /\ spec.Balance = Unspecified => new.Balance = old.Balance
    /\ spec.Code = Unspecified => new.Code = old.Code
    /\ \A k \in Key \ DOMAIN spec.Storage : new.Storage[k] = old.Storage[k]

\* What a specification says of the other fields of an account is so: of an
\* update, asyncCallData only.
DetailsHold(spec, d) ==
    /\ spec.Update \/ spec.CodeMetadata \in {Unspecified, d.CodeMetadata}
    /\ spec.Update \/ spec.DeveloperReward \in {Unspecified, d.DeveloperReward}
    /\ d.AsyncCallData = spec.AsyncCallData

\* What an update leaves of them, whatever it says.
SameDetails(old, new) ==
    new.CodeMetadata = old.CodeMetadata /\ new.DeveloperReward = old.DeveloperReward

\* SetAccount does so for one account, and touches no other.
LEMMA SetAccountDetailsSay ==
    ASSUME IInv, SetAccount
    PROVE  LET spec == step.Accounts[pos]
           IN  /\ \A b \in DOMAIN AcctMap \ {spec.Address} : Details'[b] = Details[b]
               /\ DetailsHold(spec, Details'[spec.Address])
               /\ spec.Update => SameDetails(Details[spec.Address], Details'[spec.Address])
<1> DEFINE spec == step.Accounts[pos]
           d == Details[spec.Address]
           new == IF spec.Update THEN UpdateDetails(d, spec) ELSE convertDetails(spec)
<1>1. IsAccountSpec(spec)
  BY AccountForm DEF SetAccount
<1>2. /\ Details'[spec.Address] = new
      /\ \A b \in DOMAIN AcctMap \ {spec.Address} : Details'[b] = Details[b]
      /\ spec.Update => d \in AccountDetails
  BY SetAccountDetails
<1>3. CASE spec.Update
  <2>1. new = UpdateDetails(d, spec)
    BY <1>3
  <2> HIDE DEF new, d, spec
  <2>2. DetailsHold(spec, new) /\ SameDetails(d, new)
    BY <1>1, <1>2, <1>3, <2>1, UpdatedDetailsSay DEF DetailsHold, SameDetails
  <2> QED BY <1>2, <2>2 DEF spec, d
<1>4. CASE ~spec.Update
  <2>1. new = convertDetails(spec)
    BY <1>4
  <2> HIDE DEF new, spec
  <2>2. DetailsHold(spec, new)
    BY <1>1, <2>1, DetailsSay DEF DetailsHold
  <2> QED BY <1>2, <1>4, <2>2 DEF spec
<1> QED BY <1>3, <1>4

\* SetAccount makes what is said of one account so, and touches no other.
LEMMA SetAccountSays ==
    ASSUME IInv, SetAccount
    PROVE  LET spec == step.Accounts[pos]
           IN  /\ spec.Address \in Addr
               /\ DOMAIN AcctMap' = DOMAIN AcctMap \union {spec.Address}
               /\ \A b \in DOMAIN AcctMap \ {spec.Address} : AcctMap'[b] = AcctMap[b]
               /\ Holds(spec, AcctMap'[spec.Address])
               /\ spec.Update => /\ spec.Address \in DOMAIN AcctMap
                                 /\ Leaves(spec, AcctMap[spec.Address], AcctMap'[spec.Address])
<1> DEFINE spec == step.Accounts[pos]
           addr == spec.Address
           acct == IF spec.Update THEN UpdateAccount(AcctMap[addr], spec) ELSE convertAccount(spec)
<1>1. IsAccountSpec(spec)
  BY AccountForm DEF SetAccount
<1>2. /\ addr \in Addr /\ acct \in Account /\ AcctMap' = PutAccount(AcctMap, addr, acct)
      /\ spec.Update => addr \in DOMAIN AcctMap
  BY SetAccountWorld
<1>3. IsAccountMap(AcctMap)
  BY DEF IInv, TypeOK
<1>4. spec.Update => AcctMap[addr] \in Account
  BY <1>2, <1>3, AccountMapEntry
<1>5. spec.Update => Leaves(spec, AcctMap[addr], acct)
  <2> SUFFICES ASSUME spec.Update PROVE Leaves(spec, AcctMap[addr], acct)
    OBVIOUS
  <2>1. acct = UpdateAccount(AcctMap[addr], spec)
    OBVIOUS
  <2> HIDE DEF acct, addr, spec
  <2> QED BY <1>1, <1>4, <2>1, UpdateSays DEF Leaves, OrElse
<1>6. Holds(spec, acct)
  <2>1. CASE spec.Update
    <3>1. acct = UpdateAccount(AcctMap[addr], spec)
      BY <2>1
    <3>2. DOMAIN spec.Storage \subseteq Key
      BY <1>1 DEF IsAccountSpec
    <3> HIDE DEF acct, addr, spec
    <3> QED BY <1>1, <1>4, <2>1, <3>1, <3>2, UpdateSays DEF Holds, OrElse
  <2>2. CASE ~spec.Update
    <3>1. acct = convertAccount(spec)
      BY <2>2
    <3> HIDE DEF acct, addr, spec
    <3> QED BY <1>1, <3>1, ConvertSays DEF Holds
  <2> QED BY <2>1, <2>2
<1> HIDE DEF acct, addr
<1>7. LET put == AcctMap'[addr]
      IN  put.Nonce = acct.Nonce /\ put.Balance = acct.Balance /\ put.Code = acct.Code
          /\ put.Storage = acct.Storage
  BY <1>2, PutSays
<1> HIDE DEF spec
<1>8. /\ DOMAIN AcctMap' = DOMAIN AcctMap \union {addr}
      /\ \A b \in DOMAIN AcctMap \ {addr} : AcctMap'[b] = AcctMap[b]
  BY <1>2, <1>3, PutAccountType
<1>9. Holds(spec, AcctMap'[addr])
  BY <1>6, <1>7 DEF Holds
<1>10. spec.Update => Leaves(spec, AcctMap[addr], AcctMap'[addr])
  BY <1>5, <1>7 DEF Leaves
<1> QED BY <1>2, <1>8, <1>9, <1>10 DEF addr, spec

----------------------------------------------------------------------------
(* What a step says holds *)

\* What the account at i of the step says holds, unless a later one is of the
\* same address.
Said(i) ==
    LET spec == step.Accounts[i]
    IN  (\A j \in Visited(spec.Address) : j <= i) =>
            /\ spec.Address \in DOMAIN AcctMap /\ Holds(spec, AcctMap[spec.Address])
            /\ DetailsHold(spec, Details[spec.Address])

\* The block hashes are those of a step that has set all its accounts.
HashesSaid == last.op = "setState" /\ pos > Len(step.Accounts) => Blockhashes = step.BlockHashes

\* StepTakesEffect, in these terms.
LEMMA EffectIsSaid ==
    StepTakesEffect <=> (InStep => (\A i \in 1..(pos - 1) : Said(i)) /\ HashesSaid)
  BY DEF StepTakesEffect, Said, Holds, DetailsHold, HashesSaid

\* The accounts a step has come to: one more after SetAccount.
LEMMA VisitedNext ==
    ASSUME IInv, SetAccount, NEW a
    PROVE  /\ pos \in Nat /\ pos' = pos + 1
           /\ Visited(a)' = Visited(a) \union (IF step.Accounts[pos].Address = a THEN {pos} ELSE {})
<1>1. pos \in Nat \ {0} /\ pos' = pos + 1 /\ step' = step
  BY DEF IInv, TypeOK, SetAccount
<1>2. 1..(pos' - 1) = 1..(pos - 1) \union {pos}
  BY <1>1
<1> QED BY <1>1, <1>2 DEF Visited

\* The account just set is as it should, and what was said of others still holds.
LEMMA SetAccountSaid ==
    ASSUME IInv, SetAccount, \A i \in 1..(pos - 1) : Said(i)
    PROVE  (\A i \in 1..(pos - 1) : Said(i))'
<1> DEFINE spec == step.Accounts[pos]
<1>1. pos \in Nat \ {0} /\ pos' = pos + 1 /\ step' = step
  BY DEF IInv, TypeOK, SetAccount
<1>2. /\ DOMAIN AcctMap' = DOMAIN AcctMap \union {spec.Address}
      /\ \A b \in DOMAIN AcctMap \ {spec.Address} : AcctMap'[b] = AcctMap[b]
      /\ Holds(spec, AcctMap'[spec.Address])
  BY SetAccountSays
<1>6. /\ \A b \in DOMAIN AcctMap \ {spec.Address} : Details'[b] = Details[b]
      /\ DetailsHold(spec, Details'[spec.Address])
  BY SetAccountDetailsSay
<1> SUFFICES ASSUME NEW i \in 1..(pos' - 1) PROVE Said(i)'
  OBVIOUS
<1>3. i \in 1..(pos - 1) \/ i = pos
  BY <1>1
<1>4. CASE i = pos
  <2>1. step'.Accounts[i] = spec
    BY <1>1, <1>4
  <2> HIDE DEF spec
  <2>2. /\ spec.Address \in DOMAIN AcctMap' /\ Holds(spec, AcctMap'[spec.Address])
        /\ DetailsHold(spec, Details'[spec.Address])
    BY <1>2, <1>6
  <2> QED BY <2>1, <2>2 DEF Said, Holds, DetailsHold
<1>5. CASE i \in 1..(pos - 1)
  <2> DEFINE other == step.Accounts[i]
  <2>1. step'.Accounts[i] = other
    BY <1>1
  <2>2. Visited(other.Address)' =
            Visited(other.Address) \union (IF spec.Address = other.Address THEN {pos} ELSE {})
    BY VisitedNext, <1>1 DEF Visited
  <2>3. Said(i)
    BY <1>5
  <2> HIDE DEF spec
  <2> SUFFICES ASSUME \A j \in Visited(other.Address)' : j <= i
               PROVE  /\ other.Address \in DOMAIN AcctMap' /\ Holds(other, AcctMap'[other.Address])
                      /\ DetailsHold(other, Details'[other.Address])
    BY <2>1 DEF Said, Holds, DetailsHold, Visited
  <2>4. spec.Address # other.Address
    BY <1>1, <1>5, <2>2
  <2>5. /\ other.Address \in DOMAIN AcctMap /\ Holds(other, AcctMap[other.Address])
        /\ DetailsHold(other, Details[other.Address])
    BY <2>2, <2>3 DEF Said
  <2> HIDE DEF other
  <2> QED BY <1>2, <1>6, <2>4, <2>5
<1> QED BY <1>3, <1>4, <1>5

\* Every step keeps what was said.
LEMMA NextEffect == IInv /\ StepTakesEffect /\ [Next]_vars => StepTakesEffect'
<1> SUFFICES ASSUME IInv, StepTakesEffect, [Next]_vars PROVE StepTakesEffect'
  OBVIOUS
<1>1. CASE BeginSetState
  <2>1. pos' = 1 /\ last'.op = "none"
    BY <1>1 DEF BeginSetState
  <2> QED BY <2>1 DEF StepTakesEffect
<1>2. CASE SetAccount
  <2>1. InStep
    BY <1>2 DEF InStep, SetAccount
  <2>2. \A i \in 1..(pos - 1) : Said(i)
    BY <2>1, EffectIsSaid
  <2>3. (\A i \in 1..(pos - 1) : Said(i))'
    BY <1>2, <2>2, SetAccountSaid
  <2>4. last'.op = "none"
    BY <1>2 DEF SetAccount, IInv
  <2>5. (\A i \in 1..(pos - 1) : Said(i))' => StepTakesEffect'
    BY <2>4 DEF StepTakesEffect, Said, Holds, DetailsHold, Visited, InStep
  <2> QED BY <2>3, <2>5
<1>3. CASE SetAccountFails
  <2>1. pos <= Len(step.Accounts) /\ InStep /\ UNCHANGED <<AcctMap, Details, pos, step>>
    BY <1>3 DEF SetAccountFails, StopAtAccount, InStep
  <2>2. Len(step.Accounts) \in Nat /\ pos \in Nat
    BY StepForm DEF IInv, TypeOK, IsSetStateStep
  <2> QED BY <2>1, <2>2 DEF StepTakesEffect, Visited
<1>4. CASE SetBlockInfo
  <2>1. /\ InStep /\ UNCHANGED <<AcctMap, Details, pos, step>> /\ Blockhashes' = step'.BlockHashes
    BY <1>4 DEF SetBlockInfo, InStep
  <2> QED BY <2>1 DEF StepTakesEffect, Visited
<1>5. CASE Deploy \/ Upgrade \/ Call
  <2>1. pos' = 0
    BY <1>5 DEF Deploy, Upgrade, Call, NoSetState
  <2>2. last'.op # "setState"
    <3>1. CASE Call
      BY <3>1 DEF Call
    <3> QED BY <1>5, <3>1, DeployWorld, UpgradeWorld
  <2> QED BY <2>1, <2>2 DEF StepTakesEffect
<1>6. CASE UNCHANGED vars
  BY <1>6 DEF vars, worldInfo, StepTakesEffect, InStep, Visited
<1> QED BY <1>1, <1>2, <1>3, <1>4, <1>5, <1>6 DEF Next

\* What a setState step says of nonce, balance, code, storage and asyncCallData of
\* an account, and of code metadata and developer reward unless it is an update,
\* holds as soon as the step has come to the account and until it comes to it
\* again, in steps that succeed and in steps that fail at a later account; a step
\* that is through with its accounts has replaced the block hashes.
THEOREM EffectHolds == Spec => []StepTakesEffect
<1>1. Init => StepTakesEffect
  BY DEF Init, StepTakesEffect
<1> QED BY <1>1, NextEffect, Invariance, PTL DEF Spec

----------------------------------------------------------------------------
(* Nothing else is changed *)

\* An account the step has not come to is as it was.
KeptAccount(addr) ==
    Visited(addr) = {} =>
        /\ addr \in DOMAIN AcctMap <=> addr \in DOMAIN before.AcctMap
        /\ addr \in DOMAIN AcctMap => /\ AcctMap[addr] = before.AcctMap[addr]
                                      /\ Details[addr] = before.Details[addr]

Silent(addr, field) == \A i \in Visited(addr) : step.Accounts[i][field] = Unspecified

\* An account the step has only updated has what no update mentions, and its code
\* metadata and developer reward whatever they mention.
KeptFields(addr) ==
    Visited(addr) # {} /\ (\A i \in Visited(addr) : step.Accounts[i].Update) =>
        /\ \A field \in {"Nonce", "Balance", "Code"} : Silent(addr, field) => Same(addr, field)
        /\ \A k \in Key :
              (\A i \in Visited(addr) : k \notin DOMAIN step.Accounts[i].Storage)
              => AcctMap[addr].Storage[k] = before.AcctMap[addr].Storage[k]
        /\ SameDetails(before.Details[addr], Details[addr])

\* An account the step has come to is there.
Reached(addr) == Visited(addr) # {} => addr \in DOMAIN AcctMap

\* Block info and mocks are as they were, unless the step got as far.
KeptInfo ==
    /\ pos <= Len(step.Accounts) \/ step.PreviousBlockInfo = NoInfo
          => PreviousBlockInfo = before.Previous
    /\ pos <= Len(step.Accounts) \/ step.CurrentBlockInfo = NoInfo
          => CurrentBlockInfo = before.Current
    /\ pos <= Len(step.Accounts) => Blockhashes = before.Hashes
    /\ (last.op = "setState" /\ ~last.ok) => NewAddressMocks = before.Mocks

\* StepChangesNothingElse, in these terms.
LEMMA ChangesIsKept ==
    StepChangesNothingElse <=>
        (InStep => (\A addr \in Addr : KeptAccount(addr) /\ KeptFields(addr)) /\ KeptInfo)
  BY DEF StepChangesNothingElse, KeptAccount, KeptFields, KeptInfo, Silent, SameDetails

\* The same of the next state.
LEMMA KeptIsChanges ==
    ASSUME \A addr \in Addr : KeptAccount(addr)' /\ KeptFields(addr)', KeptInfo'
    PROVE  StepChangesNothingElse'
  BY DEF StepChangesNothingElse, KeptAccount, KeptFields, KeptInfo, Silent, Same, Visited, SameDetails

\* The invariant: mocks come last, after everything that can fail.
KeptInv ==
    /\ StepChangesNothingElse
    /\ pc = "accounts" =>
          /\ \A addr \in Addr : Reached(addr)
          /\ NewAddressMocks = before.Mocks
          /\ PreviousBlockInfo = before.Previous
          /\ CurrentBlockInfo = before.Current
          /\ Blockhashes = before.Hashes

\* Setting an account keeps every other one, and of its own what is not mentioned.
LEMMA SetAccountKept ==
    ASSUME IInv, SetAccount, NEW addr \in Addr,
           KeptAccount(addr), KeptFields(addr), Reached(addr)
    PROVE  KeptAccount(addr)' /\ KeptFields(addr)'
<1> DEFINE spec == step.Accounts[pos]
           visited == Visited(addr)
<1>1. pos \in Nat \ {0} /\ pos' = pos + 1 /\ step' = step /\ before' = before
  BY DEF IInv, TypeOK, SetAccount
<1>2. /\ DOMAIN AcctMap' = DOMAIN AcctMap \union {spec.Address}
      /\ \A b \in DOMAIN AcctMap \ {spec.Address} : AcctMap'[b] = AcctMap[b]
      /\ spec.Update => /\ spec.Address \in DOMAIN AcctMap
                        /\ Leaves(spec, AcctMap[spec.Address], AcctMap'[spec.Address])
  BY SetAccountSays
<1>6. /\ \A b \in DOMAIN AcctMap \ {spec.Address} : Details'[b] = Details[b]
      /\ spec.Update => SameDetails(Details[spec.Address], Details'[spec.Address])
  BY SetAccountDetailsSay
<1>3. Visited(addr)' = visited \union (IF spec.Address = addr THEN {pos} ELSE {})
  BY VisitedNext
<1>4. CASE spec.Address # addr
  <2>1. Visited(addr)' = Visited(addr)
    BY <1>3, <1>4
  <2>2. /\ addr \in DOMAIN AcctMap' <=> addr \in DOMAIN AcctMap
        /\ addr \in DOMAIN AcctMap => AcctMap'[addr] = AcctMap[addr] /\ Details'[addr] = Details[addr]
    BY <1>2, <1>4, <1>6
  <2>3. KeptAccount(addr)'
    BY <1>1, <2>1, <2>2 DEF KeptAccount
  <2>4. \A field : Silent(addr, field)' <=> Silent(addr, field)
    BY <1>1, <2>1 DEF Silent
  <2>5. \A field : Same(addr, field) => Same(addr, field)'
    BY <1>1, <2>2 DEF Same
  <2>6. SUFFICES ASSUME Visited(addr) # {}, \A i \in Visited(addr) : step.Accounts[i].Update
                 PROVE  /\ \A field \in {"Nonce", "Balance", "Code"} :
                              Silent(addr, field)' => Same(addr, field)'
                        /\ \A k \in Key :
                              (\A i \in Visited(addr) : k \notin DOMAIN step.Accounts[i].Storage)
                              => AcctMap'[addr].Storage[k] = before.AcctMap[addr].Storage[k]
                        /\ SameDetails(before.Details[addr], Details'[addr])
    BY <1>1, <2>1, <2>3 DEF KeptFields, SameDetails
  <2>7. addr \in DOMAIN AcctMap
    BY <2>6 DEF Reached
  <2> QED BY <2>2, <2>4, <2>5, <2>6, <2>7 DEF KeptFields
<1>5. CASE spec.Address = addr
  <2>1. Visited(addr)' = visited \union {pos}
    BY <1>3, <1>5
  <2>2. KeptAccount(addr)'
    BY <2>1 DEF KeptAccount
  <2> SUFFICES ASSUME (\A i \in Visited(addr) : step.Accounts[i].Update)'
               PROVE  /\ \A field \in {"Nonce", "Balance", "Code"} :
                            Silent(addr, field)' => Same(addr, field)'
                      /\ \A k \in Key :
                            (\A i \in Visited(addr) : k \notin DOMAIN step.Accounts[i].Storage)'
                            => AcctMap'[addr].Storage[k] = before'.AcctMap[addr].Storage[k]
                      /\ SameDetails(before.Details[addr], Details'[addr])
    BY <1>1, <2>2 DEF KeptFields, SameDetails
  <2>3. spec.Update /\ \A i \in visited : step.Accounts[i].Update
    BY <1>1, <2>1
  <2>4. addr \in DOMAIN AcctMap /\ addr \in DOMAIN AcctMap'
        /\ Leaves(spec, AcctMap[addr], AcctMap'[addr]) /\ SameDetails(Details[addr], Details'[addr])
    BY <1>2, <1>5, <1>6, <2>3
  <2>5. CASE visited = {}
    <3>1. addr \in DOMAIN before.AcctMap /\ AcctMap[addr] = before.AcctMap[addr]
          /\ Details[addr] = before.Details[addr]
      BY <2>4, <2>5 DEF KeptAccount
    <3>2. \A field : Silent(addr, field)' => spec[field] = Unspecified
      BY <1>1, <2>1 DEF Silent
    <3> HIDE DEF spec, visited
    <3> QED BY <1>1, <2>1, <2>4, <3>1, <3>2 DEF Same, Leaves, spec
  <2>6. CASE visited # {}
    <3>1. \A field \in {"Nonce", "Balance", "Code"} : Silent(addr, field) => Same(addr, field)
      BY <2>3, <2>6 DEF KeptFields
    <3>2. \A k \in Key :
              (\A i \in visited : k \notin DOMAIN step.Accounts[i].Storage)
              => AcctMap[addr].Storage[k] = before.AcctMap[addr].Storage[k]
      BY <2>3, <2>6 DEF KeptFields
    <3>3. \A field : Silent(addr, field)' => Silent(addr, field) /\ spec[field] = Unspecified
      BY <1>1, <2>1 DEF Silent
    <3>4. \A field \in {"Nonce", "Balance", "Code"} : Silent(addr, field)' => Same(addr, field)'
      <4> HIDE DEF spec
      <4> QED BY <1>1, <2>4, <3>1, <3>3 DEF Same, Leaves
    <3>5. ASSUME NEW k \in Key,
                 (\A i \in Visited(addr) : k \notin DOMAIN step.Accounts[i].Storage)'
          PROVE  AcctMap'[addr].Storage[k] = before'.AcctMap[addr].Storage[k]
      <4>1. k \notin DOMAIN spec.Storage /\ \A i \in visited : k \notin DOMAIN step.Accounts[i].Storage
        BY <1>1, <2>1, <3>5
      <4> HIDE DEF spec, visited
      <4> QED BY <1>1, <2>4, <3>2, <4>1 DEF Leaves
    <3>6. SameDetails(before.Details[addr], Details[addr])
      BY <2>3, <2>6 DEF KeptFields
    <3>7. SameDetails(before.Details[addr], Details'[addr])
      BY <2>4, <3>6 DEF SameDetails
    <3> QED BY <3>4, <3>5, <3>7
  <2> QED BY <2>5, <2>6
<1> QED BY <1>4, <1>5

\* What SetAccount has come to is there.
LEMMA SetAccountReached ==
    ASSUME IInv, SetAccount, \A addr \in Addr : Reached(addr)
    PROVE  (\A addr \in Addr : Reached(addr))'
<1> SUFFICES ASSUME NEW addr \in Addr PROVE Reached(addr)'
  OBVIOUS
<1>1. Visited(addr)' =
          Visited(addr) \union (IF step.Accounts[pos].Address = addr THEN {pos} ELSE {})
  BY VisitedNext
<1>2. DOMAIN AcctMap' = DOMAIN AcctMap \union {step.Accounts[pos].Address}
  BY SetAccountSays
<1> QED BY <1>1, <1>2 DEF Reached

\* Every step keeps what a setState step does not mention.
LEMMA NextKept == IInv /\ KeptInv /\ [Next]_vars => KeptInv'
<1> SUFFICES ASSUME IInv, KeptInv, [Next]_vars PROVE KeptInv'
  OBVIOUS
<1>1. CASE BeginSetState
  <2>1. /\ pos' = 1 /\ last'.op = "none" /\ UNCHANGED <<AcctMap, Details, worldInfo>>
        /\ before' = [AcctMap |-> AcctMap, Details |-> Details, Previous |-> PreviousBlockInfo,
                      Current |-> CurrentBlockInfo, Hashes |-> Blockhashes, Mocks |-> NewAddressMocks]
    BY <1>1 DEF BeginSetState, WorldNow
  <2>2. \A addr : Visited(addr)' = {}
    BY <2>1 DEF Visited
  <2>3. \A addr : KeptAccount(addr)' /\ KeptFields(addr)'
    BY <2>1, <2>2 DEF KeptAccount, KeptFields
  <2>4. KeptInfo'
    BY <2>1 DEF KeptInfo, worldInfo
  <2>5. StepChangesNothingElse'
    BY <2>3, <2>4, KeptIsChanges
  <2> QED BY <2>1, <2>2, <2>5 DEF KeptInv, Reached, worldInfo
<1>2. CASE SetAccount
  <2>1. InStep /\ pc = "accounts"
    BY <1>2 DEF InStep, SetAccount
  <2>2. \A addr \in Addr : KeptAccount(addr)' /\ KeptFields(addr)'
    BY <1>2, <2>1, ChangesIsKept, SetAccountKept DEF KeptInv
  <2>3. UNCHANGED <<PreviousBlockInfo, CurrentBlockInfo, Blockhashes, NewAddressMocks, last, before, pc>>
    BY <1>2 DEF SetAccount, worldInfo
  <2>4. KeptInfo'
    BY <2>1, <2>3 DEF KeptInv, KeptInfo
  <2>5. StepChangesNothingElse'
    BY <2>2, <2>4, KeptIsChanges
  <2> QED BY <1>2, <2>1, <2>3, <2>5, SetAccountReached DEF KeptInv
<1>3. CASE SetAccountFails
  <2>1. /\ InStep /\ pc = "accounts" /\ pc' = "idle"
        /\ UNCHANGED <<AcctMap, Details, step, pos, PreviousBlockInfo, CurrentBlockInfo, Blockhashes,
                       NewAddressMocks, before>>
    BY <1>3 DEF InStep, SetAccountFails, StopAtAccount, worldInfo
  <2>2. \A addr \in Addr : KeptAccount(addr)' /\ KeptFields(addr)'
    BY <2>1, ChangesIsKept DEF KeptInv, KeptAccount, KeptFields, Silent, Same, Visited
  <2>3. KeptInfo'
    BY <2>1 DEF KeptInv, KeptInfo
  <2>4. StepChangesNothingElse'
    BY <2>2, <2>3, KeptIsChanges
  <2> QED BY <2>1, <2>4 DEF KeptInv
<1>4. CASE SetBlockInfo
  <2>1. /\ InStep /\ pc = "accounts" /\ pc' = "idle" /\ pos > Len(step.Accounts)
        /\ UNCHANGED <<AcctMap, Details, step, pos, before>>
        /\ PreviousBlockInfo' = convertBlockInfo(step.PreviousBlockInfo, PreviousBlockInfo)
        /\ CurrentBlockInfo' = convertBlockInfo(step.CurrentBlockInfo, CurrentBlockInfo)
        /\ last'.ok \/ NewAddressMocks' = NewAddressMocks
    BY <1>4 DEF InStep, SetBlockInfo
  <2>2. \A addr \in Addr : KeptAccount(addr)' /\ KeptFields(addr)'
    BY <2>1, ChangesIsKept DEF KeptInv, KeptAccount, KeptFields, Silent, Same, Visited
  <2>3. Len(step.Accounts) \in Nat /\ pos \in Nat
    BY StepForm DEF IInv, TypeOK, IsSetStateStep
  <2>4. KeptInfo'
    BY <2>1, <2>3 DEF KeptInv, KeptInfo, convertBlockInfo
  <2>5. StepChangesNothingElse'
    BY <2>2, <2>4, KeptIsChanges
  <2> QED BY <2>1, <2>5 DEF KeptInv
<1>5. CASE Deploy \/ Upgrade \/ Call
  <2>1. pc' = "idle" /\ last'.op # "setState"
    <3>1. pc = "idle" /\ pc' = "idle"
      BY <1>5 DEF Deploy, Upgrade, Call, NoSetState
    <3>2. CASE Deploy
      BY <3>1, <3>2, DeployWorld
    <3>3. CASE Upgrade
      BY <3>1, <3>3, UpgradeWorld
    <3>4. CASE Call
      BY <3>1, <3>4 DEF Call
    <3> QED BY <1>5, <3>1, <3>2, <3>3, <3>4
  <2> QED BY <2>1 DEF KeptInv, StepChangesNothingElse, InStep
<1>6. CASE UNCHANGED vars
  BY <1>6 DEF vars, worldInfo, KeptInv, StepChangesNothingElse, InStep, Visited, Same, Reached
<1> QED BY <1>1, <1>2, <1>3, <1>4, <1>5, <1>6 DEF Next

\* A setState step, also one that fails half way, leaves what it does not mention
\* as it was, for any number of accounts, in any order and named any number of
\* times, apart from the asyncCallData of updates and the block hashes; and updates
\* leave code metadata and developer reward whatever they mention.
THEOREM NothingElseChanges == Spec => []StepChangesNothingElse
<1>1. Init => KeptInv
  BY DEF Init, KeptInv, StepChangesNothingElse, InStep
<1>2. KeptInv => StepChangesNothingElse
  BY DEF KeptInv
<1> QED BY <1>1, <1>2, NextKept, Invariance, PTL DEF Spec

----------------------------------------------------------------------------
(* Deployments *)

\* The accounts and the mocks that steps of the scenario mention.
SetByStep(spec) == \E s \in SetStateStep : \E i \in DOMAIN s.Accounts : spec = s.Accounts[i]
MockOfStep(m) == \E s \in SetStateStep : \E i \in DOMAIN s.NewAddressMocks : m = s.NewAddressMocks[i]

\* The address a deployment of c at nonce n may get: the generated one, or one
\* that is mocked for it.
Gives(c, n, x) ==
    \/ x = GenerateMockAddress(c, n)
    \/ \E m \in NewAddressMock : /\ MockOfStep(m) /\ x = m.NewAddress
                                 /\ m.CreatorAddress = c /\ m.CreatorNonce = n

Deployable == 0..(MaxNonce - 1)

\* The nonces of deployments fit into the byte that addresses keep of them, and
\* creators differ in the bytes that addresses keep.
AddressesDiffer ==
    /\ MaxNonce <= ByteSize
    /\ \A c, d \in Creator : Trunk[c] = Trunk[d] => c = d

\* No address is mocked for two deployments, and none is one that is generated.
MocksDiffer ==
    \A m \in NewAddressMock : MockOfStep(m) =>
        /\ \A c \in Creator, n \in Deployable : m.NewAddress # GenerateMockAddress(c, n)
        /\ \A o \in NewAddressMock : MockOfStep(o) /\ o.NewAddress = m.NewAddress =>
               o.CreatorAddress = m.CreatorAddress /\ o.CreatorNonce = m.CreatorNonce

\* No step, and not the first world, puts a contract where one may be deployed,
\* and steps leave the nonces of creators alone.
LeftToDeployments ==
    /\ \A c \in Creator, n \in Deployable, x \in Addr : Gives(c, n, x) =>
           /\ x \in DOMAIN Genesis => Genesis[x].Code = NoCode
           /\ \A spec : SetByStep(spec) /\ spec.Address = x => spec.Code \in {Unspecified, NoCode}
    /\ \A spec : SetByStep(spec) /\ spec.Address \in Creator => spec.Update /\ spec.Nonce = Unspecified

DeploymentsFit == AddressesDiffer /\ MocksDiffer /\ LeftToDeployments

\* The addresses of deployments that are still to come have no code.
Free ==
    \A c \in Creator, n \in Deployable, x \in Addr :
        Gives(c, n, x) /\ n >= AcctMap[c].Nonce /\ x \in DOMAIN AcctMap => AcctMap[x].Code = NoCode

MocksKnown == \A i \in DOMAIN NewAddressMocks : MockOfStep(NewAddressMocks[i])

AInv == IInv /\ Free /\ MocksKnown /\ NewAddressIsNew

----------------------------------------------------------------------------
(* Addresses *)

\* Different deployments may not get the same address.
LEMMA GivesApart ==
    ASSUME AddressesDiffer, MocksDiffer, NEW c \in Creator, NEW d \in Creator,
           NEW n \in Deployable, NEW k \in Deployable, NEW x, Gives(c, n, x), Gives(d, k, x)
    PROVE  c = d /\ n = k
<1>1. ASSUME NEW l \in Deployable PROVE l % ByteSize = l
  <2>1. l \in Nat /\ ByteSize \in Nat /\ l < ByteSize
    BY WidthAssumption, BoundAssumption DEF Deployable, AddressesDiffer
  <2> QED BY <2>1
<1>2. CASE x = GenerateMockAddress(c, n) /\ x = GenerateMockAddress(d, k)
  <2>1. <<Trunk[c], n>> = <<Trunk[d], k>>
    BY <1>1, <1>2 DEF GenerateMockAddress
  <2>2. Trunk[c] = Trunk[d] /\ n = k
    BY <2>1
  <2> QED BY <2>2 DEF AddressesDiffer
<1>3. CASE ~(x = GenerateMockAddress(c, n) /\ x = GenerateMockAddress(d, k))
  BY <1>3 DEF Gives, MocksDiffer
<1> QED BY <1>2, <1>3

\* A deployment gets one of the addresses it may get.
LEMMA NewAddressGives ==
    ASSUME NewAddressMocks \in Seq(NewAddressMock), MocksKnown, NEW c \in Creator, NEW n \in Nat
    PROVE  Gives(c, n, NewAddress(c, n))
<1> DEFINE matching == {i \in DOMAIN NewAddressMocks :
                          /\ NewAddressMocks[i].CreatorAddress = c
                          /\ NewAddressMocks[i].CreatorNonce = n}
           least == CHOOSE i \in matching : \A j \in matching : i <= j
<1>1. NewAddress(c, n) = IF matching = {} THEN GenerateMockAddress(c, n)
                         ELSE NewAddressMocks[least].NewAddress
  BY DEF NewAddress
<1>2. matching \in SUBSET Nat
  OBVIOUS
<1>3. \A i \in matching : Gives(c, n, NewAddressMocks[i].NewAddress)
  <2> TAKE i \in matching
  <2>1. NewAddressMocks[i] \in NewAddressMock /\ MockOfStep(NewAddressMocks[i])
    BY DEF MocksKnown
  <2> QED BY <2>1 DEF Gives
<1> HIDE DEF matching
<1>4. matching # {} => \E i \in matching : \A j \in matching : i <= j
  BY <1>2, LeastIndex
<1>5. matching # {} => least \in matching
  BY <1>4
<1> QED BY <1>1, <1>3, <1>5 DEF Gives

\* An output account never takes a nonce back, and changes code only to its own.
LEMMA OutputSays ==
    ASSUME NEW acct \in Account, NEW oa, IsOutputAccount(oa, Key)
    PROVE  LET new == UpdateAccountFromOutputAccount(acct, oa)
           IN  /\ new.Nonce \in Nat /\ new.Nonce >= acct.Nonce /\ new.Nonce >= oa.Nonce
               /\ oa.Code = NoCode => new.Code = acct.Code
<1> DEFINE b == acct.Balance + oa.BalanceDelta
           n == IF oa.Nonce > acct.Nonce THEN oa.Nonce ELSE acct.Nonce
           st == [k \in Key |-> IF k \in DOMAIN oa.StorageUpdates
                                THEN oa.StorageUpdates[k] ELSE acct.Storage[k]]
           updated == [acct EXCEPT !.Balance = b, !.Nonce = n, !.Storage = st]
<1>1. UpdateAccountFromOutputAccount(acct, oa) =
          IF oa.Code = NoCode THEN updated ELSE SetCodeAndMetadata(updated, oa.Code)
  BY DEF UpdateAccountFromOutputAccount, Account
<1>2. n \in Nat /\ n >= acct.Nonce /\ n >= oa.Nonce
  BY DEF IsOutputAccount, Account
<1> HIDE DEF b, n, st
<1>3. updated.Nonce = n /\ updated.Code = acct.Code
  BY DEF Account
<1>4. SetCodeAndMetadata(updated, oa.Code).Nonce = n
  BY DEF SetCodeAndMetadata, Account
<1> HIDE DEF updated
<1> QED BY <1>1, <1>2, <1>3, <1>4

\* What a transaction leaves of accounts that are there.
LEMMA OutputsSay ==
    ASSUME NEW am, IsAccountMap(am), NEW D \in SUBSET Addr, NEW oas,
           oas = [a \in D |-> oas[a]], \A a \in D : IsOutputAccount(oas[a], Key)
    PROVE  LET new == UpdateAccounts(am, oas, {})
           IN  /\ DOMAIN new = DOMAIN am \union D
               /\ \A a \in DOMAIN am :
                     /\ new[a].Nonce \in Nat /\ new[a].Nonce >= am[a].Nonce
                     /\ a \in D => new[a].Nonce >= oas[a].Nonce
                     /\ a \notin D \/ oas[a].Code = NoCode => new[a].Code = am[a].Code
<1> DEFINE new == UpdateAccounts(am, oas, {})
<1>1. DOMAIN new = DOMAIN am \union D
  BY UpdateAccountsHash
<1>2. \A a \in DOMAIN am :
         new[a] = IF a \in D THEN UpdateAccountFromOutputAccount(am[a], oas[a]) ELSE am[a]
  BY DEF UpdateAccounts
<1> HIDE DEF new
<1>3. ASSUME NEW a \in DOMAIN am
      PROVE  /\ new[a].Nonce \in Nat /\ new[a].Nonce >= am[a].Nonce
             /\ a \in D => new[a].Nonce >= oas[a].Nonce
             /\ a \notin D \/ oas[a].Code = NoCode => new[a].Code = am[a].Code
  <2>1. am[a] \in Account
    BY AccountMapEntry
  <2>2. CASE a \in D
    BY <1>2, <2>1, <2>2, OutputSays
  <2>3. CASE a \notin D
    <3>1. am[a].Nonce \in Nat
      BY <2>1 DEF Account
    <3> QED BY <1>2, <2>3, <3>1
  <2> QED BY <2>2, <2>3
<1> QED BY <1>1, <1>3 DEF new

----------------------------------------------------------------------------
(* The invariant *)

\* The first world has no contract where one may be deployed.
LEMMA InitAddresses == DeploymentsFit /\ Init => AInv
<1> SUFFICES ASSUME DeploymentsFit, Init PROVE AInv
  OBVIOUS
<1>1. IInv
  BY InitIInv
<1>2. Free
  BY DEF Free, Init, DeploymentsFit, LeftToDeployments
<1>3. MocksKnown /\ NewAddressIsNew
  BY DEF MocksKnown, NewAddressIsNew, Init
<1> QED BY <1>1, <1>2, <1>3 DEF AInv

\* The account a step is at is one that steps mention.
LEMMA AccountMentioned ==
    ASSUME IInv, pc = "accounts", pos <= Len(step.Accounts)
    PROVE  SetByStep(step.Accounts[pos])
<1>1. IsSetStateStep(step) /\ step \in SetStateStep \union {NoStep}
  BY StepForm DEF IInv, TypeOK
<1>2. pos \in DOMAIN step.Accounts
  BY <1>1 DEF IInv, TypeOK, IsSetStateStep
<1>3. step # NoStep
  BY <1>2 DEF NoStep
<1> QED BY <1>1, <1>2, <1>3 DEF SetByStep

\* Setting an account gives no code to the address of a deployment.
LEMMA SetAccountFree ==
    ASSUME DeploymentsFit, AInv, SetAccount
    PROVE  Free'
<1> DEFINE spec == step.Accounts[pos]
           addr == spec.Address
           acct == IF spec.Update THEN UpdateAccount(AcctMap[addr], spec) ELSE convertAccount(spec)
<1>1. IInv /\ IsAccountMap(AcctMap)
  BY DEF AInv, IInv, TypeOK
<1>2. SetByStep(spec) /\ IsAccountSpec(spec)
  BY <1>1, AccountMentioned, AccountForm DEF SetAccount
<1>3. /\ addr \in Addr /\ acct \in Account /\ AcctMap' = PutAccount(AcctMap, addr, acct)
      /\ spec.Update => addr \in DOMAIN AcctMap
  BY <1>1, SetAccountWorld
<1> HIDE DEF acct
<1>4. /\ DOMAIN AcctMap' = DOMAIN AcctMap \union {addr}
      /\ \A b \in DOMAIN AcctMap \ {addr} : AcctMap'[b] = AcctMap[b]
      /\ AcctMap'[addr].Nonce = acct.Nonce /\ AcctMap'[addr].Code = acct.Code
  <2> HIDE DEF addr, spec
  <2>1. /\ DOMAIN PutAccount(AcctMap, addr, acct) = DOMAIN AcctMap \union {addr}
        /\ \A b \in DOMAIN AcctMap \ {addr} : PutAccount(AcctMap, addr, acct)[b] = AcctMap[b]
    BY <1>1, <1>3, PutAccountType
  <2>2. LET put == PutAccount(AcctMap, addr, acct)[addr]
        IN  put.Nonce = acct.Nonce /\ put.Code = acct.Code
    BY <1>3, PutSays
  <2> QED BY <1>3, <2>1, <2>2
<1>5. spec.Update => AcctMap[addr] \in Account
  BY <1>1, <1>3, AccountMapEntry
<1>6. spec.Update => acct.Nonce = OrElse(spec.Nonce, AcctMap[addr].Nonce)
                     /\ acct.Code = OrElse(spec.Code, AcctMap[addr].Code)
  BY <1>2, <1>5, UpdateSays DEF acct
<1>7. ~spec.Update => acct.Code = OrElse(spec.Code, NoCode)
  BY DEF acct, convertAccount
<1> HIDE DEF addr, spec
<1>8. ASSUME NEW c \in Creator PROVE AcctMap'[c].Nonce = AcctMap[c].Nonce
  <2>1. c \in DOMAIN AcctMap
    BY <1>1 DEF IInv
  <2>2. CASE c = addr
    <3>1. spec.Update /\ spec.Nonce = Unspecified
      BY <1>2, <2>2 DEF DeploymentsFit, LeftToDeployments, addr
    <3> QED BY <1>4, <1>6, <2>2, <3>1 DEF OrElse
  <2> QED BY <1>4, <2>1, <2>2
<1> SUFFICES ASSUME NEW c \in Creator, NEW n \in Deployable, NEW x \in Addr,
                    Gives(c, n, x), n >= AcctMap'[c].Nonce, x \in DOMAIN AcctMap'
             PROVE  AcctMap'[x].Code = NoCode
  BY DEF Free, Gives
<1>9. x \in DOMAIN AcctMap => AcctMap[x].Code = NoCode
  BY <1>8 DEF AInv, Free
<1>10. CASE x = addr
  <2>1. spec.Code \in {Unspecified, NoCode}
    BY <1>2, <1>10 DEF DeploymentsFit, LeftToDeployments, addr
  <2> QED BY <1>3, <1>4, <1>6, <1>7, <1>9, <1>10, <2>1 DEF OrElse
<1> QED BY <1>4, <1>9, <1>10

\* A deployment gets an address without code, and leaves those of later ones so.
LEMMA DeployFree ==
    ASSUME DeploymentsFit, AInv, Deploy
    PROVE  Free' /\ NewAddressIsNew'
<1>1. IInv /\ IsAccountMap(AcctMap) /\ NewAddressMocks \in Seq(NewAddressMock)
  BY DEF AInv, IInv, TypeOK
<1>2. PICK c \in Creator, code \in Code :
        LET n == AcctMap[c].Nonce
            addr == NewAddress(c, n)
        IN  /\ n < MaxNonce
            /\ AcctMap' = UpdateAccounts(AcctMap,
                             [a \in {c, addr} |-> IF a = c THEN Output(n + 1, NoCode)
                                                  ELSE Output(0, code)], {})
            /\ last' = [op |-> "deploy", addr |-> addr,
                        fresh |-> addr \notin DOMAIN AcctMap \/ AcctMap[addr].Code = NoCode]
  BY DEF Deploy
<1> DEFINE n == AcctMap[c].Nonce
           addr == NewAddress(c, n)
           D == {c, addr}
           oas == [a \in D |-> IF a = c THEN Output(n + 1, NoCode) ELSE Output(0, code)]
<1>3. c \in DOMAIN AcctMap /\ c \in Addr /\ n \in Nat
  BY <1>1, AccountMapEntry DEF IInv, Account
<1>4. n \in Deployable /\ addr \in Addr /\ Gives(c, n, addr)
  <2>1. n \in Deployable
    BY <1>2, <1>3, BoundAssumption DEF Deployable
  <2> QED BY <1>1, <1>3, <2>1, NewAddressType, NewAddressGives DEF AInv
<1>5. addr \in DOMAIN AcctMap => AcctMap[addr].Code = NoCode
  BY <1>3, <1>4 DEF AInv, Free
<1>6. NewAddressIsNew'
  BY <1>2, <1>5 DEF NewAddressIsNew
<1>7. \A a \in D : IsOutputAccount(oas[a], Key)
  BY <1>3, OutputType
<1>8. /\ oas = [a \in D |-> oas[a]] /\ D \in SUBSET Addr
      /\ AcctMap' = UpdateAccounts(AcctMap, oas, {})
      /\ oas[c].Nonce = n + 1 /\ oas[c].Code = NoCode
  BY <1>2, <1>3, <1>4 DEF Output
<1> HIDE DEF addr, oas, n
<1>9. /\ DOMAIN AcctMap' = DOMAIN AcctMap \union D
      /\ \A a \in DOMAIN AcctMap :
            /\ AcctMap'[a].Nonce \in Nat /\ AcctMap'[a].Nonce >= AcctMap[a].Nonce
            /\ a \in D => AcctMap'[a].Nonce >= oas[a].Nonce
            /\ a \notin D \/ oas[a].Code = NoCode => AcctMap'[a].Code = AcctMap[a].Code
  BY <1>1, <1>7, <1>8, OutputsSay
<1>10. ASSUME NEW d \in Creator, NEW k \in Deployable, NEW x \in Addr,
              Gives(d, k, x), k >= AcctMap'[d].Nonce, x \in DOMAIN AcctMap'
       PROVE  AcctMap'[x].Code = NoCode
  <2>1. d \in DOMAIN AcctMap /\ AcctMap[d].Nonce \in Nat /\ k \in Nat
    BY <1>1, AccountMapEntry, BoundAssumption DEF IInv, Account, Deployable
  <2>2. k >= AcctMap[d].Nonce
    BY <1>9, <1>10, <2>1
  <2>3. d = c => k # n
    BY <1>3, <1>8, <1>9, <1>10, <2>1
  <2>4. x # addr
    BY <1>4, <1>10, <2>3, GivesApart DEF DeploymentsFit
  <2>5. x \in DOMAIN AcctMap
    BY <1>3, <1>9, <1>10, <2>4
  <2>6. AcctMap[x].Code = NoCode
    BY <1>10, <2>2, <2>5 DEF AInv, Free
  <2>7. x \notin D \/ oas[x].Code = NoCode
    BY <1>8, <2>4
  <2> QED BY <1>9, <2>5, <2>6, <2>7
<1>11. Free'
  BY <1>10 DEF Free, Gives
<1> QED BY <1>6, <1>11

\* An upgrade changes code where there is some, and no nonce.
LEMMA UpgradeFree ==
    ASSUME AInv, Upgrade
    PROVE  Free'
<1>1. IInv /\ IsAccountMap(AcctMap)
  BY DEF AInv, IInv, TypeOK
<1>2. PICK addr \in DOMAIN AcctMap, code \in Code :
        /\ AcctMap[addr].Code # NoCode
        /\ AcctMap' = UpdateAccounts(AcctMap, [a \in {addr} |-> Output(0, code)], {})
  BY Zenon DEF Upgrade
<1> DEFINE D == {addr}
           oas == [a \in D |-> Output(0, code)]
<1>3. D \in SUBSET Addr
  BY <1>1, AccountMapEntry
<1>4. oas = [a \in D |-> oas[a]] /\ \A a \in D : IsOutputAccount(oas[a], Key)
  BY OutputType
<1>5. AcctMap' = UpdateAccounts(AcctMap, oas, {})
  BY <1>2
<1> HIDE DEF oas
<1>6. /\ DOMAIN AcctMap' = DOMAIN AcctMap \union D
      /\ \A a \in DOMAIN AcctMap :
            /\ AcctMap'[a].Nonce \in Nat /\ AcctMap'[a].Nonce >= AcctMap[a].Nonce
            /\ a \notin D => AcctMap'[a].Code = AcctMap[a].Code
  BY <1>1, <1>3, <1>4, <1>5, OutputsSay
<1>7. ASSUME NEW d \in Creator, NEW k \in Deployable, NEW x \in Addr,
             Gives(d, k, x), k >= AcctMap'[d].Nonce, x \in DOMAIN AcctMap'
      PROVE  AcctMap'[x].Code = NoCode
  <2>1. d \in DOMAIN AcctMap /\ AcctMap[d].Nonce \in Nat /\ k \in Nat
    BY <1>1, AccountMapEntry, BoundAssumption DEF IInv, Account, Deployable
  <2>2. k >= AcctMap[d].Nonce
    BY <1>6, <1>7, <2>1
  <2>3. x \in DOMAIN AcctMap
    BY <1>6, <1>7
  <2>4. AcctMap[x].Code = NoCode
    BY <1>7, <2>2, <2>3 DEF AInv, Free
  <2> QED BY <1>2, <1>6, <2>3, <2>4
<1> QED BY <1>7 DEF Free, Gives

\* The mocks of the world are mocks of steps.
LEMMA MocksStayKnown ==
    ASSUME AInv, [Next]_vars
    PROVE  MocksKnown'
<1>1. CASE UNCHANGED NewAddressMocks
  BY <1>1 DEF AInv, MocksKnown, MockOfStep
<1>2. CASE SetBlockInfo
  <2>1. IsSetStateStep(step) /\ step \in SetStateStep \union {NoStep}
    BY StepForm DEF AInv, IInv, TypeOK
  <2>2. \A i \in DOMAIN step.NewAddressMocks : MockOfStep(step.NewAddressMocks[i])
    BY <2>1 DEF MockOfStep, NoStep
  <2>3. /\ NewAddressMocks \in Seq(NewAddressMock) /\ step.NewAddressMocks \in Seq(NewAddressMock)
    BY <2>1 DEF AInv, IInv, TypeOK, IsSetStateStep
  <2>4. NewAddressMocks' \in {NewAddressMocks, NewAddressMocks \o step.NewAddressMocks}
    BY <1>2 DEF SetBlockInfo
  <2>5. ASSUME NEW i \in DOMAIN (NewAddressMocks \o step.NewAddressMocks)
        PROVE  \/ /\ i \in DOMAIN NewAddressMocks
                  /\ (NewAddressMocks \o step.NewAddressMocks)[i] = NewAddressMocks[i]
               \/ \E j \in DOMAIN step.NewAddressMocks :
                     (NewAddressMocks \o step.NewAddressMocks)[i] = step.NewAddressMocks[j]
    <3>1. i \in 1..(Len(NewAddressMocks) + Len(step.NewAddressMocks))
      BY <2>3
    <3>2. CASE i <= Len(NewAddressMocks)
      BY <2>3, <3>1, <3>2
    <3>3. CASE i > Len(NewAddressMocks)
      <4>1. i - Len(NewAddressMocks) \in DOMAIN step.NewAddressMocks
        BY <2>3, <3>1, <3>3
      <4>2. (NewAddressMocks \o step.NewAddressMocks)[i] = step.NewAddressMocks[i - Len(NewAddressMocks)]
        BY <2>3, <3>1, <3>3
      <4> QED BY <4>1, <4>2
    <3>4. i \in Int /\ Len(NewAddressMocks) \in Int
      BY <2>3, <3>1
    <3> QED BY <3>2, <3>3, <3>4
  <2>6. \A i \in DOMAIN (NewAddressMocks \o step.NewAddressMocks) :
           MockOfStep((NewAddressMocks \o step.NewAddressMocks)[i])
    BY <2>2, <2>5 DEF AInv, MocksKnown
  <2>7. \A i \in DOMAIN NewAddressMocks' : MockOfStep(NewAddressMocks'[i])
    BY <2>4, <2>6 DEF AInv, MocksKnown
  <2> QED BY <2>7 DEF MocksKnown, MockOfStep
<1>3. CASE ~SetBlockInfo
  <2>1. UNCHANGED NewAddressMocks
    BY <1>3 DEF Next, vars, worldInfo, BeginSetState, SetAccount, SetAccountFails, Deploy, Upgrade, Call
  <2> QED BY <2>1, <1>1
<1> QED BY <1>2, <1>3

\* Every step keeps the invariant.
LEMMA NextAddresses == DeploymentsFit /\ AInv /\ IInv' /\ [Next]_vars => AInv'
<1> SUFFICES ASSUME DeploymentsFit, AInv, IInv', [Next]_vars PROVE AInv'
  OBVIOUS
<1>1. MocksKnown'
  BY MocksStayKnown
<1>2. UNCHANGED AcctMap => Free'
  BY DEF AInv, Free, Gives
<1>3. UNCHANGED last \/ last'.op # "deploy" => NewAddressIsNew'
  BY DEF AInv, NewAddressIsNew
<1>4. CASE SetAccount
  BY <1>1, <1>3, <1>4, SetAccountFree DEF AInv, SetAccount
<1>5. CASE Deploy
  BY <1>1, <1>5, DeployFree DEF AInv
<1>6. CASE Upgrade
  <2>1. last'.op # "deploy"
    BY <1>6 DEF Upgrade
  <2> QED BY <1>1, <1>3, <1>6, <2>1, UpgradeFree DEF AInv
<1>7. CASE BeginSetState \/ SetAccountFails \/ SetBlockInfo \/ Call
  <2>1. UNCHANGED AcctMap /\ last'.op # "deploy"
    BY <1>7 DEF BeginSetState, SetAccountFails, StopAtAccount, SetBlockInfo, Call
  <2> QED BY <1>1, <1>2, <1>3, <2>1 DEF AInv
<1>8. CASE UNCHANGED vars
  BY <1>1, <1>2, <1>3, <1>8 DEF AInv, vars
<1> QED BY <1>4, <1>5, <1>6, <1>7, <1>8 DEF Next

\* NewAddressIsNew: no deployment replaces a contract that is there, if the nonces
\* of deployments fit into a byte, creators differ where addresses keep them, and
\* steps neither mock an address twice, nor put contracts where one may be
\* deployed, nor change the nonce of a creator.
THEOREM AddressesAreNew == DeploymentsFit /\ Spec => []NewAddressIsNew
<1> SUFFICES ASSUME DeploymentsFit PROVE Spec => []NewAddressIsNew
  OBVIOUS
<1>1. Init => AInv
  BY InitAddresses
<1>2. IInv /\ [Next]_vars => IInv'
  BY NextIInv
<1>3. AInv /\ IInv' /\ [Next]_vars => AInv'
  BY NextAddresses
<1>4. AInv => NewAddressIsNew /\ IInv
  BY DEF AInv
<1> QED BY <1>1, <1>2, <1>3, <1>4, PTL DEF Spec
=============================================================================

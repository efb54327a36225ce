------------------------- MODULE TxExecution_proofs -------------------------
(***************************************************************************)
(* Machine-checked proofs about TxExecution and TxAtomicity, for every     *)
(* value of their constants: type correctness, the journal discipline      *)
(* between the executor, the VM and the builtin functions, that a failed   *)
(* transaction is rolled back, that none leaves a negative balance or      *)
(* takes a nonce back, and that a successful one moves EGLD and makes or   *)
(* burns none.  Then, where a rollback is complete: a running transaction  *)
(* can be undone until nothing can fail any more; hence no token is made   *)
(* or lost, and executeTx implements AtomicLedger.                         *)
(***************************************************************************)
EXTENDS TxAtomicity, Sums_proofs

----------------------------------------------------------------------------
(* The operators of MockWorld turn account maps into account maps *)

\* Every address an account map has is a known one, and has an account.
LEMMA AccountMapEntry ==
    ASSUME NEW am, IsAccountMap(am), NEW a \in DOMAIN am
    PROVE  a \in Addr /\ am[a] \in Account
  BY DEF IsAccountMap

\* EmptyAccount, what CreateAccount makes, is an account.
LEMMA EmptyAccountType == EmptyAccount \in Account
  BY DEF EmptyAccount, Account, NoHash, CodeHashes

\* Storing an account under a known address keeps the type.
LEMMA PutEntryType ==
    ASSUME NEW am, IsAccountMap(am), NEW a \in Addr, NEW account \in Account
    PROVE  /\ IsAccountMap(PutEntry(am, a, account))
           /\ DOMAIN PutEntry(am, a, account) = DOMAIN am \union {a}
  BY DEF IsAccountMap, PutEntry

\* ensureAccountExists only adds: every account there was is unchanged.
LEMMA EnsureType ==
    ASSUME NEW am, IsAccountMap(am), NEW a \in Addr
    PROVE  /\ IsAccountMap(ensureAccountExists(am, a))
           /\ DOMAIN ensureAccountExists(am, a) = DOMAIN am \union {a}
           /\ \A b \in DOMAIN am : ensureAccountExists(am, a)[b] = am[b]
<1>1. CASE a \in DOMAIN am
  BY <1>1 DEF ensureAccountExists
<1>2. CASE a \notin DOMAIN am
  <2>1. ensureAccountExists(am, a) = PutEntry(am, a, EmptyAccount)
    BY <1>2 DEF ensureAccountExists, CreateAccount, PutAccount, EmptyAccount
  <2>2. \A b \in DOMAIN am : PutEntry(am, a, EmptyAccount)[b] = am[b]
    BY <1>2 DEF PutEntry
  <2> QED BY <2>1, <2>2, EmptyAccountType, PutEntryType
<1> QED BY <1>1, <1>2

\* A storage write keeps the type and the domain.
LEMMA WriteStorageType ==
    ASSUME NEW am, IsAccountMap(am), NEW a \in DOMAIN am, NEW k \in Key, NEW v \in Nat
    PROVE  /\ IsAccountMap(WriteStorage(am, a, k, v))
           /\ DOMAIN WriteStorage(am, a, k, v) = DOMAIN am
  BY DEF IsAccountMap, WriteStorage, Account

\* A balance update keeps the type and the domain.
LEMMA UpdateBalanceType ==
    ASSUME NEW am, IsAccountMap(am), NEW a, NEW d \in Int
    PROVE  /\ IsAccountMap(UpdateBalanceWithDelta(am, a, d))
           /\ DOMAIN UpdateBalanceWithDelta(am, a, d) = DOMAIN am
  BY DEF IsAccountMap, UpdateBalanceWithDelta, Account

\* Restoring from another account map keeps the type and the domain.
LEMMA LoadType ==
    ASSUME NEW am, IsAccountMap(am), NEW other, IsAccountMap(other),
           NEW visited \in SUBSET (DOMAIN am \intersect DOMAIN other)
    PROVE  /\ IsAccountMap(LoadAccountStorageFrom(am, other, visited))
           /\ DOMAIN LoadAccountStorageFrom(am, other, visited) = DOMAIN am
  BY DEF IsAccountMap, LoadAccountStorageFrom, Account

\* An output account turns an account into an account.
LEMMA OutputAccountType ==
    ASSUME NEW acct \in Account, NEW oa, IsOutputAccount(oa, Key)
    PROVE  UpdateAccountFromOutputAccount(acct, oa) \in Account
<1> DEFINE updated == [acct EXCEPT
            !.Balance = @ + oa.BalanceDelta,
            !.Nonce   = IF oa.Nonce > @ THEN oa.Nonce ELSE @,
            !.Storage = [k \in Key |-> IF k \in DOMAIN oa.StorageUpdates
                                       THEN oa.StorageUpdates[k] ELSE @[k]]]
<1>1. [k \in Key |-> IF k \in DOMAIN oa.StorageUpdates
                     THEN oa.StorageUpdates[k] ELSE acct.Storage[k]] \in [Key -> Nat]
  BY DEF IsOutputAccount, Account
<1>2. updated \in Account
  <2>1. acct.Balance + oa.BalanceDelta \in Int
    BY DEF IsOutputAccount, Account
  <2>2. (IF oa.Nonce > acct.Nonce THEN oa.Nonce ELSE acct.Nonce) \in Nat
    BY DEF IsOutputAccount, Account
  <2>3. ASSUME NEW b \in Int, NEW n \in Nat, NEW st \in [Key -> Nat]
        PROVE  [acct EXCEPT !.Balance = b, !.Nonce = n, !.Storage = st] \in Account
    BY DEF Account
  <2> QED BY <1>1, <2>1, <2>2, <2>3
<1>3. oa.Code # NoCode => SetCodeAndMetadata(updated, oa.Code) \in Account
  BY <1>2 DEF IsOutputAccount, SetCodeAndMetadata, Account, CodeHashes
<1> QED BY <1>2, <1>3 DEF UpdateAccountFromOutputAccount

----------------------------------------------------------------------------
(* What executeTx does with the account map preserves its type *)

\* Charging nonce and gas keeps the type and the domain.
LEMMA ChargeType ==
    ASSUME NEW am, IsAccountMap(am), NEW a \in DOMAIN am, NEW g \in Nat
    PROVE  /\ IsAccountMap(IncNonce(am, a)) /\ DOMAIN IncNonce(am, a) = DOMAIN am
           /\ IsAccountMap(UpdateWorldStateBefore(am, a, g))
           /\ DOMAIN UpdateWorldStateBefore(am, a, g) = DOMAIN am
<1>1. IsAccountMap(IncNonce(am, a)) /\ DOMAIN IncNonce(am, a) = DOMAIN am
  BY DEF IsAccountMap, IncNonce, Account
<1>2. IncNonce(am, a)[a] \in Account
  BY <1>1 DEF IsAccountMap
<1>3. ASSUME NEW acct \in Account PROVE [acct EXCEPT !.Balance = @ - g] \in Account
  <2>1. acct.Balance - g \in Int BY DEF Account
  <2> QED BY <2>1 DEF Account
<1>4. UpdateWorldStateBefore(am, a, g) =
          [IncNonce(am, a) EXCEPT ![a] = [IncNonce(am, a)[a] EXCEPT !.Balance = @ - g]]
  BY DEF UpdateWorldStateBefore
<1>5. [IncNonce(am, a)[a] EXCEPT !.Balance = @ - g] \in Account
  BY <1>2, <1>3
<1>6. ASSUME NEW m, IsAccountMap(m), DOMAIN m = DOMAIN am, NEW acct \in Account
      PROVE  IsAccountMap([m EXCEPT ![a] = acct]) /\ DOMAIN [m EXCEPT ![a] = acct] = DOMAIN am
  BY <1>6 DEF IsAccountMap
<1> DEFINE charged == [IncNonce(am, a)[a] EXCEPT !.Balance = @ - g]
<1>7. charged \in Account BY <1>5
<1>8. UpdateWorldStateBefore(am, a, g) = [IncNonce(am, a) EXCEPT ![a] = charged] BY <1>4
<1> HIDE DEF charged
<1>9. /\ IsAccountMap([IncNonce(am, a) EXCEPT ![a] = charged])
      /\ DOMAIN [IncNonce(am, a) EXCEPT ![a] = charged] = DOMAIN am
  BY <1>1, <1>6, <1>7
<1> QED BY <1>1, <1>8, <1>9

\* UpdateAccounts yields an account map.
LEMMA UpdateAccountsType ==
    ASSUME NEW am, IsAccountMap(am), NEW out, IsOutput(out, Addr, Key)
    PROVE  IsAccountMap(UpdateAccounts(am, out.OutputAccounts, out.DeletedAccounts))
  BY EmptyAccountType, OutputAccountType DEF IsAccountMap, UpdateAccounts, IsOutput

----------------------------------------------------------------------------
(* The journal: snapshots and the marks into it *)

AccountMaps == UNION {[D -> Account] : D \in SUBSET Addr}

Marks == [id : Nat, world : AccountMaps]

\* The set of account maps, and the predicate TLC can evaluate.
LEMMA AccountMapsSet == \A am : am \in AccountMaps <=> IsAccountMap(am)
  BY DEF AccountMaps, IsAccountMap

\* A mark has an index and a world.
LEMMA MarkType ==
    ASSUME NEW ms \in Seq(Marks)
    PROVE  \A i \in 1..Len(ms) : ms[i].id \in Nat /\ ms[i].world \in AccountMaps
<1>1. \A i \in 1..Len(ms) : ms[i] \in Marks
  OBVIOUS
<1> QED BY <1>1 DEF Marks

\* Each mark names its world in the journal, later marks higher up.
MarksHold(ms, snapshots) ==
    /\ \A i \in 1..Len(ms) : /\ ms[i].id < Len(snapshots)
                             /\ snapshots[ms[i].id + 1] = ms[i].world
    /\ \A i, j \in 1..Len(ms) : i < j => ms[i].id < ms[j].id

\* SaveKeyValue's backup, appended, moves no mark.
LEMMA AppendKeepsMarks ==
    ASSUME NEW ms \in Seq(Marks), NEW sn \in Seq(AccountMaps), NEW am \in AccountMaps,
           MarksHold(ms, sn)
    PROVE  MarksHold(ms, SnapshotState(sn, am)) /\ SnapshotState(sn, am) \in Seq(AccountMaps)
<1>1. Len(Append(sn, am)) = Len(sn) + 1 /\ Append(sn, am) \in Seq(AccountMaps)
  OBVIOUS
<1>2. \A k \in 1..Len(sn) : Append(sn, am)[k] = sn[k]
  OBVIOUS
<1>3. \A i \in 1..Len(ms) : ms[i].id \in Nat
  BY MarkType
<1>4. \A i \in 1..Len(ms) : ms[i].id + 1 \in 1..Len(sn)
  BY <1>3 DEF MarksHold
<1> QED BY <1>1, <1>2, <1>3, <1>4 DEF MarksHold, SnapshotState

\* GetSnapshot returns the index of the snapshot it has just appended, above
\* every index given out before.
LEMMA TakeKeepsMarks ==
    ASSUME NEW ms \in Seq(Marks), NEW sn \in Seq(AccountMaps), NEW am \in AccountMaps,
           MarksHold(ms, sn)
    PROVE  LET sn2 == SnapshotState(sn, am)
               ms2 == Append(ms, [id |-> JournalLen(sn2), world |-> am])
           IN
           /\ MarksHold(ms2, sn2) /\ sn2 \in Seq(AccountMaps) /\ ms2 \in Seq(Marks)
           /\ ms2 # <<>> /\ (ms = <<>> => ms2[1].id = Len(sn)) /\ (ms # <<>> => ms2[1] = ms[1])
<1> DEFINE sn2 == SnapshotState(sn, am)
<1> DEFINE ms2 == Append(ms, [id |-> JournalLen(sn2), world |-> am])
<1>1. sn2 \in Seq(AccountMaps) /\ Len(sn2) = Len(sn) + 1 /\ sn2[Len(sn) + 1] = am
  BY DEF SnapshotState
<1>2. MarksHold(ms, sn2)
  BY AppendKeepsMarks
<1> DEFINE m == [id |-> Len(sn), world |-> am]
<1>3. m \in Marks /\ m.id = Len(sn) /\ m.world = am
  BY DEF Marks
<1>4. ms2 = Append(ms, m)
  BY <1>1 DEF JournalLen
<1> HIDE DEF m, sn2, ms2
<1>5. ms2 \in Seq(Marks) /\ Len(ms2) = Len(ms) + 1 /\ ms2[Len(ms) + 1] = m
  BY <1>3, <1>4
<1>6. \A i \in 1..Len(ms) : ms2[i] = ms[i] /\ ms[i].id \in Nat
  BY <1>3, <1>4, MarkType
<1>7. \A i \in 1..Len(ms) : ms[i].id < Len(sn)
  BY DEF MarksHold
<1>8. \A i \in 1..Len(ms2) : i \in 1..Len(ms) \/ i = Len(ms) + 1
  BY <1>5
<1>9. \A i \in 1..Len(ms2) : ms2[i].id < Len(sn2) /\ sn2[ms2[i].id + 1] = ms2[i].world
  BY <1>1, <1>2, <1>3, <1>5, <1>6, <1>8 DEF MarksHold
<1>10. ASSUME NEW i \in 1..Len(ms2), NEW j \in 1..Len(ms2), i < j
       PROVE  ms2[i].id < ms2[j].id
  <2>1. i \in 1..Len(ms)
    BY <1>5, <1>8, <1>10
  <2>2. CASE j \in 1..Len(ms)
    BY <1>2, <1>6, <1>10, <2>1, <2>2 DEF MarksHold
  <2>3. CASE j = Len(ms) + 1
    BY <1>3, <1>5, <1>6, <1>7, <2>1, <2>3
  <2> QED BY <1>8, <2>2, <2>3
<1>11. MarksHold(ms2, sn2)
  BY <1>9, <1>10 DEF MarksHold
<1>12. ms = <<>> => ms2[1].id = Len(sn)
  BY <1>3, <1>5
<1>13. ms # <<>> => ms2[1] = ms[1]
  <2>1. ms # <<>> => 1 \in 1..Len(ms)
    OBVIOUS
  <2> QED BY <1>6, <2>1
<1>14. ms2 # <<>>
  BY <1>5
<1> QED BY <1>1, <1>5, <1>11, <1>12, <1>13, <1>14 DEF sn2, ms2

\* Reverting to the last mark truncates the journal below it and keeps all the
\* other marks.
LEMMA RevertKeepsMarks ==
    ASSUME NEW ms \in Seq(Marks), NEW sn \in Seq(AccountMaps), MarksHold(ms, sn),
           Len(ms) > 1
    PROVE  /\ MarksHold(Pop(ms), SubSeq(sn, 1, ms[Len(ms)].id))
           /\ SubSeq(sn, 1, ms[Len(ms)].id) \in Seq(AccountMaps)
           /\ MarksHold(Pop(ms), sn) /\ Pop(ms) \in Seq(Marks)
           /\ Len(Pop(ms)) >= 1 /\ Pop(ms)[1] = ms[1]
<1> DEFINE n == Len(ms)
<1> DEFINE idx == ms[n].id
<1> DEFINE cut == SubSeq(sn, 1, idx)
<1>1. n \in Nat /\ n > 1 /\ idx \in Nat /\ idx < Len(sn) /\ Len(sn) \in Nat
  BY MarkType DEF MarksHold
<1>2. cut \in Seq(AccountMaps) /\ Len(cut) = idx /\ \A k \in 1..idx : cut[k] = sn[k]
  BY <1>1
<1>3. Pop(ms) \in Seq(Marks) /\ Len(Pop(ms)) = n - 1 /\ \A k \in 1..(n - 1) : Pop(ms)[k] = ms[k]
  BY <1>1 DEF Pop
<1>4. \A i \in 1..(n - 1) : i \in 1..n /\ ms[i].id \in Nat /\ ms[i].id < idx
  BY <1>1, MarkType DEF MarksHold
<1>5. MarksHold(Pop(ms), sn)
  BY <1>1, <1>3 DEF MarksHold
<1> HIDE DEF n, idx, cut
<1>6. MarksHold(Pop(ms), cut)
  <2>1. \A i \in 1..(n - 1) : Pop(ms)[i].id < Len(cut)
    BY <1>2, <1>3, <1>4
  <2>2. \A i \in 1..(n - 1) : cut[Pop(ms)[i].id + 1] = sn[Pop(ms)[i].id + 1]
    BY <1>1, <1>2, <1>3, <1>4
  <2> QED BY <1>3, <1>5, <2>1, <2>2 DEF MarksHold
<1> QED BY <1>1, <1>2, <1>3, <1>5, <1>6 DEF n, idx, cut

----------------------------------------------------------------------------
(* The inductive invariant *)

Pcs == {"idle", "dispatch", "builtin", "vm", "vmfault", "output", "deferred"}

TypeInv ==
    /\ AcctMap \in AccountMaps
    /\ Snapshots \in Seq(AccountMaps)
    /\ marks \in Seq(Marks)
    /\ pc \in Pcs
    /\ tx \in Transaction \union {NoTx}
    /\ err \in BOOLEAN
    /\ output.Ok \in BOOLEAN /\ IsOutput(output, Addr, Key)
    /\ result \in {"none", "ok", "retcode", "error"}
    /\ pending \in Seq(Nat)

\* The deferred function is the only one to see err; the accounts a step is
\* about to touch exist.
ControlInv ==
    /\ pc # "idle" => tx \in Transaction
    /\ pc # "deferred" => err = FALSE
    /\ pc = "dispatch" /\ HasSender(tx) => tx.From \in DOMAIN AcctMap
    /\ pc = "builtin" => tx.From \in DOMAIN AcctMap /\ tx.To \in DOMAIN AcctMap

JournalInv ==
    /\ pc = "idle" => Snapshots = <<>> /\ marks = <<>>
    /\ pc # "idle" => marks # <<>> /\ marks[1].id = 0
    /\ MarksHold(marks, Snapshots)

\* Until an output is applied no account disappears.
SnapshotsWithin ==
    (pc \notin {"idle", "deferred"} \/ err = TRUE) =>
        \A i \in 1..Len(Snapshots) : DOMAIN Snapshots[i] \subseteq DOMAIN AcctMap

IInv == TypeInv /\ ControlInv /\ JournalInv /\ SnapshotsWithin

\* A step inside a transaction that leaves the world, the journal and the marks
\* alone keeps what is said about them.
LEMMA QuietStep ==
    ASSUME IInv, pc \notin {"idle", "deferred"}, pc' # "idle",
           UNCHANGED <<AcctMap, Snapshots, marks>>
    PROVE  JournalInv' /\ SnapshotsWithin'
  BY DEF IInv, JournalInv, SnapshotsWithin, MarksHold

\* The initial state satisfies the invariant.
LEMMA InitIInv == Init => IInv
<1> SUFFICES ASSUME Init PROVE IInv
  OBVIOUS
<1>1. AcctMap \in AccountMaps
  BY AccountMapsSet, GenesisAssumption DEF Init
<1>2. output.Ok \in BOOLEAN /\ IsOutput(output, Addr, Key)
  BY DEF Init, NoOutput, IsOutput
<1>3. Snapshots = <<>> /\ marks = <<>> /\ pending = <<>>
  BY DEF Init
<1>4. Snapshots \in Seq(AccountMaps) /\ marks \in Seq(Marks) /\ pending \in Seq(Nat)
  BY <1>3
<1>5. pc \in Pcs /\ err \in BOOLEAN /\ tx \in Transaction \union {NoTx} /\ result = "none"
  BY DEF Init, Pcs
<1>6. TypeInv
  BY <1>1, <1>2, <1>4, <1>5 DEF TypeInv
<1> QED BY <1>3, <1>6 DEF Init, IInv, ControlInv, JournalInv, SnapshotsWithin, MarksHold

\* Starting a transaction: one snapshot, one mark, both of the charged world.
LEMMA BeginStep ==
    ASSUME IInv, NEW t \in Tx, BeginTx(t)
    PROVE  IInv'
<1>1. t \in Transaction
  BY TxAssumption
<1>2. AcctMap' \in AccountMaps /\ DOMAIN AcctMap' = DOMAIN AcctMap
  <2>1. CASE HasSender(t) /\ AcctMap' = UpdateWorldStateBefore(AcctMap, t.From, t.GasPayment)
                          /\ t.From \in DOMAIN AcctMap
    <3>1. t.GasPayment \in Nat BY <1>1 DEF Transaction
    <3>2. IsAccountMap(AcctMap) BY AccountMapsSet DEF IInv, TypeInv
    <3> QED BY <2>1, <3>1, <3>2, ChargeType, AccountMapsSet
  <2>2. CASE UNCHANGED AcctMap
    BY <2>2 DEF IInv, TypeInv
  <2> QED BY <2>1, <2>2 DEF BeginTx
<1>3. pc = "idle" /\ Snapshots = <<>> /\ marks = <<>>
  BY DEF BeginTx, IInv, JournalInv
<1>4. /\ MarksHold(marks', Snapshots') /\ Snapshots' \in Seq(AccountMaps)
      /\ marks' \in Seq(Marks) /\ marks' # <<>> /\ marks'[1].id = 0
  <2>1. MarksHold(marks, Snapshots) /\ marks \in Seq(Marks) /\ Snapshots \in Seq(AccountMaps)
    BY DEF IInv, JournalInv, TypeInv
  <2>2. /\ Snapshots' = SnapshotState(Snapshots, AcctMap')
        /\ marks' = Append(marks, [id |-> JournalLen(Snapshots'), world |-> AcctMap'])
    BY DEF BeginTx, TakeMark
  <2>3. AcctMap' \in AccountMaps
    BY <1>2
  <2>4. /\ MarksHold(marks', Snapshots') /\ Snapshots' \in Seq(AccountMaps)
        /\ marks' \in Seq(Marks) /\ marks' # <<>>
        /\ (marks = <<>> => marks'[1].id = Len(Snapshots))
    BY <2>1, <2>2, <2>3, TakeKeepsMarks
  <2> QED BY <1>3, <2>4
<1>5. TypeInv'
  BY <1>1, <1>2, <1>4 DEF IInv, TypeInv, BeginTx, Pcs
<1>6. ControlInv'
  BY <1>1, <1>2 DEF ControlInv, BeginTx
<1>7. \A i \in 1..Len(Snapshots') : Snapshots'[i] = AcctMap'
  BY <1>3 DEF BeginTx, TakeMark, SnapshotState
<1>8. SnapshotsWithin'
  BY <1>7 DEF SnapshotsWithin
<1>9. JournalInv'
  BY <1>4 DEF JournalInv, BeginTx
<1> QED BY <1>5, <1>6, <1>8, <1>9 DEF IInv

\* A refused transaction moves at most a nonce.
LEMMA RejectStep ==
    ASSUME IInv, NEW t \in Tx, RejectTx(t)
    PROVE  IInv'
<1>1. AcctMap' \in AccountMaps /\ DOMAIN AcctMap' = DOMAIN AcctMap
  <2>1. CASE t.From \in DOMAIN AcctMap /\ AcctMap' = IncNonce(AcctMap, t.From)
    <3>1. IsAccountMap(AcctMap) BY AccountMapsSet DEF IInv, TypeInv
    <3> QED BY <2>1, <3>1, ChargeType, AccountMapsSet
  <2>2. CASE UNCHANGED AcctMap
    BY <2>2 DEF IInv, TypeInv
  <2> QED BY <2>1, <2>2 DEF RejectTx
<1>2. TypeInv'
  BY <1>1 DEF IInv, TypeInv, RejectTx
<1>3. ControlInv' /\ SnapshotsWithin' /\ JournalInv'
  BY DEF IInv, ControlInv, SnapshotsWithin, JournalInv, MarksHold, RejectTx
<1> QED BY <1>2, <1>3 DEF IInv

----------------------------------------------------------------------------
(* The switch *)

MadeUp(a, v, su) ==
    [Ok |-> TRUE,
     OutputAccounts |-> [x \in {a} |-> [BalanceDelta |-> v, Nonce |-> 0, Code |-> NoCode,
                                        StorageUpdates |-> su]],
     DeletedAccounts |-> {}]

\* An output that only adds to one balance, and perhaps to one storage key.
LEMMA MadeUpOutputType ==
    ASSUME NEW a \in Addr, NEW v \in Int, NEW su,
           su \in [DOMAIN su -> Nat], DOMAIN su \subseteq Key
    PROVE  /\ MadeUp(a, v, su).Ok \in BOOLEAN
           /\ IsOutput(MadeUp(a, v, su), Addr, Key)
  BY DEF MadeUp, IsOutput, IsOutputAccount

\* The made-up outputs without accounts.
LEMMA EmptyOutputType ==
    /\ NoOutput.Ok \in BOOLEAN /\ IsOutput(NoOutput, Addr, Key)
    /\ FailedOutput.Ok \in BOOLEAN /\ IsOutput(FailedOutput, Addr, Key)
    /\ EmptyOk.Ok \in BOOLEAN /\ IsOutput(EmptyOk, Addr, Key)
  BY DEF NoOutput, FailedOutput, EmptyOk, IsOutput

\* The steps of the executor that only decide where to go next.
LEMMA DecideStep ==
    ASSUME IInv, OutOfFunds \/ DispatchDeploy \/ DispatchUnknown \/ BuiltinDone
                 \/ VMError \/ VMReturnFailed \/ TxStepFailed
    PROVE  IInv'
<1>1. pc \notin {"idle", "deferred"} /\ pc' # "idle" /\ UNCHANGED <<AcctMap, Snapshots, marks, tx, pending>>
  BY DEF OutOfFunds, DispatchDeploy, DispatchUnknown, BuiltinDone, VMError,
         VMReturnFailed, TxStepFailed, Produce, Fail
<1>2. pc' \in Pcs /\ pc' # "dispatch" /\ pc' # "builtin" /\ err' \in BOOLEAN
      /\ result' \in {"none", "ok", "retcode", "error"}
  BY DEF OutOfFunds, DispatchDeploy, DispatchUnknown, BuiltinDone, VMError,
         VMReturnFailed, TxStepFailed, Produce, Fail, IInv, TypeInv, Pcs
<1>3. output' \in {output, FailedOutput, EmptyOk}
  BY DEF OutOfFunds, DispatchDeploy, DispatchUnknown, BuiltinDone, VMError,
         VMReturnFailed, TxStepFailed, Produce, Fail
<1>4. output'.Ok \in BOOLEAN /\ IsOutput(output', Addr, Key)
  <2>1. output.Ok \in BOOLEAN /\ IsOutput(output, Addr, Key)
    BY DEF IInv, TypeInv
  <2> QED BY <1>3, <2>1, EmptyOutputType
<1>5. TypeInv'
  BY <1>1, <1>2, <1>4 DEF IInv, TypeInv
<1>6. pc' # "deferred" => err' = FALSE
  BY DEF OutOfFunds, DispatchDeploy, DispatchUnknown, BuiltinDone, VMError,
         VMReturnFailed, TxStepFailed, Produce, Fail, IInv, ControlInv
<1>7. ControlInv'
  BY <1>1, <1>2, <1>6 DEF IInv, ControlInv
<1> QED BY <1>1, <1>5, <1>7, QuietStep DEF IInv

\* A call or a query: to the builtin transfers, to the VM, or refused.
LEMMA CallStep ==
    ASSUME IInv, DispatchCall
    PROVE  IInv'
<1>1. pc = "dispatch" /\ pc' # "idle" /\ UNCHANGED <<AcctMap, Snapshots, marks, output>>
  BY DEF DispatchCall, Fail
<1>2. tx \in Transaction /\ tx.From \in Addr /\ tx.To \in Addr
  BY <1>1 DEF IInv, ControlInv, Transaction
<1>3. tx' \in Transaction /\ tx'.To = tx.To
  BY <1>2 DEF DispatchCall, Transaction
<1>4. pending' \in Seq(Nat)
  BY <1>2 DEF DispatchCall, Transaction, IInv, TypeInv
<1>5. TypeInv'
  <2>1. pc' \in Pcs /\ err' \in BOOLEAN /\ result' \in {"none", "ok", "retcode", "error"}
    BY DEF DispatchCall, Fail, IInv, TypeInv, Pcs
  <2> QED BY <1>1, <1>3, <1>4, <2>1 DEF IInv, TypeInv
<1>6. pc' = "builtin" => tx.To \in DOMAIN AcctMap
  BY DEF DispatchCall, Fail
<1>7. pc' = "builtin" => tx'.From \in DOMAIN AcctMap
  <2>1. CASE tx.Type = "ScQuery"
    BY <1>2, <1>6, <2>1 DEF DispatchCall, Transaction
  <2>2. CASE tx.Type = "ScCall"
    BY <1>1, <2>2 DEF DispatchCall, IInv, ControlInv, HasSender
  <2> QED BY <2>1, <2>2 DEF DispatchCall
<1>8. ControlInv'
  <2>1. pc' # "dispatch" /\ (pc' # "deferred" => err' = FALSE)
    BY DEF DispatchCall, Fail, IInv, ControlInv
  <2> QED BY <1>1, <1>3, <1>6, <1>7, <2>1 DEF ControlInv
<1> QED BY <1>1, <1>5, <1>8, QuietStep DEF IInv

\* A plain transfer or the start of a token transfer, whose recipient is
\* created under the executor's snapshot.
LEMMA TransferStep ==
    ASSUME IInv, DispatchTransfer
    PROVE  IInv'
<1>1. pc = "dispatch" /\ pc' # "idle" /\ UNCHANGED <<Snapshots, marks, tx, err, result>>
  BY DEF DispatchTransfer, Produce
<1>2. tx \in Transaction /\ tx.From \in Addr /\ tx.To \in Addr /\ tx.EGLDValue \in Int
      /\ tx.ESDTValue \in Seq(Nat)
  BY <1>1 DEF IInv, ControlInv, Transaction
<1>3. AcctMap' \in AccountMaps /\ DOMAIN AcctMap \subseteq DOMAIN AcctMap'
      /\ (pc' = "builtin" => tx.To \in DOMAIN AcctMap')
  <2>1. IsAccountMap(AcctMap)
    BY AccountMapsSet DEF IInv, TypeInv
  <2>2. CASE AcctMap' = ensureAccountExists(AcctMap, tx.To)
    <3>1. /\ IsAccountMap(ensureAccountExists(AcctMap, tx.To))
          /\ DOMAIN ensureAccountExists(AcctMap, tx.To) = DOMAIN AcctMap \union {tx.To}
      BY <1>2, <2>1, EnsureType
    <3>2. ensureAccountExists(AcctMap, tx.To) \in AccountMaps
      BY <3>1, AccountMapsSet
    <3> QED BY <2>2, <3>1, <3>2
  <2>3. CASE UNCHANGED AcctMap /\ (pc' = "builtin" => tx.To \in DOMAIN AcctMap)
    BY <2>1, <2>3, AccountMapsSet
  <2> QED BY <2>2, <2>3 DEF DispatchTransfer, Produce
<1>4. output'.Ok \in BOOLEAN /\ IsOutput(output', Addr, Key)
  <2>1. CASE UNCHANGED output
    BY <2>1 DEF IInv, TypeInv
  <2>2. CASE output' = MadeUp(tx.To, tx.EGLDValue, <<>>)
    <3>1. <<>> \in [DOMAIN <<>> -> Nat] /\ DOMAIN <<>> \subseteq Key
      OBVIOUS
    <3> QED BY <1>2, <2>2, <3>1, MadeUpOutputType
  <2> QED BY <2>1, <2>2 DEF DispatchTransfer, Produce, MadeUp
<1>5. pending' \in Seq(Nat) /\ pc' \in {"output", "builtin"}
  BY <1>2 DEF DispatchTransfer, Produce, IInv, TypeInv
<1>6. TypeInv'
  BY <1>1, <1>3, <1>4, <1>5 DEF IInv, TypeInv, Pcs
<1>7. HasSender(tx)
  BY DEF DispatchTransfer, HasSender
<1>8. ControlInv'
  BY <1>1, <1>3, <1>5, <1>7 DEF IInv, ControlInv
<1>9. JournalInv'
  BY <1>1, <1>5 DEF IInv, JournalInv, MarksHold
<1>10. SnapshotsWithin'
  BY <1>1, <1>3 DEF IInv, SnapshotsWithin
<1> QED BY <1>6, <1>8, <1>9, <1>10 DEF IInv

\* A transfer of nothing: the recipient exists before it fails.
LEMMA EmptyTransferStep ==
    ASSUME IInv, DispatchEmptyTransfer
    PROVE  IInv'
<1>1. pc = "dispatch" /\ pc' = "deferred" /\ err' = TRUE /\ result' = "error"
      /\ AcctMap' = ensureAccountExists(AcctMap, tx.To)
      /\ UNCHANGED <<Snapshots, marks, tx, output, pending>>
  BY DEF DispatchEmptyTransfer, Fail
<1>2. IsAccountMap(AcctMap) /\ tx.To \in Addr
  BY <1>1, AccountMapsSet DEF IInv, TypeInv, ControlInv, Transaction
<1>3. AcctMap' \in AccountMaps /\ DOMAIN AcctMap \subseteq DOMAIN AcctMap'
  BY <1>1, <1>2, EnsureType, AccountMapsSet
<1>4. TypeInv'
  BY <1>1, <1>3 DEF IInv, TypeInv, Pcs
<1>5. ControlInv'
  BY <1>1 DEF IInv, ControlInv
<1>6. JournalInv'
  BY <1>1 DEF IInv, JournalInv, MarksHold
<1>7. SnapshotsWithin'
  BY <1>1, <1>3 DEF IInv, SnapshotsWithin
<1> QED BY <1>4, <1>5, <1>6, <1>7 DEF IInv

\* A validator reward: an output made up from the recipient's account.
LEMMA RewardStep ==
    ASSUME IInv, DispatchReward
    PROVE  IInv'
<1>1. pc = "dispatch" /\ pc' \in {"output", "deferred"}
      /\ UNCHANGED <<AcctMap, Snapshots, marks, tx, pending>>
  BY DEF DispatchReward, Produce, Fail
<1>2. tx \in Transaction /\ tx.To \in Addr /\ tx.EGLDValue \in Nat
  BY <1>1 DEF IInv, ControlInv, Transaction
<1>3. output'.Ok \in BOOLEAN /\ IsOutput(output', Addr, Key)
  <2>1. CASE UNCHANGED output
    BY <2>1 DEF IInv, TypeInv
  <2> DEFINE su == [k \in {RewardKey} |-> AcctMap[tx.To].Storage[RewardKey] + tx.EGLDValue]
  <2>2. CASE tx.To \in DOMAIN AcctMap
             /\ output' = MadeUp(tx.To, tx.EGLDValue, su)
    <3>1. AcctMap[tx.To] \in Account
      BY <2>2, AccountMapsSet, AccountMapEntry DEF IInv, TypeInv
    <3>2. AcctMap[tx.To].Storage[RewardKey] \in Nat
      BY <3>1, KeyAssumption DEF Account
    <3>3. su \in [DOMAIN su -> Nat] /\ DOMAIN su \subseteq Key
      BY <1>2, <3>2, KeyAssumption
    <3> HIDE DEF su
    <3> QED BY <1>2, <2>2, <3>3, MadeUpOutputType
  <2> QED BY <2>1, <2>2 DEF DispatchReward, Produce, MadeUp
<1>4. err' \in BOOLEAN /\ result' \in {"none", "ok", "retcode", "error"}
      /\ (pc' # "deferred" => err' = FALSE)
  BY DEF DispatchReward, Produce, Fail, IInv, TypeInv, ControlInv
<1>5. TypeInv'
  BY <1>1, <1>3, <1>4 DEF IInv, TypeInv, Pcs
<1>6. ControlInv'
  BY <1>1, <1>4 DEF IInv, ControlInv
<1> QED BY <1>1, <1>5, <1>6, QuietStep DEF IInv

----------------------------------------------------------------------------
(* Writers: the builtin transfers of the executor and of the VM *)

Within(snapshots, addrs) == \A i \in 1..Len(snapshots) : DOMAIN snapshots[i] \subseteq addrs

\* A backup of a map without further addresses brings no further addresses.
LEMMA AppendWithin ==
    ASSUME NEW sn \in Seq(AccountMaps), NEW am \in AccountMaps, NEW D, NEW D2,
           Within(sn, D), D \subseteq D2, DOMAIN am \subseteq D2
    PROVE  Within(SnapshotState(sn, am), D2)
<1>1. Len(Append(sn, am)) = Len(sn) + 1 /\ Append(sn, am)[Len(sn) + 1] = am
  OBVIOUS
<1>2. \A k \in 1..Len(sn) : Append(sn, am)[k] = sn[k]
  OBVIOUS
<1>3. \A i \in 1..Len(Append(sn, am)) : i \in 1..Len(sn) \/ i = Len(sn) + 1
  BY <1>1
<1> QED BY <1>1, <1>2, <1>3 DEF Within, SnapshotState

\* A step of a running transaction that changes the world, removes no account
\* and backs up nothing, one map, or two.
LEMMA WriteStep ==
    ASSUME IInv, pc \notin {"idle", "deferred"}, pc' # "idle", UNCHANGED marks,
           AcctMap' \in AccountMaps, DOMAIN AcctMap \subseteq DOMAIN AcctMap',
           NEW m1 \in AccountMaps, NEW m2 \in AccountMaps,
           DOMAIN m1 \subseteq DOMAIN AcctMap', DOMAIN m2 \subseteq DOMAIN AcctMap',
           \/ UNCHANGED Snapshots
           \/ Snapshots' = SnapshotState(Snapshots, m1)
           \/ Snapshots' = SnapshotState(SnapshotState(Snapshots, m1), m2)
    PROVE  JournalInv' /\ SnapshotsWithin' /\ Snapshots' \in Seq(AccountMaps)
<1>1. /\ Snapshots \in Seq(AccountMaps) /\ marks \in Seq(Marks) /\ MarksHold(marks, Snapshots)
      /\ marks # <<>> /\ marks[1].id = 0
  BY DEF IInv, TypeInv, JournalInv
<1>2. Within(Snapshots, DOMAIN AcctMap)
  BY DEF IInv, SnapshotsWithin, Within
<1>3. Within(Snapshots, DOMAIN AcctMap')
  BY <1>2 DEF Within
<1> DEFINE one == SnapshotState(Snapshots, m1)
<1> DEFINE two == SnapshotState(one, m2)
<1>4. MarksHold(marks, one) /\ one \in Seq(AccountMaps) /\ Within(one, DOMAIN AcctMap')
  BY <1>1, <1>3, AppendKeepsMarks, AppendWithin
<1> HIDE DEF one
<1>5. MarksHold(marks, two) /\ two \in Seq(AccountMaps) /\ Within(two, DOMAIN AcctMap')
  BY <1>1, <1>4, AppendKeepsMarks, AppendWithin
<1> HIDE DEF two
<1>6. Snapshots' \in {Snapshots, one, two}
  BY DEF one, two
<1>7. /\ MarksHold(marks, Snapshots') /\ Snapshots' \in Seq(AccountMaps)
      /\ Within(Snapshots', DOMAIN AcctMap')
  BY <1>1, <1>3, <1>4, <1>5, <1>6
<1>8. JournalInv'
  BY <1>1, <1>7 DEF JournalInv
<1>9. SnapshotsWithin'
  BY <1>7 DEF SnapshotsWithin, Within
<1> QED BY <1>7, <1>8, <1>9

\* A transfer between accounts that exist, of no more than the sender has.
LEMMA MoveType ==
    ASSUME NEW am, IsAccountMap(am), NEW snd \in DOMAIN am, NEW rcv \in DOMAIN am,
           NEW amount \in Nat, CanDebit(am, snd, amount)
    PROVE  LET debited == Debit(am, snd, amount) IN
           /\ IsAccountMap(debited) /\ DOMAIN debited = DOMAIN am
           /\ IsAccountMap(Credit(debited, rcv, amount))
           /\ DOMAIN Credit(debited, rcv, amount) = DOMAIN am
<1> DEFINE debited == Debit(am, snd, amount)
<1>1. \A m : IsAccountMap(m) => \A a \in DOMAIN m : m[a].Storage[TokenKey] \in Nat
  BY KeyAssumption DEF IsAccountMap, Account
<1>2. am[snd].Storage[TokenKey] - amount \in Nat
  BY <1>1 DEF CanDebit
<1>3. IsAccountMap(debited) /\ DOMAIN debited = DOMAIN am
  BY <1>2, WriteStorageType, KeyAssumption DEF Debit
<1> HIDE DEF debited
<1>4. debited[rcv].Storage[TokenKey] + amount \in Nat
  BY <1>1, <1>3
<1>5. /\ IsAccountMap(Credit(debited, rcv, amount))
      /\ DOMAIN Credit(debited, rcv, amount) = DOMAIN am
  BY <1>3, <1>4, WriteStorageType, KeyAssumption DEF Credit
<1> QED BY <1>3, <1>5 DEF debited

\* One builtin transfer of the transaction.
LEMMA BuiltinMoveStep ==
    ASSUME IInv, BuiltinMove
    PROVE  IInv'
<1>1. pc = "builtin" /\ pc' = "builtin" /\ UNCHANGED <<tx, err, output, result, marks>>
  BY DEF BuiltinMove
<1>2. tx.From \in DOMAIN AcctMap /\ tx.To \in DOMAIN AcctMap /\ IsAccountMap(AcctMap)
  BY <1>1, AccountMapsSet DEF IInv, ControlInv, TypeInv
<1>3. Head(pending) \in Nat /\ Tail(pending) \in Seq(Nat)
  BY DEF BuiltinMove, IInv, TypeInv
<1> DEFINE debited == Debit(AcctMap, tx.From, Head(pending))
<1> DEFINE credited == Credit(debited, tx.To, Head(pending))
<1>4. /\ IsAccountMap(debited) /\ DOMAIN debited = DOMAIN AcctMap
      /\ IsAccountMap(credited) /\ DOMAIN credited = DOMAIN AcctMap
  BY <1>2, <1>3, MoveType DEF BuiltinMove
<1>5. /\ AcctMap' = credited
      /\ Snapshots' = SnapshotState(SnapshotState(Snapshots, debited), credited)
  BY DEF BuiltinMove, MoveTokens
<1> HIDE DEF debited, credited
<1>6. debited \in AccountMaps /\ credited \in AccountMaps
  BY <1>4, AccountMapsSet
<1>7. JournalInv' /\ SnapshotsWithin' /\ Snapshots' \in Seq(AccountMaps)
  BY <1>1, <1>4, <1>5, <1>6, WriteStep
<1>8. TypeInv'
  BY <1>1, <1>3, <1>5, <1>6, <1>7 DEF IInv, TypeInv, BuiltinMove
<1>9. ControlInv'
  BY <1>1, <1>2, <1>4, <1>5 DEF IInv, ControlInv
<1> QED BY <1>7, <1>8, <1>9 DEF IInv

\* A builtin transfer that fails, before or after its first write.
LEMMA BuiltinFailStep ==
    ASSUME IInv, BuiltinFail
    PROVE  IInv'
<1>1. pc = "builtin" /\ pc' = "deferred" /\ err' = TRUE /\ result' = "error"
      /\ UNCHANGED <<tx, output, pending, marks>>
  BY DEF BuiltinFail, Fail
<1>2. tx.From \in DOMAIN AcctMap /\ tx.To \in DOMAIN AcctMap /\ IsAccountMap(AcctMap)
      /\ AcctMap \in AccountMaps
  BY <1>1, AccountMapsSet DEF IInv, ControlInv, TypeInv
<1>3. JournalInv' /\ SnapshotsWithin' /\ Snapshots' \in Seq(AccountMaps) /\ AcctMap' \in AccountMaps
  <2>1. CASE UNCHANGED worldVars
    BY <1>1, <1>2, <2>1, WriteStep DEF worldVars
  <2>2. CASE /\ CanDebit(AcctMap, tx.From, Head(pending))
             /\ AcctMap' = Debit(AcctMap, tx.From, Head(pending))
             /\ Snapshots' = SnapshotState(Snapshots, AcctMap')
    <3>1. Head(pending) \in Nat
      BY DEF BuiltinFail, IInv, TypeInv
    <3>2. AcctMap' \in AccountMaps /\ DOMAIN AcctMap' = DOMAIN AcctMap
      BY <1>2, <2>2, <3>1, MoveType, AccountMapsSet
    <3> QED BY <1>1, <2>2, <3>2, WriteStep
  <2> QED BY <2>1, <2>2 DEF BuiltinFail
<1>4. TypeInv'
  BY <1>1, <1>3 DEF IInv, TypeInv, Pcs
<1>5. ControlInv'
  BY <1>1 DEF IInv, ControlInv
<1> QED BY <1>3, <1>4, <1>5 DEF IInv

----------------------------------------------------------------------------
(* The VM's steps *)

\* A snapshot taken for a nested call.
LEMMA GetSnapshotStep ==
    ASSUME IInv, VMGetSnapshot
    PROVE  IInv'
<1>1. pc = "vm" /\ UNCHANGED <<AcctMap, pc, tx, err, output, result, pending>>
  BY DEF VMGetSnapshot, VMRunning
<1>2. /\ Snapshots \in Seq(AccountMaps) /\ marks \in Seq(Marks) /\ MarksHold(marks, Snapshots)
      /\ marks # <<>> /\ marks[1].id = 0 /\ AcctMap \in AccountMaps
  BY <1>1 DEF IInv, TypeInv, JournalInv
<1>3. /\ Snapshots' = SnapshotState(Snapshots, AcctMap)
      /\ marks' = Append(marks, [id |-> JournalLen(Snapshots'), world |-> AcctMap])
  BY DEF VMGetSnapshot, TakeMark
<1>4. /\ MarksHold(marks', Snapshots') /\ Snapshots' \in Seq(AccountMaps)
      /\ marks' \in Seq(Marks) /\ marks' # <<>> /\ marks'[1] = marks[1]
  BY <1>2, <1>3, TakeKeepsMarks
<1>5. Within(Snapshots, DOMAIN AcctMap)
  BY <1>1 DEF IInv, SnapshotsWithin, Within
<1>6. Within(Snapshots', DOMAIN AcctMap)
  BY <1>2, <1>3, <1>5, AppendWithin
<1>7. TypeInv' /\ ControlInv'
  BY <1>1, <1>2, <1>4 DEF IInv, TypeInv, ControlInv
<1>8. JournalInv' /\ SnapshotsWithin'
  BY <1>1, <1>2, <1>4, <1>6 DEF JournalInv, SnapshotsWithin, Within
<1> QED BY <1>7, <1>8 DEF IInv

\* What RevertToSnapshot can leave of the world, whatever it visited.
LEMMA RevertedWorld ==
    ASSUME IInv, NEW idx \in Nat, RevertToSnapshot(idx)
    PROVE  /\ AcctMap' \in AccountMaps /\ DOMAIN AcctMap' = DOMAIN AcctMap
           /\ Snapshots' = SubSeq(Snapshots, 1, idx) /\ idx < Len(Snapshots)
<1>1. AcctMap \in AccountMaps /\ IsAccountMap(AcctMap) /\ Snapshots \in Seq(AccountMaps)
  BY AccountMapsSet DEF IInv, TypeInv
<1>2. idx < Len(Snapshots) /\ Snapshots' = SubSeq(Snapshots, 1, idx)
  BY DEF RevertToSnapshot
<1> DEFINE target == Snapshots[idx + 1]
<1>3. target \in AccountMaps
  BY <1>1, <1>2
<1>4. IsAccountMap(target)
  BY <1>3, AccountMapsSet
<1>5. PICK visited \in Visitable(AcctMap, target) :
          AcctMap' = LoadAccountStorageFrom(AcctMap, target, visited)
  BY DEF RevertToSnapshot
<1> HIDE DEF target
<1>6. visited \in SUBSET (DOMAIN AcctMap \intersect DOMAIN target)
  BY <1>5 DEF Visitable
<1>7. IsAccountMap(AcctMap') /\ DOMAIN AcctMap' = DOMAIN AcctMap
  BY <1>1, <1>4, <1>5, <1>6, LoadType
<1> QED BY <1>2, <1>7, AccountMapsSet

\* The VM goes back to its last snapshot.
LEMMA RevertStep ==
    ASSUME IInv, VMRevert
    PROVE  IInv'
<1> DEFINE idx == marks[Len(marks)].id
<1>1. pc \in {"vm", "vmfault"} /\ pc' = "vm" /\ UNCHANGED <<tx, err, output, result, pending>>
      /\ RevertToSnapshot(idx) /\ marks' = Pop(marks) /\ Len(marks) > 1
  BY DEF VMRevert
<1>2. /\ Snapshots \in Seq(AccountMaps) /\ marks \in Seq(Marks) /\ MarksHold(marks, Snapshots)
      /\ marks[1].id = 0
  BY <1>1 DEF IInv, TypeInv, JournalInv
<1>3. idx \in Nat
  BY <1>1, <1>2, MarkType
<1>4. /\ MarksHold(Pop(marks), SubSeq(Snapshots, 1, idx))
      /\ SubSeq(Snapshots, 1, idx) \in Seq(AccountMaps)
      /\ Pop(marks) \in Seq(Marks) /\ Len(Pop(marks)) >= 1 /\ Pop(marks)[1] = marks[1]
  BY <1>1, <1>2, RevertKeepsMarks
<1> HIDE DEF idx
<1>5. /\ AcctMap' \in AccountMaps /\ DOMAIN AcctMap' = DOMAIN AcctMap
      /\ Snapshots' = SubSeq(Snapshots, 1, idx) /\ idx < Len(Snapshots)
  BY <1>1, <1>3, RevertedWorld
<1>6. \A i \in 1..Len(Snapshots') : i \in 1..Len(Snapshots) /\ Snapshots'[i] = Snapshots[i]
  BY <1>2, <1>3, <1>5
<1>7. SnapshotsWithin'
  BY <1>1, <1>5, <1>6 DEF IInv, SnapshotsWithin
<1>8. marks' # <<>> /\ marks'[1].id = 0
  BY <1>1, <1>2, <1>4
<1>9. TypeInv'
  BY <1>1, <1>4, <1>5 DEF IInv, TypeInv, Pcs
<1>10. ControlInv' /\ JournalInv'
  BY <1>1, <1>4, <1>5, <1>8 DEF IInv, ControlInv, JournalInv
<1> QED BY <1>7, <1>9, <1>10 DEF IInv

\* The VM forgets its last snapshot.
LEMMA DiscardStep ==
    ASSUME IInv, VMDiscard
    PROVE  IInv'
<1>1. pc = "vm" /\ marks' = Pop(marks) /\ Len(marks) > 1
      /\ UNCHANGED <<AcctMap, Snapshots, pc, tx, err, output, result, pending>>
  BY DEF VMDiscard
<1>2. /\ Snapshots \in Seq(AccountMaps) /\ marks \in Seq(Marks) /\ MarksHold(marks, Snapshots)
      /\ marks[1].id = 0
  BY <1>1 DEF IInv, TypeInv, JournalInv
<1>3. /\ MarksHold(Pop(marks), Snapshots) /\ Pop(marks) \in Seq(Marks)
      /\ Len(Pop(marks)) >= 1 /\ Pop(marks)[1] = marks[1]
  BY <1>1, <1>2, RevertKeepsMarks
<1>4. marks' # <<>> /\ marks'[1].id = 0
  BY <1>1, <1>2, <1>3
<1>5. TypeInv' /\ ControlInv' /\ JournalInv' /\ SnapshotsWithin'
  BY <1>1, <1>3, <1>4 DEF IInv, TypeInv, ControlInv, JournalInv, SnapshotsWithin
<1> QED BY <1>5 DEF IInv

\* A contract sends tokens, perhaps to an address that has no account yet.
LEMMA VMTransferStep ==
    ASSUME IInv, NEW snd \in Addr, NEW rcv \in Addr, NEW amount \in VMAmounts,
           VMTransfer(snd, rcv, amount)
    PROVE  IInv'
<1> DEFINE am == ensureAccountExists(AcctMap, rcv)
<1> DEFINE debited == Debit(am, snd, amount)
<1> DEFINE credited == Credit(debited, rcv, amount)
<1>1. /\ pc = "vm" /\ pc' \in {"vm", "vmfault"} /\ snd \in DOMAIN AcctMap
      /\ UNCHANGED <<tx, err, output, result, pending, marks>>
  BY DEF VMTransfer, VMRunning, MoveTokens
<1>2. IsAccountMap(AcctMap)
  BY AccountMapsSet DEF IInv, TypeInv
<1>3. IsAccountMap(am) /\ DOMAIN am = DOMAIN AcctMap \union {rcv}
  BY <1>2, EnsureType
<1>4. \/ AcctMap' = am /\ UNCHANGED Snapshots
      \/ /\ CanDebit(am, snd, amount) /\ AcctMap' = credited
         /\ Snapshots' = SnapshotState(SnapshotState(Snapshots, debited), credited)
      \/ /\ CanDebit(am, snd, amount) /\ AcctMap' = debited
         /\ Snapshots' = SnapshotState(Snapshots, debited)
  BY DEF VMTransfer, MoveTokens
<1>5. CanDebit(am, snd, amount) =>
          /\ IsAccountMap(debited) /\ DOMAIN debited = DOMAIN am
          /\ IsAccountMap(credited) /\ DOMAIN credited = DOMAIN am
  <2>1. amount \in Nat /\ snd \in DOMAIN am /\ rcv \in DOMAIN am
    BY <1>1, <1>3 DEF VMAmounts
  <2> HIDE DEF am
  <2> QED BY <1>3, <2>1, MoveType
<1> HIDE DEF am, debited, credited
<1>6. am \in AccountMaps /\ (CanDebit(am, snd, amount) => debited \in AccountMaps /\ credited \in AccountMaps)
  BY <1>3, <1>5, AccountMapsSet
<1>7. AcctMap' \in AccountMaps /\ DOMAIN AcctMap \subseteq DOMAIN AcctMap' /\ DOMAIN AcctMap' = DOMAIN am
  BY <1>3, <1>4, <1>5, <1>6
<1>8. JournalInv' /\ SnapshotsWithin' /\ Snapshots' \in Seq(AccountMaps)
  <2>1. CASE UNCHANGED Snapshots
    BY <1>1, <1>7, <2>1, WriteStep
  <2>2. CASE CanDebit(am, snd, amount)
    <3>1. debited \in AccountMaps /\ credited \in AccountMaps
          /\ DOMAIN debited \subseteq DOMAIN AcctMap' /\ DOMAIN credited \subseteq DOMAIN AcctMap'
      BY <1>5, <1>6, <1>7, <2>2
    <3> QED BY <1>1, <1>4, <1>7, <3>1, WriteStep
  <2> QED BY <1>4, <2>1, <2>2
<1>9. TypeInv' /\ ControlInv'
  BY <1>1, <1>7, <1>8 DEF IInv, TypeInv, ControlInv, Pcs
<1> QED BY <1>8, <1>9 DEF IInv

\* Token metadata is saved, in the system account that may not exist yet.
LEMMA SystemWriteStep ==
    ASSUME IInv, VMSystemWrite
    PROVE  IInv'
<1> DEFINE am == ensureAccountExists(AcctMap, SystemAccount)
<1>1. pc = "vm" /\ UNCHANGED <<pc, tx, err, output, result, pending, marks>>
      /\ Snapshots' = SnapshotState(Snapshots, AcctMap')
      /\ AcctMap' = WriteStorage(am, SystemAccount, TokenKey, 1)
  BY DEF VMSystemWrite, VMRunning
<1>2. IsAccountMap(AcctMap)
  BY AccountMapsSet DEF IInv, TypeInv
<1>3. IsAccountMap(am) /\ DOMAIN am = DOMAIN AcctMap \union {SystemAccount}
  BY <1>2, EnsureType, AddrAssumption
<1> HIDE DEF am
<1>4. AcctMap' \in AccountMaps /\ DOMAIN AcctMap \subseteq DOMAIN AcctMap'
  BY <1>1, <1>3, WriteStorageType, KeyAssumption, AccountMapsSet
<1>5. JournalInv' /\ SnapshotsWithin' /\ Snapshots' \in Seq(AccountMaps)
  BY <1>1, <1>4, WriteStep
<1>6. TypeInv' /\ ControlInv'
  BY <1>1, <1>4, <1>5 DEF IInv, TypeInv, ControlInv
<1> QED BY <1>5, <1>6 DEF IInv

\* The VM returns one of its outputs.
LEMMA ReturnOkStep ==
    ASSUME IInv, VMReturnOk
    PROVE  IInv'
<1>1. pc = "vm" /\ pc' = "output" /\ UNCHANGED <<AcctMap, Snapshots, tx, err, result, pending, marks>>
  BY DEF VMReturnOk, Produce
<1>2. PICK out \in VMOutputs :
          output' = [Ok |-> TRUE, OutputAccounts |-> out.OutputAccounts,
                     DeletedAccounts |-> out.DeletedAccounts]
  BY DEF VMReturnOk, Produce
<1>3. IsOutput(out, Addr, Key)
  BY VMAssumption DEF IsOutput, IsOutputAccount
<1>4. output'.Ok \in BOOLEAN /\ IsOutput(output', Addr, Key)
  BY <1>2, <1>3 DEF IsOutput
<1>5. TypeInv' /\ ControlInv'
  BY <1>1, <1>4 DEF IInv, TypeInv, ControlInv, Pcs
<1> QED BY <1>1, <1>5, QuietStep DEF IInv

----------------------------------------------------------------------------
(* After the output *)

\* The output is applied; accounts may be created and deleted.
LEMMA UpdateStateStep ==
    ASSUME IInv, updateStateAfterTx
    PROVE  IInv'
<1>1. pc = "output" /\ pc' = "deferred" /\ UNCHANGED <<Snapshots, tx, err, output, pending, marks>>
      /\ err = FALSE /\ result' \in {"error", "ok"}
  BY DEF updateStateAfterTx, IInv, ControlInv
<1>2. IsAccountMap(AcctMap) /\ tx \in Transaction /\ IsOutput(output, Addr, Key)
  BY <1>1, AccountMapsSet DEF IInv, TypeInv, ControlInv
<1>3. IsAccountMap(SubtractValue(AcctMap, tx))
  <2>1. -tx.EGLDValue \in Int
    BY <1>2 DEF Transaction
  <2> QED BY <1>2, <2>1, UpdateBalanceType DEF SubtractValue
<1>4. AcctMap' \in AccountMaps
  BY <1>2, <1>3, UpdateAccountsType, AccountMapsSet DEF updateStateAfterTx
<1>5. TypeInv' /\ ControlInv'
  BY <1>1, <1>2, <1>4 DEF IInv, TypeInv, ControlInv, Pcs
<1>6. JournalInv' /\ SnapshotsWithin'
  BY <1>1 DEF IInv, JournalInv, SnapshotsWithin, MarksHold
<1> QED BY <1>5, <1>6 DEF IInv

\* The deferred function leaves an empty journal, whichever way it goes: a
\* rollback goes back to index 0, and a commit clears.
LEMMA DeferredStep ==
    ASSUME IInv, DeferredRollback \/ DeferredCommit
    PROVE  IInv'
<1>1. /\ pc' = "idle" /\ output' = NoOutput /\ pending' = <<>> /\ marks' = <<>>
      /\ tx' = NoTx /\ err' = FALSE /\ UNCHANGED result
  BY DEF DeferredRollback, DeferredCommit, Return
<1>2. Snapshots' = <<>> /\ AcctMap' \in AccountMaps
  <2>1. CASE DeferredCommit
    BY <2>1 DEF DeferredCommit, CommitChanges, IInv, TypeInv
  <2>2. CASE DeferredRollback
    <3>1. AcctMap' \in AccountMaps /\ Snapshots' = SubSeq(Snapshots, 1, 0)
      BY <2>2, RevertedWorld DEF DeferredRollback, RollbackChanges
    <3>2. Snapshots \in Seq(AccountMaps)
      BY DEF IInv, TypeInv
    <3> QED BY <3>1, <3>2
  <2> QED BY <2>1, <2>2
<1>3. <<>> \in Seq(AccountMaps) /\ <<>> \in Seq(Marks) /\ <<>> \in Seq(Nat)
  OBVIOUS
<1>4. TypeInv'
  BY <1>1, <1>2, <1>3, EmptyOutputType DEF IInv, TypeInv, Pcs
<1>5. ControlInv' /\ JournalInv' /\ SnapshotsWithin'
  BY <1>1, <1>2 DEF ControlInv, JournalInv, SnapshotsWithin, MarksHold
<1> QED BY <1>4, <1>5 DEF IInv

----------------------------------------------------------------------------
(* The theorems *)

\* Every step, and every stutter, keeps the invariant.
LEMMA NextIInv == IInv /\ [Next]_vars => IInv'
<1> SUFFICES ASSUME IInv, [Next]_vars PROVE IInv'
  OBVIOUS
<1>1. CASE UNCHANGED vars
  BY <1>1 DEF vars, IInv, TypeInv, ControlInv, JournalInv, SnapshotsWithin, MarksHold
<1>2. CASE \E t \in Tx : RejectTx(t) \/ BeginTx(t)
  BY <1>2, RejectStep, BeginStep
<1>3. CASE Dispatch
  BY <1>3, DecideStep, CallStep, TransferStep, EmptyTransferStep, RewardStep DEF Dispatch
<1>4. CASE BuiltinMove \/ BuiltinFail \/ BuiltinDone
  BY <1>4, BuiltinMoveStep, BuiltinFailStep, DecideStep
<1>5. CASE VMStep
  BY <1>5, GetSnapshotStep, RevertStep, DiscardStep, VMTransferStep, SystemWriteStep,
     DecideStep, ReturnOkStep DEF VMStep
<1>6. CASE updateStateAfterTx \/ TxStepFailed
  BY <1>6, UpdateStateStep, DecideStep
<1>7. CASE DeferredRollback \/ DeferredCommit
  BY <1>7, DeferredStep
<1> QED BY <1>1, <1>2, <1>3, <1>4, <1>5, <1>6, <1>7 DEF Next

\* The invariant holds in every reachable state.
THEOREM Invariance == Spec => []IInv
  BY InitIInv, NextIInv, PTL DEF Spec

\* Every variable keeps its type, for every genesis state, every list of
\* transactions and every behaviour of the VM.
THEOREM TypeCorrect == Spec => []TypeOK
<1>1. IInv => TypeOK
  <2> SUFFICES ASSUME IInv PROVE TypeOK
    OBVIOUS
  <2>1. IsAccountMap(AcctMap)
    BY AccountMapsSet DEF IInv, TypeInv
  <2>2. \A i \in 1..Len(Snapshots) : IsAccountMap(Snapshots[i])
    <3>1. \A i \in 1..Len(Snapshots) : Snapshots[i] \in AccountMaps
      BY DEF IInv, TypeInv
    <3> QED BY <3>1, AccountMapsSet
  <2>3. \A i \in 1..Len(marks) : marks[i].id \in Nat
    BY MarkType DEF IInv, TypeInv
  <2> QED BY <2>1, <2>2, <2>3 DEF IInv, TypeInv, TypeOK, Pcs
<1> QED BY <1>1, Invariance, PTL

\* The journal is empty whenever no transaction runs.
THEOREM JournalEmpty == Spec => []JournalEmptyBetweenTxs
<1>1. IInv => JournalEmptyBetweenTxs
  BY DEF IInv, JournalInv, JournalEmptyBetweenTxs
<1> QED BY <1>1, Invariance, PTL

\* However many backups builtin functions append and nested calls truncate,
\* a snapshot index names the world it was taken of.
THEOREM JournalMarks == Spec => []JournalHoldsMarks
<1>1. IInv => JournalHoldsMarks
  BY DEF IInv, JournalInv, TypeInv, JournalHoldsMarks, MarksHold
<1> QED BY <1>1, Invariance, PTL

\* A complete revert gives every account of the snapshot its balance and
\* storage back.
LEMMA RevertRestores ==
    ASSUME IInv, pc \notin {"idle", "deferred"} \/ err = TRUE, NEW idx \in Nat,
           RevertToSnapshot(idx), CreatedSince(Snapshots[idx + 1]) = {}
    PROVE  Restores(AcctMap', Snapshots[idx + 1])
<1> DEFINE target == Snapshots[idx + 1]
<1>1. idx < Len(Snapshots) /\ Snapshots \in Seq(AccountMaps) /\ idx + 1 \in 1..Len(Snapshots)
  BY DEF RevertToSnapshot, IInv, TypeInv
<1>2. target \in AccountMaps /\ AcctMap \in AccountMaps
  BY <1>1 DEF IInv, TypeInv
<1>3. DOMAIN target \subseteq DOMAIN AcctMap
  BY <1>1 DEF IInv, SnapshotsWithin
<1>4. PICK visited \in Visitable(AcctMap, target) :
          AcctMap' = LoadAccountStorageFrom(AcctMap, target, visited)
  BY DEF RevertToSnapshot
<1>5. Unrestorable(AcctMap, target) = {}
  BY DEF CreatedSince
<1> HIDE DEF target
<1>6. visited = DOMAIN target
  BY <1>3, <1>4, <1>5 DEF Visitable
<1>7. IsAccountMap(target) /\ IsAccountMap(AcctMap)
  BY <1>2, AccountMapsSet
<1>8. ASSUME NEW a \in DOMAIN target
      PROVE  a \in DOMAIN AcctMap' /\ Ledger(AcctMap', a) = Ledger(target, a)
  <2>1. a \in DOMAIN AcctMap' /\ AcctMap'[a] =
            [AcctMap[a] EXCEPT !.Storage = target[a].Storage, !.Balance = target[a].Balance]
    BY <1>3, <1>4, <1>6 DEF LoadAccountStorageFrom
  <2>2. AcctMap[a] \in Account
    BY <1>3, <1>7, AccountMapEntry
  <2>3. AcctMap'[a].Balance = target[a].Balance /\ AcctMap'[a].Storage = target[a].Storage
    BY <2>1, <2>2 DEF Account
  <2> QED BY <2>1, <2>3 DEF Ledger
<1> QED BY <1>8 DEF Restores, target

\* Only the deferred function acts on an error at the end.
LEMMA RollbackIsNext ==
    ASSUME Next, pc = "deferred", err
    PROVE  DeferredRollback
<1>1. ~(\E t \in Tx : RejectTx(t) \/ BeginTx(t))
  BY DEF RejectTx, BeginTx
<1>2. ~Dispatch
  BY DEF Dispatch, OutOfFunds, DispatchDeploy, DispatchCall, DispatchTransfer,
         DispatchEmptyTransfer, DispatchReward, DispatchUnknown, Fail
<1>3. ~(BuiltinMove \/ BuiltinFail \/ BuiltinDone)
  BY DEF BuiltinMove, BuiltinFail, BuiltinDone
<1>4. ~VMStep
  BY DEF VMStep, VMGetSnapshot, VMRunning, VMRevert, VMDiscard, VMTransfer, VMSystemWrite,
         VMError, VMReturnFailed, VMReturnOk
<1>5. ~(updateStateAfterTx \/ TxStepFailed \/ DeferredCommit)
  BY DEF updateStateAfterTx, TxStepFailed, DeferredCommit
<1> QED BY <1>1, <1>2, <1>3, <1>4, <1>5 DEF Next

\* Of the VM's steps, only a revert makes the journal shorter.
LEMMA OnlyRevertShortens ==
    ASSUME IInv, Next, VMReverts
    PROVE  VMRevert
<1>1. pc \in {"vm", "vmfault"} /\ Len(Snapshots') < Len(Snapshots) /\ Snapshots \in Seq(AccountMaps)
  BY DEF VMReverts, IInv, TypeInv
<1>2. /\ Snapshots' # Snapshots
      /\ \A am : Snapshots' # SnapshotState(Snapshots, am)
      /\ \A am, am2 : Snapshots' # SnapshotState(SnapshotState(Snapshots, am), am2)
  <2>1. \A s : Len(s) \in Nat => Len(s) >= 0
    OBVIOUS
  <2>2. ASSUME NEW am PROVE Len(Append(Snapshots, am)) = Len(Snapshots) + 1
    BY <1>1
  <2>3. ASSUME NEW am, NEW am2
        PROVE  Len(Append(Append(Snapshots, am), am2)) = Len(Snapshots) + 2
    BY <1>1
  <2>4. Len(Snapshots) \in Nat
    BY <1>1
  <2> QED BY <1>1, <2>2, <2>3, <2>4 DEF SnapshotState
<1>3. ~(\E t \in Tx : RejectTx(t) \/ BeginTx(t))
  BY <1>1 DEF RejectTx, BeginTx
<1>4. ~Dispatch /\ ~(BuiltinMove \/ BuiltinFail \/ BuiltinDone)
  BY <1>1 DEF Dispatch, OutOfFunds, DispatchDeploy, DispatchCall, DispatchTransfer,
         DispatchEmptyTransfer, DispatchReward, DispatchUnknown, BuiltinMove, BuiltinFail, BuiltinDone
<1>5. ~(updateStateAfterTx \/ TxStepFailed \/ DeferredCommit \/ DeferredRollback)
  BY <1>1 DEF updateStateAfterTx, TxStepFailed, DeferredCommit, DeferredRollback
<1>6. ~(VMGetSnapshot \/ VMDiscard \/ VMSystemWrite \/ VMError \/ VMReturnFailed \/ VMReturnOk)
  BY <1>2 DEF VMGetSnapshot, TakeMark, VMDiscard, VMSystemWrite, VMError, VMReturnFailed, VMReturnOk
<1>7. ~(\E snd, rcv \in Addr, amount \in VMAmounts : VMTransfer(snd, rcv, amount))
  BY <1>2 DEF VMTransfer, MoveTokens
<1> QED BY <1>3, <1>4, <1>5, <1>6, <1>7 DEF Next, VMStep

\* Every failure the deferred function hears of is undone: an account of the
\* executor's snapshot has its balance and storage again, unless the
\* transaction created an account, and then nothing is promised.
THEOREM RollbackRestores == Spec => FailedTxRestores
<1>1. ASSUME IInv, Next, pc = "deferred", err, CreatedSince(marks[1].world) = {}
      PROVE  Restores(AcctMap', marks[1].world)
  <2>1. RevertToSnapshot(0)
    BY <1>1, RollbackIsNext DEF DeferredRollback, RollbackChanges
  <2>2. marks \in Seq(Marks) /\ marks # <<>> /\ marks[1].id = 0 /\ MarksHold(marks, Snapshots)
    BY <1>1 DEF IInv, TypeInv, JournalInv
  <2>3. 1 \in 1..Len(marks)
    BY <2>2
  <2>4. Snapshots[0 + 1] = marks[1].world
    BY <2>2, <2>3 DEF MarksHold
  <2>5. err = TRUE
    BY <1>1 DEF IInv, TypeInv
  <2> QED BY <1>1, <2>1, <2>4, <2>5, RevertRestores
<1>2. IInv /\ [Next]_vars =>
        [pc = "deferred" /\ err /\ CreatedSince(marks[1].world) = {}
           => Restores(AcctMap', marks[1].world)]_vars
  BY <1>1
<1> QED BY <1>2, Invariance, PTL DEF Spec, FailedTxRestores

\* A revert of the VM undoes what its last snapshot covers, for every account,
\* under the same condition.
THEOREM RevertRestoresLastMark == Spec => RevertRestoresMark
<1>1. ASSUME IInv, Next, VMReverts, CreatedSince(LastMark.world) = {}
      PROVE  Restores(AcctMap', LastMark.world)
  <2> DEFINE n == Len(marks)
  <2> DEFINE idx == marks[n].id
  <2>1. RevertToSnapshot(idx) /\ n > 1
    BY <1>1, OnlyRevertShortens DEF VMRevert
  <2>2. marks \in Seq(Marks) /\ MarksHold(marks, Snapshots)
    BY <1>1 DEF IInv, TypeInv, JournalInv
  <2>3. n \in 1..Len(marks)
    BY <2>1, <2>2
  <2>4. idx \in Nat /\ Snapshots[idx + 1] = marks[n].world
    BY <2>2, <2>3, MarkType DEF MarksHold
  <2>5. pc \notin {"idle", "deferred"}
    BY <1>1 DEF VMReverts
  <2>6. LastMark = marks[n]
    BY DEF LastMark
  <2> HIDE DEF idx, n
  <2> QED BY <1>1, <2>1, <2>4, <2>5, <2>6, RevertRestores
<1>2. IInv /\ [Next]_vars =>
        [VMReverts /\ CreatedSince(LastMark.world) = {}
           => Restores(AcctMap', LastMark.world)]_vars
  BY <1>1
<1> QED BY <1>2, Invariance, PTL DEF Spec, RevertRestoresMark

----------------------------------------------------------------------------
(* Writers of storage, and reverts, make no money *)

\* Balances and nonces are the same; accounts may be added, with nothing.
SameFunds(am, am2) ==
    /\ DOMAIN am \subseteq DOMAIN am2
    /\ \A a \in DOMAIN am : am2[a].Balance = am[a].Balance /\ am2[a].Nonce = am[a].Nonce
    /\ \A a \in DOMAIN am2 \ DOMAIN am : am2[a].Balance = 0

\* A storage write changes no balance.
LEMMA WriteFunds ==
    ASSUME NEW am, IsAccountMap(am), NEW a \in DOMAIN am, NEW k \in Key, NEW v
    PROVE  SameFunds(am, WriteStorage(am, a, k, v))
<1>1. am[a] \in Account
  BY AccountMapEntry
<1> DEFINE written == [am[a] EXCEPT !.Storage = [@ EXCEPT ![k] = v]]
<1>2. WriteStorage(am, a, k, v) = [am EXCEPT ![a] = written]
  BY DEF WriteStorage
<1>3. written.Balance = am[a].Balance /\ written.Nonce = am[a].Nonce
  BY <1>1 DEF Account
<1> HIDE DEF written
<1> QED BY <1>2, <1>3 DEF SameFunds, IsAccountMap

\* An account created on the way has nothing.
LEMMA EnsureFunds ==
    ASSUME NEW am, IsAccountMap(am), NEW a
    PROVE  SameFunds(am, ensureAccountExists(am, a))
<1>1. CASE a \in DOMAIN am
  BY <1>1 DEF ensureAccountExists, SameFunds
<1>2. CASE a \notin DOMAIN am
  <2>1. ensureAccountExists(am, a) = PutEntry(am, a, EmptyAccount)
    BY <1>2 DEF ensureAccountExists, CreateAccount, PutAccount, EmptyAccount
  <2> QED BY <1>2, <2>1 DEF PutEntry, SameFunds, EmptyAccount
<1> QED BY <1>1, <1>2

\* One write after another.
LEMMA SameFundsTwice ==
    ASSUME NEW am, NEW am2, NEW am3, SameFunds(am, am2), SameFunds(am2, am3)
    PROVE  SameFunds(am, am3)
  BY DEF SameFunds

\* A transfer of tokens moves no EGLD.
LEMMA MoveFunds ==
    ASSUME NEW am, IsAccountMap(am), NEW snd \in DOMAIN am, NEW rcv \in DOMAIN am,
           NEW amount \in Nat, CanDebit(am, snd, amount)
    PROVE  /\ SameFunds(am, Debit(am, snd, amount))
           /\ SameFunds(am, Credit(Debit(am, snd, amount), rcv, amount))
<1> DEFINE debited == Debit(am, snd, amount)
<1>1. SameFunds(am, debited)
  BY WriteFunds, KeyAssumption DEF Debit
<1>2. IsAccountMap(debited) /\ DOMAIN debited = DOMAIN am
  BY MoveType
<1> HIDE DEF debited
<1>3. SameFunds(debited, Credit(debited, rcv, amount))
  BY <1>2, WriteFunds, KeyAssumption DEF Credit
<1> QED BY <1>1, <1>3, SameFundsTwice DEF debited

\* Builtin functions, called by the executor or by a contract, change no
\* balance, whether they succeed or fail half way.
LEMMA BuiltinFunds ==
    ASSUME IInv,
           \/ BuiltinMove \/ BuiltinFail \/ VMSystemWrite
           \/ \E snd, rcv \in Addr, amount \in VMAmounts : VMTransfer(snd, rcv, amount)
    PROVE  SameFunds(AcctMap, AcctMap')
<1>1. IsAccountMap(AcctMap)
  BY AccountMapsSet DEF IInv, TypeInv
<1>2. SameFunds(AcctMap, AcctMap)
  BY DEF SameFunds
<1>3. CASE BuiltinMove
  <2>1. tx.From \in DOMAIN AcctMap /\ tx.To \in DOMAIN AcctMap /\ Head(pending) \in Nat
    BY <1>3 DEF BuiltinMove, IInv, ControlInv, TypeInv
  <2> QED BY <1>1, <1>3, <2>1, MoveFunds DEF BuiltinMove, MoveTokens
<1>4. CASE BuiltinFail
  <2>1. tx.From \in DOMAIN AcctMap /\ Head(pending) \in Nat
    BY <1>4 DEF BuiltinFail, IInv, ControlInv, TypeInv
  <2> QED BY <1>1, <1>2, <1>4, <2>1, MoveFunds DEF BuiltinFail, worldVars
<1>5. CASE VMSystemWrite
  <2> DEFINE am == ensureAccountExists(AcctMap, SystemAccount)
  <2>1. IsAccountMap(am) /\ SystemAccount \in DOMAIN am /\ SameFunds(AcctMap, am)
    BY <1>1, EnsureType, EnsureFunds, AddrAssumption
  <2>2. AcctMap' = WriteStorage(am, SystemAccount, TokenKey, 1)
    BY <1>5 DEF VMSystemWrite
  <2> HIDE DEF am
  <2>3. SameFunds(am, AcctMap')
    BY <2>1, <2>2, WriteFunds, KeyAssumption
  <2> QED BY <2>1, <2>3, SameFundsTwice
<1>6. ASSUME NEW snd \in Addr, NEW rcv \in Addr, NEW amount \in VMAmounts,
             VMTransfer(snd, rcv, amount)
      PROVE  SameFunds(AcctMap, AcctMap')
  <2> DEFINE am == ensureAccountExists(AcctMap, rcv)
  <2>1. /\ IsAccountMap(am) /\ DOMAIN am = DOMAIN AcctMap \union {rcv}
        /\ SameFunds(AcctMap, am)
    BY <1>1, EnsureType, EnsureFunds
  <2>2. snd \in DOMAIN am /\ rcv \in DOMAIN am /\ amount \in Nat
    BY <1>6, <2>1 DEF VMTransfer, VMAmounts
  <2>3. \/ AcctMap' = am
        \/ CanDebit(am, snd, amount) /\ AcctMap' = Debit(am, snd, amount)
        \/ CanDebit(am, snd, amount) /\ AcctMap' = Credit(Debit(am, snd, amount), rcv, amount)
    BY <1>6 DEF VMTransfer, MoveTokens
  <2> HIDE DEF am
  <2>4. SameFunds(am, AcctMap')
    <3>1. SameFunds(am, am)
      BY DEF SameFunds
    <3> QED BY <2>1, <2>2, <2>3, <3>1, MoveFunds
  <2> QED BY <2>1, <2>4, SameFundsTwice
<1> QED BY <1>3, <1>4, <1>5, <1>6

\* After a revert to a mark each balance is the present one or that of the
\* mark, in part or in full; nonces are the present ones.
LEMMA RevertFunds ==
    ASSUME IInv, NEW i \in 1..Len(marks), RevertToSnapshot(marks[i].id)
    PROVE  /\ DOMAIN AcctMap' = DOMAIN AcctMap
           /\ \A a \in DOMAIN AcctMap :
                /\ AcctMap'[a].Nonce = AcctMap[a].Nonce
                /\ \/ AcctMap'[a].Balance = AcctMap[a].Balance
                   \/ /\ a \in DOMAIN marks[i].world
                      /\ AcctMap'[a].Balance = marks[i].world[a].Balance
<1> DEFINE target == marks[i].world
<1>1. marks[i].id \in Nat /\ Snapshots[marks[i].id + 1] = target
  BY MarkType DEF IInv, TypeInv, JournalInv, MarksHold
<1>2. PICK visited \in Visitable(AcctMap, target) :
          AcctMap' = LoadAccountStorageFrom(AcctMap, target, visited)
  BY <1>1 DEF RevertToSnapshot
<1>3. visited \subseteq DOMAIN AcctMap \intersect DOMAIN target
  BY <1>2 DEF Visitable
<1>4. IsAccountMap(AcctMap)
  BY AccountMapsSet DEF IInv, TypeInv
<1> HIDE DEF target
<1>5. DOMAIN AcctMap' = DOMAIN AcctMap
  BY <1>2 DEF LoadAccountStorageFrom
<1>6. ASSUME NEW a \in DOMAIN AcctMap
      PROVE  /\ AcctMap'[a].Nonce = AcctMap[a].Nonce
             /\ \/ AcctMap'[a].Balance = AcctMap[a].Balance
                \/ a \in DOMAIN target /\ AcctMap'[a].Balance = target[a].Balance
  <2>1. AcctMap[a] \in Account
    BY <1>4, AccountMapEntry
  <2>2. CASE a \in visited
    <3>1. AcctMap'[a] =
              [AcctMap[a] EXCEPT !.Storage = target[a].Storage, !.Balance = target[a].Balance]
      BY <1>2, <2>2 DEF LoadAccountStorageFrom
    <3> QED BY <1>3, <2>1, <2>2, <3>1 DEF Account
  <2>3. CASE a \notin visited
    BY <1>2, <2>3 DEF LoadAccountStorageFrom
  <2> QED BY <2>2, <2>3
<1> QED BY <1>5, <1>6 DEF target

----------------------------------------------------------------------------
(* The invariant *)

NonNegative(am) == \A a \in DOMAIN am : am[a].Balance >= 0

\* The sender can pay the value.
Funded(am, t) == HasSender(t) => t.From \in DOMAIN am /\ am[t.From].Balance >= t.EGLDValue

\* Between the look at the balance and the payment of the value.
Paying == pc \in {"builtin", "vm", "vmfault"} \/ (pc = "output" /\ output.Ok)

\* The balance that was enough when the executor looked is enough when the
\* output is applied, since every world a revert may go back to has enough.
FundsInv ==
    /\ NonNegative(AcctMap)
    /\ \A i \in 1..Len(marks) : NonNegative(marks[i].world)
    /\ pc = "dispatch" => \A i \in 1..Len(marks) : marks[i].world = AcctMap
    /\ Paying => Funded(AcctMap, tx) /\ \A i \in 1..Len(marks) : Funded(marks[i].world, tx)
    /\ pc = "output" /\ output.Ok =>
          \A a \in DOMAIN output.OutputAccounts : BalanceAfter(a, output) >= 0

\* The initial state satisfies the invariant.
LEMMA InitFunds == Init => FundsInv
  BY GenesisAssumption DEF Init, FundsInv, NonNegative, Paying

\* What a storage write keeps.
LEMMA SameFundsKeeps ==
    ASSUME NEW am, NEW am2, SameFunds(am, am2)
    PROVE  /\ NonNegative(am) => NonNegative(am2)
           /\ \A t : Funded(am, t) => Funded(am2, t)
  BY DEF SameFunds, NonNegative, Funded

\* A refused transaction costs a nonce, an accepted one a nonce and gas that
\* is there.
LEMMA ChargeFunds ==
    ASSUME IInv, NonNegative(AcctMap), NEW t \in Tx, RejectTx(t) \/ BeginTx(t)
    PROVE  /\ NonNegative(AcctMap')
           /\ \A a \in DOMAIN AcctMap : AcctMap'[a].Nonce >= AcctMap[a].Nonce
<1>1. IsAccountMap(AcctMap) /\ t \in Transaction
  BY AccountMapsSet, TxAssumption DEF IInv, TypeInv
<1>2. \A a \in DOMAIN AcctMap : AcctMap[a].Nonce \in Nat /\ AcctMap[a].Balance \in Int
  BY <1>1 DEF IsAccountMap, Account
<1>3. CASE UNCHANGED AcctMap
  BY <1>2, <1>3
<1>4. ASSUME NEW from \in DOMAIN AcctMap
      PROVE  LET am == IncNonce(AcctMap, from)
             IN  /\ DOMAIN am = DOMAIN AcctMap
                 /\ \A a \in DOMAIN AcctMap :
                      /\ am[a].Balance = AcctMap[a].Balance
                      /\ am[a].Nonce >= AcctMap[a].Nonce
  <2> DEFINE new == [AcctMap[from] EXCEPT !.Nonce = @ + 1]
  <2>1. AcctMap[from] \in Account
    BY <1>1, AccountMapEntry
  <2>2. new.Balance = AcctMap[from].Balance /\ new.Nonce = AcctMap[from].Nonce + 1
    BY <2>1 DEF Account
  <2>3. IncNonce(AcctMap, from) = [AcctMap EXCEPT ![from] = new]
    BY DEF IncNonce
  <2> HIDE DEF new
  <2> QED BY <1>2, <2>2, <2>3
<1>5. CASE t.From \in DOMAIN AcctMap /\ AcctMap' = IncNonce(AcctMap, t.From)
  BY <1>4, <1>5 DEF NonNegative
<1>6. CASE /\ t.From \in DOMAIN AcctMap /\ AcctMap[t.From].Balance >= t.GasPayment
           /\ AcctMap' = UpdateWorldStateBefore(AcctMap, t.From, t.GasPayment)
  <2> DEFINE am == IncNonce(AcctMap, t.From)
             new == [am[t.From] EXCEPT !.Balance = @ - t.GasPayment]
  <2>1. IsAccountMap(am)
    BY <1>1, <1>6, ChargeType, 0 \in Nat
  <2>2. AcctMap' = [am EXCEPT ![t.From] = new]
    BY <1>6 DEF UpdateWorldStateBefore
  <2>3. /\ DOMAIN am = DOMAIN AcctMap
        /\ \A a \in DOMAIN AcctMap :
             am[a].Balance = AcctMap[a].Balance /\ am[a].Nonce >= AcctMap[a].Nonce
    BY <1>4, <1>6
  <2> HIDE DEF am
  <2>4. am[t.From] \in Account
    BY <1>6, <2>1, <2>3, AccountMapEntry
  <2>5. new.Nonce = am[t.From].Nonce /\ new.Balance = am[t.From].Balance - t.GasPayment
    BY <2>4 DEF Account
  <2>6. new.Balance >= 0
    BY <1>1, <1>2, <1>6, <2>3, <2>5 DEF Transaction
  <2> HIDE DEF new
  <2> QED BY <1>2, <1>6, <2>2, <2>3, <2>5, <2>6 DEF NonNegative
<1> QED BY <1>3, <1>5, <1>6 DEF RejectTx, BeginTx

\* A transaction starts with one mark, of the charged world.
LEMMA ChargeInv ==
    ASSUME IInv, FundsInv, NEW t \in Tx, RejectTx(t) \/ BeginTx(t)
    PROVE  FundsInv'
<1>1. NonNegative(AcctMap')
  BY ChargeFunds DEF FundsInv
<1>2. marks = <<>> /\ pc = "idle"
  BY DEF RejectTx, BeginTx, IInv, JournalInv
<1>3. CASE RejectTx(t)
  BY <1>1, <1>2, <1>3 DEF RejectTx, FundsInv, NonNegative, Paying
<1>4. CASE BeginTx(t)
  <2>1. pc' = "dispatch"
    BY <1>4 DEF BeginTx
  <2>2. \A i \in 1..Len(marks') : marks'[i].world = AcctMap'
    BY <1>2, <1>4 DEF BeginTx, TakeMark
  <2> QED BY <1>1, <2>1, <2>2 DEF FundsInv, NonNegative, Paying
<1> QED BY <1>3, <1>4

----------------------------------------------------------------------------
(* The steps of a transaction *)

\* A step inside a transaction that changes neither world, marks nor
\* transaction, and after which no output waits to be applied.
LEMMA QuietFunds ==
    ASSUME IInv, FundsInv, UNCHANGED <<AcctMap, marks, tx>>, pc' # "dispatch",
           ~(pc' = "output" /\ output'.Ok), Paying' => Paying
    PROVE  FundsInv'
  BY DEF FundsInv, NonNegative, Funded, Paying

\* What the executor found when it looked at the balance holds of the mark too.
LEMMA DispatchFunds ==
    ASSUME IInv, FundsInv, pc = "dispatch", senderHasEnoughBalance(tx)
    PROVE  Funded(AcctMap, tx) /\ \A i \in 1..Len(marks) : Funded(marks[i].world, tx)
  BY DEF FundsInv, Funded, senderHasEnoughBalance, IInv, ControlInv

\* The switch: the balance is looked at for everybody who has to pay.
LEMMA SwitchFunds ==
    ASSUME IInv, FundsInv, OutOfFunds \/ DispatchDeploy \/ DispatchCall \/ DispatchUnknown
    PROVE  FundsInv'
<1>1. /\ pc = "dispatch" /\ UNCHANGED <<AcctMap, marks>>
      /\ pc' \in {"output", "vm", "builtin", "deferred"}
      /\ pc' = "output" => ~output'.Ok
  BY DEF OutOfFunds, DispatchDeploy, DispatchCall, DispatchUnknown, Produce, Fail,
         FailedOutput, NoOutput
<1>2. tx \in Transaction
  BY <1>1 DEF IInv, ControlInv
<1>3. \A am : Funded(am, tx) => Funded(am, tx)'
  <2>1. tx' = tx \/ ~HasSender(tx)'
    BY <1>2 DEF OutOfFunds, DispatchDeploy, DispatchCall, DispatchUnknown, HasSender, Transaction
  <2> QED BY <2>1 DEF Funded, HasSender
<1>4. Paying' => Funded(AcctMap, tx) /\ \A i \in 1..Len(marks) : Funded(marks[i].world, tx)
  <2>1. Paying' => senderHasEnoughBalance(tx)
    BY <1>1 DEF Paying, OutOfFunds, DispatchDeploy, DispatchCall, DispatchUnknown, Produce
  <2> QED BY <1>1, <2>1, DispatchFunds
<1>5. Paying' => Funded(AcctMap', tx') /\ \A i \in 1..Len(marks') : Funded(marks'[i].world, tx')
  BY <1>1, <1>3, <1>4 DEF Funded
<1> QED BY <1>1, <1>5 DEF FundsInv, NonNegative, Paying

\* A transfer, of EGLD to anybody or of tokens.
LEMMA TransferFunds ==
    ASSUME IInv, FundsInv, DispatchTransfer
    PROVE  FundsInv' /\ SameFunds(AcctMap, AcctMap')
<1>1. pc = "dispatch" /\ senderHasEnoughBalance(tx) /\ UNCHANGED <<marks, tx>>
      /\ pc' \in {"output", "builtin"}
  BY DEF DispatchTransfer, Produce
<1>2. tx \in Transaction /\ tx.From \in DOMAIN AcctMap /\ IsAccountMap(AcctMap)
  BY <1>1, AccountMapsSet DEF DispatchTransfer, HasSender, IInv, TypeInv, ControlInv
<1>3. SameFunds(AcctMap, AcctMap')
  <2>1. CASE UNCHANGED AcctMap
    BY <2>1 DEF SameFunds
  <2>2. CASE AcctMap' = ensureAccountExists(AcctMap, tx.To)
    BY <1>2, <2>2, EnsureFunds
  <2> QED BY <2>1, <2>2 DEF DispatchTransfer
<1>4. Funded(AcctMap, tx) /\ \A i \in 1..Len(marks) : Funded(marks[i].world, tx)
  BY <1>1, DispatchFunds
<1>5. NonNegative(AcctMap') /\ Funded(AcctMap', tx)
  BY <1>3, <1>4, SameFundsKeeps DEF FundsInv
<1>6. pc' = "output" => \A a \in DOMAIN output'.OutputAccounts : BalanceAfter(a, output)' >= 0
  <2> SUFFICES ASSUME pc' = "output", NEW a \in DOMAIN output'.OutputAccounts
               PROVE  BalanceAfter(a, output)' >= 0
    OBVIOUS
  <2>1. /\ UNCHANGED AcctMap /\ a = tx.To
        /\ output'.OutputAccounts[a].BalanceDelta = tx.EGLDValue
    BY DEF DispatchTransfer, Produce
  <2>2. HasSender(tx) /\ tx.EGLDValue \in Nat
    BY <1>2 DEF DispatchTransfer, HasSender, Transaction
  <2>3. \A b \in DOMAIN AcctMap : AcctMap[b].Balance \in Int /\ AcctMap[b].Balance >= 0
    BY <1>2, AccountMapEntry DEF FundsInv, NonNegative, Account
  <2>4. AcctMap[tx.From].Balance >= tx.EGLDValue
    BY <1>4, <2>2 DEF Funded
  <2>5. BalanceAfter(a, output)' =
            (IF a \in DOMAIN AcctMap THEN AcctMap[a].Balance ELSE 0)
              - (IF a = tx.From THEN tx.EGLDValue ELSE 0) + tx.EGLDValue
    BY <1>1, <2>1, <2>2 DEF BalanceAfter, HasSender
  <2> QED BY <1>2, <2>2, <2>3, <2>4, <2>5
<1>7. FundsInv'
  <2>1. \A i \in 1..Len(marks') : NonNegative(marks'[i].world) /\ Funded(marks'[i].world, tx')
    BY <1>1, <1>4 DEF FundsInv
  <2>2. NonNegative(AcctMap') /\ Funded(AcctMap', tx')
    BY <1>1, <1>5
  <2> QED BY <1>1, <1>6, <2>1, <2>2 DEF FundsInv, NonNegative, Funded, HasSender
<1> QED BY <1>3, <1>7

\* A transfer of nothing creates an account without balance, and fails.
LEMMA EmptyTransferFunds ==
    ASSUME IInv, FundsInv, DispatchEmptyTransfer
    PROVE  FundsInv' /\ SameFunds(AcctMap, AcctMap')
<1>1. pc' = "deferred" /\ UNCHANGED marks /\ AcctMap' = ensureAccountExists(AcctMap, tx.To)
  BY DEF DispatchEmptyTransfer, Fail
<1>2. IsAccountMap(AcctMap)
  BY AccountMapsSet DEF IInv, TypeInv
<1>3. SameFunds(AcctMap, AcctMap')
  BY <1>1, <1>2, EnsureFunds
<1>4. NonNegative(AcctMap')
  BY <1>3, SameFundsKeeps DEF FundsInv
<1>5. \A i \in 1..Len(marks') : NonNegative(marks'[i].world)
  BY <1>1 DEF FundsInv
<1> QED BY <1>1, <1>3, <1>4, <1>5 DEF FundsInv, NonNegative, Paying

\* A reward adds to a balance.
LEMMA RewardFunds ==
    ASSUME IInv, FundsInv, DispatchReward
    PROVE  FundsInv'
<1>1. pc = "dispatch" /\ pc' \in {"output", "deferred"} /\ UNCHANGED <<AcctMap, marks, tx>>
      /\ ~HasSender(tx)
  BY DEF DispatchReward, Produce, Fail, HasSender
<1>2. tx \in Transaction /\ IsAccountMap(AcctMap)
  BY <1>1, AccountMapsSet DEF IInv, TypeInv, ControlInv
<1>3. pc' = "output" => \A a \in DOMAIN output'.OutputAccounts : BalanceAfter(a, output)' >= 0
  <2> SUFFICES ASSUME pc' = "output", NEW a \in DOMAIN output'.OutputAccounts
               PROVE  BalanceAfter(a, output)' >= 0
    OBVIOUS
  <2>1. /\ a = tx.To /\ tx.To \in DOMAIN AcctMap
        /\ output'.OutputAccounts[a].BalanceDelta = tx.EGLDValue
    BY DEF DispatchReward, Produce, Fail
  <2>2. AcctMap[a].Balance \in Int /\ AcctMap[a].Balance >= 0 /\ tx.EGLDValue \in Nat
    BY <1>2, <2>1, AccountMapEntry DEF FundsInv, NonNegative, Account, Transaction
  <2>3. BalanceAfter(a, output)' = AcctMap[a].Balance - 0 + tx.EGLDValue
    BY <1>1, <2>1 DEF BalanceAfter, HasSender
  <2> QED BY <2>2, <2>3
<1>4. \A am : Funded(am, tx')
  BY <1>1 DEF Funded
<1> QED BY <1>1, <1>3, <1>4 DEF FundsInv, NonNegative, Funded, Paying, HasSender

\* Builtin functions of the executor and of the VM.
LEMMA BuiltinInv ==
    ASSUME IInv, FundsInv,
           \/ BuiltinMove \/ BuiltinFail \/ VMSystemWrite
           \/ \E snd, rcv \in Addr, amount \in VMAmounts : VMTransfer(snd, rcv, amount)
    PROVE  FundsInv'
<1>1. SameFunds(AcctMap, AcctMap')
  BY BuiltinFunds
<1>2. Paying /\ UNCHANGED <<marks, tx>> /\ pc' \in {"builtin", "deferred", "vm", "vmfault"}
  BY DEF BuiltinMove, BuiltinFail, VMSystemWrite, VMTransfer, VMRunning, Paying, Fail
<1>3. NonNegative(AcctMap') /\ Funded(AcctMap', tx)
  BY <1>1, <1>2, SameFundsKeeps DEF FundsInv
<1> QED BY <1>2, <1>3 DEF FundsInv, NonNegative, Funded, Paying, HasSender

\* Snapshots of the VM, and going back to them.
LEMMA MarkFunds ==
    ASSUME IInv, FundsInv, VMGetSnapshot \/ VMRevert \/ VMDiscard
    PROVE  FundsInv'
<1>1. Paying /\ UNCHANGED <<tx, output>> /\ pc' = "vm" /\ marks \in Seq(Marks)
  BY DEF VMGetSnapshot, VMRevert, VMDiscard, VMRunning, Paying, IInv, TypeInv
<1>2. CASE VMGetSnapshot
  <2>1. AcctMap' = AcctMap /\ Len(marks') = Len(marks) + 1
        /\ \A i \in 1..Len(marks') :
             marks'[i].world = IF i \in 1..Len(marks) THEN marks[i].world ELSE AcctMap
    BY <1>1, <1>2 DEF VMGetSnapshot, TakeMark
  <2> QED BY <1>1, <2>1 DEF FundsInv, NonNegative, Funded, Paying, HasSender
<1>3. CASE VMRevert \/ VMDiscard
  <2>1. Len(marks) > 1 /\ marks' = Pop(marks)
    BY <1>3 DEF VMRevert, VMDiscard
  <2>2. \A i \in 1..Len(marks') : i \in 1..Len(marks) /\ marks'[i] = marks[i]
    BY <1>1, <2>1 DEF Pop
  <2>3. NonNegative(AcctMap') /\ Funded(AcctMap', tx)
    <3>1. CASE VMDiscard
      BY <1>1, <3>1 DEF VMDiscard, FundsInv
    <3>2. CASE VMRevert
      <4> DEFINE n == Len(marks)
      <4>1. n \in 1..Len(marks) /\ RevertToSnapshot(marks[n].id)
        BY <1>1, <2>1, <3>2 DEF VMRevert
      <4> HIDE DEF n
      <4>2. /\ DOMAIN AcctMap' = DOMAIN AcctMap
            /\ \A a \in DOMAIN AcctMap :
                 \/ AcctMap'[a].Balance = AcctMap[a].Balance
                 \/ /\ a \in DOMAIN marks[n].world
                    /\ AcctMap'[a].Balance = marks[n].world[a].Balance
        BY <4>1, RevertFunds
      <4>3. NonNegative(AcctMap) /\ NonNegative(marks[n].world)
            /\ Funded(AcctMap, tx) /\ Funded(marks[n].world, tx)
        BY <1>1, <4>1 DEF FundsInv
      <4> QED BY <4>2, <4>3 DEF NonNegative, Funded
    <3> QED BY <1>3, <3>1, <3>2
  <2> QED BY <1>1, <2>2, <2>3 DEF FundsInv, NonNegative, Funded, Paying, HasSender
<1> QED BY <1>2, <1>3

\* The VM's output spends no more than there is.
LEMMA ReturnFunds ==
    ASSUME IInv, FundsInv, VMReturnOk
    PROVE  FundsInv'
<1>1. pc = "vm" /\ pc' = "output" /\ UNCHANGED <<AcctMap, tx, marks>>
  BY DEF VMReturnOk, Produce
<1>2. PICK out \in VMOutputs :
          /\ \A a \in DOMAIN out.OutputAccounts : BalanceAfter(a, out) \in 0..MaxBalance
          /\ output' = [Ok |-> TRUE, OutputAccounts |-> out.OutputAccounts,
                        DeletedAccounts |-> out.DeletedAccounts]
  BY DEF VMReturnOk, Produce
<1>3. \A a : BalanceAfter(a, output)' = BalanceAfter(a, out)
  BY <1>1, <1>2 DEF BalanceAfter, HasSender
<1>4. \A a \in DOMAIN output'.OutputAccounts : BalanceAfter(a, output)' >= 0
  <2>1. output'.OutputAccounts = out.OutputAccounts
    BY <1>2
  <2> SUFFICES ASSUME NEW a \in DOMAIN out.OutputAccounts PROVE BalanceAfter(a, output)' >= 0
    BY <2>1
  <2>2. BalanceAfter(a, out) \in 0..MaxBalance
    BY <1>2
  <2>3. BalanceAfter(a, out) >= 0
    BY <2>2, BoundAssumption
  <2> QED BY <1>3, <2>3
<1> QED BY <1>1, <1>4 DEF FundsInv, NonNegative, Funded, Paying, HasSender

\* A builtin transfer without a call ends the transaction with an output that
\* names no account.
LEMMA BuiltinDoneFunds ==
    ASSUME IInv, FundsInv, BuiltinDone
    PROVE  FundsInv'
<1>1. pc = "builtin" /\ pc' \in {"vm", "output"} /\ UNCHANGED <<AcctMap, tx, marks>>
      /\ (pc' = "output" => output' = EmptyOk)
  BY DEF BuiltinDone, Produce
<1>2. DOMAIN EmptyOk.OutputAccounts = {}
  BY DEF EmptyOk, NoOutput
<1> QED BY <1>1, <1>2 DEF FundsInv, NonNegative, Funded, Paying, HasSender

----------------------------------------------------------------------------
(* The output is applied *)

\* UpdateAccountFromOutputAccount adds the delta and never lowers the nonce.
LEMMA OutputFunds ==
    ASSUME NEW acct \in Account, NEW oa, IsOutputAccount(oa, Key)
    PROVE  LET new == UpdateAccountFromOutputAccount(acct, oa)
           IN  new.Balance = acct.Balance + oa.BalanceDelta /\ new.Nonce >= acct.Nonce
<1> DEFINE b == acct.Balance + oa.BalanceDelta
           n == IF oa.Nonce > acct.Nonce THEN oa.Nonce ELSE acct.Nonce
           st == [k \in Key |-> IF k \in DOMAIN oa.StorageUpdates
                                THEN oa.StorageUpdates[k] ELSE acct.Storage[k]]
           updated == [acct EXCEPT !.Balance = b, !.Nonce = n, !.Storage = st]
<1>1. UpdateAccountFromOutputAccount(acct, oa) =
          IF oa.Code = NoCode THEN updated ELSE SetCodeAndMetadata(updated, oa.Code)
  BY DEF UpdateAccountFromOutputAccount, Account
<1>2. n >= acct.Nonce
  BY DEF IsOutputAccount, Account
<1> HIDE DEF b, n, st
<1>3. updated.Balance = b /\ updated.Nonce = n
      /\ SetCodeAndMetadata(updated, oa.Code).Balance = b
      /\ SetCodeAndMetadata(updated, oa.Code).Nonce = n
  BY DEF Account, SetCodeAndMetadata
<1> HIDE DEF updated
<1> QED BY <1>1, <1>2, <1>3 DEF b

\* What an account has, what the transaction takes from it, what the output adds.
BalanceIn(am, a) == IF a \in DOMAIN am THEN am[a].Balance ELSE 0

Due(t, a) == IF HasSender(t) /\ a = t.From THEN t.EGLDValue ELSE 0

DeltaIn(outs, a) == IF a \in DOMAIN outs THEN outs[a].BalanceDelta ELSE 0

\* The terms are numbers.
LEMMA BalanceTerms ==
    ASSUME NEW am, IsAccountMap(am), NEW t \in Transaction, NEW out, IsOutput(out, Addr, Key), NEW a
    PROVE  BalanceIn(am, a) \in Int /\ Due(t, a) \in Nat /\ DeltaIn(out.OutputAccounts, a) \in Int
<1>1. BalanceIn(am, a) \in Int
  BY AccountMapEntry DEF BalanceIn, Account
<1>2. Due(t, a) \in Nat
  BY DEF Due, Transaction
<1>3. DeltaIn(out.OutputAccounts, a) \in Int
  BY DEF DeltaIn, IsOutput, IsOutputAccount
<1> QED BY <1>1, <1>2, <1>3

\* The value leaves the sender, if there is one.
LEMMA SubtractFunds ==
    ASSUME NEW am, IsAccountMap(am), NEW t \in Transaction
    PROVE  LET am2 == SubtractValue(am, t)
           IN  /\ IsAccountMap(am2) /\ DOMAIN am2 = DOMAIN am
               /\ \A a \in DOMAIN am : /\ am2[a].Balance = am[a].Balance - Due(t, a)
                                       /\ am2[a].Nonce = am[a].Nonce
<1> DEFINE am2 == SubtractValue(am, t)
<1>1. t.EGLDValue \in Nat /\ -t.EGLDValue \in Int
  BY DEF Transaction
<1>2. IsAccountMap(am2) /\ DOMAIN am2 = DOMAIN am
  BY <1>1, UpdateBalanceType DEF SubtractValue
<1>3. ASSUME NEW a \in DOMAIN am
      PROVE  am2[a].Balance = am[a].Balance - Due(t, a) /\ am2[a].Nonce = am[a].Nonce
  <2>1. am[a] \in Account /\ am[a].Balance \in Int
    BY AccountMapEntry DEF Account
  <2>2. CASE HasSender(t) /\ a = t.From
    <3>1. am2[a] = [am[a] EXCEPT !.Balance = @ + (-t.EGLDValue)]
      BY <2>2 DEF SubtractValue, UpdateBalanceWithDelta
    <3>2. am2[a].Balance = am[a].Balance + (-t.EGLDValue) /\ am2[a].Nonce = am[a].Nonce
      BY <2>1, <3>1 DEF Account
    <3>3. Due(t, a) = t.EGLDValue
      BY <2>2 DEF Due
    <3> QED BY <1>1, <2>1, <3>2, <3>3
  <2>3. CASE ~(HasSender(t) /\ a = t.From)
    <3>1. am2[a] = am[a]
      BY <2>3 DEF SubtractValue, UpdateBalanceWithDelta
    <3>2. Due(t, a) = 0
      BY <2>3 DEF Due
    <3> QED BY <2>1, <3>1, <3>2
  <2> QED BY <2>2, <2>3
<1> QED BY <1>2, <1>3

\* updateStateAfterTx gives each account what it had, less the value it owes,
\* plus its delta.
LEMMA AppliedBalances ==
    ASSUME IInv, FundsInv, updateStateAfterTx
    PROVE  /\ DOMAIN AcctMap' = (DOMAIN AcctMap \union DOMAIN output.OutputAccounts)
                                  \ output.DeletedAccounts
           /\ \A a \in DOMAIN AcctMap' :
                /\ AcctMap'[a].Balance =
                       BalanceIn(AcctMap, a) - Due(tx, a) + DeltaIn(output.OutputAccounts, a)
                /\ a \in DOMAIN AcctMap => AcctMap'[a].Nonce >= AcctMap[a].Nonce
           /\ \A a \in Addr \ DOMAIN AcctMap : Due(tx, a) = 0
<1> DEFINE am == SubtractValue(AcctMap, tx)
           outs == output.OutputAccounts
<1>1. /\ pc = "output" /\ output.Ok
      /\ AcctMap' = UpdateAccounts(am, outs, output.DeletedAccounts)
  BY DEF updateStateAfterTx
<1>2. IsAccountMap(AcctMap) /\ tx \in Transaction /\ IsOutput(output, Addr, Key)
  BY <1>1, AccountMapsSet DEF IInv, TypeInv, ControlInv
<1>3. /\ IsAccountMap(am) /\ DOMAIN am = DOMAIN AcctMap
      /\ \A a \in DOMAIN AcctMap : /\ am[a].Balance = AcctMap[a].Balance - Due(tx, a)
                                   /\ am[a].Nonce = AcctMap[a].Nonce
  BY <1>2, SubtractFunds
<1>4. \A a \in Addr \ DOMAIN AcctMap : Due(tx, a) = 0
  BY <1>1 DEF FundsInv, Paying, Funded, Due
<1>5. \A a \in DOMAIN outs : a \in Addr /\ IsOutputAccount(outs[a], Key)
  BY <1>2 DEF IsOutput
<1>6. \A a : BalanceIn(AcctMap, a) \in Int /\ Due(tx, a) \in Nat /\ DeltaIn(outs, a) \in Int
  BY <1>2, BalanceTerms
<1> HIDE DEF am, outs
<1>7. DOMAIN AcctMap' = (DOMAIN AcctMap \union DOMAIN outs) \ output.DeletedAccounts
  BY <1>1, <1>3 DEF UpdateAccounts
<1>8. ASSUME NEW a \in DOMAIN AcctMap'
      PROVE  /\ AcctMap'[a].Balance = BalanceIn(AcctMap, a) - Due(tx, a) + DeltaIn(outs, a)
             /\ a \in DOMAIN AcctMap => AcctMap'[a].Nonce >= AcctMap[a].Nonce
  <2> DEFINE acct == IF a \in DOMAIN am THEN am[a] ELSE EmptyAccount
  <2>1. /\ AcctMap'[a] = IF a \in DOMAIN outs THEN UpdateAccountFromOutputAccount(acct, outs[a])
                         ELSE acct
        /\ a \in DOMAIN am \union DOMAIN outs
    BY <1>1 DEF UpdateAccounts
  <2>2. acct \in Account
    BY <1>3, AccountMapEntry, EmptyAccountType
  <2>3. /\ acct.Balance = BalanceIn(AcctMap, a) - Due(tx, a) /\ acct.Nonce \in Nat
        /\ a \in DOMAIN AcctMap => acct.Nonce = AcctMap[a].Nonce
    <3>1. CASE a \in DOMAIN AcctMap
      BY <1>3, <2>2, <3>1 DEF BalanceIn, Account
    <3>2. CASE a \notin DOMAIN AcctMap
      <4>1. acct = EmptyAccount /\ Due(tx, a) = 0
        BY <1>3, <1>4, <1>5, <2>1, <3>2
      <4> QED BY <2>2, <3>2, <4>1 DEF BalanceIn, EmptyAccount
    <3> QED BY <3>1, <3>2
  <2> HIDE DEF acct
  <2>4. CASE a \in DOMAIN outs
    <3>1. /\ AcctMap'[a].Balance = acct.Balance + outs[a].BalanceDelta
          /\ AcctMap'[a].Nonce >= acct.Nonce
      BY <1>5, <2>1, <2>2, <2>4, OutputFunds
    <3>2. DeltaIn(outs, a) = outs[a].BalanceDelta
      BY <2>4 DEF DeltaIn
    <3> QED BY <2>3, <3>1, <3>2
  <2>5. CASE a \notin DOMAIN outs
    <3>1. DeltaIn(outs, a) = 0 /\ AcctMap'[a] = acct
      BY <2>1, <2>5 DEF DeltaIn
    <3> QED BY <1>6, <2>3, <3>1
  <2> QED BY <2>4, <2>5
<1> QED BY <1>4, <1>7, <1>8 DEF outs

\* Applying an output leaves no negative balance and takes no nonce back.
LEMMA UpdateFunds ==
    ASSUME IInv, FundsInv, updateStateAfterTx
    PROVE  /\ NonNegative(AcctMap')
           /\ \A a \in DOMAIN AcctMap \intersect DOMAIN AcctMap' :
                AcctMap'[a].Nonce >= AcctMap[a].Nonce
<1> DEFINE outs == output.OutputAccounts
<1>1. pc = "output" /\ output.Ok
  BY DEF updateStateAfterTx
<1>2. IsAccountMap(AcctMap) /\ tx \in Transaction /\ IsOutput(output, Addr, Key)
  BY <1>1, AccountMapsSet DEF IInv, TypeInv, ControlInv
<1>3. ASSUME NEW a \in DOMAIN AcctMap' PROVE AcctMap'[a].Balance >= 0
  <2>1. AcctMap'[a].Balance = BalanceIn(AcctMap, a) - Due(tx, a) + DeltaIn(outs, a)
        /\ a \in DOMAIN AcctMap \union DOMAIN outs
    BY AppliedBalances
  <2>2. BalanceIn(AcctMap, a) \in Int /\ Due(tx, a) \in Nat
    BY <1>2, BalanceTerms
  <2>3. CASE a \in DOMAIN outs
    <3>1. BalanceAfter(a, output) = BalanceIn(AcctMap, a) - Due(tx, a) + DeltaIn(outs, a)
      BY <2>3 DEF BalanceAfter, BalanceIn, Due, DeltaIn
    <3> QED BY <1>1, <2>1, <2>3, <3>1 DEF FundsInv
  <2>4. CASE a \notin DOMAIN outs
    <3>1. a \in DOMAIN AcctMap /\ DeltaIn(outs, a) = 0
      BY <2>1, <2>4 DEF DeltaIn
    <3>2. BalanceIn(AcctMap, a) >= 0 /\ BalanceIn(AcctMap, a) - Due(tx, a) >= 0
      <4>1. Funded(AcctMap, tx) /\ AcctMap[a].Balance >= 0 /\ BalanceIn(AcctMap, a) = AcctMap[a].Balance
        BY <1>1, <3>1 DEF FundsInv, Paying, NonNegative, BalanceIn
      <4>2. tx.EGLDValue \in Nat
        BY <1>2 DEF Transaction
      <4> QED BY <2>2, <4>1, <4>2 DEF Funded, Due
    <3> HIDE DEF outs
    <3> QED BY <2>1, <2>2, <3>1, <3>2
  <2> QED BY <2>3, <2>4
<1> QED BY <1>3, AppliedBalances DEF NonNegative

\* Applying an output keeps the invariant: after it nobody looks at marks
\* but a rollback, which does not follow.
LEMMA UpdateInv ==
    ASSUME IInv, FundsInv, updateStateAfterTx
    PROVE  FundsInv'
<1>1. NonNegative(AcctMap')
  BY UpdateFunds
<1>2. pc' = "deferred" /\ UNCHANGED marks
  BY DEF updateStateAfterTx
<1> QED BY <1>1, <1>2 DEF FundsInv, NonNegative, Paying

\* The deferred function: a rollback gives balances back that were not
\* negative.
LEMMA DeferredFunds ==
    ASSUME IInv, FundsInv, DeferredRollback \/ DeferredCommit
    PROVE  /\ FundsInv'
           /\ \A a \in DOMAIN AcctMap \intersect DOMAIN AcctMap' : AcctMap'[a].Nonce = AcctMap[a].Nonce
<1>1. pc' = "idle" /\ marks' = <<>> /\ pc = "deferred"
  BY DEF DeferredRollback, DeferredCommit, Return
<1>2. CASE DeferredCommit
  <2>1. UNCHANGED AcctMap
    BY <1>2 DEF DeferredCommit, CommitChanges
  <2> QED BY <1>1, <2>1 DEF FundsInv, NonNegative, Paying
<1>3. CASE DeferredRollback
  <2>1. 1 \in 1..Len(marks) /\ RevertToSnapshot(marks[1].id)
    BY <1>1, <1>3 DEF DeferredRollback, RollbackChanges, IInv, TypeInv, JournalInv
  <2>2. /\ DOMAIN AcctMap' = DOMAIN AcctMap
        /\ \A a \in DOMAIN AcctMap :
             /\ AcctMap'[a].Nonce = AcctMap[a].Nonce
             /\ \/ AcctMap'[a].Balance = AcctMap[a].Balance
                \/ /\ a \in DOMAIN marks[1].world
                   /\ AcctMap'[a].Balance = marks[1].world[a].Balance
    BY <2>1, RevertFunds
  <2>3. NonNegative(AcctMap')
    BY <2>1, <2>2 DEF FundsInv, NonNegative
  <2> QED BY <1>1, <2>2, <2>3 DEF FundsInv, NonNegative, Paying
<1> QED BY <1>2, <1>3

----------------------------------------------------------------------------
(* The theorems *)

\* Every step keeps balances from becoming negative.
LEMMA NextFunds == IInv /\ FundsInv /\ [Next]_vars => FundsInv'
<1> SUFFICES ASSUME IInv, FundsInv, [Next]_vars PROVE FundsInv'
  OBVIOUS
<1>1. CASE UNCHANGED vars
  BY <1>1 DEF vars, FundsInv, NonNegative, Funded, Paying, HasSender, BalanceAfter
<1>2. CASE \E t \in Tx : RejectTx(t) \/ BeginTx(t)
  BY <1>2, ChargeInv
<1>3. CASE Dispatch
  BY <1>3, SwitchFunds, TransferFunds, EmptyTransferFunds, RewardFunds DEF Dispatch
<1>4. CASE VMError \/ VMReturnFailed \/ TxStepFailed
  <2>1. /\ UNCHANGED <<AcctMap, marks, tx>> /\ pc' # "dispatch"
        /\ ~(pc' = "output" /\ output'.Ok) /\ (Paying' => Paying)
    BY <1>4 DEF VMError, VMReturnFailed, TxStepFailed, Produce, Fail, FailedOutput, NoOutput, Paying
  <2> QED BY <2>1, QuietFunds
<1>5. CASE BuiltinMove \/ BuiltinFail \/ BuiltinDone
  BY <1>5, BuiltinInv, BuiltinDoneFunds
<1>6. CASE VMStep
  BY <1>4, <1>6, BuiltinInv, MarkFunds, ReturnFunds DEF VMStep
<1>7. CASE updateStateAfterTx
  BY <1>7, UpdateInv
<1>8. CASE DeferredRollback \/ DeferredCommit
  BY <1>8, DeferredFunds
<1> QED BY <1>1, <1>2, <1>3, <1>4, <1>5, <1>6, <1>7, <1>8 DEF Next

\* Every reachable state has funds for what it is going to pay.
LEMMA FundsInvariance == Spec => []FundsInv
  BY InitFunds, NextFunds, Invariance, PTL DEF Spec

\* No sequence of transactions, whatever the VM does and however they fail,
\* leaves an account with a negative balance: the balance the executor looked
\* at is still there when the value is taken.
THEOREM BalancesNotNegative == Spec => []NoNegativeBalance
<1>1. FundsInv => NoNegativeBalance
  BY DEF FundsInv, NonNegative, NoNegativeBalance
<1> QED BY <1>1, FundsInvariance, PTL

\* No step of the executor, the VM or the builtin functions takes a nonce back;
\* a rollback restores balances and storage and leaves the nonce used.
THEOREM NoncesStay == Spec => NonceNeverGoesBack
<1> DEFINE A == \A a \in DOMAIN AcctMap \intersect DOMAIN AcctMap' :
                   AcctMap'[a].Nonce >= AcctMap[a].Nonce
<1>1. ASSUME IInv, FundsInv, Next PROVE A
  <2>1. \A a \in DOMAIN AcctMap : AcctMap[a].Nonce \in Nat
    BY <1>1, AccountMapsSet, AccountMapEntry DEF IInv, TypeInv, Account
  <2>2. ASSUME SameFunds(AcctMap, AcctMap') PROVE A
    BY <2>1, <2>2 DEF SameFunds
  <2>3. ASSUME UNCHANGED AcctMap PROVE A
    BY <2>1, <2>3
  <2>4. CASE \E t \in Tx : RejectTx(t) \/ BeginTx(t)
    BY <1>1, <2>4, ChargeFunds DEF FundsInv
  <2>5. CASE Dispatch
    <3>1. UNCHANGED AcctMap \/ DispatchTransfer \/ DispatchEmptyTransfer
      BY <2>5 DEF Dispatch, OutOfFunds, DispatchDeploy, DispatchCall, DispatchReward,
                  DispatchUnknown
    <3> QED BY <1>1, <2>2, <2>3, <3>1, TransferFunds, EmptyTransferFunds
  <2>6. CASE \/ BuiltinMove \/ BuiltinFail \/ VMSystemWrite
             \/ \E snd, rcv \in Addr, amount \in VMAmounts : VMTransfer(snd, rcv, amount)
    BY <1>1, <2>2, <2>6, BuiltinFunds
  <2>7. CASE VMRevert
    <3> DEFINE n == Len(marks)
    <3>1. n \in 1..Len(marks) /\ RevertToSnapshot(marks[n].id)
      BY <1>1, <2>7 DEF VMRevert, IInv, TypeInv
    <3> QED BY <1>1, <2>1, <3>1, RevertFunds
  <2>8. CASE BuiltinDone \/ TxStepFailed \/ VMGetSnapshot \/ VMDiscard \/ VMError
             \/ VMReturnFailed \/ VMReturnOk
    BY <2>3, <2>8 DEF BuiltinDone, TxStepFailed, VMGetSnapshot, VMDiscard, VMError,
                      VMReturnFailed, VMReturnOk
  <2>9. CASE updateStateAfterTx
    BY <1>1, <2>9, UpdateFunds
  <2>10. CASE DeferredRollback \/ DeferredCommit
    BY <1>1, <2>1, <2>10, DeferredFunds
  <2> QED BY <1>1, <2>4, <2>5, <2>6, <2>7, <2>8, <2>9, <2>10 DEF Next, VMStep
<1> HIDE DEF A
<1>2. IInv /\ FundsInv /\ [Next]_vars => [A]_vars
  BY <1>1
<1> QED BY <1>2, Invariance, FundsInvariance, PTL DEF Spec, NonceNeverGoesBack, A
----------------------------------------------------------------------------
(* EGLD is conserved *)

\* From the snapshot of the executor until the output is applied nobody moves
\* EGLD: the present world and every world a revert may bring back differ from
\* the executor's in storage, and in accounts that have nothing.
EgldInv ==
    pc \notin {"idle", "deferred"} =>
        /\ SameFunds(marks[1].world, AcctMap)
        /\ \A i \in 1..Len(marks) : SameFunds(marks[1].world, marks[i].world)

\* A transaction begins with the executor's mark.
LEMMA BeginEgld ==
    ASSUME IInv, NEW t \in Tx, BeginTx(t)
    PROVE  EgldInv'
<1>1. marks = <<>>
  BY DEF BeginTx, IInv, JournalInv
<1>2. \A i \in 1..Len(marks') : i = 1 /\ marks'[i].world = AcctMap'
  BY <1>1 DEF BeginTx, TakeMark
<1>3. Len(marks') = 1
  BY <1>1 DEF BeginTx, TakeMark
<1>4. marks'[1].world = AcctMap'
  BY <1>2, <1>3
<1> QED BY <1>2, <1>4 DEF EgldInv, SameFunds

\* A step that moves no balance and no mark.
LEMMA SameFundsEgld ==
    ASSUME IInv, EgldInv, pc \notin {"idle", "deferred"}, SameFunds(AcctMap, AcctMap'),
           UNCHANGED marks
    PROVE  EgldInv'
<1>1. SameFunds(marks[1].world, AcctMap')
  BY SameFundsTwice DEF EgldInv
<1> QED BY <1>1 DEF EgldInv

\* A revert, complete or not, brings balances back that are the same anyway.
LEMMA RevertEgld ==
    ASSUME IInv, EgldInv, pc \notin {"idle", "deferred"},
           NEW i \in 1..Len(marks), RevertToSnapshot(marks[i].id)
    PROVE  SameFunds(marks[1].world, AcctMap')
<1> DEFINE base == marks[1].world
           target == marks[i].world
<1>1. SameFunds(base, AcctMap) /\ SameFunds(base, target)
  BY DEF EgldInv
<1>2. /\ DOMAIN AcctMap' = DOMAIN AcctMap
      /\ \A a \in DOMAIN AcctMap :
           /\ AcctMap'[a].Nonce = AcctMap[a].Nonce
           /\ \/ AcctMap'[a].Balance = AcctMap[a].Balance
              \/ a \in DOMAIN target /\ AcctMap'[a].Balance = target[a].Balance
  BY RevertFunds
<1> HIDE DEF base, target
<1>3. \A a \in DOMAIN base : a \in DOMAIN AcctMap /\ AcctMap'[a].Balance = base[a].Balance
                             /\ AcctMap'[a].Nonce = base[a].Nonce
  BY <1>1, <1>2 DEF SameFunds
<1>4. \A a \in DOMAIN AcctMap' \ DOMAIN base : AcctMap'[a].Balance = 0
  BY <1>1, <1>2 DEF SameFunds
<1> QED BY <1>2, <1>3, <1>4 DEF SameFunds, base

\* Snapshots of the VM are of such worlds.
LEMMA MarkEgld ==
    ASSUME IInv, EgldInv, VMGetSnapshot \/ VMRevert \/ VMDiscard
    PROVE  EgldInv'
<1>1. pc \notin {"idle", "deferred"} /\ marks \in Seq(Marks) /\ marks # <<>>
  BY DEF VMGetSnapshot, VMRevert, VMDiscard, VMRunning, IInv, TypeInv, JournalInv
<1>2. CASE VMGetSnapshot
  <2>1. AcctMap' = AcctMap /\ Len(marks') = Len(marks) + 1
        /\ \A i \in 1..Len(marks') :
             marks'[i].world = IF i \in 1..Len(marks) THEN marks[i].world ELSE AcctMap
    BY <1>1, <1>2 DEF VMGetSnapshot, TakeMark
  <2>2. 1 \in 1..Len(marks) /\ 1 \in 1..Len(marks')
    BY <1>1, <2>1
  <2>3. marks'[1].world = marks[1].world
    BY <2>1, <2>2
  <2> QED BY <1>1, <2>1, <2>3 DEF EgldInv
<1>3. CASE VMRevert \/ VMDiscard
  <2>1. Len(marks) > 1 /\ marks' = Pop(marks)
    BY <1>3 DEF VMRevert, VMDiscard
  <2>2. Len(marks') = Len(marks) - 1 /\ \A i \in 1..Len(marks') : i \in 1..Len(marks) /\ marks'[i] = marks[i]
    BY <1>1, <2>1 DEF Pop
  <2>3. 1 \in 1..Len(marks') /\ marks'[1] = marks[1]
    BY <1>1, <2>1, <2>2
  <2>4. SameFunds(marks[1].world, AcctMap')
    <3>1. CASE VMDiscard
      BY <1>1, <3>1 DEF VMDiscard, EgldInv
    <3>2. CASE VMRevert
      <4> DEFINE n == Len(marks)
      <4>1. n \in 1..Len(marks) /\ RevertToSnapshot(marks[n].id)
        BY <1>1, <2>1, <3>2 DEF VMRevert
      <4> HIDE DEF n
      <4> QED BY <1>1, <4>1, RevertEgld
    <3> QED BY <1>3, <3>1, <3>2
  <2> QED BY <1>1, <2>2, <2>3, <2>4 DEF EgldInv
<1> QED BY <1>2, <1>3

\* Every step keeps it.
LEMMA NextEgld == IInv /\ FundsInv /\ EgldInv /\ [Next]_vars => EgldInv'
<1> SUFFICES ASSUME IInv, FundsInv, EgldInv, [Next]_vars PROVE EgldInv'
  OBVIOUS
<1>1. CASE UNCHANGED vars
  BY <1>1 DEF vars, EgldInv
<1>2. CASE \E t \in Tx : RejectTx(t) \/ BeginTx(t)
  <2>1. ASSUME NEW t \in Tx, RejectTx(t) PROVE EgldInv'
    BY <2>1 DEF RejectTx, EgldInv
  <2> QED BY <1>2, <2>1, BeginEgld
<1>3. CASE UNCHANGED <<AcctMap, marks>> /\ pc \notin {"idle", "deferred"}
  BY <1>3 DEF EgldInv
<1>4. CASE Dispatch
  <2>1. CASE DispatchTransfer
    <3>1. SameFunds(AcctMap, AcctMap')
      BY <2>1, TransferFunds
    <3> QED BY <2>1, <3>1, SameFundsEgld DEF DispatchTransfer
  <2>2. CASE DispatchEmptyTransfer
    <3>1. SameFunds(AcctMap, AcctMap')
      BY <2>2, EmptyTransferFunds
    <3> QED BY <2>2, <3>1, SameFundsEgld DEF DispatchEmptyTransfer
  <2>3. CASE ~DispatchTransfer /\ ~DispatchEmptyTransfer
    <3>1. UNCHANGED <<AcctMap, marks>> /\ pc \notin {"idle", "deferred"}
      BY <1>4, <2>3 DEF Dispatch, OutOfFunds, DispatchDeploy, DispatchCall, DispatchReward,
                        DispatchUnknown
    <3> QED BY <1>3, <3>1
  <2> QED BY <2>1, <2>2, <2>3
<1>5. CASE \/ BuiltinMove \/ BuiltinFail \/ VMSystemWrite
           \/ \E snd, rcv \in Addr, amount \in VMAmounts : VMTransfer(snd, rcv, amount)
  <2>1. SameFunds(AcctMap, AcctMap')
    BY <1>5, BuiltinFunds
  <2>2. UNCHANGED marks /\ pc \notin {"idle", "deferred"}
    BY <1>5 DEF BuiltinMove, BuiltinFail, VMSystemWrite, VMTransfer, VMRunning
  <2> QED BY <2>1, <2>2, SameFundsEgld
<1>6. CASE BuiltinDone \/ TxStepFailed \/ VMError \/ VMReturnFailed \/ VMReturnOk
  <2>1. UNCHANGED <<AcctMap, marks>> /\ pc \notin {"idle", "deferred"}
    BY <1>6 DEF BuiltinDone, TxStepFailed, VMError, VMReturnFailed, VMReturnOk
  <2> QED BY <1>3, <2>1
<1>7. CASE VMGetSnapshot \/ VMRevert \/ VMDiscard
  BY <1>7, MarkEgld
<1>8. CASE updateStateAfterTx \/ DeferredRollback \/ DeferredCommit
  <2>1. pc' \in {"idle", "deferred"}
    BY <1>8 DEF updateStateAfterTx, DeferredRollback, DeferredCommit, Return
  <2> QED BY <2>1 DEF EgldInv
<1> QED BY <1>1, <1>2, <1>4, <1>5, <1>6, <1>7, <1>8 DEF Next, VMStep

\* In every reachable state the total is known from the marks.
LEMMA EgldInvariance == Spec => []EgldInv
<1>1. Init => EgldInv
  BY DEF Init, EgldInv
<1> QED BY <1>1, NextEgld, Invariance, FundsInvariance, PTL DEF Spec

\* Accounts with nothing change no total.
LEMMA SameFundsTotal ==
    ASSUME NEW am, IsAccountMap(am), NEW am2, IsAccountMap(am2), SameFunds(am, am2)
    PROVE  EgldTotal(am2) = EgldTotal(am)
<1> DEFINE f == [a \in DOMAIN am |-> am[a].Balance]
           h == [a \in DOMAIN am2 |-> am2[a].Balance]
<1>1. Summable(f) /\ Summable(h)
  <2>1. IsFiniteSet(DOMAIN am) /\ IsFiniteSet(DOMAIN am2)
    BY FS_Subset, AddrAssumption DEF IsAccountMap
  <2>2. (\A a \in DOMAIN am : am[a].Balance \in Int) /\ \A a \in DOMAIN am2 : am2[a].Balance \in Int
    BY AccountMapEntry DEF Account
  <2> QED BY <2>1, <2>2 DEF Summable
<1>2. DOMAIN f \subseteq DOMAIN h /\ \A a \in DOMAIN h : h[a] = IF a \in DOMAIN f THEN f[a] ELSE 0
  BY DEF SameFunds
<1>3. SumFunction(h) = SumFunction(f)
  <2> HIDE DEF f, h
  <2> QED BY <1>1, <1>2, SumExtend DEF Summable
<1> QED BY <1>3 DEF EgldTotal

\* An output without deletions adds its deltas to the total and takes the value.
LEMMA AppliedTotal ==
    ASSUME IInv, FundsInv, updateStateAfterTx, HasSender(tx), output.DeletedAccounts = {}
    PROVE  EgldTotal(AcctMap') = EgldTotal(AcctMap) - tx.EGLDValue + DeltaSum(output.OutputAccounts)
<1> DEFINE D == DOMAIN AcctMap'
           outs == output.OutputAccounts
           had == [a \in D |-> BalanceIn(AcctMap, a)]
           paid == [a \in D |-> BalanceIn(AcctMap, a) - Due(tx, a)]
           added == [a \in D |-> DeltaIn(outs, a)]
           has == [a \in D |-> AcctMap'[a].Balance]
           before == [a \in DOMAIN AcctMap |-> AcctMap[a].Balance]
           deltas == [a \in DOMAIN outs |-> outs[a].BalanceDelta]
<1>1. pc = "output" /\ output.Ok
  BY DEF updateStateAfterTx
<1>2. IsAccountMap(AcctMap) /\ tx \in Transaction /\ IsOutput(output, Addr, Key)
  BY <1>1, AccountMapsSet DEF IInv, TypeInv, ControlInv
<1>3. D = DOMAIN AcctMap \union DOMAIN outs
      /\ \A a \in D : AcctMap'[a].Balance = BalanceIn(AcctMap, a) - Due(tx, a) + DeltaIn(outs, a)
  BY AppliedBalances
<1>4. \A a : BalanceIn(AcctMap, a) \in Int /\ Due(tx, a) \in Nat /\ DeltaIn(outs, a) \in Int
  BY <1>2, BalanceTerms
<1>5. tx.From \in DOMAIN AcctMap /\ tx.EGLDValue \in Nat
  BY <1>1, <1>2 DEF FundsInv, Paying, Funded, Transaction
<1>6. IsFiniteSet(D) /\ IsFiniteSet(DOMAIN AcctMap) /\ IsFiniteSet(DOMAIN outs)
  <2>1. DOMAIN AcctMap \subseteq Addr /\ DOMAIN outs \subseteq Addr /\ D \subseteq Addr
    BY <1>2, <1>3 DEF IsAccountMap, IsOutput
  <2> QED BY <2>1, FS_Subset, AddrAssumption
<1>7. \A a \in DOMAIN AcctMap : AcctMap[a].Balance \in Int
  BY <1>2, AccountMapEntry DEF Account
<1>8. \A a \in DOMAIN outs : outs[a].BalanceDelta \in Int
  BY <1>2 DEF IsOutput, IsOutputAccount
<1>9. SumFunction(had) = SumFunction(before)
  <2>1. Summable(before) /\ IsFiniteSet(DOMAIN had) /\ DOMAIN before \subseteq DOMAIN had
        /\ \A a \in DOMAIN had : had[a] = IF a \in DOMAIN before THEN before[a] ELSE 0
    BY <1>3, <1>6, <1>7 DEF Summable, BalanceIn
  <2> HIDE DEF had, before
  <2> QED BY <2>1, SumExtend
<1>10. SumFunction(added) = SumFunction(deltas)
  <2>1. Summable(deltas) /\ IsFiniteSet(DOMAIN added) /\ DOMAIN deltas \subseteq DOMAIN added
        /\ \A a \in DOMAIN added : added[a] = IF a \in DOMAIN deltas THEN deltas[a] ELSE 0
    BY <1>3, <1>6, <1>8 DEF Summable, DeltaIn
  <2> HIDE DEF added, deltas
  <2> QED BY <2>1, SumExtend
<1>11. Summable(had) /\ Summable(paid) /\ Summable(added)
       /\ DOMAIN had = D /\ DOMAIN paid = D /\ DOMAIN added = D /\ DOMAIN has = D
  BY <1>4, <1>6 DEF Summable
<1>12. SumFunction(paid) = SumFunction(had) - tx.EGLDValue
  <2>1. \A a \in D : paid[a] = had[a] + (IF a = tx.From THEN -tx.EGLDValue ELSE 0)
    BY <1>4, <1>5 DEF Due
  <2>2. -tx.EGLDValue \in Int /\ tx.From \in D
    BY <1>3, <1>5
  <2> HIDE DEF had, paid, D
  <2>3. SumFunction(paid) = SumFunction(had) + (-tx.EGLDValue)
    BY <1>11, <2>1, <2>2, SumChange
  <2>4. SumFunction(had) \in Int
    BY <1>11, SumType
  <2> QED BY <1>5, <2>3, <2>4
<1>13. SumFunction(has) = SumFunction(paid) + SumFunction(added)
  <2>1. \A a \in D : has[a] = paid[a] + added[a]
    BY <1>3
  <2> HIDE DEF has, paid, added, D
  <2> QED BY <1>11, <2>1, SumAdd
<1>14. /\ EgldTotal(AcctMap') = SumFunction(has) /\ EgldTotal(AcctMap) = SumFunction(before)
       /\ DeltaSum(outs) = SumFunction(deltas)
  BY DEF EgldTotal, DeltaSum
<1> HIDE DEF had, paid, added, has, before, deltas
<1> QED BY <1>9, <1>10, <1>12, <1>13, <1>14

\* A transaction reported as successful moves EGLD and makes or loses none,
\* whatever the VM's deltas are and whatever it reverted on the way: the sum
\* the executor checks is enough.
THEOREM EgldConserved == Spec => SuccessConservesEgld
<1>1. ASSUME IInv, FundsInv, EgldInv, Next, pc = "output", result' = "ok", HasSender(tx),
             output.DeletedAccounts = {}
      PROVE  EgldTotal(AcctMap') = EgldTotal(marks[1].world)
  <2>1. updateStateAfterTx
    <3>1. ~(\E t \in Tx : RejectTx(t) \/ BeginTx(t)) /\ ~Dispatch
      BY <1>1 DEF RejectTx, BeginTx, Dispatch, OutOfFunds, DispatchDeploy, DispatchCall,
                  DispatchTransfer, DispatchEmptyTransfer, DispatchReward, DispatchUnknown
    <3>2. ~(BuiltinMove \/ BuiltinFail \/ BuiltinDone \/ DeferredRollback \/ DeferredCommit)
      BY <1>1 DEF BuiltinMove, BuiltinFail, BuiltinDone, DeferredRollback, DeferredCommit
    <3>3. ~VMStep
      BY <1>1 DEF VMStep, VMGetSnapshot, VMRunning, VMRevert, VMDiscard, VMTransfer, VMSystemWrite,
                  VMError, VMReturnFailed, VMReturnOk
    <3>4. ~TxStepFailed
      BY <1>1 DEF TxStepFailed
    <3> QED BY <1>1, <3>1, <3>2, <3>3, <3>4 DEF Next
  <2>2. EgldTotal(AcctMap') =
            EgldTotal(AcctMap) - tx.EGLDValue + DeltaSum(output.OutputAccounts)
    BY <1>1, <2>1, AppliedTotal
  <2>3. DeltaSum(output.OutputAccounts) = tx.EGLDValue
    BY <1>1, <2>1 DEF updateStateAfterTx
  <2>4. IsAccountMap(AcctMap) /\ IsAccountMap(marks[1].world)
    <3>1. 1 \in 1..Len(marks) /\ marks \in Seq(Marks)
      BY <1>1 DEF IInv, TypeInv, JournalInv
    <3> QED BY <1>1, <3>1, MarkType, AccountMapsSet DEF IInv, TypeInv
  <2>5. EgldTotal(AcctMap) = EgldTotal(marks[1].world)
    BY <1>1, <2>4, SameFundsTotal DEF EgldInv
  <2>6. EgldTotal(AcctMap) \in Int /\ tx.EGLDValue \in Nat
    <3>1. tx \in Transaction
      BY <1>1 DEF IInv, ControlInv
    <3>2. Summable([a \in DOMAIN AcctMap |-> AcctMap[a].Balance])
      BY <2>4, FS_Subset, AddrAssumption, AccountMapEntry DEF IsAccountMap, Account, Summable
    <3>3. EgldTotal(AcctMap) \in Int
      BY <3>2, SumType DEF EgldTotal
    <3> QED BY <3>1, <3>3 DEF Transaction
  <2> QED BY <2>2, <2>3, <2>5, <2>6
<1>2. IInv /\ FundsInv /\ EgldInv /\ [Next]_vars =>
        [pc = "output" /\ result' = "ok" /\ HasSender(tx) /\ output.DeletedAccounts = {} =>
           EgldTotal(AcctMap') = EgldTotal(marks[1].world)]_vars
  BY <1>1
<1> QED BY <1>2, Invariance, FundsInvariance, EgldInvariance, PTL DEF Spec, SuccessConservesEgld

----------------------------------------------------------------------------
(* Ledgers *)

\* Every party has the same balance and the same storage.
SameLedger(am, am2) == LedgerView(am2) = LedgerView(am)

\* A ledger is one of the abstract specification.
LEMMA LedgerType ==
    ASSUME NEW am, IsAccountMap(am)
    PROVE  LedgerView(am) \in [Parties -> Atomic!Entry]
<1> SUFFICES ASSUME NEW a \in Parties PROVE LedgerView(am)[a] \in Atomic!Entry
  BY DEF LedgerView
<1>1. CASE a \in DOMAIN am
  <2>1. am[a].Balance \in Int /\ am[a].Storage \in [Key -> Nat]
    BY <1>1, AccountMapEntry DEF Account
  <2> QED BY <1>1, <2>1 DEF LedgerView, Ledger, Atomic!Entry
<1>2. CASE a \notin DOMAIN am
  BY <1>2 DEF LedgerView, Atomic!Entry
<1> QED BY <1>1, <1>2

\* An account created on the way is in no ledger.
LEMMA EnsureLedger ==
    ASSUME NEW am, NEW a
    PROVE  SameLedger(am, ensureAccountExists(am, a))
<1>1. CASE a \in DOMAIN am
  BY <1>1 DEF ensureAccountExists, SameLedger
<1>2. CASE a \notin DOMAIN am
  <2> DEFINE am2 == ensureAccountExists(am, a)
  <2>1. am2 = PutEntry(am, a, EmptyAccount)
    BY <1>2 DEF ensureAccountExists, CreateAccount, PutAccount, EmptyAccount
  <2>2. DOMAIN am2 = DOMAIN am \union {a} /\ am2[a] = EmptyAccount
        /\ \A b \in DOMAIN am : am2[b] = am[b]
    BY <1>2, <2>1 DEF PutEntry
  <2> HIDE DEF am2
  <2>3. Ledger(am2, a) = [Balance |-> 0, Storage |-> [k \in Key |-> 0]]
    BY <2>2 DEF Ledger, EmptyAccount
  <2>4. \A b \in Parties :
           (IF b \in DOMAIN am2 THEN Ledger(am2, b) ELSE [Balance |-> 0, Storage |-> [k \in Key |-> 0]])
             = IF b \in DOMAIN am THEN Ledger(am, b) ELSE [Balance |-> 0, Storage |-> [k \in Key |-> 0]]
    BY <1>2, <2>2, <2>3 DEF Ledger
  <2> QED BY <2>4 DEF SameLedger, LedgerView, am2
<1> QED BY <1>1, <1>2

\* The worlds of a state, and the constant one, are account maps.
LEMMA WorldTypes ==
    ASSUME IInv
    PROVE  /\ IsAccountMap(AcctMap) /\ IsAccountMap(Genesis) /\ marks \in Seq(Marks)
           /\ \A i \in 1..Len(marks) : IsAccountMap(marks[i].world)
           /\ pc # "idle" => 1 \in 1..Len(marks) /\ marks[1].id = 0 /\ Snapshots[1] = marks[1].world
           /\ pc \notin {"idle", "deferred"} \/ err =>
                 \A i \in 1..Len(marks) : DOMAIN marks[i].world \subseteq DOMAIN AcctMap
<1>1. marks \in Seq(Marks) /\ Snapshots \in Seq(AccountMaps) /\ IsAccountMap(AcctMap)
  BY AccountMapsSet DEF IInv, TypeInv
<1>2. \A i \in 1..Len(marks) : marks[i].id \in Nat /\ marks[i].world \in AccountMaps
  BY <1>1, MarkType
<1>3. \A i \in 1..Len(marks) : marks[i].id + 1 \in 1..Len(Snapshots)
                               /\ Snapshots[marks[i].id + 1] = marks[i].world
  BY <1>1, <1>2 DEF IInv, JournalInv, MarksHold
<1>4. pc # "idle" => 1 \in 1..Len(marks) /\ marks[1].id = 0
  BY <1>1 DEF IInv, JournalInv
<1>5. pc # "idle" => Snapshots[1] = marks[1].world
  BY <1>3, <1>4
<1>6. pc \notin {"idle", "deferred"} \/ err =>
          \A i \in 1..Len(marks) : DOMAIN marks[i].world \subseteq DOMAIN AcctMap
  BY <1>3 DEF IInv, SnapshotsWithin, TypeInv
<1> QED BY <1>1, <1>2, <1>4, <1>5, <1>6, AccountMapsSet, GenesisAssumption

\* What a revert to a mark does with an account: it gives back balance and
\* storage, of everybody when no account was created since.
LEMMA RevertedAccounts ==
    ASSUME IInv, NEW i \in 1..Len(marks), RevertToSnapshot(marks[i].id)
    PROVE  LET target == marks[i].world IN
           \E visited \in Visitable(AcctMap, target) :
              /\ visited \subseteq DOMAIN AcctMap \intersect DOMAIN target
              /\ DOMAIN AcctMap' = DOMAIN AcctMap
              /\ \A a \in DOMAIN AcctMap :
                    /\ AcctMap'[a].Code = AcctMap[a].Code
                    /\ Ledger(AcctMap', a) = IF a \in visited THEN Ledger(target, a)
                                             ELSE Ledger(AcctMap, a)
<1> DEFINE target == marks[i].world
<1>1. marks[i].id \in Nat /\ Snapshots[marks[i].id + 1] = target
  BY MarkType DEF IInv, TypeInv, JournalInv, MarksHold
<1>2. PICK visited \in Visitable(AcctMap, target) :
          AcctMap' = LoadAccountStorageFrom(AcctMap, target, visited)
  BY <1>1 DEF RevertToSnapshot
<1>3. visited \subseteq DOMAIN AcctMap \intersect DOMAIN target
  BY <1>2 DEF Visitable
<1>4. IsAccountMap(AcctMap)
  BY AccountMapsSet DEF IInv, TypeInv
<1> HIDE DEF target
<1>5. DOMAIN AcctMap' = DOMAIN AcctMap
  BY <1>2 DEF LoadAccountStorageFrom
<1>6. ASSUME NEW a \in DOMAIN AcctMap
      PROVE  /\ AcctMap'[a].Code = AcctMap[a].Code
             /\ Ledger(AcctMap', a) = IF a \in visited THEN Ledger(target, a) ELSE Ledger(AcctMap, a)
  <2>1. AcctMap[a] \in Account
    BY <1>4, AccountMapEntry
  <2>2. CASE a \in visited
    <3>1. AcctMap'[a] =
              [AcctMap[a] EXCEPT !.Storage = target[a].Storage, !.Balance = target[a].Balance]
      BY <1>2, <2>2 DEF LoadAccountStorageFrom
    <3>2. AcctMap'[a].Code = AcctMap[a].Code /\ AcctMap'[a].Storage = target[a].Storage
          /\ AcctMap'[a].Balance = target[a].Balance
      BY <2>1, <3>1 DEF Account
    <3> QED BY <2>2, <3>2 DEF Ledger
  <2>3. CASE a \notin visited
    BY <1>2, <2>3 DEF LoadAccountStorageFrom, Ledger
  <2> QED BY <2>2, <2>3
<1> QED BY <1>2, <1>3, <1>5, <1>6 DEF target

\* A revert over a created account leaves a ledger that has not changed as it
\* is; without created accounts it brings the ledger of the mark back.
LEMMA RevertLedger ==
    ASSUME IInv, NEW i \in 1..Len(marks), RevertToSnapshot(marks[i].id),
           DOMAIN marks[i].world \subseteq DOMAIN AcctMap,
           \/ Unrestorable(AcctMap, marks[i].world) = {}
           \/ SameLedger(marks[i].world, AcctMap)
    PROVE  SameLedger(marks[i].world, AcctMap')
<1> DEFINE target == marks[i].world
           Entry(am, a) == IF a \in DOMAIN am THEN Ledger(am, a)
                           ELSE [Balance |-> 0, Storage |-> [k \in Key |-> 0]]
<1>1. PICK visited \in Visitable(AcctMap, target) :
              /\ visited \subseteq DOMAIN AcctMap \intersect DOMAIN target
              /\ DOMAIN AcctMap' = DOMAIN AcctMap
              /\ \A a \in DOMAIN AcctMap :
                    Ledger(AcctMap', a) = IF a \in visited THEN Ledger(target, a)
                                          ELSE Ledger(AcctMap, a)
  BY RevertedAccounts
<1> HIDE DEF target
<1>2. ASSUME NEW a \in Parties PROVE Entry(AcctMap', a) = Entry(target, a)
  <2>1. CASE Unrestorable(AcctMap, target) = {}
    <3>1. visited = DOMAIN AcctMap \intersect DOMAIN target
      BY <2>1 DEF Visitable
    <3>2. a \in DOMAIN AcctMap => a \in DOMAIN target
      BY <2>1 DEF Unrestorable, Parties
    <3>3. DOMAIN target \subseteq DOMAIN AcctMap
      BY DEF target
    <3> QED BY <1>1, <3>1, <3>2, <3>3
  <2>2. CASE SameLedger(target, AcctMap)
    <3>1. Entry(AcctMap, a) = Entry(target, a)
      <4>1. LedgerView(AcctMap)[a] = LedgerView(target)[a]
        BY <2>2 DEF SameLedger
      <4> QED BY <4>1 DEF LedgerView
    <3> QED BY <1>1, <3>1
  <2> QED BY <2>1, <2>2 DEF target
<1> QED BY <1>2 DEF SameLedger, LedgerView, target

\* Charging a transaction, or refusing it, changes the sender's nonce and, when
\* the transaction starts, takes the gas from its balance.
LEMMA ChargedAccounts ==
    ASSUME IInv, NEW t \in Tx, RejectTx(t) \/ BeginTx(t)
    PROVE  /\ IsAccountMap(AcctMap') /\ DOMAIN AcctMap' = DOMAIN AcctMap
           /\ \A a \in DOMAIN AcctMap :
                 /\ AcctMap'[a].Storage = AcctMap[a].Storage /\ AcctMap'[a].Code = AcctMap[a].Code
                 /\ AcctMap'[a].Balance <= AcctMap[a].Balance
                 /\ a # t.From \/ pc' = "idle" => AcctMap'[a].Balance = AcctMap[a].Balance
<1>1. IsAccountMap(AcctMap) /\ t \in Transaction
  BY AccountMapsSet, TxAssumption DEF IInv, TypeInv
<1>2. \A a \in DOMAIN AcctMap : AcctMap[a].Balance \in Int
  BY <1>1, AccountMapEntry DEF Account
<1>3. CASE UNCHANGED AcctMap
  BY <1>1, <1>2, <1>3
<1> DEFINE am == IncNonce(AcctMap, t.From)
           am2 == UpdateWorldStateBefore(AcctMap, t.From, t.GasPayment)
<1>4. CASE t.From \in DOMAIN AcctMap /\ (AcctMap' = am \/ (AcctMap' = am2 /\ pc' = "dispatch"))
  <2> DEFINE one == [AcctMap[t.From] EXCEPT !.Nonce = @ + 1]
             two == [am[t.From] EXCEPT !.Balance = @ - t.GasPayment]
  <2>1. AcctMap[t.From] \in Account /\ t.GasPayment \in Nat
    BY <1>1, <1>4, AccountMapEntry DEF Transaction
  <2>2. IsAccountMap(am) /\ DOMAIN am = DOMAIN AcctMap
        /\ IsAccountMap(am2) /\ DOMAIN am2 = DOMAIN AcctMap
    BY <1>1, <1>4, <2>1, ChargeType
  <2>3. one.Storage = AcctMap[t.From].Storage /\ one.Code = AcctMap[t.From].Code
        /\ one.Balance = AcctMap[t.From].Balance
    BY <2>1 DEF Account
  <2>4. am = [AcctMap EXCEPT ![t.From] = one]
    BY DEF IncNonce
  <2>5. am2 = [am EXCEPT ![t.From] = two]
    BY DEF UpdateWorldStateBefore
  <2> HIDE DEF am, am2, one
  <2>6. am[t.From] \in Account /\ am[t.From] = one /\ \A a \in DOMAIN am \ {t.From} : am[a] = AcctMap[a]
    BY <1>4, <2>2, <2>4, AccountMapEntry
  <2>7. two.Storage = one.Storage /\ two.Code = one.Code /\ two.Balance = one.Balance - t.GasPayment
    BY <2>6 DEF Account
  <2> HIDE DEF two
  <2>8. am2[t.From] = two /\ \A a \in DOMAIN am \ {t.From} : am2[a] = am[a]
    BY <1>4, <2>2, <2>5
  <2>9. two.Balance <= AcctMap[t.From].Balance
    <3>1. AcctMap[t.From].Balance \in Int
      BY <1>2, <1>4
    <3> QED BY <2>1, <2>3, <2>7, <3>1
  <2>10. CASE AcctMap' = am
    BY <1>2, <2>2, <2>3, <2>6, <2>10
  <2>11. CASE AcctMap' = am2 /\ pc' = "dispatch"
    BY <1>2, <2>2, <2>3, <2>6, <2>7, <2>8, <2>9, <2>11
  <2> QED BY <1>4, <2>10, <2>11
<1> QED BY <1>3, <1>4 DEF RejectTx, BeginTx

----------------------------------------------------------------------------
(* A running transaction can be undone *)

\* A revert to any mark would be complete.
Restorable == \A i \in 1..Len(marks) : Unrestorable(AcctMap, marks[i].world) = {}

\* A single transfer has created its recipient and has not moved anything.
SinglePending ==
    /\ pc = "builtin" /\ tx.Type = "Transfer" /\ Len(pending) = 1
    /\ AcctMap[tx.To].Code = NoCode
    /\ SameLedger(marks[1].world, AcctMap)

\* It failed, which leaves nothing to undo.
NothingMoved == pc = "deferred" /\ SameLedger(marks[1].world, AcctMap)

\* Nothing can fail any more.
Finishing ==
    \/ pc = "builtin" /\ tx.Type = "Transfer" /\ pending = <<>>
    \/ pc = "output" /\ output.Ok
    \/ pc = "deferred" /\ ~err

\* Contracts that create no account while they run cannot make a rollback stop
\* half way; the one account the executor creates itself, the recipient of a
\* single token transfer, comes before anything is moved, and has no code that
\* could refuse the tokens.
UndoInv ==
    /\ pc # "idle" => Restorable \/ SinglePending \/ NothingMoved \/ Finishing
    /\ pc \in {"dispatch", "vm", "vmfault"} => Restorable
    /\ pc = "dispatch" => tx \in Tx

\* A transaction starts with the world of its mark.
LEMMA BeginUndo ==
    ASSUME IInv, NEW t \in Tx, RejectTx(t) \/ BeginTx(t)
    PROVE  UndoInv'
<1>1. marks = <<>> /\ pc = "idle"
  BY DEF RejectTx, BeginTx, IInv, JournalInv
<1>2. CASE RejectTx(t)
  BY <1>1, <1>2 DEF RejectTx, UndoInv
<1>3. CASE BeginTx(t)
  <2>1. pc' = "dispatch" /\ tx' \in Tx /\ \A i \in 1..Len(marks') : marks'[i].world = AcctMap'
    BY <1>1, <1>3 DEF BeginTx, TakeMark
  <2> QED BY <2>1 DEF UndoInv, Restorable, Unrestorable
<1> QED BY <1>2, <1>3

\* A step that creates at most the system account.
LEMMA WriterUndo ==
    ASSUME UNCHANGED marks, DOMAIN AcctMap' \subseteq DOMAIN AcctMap \union {SystemAccount},
           pc' \notin {"idle", "dispatch"},
           Restorable \/ NothingMoved' \/ Finishing',
           pc' \in {"vm", "vmfault"} => Restorable
    PROVE  UndoInv'
<1>1. Restorable => Restorable'
  BY DEF Restorable, Unrestorable
<1> QED BY <1>1 DEF UndoInv

\* The switch but for transfers: no world changes.
LEMMA SwitchUndo ==
    ASSUME UndoInv,
           OutOfFunds \/ DispatchDeploy \/ DispatchCall \/ DispatchReward \/ DispatchUnknown
    PROVE  UndoInv'
<1>1. /\ pc = "dispatch" /\ UNCHANGED <<AcctMap, marks>>
      /\ pc' \in {"output", "vm", "builtin", "deferred"}
  BY DEF OutOfFunds, DispatchDeploy, DispatchCall, DispatchReward, DispatchUnknown, Produce, Fail
<1> QED BY <1>1, WriterUndo DEF UndoInv

\* A sequence is empty exactly when it has no length.
LEMMA SequenceLength ==
    ASSUME NEW s \in Seq(Nat)
    PROVE  /\ Len(s) \in Nat
           /\ s = <<>> <=> Len(s) = 0
           /\ s # <<>> => Len(s) > 0 /\ Len(Tail(s)) = Len(s) - 1 /\ Tail(s) \in Seq(Nat)
<1>1. Len(s) = 0 => s = <<>>
  OBVIOUS
<1>2. s = <<>> => Len(s) = 0
  OBVIOUS
<1>3. Len(s) \in Nat
  OBVIOUS
<1>4. s # <<>> => Len(s) > 0
  BY <1>1, <1>3
<1>5. s # <<>> => Len(Tail(s)) = Len(s) - 1 /\ Tail(s) \in Seq(Nat)
  OBVIOUS
<1> QED BY <1>1, <1>2, <1>3, <1>4, <1>5

\* A transfer leaves the accounts alone, or creates the recipient of a single
\* token transfer.
LEMMA TransferCases ==
    ASSUME IInv, DispatchTransfer
    PROVE  /\ pc' = "output" => UNCHANGED AcctMap /\ tx.ESDTValue = <<>>
           /\ pc' = "builtin" => tx.ESDTValue # <<>>
           /\ pc' \in {"output", "builtin"}
           /\ \/ UNCHANGED AcctMap
              \/ /\ pc' = "builtin" /\ tx.To \notin DOMAIN AcctMap /\ Len(pending') = 1
                 /\ AcctMap' = ensureAccountExists(AcctMap, tx.To)
<1> DEFINE esdt == tx.ESDTValue
<1>1. esdt \in Seq(Nat)
  BY DEF DispatchTransfer, IInv, ControlInv, Transaction
<1>2. DispatchTransfer
  OBVIOUS
<1> HIDE DEF esdt
<1>3. \/ esdt = <<>> /\ Len(esdt) = 0
      \/ esdt # <<>> /\ Len(esdt) = 1
      \/ esdt # <<>> /\ Len(esdt) > 1 /\ Len(esdt) # 1
  <2> DEFINE n == Len(esdt)
  <2>1. n \in Nat /\ (esdt = <<>> <=> n = 0)
    BY <1>1, SequenceLength
  <2> HIDE DEF n
  <2>2. n = 0 \/ n = 1 \/ (n > 1 /\ n # 1)
    BY <2>1
  <2>3. n = 1 \/ n > 1 => n # 0
    BY <2>1
  <2> QED BY <2>1, <2>2, <2>3 DEF n
<1>4. CASE esdt = <<>> /\ Len(esdt) = 0
  <2>1. Len(esdt) # 1 /\ ~(Len(esdt) > 1)
    BY <1>4
  <2> QED BY <1>2, <1>4, <2>1 DEF DispatchTransfer, Produce, esdt
<1>5. CASE esdt # <<>> /\ Len(esdt) = 1
  <2>1. pc' = "builtin" /\ AcctMap' = ensureAccountExists(AcctMap, tx.To) /\ pending' = esdt
    BY <1>2, <1>5 DEF DispatchTransfer, esdt
  <2>2. tx.To \in DOMAIN AcctMap => UNCHANGED AcctMap
    BY <2>1 DEF ensureAccountExists
  <2> QED BY <1>5, <2>1, <2>2 DEF esdt
<1>6. CASE esdt # <<>> /\ Len(esdt) > 1 /\ Len(esdt) # 1
  BY <1>2, <1>6 DEF DispatchTransfer, esdt
<1> QED BY <1>3, <1>4, <1>5, <1>6

\* A transfer of nothing leaves nothing to undo.
LEMMA EmptyTransferUndo ==
    ASSUME IInv, FundsInv, DispatchEmptyTransfer
    PROVE  UndoInv'
<1>1. pc = "dispatch" /\ pc' = "deferred" /\ UNCHANGED marks
      /\ AcctMap' = ensureAccountExists(AcctMap, tx.To)
  BY DEF DispatchEmptyTransfer, Fail
<1>2. 1 \in 1..Len(marks)
  BY <1>1, WorldTypes
<1>3. marks[1].world = AcctMap
  BY <1>1, <1>2 DEF FundsInv
<1>4. SameLedger(marks[1].world, AcctMap')
  BY <1>1, <1>3, EnsureLedger
<1>5. NothingMoved'
  BY <1>1, <1>4 DEF NothingMoved, SameLedger, LedgerView, Ledger
<1> QED BY <1>1, <1>5 DEF UndoInv

\* So a transfer can be undone, or has yet to move its only token amount.
LEMMA TransferUndo ==
    ASSUME IInv, FundsInv, UndoInv, DispatchTransfer
    PROVE  UndoInv'
<1>1. pc = "dispatch" /\ tx.Type = "Transfer" /\ UNCHANGED <<marks, tx>> /\ Restorable
      /\ pc' \in {"output", "builtin"}
  BY TransferCases DEF DispatchTransfer, UndoInv
<1>2. CASE UNCHANGED AcctMap
  BY <1>1, <1>2, WriterUndo
<1>3. CASE /\ pc' = "builtin" /\ tx.To \notin DOMAIN AcctMap /\ Len(pending') = 1
           /\ AcctMap' = ensureAccountExists(AcctMap, tx.To)
  <2>1. 1 \in 1..Len(marks)
    BY <1>1, WorldTypes
  <2>2. marks[1].world = AcctMap
    BY <1>1, <2>1 DEF FundsInv
  <2>3. SameLedger(marks[1].world, AcctMap')
    BY <1>3, <2>2, EnsureLedger
  <2>4. AcctMap'[tx.To].Code = NoCode
    <3>1. AcctMap' = PutEntry(AcctMap, tx.To, EmptyAccount)
      BY <1>3 DEF ensureAccountExists, CreateAccount, PutAccount, EmptyAccount
    <3> QED BY <3>1 DEF PutEntry, EmptyAccount
  <2>5. SinglePending'
    BY <1>1, <1>3, <2>3, <2>4 DEF SinglePending, SameLedger, LedgerView, Ledger
  <2> QED BY <1>3, <2>5 DEF UndoInv
<1> QED BY <1>2, <1>3, TransferCases

\* The executor's builtin transfers: the last one of a transfer is final, and
\* a failure after the recipient was created has written nothing.
LEMMA BuiltinUndo ==
    ASSUME IInv, UndoInv, BuiltinMove \/ BuiltinFail \/ BuiltinDone
    PROVE  UndoInv'
<1>1. pc = "builtin" /\ UNCHANGED <<marks, tx>>
  BY DEF BuiltinMove, BuiltinFail, BuiltinDone
<1>2. Restorable \/ SinglePending \/ Finishing
  BY <1>1 DEF UndoInv, NothingMoved
<1>3. IsAccountMap(AcctMap) /\ tx.From \in DOMAIN AcctMap /\ tx.To \in DOMAIN AcctMap
      /\ pending \in Seq(Nat)
  BY <1>1, WorldTypes DEF IInv, ControlInv, TypeInv
<1>4. CASE BuiltinMove
  <2>1. /\ pc' = "builtin" /\ pending # <<>> /\ pending' = Tail(pending) /\ Head(pending) \in Nat
        /\ CanDebit(AcctMap, tx.From, Head(pending))
        /\ AcctMap' = Credit(Debit(AcctMap, tx.From, Head(pending)), tx.To, Head(pending))
    BY <1>3, <1>4 DEF BuiltinMove, MoveTokens
  <2>2. DOMAIN AcctMap' = DOMAIN AcctMap
    BY <1>3, <2>1, MoveType
  <2>3. SinglePending => Finishing'
    <3> SUFFICES ASSUME SinglePending PROVE Finishing'
      OBVIOUS
    <3>1. Len(pending) = 1 /\ tx.Type = "Transfer"
      BY DEF SinglePending
    <3>2. pending' = <<>>
      <4>1. pending \in Seq(Nat) /\ Len(pending) = 1
        BY <1>3, <3>1
      <4>2. Tail(pending) \in Seq(Nat) /\ Len(Tail(pending)) = 0
        BY <1>3, <2>1, <3>1, SequenceLength
      <4>3. Tail(pending) = <<>>
        BY <4>2, SequenceLength
      <4> QED BY <2>1, <4>3
    <3> QED BY <1>1, <2>1, <3>1, <3>2 DEF Finishing
  <2>4. ~Finishing
    BY <1>1, <2>1 DEF Finishing
  <2> QED BY <1>1, <1>2, <2>1, <2>2, <2>3, <2>4, WriterUndo
<1>5. CASE BuiltinFail
  <2>1. pc' = "deferred" /\ pending # <<>> /\ Head(pending) \in Nat
    BY <1>3, <1>5 DEF BuiltinFail, Fail
  <2>2. DOMAIN AcctMap' = DOMAIN AcctMap
    <3>1. \/ UNCHANGED AcctMap
          \/ /\ CanDebit(AcctMap, tx.From, Head(pending))
             /\ AcctMap' = Debit(AcctMap, tx.From, Head(pending))
      BY <1>5 DEF BuiltinFail, worldVars
    <3> QED BY <1>3, <2>1, <3>1, MoveType
  <2>3. SinglePending => NothingMoved'
    <3> SUFFICES ASSUME SinglePending PROVE NothingMoved'
      OBVIOUS
    <3>1. Payable(tx.To)
      BY DEF Payable, SinglePending
    <3>2. UNCHANGED AcctMap
      BY <1>5, <3>1 DEF BuiltinFail, worldVars
    <3> QED BY <1>1, <2>1, <3>2 DEF NothingMoved, SinglePending, SameLedger, LedgerView, Ledger
  <2>4. ~Finishing
    BY <1>1, <2>1 DEF Finishing
  <2> QED BY <1>1, <1>2, <2>1, <2>2, <2>3, <2>4, WriterUndo
<1>6. CASE BuiltinDone
  <2>1. /\ UNCHANGED AcctMap /\ pending = <<>> /\ pc' \in {"vm", "output"}
        /\ pc' = "vm" => tx.Type = "ScCall"
        /\ pc' = "output" => output' = EmptyOk
    BY <1>6 DEF BuiltinDone, Produce
  <2>2. pc' = "output" => Finishing'
    BY <2>1 DEF Finishing, EmptyOk, NoOutput
  <2>3. pc' = "vm" => Restorable
    BY <1>1, <1>2, <2>1 DEF SinglePending, Finishing
  <2> QED BY <1>1, <2>1, <2>2, <2>3, WriterUndo
<1> QED BY <1>4, <1>5, <1>6

\* While the VM runs.
LEMMA VMUndo ==
    ASSUME Creatable = {}, IInv, UndoInv, VMStep
    PROVE  UndoInv'
<1>1. pc \in {"vm", "vmfault"} /\ Restorable /\ pc' \in {"vm", "vmfault", "output", "deferred"}
  BY DEF VMStep, VMGetSnapshot, VMRevert, VMDiscard, VMTransfer, VMSystemWrite, VMError,
         VMReturnFailed, VMReturnOk, VMRunning, Fail, Produce, MoveTokens, UndoInv
<1>2. IsAccountMap(AcctMap) /\ marks \in Seq(Marks)
  BY WorldTypes
<1>3. CASE VMError \/ VMReturnFailed \/ VMReturnOk
  <2>1. UNCHANGED <<AcctMap, marks>>
    BY <1>3 DEF VMError, VMReturnFailed, VMReturnOk
  <2> QED BY <1>1, <2>1, WriterUndo
<1>4. CASE VMSystemWrite
  <2> DEFINE am == ensureAccountExists(AcctMap, SystemAccount)
  <2>1. UNCHANGED marks /\ AcctMap' = WriteStorage(am, SystemAccount, TokenKey, 1)
    BY <1>4 DEF VMSystemWrite
  <2>2. IsAccountMap(am) /\ DOMAIN am = DOMAIN AcctMap \union {SystemAccount}
    BY <1>2, EnsureType, AddrAssumption
  <2> HIDE DEF am
  <2>3. DOMAIN AcctMap' = DOMAIN am
    <3>1. SystemAccount \in DOMAIN am /\ 1 \in Nat
      BY <2>2
    <3>2. DOMAIN WriteStorage(am, SystemAccount, TokenKey, 1) = DOMAIN am
      <4>1. IsAccountMap(am)
        BY <2>2
      <4> QED BY <4>1, <3>1, WriteStorageType, KeyAssumption
    <3> QED BY <2>1, <3>2
  <2>4. DOMAIN AcctMap' \subseteq DOMAIN AcctMap \union {SystemAccount} /\ UNCHANGED marks
    BY <2>1, <2>2, <2>3
  <2> QED BY <1>1, <2>4, WriterUndo
<1>5. ASSUME NEW snd \in Addr, NEW rcv \in Addr, NEW amount \in VMAmounts,
             VMTransfer(snd, rcv, amount)
      PROVE  UndoInv'
  <2>1. UNCHANGED marks /\ snd \in DOMAIN AcctMap /\ rcv \in DOMAIN AcctMap /\ amount \in Nat
    BY <1>5 DEF VMTransfer, VMRunning, VMAmounts
  <2>2. ensureAccountExists(AcctMap, rcv) = AcctMap
    BY <2>1 DEF ensureAccountExists
  <2>3. \/ UNCHANGED AcctMap
        \/ CanDebit(AcctMap, snd, amount) /\ AcctMap' = Debit(AcctMap, snd, amount)
        \/ /\ CanDebit(AcctMap, snd, amount)
           /\ AcctMap' = Credit(Debit(AcctMap, snd, amount), rcv, amount)
    BY <1>5, <2>2 DEF VMTransfer, MoveTokens
  <2>4. DOMAIN AcctMap' = DOMAIN AcctMap
    BY <1>2, <2>1, <2>3, MoveType
  <2> QED BY <1>1, <2>1, <2>4, WriterUndo
<1>6. CASE VMGetSnapshot
  <2>1. AcctMap' = AcctMap /\ pc' = "vm"
        /\ \A i \in 1..Len(marks') :
             marks'[i].world = IF i \in 1..Len(marks) THEN marks[i].world ELSE AcctMap
    BY <1>2, <1>6 DEF VMGetSnapshot, VMRunning, TakeMark
  <2>2. Restorable'
    BY <1>1, <2>1 DEF Restorable, Unrestorable
  <2> QED BY <2>1, <2>2 DEF UndoInv
<1>7. CASE VMRevert \/ VMDiscard
  <2>1. Len(marks) > 1 /\ marks' = Pop(marks) /\ pc' = "vm"
    BY <1>7 DEF VMRevert, VMDiscard
  <2>2. \A i \in 1..Len(marks') : i \in 1..Len(marks) /\ marks'[i] = marks[i]
    BY <1>2, <2>1 DEF Pop
  <2>3. DOMAIN AcctMap' = DOMAIN AcctMap
    <3>1. CASE VMDiscard
      BY <3>1 DEF VMDiscard
    <3>2. CASE VMRevert
      <4> DEFINE n == Len(marks)
      <4>1. n \in 1..Len(marks) /\ RevertToSnapshot(marks[n].id)
        BY <1>2, <2>1, <3>2 DEF VMRevert
      <4> HIDE DEF n
      <4> QED BY <4>1, RevertedAccounts
    <3> QED BY <1>7, <3>1, <3>2
  <2>4. Restorable'
    BY <1>1, <2>2, <2>3 DEF Restorable, Unrestorable
  <2> QED BY <2>1, <2>4 DEF UndoInv
<1> QED BY <1>3, <1>4, <1>5, <1>6, <1>7 DEF VMStep

\* The end of a transaction.
LEMMA EndUndo ==
    ASSUME IInv, UndoInv,
           updateStateAfterTx \/ TxStepFailed \/ DeferredRollback \/ DeferredCommit
    PROVE  UndoInv'
<1>1. CASE updateStateAfterTx
  <2>1. pc' = "deferred" /\ ~err'
    BY <1>1 DEF updateStateAfterTx, IInv, ControlInv
  <2> QED BY <2>1 DEF UndoInv, Finishing
<1>2. CASE TxStepFailed
  <2>1. pc = "output" /\ ~output.Ok /\ pc' = "deferred" /\ UNCHANGED <<AcctMap, marks>>
    BY <1>2 DEF TxStepFailed
  <2>2. Restorable
    BY <2>1 DEF UndoInv, SinglePending, NothingMoved, Finishing
  <2> QED BY <2>1, <2>2, WriterUndo
<1>3. CASE DeferredRollback \/ DeferredCommit
  <2>1. pc' = "idle"
    BY <1>3 DEF DeferredRollback, DeferredCommit, Return
  <2> QED BY <2>1 DEF UndoInv
<1> QED BY <1>1, <1>2, <1>3

\* Every step keeps a transaction one that can be undone.
LEMMA NextUndo ==
    ASSUME Creatable = {}
    PROVE  IInv /\ FundsInv /\ UndoInv /\ [Next]_vars => UndoInv'
<1> SUFFICES ASSUME IInv, FundsInv, UndoInv, [Next]_vars PROVE UndoInv'
  OBVIOUS
<1>1. CASE UNCHANGED vars
  BY <1>1 DEF vars, UndoInv, Restorable, Unrestorable, SinglePending, NothingMoved, SameLedger,
              LedgerView, Ledger, Finishing
<1>2. CASE \E t \in Tx : RejectTx(t) \/ BeginTx(t)
  BY <1>2, BeginUndo
<1>3. CASE Dispatch
  BY <1>3, SwitchUndo, TransferUndo, EmptyTransferUndo DEF Dispatch
<1>4. CASE BuiltinMove \/ BuiltinFail \/ BuiltinDone
  BY <1>4, BuiltinUndo
<1>5. CASE VMStep
  BY <1>5, VMUndo
<1>6. CASE updateStateAfterTx \/ TxStepFailed \/ DeferredRollback \/ DeferredCommit
  BY <1>6, EndUndo
<1> QED BY <1>1, <1>2, <1>3, <1>4, <1>5, <1>6 DEF Next

\* In every reachable state a running transaction can be undone.
LEMMA UndoInvariance ==
    ASSUME Creatable = {}
    PROVE  Spec => []UndoInv
<1>1. Init => UndoInv
  BY DEF Init, UndoInv
<1>2. IInv /\ FundsInv /\ UndoInv /\ [Next]_vars => UndoInv'
  BY NextUndo
<1> QED BY <1>1, <1>2, Invariance, FundsInvariance, PTL DEF Spec

\* The rollback of a transaction that can be undone brings back the ledger of
\* the executor's mark.
LEMMA RollbackLedger ==
    ASSUME IInv, UndoInv, DeferredRollback
    PROVE  SameLedger(marks[1].world, AcctMap')
<1>1. /\ pc = "deferred" /\ err /\ 1 \in 1..Len(marks) /\ marks[1].id = 0
      /\ DOMAIN marks[1].world \subseteq DOMAIN AcctMap
  BY WorldTypes DEF DeferredRollback
<1>2. RevertToSnapshot(marks[1].id)
  BY <1>1 DEF DeferredRollback, RollbackChanges
<1>3. Unrestorable(AcctMap, marks[1].world) = {} \/ SameLedger(marks[1].world, AcctMap)
  BY <1>1 DEF UndoInv, Restorable, SinglePending, NothingMoved, Finishing
<1> QED BY <1>1, <1>2, <1>3, RevertLedger
----------------------------------------------------------------------------
(* Tokens: what each party has; the system account keeps token metadata *)

Tokens(am, a) == IF a \in DOMAIN am THEN am[a].Storage[TokenKey] ELSE 0

Total(am) == TokenTotal(am, TokenKey)

SameTokens(am, am2) == \A a \in Parties : Tokens(am2, a) = Tokens(am, a)

\* No account changes its code, and new ones have none.
SameCodes(am, am2) ==
    /\ DOMAIN am \subseteq DOMAIN am2
    /\ \A a \in DOMAIN am : am2[a].Code = am[a].Code
    /\ \A a \in DOMAIN am2 \ DOMAIN am : am2[a].Code = NoCode

\* Tokens are counted in natural numbers.
LEMMA TokensType ==
    ASSUME NEW am, IsAccountMap(am), NEW a
    PROVE  Tokens(am, a) \in Nat
  BY AccountMapEntry, KeyAssumption DEF Tokens, Account

\* The total may be taken over all possible holders.
LEMMA HoldersTotal ==
    ASSUME NEW am, IsAccountMap(am)
    PROVE  LET held == [a \in Parties |-> Tokens(am, a)]
           IN  Summable(held) /\ Total(am) = SumFunction(held)
<1> DEFINE held == [a \in Parties |-> Tokens(am, a)]
           stored == [a \in DOMAIN am \ {SystemAccount} |-> am[a].Storage[TokenKey]]
<1>1. IsFiniteSet(Parties) /\ DOMAIN am \ {SystemAccount} \subseteq Parties
  BY FS_Subset, AddrAssumption DEF Parties, IsAccountMap
<1>2. IsFiniteSet(DOMAIN am \ {SystemAccount})
  BY <1>1, FS_Subset
<1>3. \A a \in Parties : Tokens(am, a) \in Int
  BY TokensType
<1>4. \A a \in DOMAIN am : am[a].Storage[TokenKey] = Tokens(am, a)
  BY DEF Tokens
<1>5. Summable(held)
  BY <1>1, <1>3 DEF Summable
<1>6. Summable(stored)
  BY <1>1, <1>2, <1>3, <1>4 DEF Summable
<1>7. DOMAIN stored \subseteq DOMAIN held /\ IsFiniteSet(DOMAIN held)
      /\ \A a \in DOMAIN held : held[a] = IF a \in DOMAIN stored THEN stored[a] ELSE 0
  BY <1>1 DEF Tokens, Parties
<1> HIDE DEF held, stored
<1>8. SumFunction(held) = SumFunction(stored)
  BY <1>6, <1>7, SumExtend
<1> QED BY <1>5, <1>8 DEF Total, TokenTotal, held, stored

\* Who has the same tokens has the same total.
LEMMA SameTokensTotal ==
    ASSUME NEW am, NEW am2, IsAccountMap(am), IsAccountMap(am2), SameTokens(am, am2)
    PROVE  Total(am2) = Total(am)
<1>1. [a \in Parties |-> Tokens(am2, a)] = [a \in Parties |-> Tokens(am, a)]
  BY DEF SameTokens
<1> QED BY <1>1, HoldersTotal

\* A write of the token key changes the tokens of its account and no code.
LEMMA WriteTokens ==
    ASSUME NEW am, IsAccountMap(am), NEW a \in DOMAIN am, NEW v \in Nat
    PROVE  LET am2 == WriteStorage(am, a, TokenKey, v)
           IN  /\ DOMAIN am2 = DOMAIN am /\ SameCodes(am, am2)
               /\ \A b : Tokens(am2, b) = IF b = a THEN v ELSE Tokens(am, b)
<1> DEFINE am2 == WriteStorage(am, a, TokenKey, v)
           written == [am[a] EXCEPT !.Storage = [@ EXCEPT ![TokenKey] = v]]
<1>1. am[a] \in Account
  BY AccountMapEntry
<1>2. am2 = [am EXCEPT ![a] = written]
  BY DEF WriteStorage
<1>3. written.Code = am[a].Code /\ written.Storage[TokenKey] = v
  BY <1>1, KeyAssumption DEF Account
<1> HIDE DEF written, am2
<1>4. DOMAIN am2 = DOMAIN am /\ am2[a] = written /\ \A b \in DOMAIN am \ {a} : am2[b] = am[b]
  BY <1>2 DEF IsAccountMap
<1> QED BY <1>3, <1>4 DEF SameCodes, Tokens, am2

\* An account created on the way has no tokens and no code.
LEMMA EnsureTokens ==
    ASSUME NEW am, IsAccountMap(am), NEW a \in Addr
    PROVE  LET am2 == ensureAccountExists(am, a)
           IN  SameCodes(am, am2) /\ \A b : Tokens(am2, b) = Tokens(am, b)
<1>1. CASE a \in DOMAIN am
  BY <1>1 DEF ensureAccountExists, SameCodes
<1>2. CASE a \notin DOMAIN am
  <2>1. ensureAccountExists(am, a) = PutEntry(am, a, EmptyAccount)
    BY <1>2 DEF ensureAccountExists, CreateAccount, PutAccount, EmptyAccount
  <2> QED BY <1>2, <2>1, KeyAssumption DEF PutEntry, SameCodes, Tokens, EmptyAccount
<1> QED BY <1>1, <1>2

\* A transfer between two holders takes what it gives, and half of it takes.
LEMMA MoveTotal ==
    ASSUME NEW am, IsAccountMap(am), NEW snd \in DOMAIN am, NEW rcv \in DOMAIN am,
           NEW amount \in Nat, CanDebit(am, snd, amount),
           snd # SystemAccount, rcv # SystemAccount
    PROVE  LET debited == Debit(am, snd, amount)
               credited == Credit(debited, rcv, amount)
           IN  /\ SameCodes(am, debited) /\ SameCodes(am, credited)
               /\ Total(credited) = Total(am)
<1> DEFINE debited == Debit(am, snd, amount)
           credited == Credit(debited, rcv, amount)
<1>1. \A a : Tokens(am, a) \in Nat
  BY TokensType
<1>2. am[snd].Storage[TokenKey] = Tokens(am, snd) /\ Tokens(am, snd) - amount \in Nat
  BY <1>1 DEF Tokens, CanDebit
<1>3. /\ DOMAIN debited = DOMAIN am /\ SameCodes(am, debited)
      /\ \A b : Tokens(debited, b) = IF b = snd THEN Tokens(am, snd) - amount ELSE Tokens(am, b)
  BY <1>2, WriteTokens DEF Debit
<1>4. IsAccountMap(debited) /\ IsAccountMap(credited)
  BY MoveType
<1> HIDE DEF debited
<1>5. debited[rcv].Storage[TokenKey] = Tokens(debited, rcv) /\ Tokens(debited, rcv) + amount \in Nat
  <2>1. debited[rcv].Storage[TokenKey] = Tokens(debited, rcv)
    BY <1>3 DEF Tokens
  <2>2. Tokens(debited, rcv) \in Nat
    BY <1>4, TokensType
  <2> QED BY <2>1, <2>2
<1>6. /\ SameCodes(debited, credited)
      /\ \A b : Tokens(credited, b) = IF b = rcv THEN Tokens(debited, rcv) + amount ELSE Tokens(debited, b)
  <2>1. rcv \in DOMAIN debited
    BY <1>3
  <2>2. credited = WriteStorage(debited, rcv, TokenKey, Tokens(debited, rcv) + amount)
    BY <1>5 DEF Credit
  <2> HIDE DEF credited
  <2> QED BY <1>4, <1>5, <2>1, <2>2, WriteTokens
<1>7. SameCodes(am, credited)
  BY <1>3, <1>6 DEF SameCodes
<1> HIDE DEF credited
<1> DEFINE h0 == [a \in Parties |-> Tokens(am, a)]
           h1 == [a \in Parties |-> Tokens(debited, a)]
           h2 == [a \in Parties |-> Tokens(credited, a)]
<1>8. /\ Summable(h0) /\ Total(am) = SumFunction(h0) /\ Summable(h1)
      /\ Total(credited) = SumFunction(h2)
  BY <1>4, HoldersTotal
<1>9. snd \in Parties /\ rcv \in Parties
  BY DEF Parties, IsAccountMap
<1>10. SumFunction(h1) = SumFunction(h0) + (-amount)
  <2>1. \A a \in Parties : h1[a] = h0[a] + (IF a = snd THEN -amount ELSE 0)
    BY <1>1, <1>3
  <2>2. DOMAIN h0 = Parties /\ DOMAIN h1 = Parties /\ -amount \in Int
    OBVIOUS
  <2> HIDE DEF h0, h1
  <2> QED BY <1>8, <1>9, <2>1, <2>2, SumChange
<1>11. SumFunction(h2) = SumFunction(h1) + amount
  <2>1. \A a \in Parties : h2[a] = h1[a] + (IF a = rcv THEN amount ELSE 0)
    <3>1. \A a : Tokens(debited, a) \in Nat
      BY <1>4, TokensType
    <3> QED BY <1>6, <3>1
  <2>2. DOMAIN h1 = Parties /\ DOMAIN h2 = Parties /\ amount \in Int
    OBVIOUS
  <2> HIDE DEF h1, h2
  <2> QED BY <1>8, <1>9, <2>1, <2>2, SumChange
<1>12. SumFunction(h0) \in Int
  <2> HIDE DEF h0
  <2> QED BY <1>8, SumType
<1>13. Total(credited) = Total(am)
  <2> HIDE DEF h0, h1, h2
  <2> QED BY <1>8, <1>10, <1>11, <1>12
<1> QED BY <1>3, <1>7, <1>13 DEF debited, credited

\* A revert changes no code and creates nothing.
LEMMA RevertCodes ==
    ASSUME IInv, NEW i \in 1..Len(marks), RevertToSnapshot(marks[i].id)
    PROVE  DOMAIN AcctMap' = DOMAIN AcctMap /\ SameCodes(AcctMap, AcctMap')
  BY RevertedAccounts DEF SameCodes

\* The same ledger is the same tokens.
LEMMA LedgerTokens ==
    ASSUME NEW am, NEW am2, SameLedger(am, am2)
    PROVE  SameTokens(am, am2)
<1> SUFFICES ASSUME NEW a \in Parties PROVE Tokens(am2, a) = Tokens(am, a)
  BY DEF SameTokens
<1>1. LedgerView(am2)[a].Storage[TokenKey] = LedgerView(am)[a].Storage[TokenKey]
  BY DEF SameLedger
<1>2. \A w \in {am, am2} : LedgerView(w)[a].Storage[TokenKey] = Tokens(w, a)
  BY KeyAssumption DEF LedgerView, Ledger, Tokens
<1> QED BY <1>1, <1>2

----------------------------------------------------------------------------
(* Tokens are conserved *)

\* Tokens only move: contracts create no account while they run (a rollback
\* stops at a created account), no output deletes one, the transactions' token
\* transfers are between holders, and the system account is not a contract.
TokensOnlyMove ==
    /\ Creatable = {}
    /\ \A out \in VMOutputs : out.DeletedAccounts = {}
    /\ \A t \in Tx : t.ESDTValue # <<>> => SystemAccount \notin {t.From, t.To}
    /\ SystemAccount \in DOMAIN Genesis => Genesis[SystemAccount].Code = NoCode

\* A transfer may be half done, but then a revert follows.
Halfway == pc = "vmfault" \/ (pc = "deferred" /\ err)

\* An output that neither writes tokens, nor loses any, nor makes the system
\* account a contract.
KeepsTokens(out) ==
    /\ out.DeletedAccounts = {}
    /\ \A a \in DOMAIN out.OutputAccounts :
          /\ TokenKey \notin DOMAIN out.OutputAccounts[a].StorageUpdates
          /\ a = SystemAccount => out.OutputAccounts[a].Code = NoCode

NoSystemCode(am) == SystemAccount \in DOMAIN am => am[SystemAccount].Code = NoCode

TokenInv ==
    /\ NoSystemCode(AcctMap)
    /\ ~Halfway => Total(AcctMap) = Total(Genesis)
    /\ \A i \in 1..Len(marks) : Total(marks[i].world) = Total(Genesis)
    /\ pc = "builtin" => SystemAccount \notin {tx.From, tx.To}
    /\ pc = "output" /\ output.Ok => KeepsTokens(output)

\* Adding accounts without code keeps the system account from having any.
LEMMA SystemCode ==
    ASSUME NEW am, NEW am2, NoSystemCode(am), SameCodes(am, am2)
    PROVE  NoSystemCode(am2)
  BY DEF NoSystemCode, SameCodes

\* Charging a transaction moves no tokens.
LEMMA ChargeTokens ==
    ASSUME IInv, NEW t \in Tx, RejectTx(t) \/ BeginTx(t)
    PROVE  SameCodes(AcctMap, AcctMap') /\ SameTokens(AcctMap, AcctMap') /\ IsAccountMap(AcctMap')
  BY ChargedAccounts DEF SameCodes, SameTokens, Tokens

\* Between transactions nothing is marked; the first mark has what there is.
LEMMA BeginTokens ==
    ASSUME IInv, TokenInv, NEW t \in Tx, RejectTx(t) \/ BeginTx(t)
    PROVE  TokenInv'
<1>1. /\ NoSystemCode(AcctMap') /\ IsAccountMap(AcctMap') /\ IsAccountMap(AcctMap)
      /\ SameTokens(AcctMap, AcctMap')
  BY ChargeTokens, SystemCode, WorldTypes DEF TokenInv
<1>2. pc = "idle" /\ marks = <<>>
  BY DEF RejectTx, BeginTx, IInv, JournalInv
<1>3. Total(AcctMap') = Total(Genesis)
  BY <1>1, <1>2, SameTokensTotal DEF TokenInv, Halfway
<1>4. CASE RejectTx(t)
  <2>1. pc' = "idle" /\ marks' = <<>>
    BY <1>2, <1>4 DEF RejectTx
  <2> QED BY <1>1, <1>3, <2>1 DEF TokenInv, NoSystemCode, Total, TokenTotal
<1>5. CASE BeginTx(t)
  <2>1. pc' = "dispatch" /\ tx' \in Tx /\ \A i \in 1..Len(marks') : marks'[i].world = AcctMap'
    BY <1>2, <1>5 DEF BeginTx, TakeMark
  <2>2. \A i \in 1..Len(marks') : Total(marks'[i].world) = Total(Genesis)
    BY <1>3, <2>1
  <2> QED BY <1>1, <1>3, <2>1, <2>2 DEF TokenInv, NoSystemCode, Total, TokenTotal
<1> QED BY <1>4, <1>5

\* A step that leaves the worlds alone.
LEMMA QuietTokens ==
    ASSUME TokenInv, ~Halfway, UNCHANGED <<AcctMap, marks>>,
           pc' = "builtin" => SystemAccount \notin {tx'.From, tx'.To},
           pc' = "output" /\ output'.Ok => KeepsTokens(output')
    PROVE  TokenInv'
<1>1. NoSystemCode(AcctMap') /\ Total(AcctMap') = Total(Genesis)
      /\ \A i \in 1..Len(marks') : Total(marks'[i].world) = Total(Genesis)
  BY DEF TokenInv
<1>2. NoSystemCode(AcctMap)' /\ (Total(AcctMap) = Total(Genesis))'
      /\ (\A i \in 1..Len(marks) : Total(marks[i].world) = Total(Genesis))'
  BY <1>1 DEF NoSystemCode, Total, TokenTotal
<1> QED BY <1>2 DEF TokenInv, KeepsTokens

\* The switch but for transfers: no world changes.
LEMMA SwitchTokens ==
    ASSUME TokensOnlyMove, IInv, UndoInv, TokenInv,
           OutOfFunds \/ DispatchDeploy \/ DispatchCall \/ DispatchReward \/ DispatchUnknown
    PROVE  TokenInv'
<1>1. /\ pc = "dispatch" /\ UNCHANGED <<AcctMap, marks>>
      /\ pc' \in {"output", "vm", "builtin", "deferred"}
  BY DEF OutOfFunds, DispatchDeploy, DispatchCall, DispatchReward, DispatchUnknown, Produce, Fail
<1>2. tx \in Tx /\ ~Halfway
  BY <1>1 DEF UndoInv, Halfway
<1>3. pc' = "builtin" => SystemAccount \notin {tx'.From, tx'.To}
  <2> SUFFICES ASSUME pc' = "builtin" PROVE SystemAccount \notin {tx'.From, tx'.To}
    OBVIOUS
  <2>1. tx.ESDTValue # <<>> /\ tx' = IF tx.Type = "ScQuery" THEN [tx EXCEPT !.From = tx.To] ELSE tx
    BY DEF OutOfFunds, DispatchDeploy, DispatchCall, DispatchReward, DispatchUnknown, Produce, Fail
  <2>2. tx'.To = tx.To /\ tx'.From \in {tx.From, tx.To}
    BY <1>2, <2>1, TxAssumption DEF Transaction
  <2> QED BY <1>2, <2>1, <2>2 DEF TokensOnlyMove
<1>4. pc' = "output" /\ output'.Ok => KeepsTokens(output')
  <2> SUFFICES ASSUME pc' = "output", output'.Ok PROVE KeepsTokens(output')
    OBVIOUS
  <2>1. DispatchReward
    BY DEF OutOfFunds, DispatchDeploy, DispatchCall, DispatchUnknown, Produce, Fail,
           FailedOutput, NoOutput
  <2>2. output' = [Ok |-> TRUE,
                   OutputAccounts |-> [a \in {tx.To} |->
                       [BalanceDelta |-> tx.EGLDValue, Nonce |-> 0, Code |-> NoCode,
                        StorageUpdates |-> [k \in {RewardKey} |->
                            AcctMap[tx.To].Storage[RewardKey] + tx.EGLDValue]]],
                   DeletedAccounts |-> {}]
    BY <2>1 DEF DispatchReward, Produce, Fail
  <2> QED BY <2>2, KeyAssumption DEF KeepsTokens
<1> QED BY <1>1, <1>2, <1>3, <1>4, QuietTokens

\* A transfer; a single token transfer may create its recipient.
LEMMA TransferTokens ==
    ASSUME TokensOnlyMove, IInv, UndoInv, TokenInv, DispatchTransfer
    PROVE  TokenInv'
<1>1. pc = "dispatch" /\ tx.Type = "Transfer" /\ UNCHANGED <<marks, tx, err>>
  BY DEF DispatchTransfer
<1>2. tx \in Tx /\ ~Halfway /\ tx \in Transaction
  BY <1>1, TxAssumption DEF UndoInv, Halfway
<1>3. pc' = "builtin" => SystemAccount \notin {tx'.From, tx'.To}
  BY <1>1, <1>2, TransferCases DEF TokensOnlyMove
<1>4. CASE UNCHANGED AcctMap
  <2>1. pc' = "output" => KeepsTokens(output')
    <3> SUFFICES ASSUME pc' = "output" PROVE KeepsTokens(output')
      OBVIOUS
    <3>1. output' = [Ok |-> TRUE,
                     OutputAccounts |-> [a \in {tx.To} |->
                         [BalanceDelta |-> tx.EGLDValue, Nonce |-> 0, Code |-> NoCode,
                          StorageUpdates |-> <<>>]],
                     DeletedAccounts |-> {}]
      BY DEF DispatchTransfer, Produce
    <3> QED BY <3>1 DEF KeepsTokens
  <2> QED BY <1>1, <1>2, <1>3, <1>4, <2>1, QuietTokens
<1>5. CASE pc' = "builtin" /\ AcctMap' = ensureAccountExists(AcctMap, tx.To)
  <2>1. IsAccountMap(AcctMap) /\ tx.To \in Addr
    BY <1>2, WorldTypes DEF Transaction
  <2>2. SameCodes(AcctMap, AcctMap') /\ SameTokens(AcctMap, AcctMap') /\ IsAccountMap(AcctMap')
    BY <1>5, <2>1, EnsureTokens, EnsureType DEF SameTokens
  <2>3. NoSystemCode(AcctMap') /\ Total(AcctMap') = Total(Genesis)
    BY <1>2, <2>1, <2>2, SystemCode, SameTokensTotal DEF TokenInv
  <2>4. \A i \in 1..Len(marks') : Total(marks'[i].world) = Total(Genesis)
    BY <1>1 DEF TokenInv
  <2> QED BY <1>3, <1>5, <2>3, <2>4 DEF TokenInv, NoSystemCode, Total, TokenTotal
<1> QED BY <1>4, <1>5, TransferCases

\* A transfer of nothing; the marks hold as many tokens as before.
LEMMA EmptyTransferTokens ==
    ASSUME IInv, UndoInv, TokenInv, DispatchEmptyTransfer
    PROVE  TokenInv'
<1>1. pc = "dispatch" /\ pc' = "deferred" /\ err' = TRUE /\ UNCHANGED marks
      /\ AcctMap' = ensureAccountExists(AcctMap, tx.To)
  BY DEF DispatchEmptyTransfer, Fail
<1>2. IsAccountMap(AcctMap) /\ tx.To \in Addr
  BY <1>1, WorldTypes DEF IInv, ControlInv, Transaction
<1>3. SameCodes(AcctMap, AcctMap')
  BY <1>1, <1>2, EnsureTokens
<1>4. NoSystemCode(AcctMap')
  BY <1>2, <1>3, SystemCode DEF TokenInv
<1>5. \A i \in 1..Len(marks') : Total(marks'[i].world) = Total(Genesis)
  BY <1>1 DEF TokenInv
<1> QED BY <1>1, <1>4, <1>5 DEF TokenInv, NoSystemCode, Halfway, Total, TokenTotal

\* A step of a builtin function: it writes, and may have more to do.
LEMMA WriterTokens ==
    ASSUME TokenInv, UNCHANGED marks, SameCodes(AcctMap, AcctMap'),
           Halfway' \/ Total(AcctMap') = Total(Genesis),
           pc' \in {"builtin", "vm", "vmfault", "deferred"},
           pc' = "builtin" => pc = "builtin" /\ UNCHANGED tx
    PROVE  TokenInv'
<1>1. NoSystemCode(AcctMap')
  BY SystemCode DEF TokenInv
<1>2. \A i \in 1..Len(marks') : Total(marks'[i].world) = Total(Genesis)
  BY DEF TokenInv
<1>3. pc' = "builtin" => SystemAccount \notin {tx'.From, tx'.To}
  BY DEF TokenInv
<1> QED BY <1>1, <1>2, <1>3 DEF TokenInv, NoSystemCode, Total, TokenTotal

\* One transfer of the transaction.
LEMMA BuiltinMoveTokens ==
    ASSUME IInv, TokenInv, BuiltinMove
    PROVE  TokenInv'
<1>1. pc = "builtin" /\ pc' = "builtin" /\ UNCHANGED <<marks, tx>> /\ pending # <<>>
      /\ pending' = Tail(pending) /\ CanDebit(AcctMap, tx.From, Head(pending))
      /\ AcctMap' = Credit(Debit(AcctMap, tx.From, Head(pending)), tx.To, Head(pending))
  BY DEF BuiltinMove, MoveTokens
<1>2. tx.From \in DOMAIN AcctMap /\ tx.To \in DOMAIN AcctMap /\ Head(pending) \in Nat
      /\ pending \in Seq(Nat)
  BY <1>1 DEF IInv, ControlInv, TypeInv
<1>3. tx.From # SystemAccount /\ tx.To # SystemAccount
  BY <1>1 DEF TokenInv
<1>4. IsAccountMap(AcctMap)
  BY WorldTypes
<1>5. SameCodes(AcctMap, AcctMap') /\ Total(AcctMap') = Total(AcctMap)
      /\ DOMAIN AcctMap' = DOMAIN AcctMap
  BY <1>1, <1>2, <1>3, <1>4, MoveTotal, MoveType
<1>6. Total(AcctMap') = Total(Genesis)
  BY <1>1, <1>5 DEF TokenInv, Halfway
<1> QED BY <1>1, <1>5, <1>6, WriterTokens

\* A builtin function fails, and a rollback follows.
LEMMA BuiltinFailTokens ==
    ASSUME IInv, TokenInv, BuiltinFail
    PROVE  TokenInv'
<1>1. /\ pc = "builtin" /\ pc' = "deferred" /\ err' = TRUE /\ UNCHANGED <<marks, tx>>
      /\ pending # <<>>
  BY DEF BuiltinFail, Fail
<1>2. tx.From \in DOMAIN AcctMap /\ tx.To \in DOMAIN AcctMap /\ Head(pending) \in Nat
  BY <1>1 DEF BuiltinFail, IInv, ControlInv, TypeInv
<1>3. tx.From # SystemAccount /\ tx.To # SystemAccount
  BY <1>1 DEF TokenInv
<1>4. IsAccountMap(AcctMap)
  BY WorldTypes
<1>5. SameCodes(AcctMap, AcctMap') /\ DOMAIN AcctMap' = DOMAIN AcctMap
  <2>1. CASE UNCHANGED AcctMap
    BY <2>1 DEF SameCodes
  <2>2. CASE CanDebit(AcctMap, tx.From, Head(pending))
             /\ AcctMap' = Debit(AcctMap, tx.From, Head(pending))
    BY <1>2, <1>3, <1>4, <2>2, MoveTotal, MoveType
  <2> QED BY <2>1, <2>2 DEF BuiltinFail, worldVars
<1>6. Halfway'
  BY <1>1 DEF Halfway
<1> QED BY <1>1, <1>5, <1>6, WriterTokens

\* The end of a builtin transfer moves nothing more.
LEMMA BuiltinDoneTokens ==
    ASSUME TokenInv, BuiltinDone
    PROVE  TokenInv'
<1>1. /\ pc = "builtin" /\ UNCHANGED <<AcctMap, marks>> /\ pc' \in {"vm", "output"}
      /\ (pc' = "output" => output' = EmptyOk)
  BY DEF BuiltinDone, Produce
<1>2. pc' = "output" => KeepsTokens(output')
  BY <1>1 DEF KeepsTokens, EmptyOk, NoOutput
<1> QED BY <1>1, <1>2, QuietTokens DEF Halfway

\* A contract sends tokens to an account there is, or fails half way and is
\* reverted.
LEMMA VMTransferTokens ==
    ASSUME TokensOnlyMove, IInv, TokenInv, NEW snd \in Addr, NEW rcv \in Addr,
           NEW amount \in VMAmounts, VMTransfer(snd, rcv, amount)
    PROVE  TokenInv'
<1>1. /\ pc = "vm" /\ pc' \in {"vm", "vmfault"} /\ UNCHANGED <<marks, tx>>
      /\ snd \in DOMAIN AcctMap /\ AcctMap[snd].Code # NoCode
      /\ rcv \in DOMAIN AcctMap /\ rcv # SystemAccount
  BY DEF VMTransfer, VMRunning, MoveTokens, TokensOnlyMove
<1>2. snd # SystemAccount /\ amount \in Nat
  BY <1>1 DEF TokenInv, NoSystemCode, VMAmounts
<1>3. IsAccountMap(AcctMap) /\ ensureAccountExists(AcctMap, rcv) = AcctMap
  BY <1>1, WorldTypes DEF ensureAccountExists
<1>4. \/ UNCHANGED AcctMap /\ pc' = "vmfault"
      \/ /\ CanDebit(AcctMap, snd, amount) /\ pc' = "vmfault"
         /\ AcctMap' = Debit(AcctMap, snd, amount)
      \/ /\ CanDebit(AcctMap, snd, amount)
         /\ AcctMap' = Credit(Debit(AcctMap, snd, amount), rcv, amount)
  BY <1>3 DEF VMTransfer, MoveTokens
<1>5. SameCodes(AcctMap, AcctMap') /\ DOMAIN AcctMap' = DOMAIN AcctMap
      /\ (pc' = "vmfault" \/ Total(AcctMap') = Total(AcctMap))
  <2>1. CASE UNCHANGED AcctMap /\ pc' = "vmfault"
    BY <2>1 DEF SameCodes
  <2>2. CASE CanDebit(AcctMap, snd, amount)
    <3> DEFINE debited == Debit(AcctMap, snd, amount)
               credited == Credit(debited, rcv, amount)
    <3>1. /\ SameCodes(AcctMap, debited) /\ SameCodes(AcctMap, credited)
          /\ Total(credited) = Total(AcctMap)
      BY <1>1, <1>2, <1>3, <2>2, MoveTotal
    <3>2. DOMAIN debited = DOMAIN AcctMap /\ DOMAIN credited = DOMAIN AcctMap
      BY <1>1, <1>2, <1>3, <2>2, MoveType
    <3>3. AcctMap' = credited \/ (pc' = "vmfault" /\ AcctMap' \in {AcctMap, debited})
      BY <1>4
    <3>4. SameCodes(AcctMap, AcctMap)
      BY DEF SameCodes
    <3> HIDE DEF debited, credited
    <3> QED BY <3>1, <3>2, <3>3, <3>4
  <2> QED BY <1>4, <2>1, <2>2
<1>6. Halfway' \/ Total(AcctMap') = Total(Genesis)
  BY <1>1, <1>5 DEF TokenInv, Halfway
<1> QED BY <1>1, <1>2, <1>5, <1>6, WriterTokens

\* Token metadata is no token.
LEMMA SystemWriteTokens ==
    ASSUME IInv, TokenInv, VMSystemWrite
    PROVE  TokenInv'
<1> DEFINE am == ensureAccountExists(AcctMap, SystemAccount)
<1>1. pc = "vm" /\ pc' = "vm" /\ UNCHANGED <<marks, tx>>
      /\ AcctMap' = WriteStorage(am, SystemAccount, TokenKey, 1)
  BY DEF VMSystemWrite, VMRunning
<1>2. IsAccountMap(AcctMap) /\ SystemAccount \in Addr
  BY WorldTypes, AddrAssumption
<1>3. /\ IsAccountMap(am) /\ DOMAIN am = DOMAIN AcctMap \union {SystemAccount}
      /\ SameCodes(AcctMap, am) /\ \A b : Tokens(am, b) = Tokens(AcctMap, b)
  BY <1>2, EnsureType, EnsureTokens
<1> HIDE DEF am
<1>4. /\ DOMAIN AcctMap' = DOMAIN am /\ SameCodes(am, AcctMap') /\ IsAccountMap(AcctMap')
      /\ \A b : Tokens(AcctMap', b) = IF b = SystemAccount THEN 1 ELSE Tokens(am, b)
  <2>1. SystemAccount \in DOMAIN am /\ 1 \in Nat
    BY <1>3
  <2>2. /\ DOMAIN AcctMap' = DOMAIN am /\ SameCodes(am, AcctMap')
        /\ \A b : Tokens(AcctMap', b) = IF b = SystemAccount THEN 1 ELSE Tokens(am, b)
    BY <1>1, <1>3, <2>1, WriteTokens
  <2>3. IsAccountMap(AcctMap')
    BY <1>1, <1>3, <2>1, WriteStorageType, KeyAssumption
  <2> QED BY <2>2, <2>3
<1>5. SameCodes(AcctMap, AcctMap') /\ SameTokens(AcctMap, AcctMap')
  BY <1>3, <1>4 DEF SameCodes, SameTokens, Parties
<1>6. Total(AcctMap') = Total(Genesis)
  <2>1. Total(AcctMap') = Total(AcctMap)
    BY <1>2, <1>4, <1>5, SameTokensTotal
  <2> QED BY <1>1, <2>1 DEF TokenInv, Halfway
<1> QED BY <1>1, <1>5, <1>6, WriterTokens

\* The VM's snapshots, and its reverts, which undo a transfer completely.
LEMMA MarkTokens ==
    ASSUME IInv, UndoInv, TokenInv, VMGetSnapshot \/ VMRevert \/ VMDiscard
    PROVE  TokenInv'
<1>1. pc \in {"vm", "vmfault"} /\ pc' = "vm" /\ Restorable
  BY DEF VMGetSnapshot, VMRevert, VMDiscard, VMRunning, UndoInv
<1>2. IsAccountMap(AcctMap) /\ marks \in Seq(Marks)
  BY WorldTypes
<1>3. CASE VMGetSnapshot
  <2>1. AcctMap' = AcctMap /\ Len(marks') = Len(marks) + 1
        /\ \A i \in 1..Len(marks') :
             marks'[i].world = IF i \in 1..Len(marks) THEN marks[i].world ELSE AcctMap
    BY <1>2, <1>3 DEF VMGetSnapshot, TakeMark
  <2>2. pc = "vm" /\ Total(AcctMap) = Total(Genesis) /\ NoSystemCode(AcctMap)
    BY <1>3 DEF VMGetSnapshot, VMRunning, TokenInv, Halfway
  <2>3. \A i \in 1..Len(marks') : Total(marks'[i].world) = Total(Genesis)
    BY <2>1, <2>2 DEF TokenInv
  <2> QED BY <1>1, <2>1, <2>2, <2>3 DEF TokenInv, NoSystemCode, Total, TokenTotal
<1>4. CASE VMRevert \/ VMDiscard
  <2>1. Len(marks) > 1 /\ marks' = Pop(marks)
    BY <1>4 DEF VMRevert, VMDiscard
  <2>2. \A i \in 1..Len(marks') : i \in 1..Len(marks) /\ marks'[i] = marks[i]
    BY <1>2, <2>1 DEF Pop
  <2>3. NoSystemCode(AcctMap') /\ Total(AcctMap') = Total(Genesis)
    <3>1. CASE VMDiscard
      BY <1>1, <3>1 DEF VMDiscard, TokenInv, Halfway
    <3>2. CASE VMRevert
      <4> DEFINE n == Len(marks)
      <4>1. n \in 1..Len(marks) /\ RevertToSnapshot(marks[n].id)
        BY <1>2, <2>1, <3>2 DEF VMRevert
      <4> HIDE DEF n
      <4>2. /\ Unrestorable(AcctMap, marks[n].world) = {} /\ Total(marks[n].world) = Total(Genesis)
            /\ DOMAIN marks[n].world \subseteq DOMAIN AcctMap /\ IsAccountMap(marks[n].world)
        BY <1>1, <4>1, WorldTypes DEF Restorable, TokenInv
      <4>3. SameCodes(AcctMap, AcctMap') /\ SameTokens(marks[n].world, AcctMap')
        BY <4>1, <4>2, RevertCodes, RevertLedger, LedgerTokens
      <4>4. IsAccountMap(AcctMap')
        <5>1. marks[n].id \in Nat
          BY <1>2, <4>1, MarkType
        <5> QED BY <4>1, <5>1, RevertedWorld, AccountMapsSet
      <4>5. NoSystemCode(AcctMap')
        BY <4>3, SystemCode DEF TokenInv
      <4> QED BY <4>2, <4>3, <4>4, <4>5, SameTokensTotal
    <3> QED BY <1>4, <3>1, <3>2
  <2>4. \A i \in 1..Len(marks') : Total(marks'[i].world) = Total(Genesis)
    BY <2>2 DEF TokenInv
  <2> QED BY <1>1, <2>3, <2>4 DEF TokenInv, NoSystemCode, Total, TokenTotal
<1> QED BY <1>3, <1>4

\* The VM's own output, or its failure.
LEMMA ReturnTokens ==
    ASSUME TokensOnlyMove, TokenInv, VMError \/ VMReturnFailed \/ VMReturnOk
    PROVE  TokenInv'
<1>1. /\ pc = "vm" /\ ~Halfway /\ UNCHANGED <<AcctMap, marks>>
      /\ pc' \in {"output", "deferred"}
  BY DEF VMError, VMReturnFailed, VMReturnOk, Produce, Fail, Halfway
<1>2. pc' = "output" /\ output'.Ok => KeepsTokens(output')
  <2> SUFFICES ASSUME pc' = "output", output'.Ok PROVE KeepsTokens(output')
    OBVIOUS
  <2>1. VMReturnOk
    BY DEF VMError, VMReturnFailed, Produce, Fail, FailedOutput, NoOutput
  <2>2. PICK out \in VMOutputs : output' = [Ok |-> TRUE, OutputAccounts |-> out.OutputAccounts,
                                            DeletedAccounts |-> out.DeletedAccounts]
    BY <2>1 DEF VMReturnOk, Produce
  <2>3. IsOutput(out, Addr \ {SystemAccount}, Key \ {TokenKey}) /\ out.DeletedAccounts = {}
    BY VMAssumption DEF TokensOnlyMove
  <2> QED BY <2>2, <2>3 DEF KeepsTokens, IsOutput, IsOutputAccount
<1> QED BY <1>1, <1>2, QuietTokens

\* Applying an output account that does not write tokens.
LEMMA OutputTokens ==
    ASSUME NEW acct \in Account, NEW oa, IsOutputAccount(oa, Key),
           TokenKey \notin DOMAIN oa.StorageUpdates
    PROVE  LET new == UpdateAccountFromOutputAccount(acct, oa)
           IN  /\ new.Storage[TokenKey] = acct.Storage[TokenKey]
               /\ oa.Code = NoCode => new.Code = acct.Code
<1> DEFINE b == acct.Balance + oa.BalanceDelta
           n == IF oa.Nonce > acct.Nonce THEN oa.Nonce ELSE acct.Nonce
           st == [k \in Key |-> IF k \in DOMAIN oa.StorageUpdates
                                THEN oa.StorageUpdates[k] ELSE acct.Storage[k]]
           updated == [acct EXCEPT !.Balance = b, !.Nonce = n, !.Storage = st]
<1>1. UpdateAccountFromOutputAccount(acct, oa) =
          IF oa.Code = NoCode THEN updated ELSE SetCodeAndMetadata(updated, oa.Code)
  BY DEF UpdateAccountFromOutputAccount, Account
<1>2. st[TokenKey] = acct.Storage[TokenKey]
  BY KeyAssumption
<1> HIDE DEF b, n, st
<1>3. updated.Storage = st /\ updated.Code = acct.Code
      /\ SetCodeAndMetadata(updated, oa.Code).Storage = st
  BY DEF Account, SetCodeAndMetadata
<1> HIDE DEF updated
<1> QED BY <1>1, <1>2, <1>3

\* Taking the value changes neither storage nor code.
LEMMA SubtractTokens ==
    ASSUME NEW am, IsAccountMap(am), NEW t \in Transaction
    PROVE  \A a \in DOMAIN am : /\ SubtractValue(am, t)[a].Storage = am[a].Storage
                                /\ SubtractValue(am, t)[a].Code = am[a].Code
<1> SUFFICES ASSUME NEW a \in DOMAIN am
             PROVE  /\ SubtractValue(am, t)[a].Storage = am[a].Storage
                    /\ SubtractValue(am, t)[a].Code = am[a].Code
  OBVIOUS
<1>1. am[a] \in Account
  BY AccountMapEntry
<1>2. CASE HasSender(t) /\ a = t.From
  <2>1. SubtractValue(am, t)[a] = [am[a] EXCEPT !.Balance = @ + (-t.EGLDValue)]
    BY <1>2 DEF SubtractValue, UpdateBalanceWithDelta
  <2> QED BY <1>1, <2>1 DEF Account
<1>3. CASE ~(HasSender(t) /\ a = t.From)
  BY <1>3 DEF SubtractValue, UpdateBalanceWithDelta
<1> QED BY <1>2, <1>3

\* The output is applied: it keeps the tokens, and nothing fails afterwards.
LEMMA UpdateTokens ==
    ASSUME IInv, TokenInv, updateStateAfterTx
    PROVE  TokenInv'
<1> DEFINE am == SubtractValue(AcctMap, tx)
           outs == output.OutputAccounts
<1>1. /\ pc = "output" /\ output.Ok /\ pc' = "deferred" /\ UNCHANGED <<marks, err>>
      /\ AcctMap' = UpdateAccounts(am, outs, output.DeletedAccounts)
  BY DEF updateStateAfterTx
<1>2. IsAccountMap(AcctMap) /\ tx \in Transaction /\ IsOutput(output, Addr, Key) /\ err = FALSE
  BY <1>1, WorldTypes DEF IInv, TypeInv, ControlInv
<1>3. output.DeletedAccounts = {}
      /\ \A a \in DOMAIN outs : /\ IsOutputAccount(outs[a], Key)
                                /\ TokenKey \notin DOMAIN outs[a].StorageUpdates
                                /\ a = SystemAccount => outs[a].Code = NoCode
  BY <1>1, <1>2 DEF TokenInv, KeepsTokens, IsOutput
<1>4. /\ IsAccountMap(am) /\ DOMAIN am = DOMAIN AcctMap
      /\ \A a \in DOMAIN AcctMap : am[a].Storage = AcctMap[a].Storage /\ am[a].Code = AcctMap[a].Code
  BY <1>2, SubtractFunds, SubtractTokens
<1>5. IsAccountMap(AcctMap')
  BY <1>1, <1>2, <1>4, UpdateAccountsType
<1> HIDE DEF am, outs
<1>6. DOMAIN AcctMap' = DOMAIN AcctMap \union DOMAIN outs
  BY <1>1, <1>3, <1>4 DEF UpdateAccounts
<1>7. ASSUME NEW a \in DOMAIN AcctMap'
      PROVE  /\ AcctMap'[a].Storage[TokenKey] = Tokens(AcctMap, a)
             /\ a = SystemAccount => AcctMap'[a].Code = NoCode
  <2> DEFINE acct == IF a \in DOMAIN am THEN am[a] ELSE EmptyAccount
  <2>1. AcctMap'[a] = IF a \in DOMAIN outs THEN UpdateAccountFromOutputAccount(acct, outs[a])
                      ELSE acct
    BY <1>1, <1>3, <1>4, <1>6 DEF UpdateAccounts
  <2>2. acct \in Account
    BY <1>4, AccountMapEntry, EmptyAccountType
  <2>3. acct.Storage[TokenKey] = Tokens(AcctMap, a)
    BY <1>4, KeyAssumption DEF Tokens, EmptyAccount
  <2>4. a = SystemAccount => acct.Code = NoCode
    BY <1>4 DEF TokenInv, NoSystemCode, EmptyAccount
  <2> HIDE DEF acct
  <2>5. CASE a \in DOMAIN outs
    BY <1>3, <2>1, <2>2, <2>3, <2>4, <2>5, OutputTokens
  <2>6. CASE a \notin DOMAIN outs
    BY <2>1, <2>3, <2>4, <2>6
  <2> QED BY <2>5, <2>6
<1>8. SameTokens(AcctMap, AcctMap') /\ NoSystemCode(AcctMap')
  BY <1>6, <1>7 DEF SameTokens, Tokens, NoSystemCode
<1>9. Total(AcctMap') = Total(Genesis)
  <2>1. Total(AcctMap') = Total(AcctMap)
    BY <1>2, <1>5, <1>8, SameTokensTotal
  <2> QED BY <1>1, <2>1 DEF TokenInv, Halfway
<1>10. \A i \in 1..Len(marks') : Total(marks'[i].world) = Total(Genesis)
  BY <1>1 DEF TokenInv
<1> QED BY <1>1, <1>8, <1>9, <1>10 DEF TokenInv, NoSystemCode, Total, TokenTotal

\* A failed output waits for the rollback.
LEMMA FailedTokens ==
    ASSUME TokenInv, TxStepFailed
    PROVE  TokenInv'
<1>1. pc = "output" /\ pc' = "deferred" /\ UNCHANGED <<AcctMap, marks>>
  BY DEF TxStepFailed
<1> QED BY <1>1, QuietTokens DEF Halfway

\* The deferred function: a commit has nothing half done, and a rollback gives
\* every token back, or has none to give back.
LEMMA DeferredTokens ==
    ASSUME IInv, UndoInv, TokenInv, DeferredRollback \/ DeferredCommit
    PROVE  TokenInv'
<1>1. pc = "deferred" /\ pc' = "idle" /\ marks' = <<>>
  BY DEF DeferredRollback, DeferredCommit, Return
<1>2. IsAccountMap(AcctMap) /\ 1 \in 1..Len(marks) /\ marks[1].id = 0
      /\ IsAccountMap(marks[1].world)
  BY <1>1, WorldTypes
<1>3. NoSystemCode(AcctMap') /\ Total(AcctMap') = Total(Genesis)
  <2>1. CASE DeferredCommit
    <3>1. ~err /\ UNCHANGED AcctMap
      BY <2>1 DEF DeferredCommit, CommitChanges
    <3> QED BY <1>1, <3>1 DEF TokenInv, Halfway
  <2>2. CASE DeferredRollback
    <3>1. err /\ RevertToSnapshot(marks[1].id)
      BY <1>2, <2>2 DEF DeferredRollback, RollbackChanges
    <3>2. IsAccountMap(AcctMap')
      BY <1>2, <3>1, RevertedWorld, AccountMapsSet
    <3>3. SameCodes(AcctMap, AcctMap')
      BY <1>2, <3>1, RevertCodes
    <3>4. SameTokens(marks[1].world, AcctMap')
      BY <2>2, RollbackLedger, LedgerTokens
    <3>5. Total(AcctMap') = Total(Genesis)
      <4>1. Total(marks[1].world) = Total(Genesis)
        BY <1>2 DEF TokenInv
      <4> QED BY <1>2, <3>2, <3>4, <4>1, SameTokensTotal
    <3> QED BY <3>3, <3>5, SystemCode DEF TokenInv
  <2> QED BY <2>1, <2>2
<1> QED BY <1>1, <1>3 DEF TokenInv, NoSystemCode, Total, TokenTotal

\* Every step keeps the invariant, if tokens only move.
LEMMA NextTokens ==
    ASSUME TokensOnlyMove
    PROVE  IInv /\ UndoInv /\ TokenInv /\ [Next]_vars => TokenInv'
<1> SUFFICES ASSUME IInv, UndoInv, TokenInv, [Next]_vars PROVE TokenInv'
  OBVIOUS
<1>1. CASE UNCHANGED vars
  BY <1>1 DEF vars, TokenInv, NoSystemCode, Halfway, Total, TokenTotal, KeepsTokens
<1>2. CASE \E t \in Tx : RejectTx(t) \/ BeginTx(t)
  BY <1>2, BeginTokens
<1>3. CASE Dispatch
  BY <1>3, SwitchTokens, TransferTokens, EmptyTransferTokens DEF Dispatch
<1>4. CASE BuiltinMove \/ BuiltinFail \/ BuiltinDone
  BY <1>4, BuiltinMoveTokens, BuiltinFailTokens, BuiltinDoneTokens
<1>5. CASE VMStep
  BY <1>5, VMTransferTokens, SystemWriteTokens, MarkTokens, ReturnTokens DEF VMStep
<1>6. CASE updateStateAfterTx \/ TxStepFailed
  BY <1>6, UpdateTokens, FailedTokens
<1>7. CASE DeferredRollback \/ DeferredCommit
  BY <1>7, DeferredTokens
<1> QED BY <1>1, <1>2, <1>3, <1>4, <1>5, <1>6, <1>7 DEF Next

\* The genesis state has its own total.
LEMMA InitTokens ==
    ASSUME TokensOnlyMove
    PROVE  Init => TokenInv
<1> SUFFICES ASSUME Init PROVE TokenInv
  OBVIOUS
<1>1. pc = "idle" /\ AcctMap = Genesis /\ marks = <<>>
  BY DEF Init
<1>2. Total(AcctMap) = Total(Genesis) /\ NoSystemCode(AcctMap)
  BY <1>1 DEF TokensOnlyMove, NoSystemCode
<1> QED BY <1>1, <1>2 DEF TokenInv

\* Between transactions there are as many tokens as in the genesis state,
\* whatever failed after its first write, if tokens only move: with contracts
\* that create accounts a rollback may stop half way, and TLC finds it.
THEOREM TokensAreConserved == TokensOnlyMove /\ Spec => []TokensConserved
<1> SUFFICES ASSUME TokensOnlyMove PROVE Spec => []TokensConserved
  OBVIOUS
<1>1. Init => TokenInv
  BY InitTokens
<1>2. IInv /\ UndoInv /\ TokenInv /\ [Next]_vars => TokenInv'
  BY NextTokens
<1>3. TokenInv => TokensConserved
  BY DEF TokenInv, TokensConserved, Halfway, Total
<1>4. Creatable = {}
  BY DEF TokensOnlyMove
<1>5. Spec => []UndoInv
  BY <1>4, UndoInvariance
<1> QED BY <1>1, <1>2, <1>3, <1>5, Invariance, PTL DEF Spec

----------------------------------------------------------------------------
(* The outcome tells what happened *)

\* What makes executeTx atomic: contracts create no account while they run (a
\* rollback stops at a created account), the VM's balance deltas add up to the
\* call value, and no transfer carries both EGLD and tokens (its empty output
\* does not add up, after everything was applied).
AtomicSteps ==
    /\ Creatable = {}
    /\ BalancedVM
    /\ \A t \in Tx : t.Type = "Transfer" /\ t.ESDTValue # <<>> => t.EGLDValue = 0
    /\ Parties # {}

BalancedOutput ==
    pc = "output" /\ output.Ok /\ HasSender(tx) => DeltaSum(output.OutputAccounts) = tx.EGLDValue

\* A failure that the deferred function does not see has changed nothing.
OutcomeInv ==
    /\ pc = "deferred" => \/ err /\ result \in {"retcode", "error"}
                          \/ ~err /\ result = "ok"
                          \/ ~err /\ result = "error" /\ SameLedger(marks[1].world, AcctMap)
    /\ pc = "builtin" => \/ tx.Type \in {"ScCall", "ScQuery"}
                         \/ tx.Type = "Transfer" /\ tx.EGLDValue = 0
    /\ BalancedOutput

\* The output of a transfer adds up.
LEMMA TransferSum ==
    ASSUME NEW a, NEW v \in Nat
    PROVE  DeltaSum([b \in {a} |-> [BalanceDelta |-> v, Nonce |-> 0, Code |-> NoCode,
                                    StorageUpdates |-> <<>>]]) = v
<1> DEFINE outs == [b \in {a} |-> [BalanceDelta |-> v, Nonce |-> 0, Code |-> NoCode,
                                   StorageUpdates |-> <<>>]]
           deltas == [b \in DOMAIN outs |-> outs[b].BalanceDelta]
<1>1. DOMAIN deltas = {a} /\ deltas[a] = v
  OBVIOUS
<1> HIDE DEF deltas
<1>2. Summable(deltas)
  <2>1. IsFiniteSet({a})
    BY FS_Singleton
  <2>2. \A x \in {a} : deltas[x] \in Int
    BY <1>1
  <2> QED BY <1>1, <2>1, <2>2 DEF Summable
<1>3. SumFunction(deltas) = v
  BY <1>1, <1>2, SumSingle
<1> QED BY <1>3 DEF DeltaSum, deltas

\* So does the empty one, of no value.
LEMMA EmptySum == DeltaSum(EmptyOk.OutputAccounts) = 0
<1> DEFINE deltas == [a \in DOMAIN EmptyOk.OutputAccounts |-> EmptyOk.OutputAccounts[a].BalanceDelta]
<1>1. DOMAIN deltas = {}
  BY DEF EmptyOk, NoOutput
<1> HIDE DEF deltas
<1>2. SumFunction(deltas) = 0
  BY <1>1, SumEmpty
<1> QED BY <1>2 DEF DeltaSum, deltas

\* The switch: what is not known fails before anything happens.
LEMMA DispatchOutcome ==
    ASSUME AtomicSteps, IInv, FundsInv, UndoInv, Dispatch
    PROVE  OutcomeInv'
<1>1. pc = "dispatch" /\ tx \in Tx /\ tx \in Transaction /\ err = FALSE /\ UNCHANGED marks
  BY TxAssumption DEF Dispatch, OutOfFunds, DispatchDeploy, DispatchCall, DispatchTransfer,
                      DispatchEmptyTransfer, DispatchReward, DispatchUnknown, UndoInv, IInv, ControlInv
<1>2. CASE OutOfFunds
  BY <1>2 DEF OutOfFunds, Produce, FailedOutput, NoOutput, OutcomeInv, BalancedOutput
<1>3. CASE DispatchDeploy
  BY <1>3 DEF DispatchDeploy, OutcomeInv, BalancedOutput
<1>4. CASE DispatchCall
  <2>1. pc' \in {"vm", "builtin", "deferred"} /\ (pc' = "deferred" => err' /\ result' = "error")
    BY <1>4 DEF DispatchCall, Fail
  <2>2. tx'.Type = tx.Type /\ tx.Type \in {"ScCall", "ScQuery"}
    BY <1>1, <1>4 DEF DispatchCall, Transaction
  <2> QED BY <2>1, <2>2 DEF OutcomeInv, BalancedOutput
<1>5. CASE DispatchTransfer
  <2>1. pc' \in {"output", "builtin"} /\ tx' = tx /\ tx.Type = "Transfer"
        /\ (pc' = "builtin" => tx.EGLDValue = 0)
    BY <1>1, <1>5, TransferCases DEF AtomicSteps, DispatchTransfer
  <2>2. ASSUME pc' = "output" PROVE DeltaSum(output'.OutputAccounts) = tx.EGLDValue
    <3>1. output' = [Ok |-> TRUE,
                     OutputAccounts |-> [a \in {tx.To} |->
                         [BalanceDelta |-> tx.EGLDValue, Nonce |-> 0, Code |-> NoCode,
                          StorageUpdates |-> <<>>]],
                     DeletedAccounts |-> {}]
      BY <1>5, <2>2 DEF DispatchTransfer, Produce
    <3>2. output'.OutputAccounts = [a \in {tx.To} |->
              [BalanceDelta |-> tx.EGLDValue, Nonce |-> 0, Code |-> NoCode,
               StorageUpdates |-> <<>>]]
      BY <3>1
    <3>3. tx.EGLDValue \in Nat
      BY <1>1 DEF Transaction
    <3> QED BY <3>2, <3>3, TransferSum
  <2>3. BalancedOutput'
    BY <2>1, <2>2 DEF BalancedOutput, DeltaSum
  <2> QED BY <2>1, <2>3 DEF OutcomeInv
<1>6. CASE DispatchEmptyTransfer
  <2>1. pc' = "deferred" /\ err' = TRUE /\ result' = "error"
    BY <1>6 DEF DispatchEmptyTransfer, Fail
  <2> QED BY <2>1 DEF OutcomeInv, BalancedOutput
<1>7. CASE DispatchReward
  <2>1. pc' \in {"output", "deferred"} /\ (pc' = "deferred" => err' /\ result' = "error")
    BY <1>7 DEF DispatchReward, Fail, Produce
  <2>2. ~HasSender(tx)'
    BY <1>7 DEF DispatchReward, HasSender
  <2> QED BY <2>1, <2>2 DEF OutcomeInv, BalancedOutput
<1>8. CASE DispatchUnknown
  <2>1. pc' = "deferred" /\ err' = FALSE /\ result' = "error" /\ UNCHANGED AcctMap
    BY <1>1, <1>8 DEF DispatchUnknown
  <2>2. marks[1].world = AcctMap
    <3>1. 1 \in 1..Len(marks)
      BY <1>1, WorldTypes
    <3> QED BY <1>1, <3>1 DEF FundsInv
  <2>3. SameLedger(marks[1].world, AcctMap)'
    BY <1>1, <2>1, <2>2 DEF SameLedger
  <2> QED BY <2>1, <2>3 DEF OutcomeInv, BalancedOutput
<1> QED BY <1>2, <1>3, <1>4, <1>5, <1>6, <1>7, <1>8 DEF Dispatch

\* Builtin transfers end with an output of no value.
LEMMA BuiltinOutcome ==
    ASSUME OutcomeInv, BuiltinMove \/ BuiltinFail \/ BuiltinDone
    PROVE  OutcomeInv'
<1>1. pc = "builtin" /\ UNCHANGED tx /\ pc' \in {"builtin", "deferred", "vm", "output"}
  BY DEF BuiltinMove, BuiltinFail, BuiltinDone, Produce, Fail
<1>2. pc' = "deferred" => err' /\ result' = "error"
  BY <1>1 DEF BuiltinMove, BuiltinFail, BuiltinDone, Produce, Fail
<1>3. ASSUME pc' = "output", HasSender(tx) PROVE DeltaSum(output'.OutputAccounts) = tx.EGLDValue
  <2>1. BuiltinDone /\ output' = EmptyOk /\ tx.Type # "ScCall"
    BY <1>1, <1>3 DEF BuiltinMove, BuiltinFail, BuiltinDone, Produce, Fail
  <2>2. tx.EGLDValue = 0
    BY <1>1, <1>3, <2>1 DEF OutcomeInv, HasSender
  <2> QED BY <2>1, <2>2, EmptySum
<1>4. BalancedOutput'
  BY <1>1, <1>3 DEF BalancedOutput, DeltaSum, HasSender
<1> QED BY <1>1, <1>2, <1>4 DEF OutcomeInv

\* The VM's output adds up.
LEMMA VMOutcome ==
    ASSUME AtomicSteps, VMStep
    PROVE  OutcomeInv'
<1>1. CASE VMReturnOk
  <2>1. PICK out \in VMOutputs :
            /\ BalancedVM \/ tx.Type = "ScQuery" => DeltaSum(out.OutputAccounts) = tx.EGLDValue
            /\ output' = [Ok |-> TRUE, OutputAccounts |-> out.OutputAccounts,
                          DeletedAccounts |-> out.DeletedAccounts]
            /\ pc' = "output" /\ UNCHANGED tx
    BY <1>1 DEF VMReturnOk, Produce
  <2>2. DeltaSum(output'.OutputAccounts) = tx.EGLDValue
    BY <2>1 DEF AtomicSteps
  <2>3. BalancedOutput'
    BY <2>1, <2>2 DEF BalancedOutput, DeltaSum
  <2> QED BY <2>1, <2>3 DEF OutcomeInv
<1>2. CASE VMReturnFailed
  BY <1>2 DEF VMReturnFailed, Produce, FailedOutput, NoOutput, OutcomeInv, BalancedOutput
<1>3. CASE VMError
  BY <1>3 DEF VMError, Fail, OutcomeInv, BalancedOutput
<1>4. CASE ~VMReturnOk /\ ~VMReturnFailed /\ ~VMError
  <2>1. pc' \in {"vm", "vmfault"}
    BY <1>4 DEF VMStep, VMGetSnapshot, VMRevert, VMDiscard, VMTransfer, VMSystemWrite, VMRunning,
                MoveTokens
  <2> QED BY <2>1 DEF OutcomeInv, BalancedOutput
<1> QED BY <1>1, <1>2, <1>3, <1>4

\* Every step keeps the outcome true.
LEMMA NextOutcome ==
    ASSUME AtomicSteps
    PROVE  IInv /\ FundsInv /\ UndoInv /\ OutcomeInv /\ [Next]_vars => OutcomeInv'
<1> SUFFICES ASSUME IInv, FundsInv, UndoInv, OutcomeInv, [Next]_vars PROVE OutcomeInv'
  OBVIOUS
<1>1. CASE UNCHANGED vars
  BY <1>1 DEF vars, OutcomeInv, BalancedOutput, SameLedger, LedgerView, Ledger, DeltaSum, HasSender
<1>2. CASE \E t \in Tx : RejectTx(t) \/ BeginTx(t)
  BY <1>2 DEF RejectTx, BeginTx, OutcomeInv, BalancedOutput
<1>3. CASE Dispatch
  BY <1>3, DispatchOutcome
<1>4. CASE BuiltinMove \/ BuiltinFail \/ BuiltinDone
  BY <1>4, BuiltinOutcome
<1>5. CASE VMStep
  BY <1>5, VMOutcome
<1>6. CASE updateStateAfterTx
  <2>1. pc' = "deferred" /\ result' = "ok" /\ err' = FALSE
    BY <1>6 DEF updateStateAfterTx, OutcomeInv, BalancedOutput, IInv, ControlInv
  <2> QED BY <2>1 DEF OutcomeInv, BalancedOutput
<1>7. CASE TxStepFailed
  BY <1>7 DEF TxStepFailed, OutcomeInv, BalancedOutput
<1>8. CASE DeferredRollback \/ DeferredCommit
  BY <1>8 DEF DeferredRollback, DeferredCommit, Return, OutcomeInv, BalancedOutput
<1> QED BY <1>1, <1>2, <1>3, <1>4, <1>5, <1>6, <1>7, <1>8 DEF Next

----------------------------------------------------------------------------
(* executeTx implements AtomicLedger *)

\* The first snapshot is the executor's own.
FirstMark == pc # "idle" => Snapshots[1] = marks[1].world

\* Charging is the only thing that happens to the ledger outside transactions.
LEMMA ChargedLedger ==
    ASSUME IInv, NEW t \in Tx, RejectTx(t) \/ BeginTx(t), NEW a \in Parties
    PROVE  /\ LedgerView(AcctMap')[a].Storage = LedgerView(AcctMap)[a].Storage
           /\ LedgerView(AcctMap')[a].Balance <= LedgerView(AcctMap)[a].Balance
           /\ a # t.From \/ pc' = "idle" => LedgerView(AcctMap')[a] = LedgerView(AcctMap)[a]
<1>1. DOMAIN AcctMap' = DOMAIN AcctMap
  BY ChargedAccounts
<1>2. CASE a \in DOMAIN AcctMap
  <2>1. LedgerView(AcctMap')[a] = Ledger(AcctMap', a) /\ LedgerView(AcctMap)[a] = Ledger(AcctMap, a)
    BY <1>1, <1>2 DEF LedgerView
  <2>2. /\ AcctMap'[a].Storage = AcctMap[a].Storage
        /\ AcctMap'[a].Balance <= AcctMap[a].Balance
        /\ a # t.From \/ pc' = "idle" => AcctMap'[a].Balance = AcctMap[a].Balance
    BY <1>2, ChargedAccounts
  <2> QED BY <2>1, <2>2 DEF Ledger
<1>3. CASE a \notin DOMAIN AcctMap
  BY <1>1, <1>3 DEF LedgerView
<1> QED BY <1>2, <1>3

\* A refused transaction changes no ledger.
LEMMA RejectRefuses ==
    ASSUME IInv, NEW t \in Tx, RejectTx(t)
    PROVE  Atomic!Refuse
<1>1. pc = "idle" /\ pc' = "idle" /\ result' = "error"
  BY DEF RejectTx
<1>2. LedgerView(AcctMap') = LedgerView(AcctMap)
  <2>1. \A a \in Parties : LedgerView(AcctMap')[a] = LedgerView(AcctMap)[a]
    BY <1>1, ChargedLedger
  <2> QED BY <2>1 DEF LedgerView
<1> QED BY <1>1, <1>2 DEF Atomic!Refuse, LedgerView, Ledger

\* A transaction begins with the gas taken from its sender, before the backup.
LEMMA BeginCharges ==
    ASSUME AtomicSteps, IInv, NEW t \in Tx, BeginTx(t)
    PROVE  \E p \in Parties : Atomic!Charge(p)
<1>1. pc = "idle" /\ pc' = "dispatch" /\ Snapshots = <<>>
  BY DEF BeginTx, IInv, JournalInv
<1>2. Snapshots' = <<AcctMap'>>
  BY <1>1 DEF BeginTx, TakeMark, SnapshotState
<1>3. Snapshots'[1] = AcctMap'
  BY <1>2
<1>4. PICK p \in Parties : t.From \in Parties => p = t.From
  BY DEF AtomicSteps
<1>5. IsAccountMap(AcctMap')
  BY ChargedAccounts
<1>6. LedgerView(AcctMap') \in [Parties -> Atomic!Entry]
  BY <1>5, LedgerType
<1>7. /\ \A q \in Parties \ {p} : LedgerView(AcctMap')[q] = LedgerView(AcctMap)[q]
      /\ LedgerView(AcctMap')[p].Storage = LedgerView(AcctMap)[p].Storage
      /\ LedgerView(AcctMap')[p].Balance <= LedgerView(AcctMap)[p].Balance
  BY <1>4, ChargedLedger
<1>8. (LedgerView(IF pc = "idle" THEN AcctMap ELSE Snapshots[1]))' = LedgerView(AcctMap')
  BY <1>1, <1>3 DEF LedgerView, Ledger
<1> QED BY <1>1, <1>6, <1>7, <1>8 DEF Atomic!Charge

\* While a transaction runs, the executor's snapshot stays.
LEMMA InnerStutters ==
    ASSUME FirstMark, FirstMark', pc # "idle", pc' # "idle", marks'[1] = marks[1]
    PROVE  UNCHANGED Atomic!ledgerVars
  BY DEF FirstMark, Atomic!ledgerVars, LedgerView, Ledger

\* A rollback leaves the ledger of the executor's snapshot.
LEMMA RollbackAborts ==
    ASSUME IInv, UndoInv, OutcomeInv, FirstMark, DeferredRollback
    PROVE  Atomic!Abort
<1>1. pc = "deferred" /\ pc' = "idle" /\ result' = result /\ result \in {"retcode", "error"}
  BY DEF DeferredRollback, Return, OutcomeInv
<1>2. LedgerView(AcctMap') = LedgerView(Snapshots[1])
  BY <1>1, RollbackLedger DEF SameLedger, FirstMark
<1>3. (LedgerView(IF pc = "idle" THEN AcctMap ELSE Snapshots[1]))' = LedgerView(AcctMap')
  BY <1>1 DEF LedgerView, Ledger
<1> QED BY <1>1, <1>2, <1>3 DEF Atomic!Abort, Atomic!Failures

\* A commit publishes the effects of a success; a failure it lets through has
\* none.
LEMMA CommitEnds ==
    ASSUME IInv, IInv', OutcomeInv, FirstMark, DeferredCommit
    PROVE  Atomic!Commit \/ Atomic!Abort
<1>1. pc = "deferred" /\ pc' = "idle" /\ result' = result /\ UNCHANGED AcctMap /\ ~err
  BY DEF DeferredCommit, CommitChanges, Return
<1>2. (LedgerView(IF pc = "idle" THEN AcctMap ELSE Snapshots[1]))' = LedgerView(AcctMap)
  BY <1>1 DEF LedgerView, Ledger
<1>3. CASE result = "ok"
  <2>1. LedgerView(AcctMap) \in [Parties -> Atomic!Entry]
    BY WorldTypes, LedgerType
  <2> QED BY <1>1, <1>2, <1>3, <2>1 DEF Atomic!Commit
<1>4. CASE result = "error" /\ SameLedger(marks[1].world, AcctMap)
  <2>1. LedgerView(AcctMap) = LedgerView(Snapshots[1])
    BY <1>1, <1>4 DEF SameLedger, FirstMark
  <2> QED BY <1>1, <1>2, <1>4, <2>1 DEF Atomic!Abort, Atomic!Failures
<1> QED BY <1>1, <1>3, <1>4 DEF OutcomeInv

\* Every step is a step of the abstract specification, or changes nothing of it.
LEMMA AtomicNext ==
    ASSUME AtomicSteps
    PROVE  /\ IInv /\ IInv' /\ UndoInv /\ OutcomeInv /\ FirstMark /\ FirstMark' /\ [Next]_vars
           => [Atomic!Next]_(Atomic!ledgerVars)
<1> SUFFICES ASSUME IInv, IInv', UndoInv, OutcomeInv, FirstMark, FirstMark', [Next]_vars
             PROVE  Atomic!Next \/ UNCHANGED Atomic!ledgerVars
  OBVIOUS
<1>1. CASE UNCHANGED vars
  BY <1>1 DEF vars, Atomic!ledgerVars, LedgerView, Ledger
<1>2. ASSUME NEW t \in Tx, RejectTx(t) PROVE Atomic!Next
  BY <1>2, RejectRefuses DEF Atomic!Next
<1>3. ASSUME NEW t \in Tx, BeginTx(t) PROVE Atomic!Next
  BY <1>3, BeginCharges DEF Atomic!Next
<1>4. CASE DeferredRollback
  BY <1>4, RollbackAborts DEF Atomic!Next
<1>5. CASE DeferredCommit
  BY <1>5, CommitEnds DEF Atomic!Next
<1>6. CASE Dispatch \/ BuiltinMove \/ BuiltinFail \/ BuiltinDone \/ VMStep
           \/ updateStateAfterTx \/ TxStepFailed
  <2>1. pc # "idle" /\ pc' # "idle"
    BY <1>6 DEF Dispatch, OutOfFunds, DispatchDeploy, DispatchCall, DispatchTransfer,
                DispatchEmptyTransfer, DispatchReward, DispatchUnknown, BuiltinMove, BuiltinFail, BuiltinDone, VMStep,
                VMGetSnapshot, VMRevert, VMDiscard, VMTransfer, VMSystemWrite, VMError,
                VMReturnFailed, VMReturnOk, VMRunning, MoveTokens, updateStateAfterTx,
                TxStepFailed, Produce, Fail
  <2>2. \/ UNCHANGED marks
        \/ marks' = Append(marks, [id |-> JournalLen(Snapshots'), world |-> AcctMap])
        \/ Len(marks) > 1 /\ marks' = Pop(marks)
    BY <1>6 DEF Dispatch, OutOfFunds, DispatchDeploy, DispatchCall, DispatchTransfer,
                DispatchEmptyTransfer, DispatchReward, DispatchUnknown, BuiltinMove, BuiltinFail, BuiltinDone, VMStep,
                VMGetSnapshot, VMRevert, VMDiscard, VMTransfer, VMSystemWrite, VMError,
                VMReturnFailed, VMReturnOk, updateStateAfterTx, TxStepFailed, TakeMark
  <2>3. 1 \in 1..Len(marks) /\ marks \in Seq(Marks)
    BY <2>1, WorldTypes
  <2>4. marks'[1] = marks[1]
    BY <2>2, <2>3 DEF Pop
  <2> QED BY <2>1, <2>4, InnerStutters
<1> QED BY <1>1, <1>2, <1>3, <1>4, <1>5, <1>6 DEF Next

\* executeTx is atomic: a transaction changes every balance and storage at its
\* successful end or changes none, apart from the gas, whatever the VM did in
\* between and whichever error ended it.
THEOREM TransactionsAreAtomic == AtomicSteps /\ Spec => ImplementsAtomicLedger
<1> SUFFICES ASSUME AtomicSteps PROVE Spec => ImplementsAtomicLedger
  OBVIOUS
<1>1. Init => OutcomeInv
  BY DEF Init, OutcomeInv, BalancedOutput
<1>2. IInv /\ FundsInv /\ UndoInv /\ OutcomeInv /\ [Next]_vars => OutcomeInv'
  BY NextOutcome
<1>3. IInv => FirstMark
  BY WorldTypes DEF FirstMark
<1>4. Init => Atomic!Init
  <2> SUFFICES ASSUME Init PROVE Atomic!Init
    OBVIOUS
  <2>1. LedgerView(Genesis) \in [Parties -> Atomic!Entry]
    BY GenesisAssumption, LedgerType
  <2> QED BY <2>1 DEF Init, Atomic!Init
<1>5. IInv /\ IInv' /\ UndoInv /\ OutcomeInv /\ FirstMark /\ FirstMark' /\ [Next]_vars
      => [Atomic!Next]_(Atomic!ledgerVars)
  BY AtomicNext
<1>6. Creatable = {}
  BY DEF AtomicSteps
<1>7. Spec => []UndoInv
  BY <1>6, UndoInvariance
<1> QED BY <1>1, <1>2, <1>3, <1>4, <1>5, <1>7, Invariance, FundsInvariance, PTL
        DEF Spec, ImplementsAtomicLedger, Atomic!Spec
=============================================================================

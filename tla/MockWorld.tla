----------------------------- MODULE MockWorld -----------------------------
(***************************************************************************)
(* The mock blockchain of package worldmock: the account map and the       *)
(* journal of account-map snapshots kept by MockAccountsAdapter.           *)
(*                                                                         *)
(* An account keeps the fields the executor reads or writes while it runs  *)
(* transactions.  Left out: shard, username, root hash, developer reward   *)
(* (changed only by builtin functions that are external), BalanceDelta     *)
(* (written by validatorRewardOutput, read by nobody), AsyncCallData.      *)
(* Storage is a total function; 0 stands for the empty value, which        *)
(* Account.StorageValue also yields for a missing key.                     *)
(***************************************************************************)
EXTENDS Integers, Sequences, FiniteSets, Functions

CONSTANTS
    Addr,           \* account addresses
    SystemAccount,  \* vmcommon.SystemAccountAddress
    Key,            \* storage keys
    Code,           \* contract codes
    NoCode          \* the nil code

ASSUME AddrAssumption == SystemAccount \in Addr /\ IsFiniteSet(Addr)
ASSUME CodeAssumption == NoCode \notin Code

VARIABLES
    AcctMap,        \* MockWorld.AcctMap: a function on the existing addresses
    Snapshots       \* MockAccountsAdapter.Snapshots: a sequence of account maps

worldVars == <<AcctMap, Snapshots>>

----------------------------------------------------------------------------
(* Accounts and account maps *)

\* DefaultHasher.Compute: a hash is equal to another iff the codes are.
HashOf(code) == [hashed |-> code]
NoHash == [hashed |-> NoCode]
CodeHashes == {HashOf(c) : c \in Code} \union {NoHash}

Account == [Nonce : Nat, Balance : Int, Storage : [Key -> Nat],
            Code : Code \union {NoCode}, CodeHash : CodeHashes]

IsAccountMap(am) == DOMAIN am \subseteq Addr /\ am \in [DOMAIN am -> Account]

EmptyAccount == [Nonce |-> 0, Balance |-> 0, Storage |-> [k \in Key |-> 0],
                 Code |-> NoCode, CodeHash |-> NoHash]

\* The keys are the existing addresses; an existing entry is overwritten.
PutEntry(am, addr, account) ==
    [a \in DOMAIN am \union {addr} |-> IF a = addr THEN account ELSE am[a]]

\* PutAccount computes a code hash only where there is none yet.
PutAccount(am, addr, account) ==
    PutEntry(am, addr,
             IF account.Code # NoCode /\ account.CodeHash = NoHash
             THEN [account EXCEPT !.CodeHash = HashOf(account.Code)]
             ELSE account)

CreateAccount(am, addr) == PutAccount(am, addr, EmptyAccount)

\* BuiltinFunctionsWrapper.ensureAccountExists
ensureAccountExists(am, addr) ==
    IF addr \in DOMAIN am THEN am ELSE CreateAccount(am, addr)

\* Mutant: the code hash is left behind.
CodeWithoutHash(account, code) ==
    [account EXCEPT !.Code = code, !.CodeHash = IF @ = NoHash THEN HashOf(code) ELSE @]

\* SetCodeAndMetadata changes the code and everything that depends on it.
SetCodeAndMetadata(account, code) ==
    [account EXCEPT !.Code = code, !.CodeHash = HashOf(code)]

\* An unknown address is an error the executor ignores.
UpdateBalanceWithDelta(am, addr, delta) ==
    IF addr \in DOMAIN am THEN [am EXCEPT ![addr].Balance = @ + delta] ELSE am

\* A storage write of SaveKeyValue, without its snapshot.
WriteStorage(am, addr, key, value) == [am EXCEPT ![addr].Storage[key] = value]

----------------------------------------------------------------------------
(* Output accounts: what the VM, or the executor, reports after a transaction *)

IsOutputAccount(oa, keys) ==
    /\ oa.BalanceDelta \in Int
    /\ oa.Nonce \in Nat
    /\ oa.Code \in Code \union {NoCode}
    /\ DOMAIN oa.StorageUpdates \subseteq keys
    /\ oa.StorageUpdates \in [DOMAIN oa.StorageUpdates -> Nat]

\* Mutant: the reported nonce replaces the account's, even by a smaller one.
NonceOverwritten(acct, modAcct) ==
    [acct EXCEPT !.Balance = @ + modAcct.BalanceDelta, !.Nonce = modAcct.Nonce]

\* Every output account has a BalanceDelta, those the executor makes up and, by
\* assumption, the VM's: updateStateAfterTx adds them up without looking.  The
\* branch for one that is nil, which replaces the balance, is left out.
UpdateAccountFromOutputAccount(acct, modAcct) ==
    LET updated == [acct EXCEPT
            !.Balance = @ + modAcct.BalanceDelta,
            !.Nonce   = IF modAcct.Nonce > @ THEN modAcct.Nonce ELSE @,
            !.Storage = [k \in Key |-> IF k \in DOMAIN modAcct.StorageUpdates
                                       THEN modAcct.StorageUpdates[k] ELSE @[k]]]
    IN  IF modAcct.Code = NoCode THEN updated ELSE SetCodeAndMetadata(updated, modAcct.Code)

\* Each output account updates its own entry, so the iteration order over the
\* Go map does not matter; deletions come last.
UpdateAccounts(am, outputAccounts, accountsToDelete) ==
    [a \in (DOMAIN am \union DOMAIN outputAccounts) \ accountsToDelete |->
        LET acct == IF a \in DOMAIN am THEN am[a] ELSE EmptyAccount
        IN  IF a \in DOMAIN outputAccounts
            THEN UpdateAccountFromOutputAccount(acct, outputAccounts[a])
            ELSE acct]

----------------------------------------------------------------------------
(* The journal *)

\* The live accounts LoadAccountStorageFrom cannot find in the snapshot.
Unrestorable(am, otherAM) == (DOMAIN am \ DOMAIN otherAM) \ {SystemAccount}

\* LoadAccountStorageFrom ranges over a Go map, in any order, and returns at
\* the first unrestorable account: any subset of the others was visited first.
Visitable(am, otherAM) ==
    IF Unrestorable(am, otherAM) = {}
    THEN {DOMAIN am \intersect DOMAIN otherAM}
    ELSE SUBSET (DOMAIN am \intersect DOMAIN otherAM)

\* Mutant: the storage is not restored.
BalanceOnlyRestored(am, otherAM, visited) ==
    [a \in DOMAIN am |->
        IF a \in visited THEN [am[a] EXCEPT !.Balance = otherAM[a].Balance] ELSE am[a]]

\* Only storage and balance come from the snapshot.
LoadAccountStorageFrom(am, otherAM, visited) ==
    [a \in DOMAIN am |->
        IF a \in visited
        THEN [am[a] EXCEPT !.Storage = otherAM[a].Storage, !.Balance = otherAM[a].Balance]
        ELSE am[a]]

\* The snapshots once a backup of am is appended.  A clone is a value here.
SnapshotState(snapshots, am) == Append(snapshots, am)

\* Mutant: the length of the journal instead of the index of its last snapshot.
JournalLenOffByOne(snapshots) == Len(snapshots)

JournalLen(snapshots) == Len(snapshots) - 1

\* Truncates the journal first; then restores, completely or in part.
RevertToSnapshot(idx) ==
    /\ idx >= 0 /\ idx < Len(Snapshots)
    /\ Snapshots' = SubSeq(Snapshots, 1, idx)
    /\ \E visited \in Visitable(AcctMap, Snapshots[idx + 1]) :
          AcctMap' = LoadAccountStorageFrom(AcctMap, Snapshots[idx + 1], visited)

\* Mutant: rolls back to the last snapshot instead of the first.
RollbackToLast == RevertToSnapshot(Len(Snapshots) - 1)

RollbackChanges == RevertToSnapshot(0)

\* Mutant: a commit leaves the journal as it is.
CommitKeepsJournal == UNCHANGED worldVars

CommitChanges == Snapshots' = <<>> /\ UNCHANGED AcctMap

----------------------------------------------------------------------------
(* What a rollback promises to restore, per account *)

Ledger(am, a) == [Balance |-> am[a].Balance, Storage |-> am[a].Storage]

EgldTotal(am) == SumFunction([a \in DOMAIN am |-> am[a].Balance])

TokenTotal(am, key) ==
    SumFunction([a \in DOMAIN am \ {SystemAccount} |-> am[a].Storage[key]])
============================================================================

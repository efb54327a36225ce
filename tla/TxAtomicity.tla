---------------------------- MODULE TxAtomicity ----------------------------
(***************************************************************************)
(* TxExecution as an implementation of AtomicLedger.  While a transaction  *)
(* runs, the abstract ledger is the executor's own snapshot; an address    *)
(* without an account has nothing.  The system account is left out:        *)
(* LoadAccountStorageFrom skips it when the transaction created it.        *)
(***************************************************************************)
EXTENDS TxExecution

Parties == Addr \ {SystemAccount}

LedgerView(am) ==
    [a \in Parties |-> IF a \in DOMAIN am THEN Ledger(am, a)
                       ELSE [Balance |-> 0, Storage |-> [k \in Key |-> 0]]]

Atomic == INSTANCE AtomicLedger WITH
    Party   <- Parties,
    Slot    <- Key,
    ledger  <- LedgerView(IF pc = "idle" THEN AcctMap ELSE Snapshots[1]),
    open    <- pc # "idle",
    outcome <- IF pc = "idle" THEN result ELSE "none"

\* executeTx is atomic: with a VM whose deltas add up and whose contracts
\* create no account while they run, a transaction changes every balance and
\* storage at its successful end or changes none, apart from the gas.
ImplementsAtomicLedger == Atomic!Spec
============================================================================

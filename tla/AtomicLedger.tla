---------------------------- MODULE AtomicLedger ----------------------------
(***************************************************************************)
(* What a transaction step promises of the balances and storages: it       *)
(* charges the sender's gas, and then everything it does happens at once,  *)
(* when it succeeds, or not at all, when it fails.  The ledger is what a    *)
(* rollback would leave: effects of a running transaction are not in it.   *)
(***************************************************************************)
EXTENDS Integers

CONSTANTS Party, Slot

VARIABLES
    ledger,   \* the balance and the storage of every party
    open,     \* whether a transaction is running
    outcome   \* how the last one ended

ledgerVars == <<ledger, open, outcome>>

Entry == [Balance : Int, Storage : [Slot -> Nat]]

Failures == {"retcode", "error"}

Init ==
    /\ ledger \in [Party -> Entry]
    /\ open = FALSE
    /\ outcome = "none"

\* Gas is charged outside the transaction: at most one balance goes down.
Charge(p) ==
    /\ ~open
    /\ open' = TRUE
    /\ outcome' = "none"
    /\ ledger' \in [Party -> Entry]
    /\ \A q \in Party \ {p} : ledger'[q] = ledger[q]
    /\ ledger'[p].Storage = ledger[p].Storage
    /\ ledger'[p].Balance <= ledger[p].Balance

Refuse ==
    /\ ~open
    /\ outcome' = "error"
    /\ UNCHANGED <<ledger, open>>

Commit ==
    /\ open
    /\ open' = FALSE
    /\ outcome' = "ok"
    /\ ledger' \in [Party -> Entry]

Abort ==
    /\ open
    /\ open' = FALSE
    /\ outcome' \in Failures
    /\ UNCHANGED ledger

Next == (\E p \in Party : Charge(p)) \/ Refuse \/ Commit \/ Abort

Spec == Init /\ [][Next]_ledgerVars
=============================================================================

---------------------------- MODULE CheckedLedger ----------------------------
(***************************************************************************)
(* CheckState as an implementation of TokenLedger: the storage of an       *)
(* account is mapped to what GetFullMockESDTData finds in it.              *)
(***************************************************************************)
EXTENDS CheckState

CONSTANT AttrsOf

\* The metadata of an instance are the same wherever a scenario sets it, and there
\* are none without a nonce: a transfer would not keep them.
ASSUME AttrsAssumption ==
    /\ \A t \in Token, n \in Nonce : n = 0 => AttrsOf[t][n] = NoAttrs
    /\ \A spec \in AccountSpec : \A d \in Range(spec.esdt) : \A i \in Range(d.instances) :
        i.attrs = AttrsOf[d.token][i.nonce]

\* What is found in the storage of every account, kept in a variable so that it
\* is computed once per state.
VARIABLE found

FoundData == [a \in DOMAIN AcctMap |-> FullData(a)]

LedgerInit == Init /\ found = FoundData
LedgerSpec == LedgerInit /\ [][Next /\ found' = FoundData']_<<vars, found>>

AmountIn(instances, n) ==
    IF \E i \in instances : i.nonce = n THEN (CHOOSE i \in instances : i.nonce = n).balance ELSE 0

Held(data) ==
    [amount |-> [n \in Nonce |-> AmountIn(data.instances, n)],
     lastNonce |-> data.lastNonce, roles |-> data.roles]

View(a) ==
    LET storage == AcctMap[a].Storage
    IN  [balance |-> AcctMap[a].balance, owner |-> AcctMap[a].owner,
         entries |-> [k \in EntryKey |-> IF Plain(k) \in DOMAIN storage THEN storage[Plain(k)] ELSE Empty],
         tokens  |-> [t \in Token |->
            IF t \in DOMAIN found[a] THEN Held(found[a][t])
            ELSE Held([instances |-> {}, lastNonce |-> 0, roles |-> {}])]]

Viewed == [a \in DOMAIN AcctMap |-> View(a)]

Ledger == INSTANCE TokenLedger WITH
    Accounts   <- Viewed,
    NewAccount <- [balance |-> 0, owner |-> NoOwner, entries |-> [k \in {} |-> Empty], esdt |-> <<>>]

\* Setting, changing and transferring tokens does to what an account is found to
\* hold what it says, and to nothing else; and a checkState step passes exactly
\* when everything it says is true of what the accounts hold, where "*" is true of
\* every value.  So it is as long as no check says "*" of an owner: MCOwnerStar.
ImplementsTokenLedger == Ledger!Spec
=============================================================================

----------------------------- MODULE TokenLedger -----------------------------
(***************************************************************************)
(* What a scenario author thinks of when writing setState and checkState:  *)
(* accounts that hold amounts of tokens, with no storage keys at all, and  *)
(* checks that pass when everything they say is so.  CheckState implements *)
(* this on the storage of mock accounts.                                   *)
(***************************************************************************)
EXTENDS Integers, Sequences, FiniteSets

CONSTANTS
    Token, Nonce,
    SystemAccount, \* need not be listed by a check
    AttrsOf,       \* [Token -> [Nonce -> the metadata of an instance]]
    NoAttrs,
    AccountSpec,   \* the accounts a setState may write
    NewAccount,    \* what an account is that nobody has set
    Check,         \* the checkState steps
    Holder, Amount,
    EntryKey,      \* the storage keys of contracts
    Empty          \* no bytes

VARIABLES
    Accounts,  \* what each account holds
    checked,   \* the check that was just made, or <<>>
    verdict

vars == <<Accounts, checked, verdict>>

NotACheck == verdict = "none" /\ UNCHANGED <<checked, verdict>>

\* The last element of a list that satisfies P, if one does.
Says(list, P(_)) == \E i \in DOMAIN list : P(list[i])
LastThat(list, P(_)) == list[CHOOSE i \in DOMAIN list : P(list[i]) /\ \A j \in DOMAIN list : P(list[j]) => j <= i]

Nothing == [amount |-> [n \in Nonce |-> 0], lastNonce |-> 0, roles |-> {}]

Names(d, t) == d.token = t
Mentions(d, t, n) == Names(d, t) /\ Says(d.instances, LAMBDA i : i.nonce = n)

\* The last mention of an instance counts, and the last word on a token.
AmountSet(data, t, n) ==
    IF ~Says(data, LAMBDA d : Mentions(d, t, n)) THEN 0
    ELSE LET d == LastThat(data, LAMBDA x : Mentions(x, t, n))
         IN  LastThat(d.instances, LAMBDA i : i.nonce = n).balance

Holding(data, t) ==
    IF ~Says(data, LAMBDA d : Names(d, t)) THEN Nothing
    ELSE LET last == LastThat(data, LAMBDA d : Names(d, t))
         IN  [amount |-> [n \in Nonce |-> AmountSet(data, t, n)],
              lastNonce |-> last.lastNonce, roles |-> last.roles]

Holdings(spec) ==
    [balance |-> spec.balance, owner |-> spec.owner,
     entries |-> [k \in EntryKey |-> IF k \in DOMAIN spec.entries THEN spec.entries[k] ELSE Empty],
     tokens |-> [t \in Token |-> Holding(spec.esdt, t)]]

Init == Accounts = [a \in {} |-> 0] /\ checked = <<>> /\ verdict = "none"

SetState(a, spec) ==
    /\ NotACheck
    /\ Accounts' = [x \in DOMAIN Accounts \union {a} |->
                        IF x = a THEN Holdings(spec) ELSE Accounts[x]]

SetAmount(a, t, n, v) ==
    /\ NotACheck
    /\ Accounts' = [Accounts EXCEPT ![a].tokens[t].amount[n] = v]

\* A transfer may be the first to write to the system account.
Transfer(from, to, t, n, v, appears) ==
    /\ NotACheck
    /\ v <= Accounts[from].tokens[t].amount[n]
    /\ LET present == [a \in DOMAIN Accounts \union appears |->
                          IF a \in DOMAIN Accounts THEN Accounts[a] ELSE Holdings(NewAccount)]
       IN  Accounts' = [present EXCEPT ![from].tokens[t].amount[n] = @ - v,
                                       ![to].tokens[t].amount[n] = @ + v]

Agrees(want, have) == want.star \/ want.value = have

MeetsInstance(want, t, n, amount) ==
    /\ Agrees(want.balance, amount)
    /\ want.attrs.unspecified \/ Agrees(want.attrs, IF amount > 0 THEN AttrsOf[t][n] ELSE NoAttrs)

MeetsToken(list, t, have) ==
    IF ~Says(list, LAMBDA e : e.token = t) THEN have = Nothing
    ELSE LET e == LastThat(list, LAMBDA x : x.token = t)
         IN  /\ \A n \in Nonce :
                  IF Says(e.instances, LAMBDA i : i.nonce = n)
                  THEN MeetsInstance(LastThat(e.instances, LAMBDA i : i.nonce = n), t, n, have.amount[n])
                  ELSE have.amount[n] = 0
             /\ Agrees(e.lastNonce, have.lastNonce)
             /\ e.roles = have.roles

MeetsEntries(want, entries) ==
    \A k \in DOMAIN entries :
        IF Says(want.list, LAMBDA e : e.key = k)
        THEN Agrees(LastThat(want.list, LAMBDA e : e.key = k).value, entries[k])
        ELSE want.more \/ entries[k] = Empty

MeetsAccount(want, have) ==
    /\ Agrees(want.balance, have.balance)
    /\ want.owner.unspecified \/ Agrees(want.owner, have.owner)
    /\ want.storage.ignore \/ MeetsEntries(want.storage, have.entries)
    /\ want.esdt.ignore \/ \A t \in Token : MeetsToken(want.esdt.list, t, have.tokens[t])

Meets(check) ==
    /\ \A want \in {check.accounts[i] : i \in DOMAIN check.accounts} :
        want.address \in DOMAIN Accounts /\ MeetsAccount(want, Accounts[want.address])
    /\ check.more \/ \A a \in DOMAIN Accounts :
        a = SystemAccount \/ \E i \in DOMAIN check.accounts : check.accounts[i].address = a

CheckState(check) ==
    /\ verdict = "none"
    /\ checked' = check
    /\ verdict' = IF Meets(check) THEN "ok" ELSE "error"
    /\ UNCHANGED Accounts

Continue == verdict = "ok" /\ checked' = <<>> /\ verdict' = "none" /\ UNCHANGED Accounts

Next ==
    \/ Continue
    \/ \E a \in Holder, spec \in AccountSpec : SetState(a, spec)
    \/ \E a \in DOMAIN Accounts, t \in Token, n \in Nonce, v \in Amount : SetAmount(a, t, n, v)
    \/ \E from, to \in DOMAIN Accounts, t \in Token, n \in Nonce, v \in Amount,
          appears \in SUBSET {SystemAccount} : Transfer(from, to, t, n, v, appears)
    \/ \E check \in Check : CheckState(check)

Spec == Init /\ [][Next]_vars
=============================================================================

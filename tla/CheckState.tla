----------------------------- MODULE CheckState -----------------------------
(***************************************************************************)
(* ExecuteCheckStateStep, on accounts whose tokens are storage entries:    *)
(* setState writes them, transactions move them (builtin functions of      *)
(* vm-common-go, external), and a check reads all of an account's storage  *)
(* back, merges what it finds with what the step lists, and compares.      *)
(*                                                                         *)
(* Of the fields of an account, balance stands for those that have to be   *)
(* zero or empty when a check does not mention them (nonce, balance,       *)
(* username, code), owner for those that then are not looked at (code      *)
(* metadata, owner, asyncCallData).  Error messages are left out: a step   *)
(* that finds any error ends with "error".                                 *)
(***************************************************************************)
EXTENDS TokenStorage

CONSTANTS
    Holder, SystemAccount,
    EntryKey,    \* the plain storage keys of contracts, sequences of bytes
    Entry,       \* what they may hold
    Empty,       \* no bytes, the value of a key that is not there
    NoOwner,
    Moved,       \* bound: transactions move these instances, <<token, nonce>>
    Amount,      \* bound: by these amounts
    MaxAmount,   \* bound: nobody is sent more than this of an instance
    AccountSpec, \* the accounts a setState step may write
    Check        \* the checkState steps

ASSUME CheckAssumption ==
    /\ SystemAccount \notin Holder
    /\ EntryKey \subseteq Seq(Byte) /\ Empty \in Entry
ASSUME AmountAssumption == Amount \subseteq Nat /\ MaxAmount \in Nat

\* What the parser makes of an account.
IsAccountSpec(spec) ==
    /\ DOMAIN spec.entries \in SUBSET EntryKey /\ IsFiniteSet(DOMAIN spec.entries)
    /\ spec.entries \in [DOMAIN spec.entries -> Entry]
    /\ spec.esdt \in Seq(Range(spec.esdt))
    /\ \A d \in Range(spec.esdt) :
        /\ d.token \in Token /\ d.lastNonce \in Nat /\ IsFiniteSet(d.roles)
        /\ d.instances \in Seq(Range(d.instances))
        /\ \A i \in Range(d.instances) : i.nonce \in Nonce /\ i.balance \in Nat

ASSUME AccountAssumption == \A spec \in AccountSpec : IsAccountSpec(spec)

\* What the parser makes of what is expected of an account.
IsAccountCheck(want) ==
    /\ want.storage.list \in Seq(Range(want.storage.list))
    /\ \A e \in Range(want.storage.list) : e.key \in EntryKey
    /\ want.esdt.list \in Seq(Range(want.esdt.list))
    /\ \A e \in Range(want.esdt.list) :
        /\ e.token \in Token /\ e.instances \in Seq(Range(e.instances))
        /\ \A i \in Range(e.instances) : i.nonce \in Nonce

ASSUME AccountCheckAssumption ==
    \A check \in Check : \A i \in DOMAIN check.accounts : IsAccountCheck(check.accounts[i])

VARIABLES
    AcctMap,
    checked,     \* the check that was just executed, or <<>>
    verdict

vars == <<AcctMap, checked, verdict>>

Plain(k) == Key("plain", k)

NewAccount == [balance |-> 0, owner |-> NoOwner, Storage |-> NoStorage]

\* An account of a setState step is written anew.
convertAccount(spec) ==
    [balance |-> spec.balance,
     owner   |-> spec.owner,
     Storage |-> WriteScenariosESDTToStorage(spec.esdt,
                    [k \in {Plain(e) : e \in DOMAIN spec.entries} |-> spec.entries[k.rest]])]

PutAccount(a, account) ==
    [x \in DOMAIN AcctMap \union {a} |-> IF x = a THEN account ELSE AcctMap[x]]

\* A step that is not a check: the scenario goes on if no check has failed.
NotACheck == verdict = "none" /\ UNCHANGED <<checked, verdict>>

SetState(a, spec) ==
    /\ AcctMap' = PutAccount(a, convertAccount(spec))
    /\ NotACheck

\* Account.SetTokenBalance, for instances the account has.
SetBalance(a, t, n, v) ==
    /\ <<t, n>> \in Moved /\ GetTokenBalance(t, n, AcctMap[a].Storage) > 0
    /\ AcctMap' = [AcctMap EXCEPT ![a].Storage = SetTokenBalance(t, n, v, @)]
    /\ NotACheck

SystemStorage ==
    IF SystemAccount \in DOMAIN AcctMap THEN AcctMap[SystemAccount].Storage ELSE NoStorage

\* Mutant: nobody looks whether the sender has that much.
TransferUnchecked(from, to, t, n, v) ==
    LET k == makeTokenKey(t, n)
        sent == GetTokenData(t, n, AcctMap[from].Storage, SystemStorage)
        got  == GetTokenBalance(t, n, AcctMap[to].Storage)
    IN  /\ <<t, n>> \in Moved /\ from # to /\ n = 0 /\ got + v <= MaxAmount
        /\ AcctMap' = [AcctMap EXCEPT
                ![from].Storage = Put(@, k, Instance(sent.value - v, NoMetaData)),
                ![to].Storage   = Put(@, k, Instance(got + v, NoMetaData))]
        /\ NotACheck

\* An ESDT or NFT transfer, with every flag of EnableEpochsHandlerStubAllFlags:
\* the metadata of an NFT moves to the system account, and empty bytes are left
\* where nothing is.
Transfer(from, to, t, n, v) ==
    LET k       == makeTokenKey(t, n)
        sent    == GetTokenData(t, n, AcctMap[from].Storage, SystemStorage)
        got     == GetTokenBalance(t, n, AcctMap[to].Storage)
        left    == IF sent.value = v THEN NoToken ELSE Instance(sent.value - v, NoMetaData)
        moved   == [AcctMap EXCEPT ![from].Storage = Put(@, k, left),
                                   ![to].Storage   = Put(@, k, Instance(got + v, NoMetaData))]
        central == [NewAccount EXCEPT !.Storage = Put(SystemStorage, k, Instance(0, sent.meta))]
    IN  /\ <<t, n>> \in Moved /\ from # to /\ v > 0 /\ v <= sent.value /\ got + v <= MaxAmount
        /\ AcctMap' = IF n = 0 THEN moved
                      ELSE [a \in DOMAIN AcctMap \union {SystemAccount} |->
                                IF a = SystemAccount THEN central ELSE moved[a]]
        /\ NotACheck

(***************************************************************************)
(* Checking.                                                               *)
(***************************************************************************)
Star(zero) == [star |-> TRUE, unspecified |-> FALSE, value |-> zero]
Is(v) == [star |-> FALSE, unspecified |-> FALSE, value |-> v]
Unspecified(zero) == [star |-> FALSE, unspecified |-> TRUE, value |-> zero]

Passes(want, have) == want.star \/ want.value = have

\* The map a list of the step is turned into: the last of equal keys stays.
Listed(list, field) ==
    [k \in {list[i][field] : i \in DOMAIN list} |->
        list[SelectLastInSeq(list, LAMBDA e : e[field] = k)]]

checkAccountStorage(want, account) ==
    LET listed == Listed(want.list, "key")
        found  == {k.rest : k \in KeysWith("plain", account.Storage)}
        Wanted(k) == IF k \in DOMAIN listed THEN listed[k].value
                     ELSE IF want.more THEN Star(Empty) ELSE Unspecified(Empty)
        StorageValue(k) == IF k \in found THEN account.Storage[Plain(k)] ELSE Empty
    IN  want.ignore \/ \A k \in DOMAIN listed \union found : Passes(Wanted(k), StorageValue(k))

checkTokenInstances(expected, actual) ==
    LET listed == Listed(expected.instances, "nonce")
        held   == {i.nonce : i \in actual.instances}
        Wanted(n) == IF n \in DOMAIN listed THEN listed[n]
                     ELSE [nonce |-> n, balance |-> Is(0), attrs |-> Is(NoAttrs)]
        Held(n) == IF n \in held THEN CHOOSE i \in actual.instances : i.nonce = n
                   ELSE [nonce |-> n, balance |-> 0, attrs |-> NoAttrs]
    IN  \A n \in DOMAIN listed \union held :
            /\ Passes(Wanted(n).balance, Held(n).balance)
            /\ Wanted(n).attrs.unspecified \/ Passes(Wanted(n).attrs, Held(n).attrs)

checkTokenState(expected, actual) ==
    /\ checkTokenInstances(expected, actual)
    /\ Passes(expected.lastNonce, actual.lastNonce)
    /\ expected.roles = actual.roles

\* Mutant: only the tokens the account has are compared.
CheckFoundTokens(want, account) ==
    LET listed == Listed(want.list, "token")
        found  == GetFullMockESDTData(account.Storage, SystemStorage)
        Expected(t) == IF t \in DOMAIN listed THEN listed[t]
                       ELSE [token |-> t, instances |-> <<>>, lastNonce |-> Is(0), roles |-> {}]
    IN  want.ignore \/ \A t \in DOMAIN found : checkTokenState(Expected(t), found[t])

checkAccountESDT(want, account) ==
    LET listed == Listed(want.list, "token")
        found  == GetFullMockESDTData(account.Storage, SystemStorage)
        Expected(t) == IF t \in DOMAIN listed THEN listed[t]
                       ELSE [token |-> t, instances |-> <<>>, lastNonce |-> Is(0), roles |-> {}]
        Actual(t) == IF t \in DOMAIN found THEN found[t]
                     ELSE [instances |-> {}, lastNonce |-> 0, roles |-> {}]
    IN  want.ignore \/ \A t \in DOMAIN listed \union DOMAIN found :
                            checkTokenState(Expected(t), Actual(t))

checkAccount(want) ==
    /\ want.address \in DOMAIN AcctMap
    /\ LET account == AcctMap[want.address]
       IN  /\ Passes(want.balance, account.balance)
           \* The other fields pass with "*"; here IsStar is not looked at.
           /\ want.owner.unspecified \/ want.owner.value = account.owner
           /\ checkAccountStorage(want.storage, account)
           /\ checkAccountESDT(want.esdt, account)

checkAccounts(check) ==
    /\ \/ check.more
       \/ \A a \in DOMAIN AcctMap \ {SystemAccount} :
            \E i \in DOMAIN check.accounts : check.accounts[i].address = a
    /\ \A i \in DOMAIN check.accounts : checkAccount(check.accounts[i])

(***************************************************************************)
(* Dumping.  DumpWorld changes nothing and converts every account.         *)
(***************************************************************************)
FullData(a) == GetFullMockESDTData(AcctMap[a].Storage, SystemStorage)

\* The elements of a set, in map order.
AnyOrder(S) == SetToSeq(S)

\* Mutant: tokens without instances are skipped, with their last nonce and roles.
DumpHeldTokens(a) ==
    LET full == FullData(a)
        InScenarioFormat(t) ==
            [token |-> t, instances |-> AnyOrder(full[t].instances),
             lastNonce |-> full[t].lastNonce, roles |-> full[t].roles]
    IN  [balance |-> AcctMap[a].balance, owner |-> AcctMap[a].owner,
         entries |-> [e \in {} |-> Empty],
         esdt    |-> AnyOrder({InScenarioFormat(t) : t \in {u \in DOMAIN full : full[u].instances # {}}})]

\* convertMockAccountToScenarioFormat, from a MockAccount to a setState account.
\* Empty and protected entries are left out, and so are code and username.
DumpAccount(a) ==
    LET full    == FullData(a)
        account == AcctMap[a]
        kept    == {k \in KeysWith("plain", account.Storage) : account.Storage[k] # Empty}
        InScenarioFormat(t) ==
            [token |-> t, instances |-> AnyOrder(full[t].instances),
             lastNonce |-> full[t].lastNonce, roles |-> full[t].roles]
    IN  [balance |-> account.balance, owner |-> account.owner,
         entries |-> [e \in {k.rest : k \in kept} |-> account.Storage[Plain(e)]],
         esdt    |-> AnyOrder({InScenarioFormat(t) : t \in DOMAIN full})]

\* The scenario stops at a check that fails.
ExecuteCheckStateStep(check) ==
    /\ verdict = "none"
    /\ checked' = check
    /\ verdict' = IF checkAccounts(check) THEN "ok" ELSE "error"
    /\ UNCHANGED AcctMap

Continue == verdict = "ok" /\ checked' = <<>> /\ verdict' = "none" /\ UNCHANGED AcctMap

Init == AcctMap = [a \in {} |-> NewAccount] /\ checked = <<>> /\ verdict = "none"

Next ==
    \/ \E a \in Holder, spec \in AccountSpec : SetState(a, spec)
    \/ \E a \in DOMAIN AcctMap \ {SystemAccount}, t \in Token, n \in Nonce, v \in Amount :
        SetBalance(a, t, n, v)
    \/ \E from, to \in DOMAIN AcctMap \ {SystemAccount}, t \in Token, n \in Nonce,
          v \in Amount : Transfer(from, to, t, n, v)
    \/ \E check \in Check : ExecuteCheckStateStep(check)
    \/ Continue

Spec == Init /\ [][Next]_vars
-----------------------------------------------------------------------------
IsTokenData(v) ==
    /\ DOMAIN v = {"value", "meta"} /\ v.value \in Nat
    /\ DOMAIN v.meta = {"stored", "nonce", "attrs"} /\ v.meta.stored \in BOOLEAN
    /\ v.meta.nonce \in Nonce \union {0}

TypeOK ==
    /\ DOMAIN AcctMap \subseteq Holder \union {SystemAccount}
    /\ \A a \in DOMAIN AcctMap : \A k \in DOMAIN AcctMap[a].Storage :
        LET v == AcctMap[a].Storage[k]
        IN  CASE k.prefix = "plain" -> k.rest \in EntryKey /\ v \in Entry
              [] k.prefix = "esdt"  -> IsTokenData(v)
              [] k.prefix = "nonce" -> v \in Seq(Byte)
              [] k.prefix = "role"  -> k.rest \in Token /\ IsFiniteSet(v)
    /\ checked \in Check \union {<<>>}
    /\ verdict \in {"none", "ok", "error"}

\* GetFullMockESDTData finds every token of an account: an instance whose balance
\* can be read by its key is reported, under its token, with its nonce and that
\* balance, and nothing else is.  The scan has to part names from nonces that
\* makeTokenKey has joined.
FullDataIsComplete ==
    \A a \in DOMAIN AcctMap :
        LET full == FullData(a)
        IN  \A t \in Token :
                {<<i.nonce, i.balance>> : i \in IF t \in DOMAIN full THEN full[t].instances ELSE {}}
                    = {<<n, GetTokenBalance(t, n, AcctMap[a].Storage)>> : n \in
                        {m \in Nonce : GetTokenBalance(t, m, AcctMap[a].Storage) > 0}}

\* What DumpWorld prints, set as the state of another world, holds the same
\* tokens with the same metadata, although the metadata may have come from the
\* system account, which the other world does not have.
DumpRestoresTokens ==
    \A a \in DOMAIN AcctMap :
        GetFullMockESDTData(convertAccount(DumpAccount(a)).Storage, NoStorage) = FullData(a)
=============================================================================

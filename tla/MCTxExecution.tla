--------------------------- MODULE MCTxExecution ---------------------------
(***************************************************************************)
(* Small instances of TxExecution: a user (alice), an address without       *)
(* account that transfers, contracts and deployments may create (bob), a   *)
(* payable contract (vault), one that is not (safe), the system account.   *)
(***************************************************************************)
EXTENDS TxAtomicity

MCAddr == {"alice", "bob", "vault", "safe", "sys"}
MCKey  == {"token", "reward"}

User(nonce, balance, tokens) ==
    [EmptyAccount EXCEPT !.Nonce = nonce, !.Balance = balance, !.Storage["token"] = tokens]

Contract(balance, tokens) == SetCodeAndMetadata(User(0, balance, tokens), "wasm")

MCGenesis == [a \in {"alice", "vault", "safe"} |->
    CASE a = "alice" -> User(0, 3, 2)
      [] a = "vault" -> Contract(1, 1)
      [] a = "safe"  -> Contract(0, 0)]

T(type, from, to, value, esdt, gas) ==
    [Type |-> type, From |-> from, To |-> to, EGLDValue |-> value,
     ESDTValue |-> esdt, ESDTListed |-> esdt # <<>>, GasPayment |-> gas]

\* A list of no transfers, as in "esdtValue": [].
EmptyTransfer(from, to) ==
    [T("Transfer", from, to, 0, <<>>, 1) EXCEPT !.ESDTListed = TRUE]

CallTx == {T("ScCall", "alice", "vault", 0, <<1>>, 1), T("ScCall", "alice", "safe", 1, <<>>, 0),
           T("ScCall", "alice", "safe", 0, <<1>>, 0), T("ScQuery", "alice", "vault", 0, <<>>, 0),
           T("ScCall", "alice", "bob", 0, <<>>, 0)}

PlainTx == {T("Transfer", "alice", "bob", 2, <<>>, 1), T("Transfer", "alice", "bob", 0, <<3>>, 0),
            T("Transfer", "alice", "vault", 0, <<1, 2>>, 0), T("Transfer", "alice", "safe", 0, <<1>>, 0),
            T("Transfer", "alice", "safe", 0, <<1, 1>>, 0),
            T("Transfer", "bob", "alice", 1, <<>>, 0), EmptyTransfer("alice", "bob"),
            T("ValidatorReward", "alice", "bob", 1, <<>>, 0),
            T("ScUpgrade", "alice", "vault", 0, <<>>, 1),
            T("ScDeploy", "alice", "alice", 1, <<>>, 0),
            T("ScQuery", "alice", "bob", 0, <<>>, 0)}

\* Every type, one of them a call that runs a contract and creates an account.
EveryTx == PlainTx \union {T("ScCall", "alice", "vault", 0, <<1>>, 1)}

Out(accounts) == [OutputAccounts |-> accounts, DeletedAccounts |-> {}]

Delta(d) == [BalanceDelta |-> d, Nonce |-> 0, Code |-> NoCode, StorageUpdates |-> <<>>]

MCVMOutputs ==
    {Out(<<>>),
     Out([a \in {"vault"} |-> Delta(1)]),
     Out([a \in {"vault", "alice"} |-> IF a = "vault" THEN Delta(-1) ELSE Delta(1)]),
     Out([a \in {"bob"} |-> [Delta(1) EXCEPT !.Code = "wasm", !.Nonce = 1]])}

\* A transfer may carry both EGLD and a token: its empty output has no delta.
MismatchTx == {T("Transfer", "alice", "vault", 1, <<1>>, 0),
               T("Transfer", "alice", "vault", 1, <<>>, 0)}
============================================================================

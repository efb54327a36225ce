----------------------------- MODULE MCSetState -----------------------------
(***************************************************************************)
(* Small instances of SetState: two users that deploy, one that does not   *)
(* exist yet (carol), a contract, and the addresses deployments may get.   *)
(***************************************************************************)
EXTENDS SetState

CONSTANTS alice, bob, carol, vault, mocked

MCTrunk == [c \in {alice, bob} |-> IF c = alice THEN "a" ELSE "b"]

MCSCAddr == {vault, mocked} \union ({"a", "b"} \X (0..2))
MCAddr == {alice, bob, carol} \union MCSCAddr \union {SystemAccount}

MCGenesis ==
    [a \in {alice, bob, vault} |->
        IF a = vault THEN SetCodeAndMetadata(EmptyAccount, "c1")
        ELSE [EmptyAccount EXCEPT !.Balance = 1]]

Acct(addr, update) ==
    [Address |-> addr, Update |-> update, Nonce |-> Unspecified, Balance |-> Unspecified,
     Code |-> Unspecified, Storage |-> [k \in {} |-> 0],
     CodeMetadata |-> Unspecified, DeveloperReward |-> Unspecified, AsyncCallData |-> ""]

Stored(spec, v) == [spec EXCEPT !.Storage = [k \in {"k1"} |-> v]]

Block(ms, seconds, nonce) == [TimestampMs |-> ms, Timestamp |-> seconds, Nonce |-> nonce]

Mock(creator, nonce, addr) ==
    [CreatorAddress |-> creator, CreatorNonce |-> nonce, NewAddress |-> addr]

Accounts(specs) == [NoStep EXCEPT !.Accounts = specs]

\* The third step stops at its second account, the last at its mock.  The second
\* and the fourth have updates that say what updates drop.
MCSteps ==
    {Accounts(<<Stored([Acct(vault, FALSE) EXCEPT !.Code = "c1", !.AsyncCallData = "call"], 1),
                [Acct(alice, TRUE) EXCEPT !.Balance = 2]>>),
     Accounts(<<[Acct(carol, FALSE) EXCEPT !.Nonce = 1, !.AsyncCallData = "call"],
                Stored([Acct(carol, TRUE) EXCEPT !.DeveloperReward = 5], 2)>>),
     Accounts(<<Stored(Acct(alice, TRUE), 1), Stored(Acct(vault, TRUE), 3),
                [Acct(bob, TRUE) EXCEPT !.Balance = 0]>>),
     [Accounts(<<Stored([Acct(carol, TRUE) EXCEPT !.CodeMetadata = "0506"], 1)>>) EXCEPT
        !.NewAddressMocks = <<Mock(alice, 1, mocked)>>],
     [NoStep EXCEPT !.CurrentBlockInfo = Block(Unspecified, 3, Unspecified), !.BlockHashes = <<"hash">>,
                    !.PreviousBlockInfo = Block(1, 2, 1)],
     [NoStep EXCEPT !.CurrentBlockInfo = Block(Unspecified, Unspecified, 2),
                    !.NewAddressMocks = <<Mock(bob, 0, carol)>>]}
=============================================================================

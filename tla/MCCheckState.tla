---------------------------- MODULE MCCheckState ----------------------------
(***************************************************************************)
(* Two holders of a fungible token and of the NFTs of a collection, and    *)
(* checks that say everything, little, the wrong thing, or the same thing  *)
(* twice about them.                                                       *)
(***************************************************************************)
EXTENDS CheckedLedger

CONSTANTS h1, h2

\* "F-123456", "N-abcdef": a ticker, the separator and six more bytes.
TOK == <<70, 45, 49, 50, 51, 52, 53, 54>>
NFT == <<78, 45, 97, 98, 99, 100, 101, 102>>

MCTokens == {TOK, NFT}
MCEntryKeys == {<<7>>, <<8>>}

MCAttrs == [t \in {TOK, NFT} |-> [n \in Nonce |-> IF n = 0 THEN "none" ELSE "art"]]

TheNonce == CHOOSE n \in Nonce : n > 0 /\ \A m \in Nonce : m <= n

MCMoved == {<<TOK, 0>>, <<NFT, TheNonce>>}

Bare == [balance |-> 0, owner |-> NoOwner, entries |-> [k \in {} |-> Empty], esdt |-> <<>>]
Units(n, balance) == [nonce |-> n, balance |-> balance, attrs |-> IF n = 0 THEN "none" ELSE "art"]
Data(t, instances, last, roles) ==
    [token |-> t, instances |-> instances, lastNonce |-> last, roles |-> roles]

\* The second has an instance listed twice, as the legacy syntax allows.
MCAccounts ==
    {[Bare EXCEPT !.balance = 1],
     [Bare EXCEPT !.owner = "o", !.entries = [k \in {<<7>>} |-> "v"],
                  !.esdt = <<Data(TOK, <<Units(0, 1), Units(0, 2)>>, 0, {})>>],
     [Bare EXCEPT !.entries = [k \in {<<7>>} |-> ""],
                  !.esdt = <<Data(NFT, <<Units(TheNonce, 2), Units(1, 1)>>, TheNonce, {"create"}),
                             Data(TOK, <<Units(0, 0)>>, 0, {})>>]}

AnyValue == [ignore |-> TRUE, more |-> FALSE, list |-> <<>>]
Exactly(list) == [ignore |-> FALSE, more |-> FALSE, list |-> list]

Silent(a) ==
    [address |-> a, balance |-> Unspecified(0), owner |-> Unspecified(""),
     storage |-> AnyValue, esdt |-> Exactly(<<>>)]
Stars(a) == [Silent(a) EXCEPT !.balance = Star(0), !.esdt = AnyValue]

Expect(n, want, attrs) == [nonce |-> n, balance |-> want, attrs |-> attrs]
Says(t, instances, last, roles) ==
    [token |-> t, instances |-> instances, lastNonce |-> last, roles |-> roles]
Simple(t, v) == Says(t, <<Expect(0, Is(v), Is("none"))>>, Is(0), {})
EntryIs(k, want) == [key |-> k, value |-> want]

Collection(first, second, last, roles) == Says(NFT, <<first, second>>, last, roles)

Stores(list) == [Stars(h1) EXCEPT !.storage = Exactly(list)]
Holds(list) == [Stars(h1) EXCEPT !.esdt = Exactly(list)]

MCAccountChecks ==
    {Stars(h1), Silent(h1), [Silent(h1) EXCEPT !.balance = Is(1)],
     [Stars(h1) EXCEPT !.owner = Is("o")], [Stars(h1) EXCEPT !.owner = Is("")],
     Stores(<<>>), [Stores(<<>>) EXCEPT !.storage.more = TRUE],
     Stores(<<EntryIs(<<7>>, Is("w")), EntryIs(<<7>>, Is("v"))>>),
     Stores(<<EntryIs(<<8>>, Is("v"))>>), Stores(<<EntryIs(<<8>>, Is("")), EntryIs(<<7>>, Star(""))>>),
     Holds(<<Simple(TOK, 0)>>), Holds(<<Simple(TOK, 2)>>),
     Holds(<<Simple(TOK, 1), Simple(TOK, 2)>>),
     Holds(<<Simple(TOK, 1), Simple(NFT, 0)>>),
     Holds(<<Says(TOK, <<Expect(0, Star(0), Unspecified("none"))>>, Star(0), {}),
             Collection(Expect(1, Is(1), Is("art")), Expect(TheNonce, Is(2), Unspecified("none")),
                        Is(TheNonce), {"create"})>>),
     Holds(<<Collection(Expect(1, Star(0), Star("none")), Expect(TheNonce, Is(1), Is("art")), Star(0), {"create"})>>),
     Holds(<<Collection(Expect(1, Is(0), Unspecified("none")), Expect(TheNonce, Is(1), Is("none")),
                        Is(0), {})>>)}

CheckOf(more, accounts) == [more |-> more, accounts |-> accounts]

MCChecks ==
    {CheckOf(FALSE, <<c, Stars(h2)>>) : c \in MCAccountChecks}
        \union {CheckOf(TRUE, <<Silent(h2)>>), CheckOf(FALSE, <<Stars(h1)>>), CheckOf(TRUE, <<>>),
                CheckOf(FALSE, <<Stars(h1), Silent(h1), Stars(h2)>>)}

\* Any owner will do.
StarOwnerChecks ==
    MCChecks \union {CheckOf(TRUE, <<[Stars(a) EXCEPT !.owner = Star("")]>>) : a \in {h1, h2}}
=============================================================================

---------------------------- MODULE MCExporter -----------------------------
(***************************************************************************)
(* Small instances of Exporter: a root file that may include a second one, *)
(* which may include a third.                                              *)
(***************************************************************************)
EXTENDS Exporter

CONSTANTS root, sub, leaf

\* A user; a contract with an address as "sc:" makes them, which has the prefix; a
\* contract with one as "address:" makes them, which is moved; an address that is mocked.
user == [head |-> "user______", tail |-> "u"]
contract == [head |-> ScAddressPrefix, tail |-> "c"]
moved == [head |-> "moved_____", tail |-> "m"]
mocked == [head |-> "mocked____", tail |-> "d"]

MCAddress == {user, contract, moved, mocked}

Acc(name, address, code, owner) ==
    [name |-> name, address |-> address, code |-> code, owner |-> owner]

Mock(name, address) == <<[name |-> name, address |-> address]>>

Set(name) ==
    [kind |-> "setState", mocks |-> Mock(name, mocked),
     accounts |-> <<Acc("m", moved, TRUE, TRUE), Acc(name, contract, TRUE, TRUE),
                    Acc("u", user, FALSE, FALSE)>>]

\* Transactions of every type, with a receiver of their own.
Tx(name, type, ident, status) ==
    [kind |-> "tx", name |-> name, type |-> type, ident |-> ident, status |-> status,
     from |-> IF ident = "benchmark" THEN user ELSE moved,
     to |-> IF type = "scDeploy" THEN Unnamed ELSE IF type = "scUpgrade" THEN mocked
            ELSE IF ident = "benchmark" THEN contract ELSE moved,
     payment |-> "some", gasPrice |-> IF type = "scCall" THEN 0 ELSE 5, codeFile |-> TRUE]

ToUser(name) == [Tx(name, "scCall", "other", "ok") EXCEPT !.to = user]

External(path) == [kind |-> "externalSteps", path |-> path]
Check == [kind |-> "checkState"]

\* Steps that export without trouble; a transaction is named for its place.
Good(name) ==
    {Set(name), Check, Tx(name, "scQuery", "other", "ok"), Tx(name, "scDeploy", "benchmark", "ok"),
     Tx(name, "scCall", "other", "ok"), Tx(name, "scUpgrade", "benchmark", "ok"),
     ToUser(name), Tx(name, "scCall", "benchmark", "failed")}

\* Steps that do not: no owner, no such file, nothing to compare a status with, no
\* receiver, no code, a mock without address.
Bad(name) ==
    {[kind |-> "setState", mocks |-> <<>>,
      accounts |-> <<Acc(name, user, FALSE, FALSE), Acc("c", contract, TRUE, FALSE)>>],
     [kind |-> "setState", mocks |-> Mock(name, Unnamed), accounts |-> <<>>],
     [Tx(name, "scCall", "other", "ok") EXCEPT !.to = Unnamed],
     [Tx(name, "scDeploy", "other", "ok") EXCEPT !.codeFile = FALSE],
     External(Missing), Tx(name, "scCall", "benchmark", "star"), Tx(name, "transfer", "other", "none")}

RootFiles(steps(_)) ==
    {<<first>> \o more :
        first \in {Set("r1"), External(sub)},
        more \in {<<>>} \union {<<a>> : a \in steps("r2")}
                 \union {<<a, b>> : a \in steps("r2") \union {External(sub)},
                                    b \in steps("r3") \union {External(sub)}}}

SubFiles(steps(_)) ==
    {<<first, s>> : first \in {Set("s1"), External(leaf)}, s \in steps("s2") \union {External(leaf)}}

LeafFiles == {<<Set("l1")>>, <<Set("l1"), Tx("l2", "scCall", "benchmark", "ok")>>}

Files(r, s, l) == {[f \in File |-> IF f = root THEN a ELSE IF f = sub THEN b ELSE c] :
                      a \in r, b \in s, c \in l}

GoodLibrary == Files(RootFiles(Good), SubFiles(Good), LeafFiles)

\* A single file that cannot be exported, wherever it is included.
BadLibrary ==
    Files(RootFiles(Good), {<<Set("s1"), s>> : s \in Bad("s2")} \union {<<>>, <<Check>>}, {<<Set("l1")>>})
    \union Files(RootFiles(Bad) \union {<<>>, <<Check>>},
                 {<<External(leaf), Tx("s2", "scCall", "benchmark", "ok")>>}, LeafFiles)

MCLibrary == GoodLibrary \union BadLibrary
=============================================================================

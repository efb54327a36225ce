--------------------------- MODULE ExprRoundTrip ---------------------------
(***************************************************************************)
(* A value on its way: a text of a scenario is interpreted, or the world   *)
(* holds some bytes; a dump or a message reconstructs a text of them, and  *)
(* somebody puts that text into a scenario.                                *)
(***************************************************************************)
EXTENDS Expression

CONSTANTS
    Texts,       \* the texts a scenario may hold
    Values,      \* the bytes the world may hold
    MaxNumber    \* bound: bytes of a value shown as a number

VARIABLES
    text,     \* what is written
    value,    \* what it was read as
    hint,     \* how it was reconstructed
    again     \* what the reconstructed text was read as

vars == <<text, value, hint, again>>

NotYet == [notYet |-> TRUE]

Init ==
    /\ \/ text \in Texts /\ value = NotYet
       \/ text = <<>> /\ value \in {Bytes(b) : b \in Values}
    /\ hint = "" /\ again = NotYet

Read ==
    /\ value = NotYet
    /\ value' = InterpretString(text)
    /\ UNCHANGED <<text, hint, again>>

Show(h) ==
    /\ IsOk(value) /\ hint = ""
    /\ h = "number" => Len(value.bytes) <= MaxNumber
    /\ hint' = h
    /\ text' = Reconstruct(value.bytes, h)
    /\ UNCHANGED <<value, again>>

ReadAgain ==
    /\ hint # "" /\ again = NotYet
    /\ again' = InterpretString(text)
    /\ UNCHANGED <<text, value, hint>>

Next == Read \/ (\E h \in Hints : Show(h)) \/ ReadAgain

Spec == Init /\ [][Next]_vars
=============================================================================

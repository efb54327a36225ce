---------------------------- MODULE DirectoryRun ----------------------------
(***************************************************************************)
(* What a directory run promises: it gives each file it finds, in order,   *)
(* the verdict the file has on its own, and fails if one of them failed.   *)
(* Between directory runs anything may be run.                             *)
(***************************************************************************)
EXTENDS Integers, Sequences

CONSTANTS
    Walk,      \* the files, in order
    Verdict    \* of a file on its own: "ok", "FAIL" or "skip"

VARIABLES
    running,   \* whether a directory run is going on
    verdicts,  \* those given so far
    result     \* of the last run

runVars == <<running, verdicts, result>>

Init == running = FALSE /\ verdicts = <<>> /\ result = "none"

Start ==
    /\ ~running
    /\ running' = TRUE /\ verdicts' = <<>> /\ result' = "none"

Visit ==
    /\ running /\ Len(verdicts) < Len(Walk)
    /\ verdicts' = Append(verdicts, Verdict[Walk[Len(verdicts) + 1]])
    /\ UNCHANGED <<running, result>>

Finish ==
    /\ running /\ Len(verdicts) = Len(Walk)
    /\ running' = FALSE
    /\ result' = IF \E i \in 1..Len(verdicts) : verdicts[i] = "FAIL" THEN "error" ELSE "ok"
    /\ UNCHANGED verdicts

RunOther ==
    /\ ~running
    /\ result' \in {"none", "ok", "error"}
    /\ UNCHANGED <<running, verdicts>>

Next == Start \/ Visit \/ Finish \/ RunOther

Spec == Init /\ [][Next]_runVars
=============================================================================

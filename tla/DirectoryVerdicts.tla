-------------------------- MODULE DirectoryVerdicts --------------------------
(***************************************************************************)
(* ScenarioRunner as an implementation of DirectoryRun.  The verdict of a   *)
(* file on its own is defined by running it, step after step, in an empty  *)
(* world under its own gas schedule: no call stack, no executor that has   *)
(* run something else before.                                              *)
(***************************************************************************)
EXTENDS ScenarioRunner

\* What steps depend on and change, and whether all of them succeeded so far.
Executor == [ok : BOOLEAN, world : SUBSET Mark, checkGas : BOOLEAN, vm : GasSchedule]

\* The outcome of one step on top of st; included tells what other files do.
RunStep(step, st, included) ==
    IF ~st.ok THEN st ELSE
    CASE step.kind = "externalSteps" -> included[step.path][st]
      [] step.kind = "checkState"    -> [st EXCEPT !.ok = (st.world = step.expects)]
      [] step.kind = "setState"      -> [st EXCEPT !.ok = ~step.fails,
                                                   !.world = @ \union step.writes]
      [] step.kind = "tx"            ->
            [st EXCEPT !.ok = ~step.fails /\ (st.checkGas => step.gasUnder \in {AnyGas, st.vm}),
                       !.world = @ \union step.writes]

\* After each number of steps of a file.
RunSteps(f, st, included) ==
    LET after[n \in 0..Len(Scenario[f].Steps)] ==
            IF n = 0 THEN [st EXCEPT !.checkGas = Scenario[f].CheckGas]
            ELSE RunStep(Scenario[f].Steps[n], after[n - 1], included)
    IN  after

RunFile(f, st, included) == RunSteps(f, st, included)[Len(Scenario[f].Steps)]

\* What including a file does, with no more than depth files in one another.
\* A file that another one includes has to find all files it names.
Included[depth \in 0..Cardinality(File)] ==
    [f \in File |-> [st \in Executor |->
        IF depth > 0 /\ f \in DOMAIN Scenario \ NamesMissing
        THEN RunFile(f, st, Included[depth - 1])
        ELSE [st EXCEPT !.ok = FALSE]]]

Fresh(gas) == [ok |-> TRUE, world |-> {}, checkGas |-> TRUE, vm |-> gas]

\* The file is one of those in one another.
Passes(f, gas) == RunFile(f, Fresh(gas), Included[Cardinality(File) - 1]).ok

Alone(f) ==
    /\ f \in DOMAIN Scenario
    /\ f \in NamesMissing => AllowMissing
    /\ Scenario[f].GasSchedule \notin Unavailable
    /\ Passes(f, Scenario[f].GasSchedule)

VerdictAlone ==
    [f \in File |-> IF f \in Excluded THEN "skip" ELSE IF Alone(f) THEN "ok" ELSE "FAIL"]

\* The VM is made once, so it matters which scenario was the first: all of them have
\* the same gas schedule, except those that cannot have theirs and pass under no other.
SchedulesAgree ==
    \A f \in DOMAIN Scenario :
        IF Scenario[f].GasSchedule \in Unavailable
        THEN \A gas \in GasSchedule \ Unavailable : ~Passes(f, gas)
        ELSE \A g \in DOMAIN Scenario :
                Scenario[g].GasSchedule \in {Scenario[f].GasSchedule} \union Unavailable

Abstract == INSTANCE DirectoryRun WITH
    Verdict  <- VerdictAlone,
    running  <- walking

\* A directory run gives each scenario the verdict it would have alone, whatever
\* ran before on the same executor: worlds, resolvers, flags and gas checks of
\* other files do not matter.  The scenarios have to agree on the gas schedule.
ImplementsDirectoryRun == Abstract!Spec
=============================================================================

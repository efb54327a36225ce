--------------------------- MODULE ScenarioRunner ---------------------------
(***************************************************************************)
(* ScenarioController and ScenarioExecutor.RunScenario: running a          *)
(* directory of scenarios, or one scenario, with external steps that run   *)
(* another file on the same executor.                                      *)
(*                                                                         *)
(* One executor outlives all its scenarios, and every external step runs   *)
(* on it too, so its fields (checkGas, fileResolver, scenarioTraceGas, vm, *)
(* World) are shared by the frames of the call stack.  Steps other than    *)
(* external ones are atomic here; what a transaction step does is          *)
(* TxExecution's.  The world is the set of marks steps have left in it.    *)
(* Left out: the log level (DisplayLogs), the printing of the gas trace,   *)
(* and SetGasTracing, called before every step with the stack's last flag. *)
(***************************************************************************)
EXTENDS Integers, Sequences, FiniteSets

CONSTANTS
    File,           \* scenario and external step files
    NoFile,         \* the empty context path of a new file resolver
    Walk,           \* the scenario files filepath.Walk finds, in its order
    Excluded,       \* those that match an excluded pattern
    Scenario,       \* what a file parses to; a file not in its domain does not
    NamesMissing,   \* the files with "file:" values for which there is no file
    AllowMissing,   \* whether the controller's resolver has AllowMissingFiles
    GasSchedule,    \* the names a scenario may give as gas schedule
    Unavailable,    \* those the VM builder cannot provide
    NoVM,           \* the nil VM
    Mark,           \* what steps leave in the world
    AnyGas,         \* a step without gas expectation
    ForceTraceGas,  \* the option of the run
    MaxCalls        \* bound: how often the controller is called

Steps == [kind : {"setState", "tx"}, writes : SUBSET Mark, fails : BOOLEAN,
          gasUnder : GasSchedule \union {AnyGas}]
         \union [kind : {"checkState"}, expects : SUBSET Mark]
         \union [kind : {"externalSteps"}, path : File,
                 TraceGas : {"undefined", "true", "false"}]

Scenarios == [CheckGas : BOOLEAN, TraceGas : BOOLEAN, GasSchedule : GasSchedule,
              Steps : Seq(Steps)]

ASSUME FileAssumption == IsFiniteSet(File) /\ NoFile \notin File
ASSUME WalkAssumption == Walk \in Seq(File) /\ Excluded \subseteq File
ASSUME ScenarioAssumption ==
    DOMAIN Scenario \subseteq File /\ Scenario \in [DOMAIN Scenario -> Scenarios]
ASSUME MissingAssumption == NamesMissing \subseteq File /\ AllowMissing \in BOOLEAN
ASSUME VMAssumption == NoVM \notin GasSchedule /\ Unavailable \subseteq GasSchedule
ASSUME GasAssumption == AnyGas \notin GasSchedule
ASSUME OptionAssumption == ForceTraceGas \in BOOLEAN /\ MaxCalls \in Nat

Includes(f) ==
    IF f \in DOMAIN Scenario
    THEN {Scenario[f].Steps[i].path :
             i \in {j \in 1..Len(Scenario[f].Steps) : Scenario[f].Steps[j].kind = "externalSteps"}}
    ELSE {}

\* No file includes itself, directly or through others: one that does recurses
\* until the program's stack is gone.
ASSUME AcyclicAssumption ==
    \A S \in SUBSET File : S = {} \/ \E f \in S : Includes(f) \intersect S = {}

VARIABLES
    pc,                \* "idle", "walk": between files; "run", "fail": in a scenario
    walking,           \* whether the running scenario belongs to a directory run
    walked,            \* how many files of Walk have been visited
    counts,            \* nrPassed, nrFailed, nrSkipped
    verdicts,          \* what was printed for each visited file
    result,            \* what the last call returned
    calls,             \* how many calls were made
    RunsNewTest,       \* a field of the top controller
    frames,            \* the call stack: one RunScenario per entry
    contextPath,       \* the context of each file resolver object
    fileResolver,      \* of the executor: the resolver object in use
    checkGas,          \* of the executor
    scenarioTraceGas,  \* of the executor: a stack
    vm,                \* of the executor: NoVM or the gas schedule it was built with
    World              \* of the executor

controllerVars == <<walking, walked, counts, verdicts, result, calls, RunsNewTest>>
vars == <<pc, walking, walked, counts, verdicts, result, calls, RunsNewTest, frames,
          contextPath, fileResolver, checkGas, scenarioTraceGas, vm, World>>

\* The controller's own resolver is object 1; the external step of frame n
\* makes object n + 1, and no older one with that number is in use.
Resolvers == 1..(Cardinality(File) + 1)

Top == frames[Len(frames)]

ZeroCounts == [passed |-> 0, failed |-> 0, skipped |-> 0]

Init ==
    /\ pc = "idle" /\ walking = FALSE /\ walked = 0
    /\ counts = ZeroCounts /\ verdicts = <<>> /\ result = "none" /\ calls = 0
    /\ RunsNewTest = FALSE
    /\ frames = <<>>
    /\ contextPath = [r \in Resolvers |-> NoFile]
    /\ fileResolver = 1
    /\ checkGas = TRUE
    /\ scenarioTraceGas = <<>>
    /\ vm = NoVM
    /\ World = {}

----------------------------------------------------------------------------
(* Starting a scenario: parse, then the beginning of RunScenario *)

PeekTraceGas(stack) == IF stack # <<>> THEN stack[Len(stack)] ELSE FALSE

\* Mutant: the flag of an earlier test survives.
ResetOnlyWithoutVM(stack, newTest, traceGas) ==
    IF vm = NoVM THEN <<traceGas>> ELSE stack

resetGasTracesIfNewTest(stack, newTest, traceGas) ==
    IF vm = NoVM \/ newTest THEN <<traceGas>> ELSE stack

\* Mutant: an external file keeps the checkGas of the scenario that runs it.
CheckGasOfTop(f) == IF frames = <<>> THEN Scenario[f].CheckGas ELSE checkGas

CheckGasOf(f) == Scenario[f].CheckGas

\* Mutant: the error of GasScheduleMapFromScenarios is dropped.
InitVMWithoutCheck(gasSchedule) == vm' = IF vm = NoVM THEN gasSchedule ELSE vm

\* InitVM does nothing if there is a VM.
InitVM(gasSchedule) ==
    vm' = IF vm = NoVM /\ gasSchedule \notin Unavailable THEN gasSchedule ELSE vm

\* Clone makes a resolver that does not allow missing files, whatever the first does.
allowMissingFiles(resolver) == AllowMissing /\ resolver = 1

Parses(f, resolver) ==
    f \in DOMAIN Scenario /\ (f \in NamesMissing => allowMissingFiles(resolver))

\* SetContext happens once the file is read, before it is parsed.
CannotParse(f, resolver) ==
    /\ ~Parses(f, resolver)
    /\ \/ f \notin DOMAIN Scenario /\ UNCHANGED contextPath
       \/ contextPath' = [contextPath EXCEPT ![resolver] = f]

\* Everything RunScenario does before its first step, and the new frame if the
\* VM could be made.  declared is the trace flag this frame should run under,
\* included tells whether it has run an external step (both are ghosts).
RunScenario(f, resolver, newTest, traceGas, stack, declared) ==
    /\ contextPath' = [contextPath EXCEPT ![resolver] = f]
    /\ fileResolver' = resolver
    /\ checkGas' = CheckGasOf(f)
    /\ scenarioTraceGas' = resetGasTracesIfNewTest(stack, newTest, traceGas)
    /\ InitVM(Scenario[f].GasSchedule)
    /\ frames' = IF vm' = NoVM THEN frames
                 ELSE Append(frames, [file |-> f, pos |-> 1, backup |-> fileResolver,
                                      declared |-> declared, included |-> FALSE])

----------------------------------------------------------------------------
(* The controller *)

RunDirectory ==
    /\ pc = "idle" /\ calls < MaxCalls
    /\ pc' = "walk"
    /\ walking' = TRUE /\ walked' = 0 /\ counts' = ZeroCounts /\ verdicts' = <<>>
    /\ calls' = calls + 1 /\ result' = "none"
    /\ UNCHANGED <<RunsNewTest, frames, contextPath, fileResolver, checkGas,
                   scenarioTraceGas, vm, World>>

\* What the walk function notes of a file once it is done with it.
Count(verdict) ==
    /\ verdicts' = Append(verdicts, verdict)
    /\ counts' = CASE verdict = "ok"   -> [counts EXCEPT !.passed = @ + 1]
                   [] verdict = "FAIL" -> [counts EXCEPT !.failed = @ + 1]
                   [] verdict = "skip" -> [counts EXCEPT !.skipped = @ + 1]

SkipFile ==
    /\ pc = "walk" /\ walked < Len(Walk)
    /\ Walk[walked + 1] \in Excluded
    /\ walked' = walked + 1
    /\ Count("skip")
    /\ UNCHANGED <<pc, walking, result, calls, RunsNewTest, frames, contextPath,
                   fileResolver, checkGas, scenarioTraceGas, vm, World>>

\* Mutant: the VM is reset, the world is not cleared.
ResetKeepsWorld == World' = World

\* The executor's Reset: the VM's own caches (external) and the world.
Reset == World' = {}

\* A file that does not parse fails at once, and RunsNewTest stays on.
FailToParse ==
    /\ pc = "walk" /\ walked < Len(Walk)
    /\ Walk[walked + 1] \notin Excluded
    /\ CannotParse(Walk[walked + 1], 1)
    /\ Reset
    /\ RunsNewTest' = TRUE
    /\ walked' = walked + 1
    /\ Count("FAIL")
    /\ UNCHANGED <<pc, walking, result, calls, frames, fileResolver, checkGas,
                   scenarioTraceGas, vm>>

\* Reset, a new test, and RunSingleJSONScenario.
StartFile ==
    /\ pc = "walk" /\ walked < Len(Walk)
    /\ Walk[walked + 1] \notin Excluded
    /\ Parses(Walk[walked + 1], 1)
    /\ LET f == Walk[walked + 1]
           traceGas == Scenario[f].TraceGas \/ ForceTraceGas
       IN  RunScenario(f, 1, TRUE, traceGas, scenarioTraceGas, traceGas)
    /\ Reset
    /\ RunsNewTest' = FALSE
    /\ walked' = walked + 1
    /\ IF vm' = NoVM THEN Count("FAIL") /\ UNCHANGED pc
       ELSE pc' = "run" /\ UNCHANGED <<verdicts, counts>>
    /\ UNCHANGED <<walking, result, calls>>

DirectoryDone ==
    /\ pc = "walk" /\ walked = Len(Walk)
    /\ pc' = "idle"
    /\ walking' = FALSE
    /\ result' = IF counts.failed > 0 THEN "error" ELSE "ok"
    /\ UNCHANGED <<walked, counts, verdicts, calls, RunsNewTest, frames, contextPath,
                   fileResolver, checkGas, scenarioTraceGas, vm, World>>

\* RunSingleJSONScenario called directly: no reset, and a new test only if a
\* directory run left RunsNewTest on.
RunSingle(f) ==
    /\ pc = "idle" /\ calls < MaxCalls
    /\ calls' = calls + 1
    /\ \/ /\ CannotParse(f, 1)
          /\ result' = "error"
          /\ UNCHANGED <<pc, RunsNewTest, frames, fileResolver, checkGas, scenarioTraceGas, vm>>
       \/ /\ Parses(f, 1)
          /\ LET traceGas == Scenario[f].TraceGas \/ ForceTraceGas
             IN  RunScenario(f, 1, RunsNewTest, traceGas, scenarioTraceGas, traceGas)
          /\ RunsNewTest' = FALSE
          /\ pc' = IF vm' = NoVM THEN "idle" ELSE "run"
          /\ result' = IF vm' = NoVM THEN "error" ELSE "none"
    /\ UNCHANGED <<walking, walked, counts, verdicts, World>>

----------------------------------------------------------------------------
(* The steps of a scenario *)

HasStep == pc = "run" /\ Top.pos <= Len(Scenario[Top.file].Steps)

Step == Scenario[Top.file].Steps[Top.pos]

\* Mutant: the loop comes back to the step it has just executed.
StayAtStep(frs) == frs

NextStep(frs) == [frs EXCEPT ![Len(frs)].pos = @ + 1]

\* The gas of a result is compared under the executor's checkGas, whatever
\* scenario the step is from.
GasMatches(step) == checkGas => step.gasUnder \in {AnyGas, vm}

Succeeds(step) ==
    IF step.kind = "checkState" THEN World = step.expects
    ELSE ~step.fails /\ (step.kind = "tx" => GasMatches(step))

\* A step that fails may have left some of its marks.
ExecuteStep ==
    /\ HasStep /\ Step.kind # "externalSteps"
    /\ IF Step.kind = "checkState" THEN UNCHANGED World
       ELSE \E written \in SUBSET Step.writes :
               /\ Succeeds(Step) => written = Step.writes
               /\ World' = World \union written
    /\ IF Succeeds(Step) THEN frames' = NextStep(frames) /\ UNCHANGED pc
       ELSE pc' = "fail" /\ UNCHANGED frames
    /\ UNCHANGED <<controllerVars, contextPath, fileResolver, checkGas, scenarioTraceGas, vm>>

setExternalStepGasTracing(stack, step) ==
    CASE step.TraceGas = "undefined" -> Append(stack, PeekTraceGas(stack))
      [] step.TraceGas = "true"      -> Append(stack, TRUE)
      [] step.TraceGas = "false"     -> Append(stack, FALSE)

\* The trace flag the file of an external step should run under.
Inherited(step) ==
    IF step.TraceGas = "undefined" THEN Top.declared ELSE step.TraceGas = "true"

\* A new controller with a clone of the resolver, whose context moves to the
\* other file, on the same executor.
ExecuteExternalStep ==
    /\ HasStep /\ Step.kind = "externalSteps"
    /\ Parses(Step.path, Len(frames) + 1)
    /\ RunScenario(Step.path, Len(frames) + 1, FALSE, Scenario[Step.path].TraceGas,
                   setExternalStepGasTracing(scenarioTraceGas, Step), Inherited(Step))
    /\ UNCHANGED <<pc, controllerVars, World>>

\* The file of the external step does not parse: the flag is pushed and popped.
ExternalStepNotParsed ==
    /\ HasStep /\ Step.kind = "externalSteps"
    /\ CannotParse(Step.path, Len(frames) + 1)
    /\ pc' = "fail"
    /\ UNCHANGED <<controllerVars, frames, fileResolver, checkGas, scenarioTraceGas, vm, World>>

PopTraceGas == scenarioTraceGas' = SubSeq(scenarioTraceGas, 1, Len(scenarioTraceGas) - 1)

PopFrame == SubSeq(frames, 1, Len(frames) - 1)

\* Mutant: the executor goes on with the resolver of the external file.
KeepResolver == UNCHANGED fileResolver

RestoreResolver == fileResolver' = Top.backup

\* The external file ran to its end: the resolver comes back, the flag goes,
\* checkGas stays.
ExternalStepDone ==
    /\ pc = "run" /\ Len(frames) > 1
    /\ Top.pos > Len(Scenario[Top.file].Steps)
    /\ RestoreResolver
    /\ PopTraceGas
    /\ frames' = [NextStep(PopFrame) EXCEPT ![Len(frames) - 1].included = TRUE]
    /\ UNCHANGED <<pc, controllerVars, contextPath, checkGas, vm, World>>

\* Mutant: the flag is popped only where the external step succeeded.
LeaveTraceGas == UNCHANGED scenarioTraceGas

PopTraceGasOnError == PopTraceGas

\* An error leaves an external step: the flag goes, the resolver stays.
ExternalStepFailed ==
    /\ pc = "fail" /\ Len(frames) > 1
    /\ PopTraceGasOnError
    /\ frames' = PopFrame
    /\ UNCHANGED <<pc, controllerVars, contextPath, fileResolver, checkGas, vm, World>>

\* The top scenario ends, with or without an error.
ScenarioDone ==
    /\ Len(frames) = 1
    /\ \/ pc = "run" /\ Top.pos > Len(Scenario[Top.file].Steps)
       \/ pc = "fail"
    /\ frames' = <<>>
    /\ IF walking
       THEN /\ Count(IF pc = "fail" THEN "FAIL" ELSE "ok")
            /\ pc' = "walk"
            /\ UNCHANGED result
       ELSE /\ result' = IF pc = "fail" THEN "error" ELSE "ok"
            /\ pc' = "idle"
            /\ UNCHANGED <<verdicts, counts>>
    /\ UNCHANGED <<walking, walked, calls, RunsNewTest, contextPath, fileResolver,
                   checkGas, scenarioTraceGas, vm, World>>

Next ==
    \/ RunDirectory
    \/ SkipFile
    \/ FailToParse
    \/ StartFile
    \/ DirectoryDone
    \/ \E f \in File : RunSingle(f)
    \/ ExecuteStep
    \/ ExecuteExternalStep
    \/ ExternalStepNotParsed
    \/ ExternalStepDone
    \/ ExternalStepFailed
    \/ ScenarioDone

Spec == Init /\ [][Next]_vars

\* Once called, the controller runs on: it is one thread without waiting.
\* Whether anybody calls it again is not promised.
Advance ==
    \/ SkipFile \/ FailToParse \/ StartFile \/ DirectoryDone
    \/ ExecuteStep \/ ExecuteExternalStep \/ ExternalStepNotParsed
    \/ ExternalStepDone \/ ExternalStepFailed \/ ScenarioDone

FairSpec == Spec /\ WF_vars(Advance)
----------------------------------------------------------------------------
(* Properties *)

Frame == [file : File, pos : Nat \ {0}, backup : Resolvers, declared : BOOLEAN,
          included : BOOLEAN]

\* Every variable has its type; in particular a VM is only ever made with a gas
\* schedule the builder could provide.
TypeOK ==
    /\ pc \in {"idle", "walk", "run", "fail"}
    /\ walking \in BOOLEAN /\ walked \in 0..Len(Walk)
    /\ counts \in [passed : Nat, failed : Nat, skipped : Nat]
    /\ verdicts \in Seq({"ok", "FAIL", "skip"})
    /\ result \in {"none", "ok", "error"} /\ calls \in 0..MaxCalls
    /\ RunsNewTest \in BOOLEAN
    /\ frames \in Seq(Frame)
    /\ contextPath \in [Resolvers -> File \union {NoFile}]
    /\ fileResolver \in Resolvers
    /\ checkGas \in BOOLEAN
    /\ scenarioTraceGas \in Seq(BOOLEAN)
    /\ vm \in (GasSchedule \ Unavailable) \union {NoVM}
    /\ World \subseteq Mark

\* The trace stack has one flag per running scenario file, on every path into
\* and out of external steps: ExecuteStep slices off the last one without
\* looking, and would panic or drop an outer flag otherwise.
StackMatchesFrames == frames # <<>> => Len(scenarioTraceGas) = Len(frames)

\* In a directory run each file runs under the trace flag it, or the external
\* step it comes from, declares: no flag of a scenario that ran or failed
\* before is left.
TracedAsDeclared ==
    pc = "run" /\ walking =>
        \A i \in 1..Len(frames) : scenarioTraceGas[i] = frames[i].declared

\* While a step executes, relative paths are resolved against the file the
\* step is in, also after an external step from another directory returned.
ResolverOfFile == pc = "run" => contextPath[fileResolver] = Top.file

\* A file's gas results are compared as the file says, as long as it has run no
\* external step; after one, as that file says.
OwnGasCheck == pc = "run" /\ ~Top.included => checkGas = Scenario[Top.file].CheckGas

\* A directory run comes to an end.
DirectoryRunEnds == pc = "walk" ~> pc = "idle"
=============================================================================

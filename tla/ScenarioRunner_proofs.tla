------------------------ MODULE ScenarioRunner_proofs ------------------------
(***************************************************************************)
(* Machine-checked proofs about ScenarioRunner, for every set of files,    *)
(* every directory and every nesting of external steps: the stack of trace *)
(* flags, the file resolver and the gas check fit the running file, and a  *)
(* directory run gives each file the verdict it has on its own.            *)
(***************************************************************************)
EXTENDS DirectoryVerdicts, Sums_proofs, FiniteSetTheorems, SequenceTheorems, TLAPS

----------------------------------------------------------------------------
(* The inductive invariant *)

\* Which part of the program runs, and what it then has.
Phases ==
    /\ pc \in {"idle", "walk"} => frames = <<>>
    /\ pc \in {"run", "fail"} => frames # <<>> /\ vm # NoVM
    /\ pc = "walk" => walking
    /\ pc = "idle" => ~walking

\* Every frame runs a file that parses, and each but the first one its caller includes.
Nested(frs) ==
    /\ \A i \in 1..Len(frs) : frs[i].file \in DOMAIN Scenario
    /\ \A i \in 1..(Len(frs) - 1) : frs[i + 1].file \in Includes(frs[i].file)

\* Once there is a VM the flags of a scenario that ended leave exactly one.
OneFlagEach ==
    vm # NoVM => Len(scenarioTraceGas) = IF frames = <<>> THEN 1 ELSE Len(frames)

\* The resolver of each frame has the context of its file, and each frame knows the
\* resolver of the one below.
ResolverOfEach ==
    pc = "run" =>
        /\ fileResolver = Len(frames)
        /\ \A i \in 1..Len(frames) :
            contextPath[i] = frames[i].file /\ (i > 1 => frames[i].backup = i - 1)

\* The fields of the executor fit the frames that share them.
FramesFit ==
    Nested(frames) /\ OneFlagEach /\ ResolverOfEach /\ TracedAsDeclared /\ OwnGasCheck

IInv == TypeOK /\ Phases /\ FramesFit

----------------------------------------------------------------------------
(* The call stack *)

\* No file is on the call stack twice, so it is not deeper than there are files: a
\* resolver is left for one more external step.
LEMMA NotDeeperThanFiles ==
    ASSUME NEW frs \in Seq(Frame), Nested(frs)
    PROVE  Len(frs) <= Cardinality(File) /\ Cardinality(File) \in Nat
<1> DEFINE n == Len(frs)
           f == [i \in 1..n |-> frs[i].file]
<1>1. n \in Nat /\ f \in [1..n -> File]
  <2>1. n \in Nat /\ \A i \in 1..n : frs[i] \in Frame
    OBVIOUS
  <2> QED BY <2>1 DEF Frame
<1>2. ASSUME NEW i \in 1..n, NEW j \in 1..n, i < j PROVE f[i] # f[j]
  <2> SUFFICES ASSUME f[i] = f[j] PROVE FALSE
    OBVIOUS
  <2> DEFINE S == {f[k] : k \in i..(j - 1)}
  <2>1. S \in SUBSET File /\ S # {}
    <3> HIDE DEF f
    <3>1. i \in i..(j - 1) /\ \A k \in i..(j - 1) : k \in 1..n /\ f[k] \in File
      BY <1>1, <1>2
    <3> QED BY <3>1
  <2>2. PICK x \in S : Includes(x) \intersect S = {}
    BY <2>1, AcyclicAssumption
  <2>3. PICK k \in i..(j - 1) : x = f[k]
    BY <2>2
  <2>4. f[k + 1] \in Includes(x)
    <3>1. k \in 1..(n - 1) /\ k + 1 \in 1..n /\ f[k] = frs[k].file /\ f[k + 1] = frs[k + 1].file
      BY <1>1, <1>2
    <3>2. frs[k + 1].file \in Includes(frs[k].file)
      BY <3>1 DEF Nested
    <3> QED BY <2>3, <3>1, <3>2
  <2>5. f[k + 1] \in S
    <3>1. CASE k + 1 = j
      BY <1>2, <3>1
    <3>2. CASE k + 1 # j
      BY <1>2, <3>2
    <3> QED BY <3>1, <3>2
  <2> QED BY <2>2, <2>4, <2>5
<1>3. IsFiniteSet(File) /\ Cardinality(File) \in Nat
  BY FileAssumption, FS_CardinalityType
<1>4. IsFiniteSet(1..n) /\ Cardinality(1..n) = n
  BY <1>1, FS_Interval
<1>5. ~(Cardinality(File) < n)
  <2> SUFFICES ASSUME Cardinality(File) < n PROVE FALSE
    OBVIOUS
  <2> HIDE DEF n, f
  <2>1. \E i, j \in 1..n : i # j /\ f[i] = f[j]
    BY <1>1, <1>3, <1>4, FS_PigeonHole
  <2> QED BY <1>1, <1>2, <2>1
<1> QED BY <1>1, <1>3, <1>5

\* The top frame, and the file and steps it has.
LEMMA TopFrame ==
    ASSUME TypeOK, Nested(frames), frames # <<>>
    PROVE  /\ Len(frames) \in Nat \ {0}
           /\ Top \in Frame /\ Top = frames[Len(frames)]
           /\ Top.file \in DOMAIN Scenario
           /\ Scenario[Top.file] \in Scenarios
<1>1. frames \in Seq(Frame) /\ Len(frames) \in Nat \ {0}
  BY DEF TypeOK
<1>2. Top \in Frame /\ Top = frames[Len(frames)]
  BY <1>1 DEF Top
<1>3. Top.file \in DOMAIN Scenario
  BY <1>1, <1>2 DEF Nested
<1> QED BY <1>1, <1>2, <1>3, ScenarioAssumption

\* The next step of the top frame: every frame keeps its file, resolver and flags.
LEMMA SteppedFrames ==
    ASSUME NEW frs \in Seq(Frame), frs # <<>>
    PROVE  LET new == NextStep(frs)
           IN  /\ new \in Seq(Frame) /\ Len(new) = Len(frs) /\ new # <<>>
               /\ \A i \in 1..Len(frs) :
                    /\ new[i].file = frs[i].file /\ new[i].backup = frs[i].backup
                    /\ new[i].declared = frs[i].declared /\ new[i].included = frs[i].included
<1> DEFINE n == Len(frs)
           last == [frs[n] EXCEPT !.pos = @ + 1]
           new == NextStep(frs)
<1>1. n \in Nat \ {0} /\ frs[n] \in Frame /\ DOMAIN frs = 1..n
  OBVIOUS
<1>2. last \in Frame /\ last.file = frs[n].file /\ last.backup = frs[n].backup
      /\ last.declared = frs[n].declared /\ last.included = frs[n].included
  BY <1>1 DEF Frame
<1>3. new = [frs EXCEPT ![n] = last]
  BY <1>1 DEF NextStep
<1> HIDE DEF last, new
<1>4. new \in Seq(Frame) /\ Len(new) = n /\ new # <<>>
  BY <1>1, <1>2, <1>3
<1>5. \A i \in 1..n : new[i] = IF i = n THEN last ELSE frs[i]
  BY <1>1, <1>3
<1> QED BY <1>2, <1>4, <1>5 DEF new

\* The call stack without its top frame.
LEMMA PoppedFrames ==
    ASSUME TypeOK, frames # <<>>
    PROVE  /\ PopFrame \in Seq(Frame) /\ Len(PopFrame) = Len(frames) - 1
           /\ \A i \in 1..(Len(frames) - 1) : PopFrame[i] = frames[i]
           /\ Len(frames) > 1 => PopFrame # <<>>
<1>1. frames \in Seq(Frame) /\ Len(frames) \in Nat \ {0}
  BY DEF TypeOK
<1> DEFINE n == Len(frames) - 1
<1>2. n \in Nat /\ \A i \in 1..n : frames[i] \in Frame
  BY <1>1
<1>3. PopFrame = SubSeq(frames, 1, n)
  BY DEF PopFrame
<1> HIDE DEF n
<1>4. PopFrame \in Seq(Frame) /\ Len(PopFrame) = n /\ \A i \in 1..n : PopFrame[i] = frames[i]
  BY <1>2, <1>3, SubSeqProperties
<1> QED BY <1>1, <1>4 DEF n

----------------------------------------------------------------------------
(* Entering a file *)

\* What RunScenario does of its own, called for the next free resolver.
Entered(f, newTest, traceGas, stack, declared) ==
    /\ contextPath' = [contextPath EXCEPT ![Len(frames) + 1] = f]
    /\ contextPath' \in [Resolvers -> File \union {NoFile}]
    /\ fileResolver' = Len(frames) + 1 /\ fileResolver' \in Resolvers
    /\ checkGas' = Scenario[f].CheckGas /\ checkGas' \in BOOLEAN
    /\ scenarioTraceGas' = IF vm = NoVM \/ newTest THEN <<traceGas>> ELSE stack
    /\ scenarioTraceGas' \in Seq(BOOLEAN)
    /\ vm' \in (GasSchedule \ Unavailable) \union {NoVM}
    /\ vm # NoVM => vm' = vm
    /\ vm' = NoVM => frames' = frames
    /\ vm' # NoVM =>
         /\ frames' \in Seq(Frame) /\ Len(frames') = Len(frames) + 1 /\ frames' # <<>>
         /\ \A i \in 1..Len(frames) : frames'[i] = frames[i]
         /\ frames'[Len(frames) + 1].file = f
         /\ frames'[Len(frames) + 1].backup = fileResolver
         /\ frames'[Len(frames) + 1].declared = declared
         /\ frames'[Len(frames) + 1].included = FALSE
         /\ Nested(frames')

\* The resolver that is free is one of those there are, and every value has its type.
LEMMA EnteredFrame ==
    ASSUME TypeOK, Nested(frames), NEW f \in DOMAIN Scenario, NEW newTest \in BOOLEAN,
           NEW traceGas \in BOOLEAN, NEW stack \in Seq(BOOLEAN), NEW declared \in BOOLEAN,
           frames # <<>> => f \in Includes(Top.file),
           RunScenario(f, Len(frames) + 1, newTest, traceGas, stack, declared)
    PROVE  Entered(f, newTest, traceGas, stack, declared)
<1>1. frames \in Seq(Frame) /\ Len(frames) \in Nat
  BY DEF TypeOK
<1>2. Len(frames) + 1 \in Resolvers
  BY <1>1, NotDeeperThanFiles DEF Resolvers
<1>3. Scenario[f] \in Scenarios /\ f \in File
  BY ScenarioAssumption
<1>4. /\ contextPath' = [contextPath EXCEPT ![Len(frames) + 1] = f]
      /\ fileResolver' = Len(frames) + 1
      /\ checkGas' = Scenario[f].CheckGas
      /\ scenarioTraceGas' = IF vm = NoVM \/ newTest THEN <<traceGas>> ELSE stack
  BY DEF RunScenario, CheckGasOf, resetGasTracesIfNewTest
<1>5. contextPath' \in [Resolvers -> File \union {NoFile}]
  BY <1>2, <1>3, <1>4 DEF TypeOK
<1>6. checkGas' \in BOOLEAN
  BY <1>3, <1>4 DEF Scenarios
<1>7. scenarioTraceGas' \in Seq(BOOLEAN)
  <2>1. <<traceGas>> \in Seq(BOOLEAN)
    OBVIOUS
  <2> QED BY <1>4, <2>1
<1>8. /\ vm' \in (GasSchedule \ Unavailable) \union {NoVM}
      /\ vm # NoVM => vm' = vm
  BY <1>3 DEF RunScenario, InitVM, TypeOK, Scenarios
<1>9. vm' = NoVM => frames' = frames
  BY DEF RunScenario
<1>10. ASSUME vm' # NoVM
       PROVE  /\ frames' \in Seq(Frame) /\ Len(frames') = Len(frames) + 1 /\ frames' # <<>>
              /\ \A i \in 1..Len(frames) : frames'[i] = frames[i]
              /\ frames'[Len(frames) + 1].file = f
              /\ frames'[Len(frames) + 1].backup = fileResolver
              /\ frames'[Len(frames) + 1].declared = declared
              /\ frames'[Len(frames) + 1].included = FALSE
              /\ Nested(frames')
  <2> DEFINE new == [file |-> f, pos |-> 1, backup |-> fileResolver,
                     declared |-> declared, included |-> FALSE]
  <2>1. frames' = Append(frames, new)
    BY <1>10 DEF RunScenario
  <2>2. new \in Frame /\ new.file = f /\ new.backup = fileResolver
        /\ new.declared = declared /\ new.included = FALSE
    BY <1>3 DEF Frame, TypeOK
  <2> HIDE DEF new
  <2>3. /\ frames' \in Seq(Frame) /\ Len(frames') = Len(frames) + 1 /\ frames' # <<>>
        /\ \A i \in 1..Len(frames) : frames'[i] = frames[i]
        /\ frames'[Len(frames) + 1] = new
    BY <1>1, <2>1, <2>2
  <2>4. \A i \in 1..Len(frames') : frames'[i].file \in DOMAIN Scenario
    BY <1>1, <2>2, <2>3 DEF Nested
  <2>5. \A i \in 1..(Len(frames') - 1) : frames'[i + 1].file \in Includes(frames'[i].file)
    <3> SUFFICES ASSUME NEW i \in 1..(Len(frames') - 1)
                 PROVE  frames'[i + 1].file \in Includes(frames'[i].file)
      OBVIOUS
    <3>1. i \in 1..Len(frames)
      BY <1>1, <2>3
    <3>2. CASE i = Len(frames)
      <4>1. Top = frames[i] /\ frames # <<>>
        BY <1>1, <3>1, <3>2 DEF Top
      <4> QED BY <2>2, <2>3, <3>1, <3>2, <4>1
    <3>3. CASE i # Len(frames)
      <4>1. i \in 1..(Len(frames) - 1) /\ i + 1 \in 1..Len(frames)
        BY <1>1, <3>1, <3>3
      <4> QED BY <2>3, <4>1, <3>1 DEF Nested
    <3> QED BY <3>2, <3>3
  <2> QED BY <2>2, <2>3, <2>4, <2>5 DEF Nested
<1> QED BY <1>2, <1>4, <1>5, <1>6, <1>7, <1>8, <1>9, <1>10 DEF Entered

\* A file that is entered runs under its own resolver, gas check and trace flag: the
\* outermost one under a stack of its own, an included one under the flag pushed for it.
LEMMA EnteredRuns ==
    ASSUME IInv, NEW f \in DOMAIN Scenario, NEW newTest \in BOOLEAN,
           NEW traceGas \in BOOLEAN, NEW stack \in Seq(BOOLEAN), NEW declared \in BOOLEAN,
           frames # <<>> => f \in Includes(Top.file),
           RunScenario(f, Len(frames) + 1, newTest, traceGas, stack, declared),
           vm' # NoVM, pc' = "run",
           frames = <<>> => stack = scenarioTraceGas /\ (newTest => traceGas = declared),
           frames # <<>> => /\ pc = "run" /\ ~newTest
                            /\ Len(stack) = Len(frames) + 1
                            /\ walking' => /\ \A i \in 1..Len(frames) : stack[i] = frames[i].declared
                                           /\ stack[Len(frames) + 1] = declared,
           frames = <<>> /\ walking' => newTest
    PROVE  frames' # <<>> /\ FramesFit'
<1> DEFINE n == Len(frames)
<1>0. TypeOK /\ Nested(frames) /\ frames \in Seq(Frame) /\ n \in Nat
  BY DEF IInv, FramesFit, TypeOK
<1>1. /\ contextPath' = [contextPath EXCEPT ![n + 1] = f]
      /\ fileResolver' = n + 1 /\ fileResolver' \in Resolvers
      /\ checkGas' = Scenario[f].CheckGas
      /\ scenarioTraceGas' = IF vm = NoVM \/ newTest THEN <<traceGas>> ELSE stack
      /\ frames' \in Seq(Frame) /\ Len(frames') = n + 1 /\ frames' # <<>>
      /\ \A i \in 1..n : frames'[i] = frames[i]
      /\ frames'[n + 1].file = f /\ frames'[n + 1].backup = fileResolver
      /\ frames'[n + 1].declared = declared /\ frames'[n + 1].included = FALSE
      /\ Nested(frames')
  <2>1. Entered(f, newTest, traceGas, stack, declared)
    BY <1>0, EnteredFrame, Zenon
  <2> QED BY <2>1 DEF Entered
<1>2. n = 0 <=> frames = <<>>
  BY <1>0
<1>3. contextPath \in [Resolvers -> File \union {NoFile}] /\ n + 1 \in Resolvers
  BY <1>0, <1>1 DEF TypeOK
<1> HIDE DEF n
<1>4. OneFlagEach'
  <2>1. CASE n = 0
    BY <1>1, <1>2, <2>1 DEF IInv, FramesFit, OneFlagEach
  <2>2. CASE n # 0
    <3>1. vm # NoVM
      BY <1>2, <2>2 DEF IInv, Phases
    <3> QED BY <1>0, <1>1, <1>2, <2>2, <3>1 DEF OneFlagEach, n
  <2> QED BY <2>1, <2>2
<1>5. ResolverOfEach'
  <2>1. \A i \in 1..(n + 1) : i \in 1..n \/ i = n + 1
    BY <1>0
  <2>2. n # 0 => fileResolver = n /\ \A i \in 1..n : contextPath[i] = frames[i].file /\ (i > 1 => frames[i].backup = i - 1)
    BY <1>2 DEF IInv, FramesFit, ResolverOfEach, n
  <2>3. \A i \in 1..n : contextPath'[i] = contextPath[i]
    BY <1>0, <1>1, <1>3 DEF Resolvers
  <2>4. contextPath'[n + 1] = f
    BY <1>1, <1>3
  <2>5. \A i \in 1..(n + 1) : contextPath'[i] = frames'[i].file /\ (i > 1 => frames'[i].backup = i - 1)
    <3>1. ASSUME NEW i \in 1..n PROVE contextPath'[i] = frames'[i].file /\ (i > 1 => frames'[i].backup = i - 1)
      <4>1. n # 0 /\ frames'[i] = frames[i] /\ contextPath'[i] = contextPath[i]
        BY <1>0, <1>1, <2>3, <3>1
      <4> QED BY <2>2, <4>1
    <3>2. frames'[n + 1].backup = fileResolver /\ (n + 1 > 1 => fileResolver = n)
      BY <1>0, <1>1, <2>2
    <3>3. contextPath'[n + 1] = frames'[n + 1].file /\ (n + 1 > 1 => frames'[n + 1].backup = n + 1 - 1)
      BY <1>0, <1>1, <2>4, <3>2
    <3>4. ASSUME NEW i \in 1..(n + 1) PROVE contextPath'[i] = frames'[i].file /\ (i > 1 => frames'[i].backup = i - 1)
      <4>1. CASE i \in 1..n
        BY <3>1, <4>1
      <4>2. CASE i = n + 1
        BY <1>0, <3>3, <4>2
      <4> QED BY <2>1, <4>1, <4>2
    <3> QED BY <3>4
  <2> QED BY <1>1, <2>5 DEF ResolverOfEach
<1>6. TracedAsDeclared'
  <2> SUFFICES ASSUME walking' PROVE \A i \in 1..(n + 1) : scenarioTraceGas'[i] = frames'[i].declared
    BY <1>1 DEF TracedAsDeclared
  <2>1. CASE n = 0
    BY <1>1, <1>2, <2>1
  <2>2. CASE n # 0
    <3>1. vm # NoVM /\ scenarioTraceGas' = stack
      BY <1>1, <1>2, <2>2 DEF IInv, Phases
    <3>2. \A i \in 1..n : stack[i] = frames[i].declared
      BY <1>2, <2>2 DEF n
    <3>3. stack[n + 1] = declared
      BY <1>2, <2>2 DEF n
    <3> QED BY <1>0, <1>1, <3>1, <3>2, <3>3
  <2> QED BY <2>1, <2>2
<1>7. OwnGasCheck'
  BY <1>1 DEF OwnGasCheck, Top
<1> QED BY <1>1, <1>4, <1>5, <1>6, <1>7 DEF FramesFit

----------------------------------------------------------------------------
(* The controller *)

\* While no scenario runs, nothing is asked of resolver, flags and gas check.
LEMMA NotRunning ==
    ASSUME Nested(frames'), OneFlagEach', pc' # "run"
    PROVE  FramesFit'
  BY DEF FramesFit, ResolverOfEach, TracedAsDeclared, OwnGasCheck

\* Before the first call there are no frames and no VM.
LEMMA InitKeeps == Init => IInv
<1> SUFFICES ASSUME Init PROVE IInv
  OBVIOUS
<1>1. 1 \in Resolvers
  BY FileAssumption, FS_CardinalityType DEF Resolvers
<1>2. walked \in 0..Len(Walk) /\ calls \in 0..MaxCalls
  BY WalkAssumption, OptionAssumption DEF Init
<1>3. TypeOK
  <2>1. contextPath \in [Resolvers -> File \union {NoFile}] /\ fileResolver \in Resolvers
    BY <1>1 DEF Init
  <2>2. /\ frames \in Seq(Frame) /\ scenarioTraceGas \in Seq(BOOLEAN)
        /\ verdicts \in Seq({"ok", "FAIL", "skip"})
    BY DEF Init
  <2>3. counts \in [passed : Nat, failed : Nat, skipped : Nat]
    BY DEF Init, ZeroCounts
  <2> QED BY <1>2, <2>1, <2>2, <2>3 DEF Init, TypeOK
<1>4. Phases /\ FramesFit
  BY DEF Init, Phases, FramesFit, Nested, OneFlagEach, ResolverOfEach, TracedAsDeclared, OwnGasCheck
<1> QED BY <1>3, <1>4 DEF IInv

\* A verdict is noted.
LEMMA CountType ==
    ASSUME TypeOK, NEW verdict \in {"ok", "FAIL", "skip"}, Count(verdict)
    PROVE  /\ counts' \in [passed : Nat, failed : Nat, skipped : Nat]
           /\ verdicts' \in Seq({"ok", "FAIL", "skip"})
  BY DEF TypeOK, Count

\* Between two files of a walk the call stack is empty.
LEMMA RunDirectoryKeeps == IInv /\ RunDirectory => IInv'
<1> SUFFICES ASSUME IInv, RunDirectory PROVE IInv'
  OBVIOUS
<1>1. TypeOK'
  <2>1. 0 \in 0..Len(Walk)
    BY WalkAssumption
  <2>2. calls' \in 0..MaxCalls
    BY OptionAssumption DEF IInv, TypeOK, RunDirectory
  <2> QED BY <2>1, <2>2 DEF IInv, TypeOK, RunDirectory, ZeroCounts
<1>2. Phases'
  BY DEF IInv, Phases, RunDirectory
<1>3. FramesFit'
  BY NotRunning DEF IInv, FramesFit, OneFlagEach, RunDirectory
<1> QED BY <1>1, <1>2, <1>3 DEF IInv

\* One more file is visited.
LEMMA Walked ==
    ASSUME TypeOK, walked < Len(Walk), walked' = walked + 1
    PROVE  walked' \in 0..Len(Walk) /\ Walk[walked + 1] \in File
  BY WalkAssumption DEF TypeOK

\* An excluded file is only counted.
LEMMA SkipFileKeeps == IInv /\ SkipFile => IInv'
<1> SUFFICES ASSUME IInv, SkipFile PROVE IInv'
  OBVIOUS
<1>1. TypeOK'
  <2>1. walked' \in 0..Len(Walk)
    BY Walked DEF IInv, SkipFile
  <2>2. /\ counts' \in [passed : Nat, failed : Nat, skipped : Nat]
        /\ verdicts' \in Seq({"ok", "FAIL", "skip"})
    BY CountType DEF IInv, SkipFile
  <2> QED BY <2>1, <2>2 DEF IInv, TypeOK, SkipFile
<1>2. Phases'
  BY DEF IInv, Phases, SkipFile
<1>3. FramesFit'
  BY NotRunning DEF IInv, FramesFit, OneFlagEach, SkipFile
<1> QED BY <1>1, <1>2, <1>3 DEF IInv

\* A file that is not parsed leaves at most a context in its resolver.
LEMMA ContextType ==
    ASSUME TypeOK, NEW f \in File, NEW r, CannotParse(f, r)
    PROVE  contextPath' \in [Resolvers -> File \union {NoFile}]
  BY DEF TypeOK, CannotParse

\* A file that is not parsed is only counted.
LEMMA FailToParseKeeps == IInv /\ FailToParse => IInv'
<1> SUFFICES ASSUME IInv, FailToParse PROVE IInv'
  OBVIOUS
<1>1. TypeOK'
  <2>1. walked' \in 0..Len(Walk) /\ Walk[walked + 1] \in File
    BY Walked DEF IInv, FailToParse
  <2>2. /\ counts' \in [passed : Nat, failed : Nat, skipped : Nat]
        /\ verdicts' \in Seq({"ok", "FAIL", "skip"})
    BY CountType DEF IInv, FailToParse
  <2>3. contextPath' \in [Resolvers -> File \union {NoFile}]
    BY <2>1, ContextType DEF IInv, FailToParse
  <2> QED BY <2>1, <2>2, <2>3 DEF IInv, TypeOK, FailToParse, Reset
<1>2. Phases'
  BY DEF IInv, Phases, FailToParse
<1>3. FramesFit'
  BY NotRunning DEF IInv, FramesFit, OneFlagEach, FailToParse
<1> QED BY <1>1, <1>2, <1>3 DEF IInv

\* The walk ends.
LEMMA DirectoryDoneKeeps == IInv /\ DirectoryDone => IInv'
<1> SUFFICES ASSUME IInv, DirectoryDone PROVE IInv'
  OBVIOUS
<1>1. TypeOK'
  BY DEF IInv, TypeOK, DirectoryDone
<1>2. Phases'
  BY DEF IInv, Phases, DirectoryDone
<1>3. FramesFit'
  BY NotRunning DEF IInv, FramesFit, OneFlagEach, DirectoryDone
<1> QED BY <1>1, <1>2, <1>3 DEF IInv

\* The outermost file of a scenario: RunScenario with the first resolver.
LEMMA OutermostFile ==
    ASSUME IInv, frames = <<>>, NEW f \in DOMAIN Scenario, NEW newTest \in BOOLEAN,
           NEW traceGas \in BOOLEAN, pc' # "run" => vm' = NoVM,
           pc' = "run" => vm' # NoVM,
           RunScenario(f, 1, newTest, traceGas, scenarioTraceGas, traceGas),
           walking' => newTest
    PROVE  /\ Entered(f, newTest, traceGas, scenarioTraceGas, traceGas)
           /\ vm' = NoVM => frames' = <<>>
           /\ vm' # NoVM => frames' # <<>>
           /\ frames' \in Seq(Frame)
           /\ FramesFit'
<1>1. TypeOK /\ Nested(frames) /\ Len(frames) + 1 = 1 /\ scenarioTraceGas \in Seq(BOOLEAN)
  BY DEF IInv, FramesFit, TypeOK
<1>2. RunScenario(f, Len(frames) + 1, newTest, traceGas, scenarioTraceGas, traceGas)
  BY <1>1, Zenon
<1>3. Entered(f, newTest, traceGas, scenarioTraceGas, traceGas)
  BY <1>1, <1>2, EnteredFrame, Zenon
<1>4. CASE vm' = NoVM
  <2>1. frames' = <<>> /\ pc' # "run"
    BY <1>3, <1>4 DEF Entered
  <2>2. Nested(frames') /\ OneFlagEach'
    BY <1>1, <1>4, <2>1 DEF OneFlagEach
  <2> QED BY <1>3, <1>4, <2>1, <2>2, NotRunning
<1>5. CASE vm' # NoVM
  <2>1. pc' = "run"
    BY <1>5
  <2>2. frames' # <<>> /\ FramesFit'
    BY <1>1, <1>2, <1>5, <2>1, EnteredRuns, Zenon
  <2>3. frames' \in Seq(Frame)
    BY <1>3, <1>5 DEF Entered
  <2> QED BY <1>3, <1>5, <2>2, <2>3
<1> QED BY <1>4, <1>5

\* A file of the walk is entered, or its VM cannot be made.
LEMMA StartFileKeeps == IInv /\ StartFile => IInv'
<1> SUFFICES ASSUME IInv, StartFile PROVE IInv'
  OBVIOUS
<1> DEFINE f == Walk[walked + 1]
           traceGas == Scenario[f].TraceGas \/ ForceTraceGas
<1>1. walked' \in 0..Len(Walk) /\ f \in DOMAIN Scenario /\ Scenario[f] \in Scenarios
  BY Walked, ScenarioAssumption DEF IInv, StartFile, Parses
<1>2. traceGas \in BOOLEAN
  OBVIOUS
<1>3. RunScenario(f, 1, TRUE, traceGas, scenarioTraceGas, traceGas) /\ frames = <<>>
  BY DEF IInv, Phases, StartFile
<1>4. /\ vm' = NoVM => pc' = "walk" /\ Count("FAIL")
      /\ vm' # NoVM => pc' = "run" /\ UNCHANGED <<verdicts, counts>>
      /\ pc = "walk"
  BY DEF StartFile
<1> HIDE DEF f, traceGas
<1>5. /\ Entered(f, TRUE, traceGas, scenarioTraceGas, traceGas)
      /\ vm' = NoVM => frames' = <<>>
      /\ vm' # NoVM => frames' # <<>>
      /\ frames' \in Seq(Frame)
      /\ FramesFit'
  BY <1>1, <1>2, <1>3, <1>4, OutermostFile
<1>6. TypeOK'
  <2>1. /\ counts' \in [passed : Nat, failed : Nat, skipped : Nat]
        /\ verdicts' \in Seq({"ok", "FAIL", "skip"})
    BY <1>4, CountType DEF IInv, TypeOK
  <2>2. pc' \in {"walk", "run"}
    BY <1>4
  <2>3. World' \subseteq Mark /\ RunsNewTest' \in BOOLEAN /\ UNCHANGED <<walking, result, calls>>
    BY DEF StartFile, Reset
  <2> QED BY <1>1, <1>5, <2>1, <2>2, <2>3 DEF IInv, TypeOK, Entered
<1>7. Phases'
  <2>1. walking' = walking
    BY DEF StartFile
  <2> QED BY <1>4, <1>5, <2>1 DEF IInv, Phases
<1> QED BY <1>5, <1>6, <1>7 DEF IInv

\* A single scenario is entered outside a walk.
LEMMA RunSingleKeeps == ASSUME IInv, NEW f \in File, RunSingle(f) PROVE IInv'
<1>1. /\ pc = "idle" /\ frames = <<>> /\ ~walking
      /\ UNCHANGED <<walking, walked, counts, verdicts, World>>
  BY DEF IInv, Phases, RunSingle
<1>2. calls' \in 0..MaxCalls
  BY OptionAssumption DEF IInv, TypeOK, RunSingle
<1>3. CASE /\ CannotParse(f, 1) /\ result' = "error"
           /\ UNCHANGED <<pc, RunsNewTest, frames, fileResolver, checkGas, scenarioTraceGas, vm>>
  <2>1. contextPath' \in [Resolvers -> File \union {NoFile}]
    BY <1>3, ContextType DEF IInv
  <2>2. TypeOK'
    BY <1>1, <1>2, <1>3, <2>1 DEF IInv, TypeOK
  <2>3. Phases'
    BY <1>1, <1>3 DEF IInv, Phases
  <2>4. FramesFit'
    BY <1>1, <1>3, NotRunning DEF IInv, FramesFit, OneFlagEach
  <2> QED BY <2>2, <2>3, <2>4 DEF IInv
<1>4. CASE ~CannotParse(f, 1)
  <2> DEFINE traceGas == Scenario[f].TraceGas \/ ForceTraceGas
  <2>1. /\ Parses(f, 1)
        /\ RunScenario(f, 1, RunsNewTest, traceGas, scenarioTraceGas, traceGas)
        /\ RunsNewTest' = FALSE
        /\ pc' = (IF vm' = NoVM THEN "idle" ELSE "run")
        /\ result' = (IF vm' = NoVM THEN "error" ELSE "none")
    BY <1>4 DEF RunSingle
  <2>2. f \in DOMAIN Scenario /\ traceGas \in BOOLEAN /\ RunsNewTest \in BOOLEAN
    BY <2>1 DEF Parses, IInv, TypeOK
  <2> HIDE DEF traceGas
  <2>3. pc' # "run" => vm' = NoVM
    BY <2>1
  <2>4. pc' = "run" => vm' # NoVM
    BY <2>1
  <2>5. /\ Entered(f, RunsNewTest, traceGas, scenarioTraceGas, traceGas)
        /\ vm' = NoVM => frames' = <<>>
        /\ vm' # NoVM => frames' # <<>>
        /\ frames' \in Seq(Frame)
        /\ FramesFit'
    BY <1>1, <2>1, <2>2, <2>3, <2>4, OutermostFile
  <2>6. TypeOK'
    BY <1>1, <1>2, <2>1, <2>5 DEF IInv, TypeOK, Entered
  <2>7. Phases'
    BY <1>1, <2>1, <2>5 DEF Phases
  <2> QED BY <2>5, <2>6, <2>7 DEF IInv
<1> QED BY <1>3, <1>4 DEF RunSingle, CannotParse

----------------------------------------------------------------------------
(* The steps of a scenario *)

\* A running scenario has a VM, and a flag and a resolver for each file.
LEMMA Running ==
    ASSUME IInv, pc \in {"run", "fail"}
    PROVE  /\ TypeOK /\ Nested(frames) /\ vm # NoVM
           /\ frames # <<>> /\ frames \in Seq(Frame) /\ Len(frames) \in Nat \ {0}
           /\ Len(scenarioTraceGas) = Len(frames) /\ scenarioTraceGas \in Seq(BOOLEAN)
           /\ Top \in Frame /\ Top = frames[Len(frames)]
           /\ Top.file \in DOMAIN Scenario /\ Scenario[Top.file] \in Scenarios
<1>1. TypeOK /\ Nested(frames) /\ vm # NoVM /\ frames # <<>>
  BY DEF IInv, FramesFit, Phases
<1>2. Len(scenarioTraceGas) = Len(frames)
  BY <1>1 DEF IInv, FramesFit, OneFlagEach
<1> QED BY <1>1, <1>2, TopFrame DEF TypeOK

\* The step that is executed is one of its file's.
LEMMA StepType ==
    ASSUME IInv, HasStep
    PROVE  /\ Step \in Steps
           /\ Step.kind = "externalSteps" =>
                Step.path \in Includes(Top.file) /\ Step.path \in File
                /\ Step.TraceGas \in {"undefined", "true", "false"}
<1>1. Top \in Frame /\ Top.file \in DOMAIN Scenario /\ Scenario[Top.file] \in Scenarios
  BY Running DEF HasStep
<1>2. Scenario[Top.file].Steps \in Seq(Steps)
  BY <1>1 DEF Scenarios
<1>3. Top.pos \in 1..Len(Scenario[Top.file].Steps)
  BY <1>1, <1>2 DEF Frame, HasStep
<1>4. Step \in Steps
  BY <1>2, <1>3 DEF Step
<1>5. Step.kind = "externalSteps" => Step.path \in File /\ Step.TraceGas \in {"undefined", "true", "false"}
  BY <1>4 DEF Steps
<1>6. Step.kind = "externalSteps" => Step.path \in Includes(Top.file)
  BY <1>1, <1>3 DEF Includes, Step
<1> QED BY <1>4, <1>5, <1>6

\* A step of the top file is executed: its position or the phase changes.
LEMMA ExecuteStepKeeps == IInv /\ ExecuteStep => IInv'
<1> SUFFICES ASSUME IInv, ExecuteStep PROVE IInv'
  OBVIOUS
<1>1. /\ pc = "run"
      /\ UNCHANGED <<controllerVars, contextPath, fileResolver, checkGas, scenarioTraceGas, vm>>
      /\ \/ frames' = NextStep(frames) /\ pc' = pc
         \/ frames' = frames /\ pc' = "fail"
  BY DEF ExecuteStep, HasStep
<1>2. /\ TypeOK /\ Nested(frames) /\ frames # <<>> /\ frames \in Seq(Frame)
      /\ Len(frames) \in Nat \ {0} /\ vm # NoVM
  BY <1>1, Running
<1>3. World' \subseteq Mark
  <2>1. CASE Step.kind = "checkState"
    BY <1>2, <2>1 DEF ExecuteStep, TypeOK
  <2>2. CASE Step.kind # "checkState"
    <3>1. Step \in Steps /\ Step.kind # "externalSteps"
      BY StepType DEF ExecuteStep
    <3>2. Step.writes \subseteq Mark
      BY <2>2, <3>1 DEF Steps
    <3> QED BY <1>2, <2>2, <3>2 DEF ExecuteStep, TypeOK
  <2> QED BY <2>1, <2>2
<1>4. /\ frames' \in Seq(Frame) /\ Len(frames') = Len(frames) /\ frames' # <<>>
      /\ \A i \in 1..Len(frames) :
            /\ frames'[i].file = frames[i].file /\ frames'[i].backup = frames[i].backup
            /\ frames'[i].declared = frames[i].declared /\ frames'[i].included = frames[i].included
  BY <1>1, <1>2, SteppedFrames
<1>5. TypeOK'
  BY <1>1, <1>2, <1>3, <1>4 DEF TypeOK, controllerVars
<1>6. Phases'
  BY <1>1, <1>2, <1>4 DEF IInv, Phases, controllerVars
<1>7. Nested(frames')
  <2>1. \A i \in 1..(Len(frames) - 1) : i \in 1..Len(frames) /\ i + 1 \in 1..Len(frames)
    BY <1>2
  <2> QED BY <1>2, <1>4, <2>1 DEF Nested
<1>8. OneFlagEach'
  BY <1>1, <1>2, <1>4 DEF IInv, FramesFit, OneFlagEach
<1>9. CASE pc' # "run"
  BY <1>5, <1>6, <1>7, <1>8, <1>9, NotRunning DEF IInv
<1>10. CASE pc' = "run"
  <2>1. ResolverOfEach'
    BY <1>1, <1>4 DEF IInv, FramesFit, ResolverOfEach
  <2>2. TracedAsDeclared'
    BY <1>1, <1>4 DEF IInv, FramesFit, TracedAsDeclared, controllerVars
  <2>3. Top'.file = Top.file /\ Top'.included = Top.included
    BY <1>2, <1>4 DEF Top
  <2>4. OwnGasCheck'
    BY <1>1, <2>3 DEF IInv, FramesFit, OwnGasCheck
  <2> QED BY <1>5, <1>6, <1>7, <1>8, <2>1, <2>2, <2>4 DEF IInv, FramesFit
<1> QED BY <1>9, <1>10

\* An external step pushes the flag its file should run under.
LEMMA PushedFlag ==
    ASSUME IInv, HasStep, Step.kind = "externalSteps"
    PROVE  LET stack == setExternalStepGasTracing(scenarioTraceGas, Step)
           IN  /\ stack \in Seq(BOOLEAN) /\ Len(stack) = Len(frames) + 1
               /\ \A i \in 1..Len(frames) : stack[i] = scenarioTraceGas[i]
               /\ Inherited(Step) \in BOOLEAN
               /\ walking => stack[Len(frames) + 1] = Inherited(Step)
<1> DEFINE stack == setExternalStepGasTracing(scenarioTraceGas, Step)
           flag == CASE Step.TraceGas = "undefined" -> PeekTraceGas(scenarioTraceGas)
                     [] Step.TraceGas = "true"      -> TRUE
                     [] Step.TraceGas = "false"     -> FALSE
<1>1. /\ frames # <<>> /\ Len(frames) \in Nat \ {0}
      /\ Len(scenarioTraceGas) = Len(frames) /\ scenarioTraceGas \in Seq(BOOLEAN)
      /\ Top \in Frame /\ Top = frames[Len(frames)]
  BY Running DEF HasStep
<1>2. Step.TraceGas \in {"undefined", "true", "false"}
  BY StepType
<1>3. PeekTraceGas(scenarioTraceGas) = scenarioTraceGas[Len(frames)]
      /\ scenarioTraceGas[Len(frames)] \in BOOLEAN
  <2>1. scenarioTraceGas # <<>> /\ Len(frames) \in 1..Len(scenarioTraceGas)
    BY <1>1
  <2>2. scenarioTraceGas[Len(frames)] \in BOOLEAN
    BY <1>1, <2>1, ElementOfSeq
  <2> QED BY <1>1, <2>1, <2>2, Zenon DEF PeekTraceGas
<1>4. flag \in BOOLEAN /\ stack = Append(scenarioTraceGas, flag)
  BY <1>2, <1>3 DEF setExternalStepGasTracing
<1>5. Top.declared \in BOOLEAN /\ Inherited(Step) \in BOOLEAN
  BY <1>1 DEF Frame, Inherited
<1>6. walking => flag = Inherited(Step)
  <2>1. walking => scenarioTraceGas[Len(frames)] = Top.declared
    BY <1>1 DEF IInv, FramesFit, TracedAsDeclared, HasStep
  <2> QED BY <1>2, <1>3, <2>1 DEF Inherited
<1> HIDE DEF flag
<1>7. /\ stack \in Seq(BOOLEAN) /\ Len(stack) = Len(frames) + 1
      /\ \A i \in 1..Len(frames) : stack[i] = scenarioTraceGas[i]
      /\ stack[Len(frames) + 1] = flag
  BY <1>1, <1>4
<1> QED BY <1>5, <1>6, <1>7

\* Another file is entered, under the flag pushed for it.
LEMMA ExecuteExternalStepKeeps == IInv /\ ExecuteExternalStep => IInv'
<1> SUFFICES ASSUME IInv, ExecuteExternalStep PROVE IInv'
  OBVIOUS
<1> DEFINE f == Step.path
           stack == setExternalStepGasTracing(scenarioTraceGas, Step)
           traceGas == Scenario[f].TraceGas
           declared == Inherited(Step)
<1>1. /\ HasStep /\ Step.kind = "externalSteps" /\ Parses(f, Len(frames) + 1)
      /\ RunScenario(f, Len(frames) + 1, FALSE, traceGas, stack, declared)
      /\ UNCHANGED <<pc, controllerVars, World>> /\ pc = "run"
  BY DEF ExecuteExternalStep, HasStep
<1>2. /\ TypeOK /\ Nested(frames) /\ vm # NoVM /\ frames # <<>> /\ Len(frames) \in Nat
  BY <1>1, Running
<1>3. f \in DOMAIN Scenario /\ Scenario[f] \in Scenarios /\ f \in Includes(Top.file)
  BY <1>1, StepType, ScenarioAssumption DEF Parses
<1>4. traceGas \in BOOLEAN
  BY <1>3 DEF Scenarios
<1>5. /\ stack \in Seq(BOOLEAN) /\ Len(stack) = Len(frames) + 1
      /\ \A i \in 1..Len(frames) : stack[i] = scenarioTraceGas[i]
      /\ declared \in BOOLEAN
      /\ walking => stack[Len(frames) + 1] = declared
  BY <1>1, PushedFlag
<1>6. walking => \A i \in 1..Len(frames) : stack[i] = frames[i].declared
  BY <1>1, <1>5 DEF IInv, FramesFit, TracedAsDeclared
<1> HIDE DEF f, stack, traceGas, declared
<1>7. Entered(f, FALSE, traceGas, stack, declared)
  BY <1>1, <1>2, <1>3, <1>4, <1>5, EnteredFrame
<1>8. vm' = vm
  BY <1>2, <1>7 DEF Entered
<1>9. frames' # <<>> /\ FramesFit'
  <2>1. pc' = "run" /\ vm' # NoVM
    BY <1>1, <1>2, <1>8
  <2>2. walking' = walking
    BY <1>1 DEF controllerVars
  <2> QED BY <1>1, <1>2, <1>3, <1>4, <1>5, <1>6, <2>1, <2>2, EnteredRuns
<1>10. TypeOK'
  BY <1>1, <1>2, <1>7, <1>8 DEF TypeOK, Entered, controllerVars
<1>11. Phases'
  BY <1>1, <1>2, <1>8, <1>9 DEF Phases, IInv, controllerVars
<1> QED BY <1>9, <1>10, <1>11 DEF IInv

\* A file that is not parsed changes at most the context of a resolver not in use.
LEMMA ExternalStepNotParsedKeeps == IInv /\ ExternalStepNotParsed => IInv'
<1> SUFFICES ASSUME IInv, ExternalStepNotParsed PROVE IInv'
  OBVIOUS
<1>1. /\ HasStep /\ pc = "run" /\ CannotParse(Step.path, Len(frames) + 1) /\ pc' = "fail"
      /\ Step.kind = "externalSteps"
      /\ UNCHANGED <<controllerVars, frames, fileResolver, checkGas, scenarioTraceGas, vm, World>>
  BY DEF ExternalStepNotParsed, HasStep
<1>2. contextPath' \in [Resolvers -> File \union {NoFile}]
  BY <1>1, StepType, ContextType DEF IInv
<1>3. TypeOK'
  BY <1>1, <1>2 DEF IInv, TypeOK, controllerVars
<1>4. Phases'
  BY <1>1 DEF IInv, Phases, controllerVars
<1>5. FramesFit'
  BY <1>1, NotRunning DEF IInv, FramesFit, OneFlagEach
<1> QED BY <1>3, <1>4, <1>5 DEF IInv

\* Popping takes one flag of the trace stack.
LEMMA PoppedFlag ==
    ASSUME IInv, pc \in {"run", "fail"}, PopTraceGas
    PROVE  /\ scenarioTraceGas' \in Seq(BOOLEAN)
           /\ Len(scenarioTraceGas') = Len(frames) - 1
           /\ \A i \in 1..(Len(frames) - 1) : scenarioTraceGas'[i] = scenarioTraceGas[i]
<1> DEFINE n == Len(frames) - 1
<1>1. /\ Len(scenarioTraceGas) = Len(frames) /\ scenarioTraceGas \in Seq(BOOLEAN)
      /\ n \in Nat /\ Len(frames) = n + 1
  BY Running
<1>2. \A i \in 1..n : scenarioTraceGas[i] \in BOOLEAN
  BY <1>1, ElementOfSeq
<1>3. scenarioTraceGas' = SubSeq(scenarioTraceGas, 1, n)
  BY <1>1 DEF PopTraceGas
<1> HIDE DEF n
<1>4. /\ scenarioTraceGas' \in Seq(BOOLEAN) /\ Len(scenarioTraceGas') = n
      /\ \A i \in 1..n : scenarioTraceGas'[i] = scenarioTraceGas[i]
  BY <1>1, <1>2, <1>3, SubSeqProperties
<1> QED BY <1>4 DEF n

\* The frames below the top one fit each other without it.
LEMMA PoppedNested ==
    ASSUME IInv, pc \in {"run", "fail"}
    PROVE  Nested(PopFrame)
<1>1. /\ TypeOK /\ Nested(frames) /\ frames # <<>> /\ Len(frames) \in Nat \ {0}
  BY Running
<1>2. /\ Len(PopFrame) = Len(frames) - 1
      /\ \A i \in 1..(Len(frames) - 1) : PopFrame[i] = frames[i]
  BY <1>1, PoppedFrames
<1>3. \A i \in 1..Len(PopFrame) : i \in 1..Len(frames) /\ PopFrame[i] = frames[i]
  BY <1>1, <1>2
<1>4. \A i \in 1..(Len(PopFrame) - 1) :
        i \in 1..(Len(frames) - 1) /\ i \in 1..Len(PopFrame) /\ i + 1 \in 1..Len(PopFrame)
  BY <1>1, <1>2
<1> QED BY <1>1, <1>3, <1>4 DEF Nested

\* The caller goes on with its own resolver and flags.
LEMMA ExternalStepDoneKeeps == IInv /\ ExternalStepDone => IInv'
<1> SUFFICES ASSUME IInv, ExternalStepDone PROVE IInv'
  OBVIOUS
<1> DEFINE n == Len(frames) - 1
           st == NextStep(PopFrame)
<1>1. /\ pc = "run" /\ Len(frames) > 1 /\ PopTraceGas /\ fileResolver' = Top.backup
      /\ frames' = [st EXCEPT ![n].included = TRUE]
      /\ UNCHANGED <<pc, controllerVars, contextPath, checkGas, vm, World>>
  BY DEF ExternalStepDone, RestoreResolver
<1>2. /\ TypeOK /\ Nested(frames) /\ vm # NoVM /\ frames # <<>>
      /\ Len(frames) \in Nat \ {0} /\ Top \in Frame /\ Top = frames[Len(frames)]
  BY <1>1, Running
<1>3. /\ scenarioTraceGas' \in Seq(BOOLEAN) /\ Len(scenarioTraceGas') = n
      /\ \A i \in 1..n : scenarioTraceGas'[i] = scenarioTraceGas[i]
  BY <1>1, PoppedFlag
<1>4. /\ PopFrame \in Seq(Frame) /\ Len(PopFrame) = n /\ PopFrame # <<>>
      /\ \A i \in 1..n : PopFrame[i] = frames[i]
  BY <1>1, <1>2, PoppedFrames
<1>5. n \in Nat \ {0} /\ Len(frames) = n + 1
  BY <1>1, <1>2
<1>6. /\ st \in Seq(Frame) /\ Len(st) = n /\ st # <<>>
      /\ \A i \in 1..n : /\ st[i].file = frames[i].file /\ st[i].backup = frames[i].backup
                         /\ st[i].declared = frames[i].declared
  BY <1>4, SteppedFrames
<1> HIDE DEF n, st
<1>7. /\ frames' \in Seq(Frame) /\ Len(frames') = n /\ frames' # <<>>
      /\ \A i \in 1..n : /\ frames'[i].file = frames[i].file /\ frames'[i].backup = frames[i].backup
                         /\ frames'[i].declared = frames[i].declared
      /\ frames'[n].included = TRUE
  <2> DEFINE last == [st[n] EXCEPT !.included = TRUE]
  <2>1. st[n] \in Frame /\ DOMAIN st = 1..n
    BY <1>5, <1>6, ElementOfSeq
  <2>2. /\ last \in Frame /\ last.file = st[n].file /\ last.backup = st[n].backup
        /\ last.declared = st[n].declared /\ last.included = TRUE
    BY <2>1 DEF Frame
  <2>3. frames' = [st EXCEPT ![n] = last]
    BY <1>1
  <2> HIDE DEF last
  <2>4. frames' \in Seq(Frame) /\ Len(frames') = n /\ frames' # <<>>
    BY <1>5, <1>6, <2>1, <2>2, <2>3
  <2>5. \A i \in 1..n : frames'[i] = IF i = n THEN last ELSE st[i]
    BY <2>1, <2>3
  <2> QED BY <1>5, <1>6, <2>2, <2>4, <2>5
<1>8. TypeOK'
  <2>1. Top.backup \in Resolvers
    BY <1>2 DEF Frame
  <2> QED BY <1>1, <1>2, <1>3, <1>7, <2>1 DEF TypeOK, controllerVars
<1>9. Phases'
  BY <1>1, <1>2, <1>7 DEF IInv, Phases, controllerVars
<1>10. Nested(frames')
  <2>1. Nested(PopFrame)
    BY <1>1, PoppedNested
  <2>2. \A i \in 1..n : frames'[i].file = PopFrame[i].file
    BY <1>4, <1>7
  <2>3. \A i \in 1..(n - 1) : i \in 1..n /\ i + 1 \in 1..n
    BY <1>5
  <2> QED BY <1>4, <1>7, <2>1, <2>2, <2>3 DEF Nested
<1>11. OneFlagEach'
  BY <1>3, <1>7 DEF OneFlagEach
<1>12. ResolverOfEach'
  <2>1. \A i \in 1..n : i \in 1..Len(frames)
    BY <1>5
  <2>2. Top.backup = n
    BY <1>1, <1>2, <1>5 DEF IInv, FramesFit, ResolverOfEach
  <2> QED BY <1>1, <1>7, <2>1, <2>2 DEF IInv, FramesFit, ResolverOfEach
<1>13. TracedAsDeclared'
  <2>1. \A i \in 1..n : i \in 1..Len(frames)
    BY <1>5
  <2> QED BY <1>1, <1>3, <1>7, <2>1 DEF IInv, FramesFit, TracedAsDeclared, controllerVars
<1>14. OwnGasCheck'
  BY <1>7 DEF OwnGasCheck, Top
<1> QED BY <1>8, <1>9, <1>10, <1>11, <1>12, <1>13, <1>14 DEF IInv, FramesFit

\* An error goes one frame up, with the flag of that frame.
LEMMA ExternalStepFailedKeeps == IInv /\ ExternalStepFailed => IInv'
<1> SUFFICES ASSUME IInv, ExternalStepFailed PROVE IInv'
  OBVIOUS
<1>1. /\ pc = "fail" /\ Len(frames) > 1 /\ PopTraceGas /\ frames' = PopFrame
      /\ UNCHANGED <<pc, controllerVars, contextPath, fileResolver, checkGas, vm, World>>
  BY DEF ExternalStepFailed, PopTraceGasOnError
<1>2. /\ TypeOK /\ vm # NoVM /\ frames # <<>> /\ Len(frames) \in Nat
  BY <1>1, Running
<1>3. /\ scenarioTraceGas' \in Seq(BOOLEAN) /\ Len(scenarioTraceGas') = Len(frames) - 1
  BY <1>1, PoppedFlag
<1>4. /\ frames' \in Seq(Frame) /\ Len(frames') = Len(frames) - 1 /\ frames' # <<>>
  BY <1>1, <1>2, PoppedFrames
<1>5. TypeOK'
  BY <1>1, <1>2, <1>3, <1>4 DEF TypeOK, controllerVars
<1>6. Phases'
  BY <1>1, <1>2, <1>4 DEF IInv, Phases, controllerVars
<1>7. FramesFit'
  <2>1. Nested(frames')
    BY <1>1, PoppedNested
  <2>2. OneFlagEach'
    BY <1>3, <1>4 DEF OneFlagEach
  <2> QED BY <1>1, <2>1, <2>2, NotRunning
<1> QED BY <1>5, <1>6, <1>7 DEF IInv

\* The last frame goes, and leaves the one flag of its scenario.
LEMMA ScenarioDoneKeeps == IInv /\ ScenarioDone => IInv'
<1> SUFFICES ASSUME IInv, ScenarioDone PROVE IInv'
  OBVIOUS
<1>1. /\ pc \in {"run", "fail"} /\ Len(frames) = 1 /\ frames' = <<>>
      /\ UNCHANGED <<walking, walked, calls, RunsNewTest, contextPath, fileResolver,
                     checkGas, scenarioTraceGas, vm, World>>
  BY DEF ScenarioDone
<1>2. /\ pc' = IF walking THEN "walk" ELSE "idle"
      /\ result' \in {result, "ok", "error"}
      /\ \/ \E verdict \in {"ok", "FAIL", "skip"} : Count(verdict)
         \/ UNCHANGED <<verdicts, counts>>
  BY DEF ScenarioDone
<1>3. TypeOK
  BY DEF IInv
<1>4. /\ counts' \in [passed : Nat, failed : Nat, skipped : Nat]
      /\ verdicts' \in Seq({"ok", "FAIL", "skip"})
  <2>1. CASE \E verdict \in {"ok", "FAIL", "skip"} : Count(verdict)
    BY <1>3, <2>1, CountType
  <2>2. CASE UNCHANGED <<verdicts, counts>>
    BY <1>3, <2>2 DEF TypeOK
  <2> QED BY <1>2, <2>1, <2>2
<1>5. Len(scenarioTraceGas) = 1 /\ vm # NoVM
  BY <1>1, Running
<1>6. TypeOK'
  <2>1. frames' \in Seq(Frame)
    BY <1>1
  <2> QED BY <1>1, <1>2, <1>3, <1>4, <2>1 DEF TypeOK
<1>7. Phases'
  BY <1>1, <1>2, <1>3 DEF Phases, TypeOK
<1>8. FramesFit'
  <2>1. Nested(frames') /\ OneFlagEach' /\ pc' # "run"
    BY <1>1, <1>2, <1>5 DEF Nested, OneFlagEach
  <2> QED BY <2>1, NotRunning
<1> QED BY <1>6, <1>7, <1>8 DEF IInv

----------------------------------------------------------------------------
(* Fields that fit the running file *)

\* The invariant is inductive.
LEMMA NextKeeps == IInv /\ [Next]_vars => IInv'
<1>1. ASSUME IInv, UNCHANGED vars PROVE IInv'
  <2>1. TypeOK' /\ Phases'
    BY <1>1 DEF IInv, TypeOK, Phases, vars
  <2>2. FramesFit'
    BY <1>1 DEF IInv, FramesFit, Nested, OneFlagEach, ResolverOfEach, TracedAsDeclared,
                OwnGasCheck, Top, vars
  <2> QED BY <2>1, <2>2 DEF IInv
<1> QED BY <1>1, RunDirectoryKeeps, SkipFileKeeps, FailToParseKeeps, StartFileKeeps,
           DirectoryDoneKeeps, RunSingleKeeps, ExecuteStepKeeps, ExecuteExternalStepKeeps,
           ExternalStepNotParsedKeeps, ExternalStepDoneKeeps, ExternalStepFailedKeeps,
           ScenarioDoneKeeps DEF Next

\* The invariant holds.
LEMMA IInvHolds == Spec => []IInv
  BY InitKeeps, NextKeeps, PTL DEF Spec

\* Every variable keeps its type: in particular there is always a resolver left for an
\* external step, and the VM is only made with a gas schedule there is.
THEOREM TypeCorrect == Spec => []TypeOK
<1>1. IInv => TypeOK
  BY DEF IInv
<1> QED BY IInvHolds, <1>1, PTL

\* The pop after an external step always finds the flag that was pushed for it.
THEOREM StackMatches == Spec => []StackMatchesFrames
<1>1. IInv => StackMatchesFrames
  BY Running DEF IInv, Phases, TypeOK, StackMatchesFrames
<1> QED BY IInvHolds, <1>1, PTL

\* In a directory run every file is traced as it, or the step it comes from, declares.
THEOREM TracedRight == Spec => []TracedAsDeclared
<1>1. IInv => TracedAsDeclared
  BY DEF IInv, FramesFit
<1> QED BY IInvHolds, <1>1, PTL

\* Paths in a step are relative to the file the step is in.
THEOREM ResolverRight == Spec => []ResolverOfFile
<1>1. IInv => ResolverOfFile
  <2> SUFFICES ASSUME IInv, pc = "run" PROVE contextPath[fileResolver] = Top.file
    BY DEF ResolverOfFile
  <2>1. Len(frames) \in Nat \ {0} /\ Top = frames[Len(frames)]
    BY Running
  <2> QED BY <2>1 DEF IInv, FramesFit, ResolverOfEach
<1> QED BY IInvHolds, <1>1, PTL

\* Until it includes another file, a file has its gas checked as it says.
THEOREM GasCheckRight == Spec => []OwnGasCheck
<1>1. IInv => OwnGasCheck
  BY DEF IInv, FramesFit
<1> QED BY IInvHolds, <1>1, PTL

----------------------------------------------------------------------------
(* Running a file on its own *)

\* What including files may do.
Effects == [File -> [Executor -> Executor]]

\* A step on its own leads from one executor to another.
LEMMA RunStepType ==
    ASSUME NEW step \in Steps, NEW st \in Executor, NEW included \in Effects
    PROVE  RunStep(step, st, included) \in Executor
<1>1. CASE ~st.ok
  BY <1>1 DEF RunStep
<1>2. CASE st.ok /\ step.kind = "externalSteps"
  <2>1. step.path \in File
    BY <1>2 DEF Steps
  <2>2. RunStep(step, st, included) = included[step.path][st]
    BY <1>2 DEF RunStep
  <2> QED BY <2>1, <2>2 DEF Effects
<1>3. CASE st.ok /\ step.kind = "checkState"
  <2>1. RunStep(step, st, included) = [st EXCEPT !.ok = (st.world = step.expects)]
    BY <1>3 DEF RunStep
  <2> QED BY <2>1 DEF Executor
<1>4. CASE st.ok /\ step.kind \in {"setState", "tx"}
  <2>1. step.writes \subseteq Mark /\ step.fails \in BOOLEAN
    BY <1>4 DEF Steps
  <2>2. \E b \in BOOLEAN : RunStep(step, st, included) = [st EXCEPT !.ok = b, !.world = @ \union step.writes]
    <3>1. CASE step.kind = "setState"
      <4>1. RunStep(step, st, included) = [st EXCEPT !.ok = ~step.fails, !.world = @ \union step.writes]
        BY <1>4, <3>1 DEF RunStep
      <4> QED BY <4>1
    <3>2. CASE step.kind = "tx"
      <4> DEFINE b == ~step.fails /\ (st.checkGas => step.gasUnder \in {AnyGas, st.vm})
      <4>1. RunStep(step, st, included) = [st EXCEPT !.ok = b, !.world = @ \union step.writes]
        BY <1>4, <3>2 DEF RunStep
      <4>2. b \in BOOLEAN
        OBVIOUS
      <4> QED BY <4>1, <4>2
    <3> QED BY <1>4, <3>1, <3>2
  <2> QED BY <2>1, <2>2 DEF Executor
<1>5. step.kind \in {"externalSteps", "checkState", "setState", "tx"} /\ st.ok \in BOOLEAN
  BY DEF Steps, Executor
<1> QED BY <1>1, <1>2, <1>3, <1>4, <1>5

\* What the recursive function behind RunSteps is.
Runs(after, f, st, included) ==
    /\ Len(Scenario[f].Steps) \in Nat
    /\ after \in [0..Len(Scenario[f].Steps) -> Executor]
    /\ after[0] = [st EXCEPT !.checkGas = Scenario[f].CheckGas]
    /\ \A n \in 1..Len(Scenario[f].Steps) :
            /\ after[n] = RunStep(Scenario[f].Steps[n], after[n - 1], included)
            /\ Scenario[f].Steps[n] \in Steps

\* RunSteps is the recursive function it is defined as.
LEMMA RunStepsDef ==
    ASSUME NEW f \in DOMAIN Scenario, NEW st \in Executor, NEW included \in Effects
    PROVE  Runs(RunSteps(f, st, included), f, st, included)
<1> DEFINE steps == Scenario[f].Steps
           L == Len(steps)
           first == [st EXCEPT !.checkGas = Scenario[f].CheckGas]
           Def(a) == a = [n \in 0..L |-> IF n = 0 THEN first ELSE RunStep(steps[n], a[n - 1], included)]
           step == [n \in Nat |-> [x \in Executor |-> IF n \in 1..L THEN RunStep(steps[n], x, included) ELSE x]]
           after == RunSteps(f, st, included)
<1>1. after = CHOOSE a : Def(a)
  BY DEF RunSteps
<1>2. /\ steps \in Seq(Steps) /\ L \in Nat /\ \A n \in 1..L : steps[n] \in Steps
      /\ Scenario[f].CheckGas \in BOOLEAN
  <2>1. Scenario[f] \in Scenarios
    BY ScenarioAssumption
  <2>2. steps \in Seq(Steps) /\ Scenario[f].CheckGas \in BOOLEAN
    BY <2>1 DEF Scenarios
  <2> QED BY <2>2
<1> HIDE DEF steps, L
<1>3. first \in Executor
  BY <1>2 DEF Executor
<1>4. step \in [Nat -> [Executor -> Executor]]
  <2>1. ASSUME NEW n \in 1..L, NEW x \in Executor PROVE RunStep(steps[n], x, included) \in Executor
    BY <1>2, RunStepType
  <2> QED BY <2>1
<1>5. \A n \in 1..L : \A x \in Executor : step[n][x] = RunStep(steps[n], x, included)
  BY <1>2
<1> HIDE DEF step, first
<1>6. PICK g : Iterates(g, Executor, first, step, L)
  BY <1>2, <1>3, <1>4, RecursiveFunction
<1>7. /\ g \in [0..L -> Executor] /\ g[0] = first
      /\ \A n \in 1..L : g[n] = RunStep(steps[n], g[n - 1], included)
  <2>1. g \in [0..L -> Executor] /\ g[0] = first /\ \A n \in 1..L : g[n] = step[n][g[n - 1]]
    BY <1>6 DEF Iterates
  <2>2. \A n \in 1..L : n - 1 \in 0..L
    BY <1>2
  <2> QED BY <1>5, <2>1, <2>2
<1>8. Def(g)
  <2>1. ASSUME NEW n \in 0..L PROVE g[n] = IF n = 0 THEN first ELSE RunStep(steps[n], g[n - 1], included)
    <3>1. n = 0 \/ n \in 1..L
      BY <1>2
    <3> QED BY <1>7, <3>1
  <2> QED BY <1>7, <2>1
<1>9. Def(after)
  <2> HIDE DEF Def, after
  <2> QED BY <1>1, <1>8
<1>10. after[0] = first
  BY <1>2, <1>9
<1>11. \A n \in 1..L : after[n] = RunStep(steps[n], after[n - 1], included)
  <2>1. \A n \in 1..L : n \in 0..L /\ n # 0
    BY <1>2
  <2> HIDE DEF after
  <2> QED BY <1>9, <2>1
<1>12. after \in [0..L -> Executor]
  <2> HIDE DEF after
  <2> DEFINE T == {n \in Nat : n \in 0..L => after[n] \in Executor}
  <2>1. 0 \in T
    BY <1>3, <1>10
  <2>2. ASSUME NEW n \in Nat, n \in T PROVE n + 1 \in T
    <3> SUFFICES ASSUME n + 1 \in 0..L PROVE after[n + 1] \in Executor
      OBVIOUS
    <3>1. n + 1 \in 1..L /\ n \in 0..L /\ (n + 1) - 1 = n
      BY <1>2
    <3>2. after[n] \in Executor
      BY <2>2, <3>1
    <3> QED BY <1>2, <1>11, <3>1, <3>2, RunStepType
  <2> HIDE DEF T
  <2>3. Nat \subseteq T
    BY <2>1, <2>2, NumbersBelow
  <2>4. \A n \in 0..L : n \in Nat /\ after[n] \in Executor
    BY <1>2, <2>3 DEF T
  <2> QED BY <1>9, <2>4
<1> HIDE DEF after
<1>13. Runs(after, f, st, included)
  BY <1>2, <1>10, <1>11, <1>12 DEF L, steps, first, Runs
<1> QED BY <1>13 DEF after

\* Included is the recursive function it is defined as.
LEMMA IncludedDef ==
    \A d \in 0..Cardinality(File) :
        /\ Included[d] \in Effects
        /\ \A f \in File : \A st \in Executor :
            Included[d][f][st] = IF d > 0 /\ f \in DOMAIN Scenario \ NamesMissing
                                 THEN RunFile(f, st, Included[d - 1])
                                 ELSE [st EXCEPT !.ok = FALSE]
<1> DEFINE C == Cardinality(File)
           Failed(st) == [st EXCEPT !.ok = FALSE]
           Found == DOMAIN Scenario \ NamesMissing
           none == [f \in File |-> [st \in Executor |-> Failed(st)]]
           R(r, d) == [f \in File |-> [st \in Executor |->
                        IF d > 0 /\ f \in Found THEN RunFile(f, st, r[d - 1]) ELSE Failed(st)]]
           Def(r) == r = [d \in 0..C |-> R(r, d)]
           Deeper(r) == [f \in File |-> [st \in Executor |-> IF f \in Found THEN RunFile(f, st, r) ELSE Failed(st)]]
           step == [n \in Nat |-> [r \in Effects |-> Deeper(r)]]
<1>1. Included = CHOOSE r : Def(r)
  BY DEF Included
<1>2. C \in Nat
  BY FileAssumption, FS_CardinalityType
<1>3. \A st \in Executor : Failed(st) \in Executor
  BY DEF Executor
<1>4. ASSUME NEW r \in Effects, NEW f \in Found, NEW st \in Executor PROVE RunFile(f, st, r) \in Executor
  <2>1. Len(Scenario[f].Steps) \in Nat /\ RunSteps(f, st, r) \in [0..Len(Scenario[f].Steps) -> Executor]
    BY RunStepsDef DEF Runs
  <2> QED BY <2>1 DEF RunFile
<1> HIDE DEF Failed, C, Found
<1>5. step \in [Nat -> [Effects -> Effects]]
  BY <1>3, <1>4 DEF Effects
<1>6. none \in Effects
  BY <1>3 DEF Effects
<1>7. \A n \in Nat : \A r \in Effects : step[n][r] = Deeper(r)
  OBVIOUS
<1>8. ASSUME NEW r, NEW d, d > 0 PROVE R(r, d) = Deeper(r[d - 1])
  BY <1>8
<1>9. \A r : R(r, 0) = none
  OBVIOUS
<1> HIDE DEF step, none, R, Deeper
<1>10. PICK g : Iterates(g, Effects, none, step, C)
  BY <1>2, <1>5, <1>6, RecursiveFunction
<1>11. g \in [0..C -> Effects] /\ \A d \in 0..C : g[d] = R(g, d)
  <2>1. g \in [0..C -> Effects] /\ g[0] = none /\ \A n \in 1..C : g[n] = step[n][g[n - 1]]
    BY <1>10 DEF Iterates
  <2>2. ASSUME NEW d \in 0..C PROVE g[d] = R(g, d)
    <3>1. CASE d = 0
      BY <1>9, <2>1, <3>1
    <3>2. CASE d # 0
      <4>1. d \in 1..C /\ d - 1 \in 0..C /\ d \in Nat /\ d > 0
        BY <1>2, <3>2
      <4>2. g[d - 1] \in Effects
        BY <2>1, <4>1
      <4>3. g[d] = step[d][g[d - 1]]
        BY <2>1, <4>1
      <4>4. step[d][g[d - 1]] = Deeper(g[d - 1])
        BY <1>7, <4>1, <4>2
      <4>5. R(g, d) = Deeper(g[d - 1])
        BY <1>8, <4>1
      <4> QED BY <4>3, <4>4, <4>5
    <3> QED BY <3>1, <3>2
  <2> QED BY <2>1, <2>2
<1>12. Def(g)
  BY <1>11
<1>13. Def(Included)
  <2> HIDE DEF Def
  <2> QED BY <1>1, <1>12
<1>14. \A d \in 0..C : Included[d] = R(Included, d)
  BY <1>13
<1> DEFINE T == {d \in Nat : d \in 0..C => Included[d] \in Effects}
<1>15. 0 \in T
  BY <1>2, <1>6, <1>9, <1>14
<1>16. ASSUME NEW n \in Nat, n \in T PROVE n + 1 \in T
  <2> SUFFICES ASSUME n + 1 \in 0..C PROVE Included[n + 1] \in Effects
    OBVIOUS
  <2>1. n \in 0..C /\ (n + 1) - 1 = n /\ n + 1 > 0
    BY <1>2
  <2>2. Included[n] \in Effects
    BY <1>16, <2>1
  <2>3. Included[n + 1] = R(Included, n + 1)
    BY <1>14
  <2>4. R(Included, n + 1) = Deeper(Included[(n + 1) - 1])
    BY <1>8, <2>1
  <2>5. Included[n + 1] = step[n][Included[n]]
    BY <1>7, <2>1, <2>2, <2>3, <2>4
  <2> QED BY <1>5, <2>2, <2>5
<1> HIDE DEF T
<1>17. Nat \subseteq T
  BY <1>15, <1>16, NumbersBelow
<1>18. \A d \in 0..C : Included[d] \in Effects
  <2>1. \A d \in 0..C : d \in Nat
    BY <1>2
  <2> QED BY <1>17, <2>1 DEF T
<1>19. ASSUME NEW d \in 0..C, NEW f \in File, NEW st \in Executor
       PROVE  Included[d][f][st] = IF d > 0 /\ f \in Found THEN RunFile(f, st, Included[d - 1]) ELSE Failed(st)
  <2>1. Included[d] = R(Included, d)
    BY <1>14
  <2>2. R(Included, d)[f][st] = IF d > 0 /\ f \in Found THEN RunFile(f, st, Included[d - 1]) ELSE Failed(st)
    BY DEF R
  <2> QED BY <2>1, <2>2
<1> QED BY <1>18, <1>19 DEF C, Found, Failed

\* A file that fails at one of its steps fails.
LEMMA StaysFailed ==
    ASSUME NEW f \in DOMAIN Scenario, NEW st \in Executor, NEW included \in Effects,
           NEW m \in 0..Len(Scenario[f].Steps), ~RunSteps(f, st, included)[m].ok
    PROVE  ~RunFile(f, st, included).ok
<1> DEFINE after == RunSteps(f, st, included)
           L == Len(Scenario[f].Steps)
           T == {n \in Nat : n \in m..L => ~after[n].ok}
<1>1. /\ L \in Nat
      /\ \A n \in 1..L : after[n] = RunStep(Scenario[f].Steps[n], after[n - 1], included)
  <2>1. Runs(after, f, st, included)
    BY RunStepsDef
  <2> HIDE DEF after, T
  <2> QED BY <2>1 DEF Runs
<1>2. m \in Nat /\ m \in 0..L /\ ~after[m].ok
  BY <1>1
<1> HIDE DEF after, L
<1>3. 0 \in T
  BY <1>2
<1>4. ASSUME NEW n \in Nat, n \in T PROVE n + 1 \in T
  <2> SUFFICES ASSUME n + 1 \in m..L PROVE ~after[n + 1].ok
    OBVIOUS
  <2>1. CASE n + 1 = m
    BY <1>2, <2>1
  <2>2. CASE n + 1 # m
    <3>1. n \in m..L /\ n + 1 \in 1..L /\ (n + 1) - 1 = n
      BY <1>1, <1>2, <2>2
    <3>2. ~after[n].ok
      BY <1>4, <3>1
    <3>3. after[n + 1] = after[n]
      BY <1>1, <3>1, <3>2 DEF RunStep
    <3> QED BY <3>2, <3>3
  <2> QED BY <2>1, <2>2
<1> HIDE DEF T
<1>5. L \in T
  BY <1>1, <1>3, <1>4, NumbersBelow
<1>6. ~after[L].ok
  BY <1>1, <1>2, <1>5 DEF T
<1> QED BY <1>6 DEF RunFile, after, L

----------------------------------------------------------------------------
(* The call stack replays the file *)

\* Frame i after n of its steps, if it was entered with entries[i].
Ran(frs, entries, i, n) == RunSteps(frs[i].file, entries[i], Included[Cardinality(File) - i])[n]

\* Frame i is at an external step, the file of which the next frame runs.
IncludesNext(frs, i) ==
    /\ frs[i].pos \in 1..Len(Scenario[frs[i].file].Steps)
    /\ LET step == Scenario[frs[i].file].Steps[frs[i].pos]
       IN  step.kind = "externalSteps" /\ step.path = frs[i + 1].file
    /\ frs[i + 1].file \notin NamesMissing

\* Every frame was entered with what the steps of the one below had made until then.
Replays(frs, entries, gas) ==
    /\ entries \in [1..Len(frs) -> Executor]
    /\ entries[1] = Fresh(gas)
    /\ \A i \in 1..Len(frs) : entries[i].ok
    /\ \A i \in 1..(Len(frs) - 1) :
            IncludesNext(frs, i) /\ entries[i + 1] = Ran(frs, entries, i, frs[i].pos - 1)

\* What the top frame has been through: its steps so far, which have led to st, or one that failed.
TopRan(frs, entries, phase, st) ==
    LET n == Len(frs)
        steps == Len(Scenario[frs[n].file].Steps)
    IN  /\ phase = "run" => frs[n].pos \in 1..(steps + 1) /\ Ran(frs, entries, n, frs[n].pos - 1) = st
        /\ phase = "fail" => frs[n].pos \in 1..steps /\ ~Ran(frs, entries, n, frs[n].pos).ok

\* The executor at present.
Now == [ok |-> TRUE, world |-> World, checkGas |-> checkGas, vm |-> vm]

\* In a walk, the files on the call stack are as far as the present file of the walk
\* would be if it were run on its own.
ReplaysWalk ==
    walking /\ frames # <<>> =>
        /\ walked \in 1..Len(Walk) /\ frames[1].file = Walk[walked]
        /\ Walk[walked] \notin Excluded /\ Parses(Walk[walked], 1)
        /\ \E entries : Replays(frames, entries, vm) /\ TopRan(frames, entries, pc, Now)

\* One verdict for each file that is done with, and a count of those that failed.
BooksKept ==
    walking => /\ Len(verdicts) = IF frames = <<>> THEN walked ELSE walked - 1
               /\ counts.failed > 0 <=> \E i \in 1..Len(verdicts) : verdicts[i] = "FAIL"

\* The VM is that of some scenario.
OneOfTheVMs ==
    vm # NoVM => \E f \in DOMAIN Scenario : vm = Scenario[f].GasSchedule /\ vm \notin Unavailable

VerdictInv == IInv /\ OneOfTheVMs /\ BooksKept /\ ReplaysWalk

\* A frame goes through the steps of its file, and what it includes fits on the stack.
LEMMA FrameRuns ==
    ASSUME NEW frs \in Seq(Frame), Nested(frs), NEW entries, NEW i \in 1..Len(frs), entries[i] \in Executor
    PROVE  /\ Cardinality(File) - i \in 0..Cardinality(File)
           /\ Included[Cardinality(File) - i] \in Effects
           /\ frs[i].file \in DOMAIN Scenario
           /\ Runs(RunSteps(frs[i].file, entries[i], Included[Cardinality(File) - i]),
                   frs[i].file, entries[i], Included[Cardinality(File) - i])
<1>1. Len(frs) <= Cardinality(File) /\ Cardinality(File) \in Nat
  BY NotDeeperThanFiles
<1>2. Cardinality(File) - i \in 0..Cardinality(File)
  BY <1>1
<1>3. Included[Cardinality(File) - i] \in Effects
  BY <1>2, IncludedDef
<1>4. frs[i].file \in DOMAIN Scenario
  BY DEF Nested
<1> QED BY <1>2, <1>3, <1>4, RunStepsDef

\* Step n of a frame follows on the one before.
LEMMA FrameStep ==
    ASSUME NEW frs \in Seq(Frame), Nested(frs), NEW entries, NEW i \in 1..Len(frs), entries[i] \in Executor
    PROVE  /\ Len(Scenario[frs[i].file].Steps) \in Nat
           /\ Ran(frs, entries, i, 0) = [entries[i] EXCEPT !.checkGas = Scenario[frs[i].file].CheckGas]
           /\ \A n \in 0..Len(Scenario[frs[i].file].Steps) : Ran(frs, entries, i, n) \in Executor
           /\ \A n \in 1..Len(Scenario[frs[i].file].Steps) :
                Ran(frs, entries, i, n) = RunStep(Scenario[frs[i].file].Steps[n], Ran(frs, entries, i, n - 1),
                                                  Included[Cardinality(File) - i])
<1> DEFINE included == Included[Cardinality(File) - i]
           after == RunSteps(frs[i].file, entries[i], included)
<1>1. Runs(after, frs[i].file, entries[i], included)
  BY FrameRuns
<1>2. \A n : Ran(frs, entries, i, n) = after[n]
  BY DEF Ran
<1> HIDE DEF after, included
<1>3. /\ Len(Scenario[frs[i].file].Steps) \in Nat
      /\ after[0] = [entries[i] EXCEPT !.checkGas = Scenario[frs[i].file].CheckGas]
      /\ \A n \in 0..Len(Scenario[frs[i].file].Steps) : after[n] \in Executor
      /\ \A n \in 1..Len(Scenario[frs[i].file].Steps) :
            after[n] = RunStep(Scenario[frs[i].file].Steps[n], after[n - 1], included)
  BY <1>1 DEF Runs
<1> QED BY <1>2, <1>3 DEF included

\* Some frames, or all of them, are left, and those below the top wait where they waited.
Remain(new, frs) ==
    /\ frs \in Seq(Frame) /\ new \in Seq(Frame) /\ new # <<>> /\ Len(new) <= Len(frs)
    /\ \A i \in 1..Len(new) : new[i].file = frs[i].file
    /\ \A i \in 1..(Len(new) - 1) : new[i].pos = frs[i].pos

\* Frames that stay, and wait where they waited, replay the same.
LEMMA ReplaysKept ==
    ASSUME NEW frs, NEW new, Remain(new, frs), NEW entries, NEW gas, Replays(frs, entries, gas)
    PROVE  \E kept : /\ Replays(new, kept, gas)
                     /\ \A i \in 1..Len(new) : \A n : Ran(new, kept, i, n) = Ran(frs, entries, i, n)
<1> DEFINE m == Len(new)
           kept == [i \in 1..m |-> entries[i]]
<1>1. m \in Nat \ {0} /\ Len(frs) \in Nat /\ m <= Len(frs)
  BY DEF Remain
<1>2. /\ entries \in [1..Len(frs) -> Executor] /\ entries[1] = Fresh(gas)
      /\ \A i \in 1..Len(frs) : entries[i].ok
      /\ \A i \in 1..(Len(frs) - 1) :
            IncludesNext(frs, i) /\ entries[i + 1] = Ran(frs, entries, i, frs[i].pos - 1)
  BY DEF Replays
<1> HIDE DEF m
<1>3. \A i \in 1..m : i \in 1..Len(frs)
  BY <1>1
<1>4. \A i \in 1..m : \A n : Ran(new, kept, i, n) = Ran(frs, entries, i, n)
  BY DEF Ran, m, Remain
<1>5. ASSUME NEW i \in 1..(m - 1)
      PROVE  IncludesNext(new, i) /\ kept[i + 1] = Ran(new, kept, i, new[i].pos - 1)
  <2>1. i \in 1..(Len(frs) - 1) /\ i \in 1..m /\ i + 1 \in 1..m
    BY <1>1
  <2>2. new[i].file = frs[i].file /\ new[i].pos = frs[i].pos /\ new[i + 1].file = frs[i + 1].file
    BY <2>1 DEF m, Remain
  <2>3. IncludesNext(new, i)
    BY <1>2, <2>1, <2>2 DEF IncludesNext
  <2>4. kept[i + 1] = entries[i + 1]
    BY <2>1
  <2> QED BY <1>2, <1>4, <2>1, <2>2, <2>3, <2>4
<1>6. kept \in [1..m -> Executor] /\ kept[1] = Fresh(gas) /\ \A i \in 1..m : kept[i].ok
  BY <1>1, <1>2, <1>3
<1>7. Replays(new, kept, gas)
  BY <1>5, <1>6 DEF Replays, m
<1> HIDE DEF kept
<1> QED BY <1>4, <1>7 DEF m

\* A file that is entered replays on what the frame below has made.
LEMMA ReplaysPushed ==
    ASSUME NEW frs \in Seq(Frame), frs # <<>>, Nested(frs), NEW new \in Seq(Frame), Len(new) = Len(frs) + 1,
           \A i \in 1..Len(frs) : new[i] = frs[i], IncludesNext(new, Len(frs)),
           NEW entries, NEW gas, Replays(frs, entries, gas),
           Ran(frs, entries, Len(frs), frs[Len(frs)].pos - 1).ok
    PROVE  LET st == Ran(frs, entries, Len(frs), frs[Len(frs)].pos - 1)
               more == [i \in 1..Len(new) |-> IF i = Len(new) THEN st ELSE entries[i]]
           IN  Replays(new, more, gas)
<1> DEFINE m == Len(frs)
           st == Ran(frs, entries, m, frs[m].pos - 1)
           more == [i \in 1..(m + 1) |-> IF i = m + 1 THEN st ELSE entries[i]]
<1>1. m \in Nat \ {0} /\ Len(new) = m + 1 /\ m \in 1..m
  OBVIOUS
<1>2. /\ entries \in [1..m -> Executor] /\ entries[1] = Fresh(gas)
      /\ \A i \in 1..m : entries[i].ok
      /\ \A i \in 1..(m - 1) :
            IncludesNext(frs, i) /\ entries[i + 1] = Ran(frs, entries, i, frs[i].pos - 1)
  BY DEF Replays
<1>3. st \in Executor /\ st.ok
  <2>1. entries[m] \in Executor
    BY <1>1, <1>2
  <2>2. frs[m].pos - 1 \in 0..Len(Scenario[frs[m].file].Steps)
    <3>1. frs[m].pos \in 1..Len(Scenario[frs[m].file].Steps)
      BY <1>1 DEF IncludesNext
    <3>2. Len(Scenario[frs[m].file].Steps) \in Nat
      BY <1>1, <2>1, FrameStep
    <3> QED BY <3>1, <3>2
  <2> QED BY <1>1, <2>1, <2>2, FrameStep
<1>4. \A i \in 1..m : \A n : Ran(new, more, i, n) = Ran(frs, entries, i, n)
  <2> SUFFICES ASSUME NEW i \in 1..m, NEW n PROVE Ran(new, more, i, n) = Ran(frs, entries, i, n)
    OBVIOUS
  <2>1. new[i] = frs[i] /\ more[i] = entries[i]
    BY <1>1
  <2> HIDE DEF more
  <2> QED BY <2>1 DEF Ran
<1>5. more \in [1..(m + 1) -> Executor] /\ more[1] = Fresh(gas) /\ \A i \in 1..(m + 1) : more[i].ok
  <2> HIDE DEF m, st
  <2> QED BY <1>1, <1>2, <1>3
<1>6. ASSUME NEW i \in 1..m
      PROVE  IncludesNext(new, i) /\ more[i + 1] = Ran(new, more, i, new[i].pos - 1)
  <2>1. CASE i = m
    <3>1. more[m + 1] = st /\ new[m] = frs[m]
      BY <1>1
    <3> HIDE DEF more
    <3> QED BY <1>1, <1>4, <2>1, <3>1
  <2>2. CASE i # m
    <3>1. i \in 1..(m - 1) /\ i \in 1..m /\ i + 1 \in 1..m
      BY <1>1, <2>2
    <3>2. new[i] = frs[i] /\ new[i + 1] = frs[i + 1]
      BY <3>1
    <3>3. IncludesNext(new, i)
      BY <1>2, <3>1, <3>2 DEF IncludesNext
    <3>4. more[i + 1] = entries[i + 1]
      BY <1>1, <3>1
    <3> HIDE DEF more
    <3> QED BY <1>2, <1>4, <3>1, <3>2, <3>3, <3>4
  <2> QED BY <2>1, <2>2
<1> HIDE DEF m, st
<1>7. Replays(new, more, gas)
  <2>1. (m + 1) - 1 = m
    BY <1>1
  <2> HIDE DEF more
  <2> QED BY <1>1, <1>5, <1>6, <2>1 DEF Replays
<1> QED BY <1>1, <1>7 DEF m, st
----------------------------------------------------------------------------
(* Verdicts *)

\* Where the schedules agree, the verdict under the VM there is is that of the file alone.
LEMMA VerdictUnder ==
    ASSUME SchedulesAgree, OneOfTheVMs, TypeOK, vm # NoVM, NEW f \in File \ Excluded, Parses(f, 1)
    PROVE  VerdictAlone[f] = IF Passes(f, vm) THEN "ok" ELSE "FAIL"
<1>1. f \in DOMAIN Scenario /\ (f \in NamesMissing => AllowMissing)
  BY DEF Parses, allowMissingFiles
<1>2. vm \in GasSchedule \ Unavailable
  BY DEF TypeOK
<1>3. PICK g \in DOMAIN Scenario : vm = Scenario[g].GasSchedule
  BY DEF OneOfTheVMs
<1>4. CASE Scenario[f].GasSchedule \in Unavailable
  <2>1. ~Passes(f, vm) /\ ~Alone(f)
    BY <1>1, <1>2, <1>4 DEF SchedulesAgree, Alone
  <2> QED BY <2>1 DEF VerdictAlone
<1>5. CASE Scenario[f].GasSchedule \notin Unavailable
  <2>1. Scenario[f].GasSchedule = vm
    BY <1>1, <1>2, <1>3, <1>5 DEF SchedulesAgree
  <2>2. Alone(f) <=> Passes(f, vm)
    BY <1>1, <1>5, <2>1 DEF Alone
  <2> QED BY <2>2 DEF VerdictAlone
<1> QED BY <1>4, <1>5

\* A file that is not parsed has failed on its own.
LEMMA UnparsedFails ==
    ASSUME NEW f \in File \ Excluded, ~Parses(f, 1)
    PROVE  VerdictAlone[f] = "FAIL"
<1>1. ~Alone(f)
  BY MissingAssumption DEF Alone, Parses, allowMissingFiles
<1> QED BY <1>1 DEF VerdictAlone

\* One verdict more.
LEMMA BooksOne ==
    ASSUME TypeOK, NEW verdict \in {"ok", "FAIL", "skip"}, Count(verdict),
           counts.failed > 0 <=> \E i \in 1..Len(verdicts) : verdicts[i] = "FAIL"
    PROVE  /\ verdicts' = Append(verdicts, verdict)
           /\ Len(verdicts') = Len(verdicts) + 1
           /\ counts'.failed > 0 <=> \E i \in 1..Len(verdicts') : verdicts'[i] = "FAIL"
<1>1. /\ verdicts \in Seq({"ok", "FAIL", "skip"}) /\ Len(verdicts) \in Nat
      /\ counts \in [passed : Nat, failed : Nat, skipped : Nat]
  BY DEF TypeOK
<1>2. /\ verdicts' = Append(verdicts, verdict) /\ Len(verdicts') = Len(verdicts) + 1
      /\ \A i \in 1..Len(verdicts) : verdicts'[i] = verdicts[i]
      /\ verdicts'[Len(verdicts) + 1] = verdict
  BY <1>1 DEF Count
<1>3. counts'.failed = IF verdict = "FAIL" THEN counts.failed + 1 ELSE counts.failed
  BY <1>1 DEF Count
<1>4. CASE verdict = "FAIL"
  <2>1. counts'.failed > 0
    BY <1>1, <1>3, <1>4
  <2>2. Len(verdicts) + 1 \in 1..Len(verdicts')
    BY <1>1, <1>2
  <2> QED BY <1>2, <1>4, <2>1, <2>2
<1>5. CASE verdict # "FAIL"
  <2>1. \A i \in 1..Len(verdicts') : i \in 1..Len(verdicts) \/ i = Len(verdicts) + 1
    BY <1>1, <1>2
  <2>2. \A i \in 1..Len(verdicts) : i \in 1..Len(verdicts')
    BY <1>1, <1>2
  <2> QED BY <1>2, <1>3, <1>5, <2>1, <2>2
<1> QED BY <1>2, <1>4, <1>5

----------------------------------------------------------------------------
(* Each step follows the file on its own *)

\* The positions of the frames when the top one goes on.
LEMMA SteppedPositions ==
    ASSUME NEW frs \in Seq(Frame), frs # <<>>
    PROVE  LET new == NextStep(frs)
           IN  /\ new[Len(frs)].pos = frs[Len(frs)].pos + 1
               /\ \A i \in 1..(Len(frs) - 1) : new[i] = frs[i]
<1> DEFINE n == Len(frs)
           last == [frs[n] EXCEPT !.pos = @ + 1]
<1>1. n \in Nat \ {0} /\ frs[n] \in Frame /\ DOMAIN frs = 1..n
  OBVIOUS
<1>2. last.pos = frs[n].pos + 1
  BY <1>1 DEF Frame
<1>3. NextStep(frs) = [frs EXCEPT ![n] = last]
  BY <1>1 DEF NextStep
<1> HIDE DEF last
<1>4. \A i \in 1..n : NextStep(frs)[i] = IF i = n THEN last ELSE frs[i]
  BY <1>1, <1>3
<1> HIDE DEF n
<1>5. n \in 1..n /\ \A i \in 1..(n - 1) : i \in 1..n /\ i # n
  BY <1>1
<1> QED BY <1>2, <1>4, <1>5 DEF n

\* The state of the top frame.
LEMMA TopReplays ==
    ASSUME IInv, pc \in {"run", "fail"}, NEW entries, Replays(frames, entries, vm), TopRan(frames, entries, pc, Now)
    PROVE  LET n == Len(frames)
               L == Len(Scenario[Top.file].Steps)
               included == Included[Cardinality(File) - n]
           IN  /\ L \in Nat /\ n \in Nat \ {0} /\ entries[n] \in Executor /\ included \in Effects
               /\ Top = frames[n] /\ Top.file \in DOMAIN Scenario
               /\ \A m \in 0..L : Ran(frames, entries, n, m) \in Executor
               /\ \A m \in 1..L : Ran(frames, entries, n, m)
                                    = RunStep(Scenario[Top.file].Steps[m], Ran(frames, entries, n, m - 1), included)
               /\ pc = "run" => /\ Top.pos \in 1..(L + 1)
                                /\ Ran(frames, entries, n, Top.pos - 1)
                                    = Now
               /\ pc = "fail" => Top.pos \in 1..L /\ ~Ran(frames, entries, n, Top.pos).ok
<1>1. /\ frames \in Seq(Frame) /\ Nested(frames) /\ Len(frames) \in Nat \ {0}
      /\ Top = frames[Len(frames)] /\ Len(frames) \in 1..Len(frames)
  BY Running
<1>2. entries[Len(frames)] \in Executor
  BY <1>1 DEF Replays
<1>3. Included[Cardinality(File) - Len(frames)] \in Effects /\ Top.file \in DOMAIN Scenario
  BY <1>1, <1>2, FrameRuns
<1>4. /\ Len(Scenario[Top.file].Steps) \in Nat
      /\ \A m \in 0..Len(Scenario[Top.file].Steps) : Ran(frames, entries, Len(frames), m) \in Executor
      /\ \A m \in 1..Len(Scenario[Top.file].Steps) :
            Ran(frames, entries, Len(frames), m)
                = RunStep(Scenario[Top.file].Steps[m], Ran(frames, entries, Len(frames), m - 1),
                          Included[Cardinality(File) - Len(frames)])
  BY <1>1, <1>2, FrameStep
<1> QED BY <1>1, <1>2, <1>3, <1>4 DEF TopRan

\* A step is executed as it is when the file is on its own.
LEMMA ExecuteStepReplays ==
    ASSUME IInv, IInv', ExecuteStep, NEW entries, Replays(frames, entries, vm), TopRan(frames, entries, pc, Now)
    PROVE  \E kept : Replays(frames', kept, vm') /\ TopRan(frames', kept, pc', Now')
<1> DEFINE n == Len(frames)
           L == Len(Scenario[Top.file].Steps)
           included == Included[Cardinality(File) - n]
<1>1. /\ pc = "run" /\ Top.pos <= L /\ Step = Scenario[Top.file].Steps[Top.pos]
      /\ UNCHANGED <<checkGas, vm>> /\ Step.kind # "externalSteps"
  BY DEF ExecuteStep, HasStep, Step
<1>2. /\ L \in Nat /\ n \in Nat \ {0} /\ included \in Effects /\ Top = frames[n]
      /\ Top.pos \in 1..(L + 1) /\ Ran(frames, entries, n, Top.pos - 1) = Now
      /\ \A m \in 1..L : Ran(frames, entries, n, m)
                            = RunStep(Scenario[Top.file].Steps[m], Ran(frames, entries, n, m - 1), included)
  BY <1>1, TopReplays
<1>3. Top.pos \in 1..L /\ Ran(frames, entries, n, Top.pos) = RunStep(Step, Now, included)
  <2>1. Top.pos \in 1..L
    BY <1>1, <1>2
  <2> HIDE DEF included
  <2> QED BY <1>1, <1>2, <2>1
<1>4. /\ RunStep(Step, Now, included).ok <=> Succeeds(Step)
      /\ Succeeds(Step) => RunStep(Step, Now, included)
                            = Now'
  <2>1. Step \in Steps
    BY StepType DEF ExecuteStep
  <2>2. CASE Step.kind = "checkState"
    <3>1. RunStep(Step, Now, included) = [Now EXCEPT !.ok = (World = Step.expects)]
      BY <2>2 DEF RunStep, Now
    <3>2. World' = World /\ (Succeeds(Step) <=> World = Step.expects)
      BY <2>2 DEF ExecuteStep, Succeeds
    <3> QED BY <1>1, <3>1, <3>2 DEF Now
  <2>3. CASE Step.kind = "setState"
    <3>1. RunStep(Step, Now, included) = [Now EXCEPT !.ok = ~Step.fails, !.world = World \union Step.writes]
      BY <2>3 DEF RunStep, Now
    <3>2. /\ Succeeds(Step) <=> ~Step.fails
          /\ Succeeds(Step) => World' = World \union Step.writes
      BY <2>3 DEF ExecuteStep, Succeeds
    <3> QED BY <1>1, <3>1, <3>2 DEF Now
  <2>4. CASE Step.kind = "tx"
    <3> DEFINE b == ~Step.fails /\ (checkGas => Step.gasUnder \in {AnyGas, vm})
    <3>1. RunStep(Step, Now, included) = [Now EXCEPT !.ok = b, !.world = World \union Step.writes]
      BY <2>4 DEF RunStep, Now
    <3>2. /\ Succeeds(Step) <=> b
          /\ Succeeds(Step) => World' = World \union Step.writes
      BY <2>4 DEF ExecuteStep, Succeeds, GasMatches
    <3>3. b \in BOOLEAN
      OBVIOUS
    <3> HIDE DEF b
    <3> QED BY <1>1, <3>1, <3>2, <3>3 DEF Now
  <2> QED BY <1>1, <2>1, <2>2, <2>3, <2>4 DEF Steps
<1>5. frames \in Seq(Frame) /\ frames # <<>> /\ frames' \in Seq(Frame)
  BY <1>1, Running DEF IInv, TypeOK
<1>6. CASE Succeeds(Step)
  <2>1. frames' = NextStep(frames) /\ pc' = "run"
    BY <1>1, <1>6 DEF ExecuteStep
  <2>2. /\ Len(frames') = n /\ frames' # <<>> /\ \A i \in 1..n : frames'[i].file = frames[i].file
        /\ frames'[n].pos = frames[n].pos + 1
        /\ \A i \in 1..(n - 1) : frames'[i].pos = frames[i].pos
    BY <1>5, <2>1, SteppedFrames, SteppedPositions
  <2>3. PICK kept : /\ Replays(frames', kept, vm)
                    /\ \A m : Ran(frames', kept, n, m) = Ran(frames, entries, n, m)
    <3>1. n \in 1..n /\ Len(frames') <= Len(frames)
      BY <1>2, <2>2
    <3>2. Remain(frames', frames)
      BY <1>5, <2>2, <3>1 DEF Remain
    <3>3. \E kept : /\ Replays(frames', kept, vm)
                    /\ \A i \in 1..Len(frames') : \A m : Ran(frames', kept, i, m) = Ran(frames, entries, i, m)
      BY <3>2, ReplaysKept
    <3> QED BY <2>2, <3>1, <3>3
  <2>4. frames'[n].file = Top.file /\ frames'[n].pos = Top.pos + 1 /\ Len(frames') = n
    BY <1>2, <2>2
  <2>5. frames'[n].pos \in 1..(L + 1) /\ frames'[n].pos - 1 = Top.pos
    BY <1>2, <1>3, <2>4
  <2>6. Ran(frames', kept, n, Top.pos) = Now'
    BY <1>1, <1>3, <1>4, <1>6, <2>3
  <2>7. TopRan(frames', kept, pc', Now')
    BY <2>1, <2>4, <2>5, <2>6 DEF TopRan
  <2> QED BY <1>1, <2>3, <2>7
<1>7. CASE ~Succeeds(Step)
  <2>1. frames' = frames /\ pc' = "fail"
    BY <1>1, <1>7 DEF ExecuteStep
  <2>2. ~Ran(frames, entries, n, Top.pos).ok
    BY <1>3, <1>4, <1>7
  <2>3. TopRan(frames', entries, pc', Now')
    BY <1>2, <1>3, <2>1, <2>2 DEF TopRan
  <2> QED BY <1>1, <2>1, <2>3
<1> QED BY <1>6, <1>7

\* The step that is executed, as the file on its own has it.
LEMMA StepOnItsOwn ==
    ASSUME IInv, HasStep, NEW entries, Replays(frames, entries, vm), TopRan(frames, entries, pc, Now)
    PROVE  LET n == Len(frames)
           IN  /\ n \in Nat \ {0} /\ Top = frames[n] /\ Now \in Executor
               /\ Cardinality(File) - n \in 0..Cardinality(File)
               /\ Top.file \in DOMAIN Scenario
               /\ Top.pos \in 1..Len(Scenario[Top.file].Steps)
               /\ Step = Scenario[Top.file].Steps[Top.pos]
               /\ Ran(frames, entries, n, Top.pos - 1) = Now
               /\ Ran(frames, entries, n, Top.pos) = RunStep(Step, Now, Included[Cardinality(File) - n])
<1> DEFINE n == Len(frames)
           L == Len(Scenario[Top.file].Steps)
           included == Included[Cardinality(File) - n]
<1>1. pc = "run" /\ Top.pos <= L /\ Step = Scenario[Top.file].Steps[Top.pos]
  BY DEF HasStep, Step
<1>2. /\ L \in Nat /\ n \in Nat \ {0} /\ Top = frames[n] /\ Top.file \in DOMAIN Scenario
      /\ Top.pos \in 1..(L + 1) /\ Ran(frames, entries, n, Top.pos - 1) = Now
      /\ \A m \in 0..L : Ran(frames, entries, n, m) \in Executor
      /\ \A m \in 1..L : Ran(frames, entries, n, m)
                            = RunStep(Scenario[Top.file].Steps[m], Ran(frames, entries, n, m - 1), included)
      /\ entries[n] \in Executor
  BY <1>1, TopReplays
<1>3. Top.pos \in 1..L /\ Top.pos - 1 \in 0..L
  BY <1>1, <1>2
<1>4. Cardinality(File) - n \in 0..Cardinality(File)
  <2>1. frames \in Seq(Frame) /\ Nested(frames) /\ n \in 1..n
    BY <1>1, <1>2, Running
  <2> QED BY <1>2, <2>1, FrameRuns
<1>5. Now \in Executor
  BY <1>2, <1>3
<1> HIDE DEF n, L, included
<1>6. Ran(frames, entries, n, Top.pos) = RunStep(Step, Now, included)
  BY <1>1, <1>2, <1>3
<1> QED BY <1>1, <1>2, <1>3, <1>4, <1>5, <1>6 DEF n, L, included

\* Entering the file of an external step.
LEMMA ExternalStepReplays ==
    ASSUME IInv, IInv', ExecuteExternalStep, NEW entries, Replays(frames, entries, vm),
           TopRan(frames, entries, pc, Now)
    PROVE  frames' # <<>> /\ frames'[1] = frames[1]
           /\ \E more : Replays(frames', more, vm') /\ TopRan(frames', more, pc', Now')
<1> DEFINE n == Len(frames)
           f == Step.path
           stack == setExternalStepGasTracing(scenarioTraceGas, Step)
           more == [i \in 1..Len(frames') |-> IF i = Len(frames') THEN Ran(frames, entries, n, frames[n].pos - 1) ELSE entries[i]]
<1>1. /\ HasStep /\ Step.kind = "externalSteps" /\ Parses(f, n + 1)
      /\ RunScenario(f, n + 1, FALSE, Scenario[f].TraceGas, stack, Inherited(Step))
      /\ pc' = pc /\ pc = "run" /\ World' = World
  BY DEF ExecuteExternalStep, HasStep
<1>2. /\ frames \in Seq(Frame) /\ Nested(frames) /\ frames # <<>> /\ vm # NoVM
      /\ frames' \in Seq(Frame) /\ Nested(frames')
  <2>1. TypeOK' /\ Nested(frames')
    BY DEF IInv, FramesFit
  <2> QED BY <1>1, <2>1, Running DEF TypeOK
<1>3. /\ n \in Nat \ {0} /\ Top = frames[n] /\ Now \in Executor /\ Top.file \in DOMAIN Scenario
      /\ Top.pos \in 1..Len(Scenario[Top.file].Steps)
      /\ Step = Scenario[Top.file].Steps[Top.pos]
      /\ Ran(frames, entries, n, Top.pos - 1) = Now
  BY <1>1, StepOnItsOwn
<1>4. f \in DOMAIN Scenario /\ f \notin NamesMissing
  <2>1. n + 1 # 1
    BY <1>3
  <2> QED BY <1>1, <2>1 DEF Parses, allowMissingFiles
<1>5. /\ vm' = vm /\ checkGas' = Scenario[f].CheckGas
      /\ \E declared : frames' = Append(frames, [file |-> f, pos |-> 1, backup |-> fileResolver,
                                                declared |-> declared, included |-> FALSE])
  <2>1. vm' = vm
    BY <1>1, <1>2 DEF RunScenario, InitVM
  <2> QED BY <1>1, <1>2, <2>1 DEF RunScenario, CheckGasOf
<1>6. /\ Len(frames') = n + 1 /\ \A i \in 1..n : frames'[i] = frames[i]
      /\ frames'[n + 1].file = f /\ frames'[n + 1].pos = 1
  <2>1. PICK declared : frames' = Append(frames, [file |-> f, pos |-> 1, backup |-> fileResolver,
                                                declared |-> declared, included |-> FALSE])
    BY <1>5
  <2> DEFINE new == [file |-> f, pos |-> 1, backup |-> fileResolver, declared |-> declared, included |-> FALSE]
  <2>2. new.file = f /\ new.pos = 1 /\ frames' = Append(frames, new)
    BY <2>1
  <2> HIDE DEF new, f
  <2>3. Len(frames') = n + 1 /\ (\A i \in 1..n : frames'[i] = frames[i]) /\ frames'[n + 1] = new
    BY <1>2, <2>2
  <2> QED BY <2>2, <2>3
<1> HIDE DEF f, stack
<1>7. IncludesNext(frames', n)
  <2>1. frames'[n] = Top /\ n \in 1..n
    BY <1>3, <1>6
  <2> QED BY <1>1, <1>3, <1>4, <1>6, <2>1 DEF IncludesNext, f
<1>8. Replays(frames', more, vm)
  <2>1. Ran(frames, entries, n, frames[n].pos - 1).ok
    BY <1>3 DEF Now
  <2> HIDE DEF more
  <2> QED BY <1>2, <1>6, <1>7, <2>1, ReplaysPushed DEF more
<1>9. more[n + 1] = Now
  <2>1. n + 1 \in 1..Len(frames')
    BY <1>3, <1>6
  <2> QED BY <1>3, <1>6, <2>1
<1>10. Ran(frames', more, n + 1, 0) = [more[n + 1] EXCEPT !.checkGas = Scenario[f].CheckGas]
  <2>1. n + 1 \in 1..Len(frames') /\ more[n + 1] \in Executor
    BY <1>3, <1>6, <1>9
  <2> HIDE DEF more
  <2> QED BY <1>2, <1>6, <2>1, FrameStep
<1>11. [more[n + 1] EXCEPT !.checkGas = Scenario[f].CheckGas] = Now'
  <2> DEFINE With(ok, gas) == [ok |-> ok, world |-> World, checkGas |-> gas, vm |-> vm]
  <2>1. Now = With(TRUE, checkGas) /\ Now' = With(TRUE, Scenario[f].CheckGas)
    BY <1>1, <1>5 DEF Now
  <2>2. \A ok, a, b : [With(ok, a) EXCEPT !.checkGas = b] = With(ok, b)
    OBVIOUS
  <2> HIDE DEF With
  <2>3. [With(TRUE, checkGas) EXCEPT !.checkGas = Scenario[f].CheckGas] = With(TRUE, Scenario[f].CheckGas)
    BY <2>2, Zenon
  <2> HIDE DEF more
  <2> QED BY <1>9, <2>1, <2>3, Zenon
<1>12. TopRan(frames', more, pc', Now')
  <2>1. Len(Scenario[f].Steps) \in Nat
    <3>1. Scenario[f].Steps \in Seq(Steps)
      BY <1>4, ScenarioAssumption DEF Scenarios
    <3> QED BY <3>1
  <2>2. 1 \in 1..(Len(Scenario[f].Steps) + 1) /\ 1 - 1 = 0
    BY <2>1
  <2> HIDE DEF more
  <2> QED BY <1>1, <1>6, <1>10, <1>11, <2>2 DEF TopRan
<1>13. frames' # <<>> /\ frames'[1] = frames[1]
  <2>1. 1 \in 1..n /\ n + 1 # 0
    BY <1>3
  <2> QED BY <1>2, <1>6, <2>1
<1> HIDE DEF more
<1> QED BY <1>5, <1>8, <1>12, <1>13

\* An external step the file of which is not found fails.
LEMMA NotParsedReplays ==
    ASSUME IInv, ExternalStepNotParsed, NEW entries, Replays(frames, entries, vm),
           TopRan(frames, entries, pc, Now)
    PROVE  Replays(frames', entries, vm') /\ TopRan(frames', entries, pc', Now')
<1> DEFINE n == Len(frames)
           d == Cardinality(File) - n
<1>1. /\ HasStep /\ Step.kind = "externalSteps" /\ ~Parses(Step.path, n + 1)
      /\ pc' = "fail" /\ frames' = frames /\ vm' = vm
  BY DEF ExternalStepNotParsed, CannotParse
<1>2. /\ n \in Nat \ {0} /\ Top = frames[n] /\ Now \in Executor /\ d \in 0..Cardinality(File)
      /\ Top.pos \in 1..Len(Scenario[Top.file].Steps)
      /\ Ran(frames, entries, n, Top.pos) = RunStep(Step, Now, Included[d])
  BY <1>1, StepOnItsOwn
<1>3. Step.path \in File
  BY <1>1, StepType
<1>4. Step.path \notin DOMAIN Scenario \ NamesMissing
  <2>1. n + 1 # 1
    BY <1>2
  <2> QED BY <1>1, <2>1 DEF Parses, allowMissingFiles
<1>5. Included[d][Step.path][Now] = [Now EXCEPT !.ok = FALSE]
  BY <1>2, <1>3, <1>4, IncludedDef
<1>6. RunStep(Step, Now, Included[d]) = Included[d][Step.path][Now]
  BY <1>1 DEF RunStep, Now
<1>7. ~Ran(frames, entries, n, Top.pos).ok
  BY <1>2, <1>5, <1>6 DEF Now
<1> QED BY <1>1, <1>2, <1>7 DEF TopRan

\* What an external step makes is what its file makes that runs in the next frame.
LEMMA IncludedFile ==
    ASSUME IInv, pc \in {"run", "fail"}, Len(frames) > 1, NEW entries, Replays(frames, entries, vm)
    PROVE  LET n == Len(frames)
               m == n - 1
           IN  /\ m \in 1..n /\ m + 1 = n
               /\ frames[m].pos \in 1..Len(Scenario[frames[m].file].Steps)
               /\ Ran(frames, entries, m, frames[m].pos) = RunFile(Top.file, entries[n], Included[Cardinality(File) - n])
<1> DEFINE n == Len(frames)
           m == n - 1
           C == Cardinality(File)
           f == frames[m].file
           step == Scenario[f].Steps[frames[m].pos]
<1>1. /\ frames \in Seq(Frame) /\ Nested(frames) /\ n \in Nat \ {0} /\ Top = frames[n]
      /\ Top.file \in DOMAIN Scenario
  BY Running
<1>2. m \in 1..(n - 1) /\ m \in 1..n /\ n \in 1..n /\ m + 1 = n
  BY <1>1
<1>3. /\ IncludesNext(frames, m) /\ entries[n] = Ran(frames, entries, m, frames[m].pos - 1)
      /\ entries[n] \in Executor /\ entries[m] \in Executor /\ entries[n].ok
  <2> HIDE DEF m
  <2>1. \A i \in 1..(n - 1) : IncludesNext(frames, i) /\ entries[i + 1] = Ran(frames, entries, i, frames[i].pos - 1)
    BY DEF Replays
  <2>2. IncludesNext(frames, m) /\ entries[m + 1] = Ran(frames, entries, m, frames[m].pos - 1)
    BY <1>2, <2>1
  <2> QED BY <1>2, <2>2 DEF Replays
<1>4. /\ frames[m].pos \in 1..Len(Scenario[f].Steps)
      /\ step.kind = "externalSteps" /\ step.path = Top.file /\ Top.file \notin NamesMissing
  <2> HIDE DEF m
  <2> QED BY <1>1, <1>2, <1>3 DEF IncludesNext
<1>5. /\ C - m \in 0..C /\ C - n \in 0..C /\ C \in Nat
  <2>1. C \in Nat
    BY <1>1, NotDeeperThanFiles
  <2> HIDE DEF m, C, n
  <2> QED BY <1>1, <1>2, <1>3, <2>1, FrameRuns DEF C, n
<1>6. C - m > 0 /\ (C - m) - 1 = C - n
  <2> HIDE DEF m, C, n
  <2> QED BY <1>1, <1>2, <1>5
<1>7. Ran(frames, entries, m, frames[m].pos) = RunStep(step, entries[n], Included[C - m])
  <2> HIDE DEF m
  <2> QED BY <1>1, <1>2, <1>3, <1>4, FrameStep
<1> HIDE DEF step, m, C, n
<1>8. RunStep(step, entries[n], Included[C - m]) = Included[C - m][Top.file][entries[n]]
  BY <1>3, <1>4 DEF RunStep
<1>9. Included[C - m][Top.file][entries[n]] = RunFile(Top.file, entries[n], Included[(C - m) - 1])
  <2>1. Top.file \in File
    BY <1>1, ScenarioAssumption
  <2>2. \A d \in 0..C : \A g \in File : \A st \in Executor :
            Included[d][g][st] = IF d > 0 /\ g \in DOMAIN Scenario \ NamesMissing
                                 THEN RunFile(g, st, Included[d - 1])
                                 ELSE [st EXCEPT !.ok = FALSE]
    BY IncludedDef DEF C
  <2>3. C - m > 0 /\ Top.file \in DOMAIN Scenario \ NamesMissing
    BY <1>1, <1>4, <1>6
  <2> QED BY <1>3, <1>5, <2>1, <2>2, <2>3
<1>10. Ran(frames, entries, m, frames[m].pos) = RunFile(Top.file, entries[n], Included[C - n])
  BY <1>6, <1>7, <1>8, <1>9
<1> QED BY <1>2, <1>4, <1>10 DEF m, n, C, f

\* The external step is done: its frame goes, the one below goes on.
LEMMA DoneReplays ==
    ASSUME IInv, IInv', ExternalStepDone, NEW entries, Replays(frames, entries, vm),
           TopRan(frames, entries, pc, Now)
    PROVE  /\ frames' # <<>> /\ frames'[1].file = frames[1].file
           /\ \E kept : Replays(frames', kept, vm') /\ TopRan(frames', kept, pc', Now')
<1> DEFINE n == Len(frames)
           m == n - 1
           st == NextStep(PopFrame)
<1>1. /\ pc = "run" /\ pc' = pc /\ n > 1 /\ Top.pos > Len(Scenario[Top.file].Steps)
      /\ frames' = [st EXCEPT ![m].included = TRUE]
      /\ vm' = vm /\ World' = World /\ checkGas' = checkGas
  BY DEF ExternalStepDone
<1>2. /\ frames \in Seq(Frame) /\ frames # <<>> /\ Nested(frames) /\ n \in Nat \ {0} /\ frames' \in Seq(Frame) /\ TypeOK
  BY <1>1, Running DEF IInv, TypeOK
<1>3. /\ m \in 1..n /\ m + 1 = n
      /\ frames[m].pos \in 1..Len(Scenario[frames[m].file].Steps)
      /\ Ran(frames, entries, m, frames[m].pos) = RunFile(Top.file, entries[n], Included[Cardinality(File) - n])
  BY <1>1, IncludedFile
<1>4. RunFile(Top.file, entries[n], Included[Cardinality(File) - n]) = Now
  <2>1. /\ Len(Scenario[Top.file].Steps) \in Nat /\ Top = frames[n]
        /\ Top.pos \in 1..(Len(Scenario[Top.file].Steps) + 1)
        /\ Ran(frames, entries, n, Top.pos - 1) = Now
    BY <1>1, TopReplays
  <2>2. Top.pos - 1 = Len(Scenario[Top.file].Steps)
    BY <1>1, <2>1
  <2> QED BY <2>1, <2>2 DEF RunFile, Ran
<1>5. /\ PopFrame \in Seq(Frame) /\ Len(PopFrame) = m /\ PopFrame # <<>>
      /\ \A i \in 1..m : PopFrame[i] = frames[i]
  BY <1>1, <1>2, PoppedFrames
<1>6. /\ st \in Seq(Frame) /\ Len(st) = m /\ \A i \in 1..m : st[i].file = frames[i].file
      /\ st[m].pos = frames[m].pos + 1 /\ \A i \in 1..(m - 1) : st[i].pos = frames[i].pos
  <2> HIDE DEF m, st
  <2>1. /\ st \in Seq(Frame) /\ Len(st) = m /\ \A i \in 1..m : st[i].file = PopFrame[i].file
    BY <1>5, SteppedFrames DEF st
  <2>2. /\ st[m].pos = PopFrame[m].pos + 1 /\ \A i \in 1..(m - 1) : st[i] = PopFrame[i]
    BY <1>5, SteppedPositions DEF st
  <2>3. m \in 1..m /\ \A i \in 1..(m - 1) : i \in 1..m
    BY <1>2, <1>3
  <2> QED BY <1>5, <2>1, <2>2, <2>3
<1> HIDE DEF st, m
<1>7. /\ Len(frames') = m /\ frames' # <<>> /\ \A i \in 1..m : frames'[i].file = frames[i].file
      /\ frames'[m].pos = frames[m].pos + 1 /\ \A i \in 1..(m - 1) : frames'[i].pos = frames[i].pos
  <2> DEFINE last == [st[m] EXCEPT !.included = TRUE]
  <2>0. m \in Nat \ {0} /\ DOMAIN st = 1..m /\ st[m] \in Frame
    BY <1>2, <1>3, <1>6
  <2>1. last.file = st[m].file /\ last.pos = st[m].pos
    BY <2>0 DEF Frame
  <2>2. frames' = [st EXCEPT ![m] = last]
    BY <1>1
  <2> HIDE DEF last
  <2>3. \A i \in 1..m : frames'[i] = IF i = m THEN last ELSE st[i]
    BY <2>0, <2>2
  <2>4. Len(frames') = m /\ frames' # <<>>
    BY <1>2, <1>6, <2>0, <2>2
  <2> QED BY <1>6, <2>0, <2>1, <2>3, <2>4
<1>8. PICK kept : /\ Replays(frames', kept, vm)
                  /\ \A i \in 1..m : \A k : Ran(frames', kept, i, k) = Ran(frames, entries, i, k)
  <2>1. Remain(frames', frames)
    <3>1. Len(frames') <= Len(frames) /\ \A i \in 1..(m - 1) : frames'[i].pos = frames[i].pos
      BY <1>2, <1>3, <1>7
    <3> QED BY <1>2, <1>7, <3>1 DEF Remain
  <2>2. \E kept : /\ Replays(frames', kept, vm)
                  /\ \A i \in 1..Len(frames') : \A k : Ran(frames', kept, i, k) = Ran(frames, entries, i, k)
    BY <2>1, ReplaysKept
  <2> QED BY <1>7, <2>2
<1>9. TopRan(frames', kept, pc', Now')
  <2>1. Now' = Now
    BY <1>1 DEF Now
  <2>2. m \in 1..m /\ Len(Scenario[frames[m].file].Steps) \in Nat
    <3>1. entries[m] \in Executor
      BY <1>3 DEF Replays
    <3> QED BY <1>2, <1>3, <3>1, FrameStep
  <2>3. frames'[m].pos \in 1..(Len(Scenario[frames'[m].file].Steps) + 1) /\ frames'[m].pos - 1 = frames[m].pos
    <3>1. frames'[m].file = frames[m].file /\ frames'[m].pos = frames[m].pos + 1
      BY <1>7, <2>2
    <3> QED BY <1>3, <2>2, <3>1
  <2>4. Ran(frames', kept, m, frames[m].pos) = Now
    BY <1>3, <1>4, <1>8, <2>2
  <2> QED BY <1>1, <1>7, <2>1, <2>3, <2>4 DEF TopRan
<1>10. frames'[1].file = frames[1].file
  <2>1. 1 \in 1..m
    BY <1>2, <1>3
  <2> QED BY <1>7, <2>1
<1> QED BY <1>1, <1>7, <1>8, <1>9, <1>10

\* A failure goes one frame up.
LEMMA FailedReplays ==
    ASSUME IInv, IInv', ExternalStepFailed, NEW entries, Replays(frames, entries, vm),
           TopRan(frames, entries, pc, Now)
    PROVE  /\ frames' # <<>> /\ frames'[1].file = frames[1].file
           /\ \E kept : Replays(frames', kept, vm') /\ TopRan(frames', kept, pc', Now')
<1> DEFINE n == Len(frames)
           m == n - 1
<1>1. /\ pc = "fail" /\ pc' = pc /\ n > 1 /\ frames' = PopFrame /\ vm' = vm
  BY DEF ExternalStepFailed
<1>2. /\ frames \in Seq(Frame) /\ frames # <<>> /\ Nested(frames) /\ n \in Nat \ {0} /\ frames' \in Seq(Frame) /\ TypeOK
  BY <1>1, Running DEF IInv, TypeOK
<1>3. /\ m \in 1..n /\ m + 1 = n
      /\ frames[m].pos \in 1..Len(Scenario[frames[m].file].Steps)
      /\ Ran(frames, entries, m, frames[m].pos) = RunFile(Top.file, entries[n], Included[Cardinality(File) - n])
  BY <1>1, IncludedFile
<1>4. ~RunFile(Top.file, entries[n], Included[Cardinality(File) - n]).ok
  <2>1. /\ Len(Scenario[Top.file].Steps) \in Nat /\ Top = frames[n] /\ Top.file \in DOMAIN Scenario
        /\ Top.pos \in 1..Len(Scenario[Top.file].Steps) /\ entries[n] \in Executor
        /\ Included[Cardinality(File) - n] \in Effects
        /\ ~Ran(frames, entries, n, Top.pos).ok
    BY <1>1, TopReplays
  <2>2. Top.pos \in 0..Len(Scenario[Top.file].Steps)
    BY <2>1
  <2>3. ~RunSteps(Top.file, entries[n], Included[Cardinality(File) - n])[Top.pos].ok
    BY <2>1 DEF Ran
  <2> QED BY <2>1, <2>2, <2>3, StaysFailed
<1>5. /\ Len(frames') = m /\ frames' # <<>>
      /\ \A i \in 1..m : frames'[i] = frames[i]
  BY <1>1, <1>2, PoppedFrames
<1> HIDE DEF m
<1>8. PICK kept : /\ Replays(frames', kept, vm)
                  /\ \A i \in 1..m : \A k : Ran(frames', kept, i, k) = Ran(frames, entries, i, k)
  <2>1. Remain(frames', frames)
    <3>1. \A i \in 1..(m - 1) : i \in 1..m
      BY <1>2, <1>3
    <3> QED BY <1>2, <1>3, <1>5, <3>1 DEF Remain
  <2>2. \E kept : /\ Replays(frames', kept, vm)
                  /\ \A i \in 1..Len(frames') : \A k : Ran(frames', kept, i, k) = Ran(frames, entries, i, k)
    BY <2>1, ReplaysKept
  <2> QED BY <1>5, <2>2
<1>9. TopRan(frames', kept, pc', Now')
  <2>1. m \in 1..m
    BY <1>2, <1>3
  <2>2. frames'[m] = frames[m] /\ ~Ran(frames', kept, m, frames[m].pos).ok
    BY <1>3, <1>4, <1>5, <1>8, <2>1
  <2> QED BY <1>1, <1>3, <1>5, <2>2 DEF TopRan
<1>10. frames'[1].file = frames[1].file
  <2>1. 1 \in 1..m
    BY <1>2, <1>3
  <2> QED BY <1>5, <2>1
<1> QED BY <1>1, <1>5, <1>8, <1>9, <1>10

\* The call stack goes on as its top frame does, and stays on its first file.
FollowsTop ==
    \A entries : Replays(frames, entries, vm) /\ TopRan(frames, entries, pc, Now)
        => /\ frames'[1].file = frames[1].file
           /\ \E kept : Replays(frames', kept, vm') /\ TopRan(frames', kept, pc', Now')

\* While a scenario runs, the directory run stays where it is.
LEMMA WithinScenario ==
    ASSUME VerdictInv, UNCHANGED controllerVars, vm' = vm, frames # <<>>, frames' # <<>>, FollowsTop
    PROVE  OneOfTheVMs' /\ BooksKept' /\ ReplaysWalk' /\ UNCHANGED Abstract!runVars
<1>1. OneOfTheVMs'
  BY DEF VerdictInv, OneOfTheVMs
<1>2. BooksKept'
  BY DEF VerdictInv, BooksKept, controllerVars
<1>3. ReplaysWalk'
  <2> SUFFICES ASSUME walking'
               PROVE  /\ walked' \in 1..Len(Walk) /\ frames'[1].file = Walk[walked']
                      /\ Walk[walked'] \notin Excluded /\ Parses(Walk[walked'], 1)
                      /\ \E kept : Replays(frames', kept, vm') /\ TopRan(frames', kept, pc', Now')
    BY DEF ReplaysWalk
  <2>1. /\ walked \in 1..Len(Walk) /\ frames[1].file = Walk[walked]
        /\ Walk[walked] \notin Excluded /\ Parses(Walk[walked], 1)
        /\ \E entries : Replays(frames, entries, vm) /\ TopRan(frames, entries, pc, Now)
    BY DEF VerdictInv, ReplaysWalk, controllerVars
  <2>2. walked' = walked
    BY DEF controllerVars
  <2> QED BY <2>1, <2>2 DEF FollowsTop
<1>4. UNCHANGED Abstract!runVars
  BY DEF controllerVars, Abstract!runVars
<1> QED BY <1>1, <1>2, <1>3, <1>4

\* Each step of a scenario.
LEMMA StepVerdict ==
    ASSUME VerdictInv, IInv',
           ExecuteStep \/ ExecuteExternalStep \/ ExternalStepNotParsed \/ ExternalStepDone \/ ExternalStepFailed
    PROVE  OneOfTheVMs' /\ BooksKept' /\ ReplaysWalk' /\ UNCHANGED Abstract!runVars
<1> USE DEF VerdictInv
<1>1. pc \in {"run", "fail"} /\ pc' \in {"run", "fail"} /\ UNCHANGED controllerVars
  BY DEF ExecuteStep, ExecuteExternalStep, ExternalStepNotParsed, ExternalStepDone, ExternalStepFailed, HasStep
<1>2. frames # <<>> /\ vm # NoVM /\ frames \in Seq(Frame) /\ Len(frames) \in Nat \ {0}
  BY <1>1, Running
<1>3. frames' # <<>>
  BY <1>1 DEF IInv, Phases
<1>4. vm' = vm
  BY <1>2 DEF ExecuteStep, ExecuteExternalStep, ExternalStepNotParsed, ExternalStepDone, ExternalStepFailed,
              RunScenario, InitVM
<1>5. CASE ExecuteStep
  <2>1. frames' = NextStep(frames) \/ frames' = frames
    BY <1>5 DEF ExecuteStep
  <2>2. frames'[1].file = frames[1].file
    <3>1. 1 \in 1..Len(frames)
      BY <1>2
    <3> QED BY <1>2, <2>1, <3>1, SteppedFrames
  <2>3. FollowsTop
    BY <1>5, <2>2, ExecuteStepReplays DEF FollowsTop
  <2> QED BY <1>1, <1>2, <1>3, <1>4, <2>3, WithinScenario
<1>6. CASE ExecuteExternalStep
  <2>1. FollowsTop
    BY <1>6, ExternalStepReplays DEF FollowsTop
  <2> QED BY <1>1, <1>2, <1>3, <1>4, <2>1, WithinScenario
<1>7. CASE ExternalStepNotParsed
  <2>1. frames' = frames
    BY <1>7 DEF ExternalStepNotParsed
  <2>2. FollowsTop
    BY <1>7, <2>1, NotParsedReplays DEF FollowsTop
  <2> QED BY <1>1, <1>2, <1>3, <1>4, <2>2, WithinScenario
<1>8. CASE ExternalStepDone
  <2>1. FollowsTop
    BY <1>8, DoneReplays DEF FollowsTop
  <2> QED BY <1>1, <1>2, <1>3, <1>4, <2>1, WithinScenario
<1>9. CASE ExternalStepFailed
  <2>1. FollowsTop
    BY <1>9, FailedReplays DEF FollowsTop
  <2> QED BY <1>1, <1>2, <1>3, <1>4, <2>1, WithinScenario
<1> QED BY <1>5, <1>6, <1>7, <1>8, <1>9

----------------------------------------------------------------------------
(* The steps of a walk *)

\* At the beginning nothing has run.
LEMMA InitVerdicts == Init => VerdictInv /\ Abstract!Init
<1> SUFFICES ASSUME Init PROVE VerdictInv /\ Abstract!Init
  OBVIOUS
<1>1. IInv
  BY InitKeeps
<1> QED BY <1>1 DEF Init, VerdictInv, OneOfTheVMs, BooksKept, ReplaysWalk, Abstract!Init

\* The verdict of a file that is done with.
LEMMA Visited ==
    ASSUME VerdictInv, walking, walking', NEW verdict \in {"ok", "FAIL", "skip"}, Count(verdict),
           frames' = <<>>, walked' \in 1..Len(Walk), result' = result,
           walked' = IF frames = <<>> THEN walked + 1 ELSE walked,
           verdict = VerdictAlone[Walk[walked']]
    PROVE  BooksKept' /\ ReplaysWalk' /\ Abstract!Visit
<1>1. /\ Len(verdicts) = walked' - 1
      /\ counts.failed > 0 <=> \E i \in 1..Len(verdicts) : verdicts[i] = "FAIL"
      /\ TypeOK /\ walked \in Nat
  BY DEF VerdictInv, BooksKept, IInv, TypeOK
<1>2. /\ verdicts' = Append(verdicts, verdict)
      /\ Len(verdicts') = Len(verdicts) + 1
      /\ counts'.failed > 0 <=> \E i \in 1..Len(verdicts') : verdicts'[i] = "FAIL"
  BY <1>1, BooksOne
<1>3. BooksKept' /\ ReplaysWalk'
  BY <1>1, <1>2 DEF BooksKept, ReplaysWalk
<1>4. Len(verdicts) + 1 = walked' /\ Len(verdicts) < Len(Walk)
  BY <1>1, WalkAssumption
<1>5. Abstract!Visit
  BY <1>2, <1>4 DEF Abstract!Visit
<1> QED BY <1>3, <1>5

\* The next file of the walk.
LEMMA NextFile ==
    ASSUME IInv, walked < Len(Walk)
    PROVE  walked + 1 \in 1..Len(Walk) /\ Walk[walked + 1] \in File
<1>1. walked \in Nat /\ Len(Walk) \in Nat
  BY WalkAssumption DEF IInv, TypeOK
<1>2. walked + 1 \in 1..Len(Walk)
  BY <1>1
<1> QED BY <1>2, WalkAssumption

\* A file that is skipped, does not parse or gets no VM.
LEMMA WithoutRun ==
    ASSUME VerdictInv, SchedulesAgree, SkipFile \/ FailToParse \/ (StartFile /\ vm' = NoVM)
    PROVE  OneOfTheVMs' /\ BooksKept' /\ ReplaysWalk' /\ Abstract!Visit
<1> DEFINE f == Walk[walked + 1]
<1> USE DEF VerdictInv
<1>1. /\ pc = "walk" /\ walked < Len(Walk) /\ walked' = walked + 1
      /\ walking' = walking /\ result' = result
  BY DEF SkipFile, FailToParse, StartFile
<1>2. frames = <<>> /\ walking
  BY <1>1 DEF IInv, Phases
<1>3. walked + 1 \in 1..Len(Walk) /\ f \in File
  BY <1>1, NextFile
<1>4. CASE SkipFile
  <2>1. f \in Excluded /\ Count("skip") /\ frames' = frames /\ vm' = vm
    BY <1>4 DEF SkipFile
  <2>2. VerdictAlone[f] = "skip"
    BY <1>3, <2>1 DEF VerdictAlone
  <2>3. OneOfTheVMs'
    BY <2>1 DEF OneOfTheVMs
  <2> QED BY <1>1, <1>2, <1>3, <2>1, <2>2, <2>3, Visited
<1>5. CASE FailToParse
  <2>1. f \notin Excluded /\ ~Parses(f, 1) /\ Count("FAIL") /\ frames' = frames /\ vm' = vm
    BY <1>5 DEF FailToParse, CannotParse
  <2>2. VerdictAlone[f] = "FAIL"
    BY <1>3, <2>1, UnparsedFails
  <2>3. OneOfTheVMs'
    BY <2>1 DEF OneOfTheVMs
  <2> QED BY <1>1, <1>2, <1>3, <2>1, <2>2, <2>3, Visited
<1>6. CASE StartFile /\ vm' = NoVM
  <2>1. /\ f \notin Excluded /\ Parses(f, 1) /\ Count("FAIL") /\ frames' = frames
        /\ InitVM(Scenario[f].GasSchedule)
    BY <1>6 DEF StartFile, RunScenario
  <2>2. f \in DOMAIN Scenario /\ Scenario[f].GasSchedule \in GasSchedule
    BY <2>1, ScenarioAssumption DEF Parses, Scenarios
  <2>3. Scenario[f].GasSchedule \in Unavailable
    BY <1>6, <2>1, <2>2, VMAssumption DEF InitVM
  <2>4. VerdictAlone[f] = "FAIL"
    BY <1>3, <2>1, <2>3 DEF VerdictAlone, Alone
  <2>5. OneOfTheVMs'
    BY <1>6 DEF OneOfTheVMs
  <2> QED BY <1>1, <1>2, <1>3, <2>1, <2>4, <2>5, Visited
<1> QED BY <1>4, <1>5, <1>6

\* A file that is started: it has run no step yet, in an empty world.
LEMMA Started ==
    ASSUME VerdictInv, IInv', StartFile, vm' # NoVM
    PROVE  OneOfTheVMs' /\ BooksKept' /\ ReplaysWalk' /\ UNCHANGED Abstract!runVars
<1> DEFINE f == Walk[walked + 1]
           entries == [i \in 1..1 |-> Fresh(vm')]
<1> USE DEF VerdictInv
<1>1. /\ pc = "walk" /\ walked < Len(Walk) /\ walked' = walked + 1 /\ pc' = "run"
      /\ UNCHANGED <<walking, result, verdicts, counts>>
      /\ f \notin Excluded /\ Parses(f, 1) /\ World' = {} /\ checkGas' = Scenario[f].CheckGas
      /\ InitVM(Scenario[f].GasSchedule)
      /\ frames' = Append(frames, [file |-> f, pos |-> 1, backup |-> fileResolver,
                                   declared |-> Scenario[f].TraceGas \/ ForceTraceGas, included |-> FALSE])
  BY DEF StartFile, RunScenario, Reset, CheckGasOf
<1>2. frames = <<>> /\ walking
  BY <1>1 DEF IInv, Phases
<1>3. walked + 1 \in 1..Len(Walk) /\ f \in File
  BY <1>1, NextFile
<1>4. Len(frames') = 1 /\ frames'[1].file = f /\ frames'[1].pos = 1 /\ frames' # <<>>
  BY <1>1, <1>2
<1>5. f \in DOMAIN Scenario /\ Scenario[f] \in Scenarios
  BY <1>1, ScenarioAssumption DEF Parses
<1>6. OneOfTheVMs'
  <2>1. vm' \in (GasSchedule \ Unavailable) \union {NoVM}
    BY DEF IInv, TypeOK
  <2>2. vm' = vm \/ vm' = Scenario[f].GasSchedule
    BY <1>1 DEF InitVM
  <2> QED BY <1>5, <2>1, <2>2 DEF OneOfTheVMs
<1>7. BooksKept'
  <2>1. Len(verdicts') = walked /\ walked \in Nat /\ (counts'.failed > 0 <=> \E i \in 1..Len(verdicts') : verdicts'[i] = "FAIL")
    BY <1>1, <1>2 DEF BooksKept, IInv, TypeOK
  <2> QED BY <1>1, <1>4, <2>1 DEF BooksKept
<1>8. /\ Fresh(vm') \in Executor /\ Fresh(vm').ok
      /\ [Fresh(vm') EXCEPT !.checkGas = checkGas'] = Now'
  <2> DEFINE With(ok, first, gas) == [ok |-> ok, world |-> {}, checkGas |-> first, vm |-> gas]
  <2>1. vm' \in GasSchedule
    BY DEF IInv, TypeOK
  <2>2. \A ok, first, gas, check : [With(ok, first, gas) EXCEPT !.checkGas = check] = With(ok, check, gas)
    OBVIOUS
  <2>3. Fresh(vm') = With(TRUE, TRUE, vm') /\ Now' = With(TRUE, checkGas', vm')
    BY <1>1 DEF Fresh, Now
  <2>4. Fresh(vm') \in Executor /\ Fresh(vm').ok
    BY <2>1 DEF Fresh, Executor
  <2> HIDE DEF With
  <2>5. [With(TRUE, TRUE, vm') EXCEPT !.checkGas = checkGas'] = With(TRUE, checkGas', vm')
    BY <2>2
  <2>6. [Fresh(vm') EXCEPT !.checkGas = checkGas'] = Now'
    BY <2>3, <2>5, Zenon
  <2> QED BY <2>4, <2>6
<1>9. Cardinality(File) - 1 \in 0..Cardinality(File)
  <2>1. Len(frames') <= Cardinality(File) /\ Cardinality(File) \in Nat
    BY NotDeeperThanFiles DEF IInv, TypeOK, FramesFit
  <2> QED BY <1>4, <2>1
<1>10. Ran(frames', entries, 1, 0) = Now'
  <2>1. Included[Cardinality(File) - 1] \in Effects
    BY <1>9, IncludedDef
  <2>2. Runs(RunSteps(f, Fresh(vm'), Included[Cardinality(File) - 1]), f, Fresh(vm'), Included[Cardinality(File) - 1])
    BY <1>5, <1>8, <2>1, RunStepsDef
  <2>3. RunSteps(f, Fresh(vm'), Included[Cardinality(File) - 1])[0] = [Fresh(vm') EXCEPT !.checkGas = checkGas']
    BY <1>1, <2>2 DEF Runs
  <2>4. entries[1] = Fresh(vm')
    OBVIOUS
  <2> QED BY <1>4, <1>8, <2>3, <2>4 DEF Ran
<1>11. Replays(frames', entries, vm')
  <2>1. \A i \in 1..Len(frames') : entries[i] = Fresh(vm')
    BY <1>4
  <2>2. entries \in [1..Len(frames') -> Executor] /\ entries[1] = Fresh(vm')
    BY <1>4, <1>8
  <2>3. 1..(Len(frames') - 1) = {}
    BY <1>4
  <2> HIDE DEF entries
  <2> QED BY <1>8, <2>1, <2>2, <2>3 DEF Replays
<1>12. TopRan(frames', entries, pc', Now')
  <2>1. Len(Scenario[f].Steps) \in Nat
    BY <1>5 DEF Scenarios
  <2>2. frames'[1].pos \in 1..(Len(Scenario[f].Steps) + 1) /\ frames'[1].pos - 1 = 0
    BY <1>4, <2>1
  <2> HIDE DEF entries
  <2> QED BY <1>1, <1>4, <1>10, <2>2 DEF TopRan
<1>13. ReplaysWalk'
  <2>1. Walk[walked'] = f /\ walked' \in 1..Len(Walk)
    BY <1>1, <1>3
  <2> HIDE DEF entries, f
  <2>2. Parses(Walk[walked'], 1) /\ Walk[walked'] \notin Excluded
    BY <1>1, <2>1
  <2> QED BY <1>4, <1>11, <1>12, <2>1, <2>2 DEF ReplaysWalk
<1>14. UNCHANGED Abstract!runVars
  BY <1>1 DEF Abstract!runVars
<1> QED BY <1>6, <1>7, <1>13, <1>14

\* The outermost file of a walk is done: it passes as it would on its own.
LEMMA OutermostVerdict ==
    ASSUME VerdictInv, SchedulesAgree, walking, ScenarioDone
    PROVE  VerdictAlone[Walk[walked]] = IF pc = "fail" THEN "FAIL" ELSE "ok"
<1> DEFINE f == Walk[walked]
           included == Included[Cardinality(File) - 1]
           L == Len(Scenario[f].Steps)
<1> USE DEF VerdictInv
<1>1. /\ Len(frames) = 1 /\ pc \in {"run", "fail"}
      /\ pc = "run" => Top.pos > Len(Scenario[Top.file].Steps)
  BY DEF ScenarioDone
<1>2. frames # <<>> /\ vm # NoVM /\ TypeOK /\ Top = frames[1]
  BY <1>1, Running
<1>3. /\ walked \in 1..Len(Walk) /\ frames[1].file = f /\ f \notin Excluded /\ Parses(f, 1)
  BY <1>2 DEF ReplaysWalk
<1>4. PICK entries : Replays(frames, entries, vm) /\ TopRan(frames, entries, pc, Now)
  BY <1>2 DEF ReplaysWalk
<1>5. f \in File
  BY <1>3, WalkAssumption
<1>6. VerdictAlone[f] = IF Passes(f, vm) THEN "ok" ELSE "FAIL"
  BY <1>2, <1>3, <1>5, VerdictUnder
<1>7. entries[1] = Fresh(vm)
  BY <1>4 DEF Replays
<1>8. /\ L \in Nat /\ entries[1] \in Executor /\ included \in Effects /\ f \in DOMAIN Scenario
      /\ pc = "run" => Top.pos \in 1..(L + 1) /\ Ran(frames, entries, 1, Top.pos - 1) = Now
      /\ pc = "fail" => Top.pos \in 1..L /\ ~Ran(frames, entries, 1, Top.pos).ok
  BY <1>1, <1>2, <1>3, <1>4, TopReplays
<1> HIDE DEF f, included
<1>9. \A n : Ran(frames, entries, 1, n) = RunSteps(f, Fresh(vm), included)[n]
  BY <1>3, <1>7 DEF Ran, included
<1>10. Passes(f, vm) <=> RunFile(f, Fresh(vm), included).ok
  BY DEF Passes, included
<1>11. CASE pc = "run"
  <2>1. Top.pos - 1 = L
    BY <1>1, <1>2, <1>3, <1>8, <1>11
  <2>2. RunSteps(f, Fresh(vm), included)[L] = Now
    BY <1>8, <1>9, <1>11, <2>1
  <2>3. RunFile(f, Fresh(vm), included).ok
    BY <2>2 DEF RunFile, Now
  <2> QED BY <1>6, <1>10, <1>11, <2>3 DEF f
<1>12. CASE pc = "fail"
  <2>1. Top.pos \in 0..L /\ ~RunSteps(f, Fresh(vm), included)[Top.pos].ok
    BY <1>8, <1>9, <1>12
  <2>2. ~RunFile(f, Fresh(vm), included).ok
    BY <1>7, <1>8, <2>1, StaysFailed
  <2> QED BY <1>6, <1>10, <1>12, <2>2 DEF f
<1> QED BY <1>1, <1>11, <1>12

\* A scenario that is done is the next verdict of a walk, or the result of a call of its own.
LEMMA DoneVerdict ==
    ASSUME VerdictInv, SchedulesAgree, ScenarioDone
    PROVE  OneOfTheVMs' /\ BooksKept' /\ ReplaysWalk' /\ (Abstract!Visit \/ Abstract!RunOther)
<1> USE DEF VerdictInv
<1>1. /\ pc \in {"run", "fail"} /\ frames' = <<>> /\ vm' = vm
      /\ walking' = walking /\ walked' = walked
  BY DEF ScenarioDone
<1>2. frames # <<>> /\ walking \in BOOLEAN
  BY <1>1, Running DEF TypeOK
<1>3. OneOfTheVMs'
  BY <1>1 DEF OneOfTheVMs
<1>4. CASE walking
  <2>1. Count(IF pc = "fail" THEN "FAIL" ELSE "ok") /\ result' = result
    BY <1>4 DEF ScenarioDone
  <2>2. VerdictAlone[Walk[walked]] = IF pc = "fail" THEN "FAIL" ELSE "ok"
    BY <1>4, OutermostVerdict
  <2>3. walked \in 1..Len(Walk)
    BY <1>2, <1>4 DEF ReplaysWalk
  <2>4. BooksKept' /\ ReplaysWalk' /\ Abstract!Visit
    <3> DEFINE verdict == IF pc = "fail" THEN "FAIL" ELSE "ok"
    <3>1. verdict \in {"ok", "FAIL", "skip"} /\ Count(verdict) /\ verdict = VerdictAlone[Walk[walked']]
      BY <1>1, <2>1, <2>2
    <3> HIDE DEF verdict
    <3> QED BY <1>1, <1>2, <1>4, <2>1, <2>3, <3>1, Visited
  <2> QED BY <1>3, <2>4
<1>5. CASE ~walking
  <2>1. result' \in {"ok", "error"} /\ verdicts' = verdicts
    BY <1>5 DEF ScenarioDone
  <2>2. BooksKept' /\ ReplaysWalk'
    BY <1>1, <1>5 DEF BooksKept, ReplaysWalk
  <2>3. Abstract!RunOther
    BY <1>1, <1>5, <2>1 DEF Abstract!RunOther
  <2> QED BY <1>3, <2>2, <2>3
<1> QED BY <1>2, <1>4, <1>5

\* A directory run begins.
LEMMA BeginVerdict ==
    ASSUME VerdictInv, RunDirectory
    PROVE  OneOfTheVMs' /\ BooksKept' /\ ReplaysWalk' /\ Abstract!Start
<1> USE DEF VerdictInv
<1>1. /\ pc = "idle" /\ walking' /\ walked' = 0 /\ verdicts' = <<>> /\ result' = "none"
      /\ counts'.failed = 0 /\ frames' = frames /\ vm' = vm /\ walking' = TRUE
  BY DEF RunDirectory, ZeroCounts
<1>2. frames = <<>> /\ ~walking /\ walking \in BOOLEAN
  BY <1>1 DEF IInv, Phases, TypeOK
<1>3. OneOfTheVMs'
  BY <1>1 DEF OneOfTheVMs
<1>4. Len(verdicts') = 0 /\ ~ \E i \in 1..Len(verdicts') : verdicts'[i] = "FAIL"
  BY <1>1
<1>5. BooksKept' /\ ReplaysWalk'
  BY <1>1, <1>2, <1>4 DEF BooksKept, ReplaysWalk
<1>6. Abstract!Start
  BY <1>1, <1>2 DEF Abstract!Start
<1> QED BY <1>3, <1>5, <1>6

\* A directory run ends: it failed if one of its files did.
LEMMA EndVerdict ==
    ASSUME VerdictInv, DirectoryDone
    PROVE  OneOfTheVMs' /\ BooksKept' /\ ReplaysWalk' /\ Abstract!Finish
<1> USE DEF VerdictInv
<1>1. /\ pc = "walk" /\ walked = Len(Walk) /\ walking' = FALSE
      /\ result' = IF counts.failed > 0 THEN "error" ELSE "ok"
      /\ verdicts' = verdicts /\ vm' = vm
  BY DEF DirectoryDone
<1>2. frames = <<>> /\ walking
  BY <1>1 DEF IInv, Phases
<1>3. OneOfTheVMs'
  BY <1>1 DEF OneOfTheVMs
<1>4. BooksKept' /\ ReplaysWalk'
  BY <1>1 DEF BooksKept, ReplaysWalk
<1>5. /\ Len(verdicts) = Len(Walk)
      /\ counts.failed > 0 <=> \E i \in 1..Len(verdicts) : verdicts[i] = "FAIL"
  BY <1>1, <1>2 DEF BooksKept
<1>6. Abstract!Finish
  BY <1>1, <1>2, <1>5 DEF Abstract!Finish
<1> QED BY <1>3, <1>4, <1>6

\* Between directory runs one scenario is started.
LEMMA SingleVerdict ==
    ASSUME VerdictInv, IInv', NEW f \in File, RunSingle(f)
    PROVE  OneOfTheVMs' /\ BooksKept' /\ ReplaysWalk' /\ Abstract!RunOther
<1> USE DEF VerdictInv
<1>1. pc = "idle" /\ UNCHANGED <<walking, verdicts>> /\ result' \in {"none", "error"}
  BY DEF RunSingle
<1>2. ~walking /\ ~walking'
  BY <1>1 DEF IInv, Phases
<1>3. OneOfTheVMs'
  <2>1. CASE vm' = vm
    BY <2>1 DEF OneOfTheVMs
  <2>2. CASE vm' # vm
    <3>1. Parses(f, 1) /\ InitVM(Scenario[f].GasSchedule)
      BY <2>2 DEF RunSingle, RunScenario
    <3>2. f \in DOMAIN Scenario /\ vm' = Scenario[f].GasSchedule /\ vm' \notin Unavailable
      BY <2>2, <3>1 DEF Parses, InitVM
    <3> QED BY <3>2 DEF OneOfTheVMs
  <2> QED BY <2>1, <2>2
<1>4. BooksKept' /\ ReplaysWalk'
  BY <1>2 DEF BooksKept, ReplaysWalk
<1>5. Abstract!RunOther
  BY <1>1, <1>2 DEF Abstract!RunOther
<1> QED BY <1>3, <1>4, <1>5

\* Nothing happens.
LEMMA VerdictStutter ==
    ASSUME VerdictInv, UNCHANGED vars
    PROVE  OneOfTheVMs' /\ BooksKept' /\ ReplaysWalk' /\ UNCHANGED Abstract!runVars
<1> USE DEF VerdictInv
<1>1. /\ pc' = pc /\ walking' = walking /\ walked' = walked /\ counts' = counts
      /\ verdicts' = verdicts /\ result' = result /\ frames' = frames
      /\ checkGas' = checkGas /\ vm' = vm /\ World' = World
  BY DEF vars
<1>2. Now' = Now
  BY <1>1 DEF Now
<1>3. OneOfTheVMs' /\ BooksKept'
  BY <1>1 DEF OneOfTheVMs, BooksKept
<1>4. ReplaysWalk'
  BY <1>1, <1>2 DEF ReplaysWalk
<1>5. UNCHANGED Abstract!runVars
  BY <1>1 DEF Abstract!runVars
<1> QED BY <1>3, <1>4, <1>5

\* Every step of the controller and the executor is a step of the directory run or none.
LEMMA VerdictSteps ==
    ASSUME SchedulesAgree, VerdictInv, [Next]_vars
    PROVE  VerdictInv' /\ [Abstract!Next]_(Abstract!runVars)
<1>1. IInv'
  BY NextKeeps DEF VerdictInv
<1>2. SUFFICES OneOfTheVMs' /\ BooksKept' /\ ReplaysWalk' /\ [Abstract!Next]_(Abstract!runVars)
  BY <1>1 DEF VerdictInv
<1>3. CASE UNCHANGED vars
  BY <1>3, VerdictStutter
<1>4. CASE SkipFile \/ FailToParse \/ (StartFile /\ vm' = NoVM)
  BY <1>4, WithoutRun DEF Abstract!Next
<1>5. CASE StartFile /\ vm' # NoVM
  BY <1>1, <1>5, Started
<1>6. CASE RunDirectory
  BY <1>6, BeginVerdict DEF Abstract!Next
<1>7. CASE DirectoryDone
  BY <1>7, EndVerdict DEF Abstract!Next
<1>8. CASE \E f \in File : RunSingle(f)
  BY <1>1, <1>8, SingleVerdict DEF Abstract!Next
<1>9. CASE ExecuteStep \/ ExecuteExternalStep \/ ExternalStepNotParsed \/ ExternalStepDone \/ ExternalStepFailed
  BY <1>1, <1>9, StepVerdict
<1>10. CASE ScenarioDone
  BY <1>10, DoneVerdict DEF Abstract!Next
<1> QED BY <1>3, <1>4, <1>5, <1>6, <1>7, <1>8, <1>9, <1>10 DEF Next

\* A directory run gives each file the verdict it has on its own, whatever the executor
\* ran before, if the scenarios agree on the gas schedule.
THEOREM DirectoryIsImplemented == SchedulesAgree /\ Spec => ImplementsDirectoryRun
<1> SUFFICES ASSUME SchedulesAgree PROVE Spec => ImplementsDirectoryRun
  OBVIOUS
<1>1. Init => VerdictInv /\ Abstract!Init
  BY InitVerdicts
<1>2. VerdictInv /\ [Next]_vars => VerdictInv' /\ [Abstract!Next]_(Abstract!runVars)
  BY VerdictSteps
<1> QED BY <1>1, <1>2, PTL DEF Spec, ImplementsDirectoryRun, Abstract!Spec
=============================================================================

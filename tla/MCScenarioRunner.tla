-------------------------- MODULE MCScenarioRunner --------------------------
(***************************************************************************)
(* Small instances of ScenarioRunner: scenarios (a, b, c, d), one whose    *)
(* gas schedule cannot be provided and that fails with any other (v), one  *)
(* that is excluded (e), one that does not parse (broken), and files that  *)
(* are only external steps (s1, s2, s3).  Files s1 and s2 are used by      *)
(* several scenarios; a and b nest external steps two deep.  File c names  *)
(* a missing file, which it may on its own, but not as a part of d.        *)
(***************************************************************************)
EXTENDS DirectoryVerdicts

MCFile == {"a", "b", "c", "d", "e", "v", "broken", "s1", "s2", "s3"}
MCWalk == <<"v", "a", "b", "broken", "c", "d", "e">>

Set(ms, fails) == [kind |-> "setState", writes |-> ms, fails |-> fails, gasUnder |-> AnyGas]
Tx(ms, gas, fails) == [kind |-> "tx", writes |-> ms, fails |-> fails, gasUnder |-> gas]
Check(ms) == [kind |-> "checkState", expects |-> ms]
Ext(f, trace) == [kind |-> "externalSteps", path |-> f, TraceGas |-> trace]

Scen(check, trace, gas, steps) ==
    [CheckGas |-> check, TraceGas |-> trace, GasSchedule |-> gas, Steps |-> steps]

\* s1 does not check gas, and s2, which it includes, does.
Content(f) ==
    CASE f = "a"  -> Scen(TRUE, TRUE, "default",
                          <<Set({"m1"}, FALSE), Ext("s1", "false"), Tx({}, "default", FALSE),
                            Check({"m1", "m2"})>>)
      [] f = "b"  -> Scen(TRUE, FALSE, "default",
                          <<Set({"m1"}, FALSE), Ext("s1", "undefined"), Ext("s3", "true"),
                            Check({"m1"})>>)
      [] f = "c"  -> Scen(FALSE, TRUE, "default",
                          <<Check({}), Tx({"m1"}, "v3", FALSE), Ext("s2", "undefined")>>)
      [] f = "d"  -> Scen(TRUE, FALSE, "default", <<Ext("c", "true")>>)
      [] f = "e"  -> Scen(TRUE, FALSE, "default", <<Check({"m2"})>>)
      [] f = "v"  -> Scen(TRUE, TRUE, "v4", <<Set({"m2"}, TRUE)>>)
      [] f = "s1" -> Scen(FALSE, TRUE, "default",
                          <<Tx({"m2"}, "v3", FALSE), Ext("s2", "true")>>)
      [] f = "s2" -> Scen(TRUE, FALSE, "default", <<Tx({}, AnyGas, FALSE)>>)
      [] f = "s3" -> Scen(TRUE, FALSE, "default", <<Tx({"m2"}, AnyGas, TRUE)>>)

MCScenario == [f \in MCFile \ {"broken"} |-> Content(f)]

\* The schedule of v cannot be provided; all others have the same.
ASSUME MCSchedules == SchedulesAgree
=============================================================================

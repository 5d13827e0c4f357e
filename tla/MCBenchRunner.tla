--------------------------- MODULE MCBenchRunner ----------------------------
(***************************************************************************)
(* Small experiments for BenchRunner: a spec file, what it says after an   *)
(* edit that gives one of its arms to the other harness, and one that names*)
(* an arm twice and is not valid.                                          *)
(***************************************************************************)
EXTENDS BenchRunner

CONSTANTS a, b

Arm(name, harness) == [name |-> name, harness |-> harness]

Before == [arms |-> <<Arm(a, "claude_code"), Arm(b, "opencode")>>, trials |-> 0]
Edited == [arms |-> <<Arm(a, "opencode")>>, trials |-> 1]
Twice  == [arms |-> <<Arm(a, "claude_code"), Arm(a, "opencode")>>, trials |-> 1]

ThreeFiles == {Before, Edited, Twice}
AllOrB     == {NoFlags, [arm |-> b, trials |-> 0]}
=============================================================================

----------------------------- MODULE MCTelemetry ------------------------------
(***************************************************************************)
(* A small exporter for Telemetry.                                         *)
(***************************************************************************)
EXTENDS Telemetry, TLC

AnySeries == Permutations(Series)
=============================================================================

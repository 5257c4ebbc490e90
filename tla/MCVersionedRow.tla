--------------------------- MODULE MCVersionedRow ---------------------------
(***************************************************************************)
(* VersionedRow for TLC: workers are interchangeable.                      *)
(***************************************************************************)
EXTENDS VersionedRow, TLC

\* Workers appear in no property by name, and no liveness is checked here.
WorkerSymmetry == Permutations(Worker)
=============================================================================

--------------------------- MODULE MCReportQueue ---------------------------
(* Model values and symmetry for the runs of ReportQueue.                   *)
EXTENDS ReportQueue, TLC

\* Workers are interchangeable: no action or invariant names one of them.
WorkerSymmetry == Permutations(Workers)

=============================================================================

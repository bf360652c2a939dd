---------------------------- MODULE MCReportApi ----------------------------
(* Model values and symmetry for the run of ReportApi.                      *)
EXTENDS ReportApi, TLC

\* Workers are interchangeable, for the clients too.
WorkerSymmetry == Permutations(Workers)

=============================================================================

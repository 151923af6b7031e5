--------------------------- MODULE MCDiscoveryJobs ---------------------------
(***************************************************************************)
(* DiscoveryJobs on small instances: see the .cfg files.                   *)
(***************************************************************************)
EXTENDS DiscoveryJobs, TLC

\* One column at a time: turn into a one-time job, switch off, drop the
\* organization.
MCUpdates ==
    LET nothing == [interval |-> None, enabled |-> None, org |-> None]
    IN  {[nothing EXCEPT !.interval = 0], [nothing EXCEPT !.enabled = FALSE],
         [nothing EXCEPT !.org = FALSE]}

\* Scanners do the same things.
ScannerSymmetry == Permutations(Scanners)
=============================================================================

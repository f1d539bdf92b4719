------------------------ MODULE MCPlaybookScheduler ------------------------
(* Instances of PlaybookScheduler for TLC.                                 *)
EXTENDS PlaybookScheduler, TLC

CONSTANTS p1, p2, s1, s2

\* "*/10 * * * *": one fire in a period of ten minutes.
EveryTenMinutes == [s \in Schedule |-> {0}]

Symmetry == Permutations(Scheduler)

=============================================================================

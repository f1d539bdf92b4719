--------------------------- MODULE MCSourceSync ---------------------------
(* Instances of SourceSync for TLC.                                        *)
EXTENDS SourceSync

CONSTANTS repo, t1, t2

\* A pull alone is what the old route does.
PushOrBoth == [s \in Source |-> {"push", "both"}]

=============================================================================

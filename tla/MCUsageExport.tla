--------------------------- MODULE MCUsageExport ---------------------------
(***************************************************************************)
(* Model values for UsageExport: calls of the replica the consumer asks, and *)
(* one of another.  The server's backlog outlasts the lag, the other's does  *)
(* not.                                                                     *)
(***************************************************************************)
EXTENDS UsageExport

CONSTANTS near1, near2, far, here, there

ThreeCalls == {near1, near2, far}
NearCalls  == {near1, near2}
ReplicaSet == {here, there}
HomeOf     == [c \in Calls |-> IF c = far THEN there ELSE here]
BacklogOf  == [r \in Replicas |-> IF r = here THEN Lag + 1 ELSE Lag]
=============================================================================

--------------------------- MODULE MCSharedStore ---------------------------
(* Values for the constants of SharedStore: an old and a new binary, a     *)
(* budget that two calls use up.                                           *)
EXTENDS SharedStore

SomeDaemons == {"old", "new"}
\* Two instances of one release.
OneVersion  == [d \in SomeDaemons |-> 1]
Versions    == [d \in SomeDaemons |-> IF d = "old" THEN 1 ELSE 2]
TwoCalls    == [tokens |-> 0, dollars |-> 2, loops |-> 3, seconds |-> 0]
Dollar      == [tokens |-> 0, dollars |-> 1]
OneDollar   == {Dollar}
=============================================================================

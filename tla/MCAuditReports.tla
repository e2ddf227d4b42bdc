--------------------------- MODULE MCAuditReports ---------------------------
(* Values for the constants of AuditReports: one run with a name and one   *)
(* without, and a model whose calls cost two dollars.                      *)
EXTENDS AuditReports

OneNamed == [r \in Runs |-> IF r = "r1" THEN "team" ELSE Null]
AllOfR1 == [c \in Calls |-> "r1"]
TwoDollars == [large |-> 2]
=============================================================================

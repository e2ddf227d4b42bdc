--------------------------- MODULE MCApprovalGate ---------------------------
(***************************************************************************)
(* Values for the constants of ApprovalGate: a tool with side effects, a   *)
(* read-only tool and a tool outside every allowlist.                      *)
(***************************************************************************)
EXTENDS ApprovalGate

\* The bundle names the read-only tool, adding a requirement the global policy
\* does not have.
NamesSearch == [allow |-> {{"shell"}, {"search"}}, tools |-> {"search"}, effects |-> {}]
AllowShellSearch == {{"shell", "search"}}
\* No allowlist: every tool may be called.
AllowAll == {}
=============================================================================

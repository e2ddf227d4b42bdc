--------------------------- MODULE SideEffectGate ---------------------------
(***************************************************************************)
(* What the approval gate promises, with nothing said about how: every     *)
(* tool call gets at most one verdict, a verdict is never revised, and a   *)
(* side effect happens only under a favourable one.  ApprovalGate is shown *)
(* to implement this.                                                      *)
(***************************************************************************)
CONSTANT Calls

VARIABLES
    verdict,   \* verdict[c]: "open" until the policy or a human settles it
    done       \* calls whose side effect happened

Favourable == {"approved", "exempt"}

Init == verdict = [c \in Calls |-> "open"] /\ done = {}

Settle(c) ==
    /\ verdict[c] = "open"
    /\ \E v \in Favourable \cup {"denied"} : verdict' = [verdict EXCEPT ![c] = v]
    /\ UNCHANGED done

Execute(c) ==
    /\ verdict[c] \in Favourable
    /\ done' = done \cup {c}
    /\ UNCHANGED verdict

Next == \E c \in Calls : Settle(c) \/ Execute(c)

Spec == Init /\ [][Next]_<<verdict, done>>
=============================================================================

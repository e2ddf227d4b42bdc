--------------------------- MODULE MCGovernedRun ---------------------------
(***************************************************************************)
(* Values for the constants of GovernedRun.  A call costs one or two units *)
(* so that a budget can be met exactly and overshot; budgets are small     *)
(* enough that every dimension can run out within MaxRequests.             *)
(***************************************************************************)
EXTENDS GovernedRun, TLC

Limits(t, d, l, s) == [tokens |-> t, dollars |-> d, loops |-> l, seconds |-> s]
Cost(t, d) == [tokens |-> t, dollars |-> d]

\* Every limit: three tokens, two dollars, two iterations, one unit of time.
AllLimits == Limits(3, 2, 2, 1)
\* Three tokens and two dollars, and an iteration for every request, so that a
\* third call can overshoot what two calls at once may.
Spending == Limits(3, 2, 3, 0)
\* Only a time limit.
TimeOnly == Limits(0, 0, 0, 1)

OneCost  == {Cost(1, 1)}
\* One uses up the dollars first, the other the tokens.
TwoCosts == {Cost(1, 2), Cost(2, 1)}
MaxOne == Cost(1, 1)
MaxTwo == Cost(2, 2)

ClientSymmetry == Permutations(Clients)
=============================================================================

------------------------------ MODULE Governor ------------------------------
(***************************************************************************)
(* The deterministic disposer, internal/governor: the accounting and the   *)
(* halt rules of one governed run, as operators from the run's live state  *)
(* to its next one.  Every method of governor.Run holds r.mu from its      *)
(* first line to its last, so each is one atomic operator here; the        *)
(* modules that use them decide who calls them and in which order.         *)
(*                                                                         *)
(* A live run is a record                                                  *)
(*   tokens, dollars, loops   the Usage spent so far (prompt and           *)
(*                            completion tokens are only ever summed;      *)
(*                            money is counted in an integral unit)        *)
(*   halted                   the HaltReason, HaltNone while running       *)
(*   elapsed                  logical time since startedAt                 *)
(*   ctxDone                  whether the run's Context is cancelled       *)
(* A guard method returns a *HaltError exactly when the run it leaves      *)
(* behind is halted, so the error is read off the result.                  *)
(***************************************************************************)
EXTENDS Integers

CONSTANT Budget   \* the run's hard limits; 0 is "unlimited" in each field

ASSUME BudgetAssumption ==
    Budget \in [tokens : Nat, dollars : Nat, loops : Nat, seconds : Nat]

HaltNone         == ""
HaltTokenBudget  == "token_budget_exceeded"
HaltDollarBudget == "dollar_budget_exceeded"
HaltLoopBudget   == "loop_budget_exceeded"
HaltTimeBudget   == "time_budget_exceeded"
HaltCancelled    == "cancelled"

HaltReasons == {HaltTokenBudget, HaltDollarBudget, HaltLoopBudget,
                HaltTimeBudget, HaltCancelled}

LiveRuns == [tokens : Nat, dollars : Nat, loops : Nat,
             halted : HaltReasons \cup {HaltNone},
             elapsed : Nat, ctxDone : BOOLEAN]

----------------------------------------------------------------------------
\* expiredLocked
Expired(g) == Budget.seconds > 0 /\ g.elapsed >= Budget.seconds

\* Mutant of HaltLocked: the last reason wins.
HaltLockedLastWins(g, reason) == [g EXCEPT !.halted = reason, !.ctxDone = TRUE]

\* haltLocked: the first reason wins, and the kill switch fires with it.
HaltLocked(g, reason) ==
    IF g.halted = HaltNone
    THEN [g EXCEPT !.halted = reason, !.ctxDone = TRUE]
    ELSE g

\* Mutant of Breach: a budget may be met exactly.
BreachPastBudget(g) ==
    IF Expired(g) THEN HaltTimeBudget
    ELSE IF Budget.tokens > 0 /\ g.tokens > Budget.tokens THEN HaltTokenBudget
    ELSE IF Budget.dollars > 0 /\ g.dollars > Budget.dollars THEN HaltDollarBudget
    ELSE HaltNone

\* The dimension checkLocked would halt on.  The loop budget is deliberately
\* not one of them.
Breach(g) ==
    IF Expired(g) THEN HaltTimeBudget
    ELSE IF Budget.tokens > 0 /\ g.tokens >= Budget.tokens THEN HaltTokenBudget
    ELSE IF Budget.dollars > 0 /\ g.dollars >= Budget.dollars THEN HaltDollarBudget
    ELSE HaltNone

\* checkLocked
CheckLocked(g) ==
    IF g.halted = HaltNone /\ Breach(g) # HaltNone
    THEN HaltLocked(g, Breach(g))
    ELSE g

\* Mutant of PreStep: compares the iterations done instead of the one to come.
PreStepOffByOne(g) ==
    IF g.halted # HaltNone THEN g
    ELSE IF Expired(g) THEN HaltLocked(g, HaltTimeBudget)
    ELSE IF Budget.loops > 0 /\ g.loops > Budget.loops THEN HaltLocked(g, HaltLoopBudget)
    ELSE [g EXCEPT !.loops = @ + 1]

\* PreStep: admit one more loop iteration, or halt.
PreStep(g) ==
    IF g.halted # HaltNone THEN g
    ELSE IF Expired(g) THEN HaltLocked(g, HaltTimeBudget)
    ELSE IF Budget.loops > 0 /\ g.loops + 1 > Budget.loops
         THEN HaltLocked(g, HaltLoopBudget)
    ELSE [g EXCEPT !.loops = @ + 1]

\* CanProceed: the hard ceiling immediately before a call.
CanProceed(g) == CheckLocked(g)

\* Mutant of RecordUsage: a halted run is not charged any more.
RecordUsageWhileRunning(g, cost) ==
    IF g.halted # HaltNone THEN g
    ELSE CheckLocked([g EXCEPT !.tokens = @ + cost.tokens, !.dollars = @ + cost.dollars])

\* RecordUsage: charge a completed call (a halted run is charged too), then
\* re-evaluate the budgets.
RecordUsage(g, cost) ==
    CheckLocked([g EXCEPT !.tokens = @ + cost.tokens, !.dollars = @ + cost.dollars])

\* Cancel: the external kill switch.
Cancel(g) == HaltLocked(g, HaltCancelled)

\* New without options: a run that has spent nothing, its clock just started.
NewRun == [tokens |-> 0, dollars |-> 0, loops |-> 0,
           halted |-> HaltNone, elapsed |-> 0, ctxDone |-> FALSE]

\* Mutant of RestoredRun: WithRestoredUsage is forgotten.
RestoredRunFresh(u, reason) ==
    [NewRun EXCEPT !.halted = reason, !.ctxDone = reason # HaltNone]

\* New with WithRestoredUsage(u) and WithRestoredHalt(reason): the clock
\* restarts, and a run restored as halted has its Context cancelled at once.
RestoredRun(u, reason) ==
    [NewRun EXCEPT !.tokens = u.tokens, !.dollars = u.dollars, !.loops = u.loops,
                   !.halted = reason, !.ctxDone = reason # HaltNone]
=============================================================================

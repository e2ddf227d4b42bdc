----------------------------- MODULE RunRecords -----------------------------
(***************************************************************************)
(* What the manager (internal/runs) writes of a run and how it rebuilds a  *)
(* live run from it: the runs row, the checkpoint, the charge of a call,   *)
(* and reloadRun's choice between row and checkpoint.                      *)
(***************************************************************************)
EXTENDS Governor

CONSTANT Nil      \* no run, no row, no checkpoint

Charges  == [tokens : Nat, dollars : Nat]
NoCharge == [tokens |-> 0, dollars |-> 0]

Add(s, t) == [tokens |-> s.tokens + t.tokens, dollars |-> s.dollars + t.dollars]

Rows == [status : {"running", "halted", "cancelled"},
         halted : HaltReasons \cup {HaltNone},
         tokens : Nat, dollars : Nat, loops : Nat]
Checkpoints == [tokens : Nat, dollars : Nat, loops : Nat]

\* Mutant of StatusFor: the halt reason is stored as the status.
StatusForRaw(h) == IF h = HaltNone THEN "running" ELSE h

StatusFor(h) == IF h = HaltNone THEN "running"
                ELSE IF h = HaltCancelled THEN "cancelled" ELSE "halted"

\* Run.record: one Status() call, so usage and halt reason belong together.
Record(g) == [status |-> StatusFor(g.halted), halted |-> g.halted,
              tokens |-> g.tokens, dollars |-> g.dollars, loops |-> g.loops]

Snapshot(g) == [tokens |-> g.tokens, dollars |-> g.dollars, loops |-> g.loops]

Terminal(rec) == rec.status \in {"halted", "cancelled"}

\* Mutant of Reconciled: the checkpoint is added to the row.
ReconciledSum(rec, latest) ==
    IF ~Terminal(rec) /\ latest # Nil /\ latest.loops < rec.loops
    THEN [rec EXCEPT !.tokens = @ + latest.tokens, !.dollars = @ + latest.dollars,
                     !.loops = latest.loops]
    ELSE rec

\* reloadRun's choice of usage: a live row that is ahead of the latest
\* checkpoint is rolled back to it.
Reconciled(rec, latest) ==
    IF ~Terminal(rec) /\ latest # Nil /\ latest.loops < rec.loops
    THEN [rec EXCEPT !.tokens = latest.tokens, !.dollars = latest.dollars, !.loops = latest.loops]
    ELSE rec

\* Mutant of Reloaded: WithRestoredHalt is forgotten.
ReloadedWithoutHalt(rec) == RestoredRun(rec, HaltNone)

\* The live run reloadRun builds from a reconciled record.
Reloaded(rec) == RestoredRun(rec, IF Terminal(rec) THEN rec.halted ELSE HaltNone)
=============================================================================

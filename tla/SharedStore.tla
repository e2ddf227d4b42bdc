----------------------------- MODULE SharedStore -----------------------------
(***************************************************************************)
(* Several daemons over one Postgres database (internal/storage/           *)
(* postgres.go): their start, with the schema check, the migrations and    *)
(* the reload of running runs, and then one run that is sent to more than  *)
(* one of them.  Each daemon keeps its own live copy of the run and writes *)
(* it through to the one row they share.                                   *)
(*                                                                         *)
(* What the requests of one daemon do to each other is GovernedRun's; here *)
(* a daemon serves one at a time, so what it does in memory is one step    *)
(* with the statement that follows.  There is no time budget.  Any store   *)
(* statement may fail: a daemon that starts exits, one that serves goes on *)
(* (persistence is best effort).                                           *)
(***************************************************************************)
EXTENDS RunRecords, FiniteSets

CONSTANTS
    Daemons,       \* instances pointed at the database
    Binary,        \* Binary[d]: the newest migration embedded in d's binary
    Costs,         \* what a provider call can cost: a set of [tokens, dollars]
    MaxCost,       \* an upper bound of Costs
    MaxBoots,      \* bound: process starts in a behaviour
    MaxCrashes,    \* bound: SIGKILLs
    MaxRequests,   \* bound: requests in a behaviour
    MaxFaults      \* bound: store statements that fail

ASSUME SharedAssumption ==
    /\ IsFiniteSet(Daemons) /\ Daemons # {}
    /\ Binary \in [Daemons -> Nat]
    /\ Costs \subseteq Charges /\ MaxCost \in Charges
    /\ \A k \in Costs : k.tokens <= MaxCost.tokens /\ k.dollars <= MaxCost.dollars
    /\ MaxBoots \in Nat /\ MaxCrashes \in Nat /\ MaxRequests \in Nat /\ MaxFaults \in Nat
    /\ Budget.seconds = 0
    /\ Nil \notin LiveRuns /\ Nil \notin Rows /\ Nil \notin Checkpoints

VARIABLES
    node,      \* node[d]: the daemon process d
    version,   \* the schema version of the database
    row,       \* the runs row, or Nil
    cp,        \* the checkpoint with the largest id, or Nil
    ledger,    \* the sum of the cost_ledger entries
    metered,   \* history: everything passed to RecordUsage, in any daemon
    shared,    \* history: two daemons have had a copy of the run at once
    boots, crashes, requests, faults

store  == <<version, row, cp, ledger>>
counts == <<boots, crashes, requests>>
vars   == <<node, store, metered, shared, counts, faults>>

BootPCs    == {"check", "pending", "apply", "list"}
ReloadPCs  == {"reload", "rollback", "register"}       \* of a boot or of a request
RequestPCs == {"restore", "mint", "begin", "ceiling", "inflight", "ledger", "upsert", "checkpoint"}
ExitPCs    == {"down", "refused", "failed"}

Stopped == [pc |-> "down", op |-> "none", want |-> 0, run |-> Nil, snap |-> Nil, cost |-> NoCharge]

NodePCs == BootPCs \cup ReloadPCs \cup RequestPCs \cup ExitPCs \cup {"idle"}

Nodes == [pc : NodePCs, op : {"none", "boot", "chat"}, want : Nat,
          run : LiveRuns \cup {Nil}, snap : Rows \cup {Nil}, cost : Charges]

TypeOK ==
    /\ node \in [Daemons -> Nodes]
    /\ version \in Nat
    /\ row \in Rows \cup {Nil} /\ cp \in Checkpoints \cup {Nil}
    /\ ledger \in Charges /\ metered \in Charges /\ shared \in BOOLEAN
    /\ boots \in Nat /\ crashes \in Nat /\ requests \in Nat /\ faults \in Nat

Init ==
    /\ node = [d \in Daemons |-> Stopped]
    /\ version = 0 /\ row = Nil /\ cp = Nil
    /\ ledger = NoCharge /\ metered = NoCharge /\ shared = FALSE
    /\ boots = 0 /\ crashes = 0 /\ requests = 0 /\ faults = 0

At(d, pc)   == node[d].pc = pc
Goto(d, pc) == node' = [node EXCEPT ![d].pc = pc]

\* The daemons that have a copy of the run, or have read the row to make one.
Copies(n) == {d \in Daemons : n[d].run # Nil \/ n[d].pc \in ReloadPCs}

Fault == faults < MaxFaults /\ faults' = faults + 1

\* persistRun: ON CONFLICT DO UPDATE, or an error that is only logged.
Persist(rec) == \/ row' = rec /\ UNCHANGED faults
                \/ Fault /\ UNCHANGED row

\* A statement on a child table of runs fails, and is only logged, while the
\* run has no row (foreign key), or when the store faults.
ChildWrite(write, keep) ==
    \/ row # Nil /\ write /\ UNCHANGED faults
    \/ row = Nil /\ keep /\ UNCHANGED faults
    \/ row # Nil /\ keep /\ Fault

\* Every step keeps the history of overlapping copies.
Observed == shared' = (shared \/ Cardinality(Copies(node')) > 1)

----------------------------------------------------------------------------
(* Starting: OpenPostgres, migrate, then Manager.Reload.                   *)

\* The supervisor starts a process that is not running.
Start(d) ==
    /\ node[d].pc \in ExitPCs /\ boots < MaxBoots
    /\ boots' = boots + 1
    /\ node' = [node EXCEPT ![d] = [Stopped EXCEPT !.pc = "check", !.op = "boot"]]
    /\ UNCHANGED <<store, metered, crashes, requests, faults>>

\* migrate: a database newer than the binary is refused.
CheckVersion(d) ==
    /\ At(d, "check")
    /\ Goto(d, IF version > Binary[d] THEN "refused" ELSE "pending")
    /\ UNCHANGED <<store, metered, counts, faults>>

\* goose.Up (external), the head of its loop: the next migration to apply.
NextPending(d) ==
    /\ At(d, "pending")
    /\ node' = [node EXCEPT ![d].want = version + 1,
                            ![d].pc = IF version < Binary[d] THEN "apply" ELSE "list"]
    /\ UNCHANGED <<store, metered, counts, faults>>

\* Mutant of ApplyMigration: an error of goose.Up is not returned.
ApplyMigrationUnchecked(d) ==
    /\ At(d, "apply")
    /\ IF version = node[d].want - 1
       THEN version' = node[d].want /\ Goto(d, "pending")
       ELSE Goto(d, "list") /\ UNCHANGED version
    /\ UNCHANGED <<row, cp, ledger, metered, counts, faults>>

\* goose.Up, one migration in its transaction: it fails when another daemon
\* applied it meanwhile, and the process exits.
ApplyMigration(d) ==
    /\ At(d, "apply")
    /\ IF version = node[d].want - 1
       THEN version' = node[d].want /\ Goto(d, "pending")
       ELSE Goto(d, "failed") /\ UNCHANGED version
    /\ UNCHANGED <<row, cp, ledger, metered, counts, faults>>

\* Reload: ListRunsByStatus("running").
ListRunning(d) ==
    /\ At(d, "list")
    /\ node' = IF row # Nil /\ row.status = "running"
               THEN [node EXCEPT ![d].snap = row, ![d].pc = "reload"]
               ELSE [node EXCEPT ![d].pc = "idle"]
    /\ UNCHANGED <<store, metered, counts, faults>>

\* A statement of the start fails: OpenPostgres or Reload returns the error, and
\* the process exits.
BootFails(d) ==
    /\ node[d].pc \in BootPCs /\ Fault
    /\ Goto(d, "failed")
    /\ UNCHANGED <<store, metered, counts>>

----------------------------------------------------------------------------
(* The copy of a run: reloadRun and the end of GetOrCreate.                *)

\* reloadRun: LatestCheckpoint, a statement after the row was read; a read that
\* fails counts as "no checkpoint".
LatestCheckpoint(d) ==
    /\ At(d, "reload")
    /\ \E latest \in {cp, Nil} :
         LET rec == Reconciled(node[d].snap, latest) IN
         /\ IF latest = cp THEN UNCHANGED faults ELSE Fault
         /\ node' = [node EXCEPT ![d].snap = rec,
                                 ![d].pc = IF rec = node[d].snap THEN "register" ELSE "rollback"]
    /\ UNCHANGED <<store, metered, counts>>

\* The rolled back record overwrites the row, whoever wrote it last.
UpsertRollback(d) ==
    /\ At(d, "rollback")
    /\ Persist(node[d].snap)
    /\ Goto(d, "register")
    /\ UNCHANGED <<version, cp, ledger, metered, counts>>

Register(d) ==
    /\ At(d, "register")
    /\ node' = [node EXCEPT
         ![d].run = IF node[d].snap = Nil THEN NewRun ELSE Reloaded(node[d].snap),
         ![d].snap = Nil,
         ![d].pc = IF node[d].op = "boot" THEN "idle"
                   ELSE IF node[d].snap = Nil THEN "mint" ELSE "begin"]
    /\ UNCHANGED <<store, metered, counts, faults>>

----------------------------------------------------------------------------
(* A model call in daemon d, and the kill switch.                          *)

\* GetOrCreate: the daemon's own copy, or the store.
Chat(d) ==
    /\ At(d, "idle") /\ requests < MaxRequests
    /\ requests' = requests + 1
    /\ node' = [node EXCEPT ![d].op = "chat",
                            ![d].pc = IF node[d].run # Nil THEN "begin" ELSE "restore"]
    /\ UNCHANGED <<store, metered, boots, crashes, faults>>

\* restoreFromStore: GetRun; a read that fails counts as "unknown id", and a
\* fresh run will be minted over the row.
Restore(d) ==
    /\ At(d, "restore")
    /\ \E found \in {row, Nil} :
         /\ IF found = row THEN UNCHANGED faults ELSE Fault
         /\ node' = [node EXCEPT ![d].snap = found,
                                 ![d].pc = IF found = Nil THEN "register"
                                           ELSE IF Terminal(found) THEN "register" ELSE "reload"]
    /\ UNCHANGED <<store, metered, counts>>

\* A new id gets its row at once.
Mint(d) ==
    /\ At(d, "mint")
    /\ Persist(Record(node[d].run))
    /\ Goto(d, "begin")
    /\ UNCHANGED <<version, cp, ledger, metered, counts>>

\* A guard of the governor and the upsert after it; a halt ends the request.
\* CanProceed writes the row on a halt only.
Guarded(d, next, pc, writes) ==
    /\ node' = [node EXCEPT ![d].run = next,
                            ![d].pc = IF next.halted # HaltNone THEN "idle" ELSE pc]
    /\ IF writes \/ next.halted # HaltNone THEN Persist(Record(next)) ELSE UNCHANGED <<row, faults>>
    /\ UNCHANGED <<version, cp, ledger, metered, counts>>

BeginStep(d) == At(d, "begin") /\ Guarded(d, PreStep(node[d].run), "ceiling", TRUE)

Ceiling(d) == At(d, "ceiling") /\ Guarded(d, CanProceed(node[d].run), "inflight", FALSE)

ProviderReturns(d) ==
    /\ At(d, "inflight")
    /\ \E cost \in Costs :
         /\ node' = [node EXCEPT ![d].run = RecordUsage(node[d].run, cost),
                                 ![d].cost = cost, ![d].pc = "ledger"]
         /\ metered' = Add(metered, cost)
    /\ UNCHANGED <<store, counts, faults>>

ProviderFails(d) ==
    /\ At(d, "inflight")
    /\ Goto(d, "idle")
    /\ UNCHANGED <<store, metered, counts, faults>>

\* Mutant of AppendLedger: a call that halted its run is not charged.
AppendLedgerUnlessHalted(d) ==
    /\ At(d, "ledger")
    /\ ChildWrite(ledger' = IF node[d].run.halted # HaltNone THEN ledger ELSE Add(ledger, node[d].cost),
                  UNCHANGED ledger)
    /\ Goto(d, "upsert")
    /\ UNCHANGED <<version, row, cp, metered, counts>>

\* An INSERT: entries of two daemons for the same step index stand side by side.
AppendLedger(d) ==
    /\ At(d, "ledger")
    /\ ChildWrite(ledger' = Add(ledger, node[d].cost), UNCHANGED ledger)
    /\ Goto(d, "upsert")
    /\ UNCHANGED <<version, row, cp, metered, counts>>

\* Usage and status another daemon wrote are replaced.
UpsertRun(d) ==
    /\ At(d, "upsert")
    /\ Persist(Record(node[d].run))
    /\ Goto(d, "checkpoint")
    /\ UNCHANGED <<version, cp, ledger, metered, counts>>

SaveCheckpoint(d) ==
    /\ At(d, "checkpoint")
    /\ ChildWrite(cp' = Snapshot(node[d].run), UNCHANGED cp)
    /\ node' = [node EXCEPT ![d].pc = "idle", ![d].cost = NoCharge]
    /\ UNCHANGED <<version, row, ledger, metered, counts>>

\* The kill switch reaches the daemon it is sent to; one without a copy
\* answers 404.
CancelRun(d) ==
    /\ At(d, "idle") /\ requests < MaxRequests
    /\ requests' = requests + 1
    /\ IF node[d].run = Nil THEN UNCHANGED <<node, row, faults>>
       ELSE /\ node' = [node EXCEPT ![d].run = Cancel(node[d].run)]
            /\ Persist(Record(Cancel(node[d].run)))
    /\ UNCHANGED <<version, cp, ledger, metered, boots, crashes>>

\* The process is killed; its copies are gone.
Crash(d) ==
    /\ node[d].pc \notin ExitPCs /\ crashes < MaxCrashes
    /\ crashes' = crashes + 1
    /\ node' = [node EXCEPT ![d] = Stopped]
    /\ UNCHANGED <<store, metered, boots, requests, faults>>

----------------------------------------------------------------------------
Boot(d) == \/ CheckVersion(d) \/ NextPending(d) \/ ApplyMigration(d) \/ ListRunning(d)
           \/ BootFails(d)

Reload(d) == LatestCheckpoint(d) \/ UpsertRollback(d) \/ Register(d)

Serve(d) == \/ Restore(d) \/ Mint(d) \/ BeginStep(d) \/ Ceiling(d)
            \/ ProviderReturns(d) \/ ProviderFails(d)
            \/ AppendLedger(d) \/ UpsertRun(d) \/ SaveCheckpoint(d)

Next ==
    /\ \E d \in Daemons :
         \/ Start(d) \/ Boot(d) \/ Reload(d)
         \/ Chat(d) \/ Serve(d) \/ CancelRun(d)
         \/ Crash(d)
    /\ Observed

Spec == Init /\ [][Next]_vars

----------------------------------------------------------------------------
(* Properties.                                                             *)

\* A daemon that serves has every table its binary uses, however the starts of
\* several daemons interleave (migrate: goose.Up's error ends the start).
SchemaReady ==
    \A d \in Daemons : node[d].pc \notin BootPCs \cup ExitPCs => version >= Binary[d]

Uncharged == {d \in Daemons : At(d, "ledger")}

\* The ledger is complete over all daemons: it lacks only calls being written,
\* and at most one for each process that was killed and for each store statement
\* that failed, whether the insert itself or the write of the row it refers to
\* (AppendLedger inserts, best effort).
LedgerComplete ==
    /\ ledger.dollars <= metered.dollars
    /\ metered.dollars <= ledger.dollars
                            + MaxCost.dollars * (Cardinality(Uncharged) + crashes + faults)

\* The budget of a run, up to its last call and one call lost with each killed
\* process.
OneBudget == metered.dollars < Budget.dollars + MaxCost.dollars * (1 + crashes)

\* Failover: as long as no two daemons hold a copy at the same time and the store
\* answers, the run's budget holds over all of them (Reload, restoreFromStore).
\* Copies that overlap, and a failed GetRun that mints the run afresh, may spend
\* the budget again, but never more than once for each started process.
FailoverKeepsBudget ==
    Budget.dollars > 0 =>
        /\ (~shared /\ faults = 0) => OneBudget
        /\ metered.dollars <= boots * (Budget.dollars - 1 + MaxCost.dollars)

\* "A run persisted by one daemon is reloaded and keeps enforcing its
\* already-spent budget after a restart - or on another instance pointed at the
\* same database" (docs/POSTGRES.md): one budget, whichever instances serve the run
\* (each enforces its own copy).
OneBudgetOverInstances == Budget.dollars > 0 => OneBudget

=============================================================================

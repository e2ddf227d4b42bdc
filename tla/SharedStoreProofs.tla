------------------------- MODULE SharedStoreProofs -------------------------
(***************************************************************************)
(* Theorems about SharedStore, for any finite number of daemons, every     *)
(* budget and every set of costs, and any number of starts, kills,         *)
(* requests and store statements that fail.                                *)
(***************************************************************************)
EXTENDS SharedStore, SharedLemmas, TLAPS

----------------------------------------------------------------------------
(* Types and control.                                                      *)

\* The control state a daemon can rely on: one past the migrations has its schema,
\* one that serves a call holds a copy of the run, one that starts or looks the run
\* up holds none, and the record it is about to register has been read.
NodeOK(d) ==
    /\ node[d].pc \notin (BootPCs \ {"list"}) \cup ExitPCs => version >= Binary[d]
    /\ node[d].pc \in RequestPCs \ {"restore"} => node[d].run # Nil
    /\ node[d].pc \in BootPCs \cup ReloadPCs \cup ExitPCs \cup {"restore"} => node[d].run = Nil
    /\ node[d].pc \in {"reload", "rollback"} => node[d].snap # Nil
    /\ node[d].pc = "restore" => node[d].op = "chat"
    /\ (node[d].pc = "register" /\ node[d].op = "boot") => node[d].snap # Nil
    /\ node[d].pc \in {"ledger", "upsert", "checkpoint"} => node[d].cost.dollars <= MaxCost.dollars

ControlOK == \A d \in Daemons : NodeOK(d)

TypeInv == TypeOK /\ ControlOK

\* A step of daemon d leaves the other processes alone; Moved says what it does to
\* the registers of d.
StepOf(d) == /\ node' \in [Daemons -> Nodes]
             /\ \A e \in Daemons : e # d => node'[e] = node[e]

Moved(d, pc, op, g, rec, cost) ==
    /\ StepOf(d)
    /\ node'[d].pc = pc /\ node'[d].op = op /\ node'[d].run = g
    /\ node'[d].snap = rec /\ node'[d].cost = cost

ProcessStep(d) == \/ Start(d) \/ Boot(d) \/ Reload(d) \/ Chat(d) \/ Serve(d)
                  \/ CancelRun(d) \/ Crash(d)

\* Failed store statements are counted one by one.
LEMMA FaultsCounted ==
    ASSUME NEW d \in Daemons, ProcessStep(d)
    PROVE  UNCHANGED faults \/ Fault
<1>1. CASE Start(d) \/ Crash(d) \/ Boot(d)
  BY <1>1, SMTT(30) DEF Start, Crash, Boot, CheckVersion, NextPending, ApplyMigration, ListRunning, BootFails
<1>2. CASE Reload(d)
  BY <1>2 DEF Reload, LatestCheckpoint, UpsertRollback, Register, Persist
<1>3. CASE Chat(d) \/ CancelRun(d)
  BY <1>3 DEF Chat, CancelRun, Persist
<1>4. CASE Restore(d) \/ Mint(d) \/ BeginStep(d) \/ Ceiling(d) \/ ProviderReturns(d) \/ ProviderFails(d)
  BY <1>4 DEF Restore, Mint, BeginStep, Ceiling, Guarded, Persist, ProviderReturns, ProviderFails
<1>5. CASE AppendLedger(d) \/ UpsertRun(d) \/ SaveCheckpoint(d)
  BY <1>5 DEF AppendLedger, UpsertRun, SaveCheckpoint, Persist, ChildWrite
<1>6. QED
  BY <1>1, <1>2, <1>3, <1>4, <1>5 DEF ProcessStep, Serve

\* Every program counter is one.
LEMMA PCTypes ==
    /\ BootPCs \subseteq NodePCs /\ ReloadPCs \subseteq NodePCs
    /\ RequestPCs \subseteq NodePCs /\ ExitPCs \subseteq NodePCs /\ "idle" \in NodePCs
BY DEF NodePCs

\* Goto moves the program counter of d and nothing else.
LEMMA GotoMoves ==
    ASSUME TypeOK, NEW d \in Daemons, NEW pc \in NodePCs, Goto(d, pc)
    PROVE  Moved(d, pc, node[d].op, node[d].run, node[d].snap, node[d].cost)
BY DEF TypeOK, Goto, Moved, StepOf, Nodes

\* Starting and stopping a process.
LEMMA ProcessMoves ==
    ASSUME TypeOK, NEW d \in Daemons
    PROVE  /\ Start(d) => Moved(d, "check", "boot", Nil, Nil, NoCharge)
           /\ Crash(d) => Moved(d, "down", "none", Nil, Nil, NoCharge)
<1>1. Stopped \in Nodes /\ [Stopped EXCEPT !.pc = "check", !.op = "boot"] \in Nodes
  BY PCTypes DEF Stopped, Nodes, BootPCs, ExitPCs, NoCharge, Charges
<1>2. node \in [Daemons -> Nodes]
  BY DEF TypeOK
<1>3. Start(d) => node' = [node EXCEPT ![d] = [Stopped EXCEPT !.pc = "check", !.op = "boot"]]
  BY DEF Start
<1>4. Crash(d) => node' = [node EXCEPT ![d] = Stopped]
  BY DEF Crash
<1>5. ASSUME NEW n \in Nodes, node' = [node EXCEPT ![d] = n]
      PROVE  StepOf(d) /\ node'[d] = n
  BY <1>2, <1>5 DEF StepOf
<1>6. Crash(d) => Moved(d, "down", "none", Nil, Nil, NoCharge)
  <2>1. Crash(d) => StepOf(d) /\ node'[d] = Stopped
    BY <1>1, <1>4, <1>5
  <2>2. QED
    BY <2>1 DEF Moved, Stopped
<1>7. Start(d) => Moved(d, "check", "boot", Nil, Nil, NoCharge)
  <2>1. Start(d) => StepOf(d) /\ node'[d] = [Stopped EXCEPT !.pc = "check", !.op = "boot"]
    BY <1>1, <1>3, <1>5
  <2>2. QED
    BY <2>1 DEF Moved, Stopped
<1>8. QED
  BY <1>6, <1>7

\* OpenPostgres and Manager.Reload.
LEMMA BootMoves ==
    ASSUME TypeOK, NEW d \in Daemons
    PROVE  /\ CheckVersion(d) =>
                Moved(d, IF version > Binary[d] THEN "refused" ELSE "pending",
                      node[d].op, node[d].run, node[d].snap, node[d].cost)
           /\ NextPending(d) =>
                Moved(d, IF version < Binary[d] THEN "apply" ELSE "list",
                      node[d].op, node[d].run, node[d].snap, node[d].cost)
           /\ ApplyMigration(d) =>
                Moved(d, IF version = node[d].want - 1 THEN "pending" ELSE "failed",
                      node[d].op, node[d].run, node[d].snap, node[d].cost)
           /\ ListRunning(d) =>
                IF row # Nil /\ row.status = "running"
                THEN Moved(d, "reload", node[d].op, node[d].run, row, node[d].cost)
                ELSE Moved(d, "idle", node[d].op, node[d].run, node[d].snap, node[d].cost)
           /\ BootFails(d) =>
                Moved(d, "failed", node[d].op, node[d].run, node[d].snap, node[d].cost)
<1>0. /\ {"refused", "pending", "apply", "list", "failed", "reload", "idle"} \subseteq NodePCs
      /\ version \in Nat /\ node[d] \in Nodes
  BY DEF TypeOK, NodePCs, BootPCs, ReloadPCs, ExitPCs
<1>1. CheckVersion(d) =>
        Moved(d, IF version > Binary[d] THEN "refused" ELSE "pending",
              node[d].op, node[d].run, node[d].snap, node[d].cost)
  BY <1>0, GotoMoves DEF CheckVersion
<1>2. NextPending(d) =>
        Moved(d, IF version < Binary[d] THEN "apply" ELSE "list",
              node[d].op, node[d].run, node[d].snap, node[d].cost)
  <2>1. ASSUME NEW pc \in NodePCs, NEW n \in Nat,
               node' = [node EXCEPT ![d].want = n, ![d].pc = pc]
        PROVE  Moved(d, pc, node[d].op, node[d].run, node[d].snap, node[d].cost)
    BY <1>0, <2>1 DEF TypeOK, Moved, StepOf, Nodes
  <2>2. version + 1 \in Nat /\ (IF version < Binary[d] THEN "apply" ELSE "list") \in NodePCs
    BY <1>0
  <2>3. QED
    BY <2>1, <2>2 DEF NextPending
<1>3. ApplyMigration(d) =>
        Moved(d, IF version = node[d].want - 1 THEN "pending" ELSE "failed",
              node[d].op, node[d].run, node[d].snap, node[d].cost)
  BY <1>0, GotoMoves DEF ApplyMigration
<1>4. ListRunning(d) =>
        IF row # Nil /\ row.status = "running"
        THEN Moved(d, "reload", node[d].op, node[d].run, row, node[d].cost)
        ELSE Moved(d, "idle", node[d].op, node[d].run, node[d].snap, node[d].cost)
  <2>1. ASSUME NEW rec \in Rows \cup {Nil}, node' = [node EXCEPT ![d].snap = rec, ![d].pc = "reload"]
        PROVE  Moved(d, "reload", node[d].op, node[d].run, rec, node[d].cost)
    BY <1>0, <2>1 DEF TypeOK, Moved, StepOf, Nodes
  <2>2. ASSUME node' = [node EXCEPT ![d].pc = "idle"]
        PROVE  Moved(d, "idle", node[d].op, node[d].run, node[d].snap, node[d].cost)
    BY <1>0, <2>2 DEF TypeOK, Moved, StepOf, Nodes
  <2>3. row \in Rows \cup {Nil}
    BY DEF TypeOK
  <2>4. QED
    BY <2>1, <2>2, <2>3 DEF ListRunning
<1>5. BootFails(d) =>
        Moved(d, "failed", node[d].op, node[d].run, node[d].snap, node[d].cost)
  BY <1>0, GotoMoves DEF BootFails
<1>6. QED
  BY <1>1, <1>2, <1>3, <1>4, <1>5

\* reloadRun and the end of GetOrCreate.
LEMMA ReloadMoves ==
    ASSUME TypeOK, NEW d \in Daemons, NodeOK(d)
    PROVE  /\ LatestCheckpoint(d) =>
                \E latest \in {cp, Nil} :
                   LET rec == Reconciled(node[d].snap, latest) IN
                   /\ latest = cp \/ Fault
                   /\ Moved(d, IF rec = node[d].snap THEN "register" ELSE "rollback",
                            node[d].op, node[d].run, rec, node[d].cost)
           /\ UpsertRollback(d) =>
                Moved(d, "register", node[d].op, node[d].run, node[d].snap, node[d].cost)
           /\ Register(d) =>
                Moved(d, IF node[d].op = "boot" THEN "idle"
                         ELSE IF node[d].snap = Nil THEN "mint" ELSE "begin",
                      node[d].op, IF node[d].snap = Nil THEN NewRun ELSE Reloaded(node[d].snap),
                      Nil, node[d].cost)
<1>0. /\ {"register", "rollback", "idle", "mint", "begin"} \subseteq NodePCs
      /\ node[d] \in Nodes /\ node[d].snap \in Rows \cup {Nil} /\ cp \in Checkpoints \cup {Nil}
  BY DEF TypeOK, NodePCs, ReloadPCs, RequestPCs, Nodes
<1>1. ASSUME LatestCheckpoint(d)
      PROVE  \E latest \in {cp, Nil} :
                LET rec == Reconciled(node[d].snap, latest) IN
                /\ latest = cp \/ Fault
                /\ Moved(d, IF rec = node[d].snap THEN "register" ELSE "rollback",
                         node[d].op, node[d].run, rec, node[d].cost)
  <2>1. node[d].snap # Nil
    BY <1>1 DEF LatestCheckpoint, At, NodeOK
  <2>2. PICK latest \in {cp, Nil} :
          /\ latest = cp \/ Fault
          /\ node' = [node EXCEPT
               ![d].snap = Reconciled(node[d].snap, latest),
               ![d].pc = IF Reconciled(node[d].snap, latest) = node[d].snap
                         THEN "register" ELSE "rollback"]
    BY <1>1 DEF LatestCheckpoint
  <2>3. Reconciled(node[d].snap, latest) \in Rows
    BY <1>0, <2>1, PersistedTypes
  <2>4. Moved(d, IF Reconciled(node[d].snap, latest) = node[d].snap THEN "register" ELSE "rollback",
              node[d].op, node[d].run, Reconciled(node[d].snap, latest), node[d].cost)
    BY <1>0, <2>2, <2>3 DEF TypeOK, Moved, StepOf, Nodes
  <2>5. QED
    BY <2>2, <2>4
<1>2. UpsertRollback(d) =>
        Moved(d, "register", node[d].op, node[d].run, node[d].snap, node[d].cost)
  BY <1>0, GotoMoves DEF UpsertRollback
<1>3. ASSUME Register(d)
      PROVE  Moved(d, IF node[d].op = "boot" THEN "idle"
                      ELSE IF node[d].snap = Nil THEN "mint" ELSE "begin",
                   node[d].op, IF node[d].snap = Nil THEN NewRun ELSE Reloaded(node[d].snap),
                   Nil, node[d].cost)
  <2>1. (IF node[d].snap = Nil THEN NewRun ELSE Reloaded(node[d].snap)) \in LiveRuns
    BY <1>0, PersistedTypes
  <2>2. QED
    BY <1>0, <1>3, <2>1 DEF TypeOK, Register, Moved, StepOf, Nodes
<1>4. QED
  BY <1>1, <1>2, <1>3

\* A call and the kill switch.
LEMMA ServeMoves ==
    ASSUME TypeOK, NEW d \in Daemons, NodeOK(d)
    PROVE  /\ Chat(d) => Moved(d, IF node[d].run # Nil THEN "begin" ELSE "restore",
                               "chat", node[d].run, node[d].snap, node[d].cost)
           /\ Restore(d) =>
                \E found \in {row, Nil} :
                   /\ found = row \/ Fault
                   /\ Moved(d, IF found = Nil THEN "register"
                               ELSE IF Terminal(found) THEN "register" ELSE "reload",
                            node[d].op, node[d].run, found, node[d].cost)
           /\ Mint(d) => Moved(d, "begin", node[d].op, node[d].run, node[d].snap, node[d].cost)
           /\ BeginStep(d) =>
                LET g == PreStep(node[d].run) IN
                Moved(d, IF g.halted # HaltNone THEN "idle" ELSE "ceiling",
                      node[d].op, g, node[d].snap, node[d].cost)
           /\ Ceiling(d) =>
                LET g == CanProceed(node[d].run) IN
                Moved(d, IF g.halted # HaltNone THEN "idle" ELSE "inflight",
                      node[d].op, g, node[d].snap, node[d].cost)
           /\ ProviderReturns(d) =>
                \E cost \in Costs :
                   /\ Moved(d, "ledger", node[d].op, RecordUsage(node[d].run, cost), node[d].snap, cost)
                   /\ metered' = Add(metered, cost)
           /\ ProviderFails(d) =>
                Moved(d, "idle", node[d].op, node[d].run, node[d].snap, node[d].cost)
           /\ AppendLedger(d) =>
                Moved(d, "upsert", node[d].op, node[d].run, node[d].snap, node[d].cost)
           /\ UpsertRun(d) =>
                Moved(d, "checkpoint", node[d].op, node[d].run, node[d].snap, node[d].cost)
           /\ SaveCheckpoint(d) =>
                Moved(d, "idle", node[d].op, node[d].run, node[d].snap, NoCharge)
           /\ CancelRun(d) =>
                Moved(d, "idle", node[d].op,
                      IF node[d].run = Nil THEN Nil ELSE Cancel(node[d].run),
                      node[d].snap, node[d].cost)
<1>0. /\ {"register", "reload", "restore", "idle", "mint", "begin", "ceiling", "inflight",
          "ledger", "upsert", "checkpoint"} \subseteq NodePCs
      /\ node[d] \in Nodes /\ node[d].run \in LiveRuns \cup {Nil} /\ row \in Rows \cup {Nil}
      /\ node \in [Daemons -> Nodes] /\ NoCharge \in Charges
  BY DEF TypeOK, NodePCs, ReloadPCs, RequestPCs, Nodes, NoCharge, Charges
<1>1. Chat(d) => Moved(d, IF node[d].run # Nil THEN "begin" ELSE "restore",
                       "chat", node[d].run, node[d].snap, node[d].cost)
  <2>1. ASSUME NEW pc \in NodePCs, node' = [node EXCEPT ![d].op = "chat", ![d].pc = pc]
        PROVE  Moved(d, pc, "chat", node[d].run, node[d].snap, node[d].cost)
    BY <1>0, <2>1 DEF Moved, StepOf, Nodes
  <2>2. QED
    BY <1>0, <2>1 DEF Chat
<1>2. Restore(d) =>
        \E found \in {row, Nil} :
           /\ found = row \/ Fault
           /\ Moved(d, IF found = Nil THEN "register"
                       ELSE IF Terminal(found) THEN "register" ELSE "reload",
                    node[d].op, node[d].run, found, node[d].cost)
  <2>1. ASSUME NEW pc \in NodePCs, NEW rec \in Rows \cup {Nil},
               node' = [node EXCEPT ![d].snap = rec, ![d].pc = pc]
        PROVE  Moved(d, pc, node[d].op, node[d].run, rec, node[d].cost)
    BY <1>0, <2>1 DEF Moved, StepOf, Nodes
  <2>2. QED
    BY <1>0, <2>1 DEF Restore
<1>3. /\ Mint(d) => Moved(d, "begin", node[d].op, node[d].run, node[d].snap, node[d].cost)
      /\ ProviderFails(d) =>
           Moved(d, "idle", node[d].op, node[d].run, node[d].snap, node[d].cost)
      /\ AppendLedger(d) =>
           Moved(d, "upsert", node[d].op, node[d].run, node[d].snap, node[d].cost)
      /\ UpsertRun(d) =>
           Moved(d, "checkpoint", node[d].op, node[d].run, node[d].snap, node[d].cost)
  BY <1>0, GotoMoves DEF Mint, ProviderFails, AppendLedger, UpsertRun
<1>4. ASSUME NEW g \in LiveRuns, NEW pc \in NodePCs, NEW writes \in BOOLEAN,
             Guarded(d, g, pc, writes)
      PROVE  Moved(d, IF g.halted # HaltNone THEN "idle" ELSE pc,
                   node[d].op, g, node[d].snap, node[d].cost)
  BY <1>0, <1>4 DEF Guarded, Moved, StepOf, Nodes
<1>5. ASSUME BeginStep(d)
      PROVE  LET g == PreStep(node[d].run) IN
             Moved(d, IF g.halted # HaltNone THEN "idle" ELSE "ceiling",
                   node[d].op, g, node[d].snap, node[d].cost)
  <2>1. node[d].run \in LiveRuns
    BY <1>0, <1>5 DEF BeginStep, At, NodeOK, RequestPCs
  <2>2. PreStep(node[d].run) \in LiveRuns
    BY <1>0, <2>1, GovernorTypes
  <2>3. QED
    BY <1>0, <1>4, <1>5, <2>2 DEF BeginStep
<1>6. ASSUME Ceiling(d)
      PROVE  LET g == CanProceed(node[d].run) IN
             Moved(d, IF g.halted # HaltNone THEN "idle" ELSE "inflight",
                   node[d].op, g, node[d].snap, node[d].cost)
  <2>1. node[d].run \in LiveRuns
    BY <1>0, <1>6 DEF Ceiling, At, NodeOK, RequestPCs
  <2>2. CanProceed(node[d].run) \in LiveRuns
    BY <1>0, <2>1, GovernorTypes
  <2>3. QED
    BY <1>0, <1>4, <1>6, <2>2 DEF Ceiling
<1>7. ASSUME ProviderReturns(d)
      PROVE  \E cost \in Costs :
                /\ Moved(d, "ledger", node[d].op, RecordUsage(node[d].run, cost), node[d].snap, cost)
                /\ metered' = Add(metered, cost)
  <2>1. PICK cost \in Costs :
          /\ node' = [node EXCEPT ![d].run = RecordUsage(node[d].run, cost),
                                  ![d].cost = cost, ![d].pc = "ledger"]
          /\ metered' = Add(metered, cost)
    BY <1>7 DEF ProviderReturns
  <2>2. cost \in Charges
    BY SharedAssumption
  <2>3. node[d].run \in LiveRuns
    BY <1>0, <1>7 DEF ProviderReturns, At, NodeOK, RequestPCs
  <2>4. RecordUsage(node[d].run, cost) \in LiveRuns
    BY <2>2, <2>3, GovernorTypes
  <2>5. Moved(d, "ledger", node[d].op, RecordUsage(node[d].run, cost), node[d].snap, cost)
    BY <1>0, <2>1, <2>2, <2>4 DEF Moved, StepOf, Nodes
  <2>6. QED
    BY <2>1, <2>5
<1>8. SaveCheckpoint(d) =>
        Moved(d, "idle", node[d].op, node[d].run, node[d].snap, NoCharge)
  <2>1. ASSUME NEW cost \in Charges, node' = [node EXCEPT ![d].pc = "idle", ![d].cost = cost]
        PROVE  Moved(d, "idle", node[d].op, node[d].run, node[d].snap, cost)
    BY <1>0, <2>1 DEF Moved, StepOf, Nodes
  <2>2. QED
    BY <1>0, <2>1 DEF SaveCheckpoint
<1>9. ASSUME CancelRun(d)
      PROVE  Moved(d, "idle", node[d].op,
                   IF node[d].run = Nil THEN Nil ELSE Cancel(node[d].run),
                   node[d].snap, node[d].cost)
  <2>1. CASE node[d].run = Nil
    BY <1>0, <1>9, <2>1 DEF CancelRun, At, Moved, StepOf
  <2>2. CASE node[d].run # Nil
    <3>1. Cancel(node[d].run) \in LiveRuns
      BY <1>0, <2>2, GovernorTypes
    <3>2. QED
      BY <1>0, <1>9, <2>2, <3>1 DEF CancelRun, At, Moved, StepOf, Nodes
  <2>3. QED
    BY <2>1, <2>2
<1>10. QED
  BY <1>1, <1>2, <1>3, <1>5, <1>6, <1>7, <1>8, <1>9

\* The schema only grows, so a step of d can only break what is said about d.
LEMMA OthersKeepControl ==
    ASSUME TypeInv, NEW d \in Daemons, StepOf(d), NodeOK(d)', version' \in Nat, version' >= version
    PROVE  ControlOK'
<1>1. ASSUME NEW e \in Daemons, e # d
      PROVE  NodeOK(e)'
  BY <1>1, SharedAssumption DEF TypeInv, TypeOK, ControlOK, NodeOK, StepOf
<1>2. QED
  BY <1>1 DEF ControlOK

\* The types outside the processes.
StoreTypes ==
    /\ version \in Nat
    /\ row \in Rows \cup {Nil} /\ cp \in Checkpoints \cup {Nil}
    /\ ledger \in Charges /\ metered \in Charges
    /\ boots \in Nat /\ crashes \in Nat /\ requests \in Nat

\* The sum of two charges is a charge.
LEMMA AddTypes == \A k, m \in Charges : Add(k, m) \in Charges
BY DEF Add, Charges

\* The registers of a process by their types.
LEMMA NodeTypes ==
    ASSUME TypeOK, NEW d \in Daemons
    PROVE  /\ node[d].run \in LiveRuns \cup {Nil} /\ node[d].snap \in Rows \cup {Nil}
           /\ node[d].cost \in Charges /\ node[d].pc \in NodePCs
BY DEF TypeOK, Nodes

\* A step of a process that is starting, reloading or being killed.
LEMMA BootTypes ==
    ASSUME TypeInv, NEW d \in Daemons,
           Start(d) \/ Crash(d) \/ Boot(d) \/ Reload(d)
    PROVE  StepOf(d) /\ NodeOK(d)' /\ StoreTypes' /\ version' >= version
<1>0. /\ TypeOK /\ NodeOK(d) /\ StoreTypes /\ Binary[d] \in Nat
      /\ node[d].run \in LiveRuns \cup {Nil} /\ node[d].snap \in Rows \cup {Nil}
      /\ NewRun # Nil /\ (node[d].snap # Nil => Reloaded(node[d].snap) # Nil)
  BY NodeTypes, PersistedTypes, SharedAssumption DEF TypeInv, TypeOK, ControlOK, StoreTypes
<1> USE DEF BootPCs, ReloadPCs, RequestPCs, ExitPCs
<1>1. CASE Start(d) \/ Crash(d)
  <2>1. Moved(d, "check", "boot", Nil, Nil, NoCharge) \/ Moved(d, "down", "none", Nil, Nil, NoCharge)
    BY <1>0, <1>1, ProcessMoves
  <2>2. StepOf(d) /\ NodeOK(d)'
    BY <2>1 DEF Moved, NodeOK
  <2>3. StoreTypes' /\ version' >= version
    BY <1>0, <1>1 DEF Start, Crash, store, StoreTypes
  <2>4. QED
    BY <2>2, <2>3
<1>2. CASE CheckVersion(d) \/ NextPending(d)
  <2>1. /\ StepOf(d) /\ node'[d].pc \in {"refused", "pending", "apply", "list"}
        /\ node'[d].pc = "list" => version >= Binary[d]
        /\ node'[d].run = Nil
    BY <1>0, <1>2, BootMoves DEF Moved, CheckVersion, NextPending, NodeOK, At, StoreTypes
  <2>2. version' = version
    BY <1>2 DEF CheckVersion, NextPending, store
  <2>3. NodeOK(d)'
    BY <2>1, <2>2 DEF NodeOK
  <2>4. StoreTypes' /\ version' >= version
    BY <1>0, <1>2 DEF CheckVersion, NextPending, store, counts, StoreTypes
  <2>5. QED
    BY <2>1, <2>3, <2>4
<1>3. CASE ApplyMigration(d)
  <2>1. StepOf(d) /\ node'[d].pc \in {"pending", "failed"} /\ node'[d].run = Nil
    BY <1>0, <1>3, BootMoves DEF Moved, ApplyMigration, NodeOK, At
  <2>2. version' \in Nat /\ version' >= version
    <3>1. node[d].want \in Nat
      BY <1>0 DEF TypeOK, Nodes
    <3>2. QED
      BY <1>0, <1>3, <3>1 DEF ApplyMigration, StoreTypes
  <2>3. StoreTypes'
    BY <1>0, <1>3, <2>2 DEF ApplyMigration, counts, StoreTypes
  <2>4. QED
    BY <2>1, <2>2, <2>3 DEF NodeOK
<1>4. CASE ListRunning(d)
  <2>1. /\ StepOf(d) /\ node'[d].run = Nil
        /\ \/ node'[d].pc = "reload" /\ node'[d].snap # Nil
           \/ node'[d].pc = "idle"
    BY <1>0, <1>4, BootMoves, ZenonT(60) DEF Moved, ListRunning, NodeOK, At
  <2>2. version' = version /\ version >= Binary[d]
    BY <1>0, <1>4 DEF ListRunning, store, At, NodeOK
  <2>3. NodeOK(d)'
    BY <2>1, <2>2 DEF NodeOK
  <2>4. StoreTypes' /\ version' >= version
    BY <1>0, <1>4 DEF ListRunning, store, counts, StoreTypes
  <2>5. QED
    BY <2>1, <2>3, <2>4
<1>5. CASE LatestCheckpoint(d)
  <2>1. \A latest \in {cp, Nil} : Reconciled(node[d].snap, latest) \in Rows
    BY <1>0, <1>5, PersistedTypes DEF LatestCheckpoint, At, NodeOK, StoreTypes
  <2>2. /\ StepOf(d) /\ node'[d].run = Nil /\ node'[d].snap # Nil
        /\ node'[d].pc \in {"register", "rollback"}
    BY <1>0, <1>5, <2>1, ReloadMoves, SharedAssumption, ZenonT(90) DEF Moved, LatestCheckpoint, NodeOK, At
  <2>3. version' = version /\ version >= Binary[d]
    BY <1>0, <1>5 DEF LatestCheckpoint, store, At, NodeOK
  <2>4. NodeOK(d)'
    BY <2>2, <2>3 DEF NodeOK
  <2>5. StoreTypes' /\ version' >= version
    BY <1>0, <1>5 DEF LatestCheckpoint, store, counts, StoreTypes
  <2>6. QED
    BY <2>2, <2>4, <2>5
<1>6. CASE UpsertRollback(d)
  <2>1. /\ StepOf(d) /\ node'[d].run = Nil /\ node'[d].snap # Nil /\ node'[d].pc = "register"
    BY <1>0, <1>6, ReloadMoves DEF Moved, UpsertRollback, NodeOK, At
  <2>2. version' = version /\ version >= Binary[d]
    BY <1>0, <1>6 DEF UpsertRollback, At, NodeOK
  <2>3. NodeOK(d)'
    BY <2>1, <2>2 DEF NodeOK
  <2>4. StoreTypes' /\ version' >= version
    BY <1>0, <1>6 DEF UpsertRollback, Persist, counts, StoreTypes
  <2>5. QED
    BY <2>1, <2>3, <2>4
<1>7. CASE Register(d)
  <2>1. StepOf(d) /\ node'[d].run # Nil /\ node'[d].pc \in {"idle", "mint", "begin"}
    BY <1>0, <1>7, ReloadMoves DEF Moved
  <2>2. version' = version /\ version >= Binary[d]
    BY <1>0, <1>7 DEF Register, store, At, NodeOK
  <2>3. NodeOK(d)'
    BY <2>1, <2>2 DEF NodeOK
  <2>4. StoreTypes' /\ version' >= version
    BY <1>0, <1>7 DEF Register, store, counts, StoreTypes
  <2>5. QED
    BY <2>1, <2>3, <2>4
<1>8. CASE BootFails(d)
  <2>1. StepOf(d) /\ node'[d].run = Nil /\ node'[d].pc = "failed"
    BY <1>0, <1>8, BootMoves DEF Moved, BootFails, NodeOK
  <2>2. StoreTypes' /\ version' >= version
    BY <1>0, <1>8 DEF BootFails, store, counts, StoreTypes
  <2>3. QED
    BY <2>1, <2>2 DEF NodeOK
<1>9. QED
  BY <1>1, <1>2, <1>3, <1>4, <1>5, <1>6, <1>7, <1>8 DEF Boot, Reload

\* A step of a request.
LEMMA ServeTypes ==
    ASSUME TypeInv, NEW d \in Daemons, Chat(d) \/ Serve(d) \/ CancelRun(d)
    PROVE  StepOf(d) /\ NodeOK(d)' /\ StoreTypes' /\ version' >= version
<1>0. /\ TypeOK /\ NodeOK(d) /\ StoreTypes
      /\ node[d].run \in LiveRuns \cup {Nil} /\ node[d].snap \in Rows \cup {Nil}
      /\ node[d].cost \in Charges /\ Nil \notin LiveRuns
  BY NodeTypes, SharedAssumption DEF TypeInv, TypeOK, ControlOK, StoreTypes
<1>1. version' = version
  BY DEF Chat, Serve, Restore, Mint, BeginStep, Ceiling, Guarded, ProviderReturns, ProviderFails,
         AppendLedger, UpsertRun, SaveCheckpoint, CancelRun, store
<1>2. version \in Nat /\ version >= Binary[d]
  BY <1>0 DEF Chat, Serve, Restore, Mint, BeginStep, Ceiling, ProviderReturns, ProviderFails,
         AppendLedger, UpsertRun, SaveCheckpoint, CancelRun, At, NodeOK, BootPCs, ExitPCs, StoreTypes
<1> USE DEF BootPCs, ReloadPCs, RequestPCs, ExitPCs
<1>3. CASE Chat(d)
  <2>1. /\ StepOf(d) /\ node'[d].op = "chat"
        /\ \/ node'[d].pc = "begin" /\ node'[d].run # Nil
           \/ node'[d].pc = "restore" /\ node'[d].run = Nil
    BY <1>0, <1>3, ServeMoves DEF Moved
  <2>2. NodeOK(d)'
    BY <1>1, <1>2, <2>1 DEF NodeOK
  <2>3. StoreTypes'
    BY <1>0, <1>3 DEF Chat, store, StoreTypes
  <2>4. QED
    BY <1>1, <1>2, <2>1, <2>2, <2>3
<1>4. CASE Restore(d)
  <2>0. node[d].op = "chat" /\ node[d].run = Nil
    BY <1>0, <1>4 DEF Restore, At, NodeOK
  <2>1. /\ StepOf(d) /\ node'[d].op = "chat" /\ node'[d].run = Nil
        /\ \/ node'[d].pc = "register"
           \/ node'[d].pc = "reload" /\ node'[d].snap # Nil
    <3>1. \E found \in {row, Nil} :
             Moved(d, IF found = Nil THEN "register"
                      ELSE IF Terminal(found) THEN "register" ELSE "reload",
                   node[d].op, node[d].run, found, node[d].cost)
      BY <1>0, <1>4, ServeMoves
    <3>2. QED
      BY <2>0, <3>1 DEF Moved
  <2>2. NodeOK(d)'
    BY <1>1, <1>2, <2>1 DEF NodeOK
  <2>3. StoreTypes'
    BY <1>0, <1>4 DEF Restore, store, counts, StoreTypes
  <2>4. QED
    BY <1>1, <1>2, <2>1, <2>2, <2>3
<1>5. CASE Mint(d) \/ AppendLedger(d) \/ UpsertRun(d) \/ SaveCheckpoint(d) \/ ProviderFails(d)
  <2>0. node[d].run # Nil
    BY <1>0, <1>5 DEF Mint, AppendLedger, UpsertRun, SaveCheckpoint, ProviderFails, At, NodeOK
  <2>1. /\ StepOf(d) /\ node'[d].run # Nil
        /\ \/ node'[d].pc \in {"begin", "idle"}
           \/ node'[d].pc \in {"upsert", "checkpoint"} /\ node'[d].cost.dollars <= MaxCost.dollars
    BY <1>0, <1>5, <2>0, ServeMoves DEF Moved, AppendLedger, UpsertRun, At, NodeOK
  <2>2. NodeOK(d)'
    BY <1>1, <1>2, <2>1 DEF NodeOK
  <2>3. Record(node[d].run) \in Rows /\ Snapshot(node[d].run) \in Checkpoints
    BY <1>0, <2>0, PersistedTypes
  <2>4. StoreTypes'
    BY <1>0, <1>5, <2>3, AddTypes
    DEF Mint, AppendLedger, UpsertRun, SaveCheckpoint, ProviderFails, Persist, ChildWrite,
        store, counts, StoreTypes
  <2>5. QED
    BY <1>1, <1>2, <2>1, <2>2, <2>4
<1>6. CASE BeginStep(d) \/ Ceiling(d)
  <2>1. node[d].run \in LiveRuns
    BY <1>0, <1>6 DEF BeginStep, Ceiling, At, NodeOK
  <2>2. PICK g \in LiveRuns :
          /\ g = PreStep(node[d].run) \/ g = CanProceed(node[d].run)
          /\ \E pc, writes : Guarded(d, g, pc, writes)
          /\ StepOf(d) /\ node'[d].run = g /\ node'[d].pc \in {"idle", "ceiling", "inflight"}
    BY <1>0, <1>6, <2>1, ServeMoves, GovernorTypes DEF Moved, BeginStep, Ceiling
  <2>3. NodeOK(d)'
    BY <1>0, <1>1, <1>2, <2>2 DEF NodeOK
  <2>4. Record(g) \in Rows
    BY PersistedTypes
  <2>5. StoreTypes'
    BY <1>0, <2>2, <2>4 DEF Guarded, Persist, counts, StoreTypes
  <2>6. QED
    BY <1>1, <1>2, <2>2, <2>3, <2>5
<1>7. CASE ProviderReturns(d)
  <2>1. PICK cost \in Costs :
          /\ Moved(d, "ledger", node[d].op, RecordUsage(node[d].run, cost), node[d].snap, cost)
          /\ metered' = Add(metered, cost)
    BY <1>0, <1>7, ServeMoves
  <2>2. cost \in Charges /\ cost.dollars <= MaxCost.dollars
    BY SharedAssumption
  <2>3. node[d].run \in LiveRuns
    BY <1>0, <1>7 DEF ProviderReturns, At, NodeOK
  <2>4. RecordUsage(node[d].run, cost) # Nil
    BY <1>0, <2>2, <2>3, GovernorTypes
  <2>5. NodeOK(d)'
    BY <1>1, <1>2, <2>1, <2>2, <2>4 DEF Moved, NodeOK
  <2>6. StoreTypes'
    BY <1>0, <1>7, <2>1, <2>2, AddTypes DEF ProviderReturns, store, counts, StoreTypes
  <2>7. QED
    BY <1>1, <1>2, <2>1, <2>5, <2>6 DEF Moved
<1>8. CASE CancelRun(d)
  <2>1. StepOf(d) /\ node'[d].pc = "idle"
    BY <1>0, <1>8, ServeMoves DEF Moved
  <2>2. NodeOK(d)'
    BY <1>1, <1>2, <2>1 DEF NodeOK
  <2>3. node[d].run # Nil => Record(Cancel(node[d].run)) \in Rows
    BY <1>0, PersistedTypes, GovernorTypes
  <2>4. StoreTypes'
    BY <1>0, <1>8, <2>3 DEF CancelRun, Persist, store, StoreTypes
  <2>5. QED
    BY <1>1, <1>2, <2>1, <2>2, <2>4
<1>9. QED
  BY <1>3, <1>4, <1>5, <1>6, <1>7, <1>8 DEF Serve

\* Types and control are inductive.
LEMMA TypeInvInductive ==
    /\ Init => TypeInv
    /\ TypeInv /\ [Next]_vars => TypeInv'
<1>1. ASSUME Init PROVE TypeInv
  <2>1. Stopped \in Nodes
    BY PCTypes DEF Stopped, Nodes, ExitPCs, NoCharge, Charges
  <2>2. TypeOK
    BY <1>1, <2>1 DEF Init, TypeOK, NoCharge, Charges
  <2>3. ControlOK
    BY <1>1 DEF Init, ControlOK, NodeOK, Stopped, BootPCs, ReloadPCs, RequestPCs, ExitPCs
  <2>4. QED
    BY <2>2, <2>3 DEF TypeInv
<1>2. ASSUME TypeInv, Next PROVE TypeInv'
  <2>1. PICK d \in Daemons : \/ Start(d) \/ Boot(d) \/ Reload(d) \/ Chat(d) \/ Serve(d)
                             \/ CancelRun(d) \/ Crash(d)
    BY <1>2 DEF Next
  <2>2. StepOf(d) /\ NodeOK(d)' /\ StoreTypes' /\ version' >= version
    BY <1>2, <2>1, BootTypes, ServeTypes
  <2>3. shared' \in BOOLEAN
    BY <1>2 DEF TypeInv, TypeOK, Next, Observed
  <2>4. ControlOK'
    BY <1>2, <2>2, OthersKeepControl DEF StoreTypes
  <2>5. faults' \in Nat
    BY <1>2, <2>1, FaultsCounted DEF ProcessStep, Fault, TypeInv, TypeOK
  <2>6. QED
    BY <2>2, <2>3, <2>4, <2>5 DEF TypeInv, TypeOK, StepOf, StoreTypes
<1>3. ASSUME TypeInv, UNCHANGED vars PROVE TypeInv'
  BY <1>3 DEF TypeInv, TypeOK, ControlOK, NodeOK, vars, store, counts
<1>4. QED
  BY <1>1, <1>2, <1>3

\* Every variable keeps its type, whatever daemons do to the store they share.
THEOREM TypeCorrect == Spec => []TypeOK
<1>1. Spec => []TypeInv
  BY TypeInvInductive, PTL DEF Spec
<1>2. TypeInv => TypeOK
  BY DEF TypeInv
<1>3. QED
  BY <1>1, <1>2, PTL

\* A daemon that serves finds every table its binary uses, however the starts of
\* several daemons interleave with their migrations (OpenPostgres, migrate).
THEOREM SchemaReadyHolds == Spec => []SchemaReady
<1>1. Spec => []TypeInv
  BY TypeInvInductive, PTL DEF Spec
<1>2. TypeInv => SchemaReady
  BY DEF TypeInv, ControlOK, NodeOK, SchemaReady
<1>3. QED
  BY <1>1, <1>2, PTL

----------------------------------------------------------------------------
(* The ledger.                                                             *)

\* What daemon d has metered and not written to the ledger yet.
Pending == [d \in Daemons |-> IF At(d, "ledger") THEN node[d].cost.dollars ELSE 0]

\* A run without a row takes no entry: the write of the row that d let fail at
\* BeginStep still costs the entry of the call under way.
Owed == [d \in Daemons |-> IF node[d].pc \in {"ceiling", "inflight", "ledger"} /\ row = Nil
                           THEN MaxCost.dollars ELSE 0]

LedgerInv ==
    /\ ledger.dollars + SumFunction(Pending) <= metered.dollars
    /\ metered.dollars + SumFunction(Owed)
         <= ledger.dollars + SumFunction(Pending) + MaxCost.dollars * (crashes + faults)

\* What a step does to the calls between the meter and the ledger.
LEMMA LedgerStep ==
    ASSUME TypeInv, NEW d \in Daemons, ProcessStep(d)
    PROVE  /\ Pending \in [Daemons -> Nat] /\ Pending' \in [Daemons -> Nat]
           /\ DifferAt(Pending, Pending', d)
           /\ \/ \E k \in Nat : /\ Pending[d] = 0 /\ Pending'[d] = k
                                /\ metered'.dollars = metered.dollars + k
                                /\ UNCHANGED <<ledger, crashes>>
              \/ /\ ledger'.dollars = ledger.dollars + Pending[d] /\ Pending'[d] = 0
                 /\ UNCHANGED <<metered, crashes>>
              \/ /\ Pending[d] <= MaxCost.dollars /\ Pending'[d] = 0
                 /\ \/ Crash(d)
                    \/ AppendLedger(d) /\ row = Nil /\ UNCHANGED crashes
                    \/ AppendLedger(d) /\ row # Nil /\ Fault /\ UNCHANGED crashes
                 /\ UNCHANGED <<ledger, metered>>
              \/ Pending'[d] = Pending[d] /\ UNCHANGED <<ledger, metered, crashes>>
<1>0. /\ TypeOK /\ NodeOK(d) /\ node[d].cost \in Charges
      /\ metered \in Charges /\ ledger \in Charges /\ MaxCost \in Charges
  BY NodeTypes, SharedAssumption DEF TypeInv, TypeOK, ControlOK
<1>1. StepOf(d)
  BY BootTypes, ServeTypes DEF ProcessStep
<1>2. Pending \in [Daemons -> Nat] /\ Pending' \in [Daemons -> Nat]
  <2>1. \A e \in Daemons : node[e].cost.dollars \in Nat /\ node'[e].cost.dollars \in Nat
    BY <1>0, <1>1 DEF TypeOK, StepOf, Nodes, Charges
  <2>2. QED
    BY <2>1 DEF Pending
<1>3. DifferAt(Pending, Pending', d)
  BY <1>1 DEF DifferAt, Pending, StepOf, At
<1>4. /\ Pending[d] = IF node[d].pc = "ledger" THEN node[d].cost.dollars ELSE 0
      /\ Pending'[d] = IF node'[d].pc = "ledger" THEN node'[d].cost.dollars ELSE 0
  BY DEF Pending, At
<1>d. Pending[d] <= MaxCost.dollars
  BY <1>0, <1>4 DEF NodeOK, Charges
<1>5. CASE ProviderReturns(d)
  <2>1. PICK cost \in Costs :
          /\ Moved(d, "ledger", node[d].op, RecordUsage(node[d].run, cost), node[d].snap, cost)
          /\ metered' = Add(metered, cost)
    BY <1>0, <1>5, ServeMoves
  <2>2. cost.dollars \in Nat
    BY SharedAssumption DEF Charges
  <2>3. metered'.dollars = metered.dollars + cost.dollars
    BY <2>1 DEF Add
  <2>4. Pending[d] = 0 /\ Pending'[d] = cost.dollars
    BY <1>4, <1>5, <2>1 DEF ProviderReturns, At, Moved
  <2>5. UNCHANGED <<ledger, crashes>>
    BY <1>5 DEF ProviderReturns, store, counts
  <2>6. QED
    BY <1>2, <1>3, <2>2, <2>3, <2>4, <2>5
<1>6. CASE AppendLedger(d)
  <2>1. node[d].pc = "ledger" /\ node'[d].pc = "upsert"
    BY <1>0, <1>6, ServeMoves DEF AppendLedger, At, Moved
  <2>2. UNCHANGED <<metered, crashes>>
    BY <1>6 DEF AppendLedger, counts
  <2>3. Pending[d] = node[d].cost.dollars /\ Pending'[d] = 0
    BY <1>4, <2>1
  <2>4. CASE row # Nil /\ ledger' = Add(ledger, node[d].cost)
    <3>1. ledger'.dollars = ledger.dollars + Pending[d]
      BY <2>3, <2>4 DEF Add
    <3>2. QED
      BY <1>2, <1>3, <2>2, <2>3, <3>1
  <2>5. CASE row = Nil /\ UNCHANGED ledger
    BY <1>2, <1>3, <1>d, <1>6, <2>2, <2>3, <2>5
  <2>6. CASE row # Nil /\ UNCHANGED ledger /\ Fault
    BY <1>2, <1>3, <1>d, <1>6, <2>2, <2>3, <2>6
  <2>7. QED
    BY <1>6, <2>4, <2>5, <2>6 DEF AppendLedger, ChildWrite
<1>7. CASE Crash(d)
  <2>1. node'[d].pc = "down"
    BY <1>0, <1>7, ProcessMoves DEF Moved
  <2>2. UNCHANGED <<ledger, metered>>
    BY <1>7 DEF Crash, store
  <2>3. QED
    BY <1>2, <1>3, <1>4, <1>7, <1>d, <2>1, <2>2
<1>8. CASE ~(ProviderReturns(d) \/ AppendLedger(d) \/ Crash(d))
  <2>1. node[d].pc # "ledger"
    BY <1>8 DEF ProcessStep, Start, Boot, CheckVersion, NextPending, ApplyMigration, ListRunning,
         BootFails, Reload, LatestCheckpoint, UpsertRollback, Register, Chat, Serve, Restore, Mint,
         BeginStep, Ceiling, ProviderFails, UpsertRun, SaveCheckpoint, CancelRun, At, ExitPCs, BootPCs
  <2>2. UNCHANGED <<ledger, metered, crashes>>
    BY <1>8 DEF ProcessStep, Start, Boot, CheckVersion, NextPending, ApplyMigration, ListRunning,
         BootFails, Reload, LatestCheckpoint, UpsertRollback, Register, Chat, Serve, Restore, Mint,
         BeginStep, Ceiling, Guarded, ProviderFails, UpsertRun, SaveCheckpoint, CancelRun, store, counts
  <2>3. node'[d].pc # "ledger"
    <3>1. CASE Start(d)
      BY <1>0, <3>1, ProcessMoves DEF Moved
    <3>2. CASE Boot(d)
      BY <1>0, <3>2, BootMoves DEF Boot, Moved
    <3>3. CASE Reload(d)
      BY <1>0, <3>3, ReloadMoves DEF Reload, Moved
    <3>4. CASE Chat(d) \/ CancelRun(d)
      BY <1>0, <3>4, ServeMoves DEF Moved
    <3>5. CASE Serve(d)
      BY <1>0, <1>8, <3>5, ServeMoves DEF Serve, Moved
    <3>6. QED
      BY <1>8, <3>1, <3>2, <3>3, <3>4, <3>5 DEF ProcessStep
  <2>4. QED
    BY <1>2, <1>3, <1>4, <2>1, <2>2, <2>3
<1>9. QED
  BY <1>5, <1>6, <1>7, <1>8

\* A row is overwritten by rows and never deleted, and BeginStep leaves the run with
\* one unless its write fails.
LEMMA RowStays ==
    ASSUME TypeInv, NEW d \in Daemons, ProcessStep(d)
    PROVE  /\ row # Nil => row' # Nil
           /\ BeginStep(d) => Fault \/ row' # Nil
<1>0. /\ TypeOK /\ NodeOK(d) /\ Nil \notin Rows
      /\ node[d].run \in LiveRuns \cup {Nil} /\ node[d].snap \in Rows \cup {Nil}
  BY NodeTypes, SharedAssumption DEF TypeInv, TypeOK, ControlOK
<1>1. \A g \in LiveRuns : /\ Record(g) # Nil /\ Record(PreStep(g)) # Nil
                          /\ Record(CanProceed(g)) # Nil /\ Record(Cancel(g)) # Nil
  BY <1>0, PersistedTypes, GovernorTypes, SharedAssumption
<1>2. CASE UpsertRollback(d)
  <2>1. node[d].snap # Nil
    BY <1>0, <1>2 DEF UpsertRollback, At, NodeOK
  <2>2. QED
    BY <1>2, <2>1 DEF UpsertRollback, BeginStep, At, Persist
<1>3. CASE Mint(d) \/ UpsertRun(d)
  <2>1. node[d].run \in LiveRuns
    BY <1>0, <1>3 DEF Mint, UpsertRun, At, NodeOK, RequestPCs
  <2>2. QED
    BY <1>1, <1>3, <2>1 DEF Mint, UpsertRun, BeginStep, At, Persist
<1>4. CASE BeginStep(d)
  <2>1. node[d].run \in LiveRuns
    BY <1>0, <1>4 DEF BeginStep, At, NodeOK, RequestPCs
  <2>2. QED
    BY <1>1, <1>4, <2>1 DEF BeginStep, Guarded, Persist
<1>5. CASE Ceiling(d)
  <2>1. node[d].run \in LiveRuns
    BY <1>0, <1>5 DEF Ceiling, At, NodeOK, RequestPCs
  <2>2. QED
    BY <1>1, <1>5, <2>1 DEF Ceiling, BeginStep, At, Guarded, Persist
<1>6. CASE CancelRun(d)
  BY <1>0, <1>1, <1>6 DEF CancelRun, BeginStep, At, Persist
<1>7. CASE /\ ~BeginStep(d)
           /\ Start(d) \/ Crash(d) \/ Boot(d) \/ LatestCheckpoint(d) \/ Register(d) \/ Chat(d)
  BY <1>7 DEF Start, Crash, Boot, CheckVersion, NextPending, ApplyMigration, ListRunning, BootFails,
       LatestCheckpoint, Register, Chat, store
<1>8. CASE \/ Restore(d) \/ ProviderReturns(d) \/ ProviderFails(d) \/ AppendLedger(d)
           \/ SaveCheckpoint(d)
  BY <1>8 DEF Restore, ProviderReturns, ProviderFails, AppendLedger, SaveCheckpoint, store,
       BeginStep, At
<1>9. QED
  BY <1>2, <1>3, <1>4, <1>5, <1>6, <1>7, <1>8 DEF ProcessStep, Reload, Serve

\* A step that leaves the run without a row makes d owe an entry only when its
\* BeginStep fails to write the row, and AppendLedger settles it.
LEMMA OwedStep ==
    ASSUME TypeInv, NEW d \in Daemons, ProcessStep(d)
    PROVE  /\ Owed \in [Daemons -> Nat] /\ Owed' \in [Daemons -> Nat]
           /\ \/ row' # Nil /\ \A e \in Daemons : Owed'[e] = 0
              \/ DifferAt(Owed, Owed', d) /\ Owed'[d] <= Owed[d]
              \/ DifferAt(Owed, Owed', d) /\ BeginStep(d) /\ Fault /\ Owed'[d] <= MaxCost.dollars
           /\ (AppendLedger(d) /\ row = Nil) =>
                /\ DifferAt(Owed, Owed', d)
                /\ Owed[d] = MaxCost.dollars /\ Owed'[d] = 0
<1>0. TypeOK /\ NodeOK(d) /\ MaxCost.dollars \in Nat
  BY SharedAssumption DEF TypeInv, ControlOK, Charges
<1>1. StepOf(d)
  BY BootTypes, ServeTypes DEF ProcessStep
<1>2. Owed \in [Daemons -> Nat] /\ Owed' \in [Daemons -> Nat]
  BY <1>0 DEF Owed
<1>3. CASE row' # Nil
  <2>1. \A e \in Daemons : Owed'[e] = 0
    BY <1>3 DEF Owed
  <2>2. ~(AppendLedger(d) /\ row = Nil)
    BY <1>3 DEF AppendLedger
  <2>3. QED
    BY <1>2, <1>3, <2>1, <2>2
<1>4. CASE row' = Nil
  <2>1. row = Nil
    BY <1>4, RowStays
  <2>2. DifferAt(Owed, Owed', d)
    BY <1>1, <1>4, <2>1 DEF DifferAt, Owed, StepOf
  <2>3. /\ Owed[d] = IF node[d].pc \in {"ceiling", "inflight", "ledger"} THEN MaxCost.dollars ELSE 0
        /\ Owed'[d] = IF node'[d].pc \in {"ceiling", "inflight", "ledger"} THEN MaxCost.dollars ELSE 0
    BY <1>4, <2>1 DEF Owed
  <2>4. CASE BeginStep(d)
    <3>1. Fault
      BY <1>4, <2>4, RowStays
    <3>2. Owed'[d] <= MaxCost.dollars
      BY <1>0, <2>3
    <3>3. ~AppendLedger(d)
      BY <2>4 DEF BeginStep, AppendLedger, At
    <3>4. QED
      BY <1>2, <2>2, <2>4, <3>1, <3>2, <3>3
  <2>5. CASE AppendLedger(d)
    <3>1. node[d].pc = "ledger" /\ node'[d].pc = "upsert"
      BY <1>0, <2>5, ServeMoves DEF AppendLedger, At, Moved
    <3>2. QED
      BY <1>0, <1>2, <2>2, <2>3, <3>1
  <2>6. CASE ~BeginStep(d) /\ ~AppendLedger(d)
    <3>1. node'[d].pc \in {"ceiling", "inflight", "ledger"}
            => node[d].pc \in {"ceiling", "inflight", "ledger"}
      <4>1. CASE Start(d) \/ Crash(d)
        BY <1>0, <4>1, ProcessMoves DEF Moved
      <4>2. CASE Boot(d)
        BY <1>0, <4>2, BootMoves DEF Boot, Moved
      <4>3. CASE Reload(d)
        BY <1>0, <4>3, ReloadMoves DEF Reload, Moved
      <4>4. CASE Chat(d) \/ CancelRun(d)
        BY <1>0, <4>4, ServeMoves DEF Moved
      <4>5. CASE Restore(d) \/ Mint(d) \/ UpsertRun(d) \/ SaveCheckpoint(d)
        BY <1>0, <4>5, ServeMoves DEF Moved
      <4>6. CASE Ceiling(d) \/ ProviderReturns(d) \/ ProviderFails(d)
        BY <4>6 DEF Ceiling, ProviderReturns, ProviderFails, At
      <4>7. QED
        BY <2>6, <4>1, <4>2, <4>3, <4>4, <4>5, <4>6 DEF ProcessStep, Serve
    <3>2. Owed'[d] <= Owed[d]
      BY <1>0, <2>3, <3>1
    <3>3. QED
      BY <1>2, <2>2, <2>6, <3>2
  <2>7. QED
    BY <2>4, <2>5, <2>6
<1>5. QED
  BY <1>3, <1>4

\* The sum of the ledger lacks the calls being recorded, the ones lost with a
\* killed process and the ones a failed statement kept out, and has none twice.
LEMMA LedgerInvInductive ==
    /\ Init => LedgerInv
    /\ TypeInv /\ LedgerInv /\ [Next]_vars => LedgerInv'
<1>1. ASSUME Init PROVE LedgerInv
  <2>1. Pending \in [Daemons -> Nat] /\ \A d \in Daemons : Pending[d] = 0
    BY <1>1 DEF Init, Pending, At, Stopped
  <2>2. Owed \in [Daemons -> Nat] /\ \A d \in Daemons : Owed[d] = 0
    BY <1>1 DEF Init, Owed, Stopped
  <2>3. SumFunction(Pending) = 0 /\ SumFunction(Owed) = 0
    BY <2>1, <2>2, SumOfZeros, SharedAssumption
  <2>4. QED
    BY <1>1, <2>3, SharedAssumption DEF Init, LedgerInv, NoCharge, Charges
<1>2. ASSUME TypeInv, LedgerInv, Next PROVE LedgerInv'
  <2>1. PICK d \in Daemons : ProcessStep(d)
    BY <1>2 DEF Next, ProcessStep
  <2> DEFINE P == SumFunction(Pending)   Q == SumFunction(Pending')
             O == SumFunction(Owed)      R == SumFunction(Owed')
             M == MaxCost.dollars        L == M * (crashes + faults)
             N == M * (crashes' + faults')
  <2>2. Q = P - Pending[d] + Pending'[d]
    BY <1>2, <2>1, LedgerStep, SumOfChanged, SharedAssumption
  <2>3. P \in Nat /\ Q \in Nat /\ Pending[d] \in Nat /\ Pending'[d] \in Nat
    BY <1>2, <2>1, LedgerStep, SumType, SharedAssumption
  <2>4. O \in Nat /\ R \in Nat /\ Owed[d] \in Nat /\ Owed'[d] \in Nat
    BY <1>2, <2>1, OwedStep, SumType, SharedAssumption
  <2>5. DifferAt(Owed, Owed', d) => R = O - Owed[d] + Owed'[d]
    BY <1>2, <2>1, OwedStep, SumOfChanged, SharedAssumption
  <2>6. (\A e \in Daemons : Owed'[e] = 0) => R = 0
    BY <1>2, <2>1, OwedStep, SumOfZeros, SharedAssumption
  <2>7. /\ ledger.dollars \in Nat /\ metered.dollars \in Nat /\ M \in Nat
        /\ crashes \in Nat /\ faults \in Nat
    BY <1>2, SharedAssumption DEF TypeInv, TypeOK, Charges
  <2>8. /\ \A n \in Nat : M * (n + 1) = M * n + M
        /\ \A n \in Nat : M * n \in Nat
    BY <2>7
  <2>9. Fault => ~Crash(d) /\ faults' = faults + 1
    BY <2>7 DEF Fault, Crash
  <2>10. Crash(d) => crashes' = crashes + 1 /\ faults' = faults
    BY DEF Crash
  <2>11. UNCHANGED faults \/ Fault
    BY <1>2, <2>1, FaultsCounted
  <2>12. L \in Nat
    <3>1. crashes + faults \in Nat
      BY <2>7
    <3>2. QED
      BY <2>8, <3>1, Zenon
  <2>13. (UNCHANGED crashes /\ UNCHANGED faults) => N = L
    <3>1. SUFFICES ASSUME crashes' = crashes, faults' = faults PROVE N = L
      OBVIOUS
    <3>2. crashes' + faults' = crashes + faults
      BY <3>1
    <3>3. QED
      BY <3>2
  <2>14. (UNCHANGED crashes /\ Fault) => N = L + M
    <3>1. (UNCHANGED crashes /\ Fault) => crashes' + faults' = (crashes + faults) + 1
      BY <2>7, <2>9
    <3>2. M * ((crashes + faults) + 1) = L + M
      BY <2>7, <2>8
    <3>3. QED
      BY <3>1, <3>2
  <2>15. Crash(d) => N = L + M
    <3>1. Crash(d) => crashes' + faults' = (crashes + faults) + 1
      BY <2>7, <2>10
    <3>2. M * ((crashes + faults) + 1) = L + M
      BY <2>7, <2>8
    <3>3. QED
      BY <3>1, <3>2
  <2>16. ledger.dollars + P <= metered.dollars /\ metered.dollars + O <= ledger.dollars + P + L
    BY <1>2 DEF LedgerInv
  <2>17. LedgerInv' <=> /\ ledger'.dollars + Q <= metered'.dollars
                        /\ metered'.dollars + R <= ledger'.dollars + Q + N
    BY DEF LedgerInv
  <2>18. \/ R <= O
         \/ BeginStep(d) /\ Fault /\ R <= O + M
    BY <1>2, <2>1, <2>4, <2>5, <2>6, <2>7, OwedStep
  <2>19. (AppendLedger(d) /\ row = Nil) => R = O - M
    BY <1>2, <2>1, <2>4, <2>5, <2>7, OwedStep
  <2>20. CASE \E k \in Nat : /\ Pending[d] = 0 /\ Pending'[d] = k
                             /\ metered'.dollars = metered.dollars + k
                             /\ UNCHANGED <<ledger, crashes>>
    <3>1. \/ R <= O /\ N = L
          \/ R <= O + M /\ N = L + M
      BY <2>4, <2>7, <2>11, <2>12, <2>13, <2>14, <2>18, <2>20
    <3> HIDE DEF P, Q, O, R, M, L, N
    <3>2. QED
      BY <2>2, <2>3, <2>4, <2>7, <2>12, <2>16, <2>17, <2>20, <3>1
  <2>21. CASE /\ ledger'.dollars = ledger.dollars + Pending[d] /\ Pending'[d] = 0
              /\ UNCHANGED <<metered, crashes>>
    <3>1. \/ R <= O /\ N = L
          \/ R <= O + M /\ N = L + M
      BY <2>4, <2>7, <2>11, <2>12, <2>13, <2>14, <2>18, <2>21
    <3> HIDE DEF P, Q, O, R, M, L, N
    <3>2. QED
      BY <2>2, <2>3, <2>4, <2>7, <2>12, <2>16, <2>17, <2>21, <3>1
  <2>22. CASE /\ Pending[d] <= MaxCost.dollars /\ Pending'[d] = 0
              /\ \/ Crash(d)
                 \/ AppendLedger(d) /\ row = Nil /\ UNCHANGED crashes
                 \/ AppendLedger(d) /\ row # Nil /\ Fault /\ UNCHANGED crashes
              /\ UNCHANGED <<ledger, metered>>
    <3>1. ~BeginStep(d) \/ ~Fault
      BY <2>9, <2>22 DEF BeginStep, AppendLedger, At
    <3>2. R <= O
      BY <2>18, <3>1
    <3>3. \/ R <= O /\ N = L + M
          \/ R = O - M /\ N = L
          \/ R = O - M /\ N = L + M
      BY <2>11, <2>13, <2>14, <2>15, <2>19, <2>22, <3>2
    <3> HIDE DEF P, Q, O, R, L, N
    <3>4. QED
      BY <2>2, <2>3, <2>4, <2>7, <2>12, <2>16, <2>17, <2>22, <3>3
  <2>23. CASE Pending'[d] = Pending[d] /\ UNCHANGED <<ledger, metered, crashes>>
    <3>1. \/ R <= O /\ N = L
          \/ R <= O + M /\ N = L + M
      BY <2>4, <2>7, <2>11, <2>12, <2>13, <2>14, <2>18, <2>23
    <3> HIDE DEF P, Q, O, R, M, L, N
    <3>2. QED
      BY <2>2, <2>3, <2>4, <2>7, <2>12, <2>16, <2>17, <2>23, <3>1
  <2>24. QED
    BY <1>2, <2>1, <2>20, <2>21, <2>22, <2>23, LedgerStep
<1>3. ASSUME TypeInv, LedgerInv, UNCHANGED vars PROVE LedgerInv'
  <2>1. Pending' = Pending /\ Owed' = Owed
    BY <1>3 DEF vars, store, Pending, Owed, At
  <2>2. QED
    BY <1>3, <2>1 DEF LedgerInv, vars, store, counts
<1>4. QED
  BY <1>1, <1>2, <1>3

\* The cost ledger is complete over all daemons: it never has more than was
\* metered, and lacks at most one maximal call for each daemon that is writing one,
\* for each killed process and for each store statement that failed (AppendLedger
\* inserts, best effort; it replaces nothing).
THEOREM LedgerCompleteHolds == Spec => []LedgerComplete
<1>1. ASSUME TypeInv, LedgerInv PROVE LedgerComplete
  <2>1. /\ ledger.dollars \in Nat /\ metered.dollars \in Nat /\ MaxCost.dollars \in Nat
        /\ crashes \in Nat /\ faults \in Nat
    BY <1>1, SharedAssumption DEF TypeInv, TypeOK, Charges
  <2>2. \A d \in Daemons : node[d].cost.dollars \in Nat
    BY <1>1 DEF TypeInv, TypeOK, Nodes, Charges
  <2>3. /\ Pending \in [Daemons -> Nat]
        /\ Uncharged \in SUBSET Daemons
        /\ \A d \in Uncharged : Pending[d] <= MaxCost.dollars
        /\ \A d \in Daemons \ Uncharged : Pending[d] = 0
    BY <1>1, <2>2 DEF Pending, Uncharged, At, TypeInv, ControlOK, NodeOK
  <2>4. SumFunction(Pending) <= MaxCost.dollars * Cardinality(Uncharged)
    BY <2>1, <2>3, SumBounded, SharedAssumption
  <2>5. SumFunction(Pending) \in Nat
    BY <2>3, SumType, SharedAssumption
  <2>6. Owed \in [Daemons -> Nat]
    BY <2>1 DEF Owed
  <2>7. SumFunction(Owed) \in Nat
    BY <2>6, SumType, SharedAssumption
  <2>8. Cardinality(Uncharged) \in Nat
    BY <2>3, FS_Subset, FS_CardinalityType, SharedAssumption
  <2>9. PICK lost \in Nat : lost = crashes + faults
    BY <2>1
  <2>10. MaxCost.dollars * (Cardinality(Uncharged) + lost)
          = MaxCost.dollars * Cardinality(Uncharged) + MaxCost.dollars * lost
    BY <2>1, <2>8
  <2>11. MaxCost.dollars * Cardinality(Uncharged) \in Nat /\ MaxCost.dollars * lost \in Nat
    BY <2>1, <2>8
  <2>12. Cardinality(Uncharged) + crashes + faults = Cardinality(Uncharged) + lost
    BY <2>1, <2>8, <2>9
  <2>13. /\ ledger.dollars <= metered.dollars
         /\ metered.dollars <= ledger.dollars + SumFunction(Pending) + MaxCost.dollars * lost
    BY <1>1, <2>1, <2>5, <2>7, <2>9, <2>11 DEF LedgerInv
  <2>14. QED
    BY <2>1, <2>4, <2>5, <2>10, <2>11, <2>12, <2>13 DEF LedgerComplete
<1>2. QED
  BY <1>1, TypeInvInductive, LedgerInvInductive, PTL DEF Spec

----------------------------------------------------------------------------
(* The budget of every process.                                            *)

\* The most a process can have spent: the ceiling lets the last call start below
\* the budget.
Most == Budget.dollars - 1 + MaxCost.dollars

\* No copy of the run exceeds that, and a call starts below the budget.
CopiesBounded ==
    /\ row # Nil => row.dollars <= Most
    /\ cp # Nil => cp.dollars <= Most
    /\ \A d \in Daemons :
         /\ node[d].run # Nil => node[d].run.dollars <= Most
         /\ node[d].snap # Nil => node[d].snap.dollars <= Most
         /\ At(d, "inflight") => node[d].run.dollars < Budget.dollars

\* What the process of d may still spend.
Headroom == [d \in Daemons |-> IF node[d].pc \in ExitPCs THEN 0
                               ELSE IF node[d].run = Nil THEN Most
                               ELSE Most - node[d].run.dollars]

SpendInv == metered.dollars + SumFunction(Headroom) <= boots * Most

\* Rows, checkpoints and copies come from each other.
Bounded(u) == u # Nil => u.dollars <= Most

\* The registers of d after a step, and the rows, are within the bound.
LEMMA BoundKept ==
    ASSUME TypeInv, Budget.dollars > 0, CopiesBounded, NEW d \in Daemons, ProcessStep(d)
    PROVE  /\ Bounded(row') /\ Bounded(cp')
           /\ Bounded(node'[d].run) /\ Bounded(node'[d].snap)
           /\ node'[d].pc = "inflight" => node'[d].run.dollars < Budget.dollars
<1>0. /\ TypeOK /\ NodeOK(d)
      /\ node[d].run \in LiveRuns \cup {Nil} /\ node[d].snap \in Rows \cup {Nil}
      /\ row \in Rows \cup {Nil} /\ cp \in Checkpoints \cup {Nil}
      /\ MaxCost.dollars \in Nat /\ Budget.dollars \in Nat /\ Most \in Nat
  <2>1. MaxCost.dollars \in Nat /\ Budget.dollars \in Nat
    BY SharedAssumption, BudgetAssumption DEF Charges
  <2>2. Most \in Nat
    BY <2>1 DEF Most
  <2>3. QED
    BY <2>1, <2>2, NodeTypes DEF TypeInv, TypeOK, ControlOK
<1>1. /\ Bounded(Nil) /\ Bounded(row) /\ Bounded(cp) /\ Bounded(node[d].run) /\ Bounded(node[d].snap)
  BY DEF CopiesBounded, Bounded
<1>2. Bounded(NewRun)
  BY <1>0 DEF Bounded, NewRun
<1>3. \A g \in LiveRuns : Bounded(g) => Bounded(Record(g)) /\ Bounded(Snapshot(g))
                                          /\ Bounded(CanProceed(g)) /\ Bounded(Cancel(g))
                                          /\ Bounded(PreStep(g))
  <2>1. \A g \in LiveRuns : /\ Record(g).dollars = g.dollars /\ Snapshot(g).dollars = g.dollars
                            /\ CanProceed(g).dollars = g.dollars /\ Cancel(g).dollars = g.dollars
    BY UsageKept DEF SameUsage
  <2>2. \A g \in LiveRuns : PreStep(g).dollars = g.dollars
    BY UsageCounted, SharedAssumption
  <2>3. \A g \in LiveRuns : g # Nil
    BY SharedAssumption
  <2>4. QED
    BY <2>1, <2>2, <2>3 DEF Bounded
<1>4. \A rec \in Rows : Bounded(rec) => /\ Bounded(Reloaded(rec)) /\ Bounded(Reconciled(rec, cp))
                                        /\ Bounded(Reconciled(rec, Nil))
  <2>1. \A rec \in Rows : Reloaded(rec).dollars = rec.dollars
    BY UsageKept DEF SameUsage
  <2>2. \A rec \in Rows : \/ Reconciled(rec, cp).dollars = rec.dollars
                          \/ cp # Nil /\ Reconciled(rec, cp).dollars = cp.dollars
    BY <1>0, UsageKept DEF SameUsage
  <2>3. \A rec \in Rows : rec # Nil
    BY SharedAssumption
  <2>4. \A rec \in Rows : Reconciled(rec, Nil) = rec
    BY DEF Reconciled
  <2>5. QED
    BY <1>1, <2>1, <2>2, <2>3, <2>4 DEF Bounded
<1>5. CASE Start(d) \/ Crash(d)
  <2>1. UNCHANGED <<row, cp>>
    BY <1>5 DEF Start, Crash, store
  <2>2. QED
    BY <1>0, <1>1, <1>5, <2>1, ProcessMoves DEF Moved
<1>6. CASE Boot(d)
  <2>1. UNCHANGED <<row, cp>>
    BY <1>6 DEF Boot, CheckVersion, NextPending, ApplyMigration, ListRunning, BootFails, store
  <2>2. /\ node'[d].run = node[d].run /\ node'[d].snap \in {node[d].snap, row}
        /\ node'[d].pc # "inflight"
    BY <1>0, <1>6, BootMoves DEF Boot, Moved
  <2>3. QED
    BY <1>1, <2>1, <2>2
<1>7. CASE Reload(d)
  <2>1. row' \in {row, node[d].snap} /\ cp' = cp
    BY <1>7 DEF Reload, LatestCheckpoint, UpsertRollback, Register, Persist, store
  <2>2. node'[d].pc # "inflight"
    BY <1>0, <1>7, ReloadMoves DEF Reload, Moved
  <2>3. CASE LatestCheckpoint(d)
    <3>1. node[d].snap \in Rows
      BY <1>0, <2>3 DEF LatestCheckpoint, At, NodeOK
    <3>2. /\ node'[d].run = node[d].run
          /\ node'[d].snap \in {Reconciled(node[d].snap, cp), Reconciled(node[d].snap, Nil)}
      BY <1>0, <2>3, ReloadMoves DEF Moved
    <3>3. QED
      BY <1>1, <1>4, <2>1, <2>2, <3>1, <3>2
  <2>4. CASE UpsertRollback(d)
    BY <1>0, <1>1, <2>1, <2>2, <2>4, ReloadMoves DEF Moved
  <2>5. CASE Register(d)
    <3>1. /\ node'[d].run = IF node[d].snap = Nil THEN NewRun ELSE Reloaded(node[d].snap)
          /\ node'[d].snap = Nil
      BY <1>0, <2>5, ReloadMoves DEF Moved
    <3>2. QED
      BY <1>0, <1>1, <1>2, <1>4, <2>1, <2>2, <3>1
  <2>6. QED
    BY <1>7, <2>3, <2>4, <2>5 DEF Reload
<1>8. CASE Chat(d) \/ Restore(d) \/ ProviderFails(d) \/ AppendLedger(d)
  <2>1. UNCHANGED <<row, cp>>
    BY <1>8 DEF Chat, Restore, ProviderFails, AppendLedger, store
  <2>2. /\ node'[d].run = node[d].run /\ node'[d].snap \in {node[d].snap, row, Nil}
        /\ node'[d].pc # "inflight"
    BY <1>0, <1>8, ServeMoves DEF Moved
  <2>3. QED
    BY <1>1, <2>1, <2>2
<1>9. CASE Mint(d) \/ UpsertRun(d) \/ SaveCheckpoint(d)
  <2>1. node[d].run \in LiveRuns
    BY <1>0, <1>9 DEF Mint, UpsertRun, SaveCheckpoint, At, NodeOK, RequestPCs
  <2>2. row' \in {row, Record(node[d].run)} /\ cp' \in {cp, Snapshot(node[d].run)}
    BY <1>9 DEF Mint, UpsertRun, SaveCheckpoint, Persist, ChildWrite
  <2>3. /\ node'[d].run = node[d].run /\ node'[d].snap = node[d].snap
        /\ node'[d].pc # "inflight"
    BY <1>0, <1>9, ServeMoves DEF Moved
  <2>4. QED
    BY <1>1, <1>3, <2>1, <2>2, <2>3
<1>10. CASE BeginStep(d) \/ Ceiling(d)
  <2>1. node[d].run \in LiveRuns
    BY <1>0, <1>10 DEF BeginStep, Ceiling, At, NodeOK, RequestPCs
  <2>2. PICK g \in LiveRuns :
          /\ g = PreStep(node[d].run) \/ g = CanProceed(node[d].run)
          /\ row' \in {row, Record(g)} /\ cp' = cp
          /\ node'[d].run = g /\ node'[d].snap = node[d].snap
          /\ node'[d].pc = "inflight" => g = CanProceed(node[d].run) /\ g.halted = HaltNone
    BY <1>0, <1>10, <2>1, ServeMoves, GovernorTypes, SharedAssumption
    DEF Moved, BeginStep, Ceiling, Guarded, Persist
  <2>3. node'[d].pc = "inflight" => g.dollars < Budget.dollars
    BY <2>1, <2>2, UnderBudget
  <2>4. Bounded(g) /\ Bounded(Record(g))
    BY <1>1, <1>3, <2>1, <2>2
  <2>5. QED
    BY <1>1, <2>2, <2>3, <2>4
<1>11. CASE ProviderReturns(d)
  <2>1. PICK cost \in Costs :
          Moved(d, "ledger", node[d].op, RecordUsage(node[d].run, cost), node[d].snap, cost)
    BY <1>0, <1>11, ServeMoves
  <2>2. cost \in Charges /\ cost.dollars \in Nat /\ cost.dollars <= MaxCost.dollars
    BY SharedAssumption DEF Charges
  <2>3. node[d].run \in LiveRuns /\ node[d].run.dollars < Budget.dollars
    BY <1>0, <1>11 DEF ProviderReturns, At, NodeOK, RequestPCs, CopiesBounded
  <2>4. RecordUsage(node[d].run, cost).dollars = node[d].run.dollars + cost.dollars
    BY <2>2, <2>3, UsageCounted
  <2>5. node[d].run.dollars \in Nat
    BY <2>3 DEF LiveRuns
  <2>6. RecordUsage(node[d].run, cost).dollars <= Most
    BY <1>0, <2>2, <2>3, <2>4, <2>5 DEF Most
  <2>7. UNCHANGED <<row, cp>>
    BY <1>11 DEF ProviderReturns, store
  <2>8. QED
    BY <1>1, <2>1, <2>6, <2>7 DEF Moved, Bounded
<1>12. CASE CancelRun(d)
  <2>1. /\ node'[d].run = IF node[d].run = Nil THEN Nil ELSE Cancel(node[d].run)
        /\ node'[d].snap = node[d].snap /\ node'[d].pc = "idle"
    BY <1>0, <1>12, ServeMoves DEF Moved
  <2>2. /\ cp' = cp
        /\ \/ row' = row
           \/ node[d].run # Nil /\ row' = Record(Cancel(node[d].run))
    BY <1>12 DEF CancelRun, Persist
  <2>3. node[d].run # Nil => Cancel(node[d].run) \in LiveRuns
    BY <1>0, GovernorTypes, SharedAssumption
  <2>4. QED
    BY <1>0, <1>1, <1>3, <2>1, <2>2, <2>3
<1>13. QED
  BY <1>5, <1>6, <1>7, <1>8, <1>9, <1>10, <1>11, <1>12 DEF ProcessStep, Serve

\* What a step does to what the processes may still spend.
LEMMA SpendStep ==
    ASSUME TypeInv, Budget.dollars > 0, CopiesBounded, NEW d \in Daemons, ProcessStep(d)
    PROVE  /\ CopiesBounded'
           /\ Headroom \in [Daemons -> Nat] /\ Headroom' \in [Daemons -> Nat]
           /\ DifferAt(Headroom, Headroom', d)
           /\ \/ /\ Headroom[d] = 0 /\ Headroom'[d] = Most
                 /\ boots' = boots + 1 /\ UNCHANGED metered
              \/ \E k \in Nat : /\ Headroom'[d] = Headroom[d] - k
                                /\ metered'.dollars = metered.dollars + k
                                /\ UNCHANGED boots
              \/ Headroom'[d] <= Headroom[d] /\ UNCHANGED <<metered, boots>>
<1>0. /\ TypeOK /\ NodeOK(d) /\ StepOf(d)
      /\ node[d].run \in LiveRuns \cup {Nil} /\ node[d].snap \in Rows \cup {Nil}
      /\ Most \in Nat
  <2>1. MaxCost.dollars \in Nat /\ Budget.dollars \in Nat
    BY SharedAssumption, BudgetAssumption DEF Charges
  <2>2. Most \in Nat
    BY <2>1 DEF Most
  <2>3. StepOf(d)
    BY BootTypes, ServeTypes DEF ProcessStep
  <2>4. QED
    BY <2>2, <2>3, NodeTypes DEF TypeInv, TypeOK, ControlOK
<1>1. CopiesBounded'
  <2>1. ASSUME NEW e \in Daemons
        PROVE  /\ node'[e].run # Nil => node'[e].run.dollars <= Most
               /\ node'[e].snap # Nil => node'[e].snap.dollars <= Most
               /\ node'[e].pc = "inflight" => node'[e].run.dollars < Budget.dollars
    <3>1. CASE e = d
      BY <3>1, BoundKept DEF Bounded
    <3>2. CASE e # d
      BY <1>0, <3>2 DEF StepOf, CopiesBounded, At
    <3>3. QED
      BY <3>1, <3>2
  <2>2. Most' = Most
    BY DEF Most
  <2>3. QED
    BY <2>1, <2>2, BoundKept DEF CopiesBounded, Bounded, At
<1>2. Headroom \in [Daemons -> Nat] /\ Headroom' \in [Daemons -> Nat]
  <2>1. \A e \in Daemons : node[e].run # Nil => Most - node[e].run.dollars \in Nat
    <3>1. \A e \in Daemons : node[e].run # Nil => node[e].run.dollars \in Nat
      BY NodeTypes DEF TypeInv, LiveRuns
    <3>2. QED
      BY <1>0, <3>1 DEF CopiesBounded
  <2>2. \A e \in Daemons : node'[e].run # Nil => Most - node'[e].run.dollars \in Nat
    <3>1. \A e \in Daemons : node'[e].run # Nil => node'[e].run.dollars \in Nat
      BY <1>0 DEF StepOf, Nodes, LiveRuns
    <3>2. \A e \in Daemons : node'[e].run # Nil => node'[e].run.dollars <= Most
      BY <1>1 DEF CopiesBounded, Most
    <3>3. QED
      BY <1>0, <3>1, <3>2
  <2>3. Most' = Most
    BY DEF Most
  <2>4. QED
    BY <1>0, <2>1, <2>2, <2>3 DEF Headroom
<1>3. Most' = Most
  BY DEF Most
<1>4. DifferAt(Headroom, Headroom', d)
  BY <1>0, <1>3 DEF DifferAt, Headroom, StepOf
<1>5. /\ Headroom[d] = IF node[d].pc \in ExitPCs THEN 0
                       ELSE IF node[d].run = Nil THEN Most ELSE Most - node[d].run.dollars
      /\ Headroom'[d] = IF node'[d].pc \in ExitPCs THEN 0
                        ELSE IF node'[d].run = Nil THEN Most ELSE Most - node'[d].run.dollars
      /\ Headroom[d] \in Nat /\ Headroom'[d] \in Nat
  BY <1>2, <1>3 DEF Headroom
<1>6. CASE Start(d)
  <2>1. node[d].pc \in ExitPCs /\ boots' = boots + 1 /\ UNCHANGED metered
    BY <1>6 DEF Start
  <2>2. node'[d].pc = "check" /\ node'[d].run = Nil
    BY <1>0, <1>6, ProcessMoves DEF Moved
  <2>3. Headroom[d] = 0 /\ Headroom'[d] = Most
    BY <1>5, <2>1, <2>2 DEF ExitPCs
  <2>4. QED
    BY <1>1, <1>2, <1>4, <2>1, <2>3
<1>7. CASE ProviderReturns(d)
  <2>1. PICK cost \in Costs :
          /\ Moved(d, "ledger", node[d].op, RecordUsage(node[d].run, cost), node[d].snap, cost)
          /\ metered' = Add(metered, cost)
    BY <1>0, <1>7, ServeMoves
  <2>2. cost \in Charges /\ cost.dollars \in Nat
    BY SharedAssumption DEF Charges
  <2>3. node[d].run \in LiveRuns /\ node[d].pc = "inflight" /\ node[d].run # Nil
    BY <1>0, <1>7, SharedAssumption DEF ProviderReturns, At, NodeOK, RequestPCs
  <2>4. RecordUsage(node[d].run, cost).dollars = node[d].run.dollars + cost.dollars
    BY <2>2, <2>3, UsageCounted
  <2>5. RecordUsage(node[d].run, cost) # Nil
    BY <2>2, <2>3, GovernorTypes, SharedAssumption
  <2>6. node[d].run.dollars \in Nat
    BY <2>3 DEF LiveRuns
  <2>7. Headroom[d] = Most - node[d].run.dollars
    BY <1>5, <2>3 DEF ExitPCs
  <2>8. Headroom'[d] = Most - (node[d].run.dollars + cost.dollars)
    BY <1>5, <2>1, <2>4, <2>5 DEF ExitPCs, Moved
  <2>9. Headroom'[d] = Headroom[d] - cost.dollars
    BY <1>0, <2>2, <2>6, <2>7, <2>8
  <2>10. metered'.dollars = metered.dollars + cost.dollars /\ UNCHANGED boots
    BY <1>7, <2>1 DEF Add, ProviderReturns, counts
  <2>11. QED
    BY <1>1, <1>2, <1>4, <2>2, <2>9, <2>10
<1>8. CASE ~(Start(d) \/ ProviderReturns(d))
  <2>1. UNCHANGED <<metered, boots>>
    BY <1>8 DEF ProcessStep, Crash, Boot, CheckVersion, NextPending, ApplyMigration, ListRunning,
         BootFails, Reload, LatestCheckpoint, UpsertRollback, Register, Chat, Serve, Restore, Mint, BeginStep,
         Ceiling, Guarded, ProviderFails, AppendLedger, UpsertRun, SaveCheckpoint, CancelRun, counts
  <2>2. \/ node'[d].pc \in ExitPCs
        \/ node[d].pc \notin ExitPCs /\ node[d].run = Nil
        \/ /\ node[d].pc \notin ExitPCs
           /\ node[d].run # Nil /\ node'[d].run # Nil
           /\ node'[d].run.dollars = node[d].run.dollars
    <3> USE DEF ExitPCs
    <3>1. CASE Crash(d)
      BY <1>0, <3>1, ProcessMoves DEF Moved
    <3>2. CASE Boot(d) \/ Reload(d)
      BY <1>0, <3>2 DEF Boot, CheckVersion, NextPending, ApplyMigration, ListRunning, BootFails,
           Reload, LatestCheckpoint, UpsertRollback, Register, At, NodeOK, BootPCs, ReloadPCs
    <3>3. CASE Chat(d) \/ Restore(d) \/ Mint(d) \/ ProviderFails(d) \/ AppendLedger(d)
                 \/ UpsertRun(d) \/ SaveCheckpoint(d)
      <4>1. node'[d].run = node[d].run
        BY <1>0, <3>3, ServeMoves DEF Moved
      <4>2. node[d].pc \notin ExitPCs
        BY <3>3 DEF Chat, Restore, Mint, ProviderFails, AppendLedger, UpsertRun, SaveCheckpoint, At
      <4>3. QED
        BY <4>1, <4>2
    <3>4. CASE BeginStep(d) \/ Ceiling(d)
      <4>1. node[d].run \in LiveRuns /\ node[d].pc \notin ExitPCs
        BY <1>0, <3>4 DEF BeginStep, Ceiling, At, NodeOK, RequestPCs
      <4>2. node'[d].run \in {PreStep(node[d].run), CanProceed(node[d].run)}
        BY <1>0, <3>4, ServeMoves DEF Moved
      <4>3. /\ PreStep(node[d].run).dollars = node[d].run.dollars
            /\ CanProceed(node[d].run).dollars = node[d].run.dollars
        BY <4>1, UsageCounted, UsageKept, SharedAssumption DEF SameUsage
      <4>4. PreStep(node[d].run) # Nil /\ CanProceed(node[d].run) # Nil /\ node[d].run # Nil
        BY <4>1, GovernorTypes, SharedAssumption
      <4>5. QED
        BY <4>1, <4>2, <4>3, <4>4
    <3>5. CASE CancelRun(d)
      <4>1. node[d].pc \notin ExitPCs
        BY <3>5 DEF CancelRun, At
      <4>2. node'[d].run = IF node[d].run = Nil THEN Nil ELSE Cancel(node[d].run)
        BY <1>0, <3>5, ServeMoves DEF Moved
      <4>3. node[d].run # Nil =>
              Cancel(node[d].run) # Nil /\ Cancel(node[d].run).dollars = node[d].run.dollars
        BY <1>0, GovernorTypes, UsageKept, SharedAssumption DEF SameUsage
      <4>4. QED
        BY <4>1, <4>2, <4>3
    <3>6. QED
      BY <1>8, <3>1, <3>2, <3>3, <3>4, <3>5 DEF ProcessStep, Serve
  <2>3. Headroom'[d] <= Headroom[d]
    <3>1. node'[d].run # Nil => node'[d].run.dollars \in Nat
      BY <1>0 DEF StepOf, Nodes, LiveRuns
    <3>2. Headroom'[d] <= Most
      BY <1>0, <1>5, <3>1
    <3>3. CASE node'[d].pc \in ExitPCs
      BY <1>5, <3>3
    <3>4. CASE node[d].pc \notin ExitPCs /\ node[d].run = Nil
      BY <1>5, <3>2, <3>4
    <3>5. CASE /\ node[d].pc \notin ExitPCs
               /\ node[d].run # Nil /\ node'[d].run # Nil
               /\ node'[d].run.dollars = node[d].run.dollars
      BY <1>5, <3>5
    <3>6. QED
      BY <2>2, <3>3, <3>4, <3>5
  <2>4. QED
    BY <1>1, <1>2, <1>4, <2>1, <2>3
<1>9. QED
  BY <1>6, <1>7, <1>8

BudgetInv == Budget.dollars > 0 => CopiesBounded /\ SpendInv

\* Over all daemons no more is metered than one budget, overshoot included, for
\* every process that was started.
LEMMA BudgetInvInductive ==
    /\ Init => BudgetInv
    /\ TypeInv /\ BudgetInv /\ [Next]_vars => BudgetInv'
<1>0. Budget.dollars > 0 => Most \in Nat
  <2>1. MaxCost.dollars \in Nat /\ Budget.dollars \in Nat
    BY SharedAssumption, BudgetAssumption DEF Charges
  <2>2. QED
    BY <2>1 DEF Most
<1>1. ASSUME Init, Budget.dollars > 0 PROVE CopiesBounded /\ SpendInv
  <2>1. CopiesBounded
    BY <1>1 DEF Init, CopiesBounded, At, Stopped
  <2>2. Headroom \in [Daemons -> Nat] /\ \A d \in Daemons : Headroom[d] = 0
    BY <1>1 DEF Init, Headroom, Stopped, ExitPCs
  <2>3. SumFunction(Headroom) = 0
    BY <2>2, SumOfZeros, SharedAssumption
  <2>4. QED
    BY <1>0, <1>1, <2>1, <2>3 DEF Init, SpendInv, NoCharge
<1>2. ASSUME TypeInv, Budget.dollars > 0, CopiesBounded, SpendInv, Next
      PROVE  CopiesBounded' /\ SpendInv'
  <2>1. PICK d \in Daemons : ProcessStep(d)
    BY <1>2 DEF Next, ProcessStep
  <2>2. SumFunction(Headroom') = SumFunction(Headroom) - Headroom[d] + Headroom'[d]
    BY <1>2, <2>1, SpendStep, SumOfChanged, SharedAssumption
  <2>3. /\ SumFunction(Headroom) \in Nat /\ Headroom[d] \in Nat /\ Headroom'[d] \in Nat
        /\ SumFunction(Headroom') \in Nat
    BY <1>2, <2>1, SpendStep, SumType, SharedAssumption
  <2>4. metered.dollars \in Nat /\ boots \in Nat /\ Most \in Nat /\ Most' = Most
    BY <1>0, <1>2 DEF TypeInv, TypeOK, Charges, Most
  <2>5. (boots + 1) * Most = boots * Most + Most /\ boots * Most \in Nat
    BY <2>4
  <2>6. metered.dollars + SumFunction(Headroom) <= boots * Most
    BY <1>2 DEF SpendInv
  <2>7. CASE /\ Headroom[d] = 0 /\ Headroom'[d] = Most
             /\ boots' = boots + 1 /\ UNCHANGED metered
    <3>1. metered'.dollars + SumFunction(Headroom') <= boots * Most + Most
      BY <2>2, <2>3, <2>4, <2>5, <2>6, <2>7
    <3>2. QED
      BY <1>2, <2>1, <2>4, <2>5, <2>7, <3>1, SpendStep DEF SpendInv
  <2>8. CASE \E k \in Nat : /\ Headroom'[d] = Headroom[d] - k
                            /\ metered'.dollars = metered.dollars + k
                            /\ UNCHANGED boots
    <3>1. metered'.dollars + SumFunction(Headroom') <= boots * Most
      BY <2>2, <2>3, <2>4, <2>5, <2>6, <2>8
    <3>2. QED
      BY <1>2, <2>1, <2>4, <2>8, <3>1, SpendStep DEF SpendInv
  <2>9. CASE Headroom'[d] <= Headroom[d] /\ UNCHANGED <<metered, boots>>
    <3>1. metered'.dollars + SumFunction(Headroom') <= boots * Most
      BY <2>2, <2>3, <2>4, <2>5, <2>6, <2>9
    <3>2. QED
      BY <1>2, <2>1, <2>4, <2>9, <3>1, SpendStep DEF SpendInv
  <2>10. QED
    BY <1>2, <2>1, <2>7, <2>8, <2>9, SpendStep
<1>3. ASSUME CopiesBounded, SpendInv, UNCHANGED vars PROVE CopiesBounded' /\ SpendInv'
  <2>1. Headroom' = Headroom
    BY <1>3 DEF vars, Headroom, Most
  <2>2. QED
    BY <1>3, <2>1 DEF CopiesBounded, SpendInv, Most, At, vars, store, counts
<1>4. QED
  BY <1>1, <1>2, <1>3 DEF BudgetInv

----------------------------------------------------------------------------
(* Failover.                                                               *)

\* Rows and checkpoints go together: a row is marked with its halt, checkpoints
\* come after the row, and the latest one of a running row is not ahead of it.
WellFormed(rec) == Terminal(rec) <=> rec.halted # HaltNone

RecordsOK ==
    /\ row # Nil => WellFormed(row)
    /\ row = Nil => cp = Nil
    /\ \A d \in Daemons : /\ node[d].snap # Nil => WellFormed(node[d].snap) /\ row # Nil
                          /\ node[d].run # Nil => node[d].pc = "mint" \/ row # Nil

\* What the next daemon would find.
Durable == IF row = Nil THEN 0 ELSE Reconciled(row, cp).dollars

CheckpointBehind ==
    (row # Nil /\ ~Terminal(row) /\ cp # Nil) =>
        /\ cp.loops <= row.loops
        /\ cp.loops = row.loops => cp.dollars = row.dollars

Lost == MaxCost.dollars * crashes

\* The only daemon with a copy, while it makes it ...
Reading(d) ==
    /\ node[d].pc = "reload" => node[d].snap = row
    /\ node[d].pc = "rollback" => node[d].snap = Reconciled(row, cp)
    /\ node[d].pc = "register" => node[d].snap = row /\ (row # Nil => Reconciled(row, cp) = row)
    /\ metered.dollars <= Durable + Lost

\* ... and while it has it: its copy has everything but the lost calls, and row
\* and checkpoint are behind it by the call it is recording, at most.
RowCurrent(d) ==
    /\ row # Nil /\ row.dollars = node[d].run.dollars /\ row.loops = node[d].run.loops
    /\ Terminal(row) <=> node[d].run.halted # HaltNone

Holding(d) ==
    LET g == node[d].run
        k == node[d].cost.dollars
    IN
    /\ metered.dollars <= g.dollars + Lost
    /\ node[d].pc = "mint" => g = NewRun /\ row = Nil /\ cp = Nil
    /\ node[d].pc \in {"idle", "begin", "ceiling", "inflight"} =>
         /\ RowCurrent(d)
         /\ (g.halted = HaltNone /\ cp # Nil) => cp.dollars = g.dollars /\ cp.loops <= g.loops
    /\ node[d].pc \in {"ceiling", "inflight"} =>
         g.halted = HaltNone /\ (cp # Nil => cp.loops < g.loops)
    /\ node[d].pc \in {"ledger", "upsert"} =>
         /\ row # Nil /\ ~Terminal(row) /\ row.dollars + k = g.dollars /\ row.loops = g.loops
         /\ cp # Nil => cp.dollars + k = g.dollars /\ cp.loops < g.loops
    /\ node[d].pc = "checkpoint" =>
         /\ RowCurrent(d)
         /\ cp # Nil => cp.dollars + k = g.dollars /\ cp.loops < g.loops

CopyOK(d) == IF node[d].run = Nil THEN Reading(d) ELSE Holding(d)

FailoverInv ==
    ~shared => /\ \A d, e \in Copies(node) : d = e
               /\ \A d \in Copies(node) : CopyOK(d)
               /\ Copies(node) = {} => metered.dollars <= Durable + Lost
               /\ CheckpointBehind

\* The persisted forms of a run are well-formed, and a second reload has nothing to
\* roll back.
LEMMA RecordFacts ==
    ASSUME NEW rec \in Rows, NEW latest \in Checkpoints \cup {Nil}
    PROVE  /\ WellFormed(rec) => WellFormed(Reconciled(rec, latest))
           /\ Terminal(rec) => Reconciled(rec, latest) = rec
           /\ Reconciled(Reconciled(rec, latest), latest) = Reconciled(rec, latest)
           /\ \/ Reconciled(rec, latest) = rec
              \/ /\ latest # Nil /\ ~Terminal(rec)
                 /\ Reconciled(rec, latest).dollars = latest.dollars
                 /\ Reconciled(rec, latest).loops = latest.loops
           /\ (Reconciled(rec, latest) = rec /\ ~Terminal(rec) /\ latest # Nil) =>
                 latest.loops >= rec.loops
<1> DEFINE back == [rec EXCEPT !.tokens = latest.tokens, !.dollars = latest.dollars,
                               !.loops = latest.loops]
<1>1. CASE ~Terminal(rec) /\ latest # Nil /\ latest.loops < rec.loops
  <2>1. latest \in Checkpoints /\ latest.loops \in Nat /\ rec.loops \in Nat
    BY <1>1 DEF Rows, Checkpoints
  <2>2. /\ back.status = rec.status /\ back.halted = rec.halted
        /\ back.dollars = latest.dollars /\ back.loops = latest.loops
    BY DEF Rows
  <2>3. Reconciled(rec, latest) = back
    BY <1>1 DEF Reconciled
  <2> HIDE DEF back
  <2>4. ~(latest.loops < back.loops) /\ back # rec
    BY <1>1, <2>1, <2>2
  <2>5. Reconciled(back, latest) = back
    BY <2>4 DEF Reconciled
  <2>6. QED
    BY <1>1, <2>2, <2>3, <2>4, <2>5 DEF WellFormed, Terminal
<1>2. CASE ~(~Terminal(rec) /\ latest # Nil /\ latest.loops < rec.loops)
  <2>1. Reconciled(rec, latest) = rec
    BY <1>2 DEF Reconciled
  <2>2. latest # Nil => latest.loops \in Nat /\ rec.loops \in Nat
    BY DEF Rows, Checkpoints
  <2>3. QED
    BY <1>2, <2>1, <2>2
<1>3. QED
  BY <1>1, <1>2

\* While no store statement fails, records stay well-formed, and a row is there
\* before anything that needs it.
LEMMA RecordsKept ==
    ASSUME TypeInv, RecordsOK, NEW d \in Daemons, ProcessStep(d), ~Fault
    PROVE  RecordsOK'
<1>0. /\ TypeOK /\ NodeOK(d) /\ StepOf(d)
      /\ node[d].run \in LiveRuns \cup {Nil} /\ node[d].snap \in Rows \cup {Nil}
      /\ row \in Rows \cup {Nil} /\ cp \in Checkpoints \cup {Nil}
  <2>1. StepOf(d)
    BY BootTypes, ServeTypes DEF ProcessStep
  <2>2. QED
    BY <2>1, NodeTypes DEF TypeInv, TypeOK, ControlOK
<1>1. SUFFICES /\ row # Nil => row' # Nil
               /\ row' # Nil => WellFormed(row')
               /\ row' = Nil => cp' = Nil
               /\ node'[d].snap # Nil => WellFormed(node'[d].snap) /\ row' # Nil
               /\ node'[d].run # Nil => node'[d].pc = "mint" \/ row' # Nil
  BY <1>0 DEF RecordsOK, StepOf
<1>2. \A g \in LiveRuns : WellFormed(Record(g)) /\ Record(g) # Nil
  BY StatusOfRecord, PersistedTypes, SharedAssumption DEF WellFormed
<1>3. /\ row # Nil => WellFormed(row)
      /\ row = Nil => cp = Nil
      /\ node[d].snap # Nil => WellFormed(node[d].snap) /\ row # Nil
      /\ node[d].run # Nil => node[d].pc = "mint" \/ row # Nil
  BY DEF RecordsOK
<1>4. CASE Start(d) \/ Crash(d)
  <2>1. UNCHANGED <<row, cp>>
    BY <1>4 DEF Start, Crash, store
  <2>2. QED
    BY <1>0, <1>3, <1>4, <2>1, ProcessMoves DEF Moved
<1>5. CASE Boot(d)
  <2>1. UNCHANGED <<row, cp>>
    BY <1>5 DEF Boot, CheckVersion, NextPending, ApplyMigration, ListRunning, BootFails, store
  <2>2. node'[d].run = node[d].run /\ node'[d].snap \in {node[d].snap, row}
    BY <1>0, <1>5, BootMoves DEF Boot, Moved
  <2>3. node[d].pc # "mint"
    BY <1>5 DEF Boot, CheckVersion, NextPending, ApplyMigration, ListRunning, BootFails, At, BootPCs
  <2>4. QED
    BY <1>3, <2>1, <2>2, <2>3
<1>6. CASE LatestCheckpoint(d)
  <2>1. node[d].snap \in Rows /\ node[d].snap # Nil /\ node[d].pc # "mint"
    BY <1>0, <1>6 DEF LatestCheckpoint, At, NodeOK
  <2>2. node'[d].run = node[d].run /\ node'[d].snap = Reconciled(node[d].snap, cp)
    BY <1>0, <1>6, ReloadMoves DEF Moved
  <2>3. UNCHANGED <<row, cp>>
    BY <1>6 DEF LatestCheckpoint, store
  <2>4. WellFormed(Reconciled(node[d].snap, cp))
    BY <1>0, <1>3, <2>1, RecordFacts
  <2>5. QED
    BY <1>3, <2>1, <2>2, <2>3, <2>4
<1>7. CASE UpsertRollback(d)
  <2>1. node[d].snap # Nil /\ row' = node[d].snap /\ cp' = cp
    BY <1>0, <1>7 DEF UpsertRollback, Persist, At, NodeOK
  <2>2. node'[d].snap = node[d].snap
    BY <1>0, <1>7, ReloadMoves DEF Moved
  <2>3. QED
    BY <1>3, <2>1, <2>2
<1>8. CASE Register(d)
  <2>1. UNCHANGED <<row, cp>>
    BY <1>8 DEF Register, store
  <2>2. node'[d].snap = Nil /\ (node[d].snap = Nil => node'[d].pc = "mint")
    BY <1>0, <1>8, ReloadMoves DEF Moved, Register, At, NodeOK
  <2>3. QED
    BY <1>3, <2>1, <2>2
<1>9. CASE Chat(d) \/ Restore(d) \/ ProviderFails(d) \/ AppendLedger(d)
  <2>1. UNCHANGED <<row, cp>>
    BY <1>9 DEF Chat, Restore, ProviderFails, AppendLedger, store
  <2>2. node'[d].run = node[d].run /\ node'[d].snap \in {node[d].snap, row}
    BY <1>0, <1>9, ServeMoves DEF Moved
  <2>3. node[d].pc # "mint"
    BY <1>9 DEF Chat, Restore, ProviderFails, AppendLedger, At
  <2>4. QED
    BY <1>3, <2>1, <2>2, <2>3
<1>10. CASE Mint(d) \/ UpsertRun(d)
  <2>1. node[d].run \in LiveRuns
    BY <1>0, <1>10 DEF Mint, UpsertRun, At, NodeOK, RequestPCs
  <2>2. row' = Record(node[d].run) /\ cp' = cp
    BY <1>10 DEF Mint, UpsertRun, Persist
  <2>3. node'[d].snap = node[d].snap
    BY <1>0, <1>10, ServeMoves DEF Moved
  <2>4. QED
    BY <1>2, <1>3, <2>1, <2>2, <2>3
<1>11. CASE SaveCheckpoint(d)
  <2>1. node[d].run # Nil /\ node[d].pc # "mint"
    BY <1>0, <1>11 DEF SaveCheckpoint, At, NodeOK, RequestPCs
  <2>2. row' = row
    BY <1>11 DEF SaveCheckpoint
  <2>3. node'[d].run = node[d].run /\ node'[d].snap = node[d].snap
    BY <1>0, <1>11, ServeMoves DEF Moved
  <2>4. QED
    BY <1>3, <2>1, <2>2, <2>3
<1>12. CASE BeginStep(d) \/ Ceiling(d)
  <2>1. node[d].run \in LiveRuns /\ node[d].run # Nil /\ node[d].pc # "mint"
    BY <1>0, <1>12 DEF BeginStep, Ceiling, At, NodeOK, RequestPCs
  <2>2. PICK g \in LiveRuns : row' \in {row, Record(g)} /\ cp' = cp
    BY <1>12, <2>1, GovernorTypes, SharedAssumption DEF BeginStep, Ceiling, Guarded, Persist
  <2>3. node'[d].snap = node[d].snap
    BY <1>0, <1>12, ServeMoves DEF Moved
  <2>4. QED
    BY <1>2, <1>3, <2>1, <2>2, <2>3
<1>13. CASE ProviderReturns(d)
  <2>1. node[d].run # Nil /\ node[d].pc # "mint"
    BY <1>0, <1>13 DEF ProviderReturns, At, NodeOK, RequestPCs
  <2>2. UNCHANGED <<row, cp>>
    BY <1>13 DEF ProviderReturns, store
  <2>3. node'[d].snap = node[d].snap
    BY <1>0, <1>13, ServeMoves DEF Moved
  <2>4. QED
    BY <1>3, <2>1, <2>2, <2>3
<1>14. CASE CancelRun(d)
  <2>1. /\ node'[d].run = IF node[d].run = Nil THEN Nil ELSE Cancel(node[d].run)
        /\ node'[d].snap = node[d].snap
    BY <1>0, <1>14, ServeMoves DEF Moved
  <2>2. /\ cp' = cp
        /\ row' = IF node[d].run = Nil THEN row ELSE Record(Cancel(node[d].run))
    BY <1>14 DEF CancelRun, Persist
  <2>3. node[d].run # Nil => Cancel(node[d].run) \in LiveRuns
    BY <1>0, GovernorTypes, SharedAssumption
  <2>4. QED
    BY <1>2, <1>3, <2>1, <2>2, <2>3
<1>15. QED
  BY <1>4, <1>5, <1>6, <1>7, <1>8, <1>9, <1>10, <1>11, <1>12, <1>13, <1>14
  DEF ProcessStep, Serve, Reload

\* The halts a copy meets: a run the loop guard admits was running, the kill switch
\* halts, and a reload restores the halt of the row.
LEMMA HaltFacts ==
    /\ \A g \in LiveRuns : /\ PreStep(g).halted = HaltNone => g.halted = HaltNone
                           /\ Cancel(g).halted # HaltNone
    /\ \A rec \in Rows : WellFormed(rec) => (Reloaded(rec).halted # HaltNone <=> Terminal(rec))
<1>1. \A g \in LiveRuns, r \in HaltReasons : HaltLocked(g, r).halted # HaltNone
  BY DEF HaltLocked, LiveRuns, HaltReasons, HaltNone, HaltTokenBudget, HaltDollarBudget,
         HaltLoopBudget, HaltTimeBudget, HaltCancelled
<1>2. \A g \in LiveRuns : PreStep(g).halted = HaltNone => g.halted = HaltNone
  BY <1>1 DEF PreStep, HaltReasons
<1>3. \A g \in LiveRuns : Cancel(g).halted # HaltNone
  BY <1>1 DEF Cancel, HaltReasons
<1>4. \A rec \in Rows : WellFormed(rec) => (Reloaded(rec).halted # HaltNone <=> Terminal(rec))
  BY DEF WellFormed, Reloaded, RestoredRun, NewRun, Rows
<1>5. QED
  BY <1>2, <1>3, <1>4

\* A step of the only daemon that has, or is about to have, a copy while it has none.
LEMMA ReaderStep ==
    ASSUME TypeInv, RecordsOK, CheckpointBehind, NEW d \in Daemons, ProcessStep(d), ~Fault,
           node[d].run = Nil, Reading(d)
    PROVE  CheckpointBehind' /\ CopyOK(d)'
<1>0. /\ TypeOK /\ NodeOK(d) /\ node[d].snap \in Rows \cup {Nil}
      /\ row \in Rows \cup {Nil} /\ cp \in Checkpoints \cup {Nil}
      /\ crashes \in Nat /\ MaxCost.dollars \in Nat /\ metered.dollars \in Nat
      /\ row # Nil => Reconciled(row, cp).dollars \in Nat
  <2>1. row \in Rows => Reconciled(row, cp).dollars \in Nat
    BY PersistedTypes DEF TypeInv, TypeOK, Rows
  <2>2. QED
    BY <2>1, NodeTypes, SharedAssumption DEF TypeInv, TypeOK, ControlOK, Charges
<1>1. /\ row # Nil => WellFormed(row)
      /\ row = Nil => cp = Nil
      /\ node[d].snap # Nil => row # Nil
  BY DEF RecordsOK
<1>2. metered.dollars <= Durable + Lost /\ Durable \in Nat /\ Lost \in Nat
  BY <1>0 DEF Reading, Durable, Lost
<1>3. ASSUME UNCHANGED <<row, cp, metered, crashes>>
      PROVE  CheckpointBehind' /\ Durable' = Durable /\ Lost' = Lost
  BY <1>3 DEF CheckpointBehind, Durable, Lost
<1>4. CASE Start(d) \/ Boot(d) \/ LatestCheckpoint(d) \/ Chat(d) \/ Restore(d) \/ CancelRun(d)
  <2>1. UNCHANGED <<row, cp, metered, crashes>>
    BY <1>4 DEF Start, Boot, CheckVersion, NextPending, ApplyMigration, ListRunning, BootFails,
         LatestCheckpoint, Chat, Restore, CancelRun, store, counts
  <2>2. /\ node'[d].run = Nil
        /\ \/ node'[d].pc \notin ReloadPCs
           \/ node'[d].pc = "reload" /\ node'[d].snap = row
           \/ node'[d].pc = "rollback" /\ node'[d].snap = Reconciled(row, cp)
           \/ /\ node'[d].pc = "register" /\ node'[d].snap = row
              /\ row # Nil => Reconciled(row, cp) = row
    <3> USE DEF ReloadPCs
    <3>1. CASE Start(d)
      BY <1>0, <3>1, ProcessMoves DEF Moved
    <3>2. CASE Boot(d)
      BY <1>0, <3>2, BootMoves DEF Boot, Moved
    <3>3. CASE LatestCheckpoint(d)
      <4>1. node[d].snap = row /\ node[d].snap # Nil
        BY <1>0, <3>3 DEF LatestCheckpoint, At, Reading, NodeOK
      <4>2. QED
        BY <1>0, <3>3, <4>1, ReloadMoves DEF Moved
    <3>4. CASE Chat(d) \/ CancelRun(d)
      BY <1>0, <3>4, ServeMoves DEF Moved
    <3>5. CASE Restore(d)
      <4>1. row # Nil /\ Terminal(row) => Reconciled(row, cp) = row
        BY <1>0, RecordFacts
      <4>2. QED
        BY <1>0, <3>5, <4>1, ServeMoves DEF Moved
    <3>6. QED
      BY <1>4, <3>1, <3>2, <3>3, <3>4, <3>5
  <2>3. Reading(d)'
    BY <1>2, <1>3, <2>1, <2>2 DEF Reading, ReloadPCs
  <2>4. QED
    BY <1>3, <2>1, <2>2, <2>3 DEF CopyOK
<1>5. CASE UpsertRollback(d)
  <2>1. /\ node[d].snap = Reconciled(row, cp) /\ row # Nil
        /\ row' = Reconciled(row, cp) /\ cp' = cp /\ UNCHANGED <<metered, crashes>>
    BY <1>0, <1>1, <1>5 DEF UpsertRollback, Persist, At, Reading, NodeOK, counts
  <2>2. /\ node'[d].run = Nil /\ node'[d].pc = "register" /\ node'[d].snap = node[d].snap
    BY <1>0, <1>5, ReloadMoves DEF Moved
  <2>3. row' \in Rows /\ row' # Nil
    BY <1>0, <2>1, PersistedTypes, SharedAssumption
  <2>4. Reconciled(row', cp') = row'
    BY <1>0, <2>1, RecordFacts
  <2>5. Durable' = Durable /\ Lost' = Lost
    BY <2>1, <2>3, <2>4 DEF Durable, Lost
  <2>6. CheckpointBehind'
    <3>1. \/ row' = row
          \/ cp # Nil /\ row'.dollars = cp.dollars /\ row'.loops = cp.loops
      BY <1>0, <2>1, RecordFacts
    <3>2. cp # Nil => cp.loops \in Nat
      BY <1>0 DEF Checkpoints
    <3>3. QED
      BY <2>1, <3>1, <3>2 DEF CheckpointBehind
  <2>7. Reading(d)'
    BY <1>2, <2>1, <2>2, <2>4, <2>5 DEF Reading
  <2>8. QED
    BY <2>2, <2>6, <2>7 DEF CopyOK
<1>6. CASE Register(d)
  <2>1. /\ node[d].snap = row /\ (row # Nil => Reconciled(row, cp) = row)
        /\ UNCHANGED <<row, cp, metered, crashes>>
    BY <1>6 DEF Register, At, Reading, store, counts
  <2>2. CASE row = Nil
    <3>0. node[d].op # "boot"
      BY <1>0, <1>6, <2>1, <2>2 DEF Register, At, NodeOK
    <3>1. node'[d].run = NewRun /\ node'[d].pc = "mint"
      BY <1>0, <1>6, <2>1, <2>2, <3>0, ReloadMoves DEF Moved
    <3>2. NewRun # Nil /\ NewRun.dollars = 0
      BY PersistedTypes, SharedAssumption DEF NewRun
    <3>3. metered'.dollars <= 0 + Lost'
      BY <1>2, <1>3, <2>1, <2>2 DEF Durable
    <3>4. Holding(d)'
      BY <1>1, <2>1, <2>2, <3>1, <3>2, <3>3 DEF Holding
    <3>5. QED
      BY <1>3, <2>1, <3>1, <3>2, <3>4 DEF CopyOK
  <2>3. CASE row # Nil
    <3>1. node'[d].run = Reloaded(row) /\ node'[d].pc \in {"idle", "begin"}
      BY <1>0, <1>6, <2>1, <2>3, ReloadMoves DEF Moved
    <3>2. Reloaded(row) \in LiveRuns /\ Reloaded(row) # Nil
      BY <1>0, <2>3, PersistedTypes, SharedAssumption
    <3>3. Reloaded(row).dollars = row.dollars /\ Reloaded(row).loops = row.loops
      BY <1>0, <2>3, UsageKept DEF SameUsage
    <3>4. Reloaded(row).halted # HaltNone <=> Terminal(row)
      BY <1>0, <1>1, <2>3, HaltFacts
    <3>5. metered'.dollars <= row.dollars + Lost'
      BY <1>2, <1>3, <2>1, <2>3 DEF Durable
    <3>6. (~Terminal(row) /\ cp # Nil) => cp.dollars = row.dollars /\ cp.loops <= row.loops
      <4>1. cp # Nil => cp.loops \in Nat /\ row.loops \in Nat
        BY <1>0, <2>3 DEF Checkpoints, Rows
      <4>2. (~Terminal(row) /\ cp # Nil) => cp.loops >= row.loops
        BY <1>0, <2>1, <2>3, RecordFacts
      <4>3. QED
        BY <2>3, <4>1, <4>2 DEF CheckpointBehind
    <3>7. Holding(d)'
      BY <2>1, <2>3, <3>1, <3>3, <3>4, <3>5, <3>6 DEF Holding, RowCurrent
    <3>8. QED
      BY <1>3, <2>1, <3>1, <3>2, <3>7 DEF CopyOK
  <2>4. QED
    BY <2>2, <2>3
<1>7. CASE Crash(d)
  <2>1. UNCHANGED <<row, cp, metered>> /\ crashes' = crashes + 1
    BY <1>7 DEF Crash, store
  <2>2. node'[d].run = Nil /\ node'[d].pc = "down"
    BY <1>0, <1>7, ProcessMoves DEF Moved
  <2>3. Lost' = Lost + MaxCost.dollars /\ Durable' = Durable
    BY <1>0, <2>1 DEF Lost, Durable
  <2>4. metered'.dollars <= Durable' + Lost'
    BY <1>0, <1>2, <2>1, <2>3
  <2>5. CheckpointBehind'
    BY <2>1 DEF CheckpointBehind
  <2>6. QED
    BY <2>2, <2>4, <2>5 DEF Reading, CopyOK
<1>8. ~(Mint(d) \/ BeginStep(d) \/ Ceiling(d) \/ ProviderReturns(d) \/ ProviderFails(d)
          \/ AppendLedger(d) \/ UpsertRun(d) \/ SaveCheckpoint(d))
  BY <1>0 DEF Mint, BeginStep, Ceiling, ProviderReturns, ProviderFails, AppendLedger, UpsertRun,
       SaveCheckpoint, At, NodeOK, RequestPCs
<1>9. QED
  BY <1>4, <1>5, <1>6, <1>7, <1>8 DEF ProcessStep, Serve, Reload

\* A step of the only daemon with a copy.
LEMMA HolderStep ==
    ASSUME TypeInv, RecordsOK, CheckpointBehind, NEW d \in Daemons, ProcessStep(d), ~Fault,
           node[d].run # Nil, Holding(d)
    PROVE  CheckpointBehind' /\ CopyOK(d)'
<1> DEFINE g == node[d].run
<1>0. /\ TypeOK /\ NodeOK(d) /\ g \in LiveRuns
      /\ row \in Rows \cup {Nil} /\ cp \in Checkpoints \cup {Nil}
      /\ g.dollars \in Nat /\ g.loops \in Nat /\ crashes \in Nat
      /\ MaxCost.dollars \in Nat /\ metered.dollars \in Nat /\ node[d].cost.dollars \in Nat
      /\ row # Nil => row.dollars \in Nat /\ row.loops \in Nat
      /\ cp # Nil => cp.dollars \in Nat /\ cp.loops \in Nat
  <2>1. g \in LiveRuns /\ node[d].cost \in Charges
    BY NodeTypes DEF TypeInv
  <2>2. QED
    BY <2>1, SharedAssumption
    DEF TypeInv, TypeOK, ControlOK, Charges, LiveRuns, Rows, Checkpoints
<1>1. metered.dollars <= g.dollars + Lost /\ Lost \in Nat
  BY <1>0 DEF Holding, Lost
<1>2. \A h \in LiveRuns :
        /\ Record(h) # Nil /\ h # Nil
        /\ Record(h).dollars = h.dollars /\ Record(h).loops = h.loops
        /\ Terminal(Record(h)) <=> h.halted # HaltNone
  BY PersistedTypes, UsageKept, StatusOfRecord, SharedAssumption DEF SameUsage
<1>3. CASE Chat(d) \/ ProviderFails(d) \/ AppendLedger(d)
  <2>1. UNCHANGED <<row, cp, metered, crashes>>
    BY <1>3 DEF Chat, ProviderFails, AppendLedger, store, counts
  <2>2. node'[d].run = g /\ node'[d].cost = node[d].cost
    BY <1>0, <1>3, ServeMoves DEF Moved
  <2>3. \/ node[d].pc \in {"idle", "inflight"} /\ node'[d].pc \in {"idle", "begin"}
        \/ node[d].pc = "ledger" /\ node'[d].pc = "upsert"
    BY <1>0, <1>3, ServeMoves DEF Chat, ProviderFails, AppendLedger, At, Moved
  <2>4. CheckpointBehind' /\ Lost' = Lost
    BY <2>1 DEF CheckpointBehind, Lost
  <2>5. Holding(d)'
    BY <1>1, <2>1, <2>2, <2>3, <2>4 DEF Holding, RowCurrent
  <2>6. QED
    BY <2>2, <2>4, <2>5 DEF CopyOK
<1>4. CASE Mint(d)
  <2>1. /\ row' = Record(g) /\ UNCHANGED <<cp, metered, crashes>>
        /\ cp = Nil
    BY <1>4 DEF Mint, Persist, counts, At, Holding
  <2>2. node'[d].run = g /\ node'[d].pc = "begin"
    BY <1>0, <1>4, ServeMoves DEF Moved
  <2>3. CheckpointBehind' /\ Lost' = Lost
    BY <2>1 DEF CheckpointBehind, Lost
  <2>4. Holding(d)'
    BY <1>0, <1>1, <1>2, <2>1, <2>2, <2>3 DEF Holding, RowCurrent
  <2>5. QED
    BY <2>2, <2>3, <2>4 DEF CopyOK
<1>5. CASE BeginStep(d)
  <2> DEFINE h == PreStep(g)
  <2>1. h \in LiveRuns
    BY <1>0, GovernorTypes, SharedAssumption
  <2>2. /\ h.dollars = g.dollars
        /\ h.loops = IF h.halted = HaltNone THEN g.loops + 1 ELSE g.loops
        /\ h.halted = HaltNone => g.halted = HaltNone
    BY <1>0, UsageCounted, HaltFacts, SharedAssumption
  <2>3. row' = Record(h) /\ UNCHANGED <<cp, metered, crashes>>
    BY <1>5 DEF BeginStep, Guarded, Persist, counts
  <2>4. node'[d].run = h /\ node'[d].pc = IF h.halted # HaltNone THEN "idle" ELSE "ceiling"
    BY <1>0, <1>5, ServeMoves DEF Moved
  <2>5. (g.halted = HaltNone /\ cp # Nil) => cp.dollars = g.dollars /\ cp.loops <= g.loops
    BY <1>5 DEF BeginStep, At, Holding
  <2> HIDE DEF h
  <2>6. CheckpointBehind'
    BY <1>0, <1>2, <2>1, <2>2, <2>3, <2>5 DEF CheckpointBehind
  <2>7. Holding(d)'
    BY <1>0, <1>1, <1>2, <2>1, <2>2, <2>3, <2>4, <2>5 DEF Holding, RowCurrent, Lost
  <2>8. QED
    BY <1>2, <2>1, <2>4, <2>6, <2>7 DEF CopyOK
<1>6. CASE Ceiling(d)
  <2> DEFINE h == CanProceed(g)
  <2>1. h \in LiveRuns
    BY <1>0, GovernorTypes, SharedAssumption
  <2>2. /\ h.dollars = g.dollars /\ h.loops = g.loops
        /\ h.halted = HaltNone => h = g
    BY <1>0, UsageKept, UnderBudget DEF SameUsage
  <2>3. /\ row' = IF h.halted # HaltNone THEN Record(h) ELSE row
        /\ UNCHANGED <<cp, metered, crashes>>
    BY <1>6 DEF Ceiling, Guarded, Persist, counts
  <2>4. node'[d].run = h /\ node'[d].pc = IF h.halted # HaltNone THEN "idle" ELSE "inflight"
    BY <1>0, <1>6, ServeMoves DEF Moved
  <2>5. /\ row # Nil /\ row.dollars = g.dollars /\ row.loops = g.loops
        /\ Terminal(row) <=> g.halted # HaltNone
        /\ cp # Nil => cp.dollars = g.dollars /\ cp.loops < g.loops
    BY <1>6 DEF Ceiling, At, Holding, RowCurrent
  <2> HIDE DEF h
  <2>6. CheckpointBehind'
    BY <1>0, <1>2, <2>1, <2>3 DEF CheckpointBehind
  <2>7. Holding(d)'
    <3>1. metered'.dollars <= h.dollars + Lost'
      BY <1>1, <2>2, <2>3 DEF Lost
    <3>2. row' # Nil /\ row'.dollars = h.dollars /\ row'.loops = h.loops
      BY <1>2, <2>1, <2>2, <2>3, <2>5
    <3>3. Terminal(row') <=> h.halted # HaltNone
      BY <1>2, <2>1, <2>2, <2>3, <2>5
    <3>4. cp # Nil => cp.dollars = h.dollars /\ cp.loops < h.loops /\ cp.loops <= h.loops
      BY <1>0, <2>2, <2>5
    <3>5. QED
      BY <2>3, <2>4, <3>1, <3>2, <3>3, <3>4 DEF Holding, RowCurrent
  <2>8. QED
    BY <1>2, <2>1, <2>4, <2>6, <2>7 DEF CopyOK
<1>7. CASE ProviderReturns(d)
  <2>1. PICK cost \in Costs :
          /\ Moved(d, "ledger", node[d].op, RecordUsage(g, cost), node[d].snap, cost)
          /\ metered' = Add(metered, cost)
    BY <1>0, <1>7, ServeMoves
  <2>2. cost \in Charges /\ cost.dollars \in Nat
    BY SharedAssumption DEF Charges
  <2> DEFINE h == RecordUsage(g, cost)
  <2>3. h # Nil /\ h.dollars = g.dollars + cost.dollars /\ h.loops = g.loops
    BY <1>0, <2>2, UsageCounted, GovernorTypes, SharedAssumption
  <2>4. UNCHANGED <<row, cp, crashes>>
    BY <1>7 DEF ProviderReturns, store, counts
  <2>5. node'[d].run = h /\ node'[d].cost = cost /\ node'[d].pc = "ledger"
    BY <2>1 DEF Moved
  <2>6. /\ row # Nil /\ row.dollars = g.dollars /\ row.loops = g.loops /\ ~Terminal(row)
        /\ cp # Nil => cp.dollars = g.dollars /\ cp.loops < g.loops
    BY <1>7 DEF ProviderReturns, At, Holding, RowCurrent
  <2>7. metered'.dollars = metered.dollars + cost.dollars
    BY <2>1 DEF Add
  <2> HIDE DEF h
  <2>8. CheckpointBehind' /\ Lost' = Lost
    BY <2>4 DEF CheckpointBehind, Lost
  <2>9. metered'.dollars <= h.dollars + Lost'
    BY <1>0, <1>1, <2>2, <2>3, <2>7, <2>8
  <2>10. Holding(d)'
    BY <1>0, <2>2, <2>3, <2>4, <2>5, <2>6, <2>9 DEF Holding
  <2>11. QED
    BY <2>3, <2>5, <2>8, <2>10 DEF CopyOK
<1>8. CASE UpsertRun(d)
  <2>1. row' = Record(g) /\ UNCHANGED <<cp, metered, crashes>>
    BY <1>8 DEF UpsertRun, Persist, counts
  <2>2. node'[d].run = g /\ node'[d].pc = "checkpoint" /\ node'[d].cost = node[d].cost
    BY <1>0, <1>8, ServeMoves DEF Moved
  <2>3. cp # Nil => cp.dollars + node[d].cost.dollars = g.dollars /\ cp.loops < g.loops
    BY <1>8 DEF UpsertRun, At, Holding
  <2>4. CheckpointBehind' /\ Lost' = Lost
    BY <1>0, <1>2, <2>1, <2>3 DEF CheckpointBehind, Lost
  <2>5. Holding(d)'
    BY <1>0, <1>1, <1>2, <2>1, <2>2, <2>3, <2>4 DEF Holding, RowCurrent
  <2>6. QED
    BY <2>2, <2>4, <2>5 DEF CopyOK
<1>9. CASE SaveCheckpoint(d)
  <2>0. RowCurrent(d) /\ row # Nil
    BY <1>9 DEF SaveCheckpoint, At, Holding, RowCurrent
  <2>1. /\ cp' = Snapshot(g) /\ UNCHANGED <<row, metered, crashes>>
        /\ RowCurrent(d)
    BY <1>9, <2>0 DEF SaveCheckpoint, ChildWrite, counts
  <2>2. node'[d].run = g /\ node'[d].pc = "idle"
    BY <1>0, <1>9, ServeMoves DEF Moved
  <2>3. Snapshot(g).dollars = g.dollars /\ Snapshot(g).loops = g.loops
    BY <1>0, UsageKept DEF SameUsage
  <2>4. CheckpointBehind' /\ Lost' = Lost
    BY <1>0, <2>1, <2>3 DEF CheckpointBehind, Lost, RowCurrent
  <2>5. Holding(d)'
    BY <1>0, <1>1, <2>1, <2>2, <2>3, <2>4 DEF Holding, RowCurrent
  <2>6. QED
    BY <2>2, <2>4, <2>5 DEF CopyOK
<1>10. CASE CancelRun(d)
  <2> DEFINE h == Cancel(g)
  <2>1. /\ h \in LiveRuns /\ h.halted # HaltNone
        /\ h.dollars = g.dollars /\ h.loops = g.loops
    BY <1>0, GovernorTypes, HaltFacts, UsageKept, SharedAssumption DEF SameUsage
  <2>2. row' = Record(h) /\ UNCHANGED <<cp, metered, crashes>>
    BY <1>10 DEF CancelRun, Persist
  <2>3. node'[d].run = h /\ node'[d].pc = "idle"
    BY <1>0, <1>10, ServeMoves DEF Moved
  <2> HIDE DEF h
  <2>4. CheckpointBehind' /\ Lost' = Lost
    BY <1>2, <2>1, <2>2 DEF CheckpointBehind, Lost
  <2>5. Holding(d)'
    BY <1>0, <1>1, <1>2, <2>1, <2>2, <2>3, <2>4 DEF Holding, RowCurrent
  <2>6. QED
    BY <1>2, <2>1, <2>3, <2>4, <2>5 DEF CopyOK
<1>11. CASE Crash(d)
  <2>1. UNCHANGED <<row, cp, metered>> /\ crashes' = crashes + 1
    BY <1>11 DEF Crash, store
  <2>2. node'[d].run = Nil /\ node'[d].pc = "down"
    BY <1>0, <1>11, ProcessMoves DEF Moved
  <2>3. Lost' = Lost + MaxCost.dollars /\ Durable' = Durable /\ CheckpointBehind'
    BY <1>0, <2>1 DEF Lost, Durable, CheckpointBehind
  <2>4. g.dollars <= Durable + MaxCost.dollars
    <3>1. row # Nil => \/ Durable = row.dollars
                       \/ cp # Nil /\ ~Terminal(row) /\ Durable = cp.dollars
      BY <1>0, RecordFacts DEF Durable
    <3>2. CASE node[d].pc = "mint"
      BY <1>0, <3>2 DEF Holding, NewRun, Durable
    <3>3. CASE node[d].pc \in {"idle", "begin", "ceiling", "inflight"}
      BY <1>0, <3>1, <3>3 DEF Holding, RowCurrent
    <3>4. CASE node[d].pc \in {"ledger", "upsert", "checkpoint"}
      <4>1. node[d].cost.dollars <= MaxCost.dollars
        BY <1>0, <3>4 DEF NodeOK
      <4>2. QED
        BY <1>0, <3>1, <3>4, <4>1 DEF Holding, RowCurrent
    <3>5. node[d].pc \in {"mint", "idle", "begin", "ceiling", "inflight", "ledger", "upsert", "checkpoint"}
      BY <1>0, NodeTypes DEF NodeOK, NodePCs, BootPCs, ReloadPCs, RequestPCs, ExitPCs
    <3>6. QED
      BY <3>2, <3>3, <3>4, <3>5
  <2>5. Durable \in Nat
    <3>1. row \in Rows => Reconciled(row, cp).dollars \in Nat
      BY <1>0, PersistedTypes DEF Rows
    <3>2. QED
      BY <1>0, <3>1 DEF Durable
  <2>6. metered'.dollars <= Durable' + Lost'
    BY <1>0, <1>1, <2>1, <2>3, <2>4, <2>5
  <2>7. QED
    BY <2>2, <2>3, <2>6 DEF Reading, CopyOK
<1>12. ~(Start(d) \/ Boot(d) \/ Reload(d) \/ Restore(d))
  BY <1>0 DEF Start, Boot, CheckVersion, NextPending, ApplyMigration, ListRunning, BootFails, Reload,
       LatestCheckpoint, UpsertRollback, Register, Restore, At, NodeOK, BootPCs, ReloadPCs, ExitPCs
<1>13. QED
  BY <1>3, <1>4, <1>5, <1>6, <1>7, <1>8, <1>9, <1>10, <1>11, <1>12 DEF ProcessStep, Serve

\* While the history says that copies never overlapped, at most one daemon has one.
LEMMA SingleCopy ==
    ASSUME TypeInv, Next, ~shared'
    PROVE  ~shared /\ \A d, e \in Copies(node') : d = e
<1>1. ~shared /\ ~(Cardinality(Copies(node')) > 1)
  BY DEF Next, Observed, TypeInv, TypeOK
<1>2. IsFiniteSet(Copies(node')) /\ Cardinality(Copies(node')) \in Nat
  BY FS_Subset, FS_CardinalityType, SharedAssumption DEF Copies
<1>3. ASSUME NEW d \in Copies(node'), NEW e \in Copies(node'), d # e
      PROVE  FALSE
  <2>1. IsFiniteSet({d}) /\ Cardinality({d}) = 1
    BY FS_Singleton
  <2>2. Cardinality({d} \cup {e}) = 2
    BY <1>3, <2>1, FS_AddElement
  <2>3. Cardinality({d} \cup {e}) <= Cardinality(Copies(node'))
    BY <1>2, FS_Subset
  <2>4. QED
    BY <1>1, <1>2, <2>2, <2>3
<1>4. QED
  BY <1>1, <1>3

\* A daemon that has no copy before and after its step leaves the run alone.
LEMMA BystanderStep ==
    ASSUME TypeInv, NEW d \in Daemons, ProcessStep(d), d \notin Copies(node), d \notin Copies(node')
    PROVE  UNCHANGED <<row, cp, metered>> /\ crashes' \in Nat /\ crashes' >= crashes
<1>0. TypeOK /\ NodeOK(d) /\ node[d].run = Nil /\ node[d].pc \notin ReloadPCs /\ crashes \in Nat
  BY DEF TypeInv, TypeOK, ControlOK, Copies
<1>1. CASE Start(d) \/ Boot(d) \/ Chat(d) \/ Restore(d) \/ CancelRun(d)
  BY <1>0, <1>1 DEF Start, Boot, CheckVersion, NextPending, ApplyMigration, ListRunning, BootFails,
       Chat, Restore, CancelRun, store, counts
<1>2. CASE Crash(d)
  BY <1>0, <1>2 DEF Crash, store
<1>3. ~(Mint(d) \/ BeginStep(d) \/ Ceiling(d) \/ ProviderReturns(d) \/ ProviderFails(d)
          \/ AppendLedger(d) \/ UpsertRun(d) \/ SaveCheckpoint(d) \/ Reload(d))
  BY <1>0 DEF Mint, BeginStep, Ceiling, ProviderReturns, ProviderFails, AppendLedger, UpsertRun,
       SaveCheckpoint, Reload, LatestCheckpoint, UpsertRollback, Register,
       At, NodeOK, RequestPCs, ReloadPCs
<1>4. QED
  BY <1>1, <1>2, <1>3 DEF ProcessStep, Serve

\* It may at most have been killed, which the bound allows for.
LEMMA CopyLeftAlone ==
    ASSUME TypeInv, NEW e \in Daemons, CopyOK(e), CheckpointBehind,
           node'[e] = node[e], UNCHANGED <<row, cp, metered>>,
           crashes' \in Nat, crashes' >= crashes
    PROVE  CopyOK(e)' /\ CheckpointBehind'
<1>1. /\ crashes \in Nat /\ MaxCost.dollars \in Nat /\ metered.dollars \in Nat
      /\ row # Nil => Reconciled(row, cp).dollars \in Nat
      /\ node[e].run # Nil => node[e].run.dollars \in Nat
  <2>1. row \in Rows => Reconciled(row, cp).dollars \in Nat
    BY PersistedTypes DEF TypeInv, TypeOK, Rows
  <2>2. node[e].run # Nil => node[e].run.dollars \in Nat
    BY NodeTypes DEF TypeInv, LiveRuns
  <2>3. QED
    BY <2>1, <2>2, SharedAssumption DEF TypeInv, TypeOK, Charges
<1>2. Lost \in Nat /\ Lost' \in Nat /\ Lost <= Lost'
  <2>1. PICK n \in Nat : crashes' = crashes + n
    <3>1. \A a, b \in Nat : b >= a => b - a \in Nat /\ b = a + (b - a)
      OBVIOUS
    <3>2. QED
      BY <1>1, <3>1
  <2>2. /\ MaxCost.dollars * (crashes + n) = MaxCost.dollars * crashes + MaxCost.dollars * n
        /\ MaxCost.dollars * n \in Nat /\ MaxCost.dollars * crashes \in Nat
    BY <1>1, <2>1
  <2>3. QED
    BY <2>1, <2>2 DEF Lost
<1>3. Durable' = Durable /\ Durable \in Nat
  BY <1>1 DEF Durable
<1>4. CASE node[e].run = Nil
  <2>1. metered'.dollars <= Durable' + Lost'
    BY <1>1, <1>2, <1>3, <1>4 DEF CopyOK, Reading
  <2>2. QED
    BY <1>4, <2>1 DEF CopyOK, Reading, CheckpointBehind
<1>5. CASE node[e].run # Nil
  <2>1. metered'.dollars <= node'[e].run.dollars + Lost'
    BY <1>1, <1>2, <1>5 DEF CopyOK, Holding
  <2>2. QED
    BY <1>5, <2>1 DEF CopyOK, Holding, RowCurrent, CheckpointBehind
<1>6. QED
  BY <1>4, <1>5

\* What failover rests on while no store statement failed.
FaultFree == faults = 0 => RecordsOK /\ FailoverInv

\* It is inductive: the one copy, or the store when there is
\* none, has everything that was metered but the lost calls.
LEMMA FailoverInvInductive ==
    /\ Init => FaultFree
    /\ TypeInv /\ FaultFree /\ [Next]_vars => FaultFree'
<1>1. ASSUME Init PROVE RecordsOK /\ FailoverInv
  <2>1. RecordsOK
    BY <1>1 DEF Init, RecordsOK, Stopped
  <2>2. Copies(node) = {}
    BY <1>1 DEF Init, Copies, Stopped, ReloadPCs
  <2>3. metered.dollars = 0 /\ Durable = 0 /\ Lost = 0 /\ CheckpointBehind
    BY <1>1, SharedAssumption DEF Init, NoCharge, Durable, Lost, CheckpointBehind, Charges
  <2>4. QED
    BY <2>1, <2>2, <2>3 DEF FailoverInv
<1>2. ASSUME TypeInv, RecordsOK, FailoverInv, Next, ~Fault PROVE RecordsOK' /\ FailoverInv'
  <2>1. PICK d \in Daemons : ProcessStep(d)
    BY <1>2 DEF Next, ProcessStep
  <2>2. RecordsOK'
    BY <1>2, <2>1, RecordsKept
  <2>3. ASSUME ~shared'
        PROVE  /\ \A i, j \in Copies(node') : i = j
               /\ \A i \in Copies(node') : CopyOK(i)'
               /\ Copies(node') = {} => metered'.dollars <= Durable' + Lost'
               /\ CheckpointBehind'
    <3>1. ~shared /\ \A i, j \in Copies(node') : i = j
      BY <1>2, <2>3, SingleCopy
    <3>2. /\ \A i, j \in Copies(node) : i = j
          /\ \A i \in Copies(node) : CopyOK(i)
          /\ Copies(node) = {} => metered.dollars <= Durable + Lost
          /\ CheckpointBehind
      BY <1>2, <3>1 DEF FailoverInv
    <3>3. \A i \in Daemons : i # d => node'[i] = node[i] /\ (i \in Copies(node') <=> i \in Copies(node))
      <4>1. StepOf(d)
        BY <1>2, <2>1, BootTypes, ServeTypes DEF ProcessStep
      <4>2. QED
        BY <4>1 DEF StepOf, Copies
    <3>4. Copies(node) \subseteq Daemons /\ Copies(node') \subseteq Daemons
      BY DEF Copies
    <3>5. CASE Copies(node) \subseteq {d}
      <4>1. CopyOK(d)
        <5>1. CASE d \in Copies(node)
          BY <3>2, <5>1
        <5>2. CASE d \notin Copies(node)
          <6>1. Copies(node) = {}
            BY <3>5, <5>2
          <6>2. node[d].run = Nil /\ node[d].pc \notin ReloadPCs
            BY <5>2 DEF Copies
          <6>3. QED
            BY <3>2, <6>1, <6>2 DEF CopyOK, Reading, ReloadPCs
        <5>3. QED
          BY <5>1, <5>2
      <4>2. CheckpointBehind' /\ CopyOK(d)'
        BY <1>2, <2>1, <3>2, <4>1, ReaderStep, HolderStep DEF CopyOK
      <4>3. Copies(node') \subseteq {d}
        BY <3>3, <3>4, <3>5
      <4>4. Copies(node') = {} => metered'.dollars <= Durable' + Lost'
        <5>1. Copies(node') = {} => node'[d].run = Nil
          BY DEF Copies
        <5>2. QED
          BY <4>2, <5>1 DEF CopyOK, Reading
      <4>5. QED
        BY <3>1, <4>2, <4>3, <4>4
    <3>6. CASE ~(Copies(node) \subseteq {d})
      <4>1. PICK e \in Copies(node) : e # d
        BY <3>6
      <4>2. e \in Daemons /\ e \in Copies(node') /\ node'[e] = node[e]
        BY <3>3, <3>4, <4>1
      <4>3. d \notin Copies(node) /\ d \notin Copies(node')
        BY <3>1, <3>2, <4>1, <4>2
      <4>4. UNCHANGED <<row, cp, metered>> /\ crashes' \in Nat /\ crashes' >= crashes
        BY <1>2, <2>1, <4>3, BystanderStep
      <4>5. CopyOK(e)' /\ CheckpointBehind'
        BY <1>2, <3>2, <4>2, <4>4, CopyLeftAlone
      <4>6. QED
        BY <3>1, <4>2, <4>5
    <3>7. QED
      BY <3>5, <3>6
  <2>4. FailoverInv'
    BY <2>3 DEF FailoverInv
  <2>5. QED
    BY <2>2, <2>4
<1>3. ASSUME RecordsOK, FailoverInv, UNCHANGED vars PROVE RecordsOK' /\ FailoverInv'
  <2>1. UNCHANGED <<node, row, cp, metered, shared, crashes>>
    BY <1>3 DEF vars, store, counts
  <2>2. RecordsOK'
    BY <1>3, <2>1 DEF RecordsOK
  <2>3. FailoverInv'
    BY <1>3, <2>1 DEF FailoverInv, CopyOK, Reading, Holding, RowCurrent, CheckpointBehind,
         Durable, Lost, Copies
  <2>4. QED
    BY <2>2, <2>3
<1>4. ASSUME TypeInv, FaultFree, [Next]_vars, faults' = 0
      PROVE  RecordsOK' /\ FailoverInv'
  <2>1. CASE UNCHANGED vars
    <3>1. RecordsOK /\ FailoverInv
      BY <1>4, <2>1 DEF vars, FaultFree
    <3>2. QED
      BY <1>3, <2>1, <3>1
  <2>2. CASE Next
    <3>1. PICK d \in Daemons : ProcessStep(d)
      BY <2>2 DEF Next, ProcessStep
    <3>2. faults = 0 /\ ~Fault
      BY <1>4, <3>1, FaultsCounted DEF Fault, TypeInv, TypeOK
    <3>3. RecordsOK /\ FailoverInv
      BY <1>4, <3>2 DEF FaultFree
    <3>4. QED
      BY <1>2, <1>4, <2>2, <3>2, <3>3
  <2>3. QED
    BY <1>4, <2>1, <2>2
<1>5. QED
  BY <1>1, <1>4 DEF FaultFree

\* Failover keeps the budget (Reload, restoreFromStore): while no two daemons hold a
\* copy at once and no store statement failed, the run's dollar budget holds over all
\* of them up to the last call and one call for each killed process; and in any case,
\* failed reads that mint the run afresh included, no more is metered than one budget
\* and its last call for every process that was started.
THEOREM FailoverKeepsBudgetHolds == Spec => []FailoverKeepsBudget
<1>1. ASSUME TypeInv, BudgetInv, FaultFree PROVE FailoverKeepsBudget
  <2>1. SUFFICES ASSUME Budget.dollars > 0
                 PROVE  /\ (~shared /\ faults = 0) =>
                             metered.dollars < Budget.dollars + MaxCost.dollars * (1 + crashes)
                        /\ metered.dollars <= boots * (Budget.dollars - 1 + MaxCost.dollars)
    BY DEF FailoverKeepsBudget, OneBudget
  <2>2. CopiesBounded /\ SpendInv
    BY <1>1, <2>1 DEF BudgetInv
  <2>3. /\ MaxCost.dollars \in Nat /\ Budget.dollars \in Nat /\ crashes \in Nat /\ boots \in Nat
        /\ metered.dollars \in Nat /\ Most \in Nat
    <3>1. /\ MaxCost.dollars \in Nat /\ Budget.dollars \in Nat /\ crashes \in Nat
          /\ boots \in Nat /\ metered.dollars \in Nat
      BY <1>1, SharedAssumption, BudgetAssumption DEF TypeInv, TypeOK, Charges
    <3>2. QED
      BY <2>1, <3>1 DEF Most
  <2>4. metered.dollars <= boots * (Budget.dollars - 1 + MaxCost.dollars)
    <3>1. Headroom \in [Daemons -> Nat]
      <4>1. \A e \in Daemons : node[e].run # Nil => node[e].run.dollars \in Nat
        BY <1>1, NodeTypes DEF TypeInv, LiveRuns
      <4>2. \A e \in Daemons : node[e].run # Nil => Most - node[e].run.dollars \in Nat
        BY <2>2, <2>3, <4>1 DEF CopiesBounded
      <4>3. QED
        BY <2>3, <4>2 DEF Headroom
    <3>2. SumFunction(Headroom) \in Nat
      BY <3>1, SumType, SharedAssumption
    <3>3. boots * Most \in Nat
      BY <2>3
    <3>4. metered.dollars <= boots * Most
      BY <2>2, <2>3, <3>2, <3>3 DEF SpendInv
    <3>5. QED
      BY <3>4 DEF Most
  <2>5. ASSUME ~shared, faults = 0
        PROVE  metered.dollars < Budget.dollars + MaxCost.dollars * (1 + crashes)
    <3>0. FailoverInv
      BY <1>1, <2>5 DEF FaultFree
    <3>1. PICK n \in Nat : n <= Most /\ metered.dollars <= n + Lost
      <4>1. Durable \in Nat /\ Durable <= Most
        <5>1. row \in Rows => Reconciled(row, cp) \in Rows
          BY <1>1, PersistedTypes DEF TypeInv, TypeOK
        <5>2. row \in Rows => \/ Reconciled(row, cp).dollars = row.dollars
                              \/ cp # Nil /\ Reconciled(row, cp).dollars = cp.dollars
          BY <1>1, UsageKept DEF SameUsage, TypeInv, TypeOK
        <5>3. row \in Rows \cup {Nil}
          BY <1>1 DEF TypeInv, TypeOK
        <5>4. row \in Rows => Reconciled(row, cp).dollars \in Nat
          BY <5>1 DEF Rows
        <5>5. QED
          BY <2>2, <2>3, <5>2, <5>3, <5>4 DEF Durable, CopiesBounded
      <4>2. CASE Copies(node) = {}
        BY <2>5, <3>0, <4>1, <4>2 DEF FailoverInv
      <4>3. CASE Copies(node) # {}
        <5>1. PICK d \in Copies(node) : CopyOK(d)
          BY <2>5, <3>0, <4>3 DEF FailoverInv
        <5>2. CASE node[d].run = Nil
          BY <4>1, <5>1, <5>2 DEF CopyOK, Reading
        <5>3. CASE node[d].run # Nil
          <6>1. d \in Daemons
            BY DEF Copies
          <6>2. node[d].run.dollars \in Nat /\ node[d].run.dollars <= Most
            BY <1>1, <2>2, <5>3, <6>1, NodeTypes DEF TypeInv, LiveRuns, CopiesBounded
          <6>3. QED
            BY <5>1, <5>3, <6>2 DEF CopyOK, Holding
        <5>4. QED
          BY <5>2, <5>3
      <4>4. QED
        BY <4>2, <4>3
    <3>2. MaxCost.dollars * (1 + crashes) = MaxCost.dollars + MaxCost.dollars * crashes
      BY <2>3
    <3>3. Lost \in Nat /\ Lost = MaxCost.dollars * crashes
      BY <2>3 DEF Lost
    <3>4. n < Budget.dollars + MaxCost.dollars
      BY <2>3, <3>1 DEF Most
    <3>5. QED
      BY <2>3, <3>1, <3>2, <3>3, <3>4
  <2>6. QED
    BY <2>4, <2>5
<1>2. QED
  BY <1>1, TypeInvInductive, BudgetInvInductive, FailoverInvInductive, PTL DEF Spec
=============================================================================

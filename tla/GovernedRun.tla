---------------------------- MODULE GovernedRun ----------------------------
(***************************************************************************)
(* One governed run inside the daemon: internal/runs around the governor,  *)
(* the proxy's governed call (internal/gateway), the /v1/runs handlers and *)
(* the OTLP ingress that act on the same run, and the durable rows the     *)
(* run is written through to (internal/storage).                           *)
(*                                                                         *)
(* Every HTTP request is served by its own goroutine.  A client is one     *)
(* such goroutine at a time: it picks an operation and walks through its   *)
(* handler, one atomic step per mutex-protected section and per store      *)
(* statement, so that the steps of two requests interleave exactly where   *)
(* the code releases a lock.  A snapshot read under the governor's lock is *)
(* kept in the goroutine until the statement that writes it.               *)
(*                                                                         *)
(* The daemon may be killed between any two steps.  Memory is lost, the    *)
(* rows stay, and a restart reloads the runs whose row says "running".     *)
(***************************************************************************)
EXTENDS RunRecords, FiniteSets

CONSTANTS
    Clients,      \* goroutines serving requests for this run
    Operations,   \* which operations the clients issue, a subset of AllOperations
    Costs,        \* what a provider call can cost: a set of [tokens, dollars]
    MaxCost,      \* an upper bound of Costs
    MaxRequests,  \* bound: requests issued in a behaviour
    MaxCrashes,   \* bound: SIGKILLs of the daemon
    MaxFaults     \* bound: store statements that fail

AllOperations == {"chat", "stream", "step", "checkpoint", "cancel", "otlp"}

ASSUME ConstantsAssumption ==
    /\ IsFiniteSet(Clients)
    /\ Operations \subseteq AllOperations
    /\ Costs \subseteq Charges /\ MaxCost \in Charges
    /\ \A k \in Costs : k.tokens <= MaxCost.tokens /\ k.dollars <= MaxCost.dollars
    /\ MaxRequests \in Nat /\ MaxCrashes \in Nat /\ MaxFaults \in Nat
    /\ Nil \notin LiveRuns /\ Nil \notin Rows /\ Nil \notin Checkpoints

VARIABLES
    up,        \* the daemon process is alive
    run,       \* the run in Manager.runs, or Nil
    act,       \* act[c]: the goroutine serving client c
    row,       \* the runs row, or Nil
    cp,        \* the checkpoint with the largest id, or Nil
    steps,     \* the steps rows, by index
    ledger,    \* the sum of the cost_ledger entries
    metered,   \* history: everything ever passed to RecordUsage
    requests, crashes, faults

mem   == <<up, run>>
store == <<row, cp, steps, ledger>>
vars  == <<up, run, act, row, cp, steps, ledger, metered, requests, crashes, faults>>

StepIndexes == 0..MaxRequests

\* The program counters of a goroutine, by the part of the code they stand in.
ResolvePCs == {"resolve", "restore", "reload", "rollback.upsert", "register"}
BeginPCs   == {"prestep", "index", "stepstart"}
AdmittedPCs == {"route", "inflight", "streaming", "meter"}   \* past CanProceed, not yet charged
RecordPCs  == {"mint.record", "begin.record", "halt.record", "call.record", "kill.record"}
UpsertPCs  == {"mint.upsert", "begin.upsert", "halt.upsert", "call.upsert", "kill.upsert"}
PCs == {"idle", "ceiling", "failed", "ledger", "stepend", "cp.read", "cp.save", "kill"}
          \cup ResolvePCs \cup BeginPCs \cup AdmittedPCs \cup RecordPCs \cup UpsertPCs

Codes == {"none", "200", "400", "402", "404", "500", "501", "502"}

\* A goroutine between requests.  code and why are the last answer: the HTTP
\* status and the halt reason in its body or header; cut is what ended a
\* provider call that failed.
IdleActor == [pc |-> "idle", op |-> "none", step |-> 0, cost |-> NoCharge,
              snap |-> Nil, code |-> "none", why |-> HaltNone, cut |-> "none"]

Actors == [pc : PCs, op : AllOperations \cup {"none"}, step : Nat, cost : Charges,
           snap : Rows \cup Checkpoints \cup {Nil}, code : Codes,
           why : HaltReasons \cup {HaltNone},
           cut : {"none", "context", "client", "provider"}]

StepRows == [status : {"none", "running", "completed", "halted"}, dollars : Nat]

TypeOK ==
    /\ up \in BOOLEAN
    /\ run \in LiveRuns \cup {Nil}
    /\ act \in [Clients -> Actors]
    /\ row \in Rows \cup {Nil}
    /\ cp \in Checkpoints \cup {Nil}
    /\ steps \in [StepIndexes -> StepRows]
    /\ ledger \in Charges /\ metered \in Charges
    /\ requests \in Nat /\ crashes \in Nat /\ faults \in Nat

Init ==
    /\ up = TRUE /\ run = Nil
    /\ act = [c \in Clients |-> IdleActor]
    /\ row = Nil /\ cp = Nil
    /\ steps = [i \in StepIndexes |-> [status |-> "none", dollars |-> 0]]
    /\ ledger = NoCharge /\ metered = NoCharge
    /\ requests = 0 /\ crashes = 0 /\ faults = 0

----------------------------------------------------------------------------
(* Control flow of a goroutine.                                            *)

At(c, pc)   == up /\ act[c].pc = pc
Goto(c, pc) == act' = [act EXCEPT ![c].pc = pc]

\* The handler writes its answer and returns.
Answer(c, code, why) ==
    act' = [act EXCEPT ![c] = [IdleActor EXCEPT !.code = code, !.why = why, !.cut = act[c].cut]]

\* haltGWError: the reason with a 402, or a 500 when there is none to name.
AnswerHalt(c, why) == Answer(c, IF why = HaltNone THEN "500" ELSE "402", why)

Quiet == \A c \in Clients : act[c].pc = "idle"

Fault == faults < MaxFaults /\ faults' = faults + 1

----------------------------------------------------------------------------
(* Finding the run: Manager.Create, Get and GetOrCreate.                   *)

\* POST /v1/runs: nobody knows the minted id before this handler returns, so
\* registering and the first UpsertRun are one step; the write may fail.
Create ==
    /\ up /\ Quiet /\ run = Nil /\ row = Nil /\ crashes = 0
    /\ run' = NewRun
    /\ \/ row' = Record(NewRun) /\ UNCHANGED faults
       \/ Fault /\ UNCHANGED row
    /\ UNCHANGED <<up, act, cp, steps, ledger, metered, requests, crashes>>

\* A span posted to the OTLP ingress brings its usage with it.
Posted(op) == IF op = "otlp" THEN Costs ELSE {NoCharge}

\* A request that names this run arrives.
Request(c, op) ==
    /\ At(c, "idle") /\ requests < MaxRequests
    /\ requests' = requests + 1
    /\ \E cost \in Posted(op) :
         act' = [act EXCEPT ![c] = [IdleActor EXCEPT !.pc = "resolve", !.op = op, !.cost = cost]]
    /\ UNCHANGED <<mem, store, metered, crashes, faults>>

\* Where the handler of an operation starts once it holds the run.
Entry(op) == CASE op \in {"chat", "stream", "step"} -> "prestep"
               [] op = "otlp" -> "meter"
               [] op = "checkpoint" -> "cp.read"
               [] op = "cancel" -> "kill"

\* Get; on a miss the proxy and the ingress go on to the store, the /v1/runs
\* handlers answer 404.
Resolve(c) ==
    /\ At(c, "resolve")
    /\ IF run # Nil THEN Goto(c, Entry(act[c].op))
       ELSE IF act[c].op \in {"chat", "stream", "otlp"} THEN Goto(c, "restore")
       ELSE Answer(c, "404", HaltNone)
    /\ UNCHANGED <<mem, store, metered, requests, crashes, faults>>

\* restoreFromStore: GetRun, outside the manager's lock.  A failing read is
\* logged and taken for an unknown id.
RestoreFromStore(c) ==
    /\ At(c, "restore")
    /\ \E found \in {row, Nil} :
         /\ IF found = row THEN UNCHANGED faults ELSE Fault
         /\ act' = [act EXCEPT ![c].snap = found,
                               ![c].pc = IF found = Nil THEN "register"
                                         ELSE IF Terminal(found) THEN "register" ELSE "reload"]
    /\ UNCHANGED <<mem, store, metered, requests, crashes>>

\* reloadRun: LatestCheckpoint, read after the row; an error means no rollback.
ReloadRun(c) ==
    /\ At(c, "reload")
    /\ \E latest \in {cp, Nil} :
         /\ IF latest = cp THEN UNCHANGED faults ELSE Fault
         /\ LET rec == Reconciled(act[c].snap, latest) IN
            act' = [act EXCEPT ![c].snap = rec,
                               ![c].pc = IF rec = act[c].snap THEN "register" ELSE "rollback.upsert"]
    /\ UNCHANGED <<mem, store, metered, requests, crashes>>

\* reloadRun's persistRun of the rolled back record, before the re-check.
UpsertRollback(c) ==
    /\ At(c, "rollback.upsert")
    /\ \/ row' = act[c].snap /\ UNCHANGED faults
       \/ Fault /\ UNCHANGED row
    /\ Goto(c, "register")
    /\ UNCHANGED <<mem, cp, steps, ledger, metered, requests, crashes>>

\* The re-check under the write lock: the first to arrive registers what it
\* found, or mints a fresh run if it found nothing.
Register(c) ==
    /\ At(c, "register")
    /\ run' = IF run # Nil THEN run
              ELSE IF act[c].snap = Nil THEN NewRun ELSE Reloaded(act[c].snap)
    /\ act' = [act EXCEPT ![c].snap = Nil,
                          ![c].pc = IF run = Nil /\ act[c].snap = Nil
                                    THEN "mint.record" ELSE Entry(act[c].op)]
    /\ UNCHANGED <<up, store, metered, requests, crashes, faults>>

----------------------------------------------------------------------------
(* persistRun: record() reads the governor, then one statement writes the  *)
(* row.  Nothing orders the statements of two goroutines.                  *)

UpsertAfter(pc) == CASE pc = "mint.record"  -> "mint.upsert"
                     [] pc = "begin.record" -> "begin.upsert"
                     [] pc = "halt.record"  -> "halt.upsert"
                     [] pc = "call.record"  -> "call.upsert"
                     [] pc = "kill.record"  -> "kill.upsert"

RunRecord(c) ==
    /\ up /\ act[c].pc \in RecordPCs
    /\ act' = [act EXCEPT ![c].snap = Record(run), ![c].pc = UpsertAfter(act[c].pc)]
    /\ UNCHANGED <<mem, store, metered, requests, crashes, faults>>

\* Where the goroutine goes on after the write: the callers of persistRun.
AfterUpsert(c) ==
    CASE act[c].pc = "mint.upsert" -> Goto(c, Entry(act[c].op))
      [] act[c].pc = "begin.upsert" /\ act[c].op = "step" -> Answer(c, "200", HaltNone)
      [] act[c].pc = "begin.upsert" /\ act[c].op # "step" -> Goto(c, "ceiling")
      [] act[c].pc = "halt.upsert" -> AnswerHalt(c, act[c].why)
      [] act[c].pc = "call.upsert" -> Goto(c, "cp.read")
      [] act[c].pc = "kill.upsert" -> Answer(c, "200", HaltNone)

UpsertRun(c) ==
    /\ up /\ act[c].pc \in UpsertPCs
    /\ \/ row' = act[c].snap /\ UNCHANGED faults
       \/ Fault /\ UNCHANGED row
    /\ AfterUpsert(c)
    /\ UNCHANGED <<mem, cp, steps, ledger, metered, requests, crashes>>

\* A statement on a child table fails, and is only logged, while the run has
\* no row (foreign key), or when the store faults.
ChildWrite(write, keep) ==
    \/ row # Nil /\ write /\ UNCHANGED faults
    \/ row = Nil /\ keep /\ UNCHANGED faults
    \/ row # Nil /\ keep /\ Fault

----------------------------------------------------------------------------
(* Run.BeginStep and Run.CanProceed.                                       *)

\* Mutant of Guarded: the halt is answered but not persisted.
GuardedUnpersisted(c, next, pc) ==
    /\ run' = next
    /\ IF next.halted # HaltNone THEN AnswerHalt(c, next.halted) ELSE Goto(c, pc)

\* A guard of the governor: on a halt error remember the reason to report and
\* persist the halt, otherwise go on.
Guarded(c, next, pc) ==
    /\ run' = next
    /\ act' = [act EXCEPT ![c].why = next.halted,
                          ![c].pc = IF next.halted # HaltNone THEN "halt.record" ELSE pc]

BeginStep(c) ==
    /\ At(c, "prestep")
    /\ Guarded(c, PreStep(run), "index")
    /\ UNCHANGED <<up, store, metered, requests, crashes, faults>>

\* The step's index is read back with a second Status() call.
StepIndex(c) ==
    /\ At(c, "index")
    /\ act' = [act EXCEPT ![c].step = run.loops, ![c].pc = "stepstart"]
    /\ UNCHANGED <<mem, store, metered, requests, crashes, faults>>

\* persistStepStart
PersistStepStart(c) ==
    /\ At(c, "stepstart")
    /\ ChildWrite(steps' = [steps EXCEPT ![act[c].step] = [status |-> "running", dollars |-> 0]],
                  UNCHANGED steps)
    /\ Goto(c, "begin.record")
    /\ UNCHANGED <<mem, row, cp, ledger, metered, requests, crashes>>

Ceiling(c) ==
    /\ At(c, "ceiling")
    /\ Guarded(c, CanProceed(run), "route")
    /\ UNCHANGED <<up, store, metered, requests, crashes, faults>>

----------------------------------------------------------------------------
(* governedCall and streamCall around the provider.                        *)

\* The model has a provider (and it can stream): issue the call.
Dispatch(c) ==
    /\ At(c, "route")
    /\ Goto(c, "inflight")
    /\ UNCHANGED <<mem, store, metered, requests, crashes, faults>>

\* No such provider, no Streamer, or a response writer that cannot flush:
\* answer, leaving the step counted.
Refuse(c) ==
    /\ At(c, "route")
    /\ \E code \in {"400"} \cup (IF act[c].op = "stream" THEN {"501", "500"} ELSE {}) :
         Answer(c, code, HaltNone)
    /\ UNCHANGED <<mem, store, metered, requests, crashes, faults>>

\* The provider answers a chat call, even one whose context is already done.
ProviderReturns(c) ==
    /\ At(c, "inflight") /\ act[c].op = "chat"
    /\ \E cost \in Costs : act' = [act EXCEPT ![c].cost = cost, ![c].pc = "meter"]
    /\ UNCHANGED <<mem, store, metered, requests, crashes, faults>>

\* ChatStream succeeds: the response is committed, chunks are forwarded.
StreamOpens(c) ==
    /\ At(c, "inflight") /\ act[c].op = "stream"
    /\ Goto(c, "streaming")
    /\ UNCHANGED <<mem, store, metered, requests, crashes, faults>>

\* The stream ends: EOF, an upstream error, the client or the context.  It is
\* metered from the usage reported so far, which may be none.
StreamEnds(c) ==
    /\ At(c, "streaming")
    /\ \E cost \in Costs \cup {NoCharge} : act' = [act EXCEPT ![c].cost = cost, ![c].pc = "meter"]
    /\ UNCHANGED <<mem, store, metered, requests, crashes, faults>>

\* The call's context (the run's, or the client's) is done, or the provider
\* fails by itself: Chat or ChatStream returns an error.
ProviderFails(c, cause) ==
    /\ At(c, "inflight")
    /\ cause = "context" => run.ctxDone
    /\ act' = [act EXCEPT ![c].cut = cause, ![c].pc = "failed"]
    /\ UNCHANGED <<mem, store, metered, requests, crashes, faults>>

\* Mutant of ReportFailure: a Context that is done is taken for the time budget.
ReportFailureOnContext(c) ==
    /\ At(c, "failed")
    /\ IF run.ctxDone THEN AnswerHalt(c, HaltTimeBudget) ELSE Answer(c, "502", HaltNone)
    /\ UNCHANGED <<mem, store, metered, requests, crashes, faults>>

\* The error path asks the governor whether the run halted.  A deadline that
\* passed has cancelled the Context without halting the run, so it is a 502.
ReportFailure(c) ==
    /\ At(c, "failed")
    /\ IF run.halted # HaltNone THEN AnswerHalt(c, run.halted) ELSE Answer(c, "502", HaltNone)
    /\ UNCHANGED <<mem, store, metered, requests, crashes, faults>>

----------------------------------------------------------------------------
(* Run.RecordCall and Manager.persistCall.                                 *)

RecordCall(c) ==
    /\ At(c, "meter")
    /\ run' = RecordUsage(run, act[c].cost)
    /\ metered' = Add(metered, act[c].cost)
    /\ act' = [act EXCEPT ![c].why = RecordUsage(run, act[c].cost).halted, ![c].pc = "ledger"]
    /\ UNCHANGED <<up, store, requests, crashes, faults>>

AppendLedger(c) ==
    /\ At(c, "ledger")
    /\ ChildWrite(ledger' = Add(ledger, act[c].cost), UNCHANGED ledger)
    /\ Goto(c, "stepend")
    /\ UNCHANGED <<mem, row, cp, steps, metered, requests, crashes>>

PersistStepEnd(c) ==
    /\ At(c, "stepend")
    /\ ChildWrite(steps' = [steps EXCEPT ![act[c].step] =
                      [status |-> IF act[c].why = HaltNone THEN "completed" ELSE "halted",
                       dollars |-> act[c].cost.dollars]],
                  UNCHANGED steps)
    /\ Goto(c, "call.record")
    /\ UNCHANGED <<mem, row, cp, ledger, metered, requests, crashes>>

\* The usage a checkpoint will hold: a Status() call of its own.
ReadCheckpoint(c) ==
    /\ At(c, "cp.read")
    /\ act' = [act EXCEPT ![c].snap = Snapshot(run), ![c].pc = "cp.save"]
    /\ UNCHANGED <<mem, store, metered, requests, crashes, faults>>

\* SaveCheckpoint: ids are assigned in the order of the inserts.  Only the
\* SDK's own checkpoint reports a failed insert to its caller.
SaveCheckpoint(c) ==
    /\ At(c, "cp.save")
    /\ \E failed \in BOOLEAN :
         /\ ChildWrite(~failed /\ cp' = act[c].snap, failed /\ UNCHANGED cp)
         /\ Answer(c, IF failed /\ act[c].op = "checkpoint" THEN "500" ELSE "200",
                      IF act[c].op = "chat" THEN act[c].why ELSE HaltNone)
    /\ UNCHANGED <<mem, row, steps, ledger, metered, requests, crashes>>

\* Mutant of Kill: the cancelled run is not persisted.
KillUnpersisted(c) ==
    /\ At(c, "kill")
    /\ run' = Cancel(run)
    /\ Answer(c, "200", HaltNone)
    /\ UNCHANGED <<up, store, metered, requests, crashes, faults>>

\* Run.Cancel
Kill(c) ==
    /\ At(c, "kill")
    /\ run' = Cancel(run)
    /\ Goto(c, "kill.record")
    /\ UNCHANGED <<up, store, metered, requests, crashes, faults>>

----------------------------------------------------------------------------
(* Time and the process.                                                   *)

\* The clock matters only until it reaches the time budget.
Tick ==
    /\ up /\ run # Nil /\ ~Expired(run) /\ Budget.seconds > 0
    /\ run' = [run EXCEPT !.elapsed = @ + 1]
    /\ UNCHANGED <<up, act, store, metered, requests, crashes, faults>>

\* Mutant of DeadlineFires: the Context carries no deadline.
DeadlineMissing == FALSE /\ UNCHANGED vars

\* context.WithTimeout's timer: it cancels the Context and nothing else.
DeadlineFires ==
    /\ up /\ run # Nil /\ Expired(run) /\ ~run.ctxDone
    /\ run' = [run EXCEPT !.ctxDone = TRUE]
    /\ UNCHANGED <<up, act, store, metered, requests, crashes, faults>>

\* SIGKILL, or power loss: no handler finishes.
Crash ==
    /\ up /\ crashes < MaxCrashes
    /\ up' = FALSE /\ run' = Nil /\ crashes' = crashes + 1
    /\ act' = [c \in Clients |-> IdleActor]
    /\ UNCHANGED <<store, metered, requests, faults>>

\* Startup, before any request is served: Reload restores a run whose row is
\* "running", at its latest checkpoint if the row is ahead of it.
Restart ==
    /\ ~up /\ up' = TRUE
    /\ IF row # Nil /\ ~Terminal(row)
       THEN \E latest \in {cp, Nil}, written \in BOOLEAN :
              /\ run' = Reloaded(Reconciled(row, latest))
              /\ row' = IF written THEN Reconciled(row, latest) ELSE row
              /\ faults' = faults + (IF latest = cp THEN 0 ELSE 1)
                                 + (IF row' = Reconciled(row, latest) THEN 0 ELSE 1)
              /\ faults' <= MaxFaults
       ELSE run' = Nil /\ UNCHANGED <<row, faults>>
    /\ UNCHANGED <<act, cp, steps, ledger, metered, requests, crashes>>

----------------------------------------------------------------------------
\* The goroutine's own steps, which the Go scheduler eventually runs.
HandlerStep(c) ==
    \/ Resolve(c) \/ RestoreFromStore(c) \/ ReloadRun(c) \/ UpsertRollback(c) \/ Register(c)
    \/ RunRecord(c) \/ UpsertRun(c)
    \/ BeginStep(c) \/ StepIndex(c) \/ PersistStepStart(c) \/ Ceiling(c)
    \/ Dispatch(c) \/ Refuse(c) \/ ReportFailure(c)
    \/ RecordCall(c) \/ AppendLedger(c) \/ PersistStepEnd(c)
    \/ ReadCheckpoint(c) \/ SaveCheckpoint(c) \/ Kill(c)

\* What the provider or the client does to a call.
ProviderStep(c) ==
    \/ ProviderReturns(c) \/ StreamOpens(c) \/ StreamEnds(c)
    \/ \E cause \in {"context", "client", "provider"} : ProviderFails(c, cause)

Next ==
    \/ Create
    \/ \E c \in Clients, op \in Operations : Request(c, op)
    \/ \E c \in Clients : HandlerStep(c) \/ ProviderStep(c)
    \/ Tick \/ DeadlineFires \/ Crash \/ Restart

Spec == Init /\ [][Next]_vars
\* Weak fairness for the handlers (the Go scheduler runs every goroutine and a
\* store statement returns), for the clock and its timer, and for what an HTTP
\* client does with a cancelled context: it returns.  Nothing makes a provider
\* answer, a client send a request, or the daemon crash or come back.
FairSpec ==
    /\ Spec
    /\ WF_vars(Tick) /\ WF_vars(DeadlineFires)
    /\ \A c \in Clients : /\ WF_vars(HandlerStep(c))
                          /\ WF_vars(ProviderFails(c, "context"))
                          /\ WF_vars(StreamEnds(c) /\ run.ctxDone)

----------------------------------------------------------------------------
(* Properties.                                                             *)

\* The control state a handler can rely on, the part of the inductive invariant
\* that is about program counters.  A goroutine past the lookup holds a run, and
\* what it is about to write has the form its statement expects ...
GoroutineOK(c) ==
    /\ act[c].pc # "idle" => act[c].op \in Operations
    /\ act[c].pc \notin ResolvePCs \cup {"idle"} => run # Nil
    /\ act[c].pc \in {"reload", "rollback.upsert"} \cup UpsertPCs => act[c].snap \in Rows
    /\ act[c].pc = "register" => act[c].snap \in Rows \cup {Nil}
    /\ act[c].pc = "cp.save" => act[c].snap \in Checkpoints

\* ... and a dead daemon has no goroutines.
ControlOK ==
    /\ ~up => run = Nil /\ Quiet
    /\ \A c \in Clients : GoroutineOK(c)

\* Calls the ceiling let through whose cost is not charged yet.
Unsettled == {c \in Clients : act[c].pc \in AdmittedPCs}

\* What one process can spend on the run, in one dimension: calls are admitted
\* only below the budget, and CanProceed and RecordUsage are separate critical
\* sections, so all clients can be admitted together and overshoot together.
LifeCeiling(budget, cost) == budget - 1 + cost * Cardinality(Clients)

\* The hard ceiling, over everything ever metered and the worst the unsettled
\* calls can still add.  Each process lifetime spends at most one ceiling,
\* whatever it restored: a rollback, a failing GetRun (which mints a fresh run)
\* or a lost write can hide all that was spent before, and does no more harm.
\* A single client without store faults exceeds the budget by its last call and
\* by one call for each crash.  Spans pushed through the OTLP ingress pass no
\* ceiling and are not bounded.
OvershootBounded ==
    "otlp" \notin Operations =>
        \A dim \in {"tokens", "dollars"} : Budget[dim] > 0 =>
            LET spent == metered[dim] + MaxCost[dim] * Cardinality(Unsettled) IN
            /\ spent <= (crashes + 1) * LifeCeiling(Budget[dim], MaxCost[dim])
            /\ (Cardinality(Clients) = 1 /\ faults = 0) =>
                   spent < Budget[dim] + (crashes + 1) * MaxCost[dim]

\* The loop cap (PreStep) holds of the live run and of the durable row, no
\* matter how often the run is rolled back and reloaded.
LoopCap ==
    Budget.loops > 0 => /\ run # Nil => run.loops <= Budget.loops
                        /\ row # Nil => row.loops <= Budget.loops

\* A run that is not halted is under its token and dollar budgets, also when
\* it was reloaded after a crash.
RunningIsUnderBudget ==
    (run # Nil /\ run.halted = HaltNone) =>
        /\ Budget.tokens > 0 => run.tokens < Budget.tokens
        /\ Budget.dollars > 0 => run.dollars < Budget.dollars

\* Reload, rollback and late writes never charge a run for a call twice: no
\* copy of its usage exceeds what was really metered (RecordUsage).
NothingChargedTwice ==
    /\ run # Nil => run.tokens <= metered.tokens /\ run.dollars <= metered.dollars
    /\ row # Nil => row.tokens <= metered.tokens /\ row.dollars <= metered.dollars
    /\ cp # Nil => cp.tokens <= metered.tokens /\ cp.dollars <= metered.dollars

\* Without a crash or a failing statement the cost ledger is exact: once all
\* handlers returned, its sum is the usage the governor enforces (persistCall).
\* A span of the OTLP ingress begins no step, so it can be metered before the
\* request that minted the run wrote its row; its entry then fails on the
\* foreign key and is lost, and no exactness is claimed.
LedgerExact ==
    (Quiet /\ run # Nil /\ crashes = 0 /\ faults = 0 /\ "otlp" \notin Operations) =>
        /\ ledger = [tokens |-> run.tokens, dollars |-> run.dollars]
        /\ ledger = metered

\* Every 402, and every paid response that carries a halt header, names the
\* reason the run really halted for, whoever halted it (budgetError,
\* haltGWError, callMeta.halt).
AnswersNameTheHalt ==
    \A c \in Clients :
        (act[c].pc = "idle" /\ (act[c].code = "402" \/ act[c].why # HaltNone)) =>
            /\ act[c].why # HaltNone
            /\ run # Nil /\ run.halted = act[c].why

\* While the process lives a halt is final: the first reason stays, no later
\* iteration is admitted, the Context stays cancelled (haltLocked, PreStep).
HaltIsFinal ==
    [][(run # Nil /\ run.halted # HaltNone /\ run' # Nil) =>
           /\ run'.halted = run.halted
           /\ run'.loops = run.loops
           /\ run.ctxDone /\ run'.ctxDone]_vars

\* Once every handler returned and no statement failed, the durable row is
\* the live run: status, halt reason and usage (persistRun, Reload).
RowCurrent ==
    (Quiet /\ run # Nil /\ faults = 0) => row = Record(run)

\* Once every handler returned and no statement failed, the row of a run that
\* halted or was cancelled says so (persistHalt, persistCall, Run.Cancel).
HaltedRowSaysSo ==
    (Quiet /\ run # Nil /\ run.halted # HaltNone /\ faults = 0) => row # Nil /\ Terminal(row)

\* A row that says halted or cancelled keeps its reason and its loop count,
\* whatever is restarted, reloaded or requested afterwards (GetOrCreate).
TerminalRowIsFinal ==
    [][(row # Nil /\ Terminal(row)) =>
           /\ row'.status = row.status
           /\ row'.halted = row.halted
           /\ row'.loops = row.loops]_vars

\* A SIGKILL makes the meter forget at most the one call whose persistCall it
\* cut short (reloadRun's rollback).
LossBounded ==
    (run # Nil /\ faults = 0) =>
        /\ metered.dollars - run.dollars <= crashes * MaxCost.dollars
        /\ metered.tokens - run.tokens <= crashes * MaxCost.tokens

\* Under a time budget every request is answered, whatever the provider does:
\* the deadline or a halt cancels the context of the call (New, haltLocked).
RequestsEnd == \A c \in Clients : act[c].pc # "idle" ~> act[c].pc = "idle"

\* A halted run's row eventually says so, on every path a halt can take
\* (persistHalt, persistCall, Cancel), unless the daemon dies first.
HaltReachesStore ==
    (run # Nil /\ run.halted # HaltNone) ~> (~up \/ (row # Nil /\ Terminal(row)))
=============================================================================

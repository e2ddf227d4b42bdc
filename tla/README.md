# A TLA+ model of RiskKernel

RiskKernel is a daemon that governs AI agents.  Every model call of an agent
goes through its proxy, which counts tokens, dollars, loop iterations and time
against hard budgets and halts the run when one is used up; every tool call can
be held until a human approves it; every run survives a `kill -9` of the daemon.
This directory holds a formal model of that logic: TLA+ modules translated from
the Go source (and, for the agent's side, from the Python and TypeScript SDKs),
TLC configurations that check them on small instances, and TLAPS proofs of the most
important properties for every value of the constants.

`PROJECT.json` is the machine-readable side: components, runs, the line range
each definition stands for, hazards, findings and theorems.

## 1. Inventory

| component | state | operations | hard part |
|---|---|---|---|
| governor (`internal/governor`) | usage, halt reason, Context of a run, under one mutex | `PreStep`, `CanProceed`, `RecordUsage`, `Cancel`, `New` with restored usage / halt | the first halt wins; budgets met exactly; a deadline that cancels the Context without halting |
| runs manager (`internal/runs`) | map of live runs; one row per run | `Create`, `Get`, `GetOrCreate`, `BeginStep`, `RecordCall`, `Cancel`, `Checkpoint`, `Reload` | store I/O outside the lock, snapshot-then-write, rollback to a checkpoint after a crash, best-effort writes |
| proxy gateway (`internal/gateway`) | none of its own | `governedCall`, `streamCall` | ceiling and charge on either side of a provider call that may hang |
| run API (`internal/httpapi/runs.go`) | none | create, step, checkpoint, cancel, ask for an approval | operations on the same run as the proxy, from other goroutines |
| OTLP ingress (`internal/otel/ingress.go`) | none | meter a pushed span | charges without passing the ceiling |
| store (`internal/storage`) | tables runs, steps, cost_ledger, checkpoints, approvals, tool_calls, policies, facts | upserts, inserts, compare-and-set of an approval | foreign keys, failing statements |
| approval gate (`internal/approval`) | waiter channels, pending rows | `Request(Under)`, `Create`, `Resolve` | row, waiter and notification in three steps; late and duplicate decisions |
| approval channels (`httpapi/approvals.go`, `slack.go`) | the Slack message | approve / deny over API, CLI, page, Slack | several people at once, acknowledgement of a lost race |
| MCP gateway (`internal/mcp`) | none | `tools/call`: allowlist, approval, audit, forward | a wait of minutes between check and effect |
| Python / TypeScript SDK | agent's handle of a run, its cursor | `governed_run`, `resume_run`, `checkpoint`, `approve`, `governed_tool` | outlives the daemon, polls; answers get lost; a checkpoint of the daemon's own hides the agent's |
| Postgres store, migrations (`storage/postgres.go`) | the same tables, schema version | check, migrate, the same statements | several daemons, of several versions, over one database |
| configuration, policy bundles (`internal/config`, `policy`, `httpapi/policies.go`) | Config; policies table | load and clamp settings, apply the file, register, create a run under a bundle, dry run | precedence of four sources, zero meaning two things, a restart that applies the file again |
| providers, pricing (`internal/provider`, `pricing`, `gateway/openai.go`, `anthropic.go`) | provider registry; price table | decode, route, send, translate back, sniff a stream, price | three message formats; cumulative usage spread over events; streams cut anywhere; prefix prices |
| audit export, metrics, CLI reports (`internal/audit`, `httpapi/metrics.go`, `cmd`) | none | export, compliance report, tool list, usage summary, scrape | several statements without a transaction beside the writers; a hash chain over merged rows |
| OTel export, memory, signing, server | - | reporting, reading, wiring | - |

How they interact: the proxy, the `/v1/runs` handlers and the ingress all hold
a `*runs.Run`, whose methods call the governor and then write through to the
store.  The MCP gateway and the SDK ask the gate; people resolve approvals over
HTTP, in goroutines of their own; the gate hands the decision to a blocked
waiter over a channel of capacity one, or the SDK reads it by polling.  On
start, `Reload` rebuilds live runs from rows and checkpoints before the server
listens.  Shared state is therefore: the governor (mutex), the manager's map
(read-write mutex), the waiter map (mutex), and the rows (one statement at a
time).  No lock spans two of them, which is where the hazards of `PROJECT.json`
come from.

What makes each part correct:

* governor and manager: the ceilings hold up to the calls already admitted; a
  halt is final and is reported under its real reason; usage is neither lost
  nor counted twice, in memory, in the ledger and across restarts; a halted run
  stays halted after a restart; every request ends.
* gate: no gated side effect without a human's approval of that very call; one
  decision per call; the audit row precedes the effect; nobody waits for ever.
* providers and pricing: the provider reads what the client sent; what is
  metered is what the provider counted, at the price of the longest listed prefix.
* shared database: a serving daemon has its schema; the ledger is complete over
  all daemons; a failover does not hand out the budget anew.
* configuration and bundles: nobody is unlimited by accident; a run created under
  a bundle stays under it; a dry run decides as the governor would.
* SDK: a resumed agent skips nothing, redoes at most one item per failure and gets
  to the end.
* reports: consistent in themselves whatever is written meanwhile; counters only
  grow; an altered log does not verify.

## 2. Modules

| module | models | proofs |
|---|---|---|
| `Governor` | `internal/governor`: one operator per method, from a live run to its next state | |
| `RunRecords` | the persisted forms of a run (row, checkpoint, charge) and `reloadRun`'s choice between them; shared by the three modules below it | |
| `GovernedRun` | one run inside the daemon: manager, proxy call cycle, run API, OTLP ingress, its rows, crash and restart | `GovernedRunProofs` |
| `SharedStore` | several daemons of several versions over one Postgres database: migration, reload, one run served by both, takeover | `SharedStoreProofs` |
| `AgentSession` | a Python or TypeScript agent over one daemon: create, attach, cursor, steps, calls, checkpoints, failures on both sides | `AgentSessionProofs` |
| `ToolPolicy` | approval rules, allowlist, side-effect classification, bundle overlay | |
| `ApprovalGate` | the gate, the MCP handler, the SDK's polling, deciders over API and Slack, crash and restart | `ApprovalGateProofs` |
| `SideEffectGate` | the abstract promise of the gate; `ApprovalGate` implements it | |
| `PolicyBundles` | environment, `.env`, policy file and API, down to the budget and the tool policy of a run; the dry run.  Composes `Governor` and `ToolPolicy` | `PolicyBundlesProofs` |
| `ModelCall` | one proxied call in detail: endpoints, routing, four providers, streams, prices | `ModelCallProofs` |
| `AuditReports` | audit commands and metric scrapes beside the writers | `AuditReportsProofs` |

`Selections` has the one operator `Where`, which selects from a sequence: the rows
of a table (`AuditReports`) or the messages of a conversation (`ModelCall`).
`SharedLemmas` holds the lemmas the proof modules share.  Each component has an
`MC...` module with the values of its constants.

### Governor and GovernedRun

Every method of `governor.Run` holds the run's mutex from its first line to its
last, so it is one operator (`PreStep`, `CanProceed`, `RecordUsage`, `Cancel`).
A method returns a `HaltError` exactly when the run it leaves behind is halted,
so the model reads the error off the result.

`GovernedRun` adds the goroutines.  A *client* is one goroutine at a time
serving a request for the run: `act[c]` holds its program counter, the
operation, the step index it was given, the cost of its call, the snapshot it is
about to write and its last answer.  One step is one critical section or one
store statement; whatever the code does between them is local to the goroutine
and part of the step before.  In particular

* `persistRun` is two steps, `RunRecord` (a `Status()` call) and `UpsertRun`,
  with the snapshot in between; `SaveCheckpoint` likewise;
* `BeginStep` is `BeginStep`, `StepIndex` (the second `Status()` call),
  `PersistStepStart`, `RunRecord`, `UpsertRun`;
* `persistCall` is `AppendLedger`, `PersistStepEnd`, `RunRecord`, `UpsertRun`,
  `ReadCheckpoint`, `SaveCheckpoint`;
* `GetOrCreate` is `Resolve`, `RestoreFromStore`, `ReloadRun`, `UpsertRollback`
  and `Register`, the re-check under the lock.

The program counters are named after the code they stand before
(`"call.upsert"`, `"cp.read"`, ...).  Store statements are best effort in the
code: each has a second outcome, in which it fails, is logged and the handler
goes on; `MaxFaults` bounds how many do.  A write to a child table
(`ChildWrite`) also fails while the run has no row, because of the foreign key.

`Crash` may happen between any two steps; memory and goroutines are gone, rows
stay.  `Restart` is `Reload`: it restores a run whose row says "running", at its
latest checkpoint if the row is ahead of it.  When `Reload` itself fails to list
the runs the daemon refuses to start; the model then simply stays down.

The ghost variable `metered` sums everything ever passed to `RecordUsage`.

Abstractions: prompt and completion tokens are only ever summed and are one
number; money is an integer unit (the code's floats are only added and
compared); the clock is a counter that stops at the time budget; the run is
minted with the budget it had (a lazily minted run gets the default budget, which
the constant `Budget` stands for); names, metadata, timestamps and spans are left
out.  An OTLP span is taken to carry the id of this run.

### ToolPolicy, ApprovalGate, SideEffectGate

A tool call has at most one approval, so a call names its row, its waiter, its
channel and its Slack message.  The MCP handler is `McpArrives`, `Screen`
(bundle read, allowlist, approval rules), `CreateApproval`, `RegisterWaiter`,
then `Receive` or `GiveUp` (the two arms of the `select`; when both are ready,
either), `RecordToolCall`, `Forward`.  The SDK's call is `SdkArrives`, `SdkAsk`
(`Gate.Create`), `SdkPoll`, `SdkRun` or `SdkGiveUp`; it lives in the agent and
survives the daemon.  A decider is a goroutine: `Decide` is the compare-and-set
of the row, `Lookup` the waiter lookup under the mutex, `Send` the send outside
it, `UpdateResolved` the rewrite of the Slack message.  Over Slack every click is
answered 200 and rewrites the message, also one that lost the race or whose
statement failed (`Acknowledge`); over the API those get 409 and 500.  A name
pattern is represented by the set of tools it matches.

`SideEffectGate` says only that a call gets at most one verdict, that a verdict
is never revised, and that a side effect happens only under a favourable one.
The refinement maps a call to "exempt" when the policy let it through and else
to the decision in its row.

### ModelCall

One call goes from `Receive` (decode the body, either endpoint) over `Route`
(provider by model name and configured keys), `Post` (the wire request of that
provider), `Generate` (the provider, external) and either `ChatReturns` or
`StreamOpens`, `Recv`, `StreamEnds` to `Meter`; `Cut` ends it at any point from
the client's side, the run's, the provider's or by the 120 s client timeout.
A text is a sequence of fragments (`Words`, and the separator `splitSystem` puts
between two system texts) and a model name is a sequence of
segments, so joining, splitting and "is a prefix" keep their meaning without
characters.  `Join` is the loop of `decodeContent`, `Lift` that of `splitSystem`.  `Meter` ranges over all orders in which Go may walk the rate map.
`truth` is a ghost: what the provider really read and generated.  `answered` counts
the 200s: a stream's is committed when it opens, before anything is metered.

### SharedStore

A daemon process is one record (`node[d]`).  Its start is `CheckVersion` (the
downgrade check), `NextPending` and `ApplyMigration` (goose, one migration a
transaction; losing a race is an error and ends the start), `ListRunning` and then
`LatestCheckpoint`, `UpsertRollback`, `Register` for the run.  A daemon
serves one request at a time, since what the requests of one daemon do to each
other is `GovernedRun`'s subject.  Store statements are best effort as in
`GovernedRun` (`Persist`, `ChildWrite`): a failed read of the run mints it afresh, a
failed read of its checkpoint counts as none, and a start whose `Reload` fails ends
(`BootFails`).  `shared` is a ghost that says that two daemons have held
a live copy of the run at once.

### PolicyBundles

`Start` evaluates the configuration (process environment before `.env`, unset
apart from empty, clamping to 32 bits), `RegisterPolicyFile` applies one bundle
of the file per step and may fail half-way, `RegisterPolicy`, `CreateRun`,
`ProxyRun`, `ModelCall`, `ToolCall` are the requests, and `Stop` leaves the
tables for the next start.  The dry run is a set of operators over the recorded
calls, compared with the governor replaying them.  A recorded call carries the
times on the run's clock at which it began and was charged, so that the replay can
run out of time.  `NoFile` is a daemon without a policy file.  `Int32` is Go's
conversion, which wraps; `ClampInt32` is what stands before it.

### AgentSession

The agent works through `Total` items: one step, the work (its own or a proxied
call) and one checkpoint with the cursor for each.  A handler is one step; the
answer may be lost after it.  Python's `resume_run` fails on a checkpoint without
its payload, TypeScript's starts at zero; both are in `LatestCheckpoint`.

### AuditReports

`Reads(op)` is the sequence of statements of each command; writers interleave
between them.  A `WHERE` is a `Where` over the rows in id order; tool calls, which
the store sorts by step, time as text and random id, may come in any order.  A call
is counted by the governor (`RecordCall`, in `metered`), entered in the ledger
(`AppendLedger`) and shown by the runs row (`UpsertRun`) in three steps; `Owed` is
what was counted and not entered.  A compliance report prints the row's dollars and
the ledger's number of calls.  Instants come two per second because RFC 3339 with trimmed
fractions sorts the half second before the whole one as text.  A hash is
the nested tuple of what was hashed, which is injective as SHA-256 is taken to be.

## 3. Runs

| run | what it shows |
|---|---|
| `calls` | two concurrent clients chat, stream and cancel under a token and a dollar budget, with a kill and a failing statement: types; the ledger equals the usage equals what was metered once handlers return; every halt answer names the real reason; nothing charged twice; what is ever metered stays within one ceiling per process lifetime; a halt is final |
| `recovery` | one client with all six operations under all four budgets, two kills, a provider that may hang: loop cap, under budget while running, row equals run when idle, at most the interrupted call forgotten per kill, a terminal row stays; every request ends and every way of halting reaches the row |
| `gate` | MCP and SDK calls, two people, two channels, a kill and a failing statement: no unapproved gated effect, a decision acknowledged over the API is the recorded one, audit before effect, no leaked waiter, the refinement of `SideEffectGate`; a tools/call ends though nobody decides, a decider is never blocked |
| `model_call` | both endpoints, chat and stream, four providers, override files, cuts and timeouts: the prompt survives translation, metering is exact for complete calls and never too much for cut ones, prices do not depend on map order, every call ends |
| `shared_store` | two daemons of versions 1 and 2 start, migrate, serve the same run, are killed and take over, while two statements fail: a serving daemon has its schema, the ledger lacks no more than the calls cut short, the budget survives a failover |
| `policy_bundles` | configurations, a file or none, the API and runs created in every way, across a restart, a failing statement and a tick of the clock: the file is applied, unlimited is a choice, the bundle governs for good wherever it can be read, the dry run decides as the governor but for time |
| `agent_session` | three items, four failures of agent, daemon, network or provider: nothing skipped, one redo per failure, work bounded by the loop budget, the agent gets to the end |
| `audit_reports` | reports and scrapes beside two runs, a gated call and its decision: the printed figures fit the listed entries, an approved call shows its decision, the chain detects alterations, windows partition the ledger, counters grow |
| `stale_row`, `tool_after_halt`, `bundle_sdk`, `failover_budget` | disagreements between the code and what a document says of it (section 6): TLC finds the violation |

Bounds, and why they are enough.  Costs are one or two units, the dollar budget is
two and the token budget three, and one cost uses up the dollars first, the other
the tokens; so each can be missed, met exactly and overshot, and two admitted
calls can overshoot together.  `calls` has an iteration for each of its three requests,
since only a third call can overshoot what two at once may.  In `recovery` two
iterations make the loop budget run out within three requests and leave a row that is ahead of its checkpoint.  One time unit
is enough: the code only asks whether the time is up.  Two clients are needed
for every interleaving of a read and a write; a third adds no new kind of pair,
and what depends on the number of clients (`OvershootBounded`) is proved for all.
Two kills let a restored run be killed again before its first checkpoint.
One call, two people: calls share nothing but the gate's maps, while one call
decided twice is the case that matters; the theorems cover any number of both.
In `model_call` one call is enough, as calls share only the price table; two
prompt sizes and two output tokens tell a missing, a doubled and a swapped count
apart.  In `shared_store` three starts, one kill and four requests let an old
daemon meet a new schema, two copies exist at once and one of them be taken over;
two faults let a write be lost and the read after it fail.
In `policy_bundles` 7 stands in for 2^31 - 1 and the environments hold a time limit
at it and a loop limit one past it; two starts let the file meet what the first start and the API
left.  In `agent_session` the loop budget is six for three items, so both running
out of loops and finishing happen.  In `audit_reports` two ledger entries, two
metered dollars a run and two instants are enough for a report to fall between two
charges, for a row to be ahead of or behind the ledger, and for text order to differ
from time order.
TLC does not check deadlock except in `audit_reports`: requests, kills and calls
are bounded and a daemon without requests is rightly idle.

Each module has a `TypeOK`.  It is checked in `calls` and proved for every component
(section 4).

`RowCurrent`, `RunningIsUnderBudget`, `LossBounded` and `TerminalRowIsFinal` are
checked with one client at a time.  With two, `RowCurrent` and
`TerminalRowIsFinal` fail (finding `stale_row`); so does `LossBounded`, since a checkpoint
saved late is older than the calls metered after its snapshot was taken; and
`RunningIsUnderBudget` can be false for a moment after a restart, when a row written
with an older snapshot is reloaded as "running" although its usage meets the budget
(the next `CanProceed` halts it).  What several clients can spend over crashes and
faults is therefore bounded by one ceiling for each process lifetime
(`OvershootBounded`); only one client without faults is held to the budget itself, its
last call and one call per crash.

Every property has a mutant in `PROJECT.json`: a plausible slip in one
definition (a dropped guard, `>` for `>=`, a forgotten restore option, a missing
deferred delete, ...) under which TLC finds the property violated.  The mutated
definitions stand just before the ones they change.

### Fairness

`FairSpec` of `GovernedRun`: weak fairness of every handler's own steps (the Go
scheduler runs runnable goroutines, a store statement returns, succeeding or
not), of the clock and of the Context's timer, and of what an HTTP client does
once its Context is done: it returns with an error, a stream ends.  Nothing makes
a provider answer, a client send a request, or a killed daemon come back.
`FairSpec` of `ApprovalGate`: weak fairness of the handlers, of the approval
timer, of the agent's loop and of a decider's goroutine once it runs.  Nobody is
obliged to decide.
`FairSpec` of `ModelCall`: weak fairness of the handler's own steps and of the
HTTP client's timer; a provider may hang for ever.
`FairSpec` of `AgentSession`: the agent runs and is run again when it failed, the
daemon is started again when it is down (a supervisor, as the resume
documentation assumes); failures are finitely many.

## 4. Theorems

Proved by TLAPS for all values of the constants that satisfy the named assumptions
of each module.  What they ask, and why the code justifies it:

* `BudgetAssumption`, `ConstantsAssumption`, `SharedAssumption`, `SessionAssumption`,
  `GateAssumption`, `ToolPolicyAssumption`: budgets and costs are natural numbers
  (token counts and prices are not negative), `MaxCost` bounds `Costs`, sets of clients and
  daemons are finite, operations and kinds are the ones that exist, `Nil` is no
  record.  `SharedStore` and `AgentSession` leave the time budget to `GovernedRun`.
* `CallAssumption`: a price table is a finite map from lower-case segments to
  integers; the compiled-in one (`defaultRates`) has no negative price, while an
  override file may have any and is then refused by `LoadOverrides`; a request
  body is what the handlers' JSON decoding returns, a content being a string, an
  array of blocks or something else.
* `BundlesAssumption`: every environment binds the budget variables to some
  text, `SafeDefaults` is the non-zero, 32-bit default budget of `config.go`, and
  files and request bodies decode into the types their JSON is decoded into.
* `ReportConstants`: prices are natural numbers, runs and tool calls are finitely
  many and there is a run, and NULL is no status, no instant and no row.

`GovernedRunProofs`

* `TypeCorrect`: `TypeOK /\ ControlOK`.  `ControlOK` is needed because a record
  in `act[c].snap` is a row or a checkpoint according to the program counter, and
  because a goroutine past the lookup dereferences the run.  One lemma per
  group of actions (`LookupTypes`, `PersistTypes`, `GuardTypes`, ...).
* `LoopCapHolds`, `NothingChargedTwiceHolds`.  Usage lives in four places (live
  run, row, checkpoint, snapshots in goroutines) and the invariants are about all
  of them.  `UsageFlow` is the key lemma: each step either copies usage that
  already was somewhere, or is a `PreStep`, or a `RecordUsage`, or starts from
  zero.  The two theorems are then a few lines of arithmetic on each source.
* `HaltIsFinalHolds`.  Not inductive by itself: the invariant adds that a halted
  live run has its Context cancelled; `RunChanges` lists how a live run can change.
* `OvershootBoundedHolds`, over everything ever metered, in tokens and in dollars.
  Within one process lifetime the live run's usage, plus one maximal call for every
  client that is admitted, stays within budget - 1 + |Clients| maximal calls, and so
  does every copy a run may be reloaded from (`OvershootInv`): a call is admitted only
  while the live run is below its budget, and a charge uses up the room of the call
  it settles (`Room`).  What was metered beyond the live run's usage was spent by
  earlier lifetimes, one ceiling each, whatever the next process restored, a fresh run
  after a failed read included (`LifeInv`).  For one client and a store that does not
  fail the bound is tighter, since then a crash makes the meter forget at most one
  call (`LossInv`).
* `AnswersNameTheHaltHolds`, for any number of clients: a reason a goroutine carries
  is the live run's (`AnswersInv`), and the first reason stays.
* `RowCurrentHolds`, `RunningIsUnderBudgetHolds`, `TerminalRowIsFinalHolds` and
  `LossBoundedHolds` are stated for one client (`OneClient`) and no failing statement
  (in the property itself, or as `faults = 0`, `MaxFaults = 0`).  Both hypotheses are
  needed: with two clients the row can be overwritten with an older snapshot, which
  is what the run `stale_row` shows, and `persistRun` is best effort.  The invariant
  (`SequentialInv`) follows the one goroutine through its persistence: where the row
  may differ from the live run, what the snapshot at hand is a snapshot of, and
  that row and checkpoint of a running run are under the budgets, so that the
  rollback of a reload cannot revive a run.  `LossInv` counts the calls that
  row and checkpoint may be behind the meter, one for each crash and one for
  the call at hand.
* `RunningWhileUpHolds`: `RunningIsUnderBudget` for any number of clients and failing
  statements until the first crash, since the live run then is the meter (`MeterInv`).
* `LedgerExactHolds`, for any number of clients: the meter is the ledger plus the
  *sum* of the charges of the goroutines between `RecordUsage` and `AppendLedger`
  (`LedgerInv`).  The property speaks of runs without a crash, a failing statement
  or spans from the OTLP ingress: such a span begins no step, so it can be metered
  before the request that minted the run has written its row, and its entry then
  fails on the foreign key.

`SharedStoreProofs`

* `TypeCorrect` and `SchemaReadyHolds` from `NodeOK`: a daemon past its migrations
  has seen at least its own version, and the version never goes down.
* `LedgerCompleteHolds`: the meter lies between the ledger plus the sum of what the
  daemons are about to write and that plus one maximal call for each kill and each
  failed statement.  An entry is also refused while the run has no row, which
  takes an earlier failed write of the row; the invariant pays for it with that fault
  (`Owed`).
* `FailoverKeepsBudgetHolds`.  Its second half, for any sharing, is a sum over
  the daemons again: what every process may still spend (`Headroom`) and what was
  metered fit into one budget per process started.  Its first half follows
  the only daemon with a copy through `Reload` and the call cycle (`FailoverInv`), as
  long as no statement failed.  The second half needs no such proviso: a fresh run
  after a failed read spends what its process was allowed anyway.

`AgentSessionProofs`

* `TypeCorrect`; `NoItemSkippedHolds` from `ItemInv` (what any cursor is past has been
  done, and the latest checkpoint with a cursor has the latest cursor);
  `RedoneOncePerFailureHolds` from `RedoInv`, where an item that is done but not
  saved, and an item whose daemon died under it, are already on the account;
  `WorkWithinLoopsHolds` from `LoopInv`, which bounds the work by the row's loops and,
  with one item more in hand, by those of the checkpoint a reload rolls back to.

`ApprovalGateProofs`

* `GateTypeCorrect`, `AcknowledgedIsRecordedHolds` from `GateInv`: types,
  `CallOK` (a call about to run, or waiting for its effect, was exempted or
  approved; what a channel holds is what the row says) and `HumanOK` (a decider
  on its way to the waiter carries the recorded decision).  The acknowledgement is
  the API's: Slack is answered 200 whatever happened.
* `ImplementsGateHolds`: the refinement, each step a step or a stutter of
  `SideEffectGate` (`VerdictSteps`).
* `NoUnapprovedExecutionHolds`: a call is exempt only if its rules do not ask for
  a human (`ExemptOK`).  The global rules hold whatever fails.  The bundle's
  rules are claimed for the MCP gateway and as long as no statement failed: a failing
  read is treated as "no bundle" there (`runPolicy`), and the SDK's way to the gate
  never reads it.  `BundleGatesEveryCall`, without these two provisos, is what
  `bundle_sdk` shows violated.
* `NoLeakedWaiterHolds`: inductive on top of the types; registration and the two
  arms of the select are the only steps into and out of the wait, and a kill takes
  map and goroutines together.
* `AuditedBeforeExecutedHolds` from `AuditInv`: a call about to be forwarded has its
  row, only SDK calls take the other way to an effect, and a call that had its
  effect is over (so its row is not rewritten).  The
  property speaks of states before the first failed statement, since
  `recordToolCall` is best effort and the gateway forwards regardless.

`ModelCallProofs`

* `TypeCorrect`, `MeteredAsServedHolds` from `CallInv`: at each step of the handler,
  how what it has seen relates to what the provider did; a stream that ended has
  told everything, until then Anthropic's has told the input tokens.
* `LongestPrefixPriceHolds`, for any table and any order of the walk over Go's map.
  `Table.Rate` is a fold that keeps the best prefix so far; `IsSearch` states what a
  run of that loop is, and by induction on the entries walked the best one is the
  longest of those that match.
* `PromptPreservedHolds`, for any number of system messages and turns in any order
  and contents of any length and form.  `PromptInv` only remembers that the request
  on the wire was made of a client's body.  The argument is about the loops:
  `JoinAppend` and `LiftAppend` say what one more round does, `LiftKeeps` and
  `BlocksKeep` that splitting the system messages off, into one text for Anthropic or
  into blocks for Bedrock, keeps every fragment in its order, `LeadingKeeps` that a
  system message put in front for OpenAI and Ollama does, and `TurnsOnly` that what is
  left are the turns; `WireSays` puts the four providers together.

`PolicyBundlesProofs`

* `TypeCorrect`; `FileAppliedHolds` from `AppliedInv` (the bundles before the loop's
  index are in the table, unless replaced through the API since);
  `UnlimitedIsChosenHolds` by following a limit through `LoadBudget`, `ClampInt32`,
  `MergedBudget` and `RequestedBudget`; `BundleGovernsHolds` from `RunInv` and `ToolsInv`,
  for every call whose read of the bundle succeeded.
* `DryRunDecidesHolds`.  The governor's replay and the dry run's totals are two folds
  over the recorded calls.  They are shown to stay in step until the replay halts
  (`StaysInStep`); it halts when a total meets a limit, or on time, which the dry run
  does not look at (`ReplayHalts`).

`AuditReportsProofs`

* `TypeCorrect`; `FiguresFitEntriesHolds`, of two parts.  `TotalsCoverEntriesHolds` from `EntriesInv`: the entries read are
  covered by the run's totals in the store until the totals are read, and by the
  totals read from then on.  It rests on `WhereAppend` and `SumAppend` (a new row joins
  the selection of its run and adds its price).  `SpendIsListedHolds` from `MeterInv` (the
  row says no more than was metered, the ledger holds no more either) and `SpendInv`
  (what the row said when it was read is covered by the entries of then and what
  was owed then; the entries read later are no fewer).
* `ApprovedHasDecisionHolds` from `StoreInv` (a gated call's row says "approved" only
  if its approval does) and `DecisionInv` (the rows read are rows of the table).
* `CountersMonotoneHolds`, an action property.  Between two statements of a
  scrape the sum so far is no more than the runs added have spent, and with
  what the runs still to add have spent no less than the last scrape showed
  (`Between`); a run that has no row yet has spent nothing.
* `ChainDetectsTamperingHolds`, for reports of any length.  `IsChain` says what
  `buildEvents` returns: numbered events, each hash covering the one before it
  (`BuildEventsIsChain`; the events sorted are as many as the rows read, `EventsCounted`,
  which needs `FiniteInv`: the approvals a report has read are finite).  One lemma
  for each kind of alteration (`SwapDetected`, `ForgeryDetected`,
  `FittedForgeryDetected`, `AdditionDetected`, ...) finds the position where
  `VerifyChain` stops, or shows the head to differ.  That different inputs have
  different hashes is part of the model (section 2).
* `WindowsPartitionHolds`: `HalvesAddUp` (two sets that split the rows split calls
  and dollars) for the windows, `GroupsAddUp` (so do any number of groups) for the keys
  of a summary and for the runs' own totals; both by building the ledger up row by row.

`SharedLemmas`.  The library's induction theorems take an operator and cannot be
used by the installed provers, so induction is carried out on sets: `LeastNumber`
(a non-empty set of naturals has a least element) gives `CountUp` (a set with 0 that
is closed under successor up to n has all of 0..n); `FiniteInduction` does the same
for the subsets of a finite set.  `FoldExists` and `LoopOfFold` turn a fold of the
community modules into a sequence of intermediate results with a recurrence, over
which `CountUp` can be used; `BuildUp` is induction over a sequence built by
appending, and gives `WhereConcat` and `WhereAgain` for selections; `SumOfChanged` says what happens to the sum of a
function of which one value changes.  The module extends `RunRecords`, whose constants
play no part in the proofs of `ModelCall`, `PolicyBundles` and `AuditReports`.

Only model-checked: the liveness properties `RequestsEnd`, `HaltReachesStore`,
`McpCallsEnd`, `DecidersReturn`, `CallsEnd` and `AgentFinishes` (fairness and ENABLED
are beyond the prover), and the four violations of section 6.  Every invariant and
every action property a passing run checks is proved.

## 5. Not modelled

* Span export (OTel), memory files and the facts table, request signing (SigV4),
  HTTP routes and authentication, OTLP decoding, the approval page and webhook,
  and what the command line prints: I/O, formatting and pure hashing around the
  state modelled here; nothing modelled reads it back.
* JSON shapes, temperatures, ids and headers of provider messages.
* Collation of text in Postgres, where the usage window compares timestamps as
  text as SQLite does but under the database's own order.
* Two daemons sharing pending approvals: the waiter map is the process's own, so a
  decision given to the other daemon leaves the call to its timeout.

`PROJECT.json` gives the reason for each component.

## 6. Where code and documents disagree

Checked by a run, with the quoted line in `PROJECT.json`:

* `stale_row`: a chat takes its snapshot of the running run, a cancel halts the run
  and writes its row, and the chat's late write leaves the halted run "running" in
  the store.
* `tool_after_halt`: an approval wait does not see the run's halt.
* `bundle_sdk`: a call gated through the SDK is not put before a human though the
  run's bundle names its tool; a failed read of the bundle does the same to a call of
  the MCP gateway.
* `failover_budget`: two instances over one database that both hold a run each
  enforce the budget against their own copy and spend it twice.

Met while modelling, and part of the model, without a run of their own:

* Governance.  A call cut by the time budget's own deadline is answered 502, as
  the deadline cancels the Context and the governor does not know
  (`gateway.go:128-130` expects a halt report).  Two concurrent steps can get the same step index
  (`Run.BeginStep` reads it back with a second `Status()`).
* Recovery.  A first step cut before any checkpoint exists is not rolled back
  (`manager.go:380,402`); several steps without a checkpoint are all taken back by
  one restart; a failing lookup is taken for an unknown id and a terminal row is
  replaced by a fresh run (`manager.go:280,315`).
* Gate.  A decision between the pending row and the waiter's registration wakes
  nobody (`gate.go:95,154`); a Slack click that lost the race, or whose statement
  failed, is answered 200 and the message shows the clicked decision
  (`slack.go:56-72`).
* Providers.  A stream cut before OpenAI's usage event is metered as zero, and
  so is every stream whose provider sends none (`gateway.go:282`, `openai.go:262`).
* Shared database.  The downgrade check is no lock: another daemon may migrate
  between it and goose's own run, and the older binary then serves on a newer schema,
  which `docs/POSTGRES.md:52-53` says it refuses.
  A "read-only" command migrates the database (`admin.go:432`).
* Configuration.  A typo in `RISKKERNEL_APPROVAL_DEFAULT_SAFE` turns fail-closed
  off (`config.go:301`); a negative budget over the API is unlimited.  The dry run
  does not look at the time budget (`dryrun.go:36-46`), does not list calls that are
  gated only by the fail-closed default of `bundlePolicy` (`docs/POLICY.md:74-76`), names
  dollars first where the governor names what tripped first, as the comment at
  `dryrun.go:34-35` would have it, and matches the allowlist by equality where the
  gateway uses patterns (`dryrun.go:52`).
* SDK.  The daemon's own checkpoints have no payload, so a resume after a proxied
  call finds no cursor: Python raises, TypeScript starts over
  (`docs/RESUME.md:35,71`, `manager.go:511-520`).
* Reports.  The usage window compares timestamps as text, which puts a call made
  in the first second after a whole-second bound before it, although `Since` is
  documented as inclusive and `Until` as exclusive (`store.go:171`,
  `sqlite.go:314-318`); consecutive windows still count every call once.  A compliance log is rewritten, not appended to, when a
  pending approval is decided (`compliance.go:69`); its "gated" count includes
  approved calls that were never gated and leaves timeouts out
  (`compliance.go:119-133`); the dollars it prints are the row's, read first, and may be
  less than its listed calls add up to (`compliance.go:94`, `admin.go:302`).  `runs resume` prints the row's usage, though the
  reload may roll it back (`admin.go:100`).

## 7. Plan

1. (done) `Governor`, `GovernedRun`, `ToolPolicy`, `ApprovalGate`,
   `SideEffectGate`, their runs and first theorems.
2. (done) Configuration, bundles, budget precedence and the dry run:
   `PolicyBundles`.
3. (done) Provider translation, stream accounting and prices: `ModelCall`.
4. (done) The SDK protocol over a daemon: `AgentSession`.
5. (done) Several daemons over one Postgres database: `SharedStore`.
6. (done) The readers of the record: `AuditReports`.
7. (done) Proofs of the safety properties of all components, `PromptPreserved`,
   `ChainDetectsTampering` and `WindowsPartition` last.
8. An abstract specification of a governed run (a meter that only grows up to
   its bound and stops) that `GovernedRun` implements; until then `OvershootBounded`,
   `NothingChargedTwice` and `HaltIsFinal` say its parts.
9. A property of its own for the step index that two concurrent steps can share
   (part of the model, see section 6).

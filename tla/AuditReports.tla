---------------------------- MODULE AuditReports ----------------------------
(***************************************************************************)
(* The readers of the durable record: the `riskkernel audit` commands,     *)
(* which run in a process of their own beside the daemon, and the          *)
(* daemon's GET /metrics.  Each issues several statements with no          *)
(* transaction around them while requests go on writing rows, so a report  *)
(* mixes several moments.  The spend summary is one statement, but it      *)
(* selects its window by comparing timestamps as text.                     *)
(*                                                                         *)
(* The writers are kept to the rows they leave and the order they leave    *)
(* them in; GovernedRun and ApprovalGate model how they get there.         *)
(*                                                                         *)
(* Time.  An instant is a natural: two per second, printed by RFC3339Nano  *)
(* as "..:00Z" and "..:00.5Z".  Trailing zeros are never printed, and '.'  *)
(* sorts before 'Z', so as text the two come in the opposite order.        *)
(***************************************************************************)
EXTENDS Integers, Sequences, FiniteSets, FiniteSetsExt, SequencesExt, Selections

CONSTANTS
    Runs,         \* run ids
    RunName,      \* the name (or metadata value) a run was created with, or Null
    Calls,        \* governed tool calls, MCP requests
    RunOf,        \* the run a call is made under
    Price,        \* dollars of one call, by model
    MaxInstant,   \* bound: the last instant
    MaxLedger,    \* bound: model calls in the ledger
    MaxMetered,   \* bound: dollars one run meters
    Null          \* SQL's NULL

Models == DOMAIN Price
Instants == 0..MaxInstant
ToolStatuses == {"approved", "denied", "timeout", "blocked"}
Commands == {"compliance", "export", "tools", "metrics"}

\* The rows of the tables, and what the statements of a report return.
Sums == [calls : Nat, dollars : Nat]
RunRows == [status : {"running", "halted"}, usage : Nat]
LedgerRows == [run : Runs, model : Models, at : Instants]
ToolRows == [run : Runs, call : Calls, status : ToolStatuses, at : Instants]
ApprovalRows ==
    [call : Calls, run : Runs, status : {"pending", "approved", "denied"},
     created : Instants, decided : Instants \cup {Null}]

\* The runs row as a report read it and, as history, the dollars that calls had
\* metered by then without having entered them in the ledger.
RowReads == [usage : Nat, owed : Nat]

Results ==
    [row : RowReads \cup {Null}, ledger : Seq(LedgerRows), totals : Sums,
     tools : Seq(ToolRows), approvals : SUBSET ApprovalRows, runs : SUBSET Runs]

ASSUME ReportConstants ==
    /\ IsFiniteSet(Runs) /\ Runs # {} /\ IsFiniteSet(Calls)
    /\ \A model \in DOMAIN Price : Price[model] \in Nat
    /\ RunOf \in [Calls -> Runs]
    /\ MaxInstant \in Nat /\ MaxLedger \in Nat /\ MaxMetered \in Nat
    /\ Null \notin RunRows \cup RowReads /\ Null \notin Instants /\ Null \notin ApprovalRows

VARIABLES
    now,          \* the clock of the statement being issued
    metered,      \* the dollars each run's calls have metered so far
    row,          \* runs by id: [status, usage], Null where there is no row
    ledger,       \* cost_ledger in id order: [run, model, at]
    tools,        \* tool_calls in insertion order: [run, call, status, at]
    approvals,    \* approvals by call: [run, status, created, decided], or Null
    gated,        \* history: the calls an approval was required for
    reader,       \* the report being made: [op, run, step, got]
    scraped       \* history: the counters of the latest finished scrape

vars == <<now, metered, row, ledger, tools, approvals, gated, reader, scraped>>

\* No report yet, or one that ended in an error.
Idle == [op |-> "export", run |-> CHOOSE r \in Runs : TRUE, step |-> 5,
         got |-> [row |-> Null, ledger |-> <<>>, totals |-> [calls |-> 0, dollars |-> 0],
                  tools |-> <<>>, approvals |-> {}, runs |-> {}]]

-----------------------------------------------------------------------------
(* Timestamps                                                              *)

\* fmtTime: the order of the instants as they are stored, which is the order of
\* their text.
FmtTime(t) == 2 * (t \div 2) + (1 - (t % 2))

\* Mutant of InWindow: the upper bound is inclusive.
InWindowInclusive(e, since, until) ==
    /\ since # Null => FmtTime(e.at) >= FmtTime(since)
    /\ until # Null => FmtTime(e.at) <= FmtTime(until)

\* WHERE created_at >= since AND created_at < until, on text; Null is unbounded.
InWindow(e, since, until) ==
    /\ since # Null => FmtTime(e.at) >= FmtTime(since)
    /\ until # Null => FmtTime(e.at) < FmtTime(until)

-----------------------------------------------------------------------------
(* The store's read statements                                             *)

\* COUNT( * ) and COALESCE(SUM(dollars), 0) over a sequence of ledger rows.
Dollars(rows) == FoldLeft(LAMBDA d, e : d + Price[e.model], 0, rows)
SumRows(rows) == [calls |-> Len(rows), dollars |-> Dollars(rows)]

\* WHERE run_id = r ORDER BY id
LedgerForRun(r) == Where(ledger, {e \in LedgerRows : e.run = r})
Totals(r) == SumRows(LedgerForRun(r))

\* WHERE run_id = r ORDER BY step_idx, created_at, id.  A call takes its step
\* before it waits for approval, its time as text and its id at random: the rows
\* may come in any order.
ListToolCalls(r) ==
    LET rows == Where(tools, {e \in ToolRows : e.run = r}) IN
    {[i \in 1..Len(rows) |-> rows[p[i]]] : p \in Bijection(1..Len(rows), 1..Len(rows))}

\* Mutant of ListRuns: only the live ones.
ListRunsRunning == {r \in Runs : row[r] # Null /\ row[r].status = "running"}

\* Every run, whatever its status.
ListRuns == {r \in Runs : row[r] # Null}

\* The approvals with one of the given statuses.
ListApprovals(statuses) ==
    {approvals[c] : c \in {d \in Calls : /\ approvals[d] # Null
                                        /\ approvals[d].status \in statuses}}

\* Two totals added up.
Plus(a, b) == [calls |-> a.calls + b.calls, dollars |-> a.dollars + b.dollars]

\* The key a ledger row is grouped under.  A run without a name (or without the
\* metadata key) gives NULL, which COALESCE turns into one group of its own.
Dimensions == {"model", "day", "name"}
None == "(none)"
GroupKey(by, e) ==
    CASE by = "model" -> e.model
      [] by = "day"   -> e.at \div 2
      [] by = "name"  -> IF RunName[e.run] = Null THEN None ELSE RunName[e.run]

\* GROUP BY: the keys of the rows picked.
GroupKeys(by, rows) == {GroupKey(by, rows[i]) : i \in DOMAIN rows}

\* The groups of a summary and their total, added up as the groups are scanned.
SummarizeLedger(by, since, until) ==
    LET picked == Where(ledger, {e \in LedgerRows : InWindow(e, since, until)})
        keys == GroupKeys(by, picked)
        groups == [k \in keys |->
                     SumRows(Where(picked, {e \in LedgerRows : GroupKey(by, e) = k}))]
    IN  [groups |-> groups,
         total  |-> [calls   |-> SumFunction([k \in keys |-> groups[k].calls]),
                     dollars |-> SumFunction([k \in keys |-> groups[k].dollars])]]

-----------------------------------------------------------------------------
(* The compliance report: one hash-chained log of everything recorded      *)

\* A row as an undated event: when, what kind, and what it says.
Raw(at, type, detail) == [at |-> at, type |-> type, detail |-> detail]

RawEvents(got) ==
    [i \in DOMAIN got.ledger |->
        Raw(got.ledger[i].at, "model_call", <<got.ledger[i].model, "">>)]
    \o [i \in DOMAIN got.tools |->
        Raw(got.tools[i].at, "tool_call", <<got.tools[i].call, got.tools[i].status>>)]
    \o [i \in 1..Cardinality(got.approvals) |->
        LET a == SetToSeq(got.approvals)[i] IN
        Raw(IF a.decided = Null THEN a.created ELSE a.decided,
            "approval", <<a.call, a.status>>)]

TypeRank == [approval |-> 1, model_call |-> 2, tool_call |-> 3]

\* sort.SliceStable by time, then by type.
Before(raws, i, j) ==
    \/ raws[i].at < raws[j].at
    \/ /\ raws[i].at = raws[j].at
       /\ \/ TypeRank[raws[i].type] < TypeRank[raws[j].type]
          \/ raws[i].type = raws[j].type /\ i < j

\* Mutant of ChainHash: the previous hash is left out.
ChainHashUnlinked(prev, e) == <<<<>>, e.seq, e.type, e.at, e.detail>>

\* sha256 over the previous hash and the event's own fields: two inputs that
\* differ have different hashes.
ChainHash(prev, e) == <<prev, e.seq, e.type, e.at, e.detail>>

BuildEvents(got) ==
    LET raws  == RawEvents(got)
        n     == Len(raws)
        order == SortSeq([i \in 1..n |-> i], LAMBDA i, j : Before(raws, i, j))
        bare  == [i \in 1..n |-> [seq |-> i - 1, type |-> raws[order[i]].type,
                                  at |-> raws[order[i]].at,
                                  detail |-> raws[order[i]].detail]]
        hash[i \in 0..n] == IF i = 0 THEN <<>> ELSE ChainHash(hash[i - 1], bare[i])
    IN  [i \in 1..n |-> [hash |-> hash[i], seq |-> bare[i].seq, type |-> bare[i].type,
                         at |-> bare[i].at, detail |-> bare[i].detail]]

ChainHead(events) == IF events = <<>> THEN <<>> ELSE Last(events).hash

\* What the event at a position is hashed with.
PrevHash(events, i) == IF i = 1 THEN <<>> ELSE events[i - 1].hash

\* The auditor's check of a report he was handed.
VerifyChain(events, head) ==
    /\ \A i \in DOMAIN events : events[i].hash = ChainHash(PrevHash(events, i), events[i])
    /\ ChainHead(events) = head

-----------------------------------------------------------------------------
(* The writers                                                             *)

Init ==
    /\ now = 0
    /\ metered = [r \in Runs |-> 0]
    /\ row = [r \in Runs |-> Null]
    /\ ledger = <<>> /\ tools = <<>>
    /\ approvals = [c \in Calls |-> Null]
    /\ gated = {}
    /\ reader = Idle
    /\ scraped = [calls |-> 0, dollars |-> 0]

Tick ==
    /\ now < MaxInstant
    /\ now' = now + 1
    /\ UNCHANGED <<metered, row, ledger, tools, approvals, gated, reader, scraped>>

\* A run's row: inserted before any row that refers to it, and moved to a
\* terminal status at most once.  Its usage is what the governor has counted, the
\* calls whose entries are not in the ledger yet included.  (An old record written
\* late, or a rollback, says less: see GovernedRun.)
UpsertRun(r) ==
    /\ \/ row[r] = Null /\ row' = [row EXCEPT ![r] = [status |-> "running", usage |-> 0]]
       \/ /\ row[r] # Null /\ row[r].status = "running"
          /\ \E status \in {"running", "halted"} :
                row' = [row EXCEPT ![r] = [status |-> status, usage |-> metered[r]]]
    /\ UNCHANGED <<now, metered, ledger, tools, approvals, gated, reader, scraped>>

\* The governor counts a call, also one that was under way when its run halted.
RecordCall(r, model) ==
    /\ row[r] # Null
    /\ metered[r] + Price[model] <= MaxMetered
    /\ metered' = [metered EXCEPT ![r] = @ + Price[model]]
    /\ UNCHANGED <<now, row, ledger, tools, approvals, gated, reader, scraped>>

\* The dollars counted that are not in the ledger: those of calls that have yet to
\* enter them, and of calls whose insert failed.
Owed(r) == metered[r] - Totals(r).dollars

\* The entry of a call already counted, before the run's row says so, unless the
\* row is written for another call.
AppendLedger(r, model) ==
    /\ row[r] # Null
    /\ Price[model] <= Owed(r)
    /\ Len(ledger) < MaxLedger
    /\ ledger' = Append(ledger, [run |-> r, model |-> model, at |-> now])
    /\ UNCHANGED <<now, metered, row, tools, approvals, gated, reader, scraped>>

\* The call c has no tool_calls row yet.
Unrecorded(c) == \A i \in DOMAIN tools : tools[i].call # c

\* A call that needs approval asks for it first.
CreateApproval(c) ==
    /\ row[RunOf[c]] # Null /\ approvals[c] = Null /\ Unrecorded(c)
    /\ approvals' = [approvals EXCEPT ![c] =
                       [call |-> c, run |-> RunOf[c], status |-> "pending",
                        created |-> now, decided |-> Null]]
    /\ gated' = gated \cup {c}
    /\ UNCHANGED <<now, metered, row, ledger, tools, reader, scraped>>

\* Somebody decides, perhaps after the call gave up waiting.
ResolveApproval(c, status) ==
    /\ approvals[c] # Null /\ approvals[c].status = "pending"
    /\ approvals' = [approvals EXCEPT ![c].status = status, ![c].decided = now]
    /\ UNCHANGED <<now, metered, row, ledger, tools, gated, reader, scraped>>

\* What the gateway records of a call: a call that asked, the decision or the
\* end of its wait, also when a decision came at the same time; any other call,
\* whether the allowlist let it through.
Outcomes(c) ==
    IF c \in gated THEN {"timeout"} \cup ({approvals[c].status} \ {"pending"})
    ELSE {"approved", "blocked"}

RecordToolCall(c) ==
    /\ row[RunOf[c]] # Null /\ Unrecorded(c)
    /\ \E status \in Outcomes(c) :
          tools' = Append(tools, [run |-> RunOf[c], call |-> c,
                                  status |-> status, at |-> now])
    /\ UNCHANGED <<now, metered, row, ledger, approvals, gated, reader, scraped>>

-----------------------------------------------------------------------------
(* The readers.  They never write, so one at a time is enough.             *)

\* Mutant of Reads: the row after everything else.
ReadsRowLast(op) ==
    CASE op = "compliance" -> <<"ledger", "totals", "tools", "approvals", "run">>
      [] op = "export"     -> <<"run", "ledger", "totals", "tools">>
      [] op = "tools"      -> <<"run", "tools">>
      [] op = "metrics"    -> <<"runs", "totals", "pending">>

\* Mutant of Reads: the approvals before the tool calls.
ReadsApprovalsFirst(op) ==
    CASE op = "compliance" -> <<"run", "ledger", "totals", "approvals", "tools">>
      [] op = "export"     -> <<"run", "ledger", "totals", "tools">>
      [] op = "tools"      -> <<"run", "tools">>
      [] op = "metrics"    -> <<"runs", "totals", "pending">>

\* The statements of each reader, in order; the metrics' "totals" is one
\* statement for every run listed.
Reads(op) ==
    CASE op = "compliance" -> <<"run", "ledger", "totals", "tools", "approvals">>
      [] op = "export"     -> <<"run", "ledger", "totals", "tools">>
      [] op = "tools"      -> <<"run", "tools">>
      [] op = "metrics"    -> <<"runs", "totals", "pending">>

Finished == reader.step > Len(Reads(reader.op))
At(statement) == ~Finished /\ Reads(reader.op)[reader.step] = statement

\* A command, or a scrape, starts once the one before it has printed.
Begin(op, r) ==
    /\ Finished
    /\ reader' = [Idle EXCEPT !.op = op, !.run = r, !.step = 1]
    /\ UNCHANGED <<now, metered, row, ledger, tools, approvals, gated, scraped>>

\* One statement's result; the next statement is another step.
Got(field, value) ==
    /\ reader' = [reader EXCEPT !.got[field] = value, !.step = @ + 1]
    /\ UNCHANGED <<now, metered, row, ledger, tools, approvals, gated, scraped>>

\* The row found, with the history a report's dollars are judged by.
RowRead(r) == [usage |-> row[r].usage, owed |-> Owed(r)]

\* A command on an unknown run ends there.
ReadRun ==
    /\ At("run")
    /\ \/ row[reader.run] # Null /\ Got("row", RowRead(reader.run))
       \/ /\ row[reader.run] = Null
          /\ reader' = Idle
          /\ UNCHANGED <<now, metered, row, ledger, tools, approvals, gated, scraped>>

ReadLedger == At("ledger") /\ Got("ledger", LedgerForRun(reader.run))
ReadTotals == At("totals") /\ reader.op # "metrics" /\ Got("totals", Totals(reader.run))
ReadTools == At("tools") /\ \E listing \in ListToolCalls(reader.run) : Got("tools", listing)

\* All approvals, of which the run's own are kept.
ReadApprovals ==
    /\ At("approvals")
    /\ Got("approvals", {a \in ListApprovals({"pending", "approved", "denied"}) :
                            a.run = reader.run})

MetricsRuns == At("runs") /\ Got("runs", ListRuns)

\* One run's totals are added at a time.
MetricsTotals ==
    /\ At("totals") /\ reader.op = "metrics"
    /\ \/ \E r \in reader.got.runs :
             reader' = [reader EXCEPT !.got.runs = @ \ {r},
                                      !.got.totals = Plus(@, Totals(r))]
       \/ reader.got.runs = {} /\ reader' = [reader EXCEPT !.step = @ + 1]
    /\ UNCHANGED <<now, metered, row, ledger, tools, approvals, gated, scraped>>

MetricsPending ==
    /\ At("pending")
    /\ reader' = [reader EXCEPT !.got.approvals = ListApprovals({"pending"}),
                                !.step = @ + 1]
    /\ scraped' = reader.got.totals
    /\ UNCHANGED <<now, metered, row, ledger, tools, approvals, gated>>

Next ==
    \/ Tick
    \/ \E r \in Runs : UpsertRun(r)
    \/ \E r \in Runs, model \in Models : RecordCall(r, model) \/ AppendLedger(r, model)
    \/ \E c \in Calls :
          \/ CreateApproval(c)
          \/ \E status \in {"approved", "denied"} : ResolveApproval(c, status)
          \/ RecordToolCall(c)
    \/ \E op \in Commands \ {"metrics"}, r \in Runs : Begin(op, r)
    \/ Begin("metrics", Idle.run)
    \/ ReadRun \/ ReadLedger \/ ReadTotals \/ ReadTools \/ ReadApprovals
    \/ MetricsRuns \/ MetricsTotals \/ MetricsPending

Spec == Init /\ [][Next]_vars

-----------------------------------------------------------------------------
(* Properties                                                              *)

\* Every row and everything a report has read is of its table's form; in
\* particular a tool call is never recorded with the status of an open approval.
TypeOK ==
    /\ now \in Instants
    /\ metered \in [Runs -> Nat]
    /\ row \in [Runs -> RunRows \cup {Null}]
    /\ ledger \in Seq(LedgerRows) /\ tools \in Seq(ToolRows)
    /\ approvals \in [Calls -> ApprovalRows \cup {Null}]
    /\ gated \subseteq Calls
    /\ reader \in [op : Commands, run : Runs, step : 1..6, got : Results]
    /\ scraped \in Sums

Printed(op) == reader.op = op /\ Finished /\ reader.got.row # Null

\* A printed export never lists more ledger entries, or more dollars in them, than
\* the totals beside them, although the two were read by two statements and
\* requests were charged in between; nor does a compliance report list more model
\* calls than the number it prints, the one total it takes from there.
TotalsCoverEntries ==
    LET listed == SumRows(reader.got.ledger) IN
    /\ Printed("export") \/ Printed("compliance") => listed.calls <= reader.got.totals.calls
    /\ Printed("export") => listed.dollars <= reader.got.totals.dollars

\* The dollars a compliance report prints are the runs row's, read before the
\* entries.  They are those of calls it lists: they exceed the listed entries by no
\* more than what was metered and not entered when the row was read, in whatever
\* order calls, entries and row writes go on between the statements.
SpendIsListed ==
    Printed("compliance") =>
        reader.got.row.usage <= SumRows(reader.got.ledger).dollars + reader.got.row.owed

\* The figures of a printed report fit the entries it lists, although it reads row,
\* entries and totals by one statement each while the run goes on (auditExport,
\* auditCompliance, BuildReport).
FiguresFitEntries == TotalsCoverEntries /\ SpendIsListed

\* A compliance report that shows a gated tool call as approved also shows the
\* human decision it rests on: tool calls are read before approvals, decisions are
\* written before tool calls.
ApprovedHasDecision ==
    Printed("compliance") =>
        \A i \in DOMAIN reader.got.tools :
            LET t == reader.got.tools[i] IN
            t.status = "approved" /\ t.call \in gated =>
                \E a \in reader.got.approvals : a.call = t.call /\ a.status = "approved"

\* What somebody may do to a printed log: drop or swap events, give one another
\* detail, also with the event's own hash made to fit, or add one that fits.
Forged(e, d) == [e EXCEPT !.detail = d]
Fitted(e, d, prev) == [Forged(e, d) EXCEPT !.hash = ChainHash(prev, Forged(e, d))]

Alterations(events) ==
    LET details == {<<Null, Null>>} \cup {events[i].detail : i \in DOMAIN events}
        others(i) == details \ {events[i].detail}
        forgeries(i) ==
            {[events EXCEPT ![i] = Forged(events[i], d)] : d \in others(i)}
            \cup {[events EXCEPT ![i] = Fitted(events[i], d, PrevHash(events, i))] : d \in others(i)}
            \cup {Append(events, Fitted(events[i], d, ChainHead(events))) : d \in others(i)}
    IN  {RemoveAt(events, i) : i \in DOMAIN events}
        \cup {[events EXCEPT ![i] = events[i + 1], ![i + 1] = events[i]] :
                 i \in 1..(Len(events) - 1)}
        \cup UNION {forgeries(i) : i \in DOMAIN events}

\* VerifyChain accepts the log of every compliance report as printed, and no log
\* altered in one place, against the head the report was published with.
ChainDetectsTampering ==
    Printed("compliance") =>
        LET events == BuildEvents(reader.got)
            head == ChainHead(events)
        IN  /\ VerifyChain(events, head)
            /\ \A log \in Alterations(events) : ~VerifyChain(log, head)

\* Consecutive windows count every call once, whatever the bound between them: by
\* any dimension, what falls before a bound and what falls after it add up to the
\* sum of the runs' own totals, the runs without the key included.  (Like any
\* reader, a summary is asked for when no other command is under way.)
WindowsPartition ==
    LET whole == [calls   |-> SumFunction([r \in Runs |-> Totals(r).calls]),
                  dollars |-> SumFunction([r \in Runs |-> Totals(r).dollars])]
    IN  Finished => \A t \in Instants, by \in Dimensions :
            Plus(SummarizeLedger(by, Null, t).total, SummarizeLedger(by, t, Null).total) = whole

\* The scraped spend and call counters, declared counters to Prometheus, never
\* decrease from one scrape to the next, although runs halt, appear and are
\* charged while a scrape adds them up.
CountersMonotone ==
    [][/\ scraped'.calls >= scraped.calls
       /\ scraped'.dollars >= scraped.dollars]_vars

=============================================================================

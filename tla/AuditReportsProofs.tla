------------------------ MODULE AuditReportsProofs -------------------------
(***************************************************************************)
(* Proofs about AuditReports, for any number of runs, calls, prices and    *)
(* rows: what a report shows although its statements see different         *)
(* moments of the store.                                                   *)
(***************************************************************************)
EXTENDS AuditReports, SharedLemmas, TLAPS

----------------------------------------------------------------------------
(* The store's sums over its rows.                                         *)

\* g[k] is what the first k rows cost.
IsBill(g, n, rows) ==
    /\ g \in [0..n -> Nat] /\ g[0] = 0 /\ g[n] = Dollars(rows)
    /\ \A k \in 1..n : g[k] = g[k - 1] + Price[rows[k].model]

\* What FoldLeft computes for Totals is what a loop over the rows computes.
LEMMA DollarsIsLoop ==
    ASSUME NEW rows, NEW n \in Nat, DOMAIN rows = 1..n, \A k \in 1..n : Price[rows[k].model] \in Nat
    PROVE  \E g : IsBill(g, n, rows)
<1> DEFINE f == [p \in (1..n) \X Nat |-> p[2] + Price[rows[p[1]].model]]
           Step(h) == [T \in SUBSET (1..n) |->
                         IF T = {} THEN 0 ELSE h[T \ {Max(T)}] + Price[rows[Max(T)].model]]
           iter == CHOOSE h : h = Step(h)
<1>1. Dollars(rows) = iter[1..n]
  BY DEF Dollars, FoldLeft, MapThenFoldSet
<1>2. f \in [(1..n) \X Nat -> Nat] /\ \A k \in 1..n, x \in Nat : f[<<k, x>>] = x + Price[rows[k].model]
  OBVIOUS
<1> HIDE DEF f
<1>3. PICK h : IsFold(h, n, Nat, 0, f)
  BY <1>2, FoldExists
<1>4. /\ h \in [SUBSET (1..n) -> Nat] /\ h[{}] = 0
      /\ \A T \in SUBSET (1..n) : T # {} => h[T] = f[<<Max(T), h[T \ {Max(T)}]>>]
  BY <1>3 DEF IsFold
<1>5. \A T \in SUBSET (1..n) : T # {} => Max(T) \in 1..n /\ T \ {Max(T)} \in SUBSET (1..n)
  BY MaxOfPositions
<1>6. \A T \in SUBSET (1..n) : T # {} => h[T] = h[T \ {Max(T)}] + Price[rows[Max(T)].model]
  BY <1>2, <1>4, <1>5
<1>7. h = Step(h)
  <2>1. h = [T \in SUBSET (1..n) |-> h[T]]
    BY <1>4
  <2>2. QED
    BY <1>4, <1>6, <2>1
<1>8. iter = Step(iter)
  <2> HIDE DEF Step
  <2> QED BY <1>7
<1> HIDE DEF iter
<1>9. iter[{}] = 0 /\ \A T \in SUBSET (1..n) : T # {} => iter[T] = iter[T \ {Max(T)}] + Price[rows[Max(T)].model]
  BY <1>8
<1>10. PICK g : IsLoop(g, n, Nat, 0, f, iter[1..n])
  <2>1. \A T \in SUBSET (1..n) : (T # {} /\ iter[T \ {Max(T)}] \in Nat) =>
            iter[T] = f[<<Max(T), iter[T \ {Max(T)}]>>]
    BY <1>2, <1>5, <1>9
  <2> DEFINE A == Nat
             z == 0
  <2>2. z \in A /\ f \in [(1..n) \X A -> A] /\ iter[{}] = z
        /\ \A T \in SUBSET (1..n) : (T # {} /\ iter[T \ {Max(T)}] \in A) =>
               iter[T] = f[<<Max(T), iter[T \ {Max(T)}]>>]
    BY <1>2, <1>9, <2>1
  <2> HIDE DEF A, z
  <2>3. \E g : IsLoop(g, n, A, z, f, iter[1..n])
    BY <2>2, LoopOfFold
  <2>4. QED
    BY <2>3 DEF A, z
<1>11. g \in [0..n -> Nat] /\ g[0] = 0 /\ g[n] = Dollars(rows) /\ \A k \in 1..n : g[k] = f[<<k, g[k - 1]>>]
  BY <1>1, <1>10 DEF IsLoop
<1>12. \A k \in 1..n : k - 1 \in 0..n /\ g[k - 1] \in Nat
  BY <1>11
<1>13. IsBill(g, n, rows)
  BY <1>2, <1>11, <1>12 DEF IsBill
<1>14. QED
  BY <1>13

\* The prices of ledger rows.
LEMMA PriceOK ==
    ASSUME NEW rows \in Seq(LedgerRows)
    PROVE  /\ Len(rows) \in Nat /\ DOMAIN rows = 1..Len(rows)
           /\ \A k \in 1..Len(rows) : Price[rows[k].model] \in Nat
<1>1. Len(rows) \in Nat /\ DOMAIN rows = 1..Len(rows) /\ \A k \in 1..Len(rows) : rows[k] \in LedgerRows
  OBVIOUS
<1>2. \A e \in LedgerRows : Price[e.model] \in Nat
  BY ReportConstants DEF LedgerRows, Models
<1>3. QED
  BY <1>1, <1>2

\* SumRows gives totals; a new row adds one call and its price; nothing costs
\* nothing.
LEMMA SumRowsType ==
    ASSUME NEW rows \in Seq(LedgerRows)
    PROVE  SumRows(rows) \in Sums /\ SumRows(rows).calls = Len(rows)
<1>1. PICK g : IsBill(g, Len(rows), rows)
  BY PriceOK, DollarsIsLoop
<1>2. Len(rows) \in Nat
  OBVIOUS
<1>3. Dollars(rows) \in Nat
  BY <1>1, <1>2 DEF IsBill
<1>4. QED
  BY <1>2, <1>3 DEF SumRows, Sums

\* A new row adds one call and its price.
LEMMA SumAppend ==
    ASSUME NEW rows \in Seq(LedgerRows), NEW e \in LedgerRows
    PROVE  /\ SumRows(Append(rows, e)).calls = SumRows(rows).calls + 1
           /\ SumRows(Append(rows, e)).dollars = SumRows(rows).dollars + Price[e.model]
<1> DEFINE n == Len(rows)
           more == Append(rows, e)
<1>1. n \in Nat /\ DOMAIN rows = 1..n
  OBVIOUS
<1>2. more \in Seq(LedgerRows) /\ Len(more) = n + 1 /\ (\A k \in 1..n : more[k] = rows[k]) /\ more[n + 1] = e
  OBVIOUS
<1>3. PICK g : IsBill(g, n, rows)
  BY PriceOK, DollarsIsLoop
<1> HIDE DEF more, n
<1>4. PICK h : IsBill(h, n + 1, more)
  <2>1. DOMAIN more = 1..(n + 1) /\ n + 1 \in Nat /\ \A k \in 1..(n + 1) : Price[more[k].model] \in Nat
    BY <1>1, <1>2, PriceOK
  <2>2. QED
    BY <2>1, DollarsIsLoop
<1>5. g[0] = 0 /\ g[n] = Dollars(rows) /\ \A k \in 1..n : g[k] = g[k - 1] + Price[rows[k].model]
  BY <1>3 DEF IsBill
<1>6. h[0] = 0 /\ h[n + 1] = Dollars(more) /\ \A k \in 1..(n + 1) : h[k] = h[k - 1] + Price[more[k].model]
  BY <1>4 DEF IsBill
<1> DEFINE G == {k \in 0..n : g[k] = h[k]}
<1>7. 0 \in G
  BY <1>1, <1>5, <1>6
<1>8. ASSUME NEW k \in 1..n, k - 1 \in G PROVE k \in G
  <2>1. k \in 1..(n + 1) /\ k \in 0..n /\ more[k] = rows[k] /\ g[k - 1] = h[k - 1]
    BY <1>1, <1>2, <1>8
  <2>2. g[k] = h[k]
    BY <1>5, <1>6, <2>1
  <2>3. QED
    BY <2>1, <2>2
<1>9. \A k \in 0..n : k \in G
  <2> HIDE DEF G
  <2> QED BY <1>1, <1>7, <1>8, CountUp
<1>10. h[n] = Dollars(rows)
  BY <1>1, <1>5, <1>9
<1>11. n + 1 \in 1..(n + 1) /\ (n + 1) - 1 = n
  BY <1>1
<1>12. h[n + 1] = h[n] + Price[e.model]
  BY <1>2, <1>6, <1>11
<1>13. Dollars(more) = Dollars(rows) + Price[e.model]
  BY <1>6, <1>10, <1>12
<1>14. SumRows(more).dollars = Dollars(more) /\ SumRows(more).calls = Len(more)
       /\ SumRows(rows).dollars = Dollars(rows) /\ SumRows(rows).calls = n
  BY DEF SumRows, n
<1>15. QED
  BY <1>2, <1>13, <1>14 DEF more

\* No rows, no calls and no dollars.
LEMMA SumEmpty == SumRows(<<>>).calls = 0 /\ SumRows(<<>>).dollars = 0
<1> DEFINE rows == <<>>
<1>1. DOMAIN rows = 1..0 /\ 0 \in Nat /\ (\A k \in 1..0 : Price[rows[k].model] \in Nat) /\ Len(rows) = 0
  OBVIOUS
<1> HIDE DEF rows
<1>2. PICK g : IsBill(g, 0, rows)
  BY <1>1, DollarsIsLoop
<1>3. Dollars(rows) = 0
  BY <1>2 DEF IsBill
<1>4. QED
  BY <1>1, <1>3 DEF SumRows, rows

----------------------------------------------------------------------------
(* The totals of a run.                                                    *)

\* A run's totals only grow, and only by the rows of its own calls.
LEMMA TotalsGrow ==
    ASSUME ledger \in Seq(LedgerRows), NEW e \in LedgerRows, ledger' = Append(ledger, e), NEW r
    PROVE  /\ Totals(r) \in Sums /\ Totals(r)' \in Sums
           /\ e.run # r => Totals(r)' = Totals(r)
           /\ e.run = r => /\ Totals(r)'.calls = Totals(r).calls + 1
                           /\ Totals(r)'.dollars = Totals(r).dollars + Price[e.model]
<1> DEFINE S == {x \in LedgerRows : x.run = r}
           s == Where(ledger, S)
           u == Where(ledger', S)
<1>1. s \in Seq(LedgerRows) /\ u = IF e.run = r THEN Append(s, e) ELSE s
  <2>1. e \in S <=> e.run = r
    OBVIOUS
  <2> HIDE DEF S
  <2>2. QED
    BY <2>1, WhereType, WhereAppend
<1>2. Totals(r) = SumRows(s) /\ Totals(r)' = SumRows(u)
  BY DEF Totals, LedgerForRun
<1> HIDE DEF s, u
<1>3. u \in Seq(LedgerRows)
  BY <1>1
<1>4. SumRows(s) \in Sums /\ SumRows(u) \in Sums
  BY <1>1, <1>3, SumRowsType
<1>5. e.run = r => /\ SumRows(u).calls = SumRows(s).calls + 1
                   /\ SumRows(u).dollars = SumRows(s).dollars + Price[e.model]
  BY <1>1, SumAppend
<1>6. QED
  BY <1>1, <1>2, <1>4, <1>5

----------------------------------------------------------------------------
(* Sums over some of the runs.                                             *)

SumOver(D, f) == SumFunction([r \in Runs |-> IF r \in D THEN f[r] ELSE 0])

\* Such a sum is a natural number.
LEMMA SumOverType ==
    ASSUME NEW D, NEW f \in [Runs -> Nat]
    PROVE  SumOver(D, f) \in Nat
<1>1. [r \in Runs |-> IF r \in D THEN f[r] ELSE 0] \in [Runs -> Nat]
  OBVIOUS
<1>2. QED
  BY <1>1, SumType, ReportConstants DEF SumOver

\* One run more or less.
LEMMA SumOverOne ==
    ASSUME NEW D, NEW f \in [Runs -> Nat], NEW x \in Runs, x \in D
    PROVE  SumOver(D, f) = SumOver(D \ {x}, f) + f[x]
<1> DEFINE F == [r \in Runs |-> IF r \in D \ {x} THEN f[r] ELSE 0]
           H == [r \in Runs |-> IF r \in D THEN f[r] ELSE 0]
<1>1. F \in [Runs -> Nat] /\ H \in [Runs -> Nat] /\ F[x] = 0 /\ H[x] = f[x]
  OBVIOUS
<1>2. DifferAt(F, H, x)
  BY DEF DifferAt
<1>3. SumOver(D \ {x}, f) = SumFunction(F) /\ SumOver(D, f) = SumFunction(H)
  BY DEF SumOver
<1> HIDE DEF F, H
<1>4. SumFunction(H) = SumFunction(F) - F[x] + H[x]
  BY <1>1, <1>2, SumOfChanged, ReportConstants
<1>5. SumFunction(F) \in Nat /\ f[x] \in Nat
  BY <1>1, SumType, ReportConstants
<1>6. QED
  BY <1>1, <1>3, <1>4, <1>5

\* A summand that grows makes no sum smaller.
LEMMA SumOverGrows ==
    ASSUME NEW D, NEW f \in [Runs -> Nat], NEW g \in [Runs -> Nat], NEW x \in Runs,
           \A r \in Runs : r # x => g[r] = f[r], g[x] >= f[x]
    PROVE  SumOver(D, g) >= SumOver(D, f)
<1> DEFINE F == [r \in Runs |-> IF r \in D THEN f[r] ELSE 0]
           H == [r \in Runs |-> IF r \in D THEN g[r] ELSE 0]
<1>1. F \in [Runs -> Nat] /\ H \in [Runs -> Nat]
  OBVIOUS
<1>2. DifferAt(F, H, x)
  BY DEF DifferAt
<1>3. H[x] \in Nat /\ F[x] \in Nat /\ H[x] >= F[x]
  OBVIOUS
<1>4. SumOver(D, f) = SumFunction(F) /\ SumOver(D, g) = SumFunction(H)
  BY DEF SumOver
<1> HIDE DEF F, H
<1>5. SumFunction(H) = SumFunction(F) - F[x] + H[x]
  BY <1>1, <1>2, SumOfChanged, ReportConstants
<1>6. SumFunction(F) \in Nat
  BY <1>1, SumType, ReportConstants
<1>7. QED
  BY <1>3, <1>4, <1>5, <1>6

\* Runs without a call add nothing, and neither do no runs.
LEMMA SumOverZeros ==
    ASSUME NEW D, NEW f \in [Runs -> Nat]
    PROVE  /\ SumOver({}, f) = 0
           /\ (\A r \in Runs \ D : f[r] = 0) => SumOver(D, f) = SumOver(Runs, f)
<1>1. SumOver({}, f) = 0
  <2> DEFINE F == [r \in Runs |-> IF r \in {} THEN f[r] ELSE 0]
  <2>1. F \in [Runs -> Nat] /\ \A r \in Runs : F[r] = 0
    OBVIOUS
  <2>2. SumOver({}, f) = SumFunction(F)
    BY DEF SumOver
  <2> HIDE DEF F
  <2>3. QED
    BY <2>1, <2>2, SumOfZeros, ReportConstants
<1>2. ASSUME \A r \in Runs \ D : f[r] = 0 PROVE SumOver(D, f) = SumOver(Runs, f)
  <2>1. [r \in Runs |-> IF r \in D THEN f[r] ELSE 0] = [r \in Runs |-> IF r \in Runs THEN f[r] ELSE 0]
    BY <1>2
  <2>2. QED
    BY <2>1 DEF SumOver
<1>3. QED
  BY <1>1, <1>2

----------------------------------------------------------------------------
(* The inductive invariants.                                               *)

\* Nothing is in the ledger, or in the usage of a row, that was not metered.
MeterInv ==
    \A r \in Runs : /\ Totals(r).dollars <= metered[r]
                    /\ row[r] # Null => row[r].usage <= metered[r]

\* A gated call has its approval, a row that says "approved" of one was written
\* after the decision, and a run without a row was never charged.
StoreInv ==
    /\ \A c \in gated : approvals[c] # Null
    /\ \A c \in Calls : approvals[c] # Null => approvals[c].call = c /\ approvals[c].run = RunOf[c]
    /\ \A i \in DOMAIN tools :
         /\ tools[i].run = RunOf[tools[i].call]
         /\ (tools[i].status = "approved" /\ tools[i].call \in gated) =>
               approvals[tools[i].call].status = "approved"
    /\ \A r \in Runs : row[r] = Null => Totals(r).calls = 0 /\ Totals(r).dollars = 0
    /\ MeterInv

Covers(a, b) == a.calls <= b.calls /\ a.dollars <= b.dollars

\* The entries read are covered by what the ledger holds until the totals are
\* read, and by the totals from then on.
EntriesInv ==
    reader.op \in {"compliance", "export"} =>
        /\ reader.step = 3 => Covers(SumRows(reader.got.ledger), Totals(reader.run))
        /\ reader.step > 3 => Covers(SumRows(reader.got.ledger), reader.got.totals)

\* The decision a row rests on is among the approvals read.
Decided(t) == (t.status = "approved" /\ t.call \in gated) =>
                 \E a \in reader.got.approvals : a.call = t.call /\ a.status = "approved"

\* The tool calls read are rows of the run, and stay so.
DecisionInv ==
    reader.op = "compliance" =>
        /\ reader.step >= 5 =>
             \A i \in DOMAIN reader.got.tools :
                 \E j \in DOMAIN tools : reader.got.tools[i] = tools[j] /\ tools[j].run = reader.run
        /\ reader.step = 6 => \A i \in DOMAIN reader.got.tools : Decided(reader.got.tools[i])

\* What the runs have spent.
CallsOf   == [r \in Runs |-> Totals(r).calls]
DollarsOf == [r \in Runs |-> Totals(r).dollars]

\* A counter on its way through a scrape: the scrape before it showed s, t is
\* added up so far, f is what the runs have spent.
Between(s, t, f) ==
    /\ s <= SumOver(Runs, f)
    /\ reader.op = "metrics" =>
         /\ reader.step = 1 => t = 0
         /\ reader.step = 2 => s <= t + SumOver(reader.got.runs, f) /\ t <= SumOver(Runs \ reader.got.runs, f)
         /\ reader.step = 3 => s <= t /\ t <= SumOver(Runs, f)

ScrapeInv ==
    /\ Between(scraped.calls, reader.got.totals.calls, CallsOf)
    /\ Between(scraped.dollars, reader.got.totals.dollars, DollarsOf)

IInv == TypeOK /\ StoreInv /\ EntriesInv /\ DecisionInv /\ ScrapeInv

----------------------------------------------------------------------------
(* The statements of the readers.                                          *)

\* Which reader issues which statement when.
LEMMA Statements ==
    ASSUME reader.op \in Commands, reader.step \in 1..6
    PROVE  /\ At("run") => reader.op # "metrics" /\ reader.step = 1
           /\ At("ledger") => reader.op \in {"compliance", "export"} /\ reader.step = 2
           /\ At("totals") => \/ reader.op \in {"compliance", "export"} /\ reader.step = 3
                              \/ reader.op = "metrics" /\ reader.step = 2
           /\ At("tools") => \/ reader.op \in {"compliance", "export"} /\ reader.step = 4
                             \/ reader.op = "tools" /\ reader.step = 2
           /\ At("approvals") => reader.op = "compliance" /\ reader.step = 5
           /\ At("runs") => reader.op = "metrics" /\ reader.step = 1
           /\ At("pending") => reader.op = "metrics" /\ reader.step = 3
           /\ (Finished /\ reader.op = "compliance") => reader.step = 6
           /\ (Finished /\ reader.op = "export") => reader.step > 4
<1> DEFINE op == reader.op
           step == reader.step
<1>0. step \in {1, 2, 3, 4, 5, 6} /\ op \in {"compliance", "export", "tools", "metrics"}
  BY DEF Commands
<1>1. /\ Finished <=> step > Len(Reads(op))
      /\ \A s : At(s) <=> ~(step > Len(Reads(op))) /\ Reads(op)[step] = s
  BY DEF Finished, At
<1> HIDE DEF op, step
<1>2. CASE op = "compliance"
  <2>1. Reads(op) = <<"run", "ledger", "totals", "tools", "approvals">>
    BY <1>2 DEF Reads
  <2>2. /\ Len(Reads(op)) = 5 /\ Reads(op)[1] = "run" /\ Reads(op)[2] = "ledger"
        /\ Reads(op)[3] = "totals" /\ Reads(op)[4] = "tools" /\ Reads(op)[5] = "approvals"
    BY <2>1
  <2>3. QED
    BY <1>0, <1>1, <1>2, <2>2 DEF op, step
<1>3. CASE op = "export"
  <2>1. Reads(op) = <<"run", "ledger", "totals", "tools">>
    BY <1>3 DEF Reads
  <2>2. /\ Len(Reads(op)) = 4 /\ Reads(op)[1] = "run" /\ Reads(op)[2] = "ledger"
        /\ Reads(op)[3] = "totals" /\ Reads(op)[4] = "tools"
    BY <2>1
  <2>3. /\ Finished <=> step > 4
        /\ \A s : At(s) <=> step <= 4 /\ Reads(op)[step] = s
    BY <1>0, <1>1, <2>2
  <2>4. QED
    BY <1>0, <1>3, <2>2, <2>3 DEF op, step
<1>4. CASE op = "tools"
  <2>1. Reads(op) = <<"run", "tools">>
    BY <1>4 DEF Reads
  <2>2. /\ Len(Reads(op)) = 2 /\ Reads(op)[1] = "run" /\ Reads(op)[2] = "tools"
    BY <2>1
  <2>3. QED
    BY <1>0, <1>1, <1>4, <2>2 DEF op, step
<1>5. CASE op = "metrics"
  <2>1. Reads(op) = <<"runs", "totals", "pending">>
    BY <1>5 DEF Reads
  <2>2. /\ Len(Reads(op)) = 3 /\ Reads(op)[1] = "runs" /\ Reads(op)[2] = "totals"
        /\ Reads(op)[3] = "pending"
    BY <2>1
  <2>3. QED
    BY <1>0, <1>1, <1>5, <2>2 DEF op, step
<1>6. QED
  BY <1>0, <1>2, <1>3, <1>4, <1>5

----------------------------------------------------------------------------
(* What the actions leave alone.                                           *)

\* The totals are functions into the naturals.
LEMMA SpentType ==
    ASSUME TypeOK
    PROVE  /\ \A r \in Runs : Totals(r) \in Sums
           /\ CallsOf \in [Runs -> Nat] /\ DollarsOf \in [Runs -> Nat]
<1>1. \A r \in Runs : Totals(r) \in Sums
  <2>1. ledger \in Seq(LedgerRows)
    BY DEF TypeOK
  <2>2. \A r \in Runs : LedgerForRun(r) \in Seq(LedgerRows)
    BY <2>1, WhereType DEF LedgerForRun
  <2>3. QED
    BY <2>2, SumRowsType DEF Totals, LedgerForRun
<1>2. QED
  BY <1>1 DEF CallsOf, DollarsOf, Sums

\* Without a new ledger row no totals change.
LEMMA SpentSame ==
    ASSUME UNCHANGED ledger
    PROVE  /\ \A r : Totals(r)' = Totals(r)
           /\ CallsOf' = CallsOf /\ DollarsOf' = DollarsOf
<1>1. \A r : Totals(r)' = Totals(r)
  BY DEF Totals, LedgerForRun
<1>2. QED
  BY <1>1 DEF CallsOf, DollarsOf

\* A writer that charges nothing disturbs neither the entries nor the scrape.
LEMMA WriterFrame ==
    ASSUME EntriesInv, ScrapeInv, UNCHANGED <<ledger, reader, scraped>>
    PROVE  EntriesInv' /\ ScrapeInv'
<1>1. EntriesInv'
  BY SpentSame DEF EntriesInv, Covers
<1>2. ScrapeInv'
  BY SpentSame DEF ScrapeInv, Between
<1>3. QED
  BY <1>1, <1>2

\* Whoever writes neither the ledger nor a run's row leaves what was metered alone.
LEMMA MeterFrame ==
    ASSUME MeterInv, UNCHANGED <<metered, row, ledger>>
    PROVE  MeterInv'
BY SpentSame DEF MeterInv

\* A reader disturbs nothing of the store.
LEMMA ReaderFrame ==
    ASSUME StoreInv, UNCHANGED <<metered, row, ledger, tools, approvals, gated>>
    PROVE  StoreInv'
BY SpentSame, MeterFrame DEF StoreInv

\* No report is under way at first.
LEMMA InitOK == Init => IInv
<1> SUFFICES ASSUME Init PROVE IInv
  OBVIOUS
<1>1. Idle.run \in Runs
  BY ReportConstants DEF Idle
<1>2. Idle \in [op : Commands, run : Runs, step : 1..6, got : Results]
  BY <1>1 DEF Idle, Commands, Results, Sums
<1>3. TypeOK
  BY <1>2, ReportConstants DEF Init, TypeOK, Instants, Sums
<1>4. \A r : Totals(r).calls = 0 /\ Totals(r).dollars = 0
  <2>1. \A r : LedgerForRun(r) = <<>>
    BY WhereEmpty DEF Init, LedgerForRun
  <2>2. QED
    BY <2>1, SumEmpty DEF Totals, LedgerForRun
<1>5. StoreInv
  BY <1>4 DEF Init, StoreInv, MeterInv
<1>6. EntriesInv
  BY SumEmpty DEF Init, Idle, EntriesInv, Covers
<1>7. DecisionInv
  BY DEF Init, Idle, DecisionInv
<1>8. ScrapeInv
  <2>1. SumOver(Runs, CallsOf) \in Nat /\ SumOver(Runs, DollarsOf) \in Nat
    BY <1>3, SpentType, SumOverType
  <2>2. reader.op = "export" /\ scraped.calls = 0 /\ scraped.dollars = 0
    BY DEF Init, Idle
  <2>3. QED
    BY <2>1, <2>2 DEF ScrapeInv, Between
<1>9. QED
  BY <1>3, <1>5, <1>6, <1>7, <1>8 DEF IInv

----------------------------------------------------------------------------
(* The writers preserve the invariants.                                    *)

\* Time passes.
LEMMA TickOK == IInv /\ Tick => IInv'
<1> SUFFICES ASSUME IInv, Tick PROVE IInv'
  OBVIOUS
<1>1. UNCHANGED <<metered, row, ledger, tools, approvals, gated, reader, scraped>> /\ now' \in Instants
  BY ReportConstants DEF IInv, TypeOK, Tick, Instants
<1>2. TypeOK'
  BY <1>1 DEF IInv, TypeOK
<1>3. StoreInv' /\ EntriesInv' /\ ScrapeInv'
  BY <1>1, ReaderFrame, WriterFrame DEF IInv
<1>4. DecisionInv'
  BY <1>1 DEF IInv, DecisionInv, Decided
<1>5. QED
  BY <1>2, <1>3, <1>4 DEF IInv

\* A run's row is written.
LEMMA UpsertRunOK == \A r \in Runs : IInv /\ UpsertRun(r) => IInv'
<1> SUFFICES ASSUME NEW x \in Runs, IInv, UpsertRun(x) PROVE IInv'
  OBVIOUS
<1>1. UNCHANGED <<now, metered, ledger, tools, approvals, gated, reader, scraped>>
  BY DEF UpsertRun
<1>2. \E status \in {"running", "halted"}, usage \in Nat :
         row' = [row EXCEPT ![x] = [status |-> status, usage |-> usage]] /\ usage <= metered[x]
  BY DEF UpsertRun, IInv, TypeOK
<1>8. PICK new \in RunRows : row' = [row EXCEPT ![x] = new] /\ new.usage <= metered[x]
  <2>1. PICK status \in {"running", "halted"}, usage \in Nat :
           row' = [row EXCEPT ![x] = [status |-> status, usage |-> usage]] /\ usage <= metered[x]
    BY <1>2
  <2>2. [status |-> status, usage |-> usage] \in RunRows
    BY DEF RunRows
  <2>3. [status |-> status, usage |-> usage].usage <= metered[x]
    BY <2>1
  <2>4. QED
    BY <2>1, <2>2, <2>3, Zenon
<1>9. row' \in [Runs -> RunRows \cup {Null}] /\ (\A r \in Runs : row'[r] = Null => row[r] = Null)
      /\ row'[x] = new /\ (\A r \in Runs : r # x => row'[r] = row[r])
  BY <1>8, ReportConstants DEF IInv, TypeOK
<1>10. MeterInv'
  BY <1>1, <1>8, <1>9, SpentSame DEF IInv, StoreInv, MeterInv
<1>3. TypeOK'
  BY <1>1, <1>9 DEF IInv, TypeOK
<1>4. StoreInv'
  BY <1>1, <1>9, <1>10, SpentSame DEF IInv, StoreInv
<1>5. EntriesInv' /\ ScrapeInv'
  BY <1>1, WriterFrame DEF IInv
<1>6. DecisionInv'
  BY <1>1 DEF IInv, DecisionInv, Decided
<1>7. QED
  BY <1>3, <1>4, <1>5, <1>6 DEF IInv

\* A call is counted before anything is written of it.
LEMMA RecordCallOK == \A r \in Runs, model \in Models : IInv /\ RecordCall(r, model) => IInv'
<1> SUFFICES ASSUME NEW x \in Runs, NEW model \in Models, IInv, RecordCall(x, model) PROVE IInv'
  OBVIOUS
<1>1. UNCHANGED <<now, row, ledger, tools, approvals, gated, reader, scraped>>
      /\ metered' = [metered EXCEPT ![x] = @ + Price[model]]
  BY DEF RecordCall
<1>2. Price[model] \in Nat /\ metered \in [Runs -> Nat] /\ \A r \in Runs : Totals(r) \in Sums
  BY ReportConstants, SpentType DEF IInv, TypeOK, Models
<1>3. metered' \in [Runs -> Nat] /\ \A r \in Runs : metered'[r] >= metered[r]
  BY <1>1, <1>2
<1>4. TypeOK'
  BY <1>1, <1>3 DEF IInv, TypeOK
<1>5. MeterInv'
  <2>1. \A r \in Runs : row[r] # Null => row[r].usage \in Nat
    BY DEF IInv, TypeOK, RunRows
  <2>2. \A r \in Runs : Totals(r)' = Totals(r) /\ Totals(r).dollars \in Nat
    BY <1>1, <1>2, SpentSame DEF Sums
  <2>3. MeterInv
    BY DEF IInv, StoreInv
  <2>4. QED
    BY <1>1, <1>2, <1>3, <2>1, <2>2, <2>3 DEF MeterInv
<1>6. StoreInv'
  BY <1>1, <1>5, SpentSame DEF IInv, StoreInv
<1>7. EntriesInv' /\ ScrapeInv'
  BY <1>1, WriterFrame DEF IInv
<1>8. DecisionInv'
  BY <1>1 DEF IInv, DecisionInv, Decided
<1>9. QED
  BY <1>4, <1>6, <1>7, <1>8 DEF IInv

\* A tool_calls row is about a governed call.
LEMMA ToolRow ==
    ASSUME tools \in Seq(ToolRows)
    PROVE  \A i \in DOMAIN tools : tools[i].call \in Calls
<1>1. \A i \in DOMAIN tools : tools[i] \in ToolRows
  OBVIOUS
<1>2. \A t \in ToolRows : t.call \in Calls
  BY DEF ToolRows
<1>3. QED
  BY <1>1, <1>2

\* No row of the call was read, because none was written.
LEMMA CreateApprovalOK == \A c \in Calls : IInv /\ CreateApproval(c) => IInv'
<1> SUFFICES ASSUME NEW x \in Calls, IInv, CreateApproval(x) PROVE IInv'
  OBVIOUS
<1> DEFINE new == [call |-> x, run |-> RunOf[x], status |-> "pending", created |-> now, decided |-> Null]
<1>1. UNCHANGED <<now, metered, row, ledger, tools, reader, scraped>> /\ gated' = gated \cup {x}
      /\ Unrecorded(x) /\ approvals' = [approvals EXCEPT ![x] = new]
  BY DEF CreateApproval
<1>2. new \in ApprovalRows /\ new.call = x /\ new.run = RunOf[x]
  BY ReportConstants DEF IInv, TypeOK, ApprovalRows
<1> HIDE DEF new
<1>3. new # Null
  BY <1>2, ReportConstants
<1>4. approvals \in [Calls -> ApprovalRows \cup {Null}] /\ tools \in Seq(ToolRows) /\ gated \subseteq Calls
  BY DEF IInv, TypeOK
<1>5. approvals'[x] = new /\ \A c \in Calls : c # x => approvals'[c] = approvals[c]
  BY <1>1, <1>4
<1>6. \A i \in DOMAIN tools : tools[i].call # x /\ tools[i].call \in Calls
  BY <1>1, <1>4, ToolRow DEF Unrecorded
<1>7. TypeOK'
  BY <1>1, <1>2, <1>4 DEF IInv, TypeOK
<1>8. StoreInv'
  <2>1. \A c \in gated' : approvals'[c] # Null
    BY <1>1, <1>3, <1>4, <1>5 DEF IInv, StoreInv
  <2>2. \A c \in Calls : approvals'[c] # Null => approvals'[c].call = c /\ approvals'[c].run = RunOf[c]
    BY <1>2, <1>5 DEF IInv, StoreInv
  <2>3. \A i \in DOMAIN tools :
           /\ tools[i].run = RunOf[tools[i].call]
           /\ (tools[i].status = "approved" /\ tools[i].call \in gated') =>
                 approvals'[tools[i].call].status = "approved"
    BY <1>1, <1>5, <1>6 DEF IInv, StoreInv
  <2>4. \A r \in Runs : row'[r] = Null => Totals(r)'.calls = 0 /\ Totals(r)'.dollars = 0
    BY <1>1, SpentSame DEF IInv, StoreInv
  <2>6. MeterInv'
    BY <1>1, MeterFrame DEF IInv, StoreInv
  <2>5. QED
    BY <1>1, <2>1, <2>2, <2>3, <2>4, <2>6 DEF StoreInv
<1>9. EntriesInv' /\ ScrapeInv'
  BY <1>1, WriterFrame DEF IInv
<1>10. DecisionInv'
  <2>1. DecisionInv /\ reader.step \in 1..6
    BY DEF IInv, TypeOK
  <2>2. ASSUME reader.op = "compliance", reader.step = 6, NEW i \in DOMAIN reader.got.tools
        PROVE  Decided(reader.got.tools[i])'
    <3>1. reader.got.tools[i].call # x /\ Decided(reader.got.tools[i])
      BY <1>6, <2>1, <2>2 DEF DecisionInv
    <3>2. QED
      BY <1>1, <3>1 DEF Decided
  <2>3. QED
    BY <1>1, <2>1, <2>2 DEF DecisionInv
<1>11. QED
  BY <1>7, <1>8, <1>9, <1>10 DEF IInv

\* Only a pending approval is decided.
LEMMA ResolveApprovalOK ==
    \A c \in Calls, status \in {"approved", "denied"} : IInv /\ ResolveApproval(c, status) => IInv'
<1> SUFFICES ASSUME NEW x \in Calls, NEW status \in {"approved", "denied"}, IInv, ResolveApproval(x, status)
             PROVE  IInv'
  OBVIOUS
<1>1. UNCHANGED <<now, metered, row, ledger, tools, gated, reader, scraped>>
      /\ approvals[x] # Null /\ approvals[x].status = "pending"
      /\ approvals' = [approvals EXCEPT ![x].status = status, ![x].decided = now]
  BY DEF ResolveApproval
<1>2. approvals \in [Calls -> ApprovalRows \cup {Null}] /\ tools \in Seq(ToolRows) /\ now \in Instants
      /\ gated \subseteq Calls
  BY DEF IInv, TypeOK
<1>3. approvals[x] \in ApprovalRows
  BY <1>1, <1>2
<1>4. \A c \in Calls : c # x => approvals'[c] = approvals[c]
  BY <1>1, <1>2
<1>5. approvals'[x] = [approvals[x] EXCEPT !.status = status, !.decided = now]
  BY <1>1, <1>2
<1>6. approvals'[x] \in ApprovalRows /\ approvals'[x].call = approvals[x].call
      /\ approvals'[x].run = approvals[x].run
  BY <1>2, <1>3, <1>5 DEF ApprovalRows
<1>7. approvals'[x] # Null
  BY <1>6, ReportConstants
<1>8. approvals' \in [Calls -> ApprovalRows \cup {Null}]
  BY <1>1, <1>2, <1>4, <1>6
<1>9. TypeOK'
  BY <1>1, <1>8 DEF IInv, TypeOK
<1>10. StoreInv'
  <2>1. StoreInv
    BY DEF IInv
  <2>2. \A c \in gated : approvals'[c] # Null
    BY <1>2, <1>4, <1>7, <2>1 DEF StoreInv
  <2>3. \A c \in Calls : approvals'[c] # Null => approvals'[c].call = c /\ approvals'[c].run = RunOf[c]
    <3>1. \A c \in Calls : approvals[c] # Null => approvals[c].call = c /\ approvals[c].run = RunOf[c]
      BY <2>1 DEF StoreInv
    <3>2. approvals'[x].call = x /\ approvals'[x].run = RunOf[x]
      BY <1>1, <1>6, <3>1
    <3>3. QED
      BY <1>4, <3>1, <3>2
  <2>4. \A i \in DOMAIN tools : tools[i].call \in Calls
    BY <1>2, ToolRow
  <2>5. \A i \in DOMAIN tools :
           /\ tools[i].run = RunOf[tools[i].call]
           /\ (tools[i].status = "approved" /\ tools[i].call \in gated) =>
                 approvals'[tools[i].call].status = "approved"
    BY <1>1, <1>4, <2>1, <2>4 DEF StoreInv
  <2>6. \A r \in Runs : row'[r] = Null => Totals(r)'.calls = 0 /\ Totals(r)'.dollars = 0
    BY <1>1, <2>1, SpentSame DEF StoreInv
  <2>7. gated' = gated /\ tools' = tools
    BY <1>1
  <2>8. MeterInv'
    BY <1>1, <2>1, MeterFrame DEF StoreInv
  <2>9. QED
    BY <2>2, <2>3, <2>5, <2>6, <2>7, <2>8 DEF StoreInv
<1>11. EntriesInv' /\ ScrapeInv'
  BY <1>1, WriterFrame DEF IInv
<1>12. DecisionInv'
  BY <1>1 DEF IInv, DecisionInv, Decided
<1>13. QED
  BY <1>9, <1>10, <1>11, <1>12 DEF IInv

\* The row of a gated call says what the approval says, or "timeout".
LEMMA RecordToolCallOK == \A c \in Calls : IInv /\ RecordToolCall(c) => IInv'
<1> SUFFICES ASSUME NEW x \in Calls, IInv, RecordToolCall(x) PROVE IInv'
  OBVIOUS
<1>1. UNCHANGED <<now, metered, row, ledger, approvals, gated, reader, scraped>>
  BY DEF RecordToolCall
<1>2. PICK status \in Outcomes(x) :
         tools' = Append(tools, [run |-> RunOf[x], call |-> x, status |-> status, at |-> now])
  BY DEF RecordToolCall
<1>3. approvals \in [Calls -> ApprovalRows \cup {Null}] /\ tools \in Seq(ToolRows) /\ now \in Instants
  BY DEF IInv, TypeOK
<1>4. StoreInv
  BY DEF IInv
<1>5. x \in gated => approvals[x] \in ApprovalRows
  BY <1>3, <1>4 DEF StoreInv
<1>6. status \in ToolStatuses /\ ((status = "approved" /\ x \in gated) => approvals[x].status = "approved")
  BY <1>5 DEF Outcomes, ToolStatuses, ApprovalRows
<1> DEFINE new == [run |-> RunOf[x], call |-> x, status |-> status, at |-> now]
<1>7. new \in ToolRows /\ new.run = RunOf[x] /\ new.call = x /\ new.status = status
  BY <1>3, <1>6, ReportConstants DEF ToolRows
<1>8. tools' = Append(tools, new)
  BY <1>2
<1> HIDE DEF new
<1>9. /\ tools' \in Seq(ToolRows) /\ DOMAIN tools' = 1..(Len(tools) + 1) /\ DOMAIN tools = 1..Len(tools)
      /\ Len(tools) \in Nat /\ tools'[Len(tools) + 1] = new
      /\ \A i \in 1..Len(tools) : tools'[i] = tools[i]
  BY <1>3, <1>7, <1>8
<1>10. TypeOK'
  BY <1>1, <1>9 DEF IInv, TypeOK
<1>11. StoreInv'
  <2>1. ASSUME NEW i \in DOMAIN tools'
        PROVE  /\ tools'[i].run = RunOf[tools'[i].call]
               /\ (tools'[i].status = "approved" /\ tools'[i].call \in gated) =>
                     approvals[tools'[i].call].status = "approved"
    <3>1. CASE i = Len(tools) + 1
      BY <1>6, <1>7, <1>9, <3>1
    <3>2. CASE i # Len(tools) + 1
      <4>1. i \in DOMAIN tools /\ tools'[i] = tools[i]
        BY <1>9, <3>2
      <4>2. QED
        BY <1>4, <4>1 DEF StoreInv
    <3>3. QED
      BY <3>1, <3>2
  <2>2. QED
    BY <1>1, <1>4, <2>1, SpentSame, MeterFrame DEF StoreInv
<1>12. EntriesInv' /\ ScrapeInv'
  BY <1>1, WriterFrame DEF IInv
<1>13. DecisionInv'
  <2>1. \A j \in DOMAIN tools : j \in DOMAIN tools' /\ tools'[j] = tools[j]
    BY <1>9
  <2>2. DecisionInv
    BY DEF IInv
  <2>3. \A t : Decided(t)' = Decided(t)
    BY <1>1 DEF Decided
  <2>4. QED
    BY <1>1, <2>1, <2>2, <2>3 DEF DecisionInv
<1>14. QED
  BY <1>10, <1>11, <1>12, <1>13 DEF IInv

\* A counter keeps its bounds while a run spends.
LEMMA BetweenGrows ==
    ASSUME NEW s \in Nat, NEW t \in Nat, NEW f \in [Runs -> Nat], NEW g \in [Runs -> Nat], NEW x \in Runs,
           \A r \in Runs : r # x => g[r] = f[r], g[x] >= f[x], Between(s, t, f)
    PROVE  Between(s, t, g)
<1> DEFINE P == reader.got.runs
           Q == Runs \ P
<1>1. SumOver(Runs, f) \in Nat /\ SumOver(P, f) \in Nat /\ SumOver(Q, f) \in Nat
      /\ SumOver(Runs, g) \in Nat /\ SumOver(P, g) \in Nat /\ SumOver(Q, g) \in Nat
  BY SumOverType
<1>2. SumOver(Runs, g) >= SumOver(Runs, f)
  BY SumOverGrows
<1>3. SumOver(P, g) >= SumOver(P, f)
  BY SumOverGrows
<1>4. SumOver(Q, g) >= SumOver(Q, f)
  BY SumOverGrows
<1>5. QED
  BY <1>1, <1>2, <1>3, <1>4 DEF Between

\* A charge makes the totals grow, so it disturbs nothing that is bounded by
\* them; what was already read stays as it is.
LEMMA AppendLedgerOK == \A r \in Runs, model \in Models : IInv /\ AppendLedger(r, model) => IInv'
<1> SUFFICES ASSUME NEW x \in Runs, NEW model \in Models, IInv, AppendLedger(x, model) PROVE IInv'
  OBVIOUS
<1> DEFINE new == [run |-> x, model |-> model, at |-> now]
<1>1. UNCHANGED <<now, metered, row, tools, approvals, gated, reader, scraped>>
      /\ row[x] # Null /\ ledger' = Append(ledger, new) /\ Price[model] <= Owed(x)
  BY DEF AppendLedger
<1>2. ledger \in Seq(LedgerRows) /\ now \in Instants /\ reader.run \in Runs
  BY DEF IInv, TypeOK
<1>3. new \in LedgerRows /\ new.run = x /\ new.model = model /\ Price[new.model] \in Nat
  BY <1>2, ReportConstants DEF LedgerRows, Models
<1> HIDE DEF new
<1>4. TypeOK'
  BY <1>1, <1>2, <1>3 DEF IInv, TypeOK
<1>5. \A r \in Runs : /\ Totals(r) \in Sums /\ Totals(r)' \in Sums
                      /\ r # x => Totals(r)' = Totals(r)
                      /\ r = x => /\ Totals(r)'.calls = Totals(r).calls + 1
                                  /\ Totals(r)'.dollars = Totals(r).dollars + Price[new.model]
  BY <1>1, <1>2, <1>3, TotalsGrow
<1>6. \A r \in Runs : Totals(r)'.calls >= Totals(r).calls /\ Totals(r)'.dollars >= Totals(r).dollars
  BY <1>3, <1>5 DEF Sums
<1>14. MeterInv'
  <2>1. MeterInv /\ metered \in [Runs -> Nat]
    BY DEF IInv, StoreInv, TypeOK
  <2>2. Totals(x)'.dollars <= metered[x]
    BY <1>1, <1>3, <1>5, <2>1 DEF Owed, Sums
  <2>3. QED
    BY <1>1, <1>5, <2>1, <2>2 DEF MeterInv
<1>7. StoreInv'
  BY <1>1, <1>5, <1>14 DEF IInv, StoreInv
<1>8. EntriesInv'
  <2> DEFINE y == reader.run
             read == SumRows(reader.got.ledger)
  <2>1. read \in Sums
    <3>1. reader.got.ledger \in Seq(LedgerRows)
      BY DEF IInv, TypeOK, Results
    <3>2. QED
      BY <3>1, SumRowsType
  <2>2. PICK z \in Runs : z = y
    BY <1>2
  <2>3. Totals(z) \in Sums /\ Totals(z)' \in Sums
        /\ Totals(z)'.calls >= Totals(z).calls /\ Totals(z)'.dollars >= Totals(z).dollars
    BY <1>5, <1>6
  <2>4. Covers(read, Totals(z)) => Covers(read, Totals(z)')
    BY <2>1, <2>3 DEF Covers, Sums
  <2>5. Totals(reader.run)' = Totals(z)'
    BY <1>1, <2>2 DEF Totals, LedgerForRun
  <2>6. EntriesInv /\ reader' = reader
    BY <1>1 DEF IInv
  <2>7. QED
    BY <2>2, <2>4, <2>5, <2>6 DEF EntriesInv, Covers
<1>9. DecisionInv'
  BY <1>1 DEF IInv, DecisionInv, Decided
<1>10. CallsOf \in [Runs -> Nat] /\ CallsOf' \in [Runs -> Nat]
       /\ (\A r \in Runs : r # x => CallsOf'[r] = CallsOf[r]) /\ CallsOf'[x] >= CallsOf[x]
  BY <1>5, <1>6 DEF CallsOf, Sums
<1>11. DollarsOf \in [Runs -> Nat] /\ DollarsOf' \in [Runs -> Nat]
       /\ (\A r \in Runs : r # x => DollarsOf'[r] = DollarsOf[r]) /\ DollarsOf'[x] >= DollarsOf[x]
  BY <1>5, <1>6 DEF DollarsOf, Sums
<1>12. ScrapeInv'
  <2>1. scraped \in Sums /\ reader.got.totals \in Sums
    BY DEF IInv, TypeOK, Results
  <2>2. ScrapeInv
    BY DEF IInv
  <2>3. Between(scraped.calls, reader.got.totals.calls, CallsOf')
    BY <1>10, <2>1, <2>2, BetweenGrows DEF ScrapeInv, Sums
  <2>4. Between(scraped.dollars, reader.got.totals.dollars, DollarsOf')
    BY <1>11, <2>1, <2>2, BetweenGrows DEF ScrapeInv, Sums
  <2>5. QED
    BY <1>1, <2>3, <2>4 DEF ScrapeInv, Between
<1>13. QED
  BY <1>4, <1>7, <1>8, <1>9, <1>12 DEF IInv

----------------------------------------------------------------------------
(* The readers preserve the invariants.                                    *)

\* What one statement changes: its field, and the step.
LEMMA GotFields ==
    ASSUME reader \in [op : Commands, run : Runs, step : 1..6, got : Results], NEW field, NEW value,
           field \in {"row", "ledger", "totals", "tools", "approvals", "runs"}, Got(field, value)
    PROVE  /\ reader' = [op |-> reader.op, run |-> reader.run, step |-> reader.step + 1,
                         got |-> [reader.got EXCEPT ![field] = value]]
           /\ UNCHANGED <<now, metered, row, ledger, tools, approvals, gated, scraped>>
BY DEF Got

\* A step of a command does nothing to the scrapes.
LEMMA NotAScrape ==
    ASSUME ScrapeInv, UNCHANGED <<ledger, scraped>>, reader'.op # "metrics"
    PROVE  ScrapeInv'
BY SpentSame DEF ScrapeInv, Between

\* The approvals listed are rows of the table.
LEMMA ListedApprovals ==
    ASSUME TypeOK, NEW statuses
    PROVE  ListApprovals(statuses) \subseteq ApprovalRows
BY DEF ListApprovals, TypeOK

\* A command or a scrape begins, with nothing read.
LEMMA BeginOK == \A op \in Commands, r \in Runs : IInv /\ Begin(op, r) => IInv'
<1> SUFFICES ASSUME NEW op \in Commands, NEW x \in Runs, IInv, Begin(op, x) PROVE IInv'
  OBVIOUS
<1>1. UNCHANGED <<now, metered, row, ledger, tools, approvals, gated, scraped>>
      /\ reader' = [Idle EXCEPT !.op = op, !.run = x, !.step = 1]
  BY DEF Begin
<1>2. /\ reader' = [op |-> op, run |-> x, step |-> 1, got |-> Idle.got]
      /\ Idle.got \in Results /\ Idle.got.totals.calls = 0 /\ Idle.got.totals.dollars = 0
  <2>1. Idle = [op |-> "export", run |-> Idle.run, step |-> 5, got |-> Idle.got]
    BY DEF Idle
  <2>2. Idle.got \in Results /\ Idle.got.totals.calls = 0 /\ Idle.got.totals.dollars = 0
    BY DEF Idle, Results, Sums
  <2>3. reader' = [op |-> op, run |-> x, step |-> 1, got |-> Idle.got]
    BY <1>1, <2>1
  <2>4. QED
    BY <2>2, <2>3
<1>3. reader' \in [op : Commands, run : Runs, step : 1..6, got : Results]
  BY <1>2
<1>4. TypeOK'
  BY <1>1, <1>3 DEF IInv, TypeOK
<1>5. StoreInv'
  BY <1>1, ReaderFrame DEF IInv
<1>6. EntriesInv'
  BY <1>2 DEF EntriesInv
<1>7. DecisionInv'
  BY <1>2 DEF DecisionInv
<1>8. ScrapeInv'
  BY <1>1, <1>2, SpentSame DEF IInv, ScrapeInv, Between
<1>9. QED
  BY <1>4, <1>5, <1>6, <1>7, <1>8 DEF IInv

\* What holds of the reader at a statement.
LEMMA ReaderTypes ==
    ASSUME IInv
    PROVE  /\ reader \in [op : Commands, run : Runs, step : 1..6, got : Results]
           /\ reader.op \in Commands /\ reader.run \in Runs /\ reader.step \in 1..6
           /\ reader.got \in Results /\ reader.got.totals \in Sums
           /\ reader.got.ledger \in Seq(LedgerRows)
           /\ SumRows(reader.got.ledger) \in Sums
           /\ \A r \in Runs : Totals(r) \in Sums
<1>1. /\ reader \in [op : Commands, run : Runs, step : 1..6, got : Results]
      /\ reader.op \in Commands /\ reader.run \in Runs /\ reader.step \in 1..6
      /\ reader.got \in Results
  BY DEF IInv, TypeOK
<1>2. reader.got.totals \in Sums /\ reader.got.ledger \in Seq(LedgerRows)
  BY <1>1 DEF Results
<1>3. QED
  BY <1>1, <1>2, SumRowsType, SpentType DEF IInv

\* The first statement of an audit command.
LEMMA ReadRunOK == IInv /\ ReadRun => IInv'
<1> SUFFICES ASSUME IInv, ReadRun PROVE IInv'
  OBVIOUS
<1>1. reader.op # "metrics" /\ reader.step = 1
  BY ReaderTypes, Statements DEF ReadRun
<1>2. CASE row[reader.run] # Null /\ Got("row", RowRead(reader.run))
  <2>1. /\ reader' = [op |-> reader.op, run |-> reader.run, step |-> 2,
                      got |-> [reader.got EXCEPT !["row"] = RowRead(reader.run)]]
        /\ UNCHANGED <<now, metered, row, ledger, tools, approvals, gated, scraped>>
    BY <1>1, <1>2, ReaderTypes, GotFields
  <2>2. RowRead(reader.run) \in RowReads
    <3>1. PICK r \in Runs : r = reader.run
      BY ReaderTypes
    <3>2. row[r] \in RunRows /\ metered[r] \in Nat /\ Totals(r).dollars <= metered[r]
      BY <1>2, <3>1 DEF IInv, TypeOK, StoreInv, MeterInv
    <3>3. Totals(r).dollars \in Nat
      BY ReaderTypes DEF Sums
    <3>4. QED
      BY <3>1, <3>2, <3>3 DEF RowRead, RowReads, RunRows, Owed
  <2>3. reader'.got \in Results
    BY <2>1, <2>2, ReaderTypes DEF Results
  <2>4. TypeOK'
    BY <2>1, <2>3, ReaderTypes DEF IInv, TypeOK
  <2>5. EntriesInv' /\ DecisionInv'
    BY <2>1 DEF EntriesInv, DecisionInv
  <2>6. QED
    BY <1>1, <2>1, <2>4, <2>5, ReaderFrame, NotAScrape DEF IInv
<1>3. CASE reader' = Idle /\ UNCHANGED <<now, metered, row, ledger, tools, approvals, gated, scraped>>
  <2>1. Idle \in [op : Commands, run : Runs, step : 1..6, got : Results]
    BY ReportConstants DEF Idle, Commands, Results, Sums
  <2>2. TypeOK'
    BY <1>3, <2>1 DEF IInv, TypeOK
  <2>3. reader'.op = "export" /\ EntriesInv' /\ DecisionInv'
    BY <1>3, SumEmpty DEF Idle, EntriesInv, DecisionInv, Covers
  <2>4. QED
    BY <1>3, <2>2, <2>3, ReaderFrame, NotAScrape DEF IInv
<1>4. QED
  BY <1>2, <1>3 DEF ReadRun

\* The entries read are all the ledger holds of the run.
LEMMA ReadLedgerOK == IInv /\ ReadLedger => IInv'
<1> SUFFICES ASSUME IInv, ReadLedger PROVE IInv'
  OBVIOUS
<1>1. reader.op \in {"compliance", "export"} /\ reader.step = 2
  BY ReaderTypes, Statements DEF ReadLedger
<1>2. /\ reader' = [op |-> reader.op, run |-> reader.run, step |-> 3,
                    got |-> [reader.got EXCEPT !["ledger"] = LedgerForRun(reader.run)]]
      /\ UNCHANGED <<now, metered, row, ledger, tools, approvals, gated, scraped>>
  BY <1>1, ReaderTypes, GotFields DEF ReadLedger
<1>3. LedgerForRun(reader.run) \in Seq(LedgerRows)
  BY WhereType DEF IInv, TypeOK, LedgerForRun
<1>4. reader'.got \in Results /\ reader'.got.ledger = LedgerForRun(reader.run) /\ reader'.run = reader.run
      /\ reader'.step = 3 /\ reader'.op = reader.op
  BY <1>2, <1>3, ReaderTypes DEF Results
<1>5. TypeOK'
  BY <1>2, <1>4, ReaderTypes DEF IInv, TypeOK
<1>6. EntriesInv'
  <2>1. Totals(reader.run)' = Totals(reader.run)
    BY <1>2, <1>4, SpentSame DEF Totals, LedgerForRun
  <2>2. SumRows(reader'.got.ledger) = Totals(reader.run)
    BY <1>4 DEF Totals
  <2>3. Totals(reader.run) \in Sums
    BY ReaderTypes
  <2>4. Covers(SumRows(reader'.got.ledger), Totals(reader.run)')
    BY <2>1, <2>2, <2>3 DEF Covers, Sums
  <2>5. QED
    BY <1>4, <2>4 DEF EntriesInv, Covers
<1>7. DecisionInv'
  BY <1>4 DEF DecisionInv
<1>8. QED
  BY <1>1, <1>2, <1>4, <1>5, <1>6, <1>7, ReaderFrame, NotAScrape DEF IInv

\* The totals read cover the entries read before them.
LEMMA ReadTotalsOK == IInv /\ ReadTotals => IInv'
<1> SUFFICES ASSUME IInv, ReadTotals PROVE IInv'
  OBVIOUS
<1>1. reader.op \in {"compliance", "export"} /\ reader.step = 3
  BY ReaderTypes, Statements DEF ReadTotals
<1>2. /\ reader' = [op |-> reader.op, run |-> reader.run, step |-> 4,
                    got |-> [reader.got EXCEPT !["totals"] = Totals(reader.run)]]
      /\ UNCHANGED <<now, metered, row, ledger, tools, approvals, gated, scraped>>
  BY <1>1, ReaderTypes, GotFields DEF ReadTotals
<1>3. reader'.got \in Results /\ reader'.got.ledger = reader.got.ledger /\ reader'.got.totals = Totals(reader.run)
      /\ reader'.step = 4 /\ reader'.op = reader.op
  BY <1>2, ReaderTypes DEF Results
<1>4. TypeOK'
  BY <1>2, <1>3, ReaderTypes DEF IInv, TypeOK
<1>5. EntriesInv'
  <2>1. Covers(SumRows(reader.got.ledger), Totals(reader.run))
    BY <1>1 DEF IInv, EntriesInv
  <2>2. QED
    BY <1>3, <2>1 DEF EntriesInv, Covers
<1>6. DecisionInv'
  BY <1>3 DEF DecisionInv
<1>7. QED
  BY <1>1, <1>2, <1>3, <1>4, <1>5, <1>6, ReaderFrame, NotAScrape DEF IInv

\* The tool calls read are rows of the run.
LEMMA ReadToolsOK == IInv /\ ReadTools => IInv'
<1> SUFFICES ASSUME IInv, ReadTools PROVE IInv'
  OBVIOUS
<1>0. PICK listing \in ListToolCalls(reader.run) : Got("tools", listing)
  BY DEF ReadTools
<1>1. reader.op # "metrics" /\ reader.step < 6 /\ (reader.op \in {"compliance", "export"} => reader.step = 4)
  BY ReaderTypes, Statements DEF ReadTools
<1>2. /\ reader' = [op |-> reader.op, run |-> reader.run, step |-> reader.step + 1,
                    got |-> [reader.got EXCEPT !["tools"] = listing]]
      /\ UNCHANGED <<now, metered, row, ledger, tools, approvals, gated, scraped>>
  BY <1>0, ReaderTypes, GotFields DEF ReadTools
<1>3. listing \in Seq(ToolRows)
      /\ \A i \in DOMAIN listing :
            \E j \in DOMAIN tools : listing[i] = tools[j] /\ tools[j].run = reader.run
  <2> DEFINE S == {e \in ToolRows : e.run = reader.run}
             w == Where(tools, S)
  <2>1. tools \in Seq(ToolRows)
    BY DEF IInv, TypeOK
  <2>2. \A e \in S : e.run = reader.run
    OBVIOUS
  <2> HIDE DEF S
  <2>3. w \in Seq(ToolRows) /\ \A i \in DOMAIN w : \E j \in DOMAIN tools : w[i] = tools[j] /\ tools[j] \in S
    BY <2>1, WhereType
  <2>4. \E p \in Bijection(1..Len(w), 1..Len(w)) : listing = [i \in 1..Len(w) |-> w[p[i]]]
    BY <1>0 DEF ListToolCalls, S
  <2> HIDE DEF w
  <2>5. PICK p \in [1..Len(w) -> 1..Len(w)] : listing = [i \in 1..Len(w) |-> w[p[i]]]
    BY <2>4 DEF Bijection, Injection
  <2>6. DOMAIN listing = 1..Len(w) /\ Len(w) \in Nat /\ DOMAIN w = 1..Len(w)
    BY <2>3, <2>5
  <2>7. \A i \in 1..Len(w) : p[i] \in DOMAIN w /\ listing[i] = w[p[i]] /\ w[p[i]] \in ToolRows
    BY <2>3, <2>5, <2>6
  <2>8. listing \in Seq(ToolRows)
    BY <2>5, <2>6, <2>7
  <2>9. QED
    BY <2>2, <2>3, <2>6, <2>7, <2>8
<1>4. reader'.got \in Results /\ reader'.got.ledger = reader.got.ledger /\ reader'.got.totals = reader.got.totals
      /\ reader'.got.tools = listing
      /\ reader'.step = reader.step + 1 /\ reader'.op = reader.op /\ reader'.run = reader.run
  BY <1>2, <1>3, ReaderTypes DEF Results
<1>5. TypeOK'
  BY <1>1, <1>2, <1>4, ReaderTypes DEF IInv, TypeOK
<1>6. EntriesInv'
  BY <1>1, <1>4, ReaderTypes DEF IInv, EntriesInv, Covers
<1>7. DecisionInv'
  BY <1>1, <1>2, <1>3, <1>4 DEF DecisionInv
<1>8. QED
  BY <1>1, <1>2, <1>4, <1>5, <1>6, <1>7, ReaderFrame, NotAScrape DEF IInv

\* The decision of every approved row read is in the table by now: it was written
\* before the row was.
LEMMA ReadApprovalsOK == IInv /\ ReadApprovals => IInv'
<1> SUFFICES ASSUME IInv, ReadApprovals PROVE IInv'
  OBVIOUS
<1> DEFINE own == {a \in ListApprovals({"pending", "approved", "denied"}) : a.run = reader.run}
<1>1. reader.op = "compliance" /\ reader.step = 5
  BY ReaderTypes, Statements DEF ReadApprovals
<1>2. /\ reader' = [op |-> reader.op, run |-> reader.run, step |-> 6,
                    got |-> [reader.got EXCEPT !["approvals"] = own]]
      /\ UNCHANGED <<now, metered, row, ledger, tools, approvals, gated, scraped>>
  BY <1>1, ReaderTypes, GotFields DEF ReadApprovals
<1>3. own \subseteq ApprovalRows
  BY ListedApprovals DEF IInv
<1>4. \A c \in gated : (approvals[c].status = "approved" /\ RunOf[c] = reader.run) =>
           \E a \in own : a.call = c /\ a.status = "approved"
  <2>1. TypeOK /\ StoreInv
    BY DEF IInv
  <2>2. SUFFICES ASSUME NEW c \in gated, approvals[c].status = "approved", RunOf[c] = reader.run
                 PROVE  approvals[c] \in own /\ approvals[c].call = c
    BY <2>2
  <2>3. c \in Calls /\ approvals[c] # Null /\ approvals[c].call = c /\ approvals[c].run = reader.run
    BY <2>1, <2>2 DEF TypeOK, StoreInv
  <2>4. QED
    BY <2>2, <2>3 DEF ListApprovals
<1> HIDE DEF own
<1>5. reader'.got \in Results /\ reader'.got.ledger = reader.got.ledger /\ reader'.got.totals = reader.got.totals
      /\ reader'.got.tools = reader.got.tools /\ reader'.got.approvals = own
      /\ reader'.step = 6 /\ reader'.op = reader.op /\ reader'.run = reader.run
  BY <1>2, <1>3, ReaderTypes DEF Results
<1>6. TypeOK'
  BY <1>2, <1>5, ReaderTypes DEF IInv, TypeOK
<1>7. EntriesInv'
  BY <1>1, <1>5 DEF IInv, EntriesInv, Covers
<1>8. DecisionInv'
  <2>1. \A i \in DOMAIN reader.got.tools :
           \E j \in DOMAIN tools : reader.got.tools[i] = tools[j] /\ tools[j].run = reader.run
    BY <1>1 DEF IInv, DecisionInv
  <2>2. \A j \in DOMAIN tools : /\ tools[j].run = RunOf[tools[j].call]
                                /\ (tools[j].status = "approved" /\ tools[j].call \in gated) =>
                                      approvals[tools[j].call].status = "approved"
    BY DEF IInv, StoreInv
  <2>3. ASSUME NEW i \in DOMAIN reader.got.tools PROVE Decided(reader.got.tools[i])'
    <3>1. PICK j \in DOMAIN tools : reader.got.tools[i] = tools[j] /\ tools[j].run = reader.run
      BY <2>1
    <3>2. (tools[j].status = "approved" /\ tools[j].call \in gated) =>
             \E a \in own : a.call = tools[j].call /\ a.status = "approved"
      BY <1>4, <2>2, <3>1
    <3>3. QED
      BY <1>2, <1>5, <3>1, <3>2 DEF Decided
  <2>4. QED
    BY <1>2, <1>5, <2>1, <2>3 DEF DecisionInv
<1>9. QED
  BY <1>1, <1>2, <1>5, <1>6, <1>7, <1>8, ReaderFrame, NotAScrape DEF IInv

\* A scrape does nothing to the commands.
LEMMA NotACommand ==
    ASSUME reader'.op = "metrics"
    PROVE  EntriesInv' /\ DecisionInv'
BY DEF EntriesInv, DecisionInv

\* The runs listed are all that have spent anything.
LEMMA MetricsRunsOK == IInv /\ MetricsRuns => IInv'
<1> SUFFICES ASSUME IInv, MetricsRuns PROVE IInv'
  OBVIOUS
<1>1. reader.op = "metrics" /\ reader.step = 1
  BY ReaderTypes, Statements DEF MetricsRuns
<1>2. /\ reader' = [op |-> reader.op, run |-> reader.run, step |-> 2,
                    got |-> [reader.got EXCEPT !["runs"] = ListRuns]]
      /\ UNCHANGED <<now, metered, row, ledger, tools, approvals, gated, scraped>>
  BY <1>1, ReaderTypes, GotFields DEF MetricsRuns
<1>3. ListRuns \subseteq Runs
  BY DEF ListRuns
<1>4. reader'.got \in Results /\ reader'.got.totals = reader.got.totals /\ reader'.got.runs = ListRuns
      /\ reader'.step = 2 /\ reader'.op = "metrics"
  BY <1>1, <1>2, <1>3, ReaderTypes DEF Results
<1>5. TypeOK'
  BY <1>2, <1>4, ReaderTypes DEF IInv, TypeOK
<1>6. CallsOf \in [Runs -> Nat] /\ DollarsOf \in [Runs -> Nat]
  BY SpentType DEF IInv
<1>7. \A r \in Runs \ ListRuns : CallsOf[r] = 0 /\ DollarsOf[r] = 0
  BY DEF IInv, StoreInv, ListRuns, CallsOf, DollarsOf
<1>8. ASSUME NEW f \in [Runs -> Nat], \A r \in Runs \ ListRuns : f[r] = 0
      PROVE  SumOver(ListRuns, f) = SumOver(Runs, f) /\ SumOver(Runs \ ListRuns, f) \in Nat
             /\ SumOver(Runs, f) \in Nat
  BY <1>8, SumOverZeros, SumOverType
<1>9. ScrapeInv'
  <2>1. scraped \in Sums
    BY DEF IInv, TypeOK
  <2>2. /\ scraped.calls <= SumOver(Runs, CallsOf) /\ reader.got.totals.calls = 0
        /\ scraped.dollars <= SumOver(Runs, DollarsOf) /\ reader.got.totals.dollars = 0
    BY <1>1 DEF IInv, ScrapeInv, Between
  <2>3. Between(scraped.calls, reader.got.totals.calls, CallsOf)'
    <3>1. SumOver(ListRuns, CallsOf) = SumOver(Runs, CallsOf) /\ SumOver(Runs \ ListRuns, CallsOf) \in Nat
          /\ SumOver(Runs, CallsOf) \in Nat
      BY <1>6, <1>7, <1>8
    <3>2. scraped.calls \in Nat
      BY <2>1 DEF Sums
    <3>3. scraped.calls <= 0 + SumOver(ListRuns, CallsOf) /\ 0 <= SumOver(Runs \ ListRuns, CallsOf)
      BY <2>2, <3>1, <3>2
    <3>4. CallsOf' = CallsOf
      BY <1>2, SpentSame
    <3>5. QED
      BY <1>2, <1>4, <2>2, <3>3, <3>4 DEF Between
  <2>4. Between(scraped.dollars, reader.got.totals.dollars, DollarsOf)'
    <3>1. SumOver(ListRuns, DollarsOf) = SumOver(Runs, DollarsOf) /\ SumOver(Runs \ ListRuns, DollarsOf) \in Nat
          /\ SumOver(Runs, DollarsOf) \in Nat
      BY <1>6, <1>7, <1>8
    <3>2. scraped.dollars \in Nat
      BY <2>1 DEF Sums
    <3>3. scraped.dollars <= 0 + SumOver(ListRuns, DollarsOf) /\ 0 <= SumOver(Runs \ ListRuns, DollarsOf)
      BY <2>2, <3>1, <3>2
    <3>4. DollarsOf' = DollarsOf
      BY <1>2, SpentSame
    <3>5. QED
      BY <1>2, <1>4, <2>2, <3>3, <3>4 DEF Between
  <2>5. QED
    BY <2>3, <2>4 DEF ScrapeInv
<1>10. QED
  BY <1>2, <1>4, <1>5, <1>9, ReaderFrame, NotACommand DEF IInv

\* A run whose totals have been added moves from what is to come to what may
\* have been counted.
LEMMA OneRunAdded ==
    ASSUME NEW s \in Nat, NEW t \in Nat, NEW f \in [Runs -> Nat], NEW P \in SUBSET Runs, NEW x \in P,
           s <= t + SumOver(P, f), t <= SumOver(Runs \ P, f)
    PROVE  s <= (t + f[x]) + SumOver(P \ {x}, f) /\ t + f[x] <= SumOver(Runs \ (P \ {x}), f)
<1>1. x \in Runs /\ f[x] \in Nat
  OBVIOUS
<1>2. SumOver(P, f) = SumOver(P \ {x}, f) + f[x]
  BY <1>1, SumOverOne
<1>3. SumOver(Runs \ (P \ {x}), f) = SumOver(Runs \ P, f) + f[x]
  <2> DEFINE D == Runs \ (P \ {x})
  <2>1. x \in D /\ D \ {x} = Runs \ P
    BY <1>1
  <2> HIDE DEF D
  <2>2. SumOver(D, f) = SumOver(D \ {x}, f) + f[x]
    BY <1>1, <2>1, SumOverOne
  <2>3. QED
    BY <2>1, <2>2 DEF D
<1>4. SumOver(P, f) \in Nat /\ SumOver(P \ {x}, f) \in Nat /\ SumOver(Runs \ P, f) \in Nat
  BY SumOverType
<1>5. QED
  BY <1>1, <1>2, <1>3, <1>4

\* A scrape adds one more run to its sums.
LEMMA MetricsTotalsOK == IInv /\ MetricsTotals => IInv'
<1> SUFFICES ASSUME IInv, MetricsTotals PROVE IInv'
  OBVIOUS
<1>1. reader.op = "metrics" /\ reader.step = 2
  BY ReaderTypes, Statements DEF MetricsTotals
<1>2. UNCHANGED <<now, metered, row, ledger, tools, approvals, gated, scraped>>
  BY DEF MetricsTotals
<1>3. CallsOf \in [Runs -> Nat] /\ DollarsOf \in [Runs -> Nat] /\ CallsOf' = CallsOf /\ DollarsOf' = DollarsOf
  BY <1>2, SpentType, SpentSame DEF IInv
<1>4. scraped \in Sums /\ scraped.calls \in Nat /\ scraped.dollars \in Nat
  BY DEF IInv, TypeOK, Sums
<1> DEFINE P == reader.got.runs
           t == reader.got.totals
<1>5. P \in SUBSET Runs /\ t \in Sums /\ t.calls \in Nat /\ t.dollars \in Nat
  BY ReaderTypes DEF Results, Sums
<1>6. /\ scraped.calls <= SumOver(Runs, CallsOf)
      /\ scraped.calls <= t.calls + SumOver(P, CallsOf) /\ t.calls <= SumOver(Runs \ P, CallsOf)
      /\ scraped.dollars <= SumOver(Runs, DollarsOf)
      /\ scraped.dollars <= t.dollars + SumOver(P, DollarsOf) /\ t.dollars <= SumOver(Runs \ P, DollarsOf)
  BY <1>1 DEF IInv, ScrapeInv, Between
<1>7. CASE \E r \in P : reader' = [reader EXCEPT !.got.runs = @ \ {r}, !.got.totals = Plus(@, Totals(r))]
  <2>1. PICK x \in P : reader' = [reader EXCEPT !.got.runs = @ \ {x}, !.got.totals = Plus(@, Totals(x))]
    BY <1>7
  <2>2. x \in Runs /\ Totals(x) \in Sums /\ CallsOf[x] = Totals(x).calls /\ DollarsOf[x] = Totals(x).dollars
    BY <1>5, ReaderTypes DEF CallsOf, DollarsOf
  <2> DEFINE u == Plus(t, Totals(x))
  <2>3. u \in Sums /\ u.calls = t.calls + CallsOf[x] /\ u.dollars = t.dollars + DollarsOf[x]
    BY <1>5, <2>2 DEF Plus, Sums
  <2>4. reader' = [op |-> reader.op, run |-> reader.run, step |-> reader.step,
                   got |-> [reader.got EXCEPT !.runs = P \ {x}, !.totals = u]]
    BY <2>1, ReaderTypes DEF Results
  <2> HIDE DEF u
  <2>5. reader'.got \in Results /\ reader'.got.totals = u /\ reader'.got.runs = P \ {x}
        /\ reader'.step = 2 /\ reader'.op = "metrics" /\ reader'.run = reader.run
    BY <1>1, <1>5, <2>3, <2>4, ReaderTypes DEF Results
  <2>6. TypeOK'
    BY <1>2, <2>4, <2>5, ReaderTypes DEF IInv, TypeOK
  <2>7. scraped.calls <= u.calls + SumOver(P \ {x}, CallsOf) /\ u.calls <= SumOver(Runs \ (P \ {x}), CallsOf)
    <3> HIDE DEF P, t
    <3>1. scraped.calls <= (t.calls + CallsOf[x]) + SumOver(P \ {x}, CallsOf)
          /\ t.calls + CallsOf[x] <= SumOver(Runs \ (P \ {x}), CallsOf)
      BY <1>3, <1>4, <1>5, <1>6, OneRunAdded
    <3>2. QED
      BY <2>3, <3>1
  <2>8. scraped.dollars <= u.dollars + SumOver(P \ {x}, DollarsOf)
        /\ u.dollars <= SumOver(Runs \ (P \ {x}), DollarsOf)
    <3> HIDE DEF P, t
    <3>1. scraped.dollars <= (t.dollars + DollarsOf[x]) + SumOver(P \ {x}, DollarsOf)
          /\ t.dollars + DollarsOf[x] <= SumOver(Runs \ (P \ {x}), DollarsOf)
      BY <1>3, <1>4, <1>5, <1>6, OneRunAdded
    <3>2. QED
      BY <2>3, <3>1
  <2>9. ScrapeInv'
    BY <1>2, <1>3, <1>6, <2>5, <2>7, <2>8 DEF ScrapeInv, Between
  <2>10. QED
    BY <1>2, <2>5, <2>6, <2>9, ReaderFrame, NotACommand DEF IInv
<1>8. CASE P = {} /\ reader' = [reader EXCEPT !.step = @ + 1]
  <2>1. reader' = [op |-> reader.op, run |-> reader.run, step |-> 3, got |-> reader.got]
    BY <1>1, <1>8, ReaderTypes
  <2>2. TypeOK'
    BY <1>2, <2>1, ReaderTypes DEF IInv, TypeOK
  <2>3. SumOver({}, CallsOf) = 0 /\ SumOver({}, DollarsOf) = 0 /\ Runs \ P = Runs
    BY <1>3, <1>8, SumOverZeros
  <2>4. scraped.calls <= t.calls /\ t.calls <= SumOver(Runs, CallsOf)
        /\ scraped.dollars <= t.dollars /\ t.dollars <= SumOver(Runs, DollarsOf)
    BY <1>4, <1>5, <1>6, <1>8, <2>3
  <2>5. reader'.got = reader.got /\ reader'.step = 3 /\ reader'.op = "metrics"
    BY <1>1, <2>1
  <2>6. ScrapeInv'
    BY <1>2, <1>3, <1>6, <2>4, <2>5 DEF ScrapeInv, Between
  <2>7. QED
    BY <1>2, <2>2, <2>5, <2>6, ReaderFrame, NotACommand DEF IInv
<1>9. QED
  BY <1>7, <1>8 DEF MetricsTotals

\* What a scrape shows is no less than the scrape before showed, and no more than
\* the runs have spent.
LEMMA MetricsPendingOK ==
    IInv /\ MetricsPending => IInv' /\ scraped'.calls >= scraped.calls /\ scraped'.dollars >= scraped.dollars
<1> SUFFICES ASSUME IInv, MetricsPending
             PROVE  IInv' /\ scraped'.calls >= scraped.calls /\ scraped'.dollars >= scraped.dollars
  OBVIOUS
<1>1. reader.op = "metrics" /\ reader.step = 3
  BY ReaderTypes, Statements DEF MetricsPending
<1> DEFINE open == ListApprovals({"pending"})
<1>2. /\ reader' = [reader EXCEPT !.got.approvals = open, !.step = @ + 1]
      /\ scraped' = reader.got.totals
      /\ UNCHANGED <<now, metered, row, ledger, tools, approvals, gated>>
  BY DEF MetricsPending
<1>3. open \subseteq ApprovalRows
  BY ListedApprovals DEF IInv
<1> HIDE DEF open
<1>4. reader' = [op |-> reader.op, run |-> reader.run, step |-> reader.step + 1,
                 got |-> [reader.got EXCEPT !.approvals = open]]
  <2>1. reader = [op |-> reader.op, run |-> reader.run, step |-> reader.step, got |-> reader.got]
    BY ReaderTypes
  <2>2. reader' = [reader EXCEPT !.got = [reader.got EXCEPT !.approvals = open], !.step = reader.step + 1]
    BY <1>2
  <2>3. QED
    BY <2>1, <2>2
<1>5. reader'.got \in Results /\ reader'.step = 4 /\ reader'.op = "metrics"
  <2>1. [reader.got EXCEPT !.approvals = open] \in Results
    BY <1>3, ReaderTypes DEF Results
  <2>2. QED
    BY <1>1, <1>4, <2>1
<1>6. TypeOK'
  <2>1. reader' \in [op : Commands, run : Runs, step : 1..6, got : Results]
    BY <1>1, <1>4, <1>5, ReaderTypes
  <2>2. scraped' \in Sums
    BY <1>2, ReaderTypes
  <2>3. QED
    BY <1>2, <2>1, <2>2 DEF IInv, TypeOK
<1>7. /\ scraped.calls <= scraped'.calls /\ scraped'.calls <= SumOver(Runs, CallsOf)
      /\ scraped.dollars <= scraped'.dollars /\ scraped'.dollars <= SumOver(Runs, DollarsOf)
  BY <1>1, <1>2 DEF IInv, ScrapeInv, Between
<1>8. ScrapeInv'
  BY <1>2, <1>5, <1>7, SpentSame DEF ScrapeInv, Between
<1>9. scraped \in Sums /\ scraped' \in Sums
  BY <1>6 DEF IInv, TypeOK
<1>10. scraped'.calls >= scraped.calls /\ scraped'.dollars >= scraped.dollars
  BY <1>7, <1>9 DEF Sums
<1>11. QED
  BY <1>2, <1>5, <1>6, <1>8, <1>10, ReaderFrame, NotACommand DEF IInv

----------------------------------------------------------------------------
(* The hash chain of a compliance report.                                  *)

\* Hashes of two inputs that differ in the previous hash, the position or the
\* detail differ, and none is the empty hash a chain starts from.
LEMMA HashFields ==
    ASSUME NEW p, NEW q, NEW e, NEW f
    PROVE  /\ ChainHash(p, e) # <<>>
           /\ ChainHash(p, e) = ChainHash(q, f) => p = q /\ e.seq = f.seq /\ e.detail = f.detail
<1>1. ChainHash(p, e) # <<>>
  <2> DEFINE h == ChainHash(p, e)
  <2>1. Len(h) = 5
    BY DEF ChainHash
  <2>2. Len(<<>>) = 0
    OBVIOUS
  <2>3. QED
    BY <2>1, <2>2
<1>2. ASSUME ChainHash(p, e) = ChainHash(q, f) PROVE p = q /\ e.seq = f.seq /\ e.detail = f.detail
  BY <1>2 DEF ChainHash
<1>3. QED
  BY <1>1, <1>2

\* A log of n events whose hashes are those of a chain.
IsChain(ev, n) ==
    /\ ev \in Seq({ev[i] : i \in 1..n}) /\ Len(ev) = n
    /\ \A i \in 1..n :
         /\ ev[i] = [hash |-> ev[i].hash, seq |-> i - 1, type |-> ev[i].type,
                     at |-> ev[i].at, detail |-> ev[i].detail]
         /\ ev[i].hash = ChainHash(PrevHash(ev, i), ev[i])

\* An event does not have the hash of the one before it, and the chain ends with
\* its last event's.
LEMMA ChainFacts ==
    ASSUME NEW n \in Nat, NEW ev, IsChain(ev, n)
    PROVE  /\ DOMAIN ev = 1..n /\ Len(ev) = n
           /\ \A i \in 1..n : /\ ev[i].hash # PrevHash(ev, i) /\ ev[i].seq = i - 1
                              /\ ev[i].hash = ChainHash(PrevHash(ev, i), ev[i])
           /\ ChainHead(ev) = IF n = 0 THEN <<>> ELSE ev[n].hash
<1>1. DOMAIN ev = 1..n /\ Len(ev) = n
  BY DEF IsChain
<1>2. \A i \in 1..n : ev[i].seq = i - 1 /\ ev[i].hash = ChainHash(PrevHash(ev, i), ev[i])
  BY DEF IsChain
<1>3. ASSUME NEW i \in 1..n PROVE ev[i].hash # PrevHash(ev, i)
  <2>1. CASE i = 1
    BY <1>2, <2>1, HashFields DEF PrevHash
  <2>2. CASE i # 1
    <3>1. i - 1 \in 1..n /\ PrevHash(ev, i) = ev[i - 1].hash
      BY <2>2 DEF PrevHash
    <3>2. ev[i - 1].hash = ChainHash(PrevHash(ev, i - 1), ev[i - 1])
          /\ ev[i].hash = ChainHash(PrevHash(ev, i), ev[i])
      BY <1>2, <3>1
    <3>3. ev[i].seq # ev[i - 1].seq
      <4>1. ev[i].seq = i - 1 /\ ev[i - 1].seq = (i - 1) - 1
        BY <1>2, <3>1
      <4>2. QED
        BY <4>1
    <3>4. QED
      BY <3>1, <3>2, <3>3, HashFields
  <2>3. QED
    BY <2>1, <2>2
<1>4. ChainHead(ev) = IF n = 0 THEN <<>> ELSE ev[n].hash
  <2>1. ev \in Seq({ev[i] : i \in 1..n}) /\ Len(ev) = n
    BY DEF IsChain
  <2>2. ev = <<>> <=> n = 0
    <3> HIDE DEF IsChain
    <3>1. ev = <<>> => n = 0
      BY <2>1
    <3>2. n = 0 => ev = <<>>
      BY <2>1
    <3>3. QED
      BY <3>1, <3>2
  <2>3. QED
    BY <2>1, <2>2 DEF ChainHead, Last
<1>5. QED
  BY <1>1, <1>2, <1>3, <1>4

\* What the check asks of a log of m events.
LEMMA VerifyMeans ==
    ASSUME NEW m \in Nat, NEW log, NEW head, DOMAIN log = 1..m, Len(log) = m, VerifyChain(log, head)
    PROVE  /\ \A i \in 1..m : log[i].hash = ChainHash(PrevHash(log, i), log[i])
           /\ m > 0 => log[m].hash = head
           /\ m = 0 => head = <<>>
<1>1. (m = 0) <=> (log = <<>>)
  <2>1. m = 0 => log = <<>>
    OBVIOUS
  <2>2. log = <<>> => m = 0
    OBVIOUS
  <2>3. QED
    BY <2>1, <2>2
<1>2. \A i \in 1..m : log[i].hash = ChainHash(PrevHash(log, i), log[i])
  BY DEF VerifyChain
<1>3. ChainHead(log) = head
  BY DEF VerifyChain
<1>4. QED
  BY <1>1, <1>2, <1>3 DEF ChainHead, Last

\* An event moved up by one place does not fit there.
LEMMA MovedUp ==
    ASSUME NEW n \in Nat, NEW ev, IsChain(ev, n), NEW i \in 1..(n - 1),
           NEW m \in Nat, i <= m, NEW log, DOMAIN log = 1..m, Len(log) = m,
           log[i] = ev[i + 1], PrevHash(log, i) = PrevHash(ev, i), NEW head
    PROVE  ~VerifyChain(log, head)
<1> SUFFICES ASSUME VerifyChain(log, head) PROVE FALSE
  OBVIOUS
<1>1. i \in 1..m /\ i \in 1..n /\ i + 1 \in 1..n /\ (i + 1) - 1 = i /\ i + 1 # 1
  OBVIOUS
<1>2. log[i].hash = ChainHash(PrevHash(log, i), log[i])
  BY <1>1, VerifyMeans
<1>3. ev[i + 1].hash = ChainHash(PrevHash(ev, i + 1), ev[i + 1]) /\ ev[i].hash # PrevHash(ev, i)
  BY <1>1, ChainFacts
<1>4. PrevHash(ev, i + 1) = ev[i].hash
  BY <1>1 DEF PrevHash
<1>5. ChainHash(PrevHash(ev, i), ev[i + 1]) = ChainHash(ev[i].hash, ev[i + 1])
  BY <1>2, <1>3, <1>4
<1>6. QED
  BY <1>3, <1>5, HashFields

\* An event dropped from the log.
LEMMA DropDetected ==
    ASSUME NEW n \in Nat, NEW ev, IsChain(ev, n), NEW i \in 1..n
    PROVE  ~VerifyChain(RemoveAt(ev, i), ChainHead(ev))
<1> DEFINE log == RemoveAt(ev, i)
           m == n - 1
<1>1. ev \in Seq({ev[k] : k \in 1..n}) /\ Len(ev) = n /\ m \in Nat
  BY DEF IsChain
<1>2. /\ DOMAIN log = 1..m /\ Len(log) = m
      /\ \A k \in 1..m : log[k] = IF k < i THEN ev[k] ELSE ev[k + 1]
  <2> DEFINE E == {ev[k] : k \in 1..n}
             a == SubSeq(ev, 1, i - 1)
             b == SubSeq(ev, i + 1, n)
  <2>1. ev \in Seq(E) /\ log = a \o b
    BY <1>1 DEF RemoveAt
  <2> HIDE DEF E, log
  <2>2. a \in Seq(E) /\ Len(a) = i - 1 /\ \A k \in 1..(i - 1) : a[k] = ev[k]
    BY <1>1, <2>1
  <2>3. b \in Seq(E) /\ Len(b) = n - i /\ \A k \in 1..(n - i) : b[k] = ev[i + k]
    BY <1>1, <2>1
  <2> HIDE DEF a, b
  <2>4. log \in Seq(E) /\ Len(log) = m
    <3>1. log \in Seq(E)
      BY <2>1, <2>2, <2>3, ConcatProperties
    <3>2. Len(log) = Len(a) + Len(b)
      BY <2>1, <2>2, <2>3, ConcatProperties
    <3>3. Len(a) = i - 1 /\ Len(b) = n - i /\ (i - 1) + (n - i) = n - 1
      BY <2>2, <2>3
    <3>4. QED
      BY <3>1, <3>2, <3>3
  <2>5. \A k \in 1..m : log[k] = IF k < i THEN a[k] ELSE b[k - (i - 1)]
    BY <2>1, <2>2, <2>3
  <2>6. \A k \in 1..m : k < i => log[k] = ev[k]
    BY <2>2, <2>5
  <2>7. ASSUME NEW k \in 1..m, ~(k < i) PROVE log[k] = ev[k + 1]
    <3>1. k - (i - 1) \in 1..(n - i) /\ i + (k - (i - 1)) = k + 1
      BY <2>7
    <3>2. QED
      BY <2>3, <2>5, <2>7, <3>1
  <2>8. DOMAIN log = 1..m
    BY <2>4
  <2>9. QED
    BY <2>4, <2>6, <2>7, <2>8
<1> HIDE DEF log
<1>3. CASE i < n
  <2>1. i \in 1..(n - 1) /\ i \in 1..m /\ i <= m
    BY <1>3
  <2>2. log[i] = ev[i + 1]
    BY <1>2, <2>1
  <2>3. PrevHash(log, i) = PrevHash(ev, i)
    <3>1. i # 1 => i - 1 \in 1..m /\ i - 1 < i
      BY <2>1
    <3>2. i # 1 => log[i - 1] = ev[i - 1]
      BY <1>2, <3>1
    <3>3. QED
      BY <3>2 DEF PrevHash
  <2> HIDE DEF m
  <2>4. QED
    BY <1>1, <1>2, <2>1, <2>2, <2>3, MovedUp DEF log
<1>4. CASE i = n
  <2>1. n \in 1..n /\ n # 0 /\ ChainHead(ev) = ev[n].hash /\ ev[n].hash = ChainHash(PrevHash(ev, n), ev[n])
        /\ ev[n].hash # PrevHash(ev, n)
    BY <1>4, ChainFacts
  <2>2. SUFFICES ASSUME VerifyChain(log, ev[n].hash) PROVE FALSE
    BY <2>1 DEF log
  <2>3. (m > 0 => log[m].hash = ev[n].hash) /\ (m = 0 => ev[n].hash = <<>>)
    BY <1>1, <1>2, <2>2, VerifyMeans
  <2>4. CASE m = 0
    BY <2>1, <2>3, <2>4, HashFields
  <2>5. CASE m > 0
    <3>1. m \in 1..m /\ m < i /\ n # 1 /\ n - 1 = m
      BY <1>1, <1>4, <2>5
    <3>2. log[m] = ev[m] /\ PrevHash(ev, n) = ev[m].hash
      BY <1>2, <3>1 DEF PrevHash
    <3>3. QED
      BY <2>1, <2>3, <2>5, <3>2
  <2>6. QED
    BY <1>1, <2>4, <2>5
<1>5. QED
  BY <1>3, <1>4

\* Two neighbours swapped.
LEMMA SwapDetected ==
    ASSUME NEW n \in Nat, NEW ev, IsChain(ev, n), NEW i \in 1..(n - 1)
    PROVE  ~VerifyChain([ev EXCEPT ![i] = ev[i + 1], ![i + 1] = ev[i]], ChainHead(ev))
<1> DEFINE log == [ev EXCEPT ![i] = ev[i + 1], ![i + 1] = ev[i]]
<1>1. ev \in Seq({ev[k] : k \in 1..n}) /\ Len(ev) = n
  BY DEF IsChain
<1>2. DOMAIN log = 1..n /\ log[i] = ev[i + 1] /\ \A k \in 1..n : k < i => log[k] = ev[k]
  BY <1>1
<1>3. Len(log) = n
  BY <1>2
<1> HIDE DEF log
<1>4. PrevHash(log, i) = PrevHash(ev, i)
  <2>1. i # 1 => i - 1 \in 1..n /\ i - 1 < i
    OBVIOUS
  <2>2. i # 1 => log[i - 1] = ev[i - 1]
    BY <1>2, <2>1
  <2>3. QED
    BY <2>2 DEF PrevHash
<1>5. i <= n
  OBVIOUS
<1>6. ~VerifyChain(log, ChainHead(ev))
  BY <1>2, <1>3, <1>4, <1>5, MovedUp, Zenon
<1>7. QED
  BY <1>6 DEF log

\* An event with another detail.
LEMMA ForgedFields ==
    ASSUME NEW n \in Nat, NEW ev, IsChain(ev, n), NEW i \in 1..n, NEW d, NEW prev
    PROVE  /\ Forged(ev[i], d).hash = ev[i].hash /\ Forged(ev[i], d).seq = i - 1
           /\ Forged(ev[i], d).detail = d
           /\ Fitted(ev[i], d, prev).seq = i - 1 /\ Fitted(ev[i], d, prev).detail = d
           /\ Fitted(ev[i], d, prev).hash = ChainHash(prev, Forged(ev[i], d))
<1> DEFINE e == ev[i]
<1>1. e = [hash |-> e.hash, seq |-> i - 1, type |-> e.type, at |-> e.at, detail |-> e.detail]
  BY DEF IsChain
<1> HIDE DEF e
<1>2. Forged(e, d) = [hash |-> e.hash, seq |-> i - 1, type |-> e.type, at |-> e.at, detail |-> d]
  BY <1>1 DEF Forged
<1> DEFINE h == ChainHash(prev, Forged(e, d))
<1>3. Fitted(e, d, prev) = [Forged(e, d) EXCEPT !.hash = h]
  BY DEF Fitted
<1> HIDE DEF h
<1>4. Fitted(e, d, prev) = [hash |-> h, seq |-> i - 1, type |-> e.type, at |-> e.at, detail |-> d]
  BY <1>2, <1>3
<1>5. /\ Forged(e, d).hash = e.hash /\ Forged(e, d).seq = i - 1 /\ Forged(e, d).detail = d
      /\ Fitted(e, d, prev).seq = i - 1 /\ Fitted(e, d, prev).detail = d
      /\ Fitted(e, d, prev).hash = h
  BY <1>2, <1>4
<1>6. QED
  BY <1>5 DEF e, h

\* The log with another event at position i.
Put(ev, i, x) == [ev EXCEPT ![i] = x]

\* Another event at one position leaves the other positions, and the hash before it, alone.
LEMMA Replaced ==
    ASSUME NEW n \in Nat, NEW ev, IsChain(ev, n), NEW i \in 1..n, NEW x
    PROVE  /\ DOMAIN Put(ev, i, x) = 1..n /\ Len(Put(ev, i, x)) = n
           /\ Put(ev, i, x)[i] = x
           /\ \A k \in 1..n : k # i => Put(ev, i, x)[k] = ev[k]
           /\ PrevHash(Put(ev, i, x), i) = PrevHash(ev, i)
<1> DEFINE log == Put(ev, i, x)
<1>1. ev \in Seq({ev[k] : k \in 1..n}) /\ Len(ev) = n
  BY DEF IsChain
<1>2. DOMAIN log = 1..n /\ log[i] = x /\ \A k \in 1..n : k # i => log[k] = ev[k]
  BY <1>1 DEF Put
<1>3. Len(log) = n
  BY <1>2
<1> HIDE DEF log
<1>4. PrevHash(log, i) = PrevHash(ev, i)
  <2>1. i # 1 => i - 1 \in 1..n /\ i - 1 # i
    OBVIOUS
  <2>2. i # 1 => log[i - 1] = ev[i - 1]
    BY <1>2, <2>1
  <2>3. QED
    BY <2>2 DEF PrevHash
<1>5. QED
  BY <1>2, <1>3, <1>4 DEF log

\* An event's detail changed and nothing else: its own hash gives it away.
LEMMA ForgeryDetected ==
    ASSUME NEW n \in Nat, NEW ev, IsChain(ev, n), NEW i \in 1..n, NEW d, d # ev[i].detail
    PROVE  ~VerifyChain(Put(ev, i, Forged(ev[i], d)), ChainHead(ev))
<1> DEFINE f == Forged(ev[i], d)
           log == Put(ev, i, f)
<1>1. f.hash = ev[i].hash /\ f.detail = d
  BY ForgedFields
<1> HIDE DEF f
<1>2. DOMAIN log = 1..n /\ Len(log) = n /\ log[i] = f /\ PrevHash(log, i) = PrevHash(ev, i)
  BY Replaced
<1> HIDE DEF log
<1>3. SUFFICES ASSUME VerifyChain(log, ChainHead(ev)) PROVE FALSE
  BY DEF log, f
<1>4. f.hash = ChainHash(PrevHash(ev, i), f)
  BY <1>2, <1>3, VerifyMeans
<1>5. ev[i].hash = ChainHash(PrevHash(ev, i), ev[i])
  BY ChainFacts
<1>6. ChainHash(PrevHash(ev, i), f) = ChainHash(PrevHash(ev, i), ev[i])
  BY <1>1, <1>4, <1>5
<1>7. QED
  BY <1>1, <1>6, HashFields

\* An event's detail changed and its hash made to fit: the next event's hash, or
\* the head, gives it away.
LEMMA FittedForgeryDetected ==
    ASSUME NEW n \in Nat, NEW ev, IsChain(ev, n), NEW i \in 1..n, NEW d, d # ev[i].detail
    PROVE  ~VerifyChain(Put(ev, i, Fitted(ev[i], d, PrevHash(ev, i))), ChainHead(ev))
<1> DEFINE f == Fitted(ev[i], d, PrevHash(ev, i))
           log == Put(ev, i, f)
<1>1. f.hash # ev[i].hash
  <2>1. f.hash = ChainHash(PrevHash(ev, i), Forged(ev[i], d)) /\ Forged(ev[i], d).detail = d
    BY ForgedFields
  <2>2. ev[i].hash = ChainHash(PrevHash(ev, i), ev[i])
    BY ChainFacts
  <2>3. QED
    BY <2>1, <2>2, HashFields
<1> HIDE DEF f
<1>2. /\ DOMAIN log = 1..n /\ Len(log) = n /\ log[i] = f
      /\ \A k \in 1..n : k # i => log[k] = ev[k]
  BY Replaced
<1> HIDE DEF log
<1>3. SUFFICES ASSUME VerifyChain(log, ChainHead(ev)) PROVE FALSE
  BY DEF log, f
<1>4. CASE i = n
  <2>1. n > 0 /\ ChainHead(ev) = ev[n].hash
    BY <1>4, ChainFacts
  <2>2. log[n].hash = ChainHead(ev)
    BY <1>2, <1>3, <2>1, VerifyMeans
  <2>3. QED
    BY <1>1, <1>2, <1>4, <2>1, <2>2
<1>5. CASE i # n
  <2>1. i + 1 \in 1..n /\ i + 1 # i /\ i + 1 # 1 /\ (i + 1) - 1 = i
    BY <1>5
  <2>2. log[i + 1] = ev[i + 1] /\ PrevHash(log, i + 1) = f.hash /\ PrevHash(ev, i + 1) = ev[i].hash
    BY <1>2, <2>1 DEF PrevHash
  <2>3. log[i + 1].hash = ChainHash(PrevHash(log, i + 1), log[i + 1])
    BY <1>2, <1>3, <2>1, VerifyMeans
  <2>4. ev[i + 1].hash = ChainHash(PrevHash(ev, i + 1), ev[i + 1])
    BY <2>1, ChainFacts
  <2>5. ChainHash(f.hash, ev[i + 1]) = ChainHash(ev[i].hash, ev[i + 1])
    BY <2>2, <2>3, <2>4
  <2>6. QED
    BY <1>1, <2>5, HashFields
<1>6. QED
  BY <1>4, <1>5

\* An event added that fits the chain: the head gives it away.
LEMMA AdditionDetected ==
    ASSUME NEW n \in Nat, NEW ev, IsChain(ev, n), NEW i \in 1..n, NEW d, d # ev[i].detail
    PROVE  ~VerifyChain(Append(ev, Fitted(ev[i], d, ChainHead(ev))), ChainHead(ev))
<1> DEFINE f == Fitted(ev[i], d, ChainHead(ev))
           log == Append(ev, f)
           m == n + 1
<1>1. f.hash # ev[n].hash
  <2>1. n \in 1..n
    OBVIOUS
  <2>2. f.hash = ChainHash(ChainHead(ev), Forged(ev[i], d))
        /\ Forged(ev[i], d).detail = d /\ Forged(ev[i], d).seq = i - 1
    BY ForgedFields
  <2>3. ev[n].hash = ChainHash(PrevHash(ev, n), ev[n]) /\ ev[n].seq = n - 1
    BY <2>1, ChainFacts
  <2>4. i # n => i - 1 # n - 1
    OBVIOUS
  <2>5. QED
    BY <2>2, <2>3, <2>4, HashFields
<1> HIDE DEF f
<1>2. m \in Nat /\ m > 0 /\ DOMAIN log = 1..m /\ Len(log) = m /\ log[m] = f
  <2> DEFINE E == {ev[k] : k \in 1..n} \cup {f}
  <2>1. ev \in Seq(E) /\ f \in E /\ Len(ev) = n
    BY DEF IsChain
  <2> HIDE DEF E
  <2>2. QED
    BY <2>1
<1>3. n # 0 /\ ChainHead(ev) = ev[n].hash
  BY ChainFacts
<1> HIDE DEF log, m
<1>4. SUFFICES ASSUME VerifyChain(log, ChainHead(ev)) PROVE FALSE
  BY DEF log, f
<1>5. log[m].hash = ChainHead(ev)
  BY <1>2, <1>4, VerifyMeans
<1>6. QED
  BY <1>1, <1>2, <1>3, <1>5

\* The alterations of a log, one kind at a time.
LEMMA AlterationKinds ==
    ASSUME NEW n \in Nat, NEW ev, DOMAIN ev = 1..n, Len(ev) = n, NEW log \in Alterations(ev)
    PROVE  \/ \E i \in 1..n : log = RemoveAt(ev, i)
           \/ \E i \in 1..(n - 1) : log = [ev EXCEPT ![i] = ev[i + 1], ![i + 1] = ev[i]]
           \/ \E i \in 1..n : \E d : d # ev[i].detail /\ log = Put(ev, i, Forged(ev[i], d))
           \/ \E i \in 1..n : \E d : d # ev[i].detail /\ log = Put(ev, i, Fitted(ev[i], d, PrevHash(ev, i)))
           \/ \E i \in 1..n : \E d : d # ev[i].detail /\ log = Append(ev, Fitted(ev[i], d, ChainHead(ev)))
<1> DEFINE Details == {<<Null, Null>>} \cup {ev[i].detail : i \in DOMAIN ev}
           Others(i) == Details \ {ev[i].detail}
           A == {RemoveAt(ev, i) : i \in DOMAIN ev}
           B == {[ev EXCEPT ![i] = ev[i + 1], ![i + 1] = ev[i]] : i \in 1..(Len(ev) - 1)}
           C(i) == {Put(ev, i, Forged(ev[i], d)) : d \in Others(i)}
           D(i) == {Put(ev, i, Fitted(ev[i], d, PrevHash(ev, i))) : d \in Others(i)}
           F(i) == {Append(ev, Fitted(ev[i], d, ChainHead(ev))) : d \in Others(i)}
           All(i) == C(i) \cup D(i) \cup F(i)
<1>1. Alterations(ev) = A \cup B \cup UNION {All(i) : i \in DOMAIN ev}
  BY DEF Alterations, Put
<1>2. \A i \in 1..n : \A d \in Others(i) : d # ev[i].detail
  OBVIOUS
<1> HIDE DEF Others
<1>3. log \in A => \E i \in 1..n : log = RemoveAt(ev, i)
  OBVIOUS
<1>4. log \in B => \E i \in 1..(n - 1) : log = [ev EXCEPT ![i] = ev[i + 1], ![i + 1] = ev[i]]
  OBVIOUS
<1>5. \A i \in 1..n : log \in C(i) => \E d : d # ev[i].detail /\ log = Put(ev, i, Forged(ev[i], d))
  BY <1>2
<1>6. \A i \in 1..n : log \in D(i) => \E d : d # ev[i].detail /\ log = Put(ev, i, Fitted(ev[i], d, PrevHash(ev, i)))
  BY <1>2
<1>7. \A i \in 1..n : log \in F(i) => \E d : d # ev[i].detail /\ log = Append(ev, Fitted(ev[i], d, ChainHead(ev)))
  BY <1>2
<1> HIDE DEF A, B, C, D, F
<1>8. log \in A \/ log \in B \/ \E i \in 1..n : log \in C(i) \/ log \in D(i) \/ log \in F(i)
  BY <1>1
<1>9. QED
  BY <1>3, <1>4, <1>5, <1>6, <1>7, <1>8, Zenon

\* A chain passes the check and none of its alterations does.
LEMMA ChainChecks ==
    ASSUME NEW n \in Nat, NEW ev, IsChain(ev, n)
    PROVE  /\ VerifyChain(ev, ChainHead(ev))
           /\ \A log \in Alterations(ev) : ~VerifyChain(log, ChainHead(ev))
<1>1. /\ DOMAIN ev = 1..n /\ Len(ev) = n
      /\ \A i \in 1..n : ev[i].hash = ChainHash(PrevHash(ev, i), ev[i])
  BY ChainFacts
<1>2. VerifyChain(ev, ChainHead(ev))
  BY <1>1 DEF VerifyChain
<1>3. ASSUME NEW log \in Alterations(ev) PROVE ~VerifyChain(log, ChainHead(ev))
  <2>1. CASE \E i \in 1..n : log = RemoveAt(ev, i)
    BY <2>1, DropDetected
  <2>2. CASE \E i \in 1..(n - 1) : log = [ev EXCEPT ![i] = ev[i + 1], ![i + 1] = ev[i]]
    BY <2>2, SwapDetected
  <2>3. CASE \E i \in 1..n : \E d : d # ev[i].detail /\ log = Put(ev, i, Forged(ev[i], d))
    BY <2>3, ForgeryDetected
  <2>4. CASE \E i \in 1..n : \E d : d # ev[i].detail /\ log = Put(ev, i, Fitted(ev[i], d, PrevHash(ev, i)))
    BY <2>4, FittedForgeryDetected
  <2>5. CASE \E i \in 1..n : \E d : d # ev[i].detail /\ log = Append(ev, Fitted(ev[i], d, ChainHead(ev)))
    BY <2>5, AdditionDetected
  <2>6. QED
    BY <1>1, <2>1, <2>2, <2>3, <2>4, <2>5, AlterationKinds, Zenon
<1>4. QED
  BY <1>2, <1>3

\* The loop that hashes the events one after the other.
LEMMA HashesExist ==
    ASSUME NEW n \in Nat, NEW bare
    PROVE  \E h : h = [i \in 0..n |-> IF i = 0 THEN <<>> ELSE ChainHash(h[i - 1], bare[i])]
<1> DEFINE Upto(k, f) == f = [i \in 0..k |-> IF i = 0 THEN <<>> ELSE ChainHash(f[i - 1], bare[i])]
           G == {k \in 0..n : \E f : Upto(k, f)}
<1>1. 0 \in G
  <2> DEFINE f == [i \in 0..0 |-> <<>>]
  <2>1. f = [i \in 0..0 |-> IF i = 0 THEN <<>> ELSE ChainHash(f[i - 1], bare[i])]
    OBVIOUS
  <2> HIDE DEF f
  <2>2. QED
    BY <2>1
<1>2. ASSUME NEW k \in 1..n, k - 1 \in G PROVE k \in G
  <2>1. PICK f : Upto(k - 1, f)
    BY <1>2
  <2>2. DOMAIN f = 0..(k - 1) /\ f[0] = <<>> /\ \A i \in 1..(k - 1) : f[i] = ChainHash(f[i - 1], bare[i])
    BY <2>1
  <2> DEFINE g == [i \in 0..k |-> IF i = k THEN ChainHash(f[k - 1], bare[k]) ELSE f[i]]
             next == [i \in 0..k |-> IF i = 0 THEN <<>> ELSE ChainHash(g[i - 1], bare[i])]
  <2>3. \A i \in 0..(k - 1) : g[i] = f[i]
    OBVIOUS
  <2>4. g[k] = ChainHash(f[k - 1], bare[k]) /\ g[k - 1] = f[k - 1]
    BY <2>3
  <2>5. \A i \in 1..(k - 1) : g[i] = ChainHash(g[i - 1], bare[i])
    BY <2>2, <2>3
  <2>6. g[0] = <<>>
    BY <2>2, <2>3
  <2>7. ASSUME NEW i \in 0..k PROVE g[i] = next[i]
    <3>1. next[i] = IF i = 0 THEN <<>> ELSE ChainHash(g[i - 1], bare[i])
      OBVIOUS
    <3> HIDE DEF g, next
    <3>2. i = 0 \/ i = k \/ i \in 1..(k - 1)
      OBVIOUS
    <3>3. CASE i = 0
      BY <2>6, <3>1, <3>3
    <3>4. CASE i = k
      BY <2>4, <3>1, <3>4
    <3>5. CASE i \in 1..(k - 1)
      BY <2>5, <3>1, <3>5
    <3>6. QED
      BY <3>2, <3>3, <3>4, <3>5
  <2>8. g = [i \in 0..k |-> g[i]] /\ next = [i \in 0..k |-> next[i]]
    OBVIOUS
  <2>9. g = next
    <3> HIDE DEF g, next
    <3> QED BY <2>7, <2>8
  <2>10. Upto(k, g)
    BY <2>9
  <2>11. QED
    <3> HIDE DEF g, next
    <3> QED BY <2>10
<1>3. n \in G
  <2> HIDE DEF G
  <2>1. \A k \in 0..n : k \in G
    BY <1>1, <1>2, CountUp
  <2>2. QED
    BY <2>1
<1>4. QED
  BY <1>3

\* The log of a compliance report is a chain, in whatever order the events come.
LEMMA BuildEventsIsChain ==
    ASSUME NEW got, Len(RawEvents(got)) \in Nat
    PROVE  IsChain(BuildEvents(got), Len(RawEvents(got)))
<1> DEFINE raws  == RawEvents(got)
           n     == Len(raws)
           order == SortSeq([i \in 1..n |-> i], LAMBDA i, j : Before(raws, i, j))
           bare  == [i \in 1..n |-> [seq |-> i - 1, type |-> raws[order[i]].type,
                                     at |-> raws[order[i]].at, detail |-> raws[order[i]].detail]]
           Step(h) == [i \in 0..n |-> IF i = 0 THEN <<>> ELSE ChainHash(h[i - 1], bare[i])]
           hash  == CHOOSE h : h = Step(h)
           ev    == [i \in 1..n |-> [hash |-> hash[i], seq |-> bare[i].seq, type |-> bare[i].type,
                                     at |-> bare[i].at, detail |-> bare[i].detail]]
<1>1. BuildEvents(got) = ev
  BY DEF BuildEvents
<1>2. n \in Nat
  OBVIOUS
<1>3. \A i \in 1..n : bare[i].seq = i - 1
  OBVIOUS
<1> HIDE DEF raws, n, bare
<1>4. \E h : h = Step(h)
  BY <1>2, HashesExist
<1>5. hash = Step(hash)
  <2> HIDE DEF Step
  <2> QED BY <1>4
<1> HIDE DEF hash
<1>6. hash[0] = <<>> /\ \A i \in 1..n : hash[i] = ChainHash(hash[i - 1], bare[i])
  BY <1>2, <1>5
<1>7. \A i \in 1..n : ev[i] = [hash |-> hash[i], seq |-> i - 1, type |-> bare[i].type,
                               at |-> bare[i].at, detail |-> bare[i].detail]
  BY <1>3
<1>8. DOMAIN ev = 1..n
  OBVIOUS
<1>9. ev \in Seq({ev[i] : i \in 1..n}) /\ Len(ev) = n
  <2> DEFINE E == {ev[i] : i \in 1..n}
  <2>1. \A i \in 1..n : ev[i] \in E
    OBVIOUS
  <2>2. ev = [i \in 1..n |-> ev[i]]
    OBVIOUS
  <2> HIDE DEF ev, E
  <2>3. ev \in Seq(E) /\ Len(ev) = n
    BY <1>2, <2>1, <2>2
  <2>4. QED
    BY <2>3 DEF E
<1> HIDE DEF ev
<1>10. ASSUME NEW i \in 1..n
       PROVE  /\ ev[i].hash = hash[i] /\ ev[i].seq = bare[i].seq /\ ev[i].type = bare[i].type
              /\ ev[i].at = bare[i].at /\ ev[i].detail = bare[i].detail /\ ev[i].seq = i - 1
  <2>1. ev[i] = [hash |-> hash[i], seq |-> i - 1, type |-> bare[i].type,
                 at |-> bare[i].at, detail |-> bare[i].detail]
    BY <1>7
  <2>2. ev[i].hash = hash[i] /\ ev[i].seq = i - 1 /\ ev[i].type = bare[i].type
        /\ ev[i].at = bare[i].at /\ ev[i].detail = bare[i].detail
    BY <2>1
  <2>3. QED
    BY <1>3, <2>2
<1>11. ASSUME NEW i \in 1..n PROVE ev[i].hash = ChainHash(PrevHash(ev, i), ev[i])
  <2>1. hash[i] = ChainHash(hash[i - 1], bare[i])
    BY <1>6
  <2>2. PrevHash(ev, i) = hash[i - 1]
    <3>1. CASE i = 1
      BY <1>6, <3>1 DEF PrevHash
    <3>2. CASE i # 1
      <4>1. i - 1 \in 1..n
        BY <1>2, <3>2
      <4>2. QED
        BY <1>10, <3>2, <4>1 DEF PrevHash
    <3>3. QED
      BY <3>1, <3>2
  <2>3. ChainHash(hash[i - 1], ev[i]) = ChainHash(hash[i - 1], bare[i])
    BY <1>10 DEF ChainHash
  <2>4. QED
    BY <1>10, <2>1, <2>2, <2>3
<1>12. IsChain(ev, n)
  BY <1>7, <1>9, <1>10, <1>11 DEF IsChain
<1>13. QED
  BY <1>1, <1>12 DEF n, raws

\* A report of finitely many approvals has finitely many events.
LEMMA EventsCounted ==
    ASSUME NEW got \in Results, IsFiniteSet(got.approvals)
    PROVE  Len(RawEvents(got)) \in Nat
<1> DEFINE a == [i \in DOMAIN got.ledger |->
                   Raw(got.ledger[i].at, "model_call", <<got.ledger[i].model, "">>)]
           b == [i \in DOMAIN got.tools |->
                   Raw(got.tools[i].at, "tool_call", <<got.tools[i].call, got.tools[i].status>>)]
           Third(i) == LET x == SetToSeq(got.approvals)[i] IN
                       Raw(IF x.decided = Null THEN x.created ELSE x.decided,
                           "approval", <<x.call, x.status>>)
           m == Cardinality(got.approvals)
           c == [i \in 1..m |-> Third(i)]
           E == {a[i] : i \in DOMAIN a} \cup {b[i] : i \in DOMAIN b} \cup {c[i] : i \in DOMAIN c}
<1>1. RawEvents(got) = a \o b \o c
  BY DEF RawEvents
<1>2. got.ledger \in Seq(LedgerRows) /\ got.tools \in Seq(ToolRows) /\ m \in Nat
  BY FS_CardinalityType DEF Results
<1>3. DOMAIN a = 1..Len(got.ledger) /\ Len(got.ledger) \in Nat
  BY <1>2
<1>4. DOMAIN b = 1..Len(got.tools) /\ Len(got.tools) \in Nat
  BY <1>2
<1>5. DOMAIN c = 1..m
  OBVIOUS
<1>6. a = [i \in 1..Len(got.ledger) |-> a[i]] /\ b = [i \in 1..Len(got.tools) |-> b[i]] /\ c = [i \in 1..m |-> c[i]]
  BY <1>3, <1>4
<1> HIDE DEF a, b, c, m
<1>7. (\A i \in DOMAIN a : a[i] \in E) /\ (\A i \in DOMAIN b : b[i] \in E) /\ (\A i \in DOMAIN c : c[i] \in E)
  OBVIOUS
<1> HIDE DEF E
<1>8. a \in Seq(E)
  BY <1>3, <1>6, <1>7
<1>9. b \in Seq(E)
  BY <1>4, <1>6, <1>7
<1>10. c \in Seq(E)
  BY <1>2, <1>5, <1>6, <1>7
<1>11. a \o b \in Seq(E)
  BY <1>8, <1>9
<1>12. (a \o b) \o c \in Seq(E)
  BY <1>10, <1>11
<1>13. QED
  BY <1>1, <1>12

----------------------------------------------------------------------------
(* The theorems.                                                           *)

\* Every step of the store and of the readers preserves the invariants, and no
\* step makes a counter smaller.
LEMMA StepOK ==
    IInv /\ [Next]_vars => IInv' /\ scraped'.calls >= scraped.calls /\ scraped'.dollars >= scraped.dollars
<1> SUFFICES ASSUME IInv, [Next]_vars
             PROVE  IInv' /\ scraped'.calls >= scraped.calls /\ scraped'.dollars >= scraped.dollars
  OBVIOUS
<1> DEFINE Kept == scraped'.calls >= scraped.calls /\ scraped'.dollars >= scraped.dollars
<1>1. scraped' = scraped => Kept
  BY DEF IInv, TypeOK, Sums
<1> HIDE DEF Kept
<1>2. CASE Tick
  BY <1>1, <1>2, TickOK DEF Tick, Kept
<1>3. CASE \E r \in Runs : UpsertRun(r)
  BY <1>1, <1>3, UpsertRunOK DEF UpsertRun, Kept
<1>4. CASE \E r \in Runs, model \in Models : AppendLedger(r, model)
  BY <1>1, <1>4, AppendLedgerOK DEF AppendLedger, Kept
<1>21. CASE \E r \in Runs, model \in Models : RecordCall(r, model)
  BY <1>1, <1>21, RecordCallOK DEF RecordCall, Kept
<1>5. CASE \E c \in Calls : CreateApproval(c)
  BY <1>1, <1>5, CreateApprovalOK DEF CreateApproval, Kept
<1>6. CASE \E c \in Calls, status \in {"approved", "denied"} : ResolveApproval(c, status)
  BY <1>1, <1>6, ResolveApprovalOK DEF ResolveApproval, Kept
<1>7. CASE \E c \in Calls : RecordToolCall(c)
  BY <1>1, <1>7, RecordToolCallOK DEF RecordToolCall, Kept
<1>8. CASE \E op \in Commands, r \in Runs : Begin(op, r)
  BY <1>1, <1>8, BeginOK DEF Begin, Kept
<1>9. CASE ReadRun
  BY <1>1, <1>9, ReadRunOK DEF ReadRun, Got, Kept
<1>10. CASE ReadLedger
  BY <1>1, <1>10, ReadLedgerOK DEF ReadLedger, Got, Kept
<1>11. CASE ReadTotals
  BY <1>1, <1>11, ReadTotalsOK DEF ReadTotals, Got, Kept
<1>12. CASE ReadTools
  BY <1>1, <1>12, ReadToolsOK DEF ReadTools, Got, Kept
<1>13. CASE ReadApprovals
  BY <1>1, <1>13, ReadApprovalsOK DEF ReadApprovals, Got, Kept
<1>14. CASE MetricsRuns
  BY <1>1, <1>14, MetricsRunsOK DEF MetricsRuns, Got, Kept
<1>15. CASE MetricsTotals
  BY <1>1, <1>15, MetricsTotalsOK DEF MetricsTotals, Kept
<1>16. CASE MetricsPending
  BY <1>16, MetricsPendingOK
<1>17. CASE UNCHANGED vars
  <2>1. UNCHANGED <<now, metered, row, ledger, tools, approvals, gated, reader, scraped>>
    BY <1>17 DEF vars
  <2>2. TypeOK'
    BY <2>1 DEF IInv, TypeOK
  <2>3. StoreInv' /\ EntriesInv' /\ ScrapeInv'
    BY <2>1, ReaderFrame, WriterFrame DEF IInv
  <2>4. DecisionInv'
    BY <2>1 DEF IInv, DecisionInv, Decided
  <2>5. QED
    BY <1>1, <2>1, <2>2, <2>3, <2>4 DEF IInv, Kept
<1>18. Idle.run \in Runs /\ "metrics" \in Commands
  BY ReportConstants DEF Idle, Commands
<1>19. CASE Begin("metrics", Idle.run)
  BY <1>8, <1>18, <1>19
<1>20. QED
  BY <1>2, <1>3, <1>4, <1>5, <1>6, <1>7, <1>8, <1>9, <1>10, <1>11, <1>12, <1>13, <1>14, <1>15, <1>16,
     <1>17, <1>19, <1>21, Zenon DEF Next

\* The invariants hold in every reachable state.
LEMMA Invariant == Spec => []IInv
<1>1. IInv /\ [Next]_vars => IInv'
  BY StepOK
<1>2. QED
  BY InitOK, <1>1, PTL DEF Spec

\* Every row has its table's form and everything a report holds has the form its
\* statements return, whatever is written meanwhile.
THEOREM TypeCorrect == Spec => []TypeOK
<1>1. IInv => TypeOK
  BY DEF IInv
<1>2. QED
  BY Invariant, <1>1, PTL

\* A printed export never lists more calls or dollars than the totals beside the
\* list, and a compliance report never more calls: both commands read the ledger
\* before they read the totals, and the ledger only grows.
THEOREM TotalsCoverEntriesHolds == Spec => []TotalsCoverEntries
<1>1. IInv => TotalsCoverEntries
  <2> SUFFICES ASSUME IInv, Printed("export") \/ Printed("compliance")
               PROVE  Covers(SumRows(reader.got.ledger), reader.got.totals)
    BY DEF TotalsCoverEntries, Covers
  <2>1. reader.op \in {"compliance", "export"} /\ reader.step > 3
    BY ReaderTypes, Statements DEF Printed
  <2>2. QED
    BY <2>1 DEF IInv, EntriesInv
<1>2. QED
  BY Invariant, <1>1, PTL

\* A compliance report that shows a gated call as approved shows the human's
\* decision too: the decision is written before the row, and the report reads the
\* rows before the decisions.
THEOREM ApprovedHasDecisionHolds == Spec => []ApprovedHasDecision
<1>1. IInv => ApprovedHasDecision
  <2> SUFFICES ASSUME IInv, Printed("compliance")
               PROVE  \A i \in DOMAIN reader.got.tools : Decided(reader.got.tools[i])
    BY DEF ApprovedHasDecision, Decided
  <2>1. reader.op = "compliance" /\ reader.step = 6
    BY ReaderTypes, Statements DEF Printed
  <2>2. QED
    BY <2>1 DEF IInv, DecisionInv
<1>2. QED
  BY Invariant, <1>1, PTL

\* The counters of GET /metrics never go down from one scrape to the next,
\* although each scrape adds up the runs one statement at a time while they are
\* charged, halt and appear.
THEOREM CountersMonotoneHolds == Spec => CountersMonotone
<1>1. IInv /\ [Next]_vars => [/\ scraped'.calls >= scraped.calls
                              /\ scraped'.dollars >= scraped.dollars]_vars
  BY StepOK
<1>2. QED
  BY Invariant, <1>1, PTL DEF Spec, CountersMonotone

\* The approvals a report has read are finitely many.
FiniteInv == IsFiniteSet(reader.got.approvals)

\* What ListApprovals returns is finite: there is a row for some of the calls only.
LEMMA ListedFinite ==
    ASSUME NEW statuses, NEW S, S \subseteq ListApprovals(statuses)
    PROVE  IsFiniteSet(S)
<1> DEFINE C == {d \in Calls : approvals[d] # Null /\ approvals[d].status \in statuses}
<1>1. IsFiniteSet(C)
  BY ReportConstants, FS_Subset
<1> HIDE DEF C
<1>2. IsFiniteSet({approvals[c] : c \in C})
  <2> DEFINE T == {approvals[c] : c \in C}
             f == [c \in C |-> approvals[c]]
  <2>1. f \in Surjection(C, T)
    BY DEF Surjection
  <2> HIDE DEF f, T
  <2>2. IsFiniteSet(T)
    BY <1>1, <2>1, FS_Surjection
  <2>3. QED
    BY <2>2 DEF T
<1>3. ListApprovals(statuses) = {approvals[c] : c \in C}
  BY DEF ListApprovals, C
<1>4. QED
  BY <1>2, <1>3, FS_Subset

\* Another field of what was read leaves the approvals alone.
LEMMA OtherField ==
    ASSUME IInv, FiniteInv, NEW field, NEW value,
           field \in {"row", "ledger", "totals", "tools", "runs"}, Got(field, value)
    PROVE  FiniteInv'
<1>1. reader.got \in Results /\ reader \in [op : Commands, run : Runs, step : 1..6, got : Results]
  BY ReaderTypes
<1>2. reader' = [op |-> reader.op, run |-> reader.run, step |-> reader.step + 1,
                 got |-> [reader.got EXCEPT ![field] = value]]
  BY <1>1, GotFields
<1>3. reader'.got.approvals = reader.got.approvals
  BY <1>1, <1>2 DEF Results
<1>4. QED
  BY <1>3 DEF FiniteInv

\* Every statement leaves them finite.
LEMMA FiniteOK == IInv /\ FiniteInv /\ [Next]_vars => FiniteInv'
<1> SUFFICES ASSUME IInv, FiniteInv, [Next]_vars PROVE FiniteInv'
  OBVIOUS
<1>1. ASSUME UNCHANGED reader PROVE FiniteInv'
  BY <1>1 DEF FiniteInv
<1>2. IsFiniteSet({}) /\ Idle.got.approvals = {}
  BY FS_EmptySet DEF Idle
<1>3. ASSUME NEW op, NEW r, Begin(op, r) PROVE FiniteInv'
  <2>1. reader' = [Idle EXCEPT !.op = op, !.run = r, !.step = 1]
    BY <1>3 DEF Begin
  <2>2. Idle = [op |-> "export", run |-> Idle.run, step |-> 5, got |-> Idle.got]
    BY DEF Idle
  <2>3. reader'.got = Idle.got
    BY <2>1, <2>2
  <2>4. QED
    BY <1>2, <2>3 DEF FiniteInv
<1>4. ASSUME ReadRun PROVE FiniteInv'
  <2>1. Got("row", RowRead(reader.run)) \/ reader' = Idle
    BY <1>4 DEF ReadRun
  <2>2. QED
    BY <1>2, <2>1, OtherField DEF FiniteInv
<1>5. ASSUME ReadLedger \/ ReadTotals \/ ReadTools \/ MetricsRuns PROVE FiniteInv'
  <2>1. \E v : Got("ledger", v) \/ Got("totals", v) \/ Got("tools", v) \/ Got("runs", v)
    BY <1>5, Zenon DEF ReadLedger, ReadTotals, ReadTools, MetricsRuns
  <2>2. QED
    BY <2>1, OtherField
<1>6. ASSUME ReadApprovals PROVE FiniteInv'
  <2> DEFINE own == {a \in ListApprovals({"pending", "approved", "denied"}) : a.run = reader.run}
  <2>1. Got("approvals", own)
    BY <1>6 DEF ReadApprovals
  <2>2. IsFiniteSet(own)
    BY ListedFinite
  <2> HIDE DEF own
  <2>3. reader.got \in Results /\ reader \in [op : Commands, run : Runs, step : 1..6, got : Results]
    BY ReaderTypes
  <2>4. reader' = [op |-> reader.op, run |-> reader.run, step |-> reader.step + 1,
                   got |-> [reader.got EXCEPT !["approvals"] = own]]
    BY <2>1, <2>3, GotFields
  <2>5. reader'.got.approvals = own
    BY <2>3, <2>4 DEF Results
  <2>6. QED
    BY <2>2, <2>5 DEF FiniteInv
<1>7. ASSUME MetricsTotals PROVE FiniteInv'
  <2>1. reader.got \in Results /\ reader \in [op : Commands, run : Runs, step : 1..6, got : Results]
    BY ReaderTypes
  <2>2. CASE \E r \in reader.got.runs :
               reader' = [reader EXCEPT !.got.runs = @ \ {r}, !.got.totals = Plus(@, Totals(r))]
    <3>1. PICK r \in reader.got.runs :
               reader' = [reader EXCEPT !.got.runs = @ \ {r}, !.got.totals = Plus(@, Totals(r))]
      BY <2>2
    <3>2. reader'.got = [reader.got EXCEPT !.runs = reader.got.runs \ {r},
                                           !.totals = Plus(reader.got.totals, Totals(r))]
      BY <2>1, <3>1 DEF Results
    <3>3. reader'.got.approvals = reader.got.approvals
      BY <2>1, <3>2 DEF Results
    <3>4. QED
      BY <3>3 DEF FiniteInv
  <2>3. CASE reader' = [reader EXCEPT !.step = @ + 1]
    <3>1. reader'.got = reader.got
      BY <2>1, <2>3
    <3>2. QED
      BY <3>1 DEF FiniteInv
  <2>4. QED
    BY <1>7, <2>2, <2>3 DEF MetricsTotals
<1>8. ASSUME MetricsPending PROVE FiniteInv'
  <2> DEFINE open == ListApprovals({"pending"})
  <2>1. IsFiniteSet(open) /\ reader' = [reader EXCEPT !.got.approvals = open, !.step = @ + 1]
    BY <1>8, ListedFinite DEF MetricsPending
  <2> HIDE DEF open
  <2>2. reader.got \in Results /\ reader = [op |-> reader.op, run |-> reader.run, step |-> reader.step, got |-> reader.got]
    BY ReaderTypes
  <2>3. reader' = [reader EXCEPT !.got = [reader.got EXCEPT !.approvals = open], !.step = reader.step + 1]
    BY <2>1
  <2>4. reader'.got = [reader.got EXCEPT !.approvals = open]
    BY <2>2, <2>3
  <2>5. reader'.got.approvals = open
    BY <2>2, <2>4 DEF Results
  <2>6. QED
    BY <2>1, <2>5 DEF FiniteInv
<1>9. CASE Next
  <2>1. ASSUME \/ Tick \/ (\E r \in Runs : UpsertRun(r))
               \/ \E r \in Runs, model \in Models : RecordCall(r, model) \/ AppendLedger(r, model)
        PROVE  FiniteInv'
    BY <1>1, <2>1 DEF Tick, UpsertRun, RecordCall, AppendLedger
  <2>2. ASSUME NEW c \in Calls,
               CreateApproval(c) \/ (\E status \in {"approved", "denied"} : ResolveApproval(c, status))
                 \/ RecordToolCall(c)
        PROVE  FiniteInv'
    BY <1>1, <2>2 DEF CreateApproval, ResolveApproval, RecordToolCall
  <2>3. QED
    BY <1>3, <1>4, <1>5, <1>6, <1>7, <1>8, <1>9, <2>1, <2>2, Zenon DEF Next
<1>10. CASE UNCHANGED vars
  BY <1>1, <1>10 DEF vars
<1>11. QED
  BY <1>9, <1>10

\* The check an auditor makes accepts every compliance report as printed and
\* rejects it after any single alteration, for reports of any length: each hash
\* covers the one before it, and the published head covers the last.
THEOREM ChainDetectsTamperingHolds == Spec => []ChainDetectsTampering
<1>1. Init => FiniteInv
  <2>1. Idle.got.approvals = {}
    BY DEF Idle
  <2>2. QED
    BY <2>1, FS_EmptySet DEF Init, FiniteInv
<1>2. Spec => []FiniteInv
  <2>1. IInv /\ FiniteInv /\ [Next]_vars => FiniteInv'
    BY FiniteOK
  <2>2. QED
    BY Invariant, <1>1, <2>1, PTL DEF Spec
<1>3. IInv /\ FiniteInv => ChainDetectsTampering
  <2> SUFFICES ASSUME IInv, FiniteInv PROVE ChainDetectsTampering
    OBVIOUS
  <2> DEFINE ev == BuildEvents(reader.got)
             n == Len(RawEvents(reader.got))
  <2>1. n \in Nat /\ IsChain(ev, n)
    BY ReaderTypes, EventsCounted, BuildEventsIsChain DEF FiniteInv
  <2> HIDE DEF n
  <2>2. /\ VerifyChain(ev, ChainHead(ev))
        /\ \A log \in Alterations(ev) : ~VerifyChain(log, ChainHead(ev))
    <3> HIDE DEF ev
    <3> QED BY <2>1, ChainChecks
  <2>3. QED
    BY <2>2 DEF ChainDetectsTampering
<1>4. QED
  BY Invariant, <1>2, <1>3, PTL

----------------------------------------------------------------------------
(* The summary of a window: grouped and added up again.                    *)

\* The rows grouped under k, and what each group of K adds up to.
Part(key, k) == {e \in LedgerRows : key[e] = k}
CallsBy(rows, K, key) == [k \in K |-> SumRows(Where(rows, Part(key, k))).calls]
DollarsBy(rows, K, key) == [k \in K |-> SumRows(Where(rows, Part(key, k))).dollars]

\* The groups of K add up to all the rows.
IsSplit(rows, K, key) ==
    /\ SumFunction(CallsBy(rows, K, key)) = SumRows(rows).calls
    /\ SumFunction(DollarsBy(rows, K, key)) = SumRows(rows).dollars

\* The sums by key are natural numbers, taken over rows of the ledger.
LEMMA GroupSumsType ==
    ASSUME NEW rows \in Seq(LedgerRows), NEW K, NEW key
    PROVE  /\ CallsBy(rows, K, key) \in [K -> Nat] /\ DollarsBy(rows, K, key) \in [K -> Nat]
           /\ \A k \in K : Where(rows, Part(key, k)) \in Seq(LedgerRows)
<1>1. \A k : Where(rows, Part(key, k)) \in Seq(LedgerRows)
  BY WhereType
<1>2. \A k : SumRows(Where(rows, Part(key, k))).calls \in Nat /\ SumRows(Where(rows, Part(key, k))).dollars \in Nat
  BY <1>1, SumRowsType DEF Sums
<1>3. QED
  BY <1>1, <1>2 DEF CallsBy, DollarsBy

\* A new row makes its own group larger, and only that.
LEMMA SplitAppend ==
    ASSUME NEW K, IsFiniteSet(K), NEW key, NEW rows \in Seq(LedgerRows), NEW e \in LedgerRows, key[e] \in K,
           IsSplit(rows, K, key)
    PROVE  IsSplit(Append(rows, e), K, key)
<1> DEFINE more == Append(rows, e)
           x == key[e]
           W(k) == Where(rows, Part(key, k))
<1>1. more \in Seq(LedgerRows) /\ x \in K
  OBVIOUS
<1>2. \A k \in K : Where(more, Part(key, k)) = IF k = x THEN Append(W(k), e) ELSE W(k)
  <2>1. \A k : e \in Part(key, k) <=> k = x
    BY DEF Part
  <2> HIDE DEF x
  <2>2. QED
    BY <2>1, WhereAppend
<1>3. W(x) \in Seq(LedgerRows)
  BY <1>1, GroupSumsType
<1>4. /\ SumRows(Append(W(x), e)).calls = SumRows(W(x)).calls + 1
      /\ SumRows(Append(W(x), e)).dollars = SumRows(W(x)).dollars + Price[e.model]
  <2> HIDE DEF W
  <2> QED BY <1>3, SumAppend
<1>5. /\ SumRows(more).calls = SumRows(rows).calls + 1
      /\ SumRows(more).dollars = SumRows(rows).dollars + Price[e.model]
  BY SumAppend
<1>6. SumRows(rows).calls \in Nat /\ SumRows(rows).dollars \in Nat /\ Price[e.model] \in Nat
  BY SumRowsType, ReportConstants DEF Sums, LedgerRows, Models
<1> DEFINE F == CallsBy(rows, K, key)
           H == CallsBy(more, K, key)
           P == DollarsBy(rows, K, key)
           Q == DollarsBy(more, K, key)
<1>7. F \in [K -> Nat] /\ H \in [K -> Nat] /\ P \in [K -> Nat] /\ Q \in [K -> Nat]
  BY <1>1, GroupSumsType
<1> HIDE DEF more, x, W
<1>8. H[x] = F[x] + 1 /\ \A k \in K : k # x => H[k] = F[k]
  BY <1>1, <1>2, <1>4 DEF CallsBy, W
<1>9. Q[x] = P[x] + Price[e.model] /\ \A k \in K : k # x => Q[k] = P[k]
  BY <1>1, <1>2, <1>4 DEF DollarsBy, W
<1>10. SumFunction(F) = SumRows(rows).calls /\ SumFunction(P) = SumRows(rows).dollars
  BY DEF IsSplit
<1> HIDE DEF F, H, P, Q
<1>11. SumFunction(H) = SumFunction(F) - F[x] + H[x]
  <2>1. DifferAt(F, H, x)
    BY <1>7, <1>8 DEF DifferAt
  <2>2. QED
    BY <1>1, <1>7, <2>1, SumOfChanged
<1>12. SumFunction(Q) = SumFunction(P) - P[x] + Q[x]
  <2>1. DifferAt(P, Q, x)
    BY <1>7, <1>9 DEF DifferAt
  <2>2. QED
    BY <1>1, <1>7, <2>1, SumOfChanged
<1>13. F[x] \in Nat /\ P[x] \in Nat
  BY <1>1, <1>7
<1>14. SumFunction(H) = SumRows(rows).calls + 1
  BY <1>6, <1>8, <1>10, <1>11, <1>13
<1>15. SumFunction(Q) = SumRows(rows).dollars + Price[e.model]
  BY <1>6, <1>9, <1>10, <1>12, <1>13
<1>16. QED
  BY <1>5, <1>14, <1>15 DEF IsSplit, H, Q, more

\* GROUP BY loses nothing and counts nothing twice.
LEMMA GroupsAddUp ==
    ASSUME NEW K, IsFiniteSet(K), NEW key, NEW rows \in Seq(LedgerRows), \A i \in 1..Len(rows) : key[rows[i]] \in K
    PROVE  IsSplit(rows, K, key)
<1> DEFINE G == {s \in Seq(LedgerRows) : IsSplit(s, K, key)}
<1>1. <<>> \in G
  <2> DEFINE z == <<>>
  <2>1. z \in Seq(LedgerRows) /\ SumRows(z).calls = 0 /\ SumRows(z).dollars = 0 /\ \A k : Where(z, Part(key, k)) = z
    BY SumEmpty, WhereEmpty
  <2> HIDE DEF z
  <2>2. /\ CallsBy(z, K, key) \in [K -> Nat] /\ DollarsBy(z, K, key) \in [K -> Nat]
        /\ \A k \in K : CallsBy(z, K, key)[k] = 0 /\ DollarsBy(z, K, key)[k] = 0
    BY <2>1 DEF CallsBy, DollarsBy
  <2>3. SumFunction(CallsBy(z, K, key)) = 0 /\ SumFunction(DollarsBy(z, K, key)) = 0
    BY <2>2, SumOfZeros
  <2>4. IsSplit(z, K, key)
    BY <2>1, <2>3 DEF IsSplit
  <2>5. QED
    BY <2>1, <2>4 DEF z
<1>2. ASSUME NEW s \in Seq(LedgerRows), NEW j \in 1..Len(rows), s \in G PROVE Append(s, rows[j]) \in G
  <2>1. rows[j] \in LedgerRows /\ key[rows[j]] \in K
    OBVIOUS
  <2>2. IsSplit(Append(s, rows[j]), K, key)
    BY <1>2, <2>1, SplitAppend
  <2>3. QED
    BY <2>1, <2>2
<1>3. rows \in G
  <2> HIDE DEF G
  <2> QED BY <1>1, <1>2, BuildUp
<1>4. QED
  BY <1>3

\* The rows of two selections, of which every row is in exactly one.
Halves(rows, A, B) ==
    /\ SumRows(Where(rows, A)).calls + SumRows(Where(rows, B)).calls = SumRows(rows).calls
    /\ SumRows(Where(rows, A)).dollars + SumRows(Where(rows, B)).dollars = SumRows(rows).dollars

\* A sum of two grows by what one of them grows by.
LEMMA OneSideGrows ==
    ASSUME NEW x \in Nat, NEW y \in Nat, NEW z \in Nat, NEW p \in Nat, x + y = z
    PROVE  (x + p) + y = z + p /\ x + (y + p) = z + p
OBVIOUS

\* Two sets that split the rows split the calls and the dollars.
LEMMA HalvesAddUp ==
    ASSUME NEW A, NEW B, \A e \in LedgerRows : e \in A <=> e \notin B, NEW rows \in Seq(LedgerRows)
    PROVE  Halves(rows, A, B)
<1> DEFINE G == {s \in Seq(LedgerRows) : Halves(s, A, B)}
<1>1. <<>> \in G
  <2> DEFINE z == <<>>
  <2>1. z \in Seq(LedgerRows) /\ SumRows(z).calls = 0 /\ SumRows(z).dollars = 0 /\ Where(z, A) = z /\ Where(z, B) = z
    BY SumEmpty, WhereEmpty
  <2> HIDE DEF z
  <2>2. Halves(z, A, B)
    BY <2>1 DEF Halves
  <2>3. QED
    BY <2>1, <2>2 DEF z
<1>2. ASSUME NEW s \in Seq(LedgerRows), NEW j \in 1..Len(rows), s \in G PROVE Append(s, rows[j]) \in G
  <2> DEFINE e == rows[j]
             a == Where(s, A)
             b == Where(s, B)
             p == Price[e.model]
  <2>1. e \in LedgerRows /\ Halves(s, A, B) /\ a \in Seq(LedgerRows) /\ b \in Seq(LedgerRows)
    BY <1>2, WhereType
  <2>2. Where(Append(s, e), A) = (IF e \in A THEN Append(a, e) ELSE a)
        /\ Where(Append(s, e), B) = (IF e \in B THEN Append(b, e) ELSE b)
    <3> HIDE DEF e
    <3>1. s \in Seq(LedgerRows) /\ e \in LedgerRows
      BY <2>1
    <3>2. \A S : Where(Append(s, e), S) = (IF e \in S THEN Append(Where(s, S), e) ELSE Where(s, S))
      BY <3>1, WhereAppend, SMT
    <3>3. QED
      BY <3>2, Zenon
  <2>3. /\ SumRows(a).calls + SumRows(b).calls = SumRows(s).calls
        /\ SumRows(a).dollars + SumRows(b).dollars = SumRows(s).dollars
    BY <2>1 DEF Halves
  <2> HIDE DEF e, a, b
  <2>4. /\ SumRows(a).calls \in Nat /\ SumRows(a).dollars \in Nat /\ SumRows(b).calls \in Nat
        /\ SumRows(b).dollars \in Nat /\ SumRows(s).calls \in Nat /\ SumRows(s).dollars \in Nat /\ p \in Nat
    BY <2>1, SumRowsType, ReportConstants DEF Sums, LedgerRows, Models
  <2>5. /\ SumRows(Append(s, e)).calls = SumRows(s).calls + 1
        /\ SumRows(Append(s, e)).dollars = SumRows(s).dollars + p
    BY <2>1, SumAppend
  <2>6. /\ SumRows(Append(a, e)).calls = SumRows(a).calls + 1
        /\ SumRows(Append(a, e)).dollars = SumRows(a).dollars + p
    BY <2>1, SumAppend
  <2>7. /\ SumRows(Append(b, e)).calls = SumRows(b).calls + 1
        /\ SumRows(Append(b, e)).dollars = SumRows(b).dollars + p
    BY <2>1, SumAppend
  <2> HIDE DEF p
  <2>8. CASE e \in A
    <3>1. Where(Append(s, e), A) = Append(a, e) /\ Where(Append(s, e), B) = b
      BY <2>1, <2>2, <2>8
    <3>2. SumRows(Where(Append(s, e), A)).calls + SumRows(Where(Append(s, e), B)).calls
            = SumRows(Append(s, e)).calls
      <4>1. SumRows(Where(Append(s, e), A)).calls = SumRows(a).calls + 1 /\ SumRows(Where(Append(s, e), B)).calls = SumRows(b).calls
            /\ SumRows(Append(s, e)).calls = SumRows(s).calls + 1
        BY <2>5, <2>6, <3>1
      <4>2. (SumRows(a).calls + 1) + SumRows(b).calls = SumRows(s).calls + 1
        BY <2>3, <2>4, OneSideGrows
      <4>3. QED
        BY <4>1, <4>2, Zenon
    <3>3. SumRows(Where(Append(s, e), A)).dollars + SumRows(Where(Append(s, e), B)).dollars
            = SumRows(Append(s, e)).dollars
      <4>1. SumRows(Where(Append(s, e), A)).dollars = SumRows(a).dollars + p /\ SumRows(Where(Append(s, e), B)).dollars = SumRows(b).dollars
            /\ SumRows(Append(s, e)).dollars = SumRows(s).dollars + p
        BY <2>5, <2>6, <3>1
      <4>2. (SumRows(a).dollars + p) + SumRows(b).dollars = SumRows(s).dollars + p
        BY <2>3, <2>4, OneSideGrows
      <4>3. QED
        BY <4>1, <4>2, Zenon
    <3>4. Halves(Append(s, e), A, B)
      BY <3>2, <3>3 DEF Halves
    <3>5. QED
      BY <2>1, <3>4 DEF e
  <2>9. CASE e \notin A
    <3>1. Where(Append(s, e), A) = a /\ Where(Append(s, e), B) = Append(b, e)
      BY <2>1, <2>2, <2>9
    <3>2. SumRows(Where(Append(s, e), A)).calls + SumRows(Where(Append(s, e), B)).calls
            = SumRows(Append(s, e)).calls
      <4>1. SumRows(Where(Append(s, e), A)).calls = SumRows(a).calls /\ SumRows(Where(Append(s, e), B)).calls = SumRows(b).calls + 1
            /\ SumRows(Append(s, e)).calls = SumRows(s).calls + 1
        BY <2>5, <2>7, <3>1
      <4>2. SumRows(a).calls + (SumRows(b).calls + 1) = SumRows(s).calls + 1
        <5> DEFINE x == SumRows(a).calls
                   y == SumRows(b).calls
                   z == SumRows(s).calls
        <5>1. x \in Nat /\ y \in Nat /\ z \in Nat /\ x + y = z
          BY <2>3, <2>4
        <5> HIDE DEF x, y, z
        <5>2. x + (y + 1) = z + 1
          BY <5>1
        <5>3. QED
          BY <5>2 DEF x, y, z
      <4>3. QED
        BY <4>1, <4>2, Zenon
    <3>3. SumRows(Where(Append(s, e), A)).dollars + SumRows(Where(Append(s, e), B)).dollars
            = SumRows(Append(s, e)).dollars
      <4>1. SumRows(Where(Append(s, e), A)).dollars = SumRows(a).dollars /\ SumRows(Where(Append(s, e), B)).dollars = SumRows(b).dollars + p
            /\ SumRows(Append(s, e)).dollars = SumRows(s).dollars + p
        BY <2>5, <2>7, <3>1
      <4>2. SumRows(a).dollars + (SumRows(b).dollars + p) = SumRows(s).dollars + p
        BY <2>3, <2>4, OneSideGrows
      <4>3. QED
        BY <4>1, <4>2, Zenon
    <3>4. Halves(Append(s, e), A, B)
      BY <3>2, <3>3 DEF Halves
    <3>5. QED
      BY <2>1, <3>4 DEF e
  <2>10. QED
    BY <2>8, <2>9
<1>3. rows \in G
  <2> HIDE DEF G
  <2> QED BY <1>1, <1>2, BuildUp
<1>4. QED
  BY <1>3

\* The total of a summary is the sum of the rows in its window, by whatever
\* dimension it is grouped.
LEMMA SummaryTotal ==
    ASSUME ledger \in Seq(LedgerRows), NEW by, NEW since, NEW until
    PROVE  SummarizeLedger(by, since, until).total =
             SumRows(Where(ledger, {e \in LedgerRows : InWindow(e, since, until)}))
<1> DEFINE S == {e \in LedgerRows : InWindow(e, since, until)}
           picked == Where(ledger, S)
           keys == GroupKeys(by, picked)
           key == [e \in LedgerRows |-> GroupKey(by, e)]
           Group(k) == {e \in LedgerRows : GroupKey(by, e) = k}
<1>1. SummarizeLedger(by, since, until).total =
        [calls |-> SumFunction([k \in keys |-> SumRows(Where(picked, Group(k))).calls]),
         dollars |-> SumFunction([k \in keys |-> SumRows(Where(picked, Group(k))).dollars])]
  BY DEF SummarizeLedger
<1>2. picked \in Seq(LedgerRows)
  <2> HIDE DEF S
  <2> QED BY WhereType
<1> HIDE DEF picked
<1>3. \A k : Group(k) = Part(key, k)
  BY DEF Part
<1>4. \A i \in 1..Len(picked) : picked[i] \in LedgerRows /\ key[picked[i]] = GroupKey(by, picked[i])
                                /\ GroupKey(by, picked[i]) \in keys
  BY <1>2 DEF GroupKeys
<1>5. IsFiniteSet(keys)
  <2> DEFINE n == Len(picked)
             f == [i \in 1..n |-> GroupKey(by, picked[i])]
  <2>1. n \in Nat /\ DOMAIN picked = 1..n
    BY <1>2
  <2>2. f \in Surjection(1..n, keys)
    BY <2>1 DEF Surjection, GroupKeys
  <2>3. IsFiniteSet(1..n)
    BY <2>1, FS_Interval
  <2> HIDE DEF f, n, keys
  <2>4. QED
    BY <2>2, <2>3, FS_Surjection
<1>6. [k \in keys |-> SumRows(Where(picked, Group(k))).calls] = CallsBy(picked, keys, key)
      /\ [k \in keys |-> SumRows(Where(picked, Group(k))).dollars] = DollarsBy(picked, keys, key)
  <2> HIDE DEF keys, key, Group
  <2> QED BY <1>3 DEF CallsBy, DollarsBy
<1> HIDE DEF keys, key, Group
<1>7. IsSplit(picked, keys, key)
  BY <1>2, <1>4, <1>5, GroupsAddUp
<1>8. SummarizeLedger(by, since, until).total = [calls |-> SumRows(picked).calls, dollars |-> SumRows(picked).dollars]
  BY <1>1, <1>6, <1>7 DEF IsSplit
<1>9. SumRows(picked) = [calls |-> SumRows(picked).calls, dollars |-> SumRows(picked).dollars]
  BY DEF SumRows
<1>10. QED
  BY <1>8, <1>9 DEF picked, S

\* The runs' own totals add up to the ledger.
LEMMA RunTotals ==
    ASSUME ledger \in Seq(LedgerRows)
    PROVE  /\ SumFunction([r \in Runs |-> Totals(r).calls]) = SumRows(ledger).calls
           /\ SumFunction([r \in Runs |-> Totals(r).dollars]) = SumRows(ledger).dollars
<1> DEFINE key == [e \in LedgerRows |-> e.run]
<1>1. \A i \in 1..Len(ledger) : key[ledger[i]] \in Runs
  <2>1. \A i \in 1..Len(ledger) : ledger[i] \in LedgerRows
    OBVIOUS
  <2>2. \A e \in LedgerRows : key[e] \in Runs
    BY DEF LedgerRows
  <2>3. QED
    BY <2>1, <2>2
<1>2. \A r : Part(key, r) = {e \in LedgerRows : e.run = r}
  BY DEF Part
<1> HIDE DEF key
<1>3. IsSplit(ledger, Runs, key)
  BY <1>1, ReportConstants, GroupsAddUp
<1>4. \A r : Totals(r) = SumRows(Where(ledger, Part(key, r)))
  BY <1>2 DEF Totals, LedgerForRun
<1>5. [r \in Runs |-> Totals(r).calls] = CallsBy(ledger, Runs, key)
      /\ [r \in Runs |-> Totals(r).dollars] = DollarsBy(ledger, Runs, key)
  BY <1>4 DEF CallsBy, DollarsBy
<1>6. QED
  BY <1>3, <1>5 DEF IsSplit

\* Any two windows that meet at a bound add up to what the runs have spent, for
\* every ledger, price list, bound and grouping.
THEOREM WindowsPartitionHolds == Spec => []WindowsPartition
<1>1. TypeOK => WindowsPartition
  <2> SUFFICES ASSUME TypeOK, NEW t \in Instants, NEW by \in Dimensions
               PROVE  Plus(SummarizeLedger(by, Null, t).total, SummarizeLedger(by, t, Null).total)
                        = [calls   |-> SumFunction([r \in Runs |-> Totals(r).calls]),
                           dollars |-> SumFunction([r \in Runs |-> Totals(r).dollars])]
    BY DEF WindowsPartition
  <2> DEFINE A == {e \in LedgerRows : InWindow(e, Null, t)}
             B == {e \in LedgerRows : InWindow(e, t, Null)}
  <2>1. ledger \in Seq(LedgerRows) /\ t # Null
    BY ReportConstants DEF TypeOK
  <2>2. \A e \in LedgerRows : e \in A <=> e \notin B
    <3>1. \A u \in Instants : FmtTime(u) \in Int
      BY ReportConstants DEF FmtTime, Instants
    <3>2. \A e \in LedgerRows : e.at \in Instants
      BY DEF LedgerRows
    <3>3. \A e \in LedgerRows : FmtTime(e.at) < FmtTime(t) <=> ~(FmtTime(e.at) >= FmtTime(t))
      BY <3>1, <3>2
    <3>4. QED
      BY <2>1, <3>3 DEF InWindow
  <2>3. SummarizeLedger(by, Null, t).total = SumRows(Where(ledger, A))
        /\ SummarizeLedger(by, t, Null).total = SumRows(Where(ledger, B))
    BY <2>1, SummaryTotal
  <2> HIDE DEF A, B
  <2>4. Halves(ledger, A, B)
    BY <2>1, <2>2, HalvesAddUp
  <2>5. Plus(SumRows(Where(ledger, A)), SumRows(Where(ledger, B)))
          = [calls |-> SumRows(ledger).calls, dollars |-> SumRows(ledger).dollars]
    BY <2>4 DEF Halves, Plus
  <2>6. QED
    BY <2>1, <2>3, <2>5, RunTotals
<1>2. QED
  BY TypeCorrect, <1>1, PTL

----------------------------------------------------------------------------
(* What a compliance report says was spent.                                *)

\* The usage read with the row is covered by what was owed then and what the
\* ledger holds, until the entries are read, and by the entries from then on.
SpendInv ==
    reader.op = "compliance" /\ reader.got.row # Null =>
        LET seen == reader.got.row IN
        /\ reader.step = 2 => seen.usage <= Totals(reader.run).dollars + seen.owed
        /\ reader.step > 2 => seen.usage <= SumRows(reader.got.ledger).dollars + seen.owed

\* A step that leaves the report as it is and makes no totals smaller keeps it.
LEMMA SpendFrame ==
    ASSUME IInv, SpendInv, reader' = reader,
           \A r \in Runs : Totals(r)'.dollars \in Nat /\ Totals(r)'.dollars >= Totals(r).dollars
    PROVE  SpendInv'
<1> DEFINE seen == reader.got.row
<1>1. PICK r \in Runs : r = reader.run
  BY ReaderTypes
<1>2. Totals(reader.run)' = Totals(r)'
  BY <1>1 DEF Totals, LedgerForRun
<1>3. seen # Null => seen.usage \in Nat /\ seen.owed \in Nat
  BY ReaderTypes DEF Results, RowReads
<1>4. Totals(r).dollars \in Nat /\ Totals(r)'.dollars \in Nat /\ Totals(r)'.dollars >= Totals(r).dollars
  BY ReaderTypes DEF Sums
<1>5. SUFFICES ASSUME reader.op = "compliance", seen # Null
               PROVE  /\ reader.step = 2 => seen.usage <= Totals(r)'.dollars + seen.owed
                      /\ reader.step > 2 => seen.usage <= SumRows(reader.got.ledger).dollars + seen.owed
  BY <1>2 DEF SpendInv
<1>6. /\ reader.step = 2 => seen.usage <= Totals(r).dollars + seen.owed
      /\ reader.step > 2 => seen.usage <= SumRows(reader.got.ledger).dollars + seen.owed
  BY <1>1, <1>5 DEF SpendInv
<1>7. QED
  BY <1>3, <1>4, <1>5, <1>6

\* A later statement leaves the row and the entries read as they are.
LEMMA SpendKept ==
    ASSUME IInv, SpendInv, NEW field, NEW value, field \in {"totals", "tools", "approvals"},
           Got(field, value), reader.op = "compliance" => reader.step > 2
    PROVE  SpendInv'
<1>1. reader' = [op |-> reader.op, run |-> reader.run, step |-> reader.step + 1,
                 got |-> [reader.got EXCEPT ![field] = value]]
  BY ReaderTypes, GotFields
<1>2. reader'.got.row = reader.got.row /\ reader'.got.ledger = reader.got.ledger
  BY <1>1, ReaderTypes DEF Results
<1>3. reader'.op = reader.op /\ reader'.step = reader.step + 1 /\ reader.step \in 1..6
  BY <1>1, ReaderTypes
<1>4. QED
  BY <1>2, <1>3 DEF SpendInv

\* Every step keeps it.
LEMMA SpendOK == IInv /\ SpendInv /\ [Next]_vars => SpendInv'
<1> SUFFICES ASSUME IInv, SpendInv, [Next]_vars PROVE SpendInv'
  OBVIOUS
<1>1. ASSUME UNCHANGED <<ledger, reader>> PROVE SpendInv'
  <2>1. \A r \in Runs : Totals(r)' = Totals(r) /\ Totals(r).dollars \in Nat
    BY <1>1, ReaderTypes, SpentSame DEF Sums
  <2>2. QED
    BY <1>1, <2>1, SpendFrame
<1>2. ASSUME NEW x \in Runs, NEW model \in Models, AppendLedger(x, model) PROVE SpendInv'
  <2> DEFINE new == [run |-> x, model |-> model, at |-> now]
  <2>1. ledger' = Append(ledger, new) /\ reader' = reader /\ ledger \in Seq(LedgerRows) /\ now \in Instants
    BY <1>2 DEF AppendLedger, IInv, TypeOK
  <2>2. new \in LedgerRows /\ new.run = x /\ Price[new.model] \in Nat
    BY <2>1, ReportConstants DEF LedgerRows, Models
  <2> HIDE DEF new
  <2>3. \A r \in Runs : /\ Totals(r) \in Sums /\ Totals(r)' \in Sums
                        /\ r # x => Totals(r)' = Totals(r)
                        /\ r = x => Totals(r)'.dollars = Totals(r).dollars + Price[new.model]
    BY <2>1, <2>2, TotalsGrow
  <2>4. \A r \in Runs : Totals(r)'.dollars \in Nat /\ Totals(r)'.dollars >= Totals(r).dollars
    BY <2>2, <2>3 DEF Sums
  <2>5. QED
    BY <2>1, <2>4, SpendFrame
<1>3. ASSUME reader'.op # "compliance" \/ reader'.got.row = Null PROVE SpendInv'
  BY <1>3 DEF SpendInv
<1>4. Idle.op = "export" /\ Idle.got.row = Null
  BY DEF Idle
<1>5. ASSUME NEW op, NEW r, Begin(op, r) PROVE SpendInv'
  <2>1. reader' = [Idle EXCEPT !.op = op, !.run = r, !.step = 1]
    BY <1>5 DEF Begin
  <2>2. Idle = [op |-> "export", run |-> Idle.run, step |-> 5, got |-> Idle.got]
    BY DEF Idle
  <2>3. reader'.got = Idle.got
    BY <2>1, <2>2
  <2>4. QED
    BY <1>3, <1>4, <2>3
<1>6. ASSUME ReadRun PROVE SpendInv'
  <2>1. reader.step = 1
    BY <1>6, ReaderTypes, Statements DEF ReadRun
  <2>2. CASE reader' = Idle
    BY <1>3, <1>4, <2>2
  <2>3. CASE row[reader.run] # Null /\ Got("row", RowRead(reader.run))
    <3>1. /\ reader' = [op |-> reader.op, run |-> reader.run, step |-> 2,
                        got |-> [reader.got EXCEPT !["row"] = RowRead(reader.run)]]
          /\ UNCHANGED <<now, metered, row, ledger, tools, approvals, gated, scraped>>
      BY <2>1, <2>3, ReaderTypes, GotFields
    <3>2. reader'.got.row = RowRead(reader.run) /\ reader'.step = 2 /\ reader'.run = reader.run
      BY <3>1, ReaderTypes DEF Results
    <3>3. PICK r \in Runs : r = reader.run
      BY ReaderTypes
    <3>4. Totals(reader.run)' = Totals(r)
      BY <3>1, <3>2, <3>3 DEF Totals, LedgerForRun
    <3>5. /\ row[r].usage \in Nat /\ metered[r] \in Nat /\ Totals(r).dollars \in Nat
          /\ row[r].usage <= metered[r]
      <4>1. row[r] \in RunRows /\ metered[r] \in Nat /\ row[r].usage <= metered[r]
        BY <2>3, <3>3 DEF IInv, TypeOK, StoreInv, MeterInv
      <4>2. Totals(r).dollars \in Nat
        BY ReaderTypes DEF Sums
      <4>3. QED
        BY <4>1, <4>2 DEF RunRows
    <3>6. reader'.got.row.usage = row[r].usage /\ reader'.got.row.owed = metered[r] - Totals(r).dollars
      BY <3>2, <3>3 DEF RowRead, Owed
    <3>7. reader'.got.row.usage <= Totals(r).dollars + reader'.got.row.owed
      BY <3>5, <3>6
    <3>8. QED
      BY <3>2, <3>4, <3>7 DEF SpendInv
  <2>4. QED
    BY <1>6, <2>2, <2>3 DEF ReadRun
<1>7. ASSUME ReadLedger PROVE SpendInv'
  <2>1. reader.step = 2
    BY <1>7, ReaderTypes, Statements DEF ReadLedger
  <2>2. reader' = [op |-> reader.op, run |-> reader.run, step |-> 3,
                   got |-> [reader.got EXCEPT !["ledger"] = LedgerForRun(reader.run)]]
    BY <1>7, <2>1, ReaderTypes, GotFields DEF ReadLedger
  <2>3. /\ reader'.got.ledger = LedgerForRun(reader.run) /\ reader'.got.row = reader.got.row
        /\ reader'.step = 3 /\ reader'.op = reader.op
    BY <2>2, ReaderTypes DEF Results
  <2>4. SumRows(reader'.got.ledger) = Totals(reader.run)
    BY <2>3 DEF Totals
  <2>5. QED
    BY <2>1, <2>3, <2>4 DEF SpendInv
<1>8. ASSUME ReadTotals \/ ReadTools \/ ReadApprovals PROVE SpendInv'
  <2>1. \E v : Got("totals", v) \/ Got("tools", v) \/ Got("approvals", v)
    BY <1>8, Zenon DEF ReadTotals, ReadTools, ReadApprovals
  <2>2. reader.op = "compliance" => reader.step > 2
    BY <1>8, ReaderTypes, Statements DEF ReadTotals, ReadTools, ReadApprovals
  <2>3. QED
    BY <2>1, <2>2, SpendKept
<1>9. ASSUME MetricsRuns \/ MetricsTotals \/ MetricsPending PROVE SpendInv'
  <2>1. reader.op = "metrics"
    BY <1>9, ReaderTypes, Statements DEF MetricsRuns, MetricsTotals, MetricsPending
  <2>2. reader'.op = reader.op
    BY <1>9, ReaderTypes DEF MetricsRuns, MetricsTotals, MetricsPending, Got
  <2>3. QED
    BY <1>3, <2>1, <2>2
<1>10. CASE Next
  <2>1. ASSUME Tick \/ (\E r \in Runs : UpsertRun(r))
               \/ (\E r \in Runs, model \in Models : RecordCall(r, model))
        PROVE  SpendInv'
    BY <1>1, <2>1 DEF Tick, UpsertRun, RecordCall
  <2>2. ASSUME NEW c \in Calls,
               CreateApproval(c) \/ (\E status \in {"approved", "denied"} : ResolveApproval(c, status))
                 \/ RecordToolCall(c)
        PROVE  SpendInv'
    BY <1>1, <2>2 DEF CreateApproval, ResolveApproval, RecordToolCall
  <2>3. QED
    BY <1>2, <1>5, <1>6, <1>7, <1>8, <1>9, <1>10, <2>1, <2>2, Zenon DEF Next
<1>11. CASE UNCHANGED vars
  BY <1>1, <1>11 DEF vars
<1>12. QED
  BY <1>10, <1>11

\* The dollars a compliance report prints are those of calls it lists, but for what
\* was metered and not entered when auditCompliance read the row: entries follow
\* metering, and the row is read before the entries.
THEOREM SpendIsListedHolds == Spec => []SpendIsListed
<1>1. Init => SpendInv
  BY DEF Init, Idle, SpendInv
<1>2. IInv /\ SpendInv /\ [Next]_vars => SpendInv'
  BY SpendOK
<1>3. IInv /\ SpendInv => SpendIsListed
  <2> SUFFICES ASSUME IInv, SpendInv, Printed("compliance")
               PROVE  reader.got.row.usage <= SumRows(reader.got.ledger).dollars + reader.got.row.owed
    BY DEF SpendIsListed
  <2>1. reader.op = "compliance" /\ reader.step = 6 /\ reader.got.row # Null
    BY ReaderTypes, Statements DEF Printed
  <2>2. QED
    BY <2>1 DEF SpendInv
<1>4. QED
  BY Invariant, <1>1, <1>2, <1>3, PTL DEF Spec

\* The figures of a printed report fit the entries it lists, for any number of runs,
\* calls and prices: entries only join the ledger, the row is read before them and
\* the totals after them.
THEOREM FiguresFitEntriesHolds == Spec => []FiguresFitEntries
<1>1. TotalsCoverEntries /\ SpendIsListed => FiguresFitEntries
  BY DEF FiguresFitEntries
<1>2. QED
  BY TotalsCoverEntriesHolds, SpendIsListedHolds, <1>1, PTL
=============================================================================

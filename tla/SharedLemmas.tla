---------------------------- MODULE SharedLemmas ----------------------------
(***************************************************************************)
(* Lemmas that the proofs of the components share: about the operators of  *)
(* Governor and RunRecords (what they return, and what they do to the      *)
(* usage, the halt reason and the persisted forms of a run), and about     *)
(* data: sequences that grow, folds over them, what is selected from them, *)
(* sums over finite sets.                                                  *)
(***************************************************************************)
EXTENDS RunRecords, Selections, FiniteSets, FiniteSetsExt, Functions, FiniteSetTheorems,
        SequenceTheorems, WellFoundedInduction, TLAPS

----------------------------------------------------------------------------
(* The operators of the governor and the persisted forms are closed.       *)

\* Every method of governor.Run leaves a well-formed run behind.
LEMMA GovernorTypes ==
    ASSUME NEW g \in LiveRuns, NEW k \in Charges
    PROVE  /\ PreStep(g) \in LiveRuns
           /\ CanProceed(g) \in LiveRuns
           /\ RecordUsage(g, k) \in LiveRuns
           /\ Cancel(g) \in LiveRuns
<1>1. \A h \in LiveRuns, r \in HaltReasons : HaltLocked(h, r) \in LiveRuns
  BY DEF HaltLocked, LiveRuns
<1>2. \A h \in LiveRuns : Breach(h) \in HaltReasons \cup {HaltNone}
  BY BudgetAssumption DEF Breach, HaltReasons
<1>3. \A h \in LiveRuns : CheckLocked(h) \in LiveRuns
  BY <1>1, <1>2 DEF CheckLocked
<1>4. PreStep(g) \in LiveRuns
  <2>1. [g EXCEPT !.loops = @ + 1] \in LiveRuns
    BY DEF LiveRuns
  <2>2. QED
    BY <1>1, <2>1 DEF PreStep, HaltReasons
<1>5. [g EXCEPT !.tokens = @ + k.tokens, !.dollars = @ + k.dollars] \in LiveRuns
  <2>1. k.tokens \in Nat /\ k.dollars \in Nat /\ g.tokens \in Nat /\ g.dollars \in Nat
    BY DEF LiveRuns, Charges
  <2>2. \A t, d \in Nat : [g EXCEPT !.tokens = t, !.dollars = d] \in LiveRuns
    BY DEF LiveRuns
  <2>3. g.tokens + k.tokens \in Nat /\ g.dollars + k.dollars \in Nat
    BY <2>1
  <2>4. QED
    BY <2>2, <2>3, Zenon
<1>6. QED
  BY <1>1, <1>3, <1>4, <1>5 DEF CanProceed, RecordUsage, Cancel, HaltReasons

\* What reloadRun and record produce is a run, a row or a checkpoint.
LEMMA PersistedTypes ==
    /\ NewRun \in LiveRuns
    /\ \A g \in LiveRuns : Record(g) \in Rows /\ Snapshot(g) \in Checkpoints
    /\ \A rec \in Rows : Reloaded(rec) \in LiveRuns
    /\ \A rec \in Rows, latest \in Checkpoints \cup {Nil} : Reconciled(rec, latest) \in Rows
<1>1. NewRun \in LiveRuns
  BY DEF NewRun, LiveRuns
<1>2. \A g \in LiveRuns : Record(g) \in Rows /\ Snapshot(g) \in Checkpoints
  BY DEF Record, Snapshot, StatusFor, LiveRuns, Rows, Checkpoints
<1>3. \A rec \in Rows : Reloaded(rec) \in LiveRuns
  BY DEF Reloaded, RestoredRun, NewRun, LiveRuns, Rows
<1>4. \A rec \in Rows, latest \in Checkpoints \cup {Nil} : Reconciled(rec, latest) \in Rows
  BY DEF Reconciled, Rows, Checkpoints
<1>5. QED
  BY <1>1, <1>2, <1>3, <1>4

----------------------------------------------------------------------------
(* What they do to the usage.                                              *)

SameUsage(u, v) == u.tokens = v.tokens /\ u.dollars = v.dollars /\ u.loops = v.loops

\* The halts, the clock, the persisted forms and the reload leave usage alone.
LEMMA UsageKept ==
    /\ \A g \in LiveRuns : /\ SameUsage(CanProceed(g), g)
                           /\ SameUsage(Cancel(g), g)
                           /\ SameUsage(Record(g), g)
                           /\ SameUsage(Snapshot(g), g)
    /\ \A rec \in Rows : SameUsage(Reloaded(rec), rec)
    /\ \A rec \in Rows, latest \in Checkpoints \cup {Nil} :
          SameUsage(Reconciled(rec, latest), rec)
            \/ (latest # Nil /\ SameUsage(Reconciled(rec, latest), latest))
<1>1. \A g \in LiveRuns, r \in HaltReasons : SameUsage(HaltLocked(g, r), g)
  BY DEF HaltLocked, LiveRuns, SameUsage
<1>2. \A g \in LiveRuns : Breach(g) # HaltNone => Breach(g) \in HaltReasons
  BY BudgetAssumption DEF Breach, HaltReasons
<1>3. \A g \in LiveRuns : SameUsage(CanProceed(g), g) /\ SameUsage(Cancel(g), g)
  BY <1>1, <1>2 DEF CanProceed, CheckLocked, Cancel, HaltReasons, SameUsage
<1>4. \A g \in LiveRuns : SameUsage(Record(g), g) /\ SameUsage(Snapshot(g), g)
  BY DEF Record, Snapshot, SameUsage, LiveRuns
<1>5. \A rec \in Rows : SameUsage(Reloaded(rec), rec)
  BY DEF Reloaded, RestoredRun, NewRun, SameUsage, Rows
<1>6. \A rec \in Rows, latest \in Checkpoints \cup {Nil} :
        SameUsage(Reconciled(rec, latest), rec)
          \/ (latest # Nil /\ SameUsage(Reconciled(rec, latest), latest))
  BY DEF Reconciled, SameUsage, Rows, Checkpoints
<1>7. QED
  BY <1>3, <1>4, <1>5, <1>6

\* PreStep counts an iteration or halts, RecordUsage adds the cost of a call.
LEMMA UsageCounted ==
    ASSUME NEW g \in LiveRuns, NEW k \in Charges
    PROVE  /\ PreStep(g).tokens = g.tokens /\ PreStep(g).dollars = g.dollars
           /\ PreStep(g).loops = IF PreStep(g).halted = HaltNone THEN g.loops + 1 ELSE g.loops
           /\ RecordUsage(g, k).tokens = g.tokens + k.tokens
           /\ RecordUsage(g, k).dollars = g.dollars + k.dollars
           /\ RecordUsage(g, k).loops = g.loops
<1>1. \A h \in LiveRuns, r \in HaltReasons : SameUsage(HaltLocked(h, r), h)
  BY DEF HaltLocked, LiveRuns, SameUsage
<1>2. \A r \in HaltReasons : HaltLocked(g, r).halted # HaltNone
  BY DEF HaltLocked, LiveRuns, HaltReasons, HaltNone, HaltTokenBudget, HaltDollarBudget,
         HaltLoopBudget, HaltTimeBudget, HaltCancelled
<1>3. /\ PreStep(g).tokens = g.tokens /\ PreStep(g).dollars = g.dollars
      /\ PreStep(g).loops = IF PreStep(g).halted = HaltNone THEN g.loops + 1 ELSE g.loops
  <2>1. CASE \E r \in HaltReasons : PreStep(g) = HaltLocked(g, r)
    BY <1>1, <1>2, <2>1 DEF SameUsage
  <2>2. CASE PreStep(g) = g /\ g.halted # HaltNone
    BY <2>2
  <2>3. CASE PreStep(g) = [g EXCEPT !.loops = @ + 1] /\ g.halted = HaltNone
    BY <2>3 DEF LiveRuns
  <2>4. QED
    BY <2>1, <2>2, <2>3 DEF PreStep, HaltReasons
<1>4. \A t, d \in Nat : /\ [g EXCEPT !.tokens = t, !.dollars = d] \in LiveRuns
                        /\ [g EXCEPT !.tokens = t, !.dollars = d].tokens = t
                        /\ [g EXCEPT !.tokens = t, !.dollars = d].dollars = d
                        /\ [g EXCEPT !.tokens = t, !.dollars = d].loops = g.loops
  BY DEF LiveRuns
<1>5. g.tokens + k.tokens \in Nat /\ g.dollars + k.dollars \in Nat
  BY DEF LiveRuns, Charges
<1> DEFINE h == [g EXCEPT !.tokens = @ + k.tokens, !.dollars = @ + k.dollars]
<1>6. RecordUsage(g, k) = CanProceed(h)
  BY DEF RecordUsage, CanProceed
<1>7. /\ h \in LiveRuns /\ h.loops = g.loops
      /\ h.tokens = g.tokens + k.tokens /\ h.dollars = g.dollars + k.dollars
  BY <1>4, <1>5, Zenon
<1> HIDE DEF h
<1>8. QED
  BY <1>3, <1>6, <1>7, UsageKept DEF SameUsage

\* A row is terminal exactly when the run it is written from is halted.
LEMMA StatusOfRecord ==
    \A g \in LiveRuns : /\ Terminal(Record(g)) <=> g.halted # HaltNone
                        /\ Record(g).halted = g.halted
BY DEF Terminal, Record, StatusFor, LiveRuns, HaltReasons, HaltNone

----------------------------------------------------------------------------
(* Halts and budgets.                                                      *)

\* The governor's methods keep the Context of a halted run cancelled, and leave the
\* run alone but for the usage of calls already made.
LEMMA HaltLemma ==
    ASSUME NEW g \in LiveRuns, NEW k \in Charges, g.halted # HaltNone => g.ctxDone,
           NEW h, \/ h \in {PreStep(g), CanProceed(g), Cancel(g), RecordUsage(g, k)}
                  \/ h \in {[g EXCEPT !.elapsed = @ + 1], [g EXCEPT !.ctxDone = TRUE]}
    PROVE  /\ h.halted # HaltNone => h.ctxDone
           /\ g.halted # HaltNone => h.halted = g.halted /\ h.loops = g.loops /\ h.ctxDone
<1>1. \A x \in LiveRuns, r \in HaltReasons :
        (x.halted # HaltNone => x.ctxDone) =>
           /\ HaltLocked(x, r).halted # HaltNone => HaltLocked(x, r).ctxDone
           /\ x.halted # HaltNone => HaltLocked(x, r) = x
  BY DEF HaltLocked, LiveRuns
<1>2. \A x \in LiveRuns : Breach(x) # HaltNone => Breach(x) \in HaltReasons
  BY BudgetAssumption DEF Breach, HaltReasons
<1>3. \A x \in LiveRuns :
        (x.halted # HaltNone => x.ctxDone) =>
           /\ CheckLocked(x).halted # HaltNone => CheckLocked(x).ctxDone
           /\ x.halted # HaltNone => CheckLocked(x) = x
  BY <1>1, <1>2 DEF CheckLocked
<1>4. CASE h \in {CanProceed(g), Cancel(g)}
  BY <1>1, <1>3, <1>4 DEF CanProceed, Cancel, HaltReasons
<1>5. CASE h = PreStep(g)
  <2>1. CASE h = g \/ \E r \in HaltReasons : h = HaltLocked(g, r)
    BY <1>1, <2>1
  <2>2. CASE g.halted = HaltNone /\ h = [g EXCEPT !.loops = @ + 1]
    BY <2>2 DEF LiveRuns
  <2>3. QED
    BY <1>5, <2>1, <2>2 DEF PreStep, HaltReasons
<1>6. CASE h = RecordUsage(g, k)
  <2>1. \A t, d \in Nat : [g EXCEPT !.tokens = t, !.dollars = d] \in LiveRuns
    BY DEF LiveRuns
  <2>2. g.tokens + k.tokens \in Nat /\ g.dollars + k.dollars \in Nat
    BY DEF LiveRuns, Charges
  <2>3. PICK x \in LiveRuns :
          /\ h = CheckLocked(x)
          /\ x = [g EXCEPT !.tokens = @ + k.tokens, !.dollars = @ + k.dollars]
    BY <1>6, <2>1, <2>2, Zenon DEF RecordUsage
  <2>4. x.halted = g.halted /\ x.ctxDone = g.ctxDone /\ x.loops = g.loops
    BY <2>3 DEF LiveRuns
  <2>5. QED
    BY <1>3, <2>3, <2>4
<1>7. CASE h \in {[g EXCEPT !.elapsed = @ + 1], [g EXCEPT !.ctxDone = TRUE]}
  BY <1>7 DEF LiveRuns
<1>8. QED
  BY <1>4, <1>5, <1>6, <1>7

\* A run the ceiling lets through is under its budgets.
LEMMA UnderBudget ==
    ASSUME NEW g \in LiveRuns, CanProceed(g).halted = HaltNone
    PROVE  /\ CanProceed(g) = g
           /\ Budget.dollars > 0 => g.dollars < Budget.dollars
           /\ Budget.tokens > 0 => g.tokens < Budget.tokens
<1>1. \A r \in HaltReasons : HaltLocked(g, r).halted # HaltNone
  BY DEF HaltLocked, LiveRuns, HaltReasons, HaltNone, HaltTokenBudget, HaltDollarBudget,
         HaltLoopBudget, HaltTimeBudget, HaltCancelled
<1>2. Breach(g) # HaltNone => Breach(g) \in HaltReasons
  BY BudgetAssumption DEF Breach, HaltReasons
<1>3. g.halted = HaltNone /\ Breach(g) = HaltNone
  BY <1>1, <1>2 DEF CanProceed, CheckLocked
<1>4. /\ ~(Budget.dollars > 0 /\ g.dollars >= Budget.dollars)
      /\ ~(Budget.tokens > 0 /\ g.tokens >= Budget.tokens)
  BY <1>3 DEF Breach, HaltNone, HaltTokenBudget, HaltDollarBudget, HaltTimeBudget
<1>5. QED
  BY <1>3, <1>4, BudgetAssumption DEF CanProceed, CheckLocked, LiveRuns

----------------------------------------------------------------------------
(* Sequences that grow, and folds over them.  The induction is over a set  *)
(* of positions, so that no operator parameter is needed.                  *)

\* s is a sequence, whatever its elements are.
IsLog(s) == s \in Seq({s[i] : i \in DOMAIN s})

\* One more element.
LEMMA AppendToLog ==
    ASSUME NEW s, IsLog(s), NEW e
    PROVE  /\ IsLog(Append(s, e)) /\ Len(Append(s, e)) = Len(s) + 1
           /\ \A i \in DOMAIN Append(s, e) :
                 \/ i \in DOMAIN s /\ Append(s, e)[i] = s[i]
                 \/ Append(s, e)[i] = e
<1> DEFINE S == {s[i] : i \in DOMAIN s} \cup {e}
           t == Append(s, e)
<1>1. s \in Seq(S)
  BY DEF IsLog
<1>2. e \in S
  OBVIOUS
<1>3. /\ t \in Seq(S) /\ Len(t) = Len(s) + 1 /\ DOMAIN t = 1..Len(t) /\ DOMAIN s = 1..Len(s)
      /\ Len(s) \in Nat /\ \A i \in DOMAIN t : t[i] = IF i <= Len(s) THEN s[i] ELSE e
  <2> HIDE DEF S
  <2> QED BY <1>1, <1>2
<1> HIDE DEF t, S
<1>4. t \in Seq({t[i] : i \in DOMAIN t})
  <2> DEFINE R == {t[i] : i \in DOMAIN t}
  <2>1. \A i \in 1..Len(t) : t[i] \in R
    BY <1>3
  <2>2. Len(t) \in Nat /\ t = [i \in 1..Len(t) |-> t[i]]
    BY <1>3
  <2> HIDE DEF R
  <2>3. [i \in 1..Len(t) |-> t[i]] \in Seq(R)
    BY <2>1, <2>2
  <2> QED BY <2>2, <2>3 DEF R
<1>5. \A i \in DOMAIN t : i \in DOMAIN s \/ i > Len(s)
  BY <1>3
<1>6. QED
  BY <1>3, <1>4, <1>5 DEF IsLog, t

\* A set of natural numbers that is not empty has a least element.
LEMMA LeastNumber ==
    ASSUME NEW S, S \subseteq Nat, S # {}
    PROVE  \E m \in S : \A k \in S : m <= k
<1> DEFINE R == OpToRel(<, Nat)
<1>1. IsWellFoundedOn(R, Nat)
  BY NatLessThanWellFounded
<1>2. \A x, y \in Nat : <<x, y>> \in R <=> x < y
  BY DEF OpToRel
<1> HIDE DEF R
<1>3. PICK m \in S : \A k \in S : <<k, m>> \notin R
  BY <1>1, WFMin
<1>4. ASSUME NEW k \in S PROVE m <= k
  <2>1. k \in Nat /\ m \in Nat
    OBVIOUS
  <2>2. ~(k < m)
    BY <1>2, <1>3, <2>1
  <2>3. QED
    BY <2>1, <2>2
<1>5. QED
  BY <1>4

\* Counting up to n: a set that holds 0, and every number that follows one of its
\* own, holds them all.
LEMMA CountUp ==
    ASSUME NEW n \in Nat, NEW G, 0 \in G, \A k \in 1..n : k - 1 \in G => k \in G
    PROVE  \A k \in 0..n : k \in G
<1> SUFFICES ASSUME NEW b \in 0..n, b \notin G PROVE FALSE
  OBVIOUS
<1> DEFINE Bad == {k \in 0..n : k \notin G}
<1>1. Bad \subseteq Nat /\ Bad # {}
  OBVIOUS
<1>2. PICK k \in Bad : \A i \in Bad : k <= i
  <2> HIDE DEF Bad
  <2> QED BY <1>1, LeastNumber
<1>3. k \in 1..n /\ k \notin G
  OBVIOUS
<1>4. k - 1 \in 0..n /\ k - 1 \notin Bad
  BY <1>2, <1>3
<1>5. QED
  BY <1>3, <1>4

\* Max is the maximum of a set of positions.
LEMMA MaxOfPositions ==
    ASSUME NEW n \in Nat, NEW T \in SUBSET (1..n), T # {}
    PROVE  Max(T) \in T /\ \A y \in T : Max(T) >= y
<1> DEFINE S == {n - t : t \in T}
<1>1. S \subseteq Nat /\ S # {}
  <2>1. \A t \in T : t \in Nat /\ t <= n /\ n - t \in Nat
    OBVIOUS
  <2>2. PICK t \in T : TRUE
    OBVIOUS
  <2>3. n - t \in S
    OBVIOUS
  <2>4. QED
    BY <2>1, <2>3
<1>2. PICK d \in S : \A k \in S : d <= k
  <2> HIDE DEF S
  <2> QED BY <1>1, LeastNumber
<1>3. PICK x \in T : d = n - x
  OBVIOUS
<1>4. \A y \in T : x >= y
  <2> TAKE y \in T
  <2>1. n - y \in S
    OBVIOUS
  <2> QED BY <1>2, <1>3, <2>1
<1>5. \E z \in T : \A y \in T : z >= y
  BY <1>4
<1>6. QED
  BY <1>5 DEF Max

\* The first k positions.
LEMMA MaxOfPrefix ==
    ASSUME NEW n \in Nat, NEW k \in 1..n
    PROVE  /\ 1..k \in SUBSET (1..n) /\ 1..k # {} /\ (1..k) \ {k} = 1..(k - 1)
           /\ Max(1..k) = k
<1>1. 1..k \in SUBSET (1..n) /\ 1..k # {} /\ k \in 1..k /\ (1..k) \ {k} = 1..(k - 1)
  OBVIOUS
<1>2. Max(1..k) \in 1..k /\ Max(1..k) >= k
  BY <1>1, MaxOfPositions
<1>3. Max(1..k) = k
  BY <1>2
<1>4. QED
  BY <1>1, <1>3

\* h does what FoldLeft does on every set of positions of a sequence of length n:
\* f combines the last position with the result for the others.
IsFold(h, n, A, base, f) ==
    /\ h \in [SUBSET (1..n) -> A] /\ h[{}] = base
    /\ \A T \in SUBSET (1..n) : T # {} => h[T] = f[<<Max(T), h[T \ {Max(T)}]>>]

\* Such a function exists.
LEMMA FoldExists ==
    ASSUME NEW n \in Nat, NEW A, NEW base \in A, NEW f \in [(1..n) \X A -> A]
    PROVE  \E h : IsFold(h, n, A, base, f)
<1> DEFINE Good == {k \in 0..n : \E h : IsFold(h, k, A, base, f)}
<1>1. 0 \in Good
  <2> DEFINE h == [T \in SUBSET (1..0) |-> base]
  <2>1. \A T \in SUBSET (1..0) : T = {}
    OBVIOUS
  <2>2. IsFold(h, 0, A, base, f)
    BY <2>1 DEF IsFold
  <2> HIDE DEF h
  <2>3. QED
    BY <2>2
<1>2. ASSUME NEW k \in 0..n, k # 0, k - 1 \in Good PROVE k \in Good
  <2>1. PICK h : IsFold(h, k - 1, A, base, f)
    BY <1>2
  <2>2. /\ h \in [SUBSET (1..(k - 1)) -> A] /\ h[{}] = base
        /\ \A T \in SUBSET (1..(k - 1)) : T # {} => h[T] = f[<<Max(T), h[T \ {Max(T)}]>>]
    BY <2>1 DEF IsFold
  <2>3. k \in Nat /\ k - 1 \in Nat /\ k \in 1..n
    BY <1>2
  <2> DEFINE j == [T \in SUBSET (1..k) |-> IF k \in T THEN f[<<k, h[T \ {k}]>>] ELSE h[T]]
  <2>4. \A T \in SUBSET (1..k) : T \ {k} \in SUBSET (1..(k - 1)) /\ (k \notin T => T \in SUBSET (1..(k - 1)))
    BY <2>3
  <2>5. j \in [SUBSET (1..k) -> A]
    <3>1. ASSUME NEW T \in SUBSET (1..k) PROVE (IF k \in T THEN f[<<k, h[T \ {k}]>>] ELSE h[T]) \in A
      <4>1. h[T \ {k}] \in A /\ (k \notin T => h[T] \in A)
        BY <2>2, <2>4
      <4>2. f[<<k, h[T \ {k}]>>] \in A
        BY <2>3, <4>1
      <4>3. QED
        BY <4>1, <4>2
    <3>2. QED
      BY <3>1
  <2>6. ASSUME NEW T \in SUBSET (1..k), k \in T
        PROVE  j[T] = f[<<Max(T), j[T \ {Max(T)}]>>]
    <3>1. Max(T) = k
      <4>1. Max(T) \in T /\ Max(T) >= k
        BY <2>3, <2>6, MaxOfPositions
      <4>2. Max(T) \in 1..k
        BY <4>1
      <4>3. QED
        BY <2>3, <4>1, <4>2
    <3>2. T \ {k} \in SUBSET (1..k) /\ k \notin T \ {k}
      OBVIOUS
    <3>3. j[T \ {k}] = h[T \ {k}] /\ j[T] = f[<<k, h[T \ {k}]>>]
      BY <2>6, <3>2
    <3> HIDE DEF j
    <3>4. QED
      BY <3>1, <3>3
  <2>7. ASSUME NEW T \in SUBSET (1..k), k \notin T, T # {}
        PROVE  j[T] = f[<<Max(T), j[T \ {Max(T)}]>>]
    <3>1. T \in SUBSET (1..(k - 1))
      BY <2>4, <2>7
    <3>2. T \ {Max(T)} \in SUBSET (1..k) /\ k \notin T \ {Max(T)}
      BY <2>7
    <3>3. j[T] = h[T] /\ j[T \ {Max(T)}] = h[T \ {Max(T)}]
      BY <2>7, <3>2
    <3>4. h[T] = f[<<Max(T), h[T \ {Max(T)}]>>]
      BY <2>2, <2>7, <3>1
    <3> HIDE DEF j
    <3>5. QED
      BY <3>3, <3>4
  <2>8. j[{}] = base
    BY <2>2
  <2> HIDE DEF j
  <2>9. IsFold(j, k, A, base, f)
    BY <2>5, <2>6, <2>7, <2>8 DEF IsFold
  <2>10. QED
    BY <2>9
<1>3. \A k \in 0..n : k \in Good
  <2>1. \A k \in 1..n : k \in 0..n /\ k # 0
    OBVIOUS
  <2> HIDE DEF Good
  <2>2. QED
    BY <1>1, <1>2, <2>1, CountUp
<1>4. QED
  BY <1>3

\* g runs through the n positions one after the other and ends with r.
IsLoop(g, n, A, base, f, r) ==
    /\ g \in [0..n -> A] /\ g[0] = base /\ g[n] = r
    /\ \A k \in 1..n : g[k] = f[<<k, g[k - 1]>>]

\* What a fold over sets of positions computes for all n of them is what a loop
\* computes.
LEMMA LoopOfFold ==
    ASSUME NEW n \in Nat, NEW A, NEW base \in A, NEW f \in [(1..n) \X A -> A],
           NEW iter, iter[{}] = base,
           \A T \in SUBSET (1..n) : (T # {} /\ iter[T \ {Max(T)}] \in A) =>
               iter[T] = f[<<Max(T), iter[T \ {Max(T)}]>>]
    PROVE  \E g : IsLoop(g, n, A, base, f, iter[1..n])
<1> DEFINE G == {k \in 0..n : iter[1..k] \in A}
           g == [k \in 0..n |-> iter[1..k]]
<1>1. iter[1..0] = base
  <2>1. 1..0 = {}
    OBVIOUS
  <2>2. QED
    BY <2>1
<1>2. ASSUME NEW k \in 1..n, k - 1 \in G
      PROVE  iter[1..k] = f[<<k, iter[1..(k - 1)]>>] /\ k \in G
  <2>1. /\ 1..k \in SUBSET (1..n) /\ 1..k # {} /\ (1..k) \ {k} = 1..(k - 1)
        /\ Max(1..k) = k
    BY MaxOfPrefix
  <2>2. iter[1..(k - 1)] \in A
    BY <1>2
  <2>3. iter[1..k] = f[<<k, iter[1..(k - 1)]>>]
    BY <2>1, <2>2
  <2>4. f[<<k, iter[1..(k - 1)]>>] \in A
    BY <2>2
  <2>5. k \in 0..n
    OBVIOUS
  <2>6. QED
    BY <2>3, <2>4, <2>5
<1>3. 0 \in G
  BY <1>1
<1>4. \A k \in 0..n : k \in G
  <2> HIDE DEF G
  <2> QED BY <1>2, <1>3, CountUp
<1>5. \A k \in 1..n : k \in 0..n /\ k - 1 \in 0..n
  OBVIOUS
<1>6. g \in [0..n -> A]
  BY <1>4
<1>7. \A k \in 1..n : g[k] = f[<<k, g[k - 1]>>]
  BY <1>2, <1>4, <1>5
<1>8. g[0] = base /\ g[n] = iter[1..n]
  BY <1>1
<1> HIDE DEF g
<1>9. IsLoop(g, n, A, base, f, iter[1..n])
  BY <1>6, <1>7, <1>8 DEF IsLoop
<1>10. QED
  BY <1>9

----------------------------------------------------------------------------
(* Sums over finite sets: what SumFunction of the community module         *)
(* Functions returns when a function is zero, when it changes in one       *)
(* place, and when its values are bounded.  The induction they need is     *)
(* stated over a set of subsets, so that it can be used without an         *)
(* operator parameter.                                                     *)

\* A family of subsets of a finite set has a smallest member, one that contains
\* no other.
LEMMA MinimalSubset ==
    ASSUME NEW S, IsFiniteSet(S), NEW F, F \subseteq SUBSET S, F # {}
    PROVE  \E M \in F : \A N \in F : N \subseteq M => N = M
<1>1. IsWellFoundedOn(StrictSubsetOrdering(S), SUBSET S)
    BY FS_StrictSubsetOrderingWellFounded, FS_FiniteSubsetsOfFinite
<1>2. PICK M \in F : \A N \in F : <<N, M>> \notin StrictSubsetOrdering(S)
    BY <1>1, WFMin
<1>3. ASSUME NEW N \in F, N \subseteq M, N # M PROVE FALSE
    <2>1. <<N, M>> \in (SUBSET S) \X (SUBSET S)
        OBVIOUS
    <2>2. <<N, M>> \in StrictSubsetOrdering(S)
        BY <1>3, <2>1 DEF StrictSubsetOrdering
    <2> QED BY <1>2, <2>2
<1> QED BY <1>3

\* Induction over the subsets of a finite set: a family of subsets that has the
\* empty one, and with a subset also that subset with one more element, has all.
LEMMA FiniteInduction ==
    ASSUME NEW S, IsFiniteSet(S), NEW G,
           {} \in G,
           \A T \in SUBSET S : \A x \in S : T \in G /\ x \notin T => T \cup {x} \in G
    PROVE  \A T \in SUBSET S : T \in G
<1> DEFINE Bad == {T \in SUBSET S : T \notin G}
<1> SUFFICES ASSUME Bad # {} PROVE FALSE
    OBVIOUS
<1>1. PICK M \in Bad : \A N \in Bad : N \subseteq M => N = M
    <2>1. Bad \subseteq SUBSET S
        OBVIOUS
    <2> HIDE DEF Bad
    <2> QED BY <2>1, MinimalSubset
<1>2. PICK x \in M : TRUE
    OBVIOUS
<1>3. M \ {x} \in SUBSET S /\ M \ {x} # M /\ x \notin M \ {x} /\ (M \ {x}) \cup {x} = M
    OBVIOUS
<1>4. M \ {x} \in G
    BY <1>1, <1>3
<1> QED BY <1>3, <1>4

\* s gives every part of S the sum of f over it.
IsSum(s, f, S) ==
    /\ s \in [SUBSET S -> Nat]
    /\ s[{}] = 0
    /\ \A T \in SUBSET S : \A x \in S \ T : s[T \cup {x}] = s[T] + f[x]

\* Taking an element out of a part takes its value out of the sum.
LEMMA SumWithout ==
    ASSUME NEW S, NEW f \in [S -> Nat], NEW s, IsSum(s, f, S),
           NEW T \in SUBSET S, NEW x \in T
    PROVE  s[T] = s[T \ {x}] + f[x] /\ s[T \ {x}] \in Nat
<1>1. T \ {x} \in SUBSET S /\ x \in S \ (T \ {x}) /\ (T \ {x}) \cup {x} = T
    OBVIOUS
<1> QED BY <1>1 DEF IsSum

\* What SumFunction computes, one arbitrary element at a time, is that sum.
LEMMA SumIsFold ==
    ASSUME NEW S, IsFiniteSet(S), NEW f \in [S -> Nat], NEW s, IsSum(s, f, S)
    PROVE  SumFunction(f) = s[S]
<1> DEFINE Some(T) == CHOOSE x \in T : TRUE
           Step(h) == [T \in SUBSET S |-> IF T = {} THEN 0 ELSE f[Some(T)] + h[T \ {Some(T)}]]
           iter == CHOOSE h : h = Step(h)
<1>1. SumFunction(f) = iter[S]
    BY DEF SumFunction, SumFunctionOnSet, FoldFunctionOnSet, MapThenFoldSet
<1>2. \A T \in SUBSET S : T # {} => Some(T) \in T
    OBVIOUS
<1> HIDE DEF Some
<1>3. s = Step(s)
    <2>1. s \in [SUBSET S -> Nat] /\ s[{}] = 0
        BY DEF IsSum
    <2>2. ASSUME NEW T \in SUBSET S, T # {}
          PROVE  s[T] = f[Some(T)] + s[T \ {Some(T)}]
        <3>1. Some(T) \in T /\ f[Some(T)] \in Nat
            BY <1>2, <2>2
        <3>2. s[T] = s[T \ {Some(T)}] + f[Some(T)] /\ s[T \ {Some(T)}] \in Nat
            BY <3>1, SumWithout
        <3> QED BY <3>1, <3>2
    <2> QED BY <2>1, <2>2
<1>4. iter = Step(iter)
    <2> HIDE DEF Step
    <2> QED BY <1>3
<1> HIDE DEF iter
<1> DEFINE Bad == {T \in SUBSET S : iter[T] # s[T]}
<1>5. Bad = {}
    <2> SUFFICES ASSUME Bad # {} PROVE FALSE
        OBVIOUS
    <2>1. PICK M \in Bad : \A N \in Bad : N \subseteq M => N = M
        <3>1. Bad \subseteq SUBSET S
            OBVIOUS
        <3> HIDE DEF Bad
        <3> QED BY <3>1, MinimalSubset
    <2>2. M \in SUBSET S /\ iter[M] # s[M]
        OBVIOUS
    <2>3. CASE M = {}
        BY <1>4, <2>2, <2>3 DEF IsSum
    <2>4. CASE M # {}
        <3>1. Some(M) \in M
            BY <1>2, <2>2, <2>4
        <3>2. iter[M \ {Some(M)}] = s[M \ {Some(M)}]
            BY <2>1, <2>2, <3>1
        <3>3. iter[M] = f[Some(M)] + iter[M \ {Some(M)}]
            BY <1>4, <2>2, <2>4
        <3>4. s[M] = f[Some(M)] + s[M \ {Some(M)}]
            BY <1>3, <2>2, <2>4
        <3> QED BY <2>2, <3>2, <3>3, <3>4
    <2> QED BY <2>3, <2>4
<1> QED BY <1>1, <1>5

\* f and g differ at most at x.
DifferAt(f, g, x) == \A y \in DOMAIN f : y # x => g[y] = f[y]

\* Changing f at one element changes its sum by the difference.
LEMMA SumChanged ==
    ASSUME NEW S, NEW f \in [S -> Nat], NEW g \in [S -> Nat], NEW s, IsSum(s, f, S),
           NEW x \in S, DifferAt(f, g, x)
    PROVE  \E t : IsSum(t, g, S) /\ t[S] = s[S] - f[x] + g[x]
<1> DEFINE t == [T \in SUBSET S |-> IF x \in T THEN s[T \ {x}] + g[x] ELSE s[T]]
<1>1. \A T \in SUBSET S : s[T] \in Nat /\ s[T \ {x}] \in Nat
    BY DEF IsSum
<1>2. t \in [SUBSET S -> Nat] /\ t[{}] = 0
    BY <1>1 DEF IsSum
<1> \A y \in S : y # x => g[y] = f[y]
    BY DEF DifferAt
<1>3. ASSUME NEW T \in SUBSET S, NEW y \in S \ T
      PROVE  t[T \cup {y}] = t[T] + g[y]
    <2>1. T \cup {y} \in SUBSET S
        OBVIOUS
    <2>2. CASE y = x
        <3>1. (T \cup {y}) \ {x} = T /\ x \in T \cup {y} /\ x \notin T
            BY <2>2
        <3> QED BY <2>1, <2>2, <3>1
    <2>3. CASE y # x /\ x \in T
        <3>1. (T \cup {y}) \ {x} = (T \ {x}) \cup {y} /\ y \in S \ (T \ {x}) /\ T \ {x} \in SUBSET S
            BY <2>3
        <3>2. s[(T \ {x}) \cup {y}] = s[T \ {x}] + f[y]
            BY <3>1 DEF IsSum
        <3>3. t[T \cup {y}] = s[T \ {x}] + f[y] + g[x]
            BY <2>1, <2>3, <3>1, <3>2
        <3>4. t[T] = s[T \ {x}] + g[x] /\ g[y] = f[y]
            BY <2>3
        <3>5. f[y] \in Nat /\ g[x] \in Nat /\ s[T \ {x}] \in Nat
            BY <1>1
        <3> HIDE DEF t
        <3> QED BY <3>3, <3>4, <3>5
    <2>4. CASE y # x /\ x \notin T
        <3>1. x \notin T \cup {y}
            BY <2>4
        <3>2. s[T \cup {y}] = s[T] + f[y] /\ g[y] = f[y]
            BY <2>4 DEF IsSum
        <3> QED BY <2>1, <2>4, <3>1, <3>2
    <2> QED BY <2>2, <2>3, <2>4
<1>4. t[S] = s[S] - f[x] + g[x]
    <2>1. s[S] = s[S \ {x}] + f[x] /\ s[S \ {x}] \in Nat
        BY SumWithout
    <2>2. t[S] = s[S \ {x}] + g[x]
        OBVIOUS
    <2>3. f[x] \in Nat /\ g[x] \in Nat
        OBVIOUS
    <2> HIDE DEF t
    <2> QED BY <2>1, <2>2, <2>3
<1>5. IsSum(t, g, S)
    BY <1>2, <1>3 DEF IsSum
<1> HIDE DEF t
<1> QED BY <1>4, <1>5

\* Every function with natural values on a finite set has a sum.
LEMMA SumExists ==
    ASSUME NEW S, IsFiniteSet(S), NEW f \in [S -> Nat]
    PROVE  \E s : IsSum(s, f, S)
<1> DEFINE Cut(T) == [x \in S |-> IF x \in T THEN f[x] ELSE 0]
           G == {T \in SUBSET S : \E s : IsSum(s, Cut(T), S)}
<1>1. {} \in G
    <2> DEFINE z == [T \in SUBSET S |-> 0]
    <2>1. IsSum(z, Cut({}), S)
        BY DEF IsSum
    <2> HIDE DEF Cut, z
    <2> QED BY <2>1
<1>2. ASSUME NEW T \in SUBSET S, NEW x \in S, T \in G, x \notin T
      PROVE  T \cup {x} \in G
    <2>1. PICK s : IsSum(s, Cut(T), S)
        BY <1>2
    <2>2. Cut(T) \in [S -> Nat] /\ Cut(T \cup {x}) \in [S -> Nat]
        OBVIOUS
    <2>3. DifferAt(Cut(T), Cut(T \cup {x}), x)
        BY DEF DifferAt
    <2> HIDE DEF Cut
    <2>4. \E t : IsSum(t, Cut(T \cup {x}), S)
        BY <2>1, <2>2, <2>3, SumChanged
    <2> QED BY <2>4
<1>3. S \in G
    <2> HIDE DEF G
    <2> QED BY <1>1, <1>2, FiniteInduction
<1>4. Cut(S) = f
    OBVIOUS
<1> HIDE DEF Cut
<1> QED BY <1>3, <1>4

----------------------------------------------------------------------------
\* The sum of natural numbers is one.
LEMMA SumType ==
    ASSUME NEW S, IsFiniteSet(S), NEW f \in [S -> Nat]
    PROVE  SumFunction(f) \in Nat
<1>1. PICK s : IsSum(s, f, S)
    BY SumExists
<1>2. s[S] \in Nat
    BY <1>1 DEF IsSum
<1> QED BY <1>1, <1>2, SumIsFold

\* A change of one summand changes the sum by as much.
LEMMA SumOfChanged ==
    ASSUME NEW S, IsFiniteSet(S), NEW f \in [S -> Nat], NEW g \in [S -> Nat],
           NEW x \in S, DifferAt(f, g, x)
    PROVE  SumFunction(g) = SumFunction(f) - f[x] + g[x]
<1>1. PICK s : IsSum(s, f, S)
    BY SumExists
<1>2. PICK t : IsSum(t, g, S) /\ t[S] = s[S] - f[x] + g[x]
    BY <1>1, SumChanged
<1> QED BY <1>1, <1>2, SumIsFold

\* A sum whose summands are at most M, and zero outside Z, is at most M for each
\* element of Z.
LEMMA SumBounded ==
    ASSUME NEW S, IsFiniteSet(S), NEW f \in [S -> Nat], NEW M \in Nat, NEW Z \in SUBSET S,
           \A x \in Z : f[x] <= M, \A x \in S \ Z : f[x] = 0
    PROVE  SumFunction(f) <= M * Cardinality(Z)
<1>1. PICK s : IsSum(s, f, S)
    BY SumExists
<1> DEFINE G == {T \in SUBSET S : s[T] <= M * Cardinality(T \cap Z)}
<1>2. {} \in G
    <2>1. {} \cap Z = {} /\ Cardinality({}) = 0
        BY FS_EmptySet
    <2>2. s[{}] = 0 /\ {} \in SUBSET S
        BY <1>1 DEF IsSum
    <2> QED BY <2>1, <2>2
<1>3. ASSUME NEW T \in SUBSET S, NEW x \in S, T \in G, x \notin T
      PROVE  T \cup {x} \in G
    <2>1. s[T \cup {x}] = s[T] + f[x] /\ s[T] \in Nat /\ f[x] \in Nat
        BY <1>1, <1>3 DEF IsSum
    <2>2. IsFiniteSet(T \cap Z) /\ Cardinality(T \cap Z) \in Nat
        BY FS_Subset, FS_CardinalityType
    <2>3. CASE x \in Z
        <3>1. (T \cup {x}) \cap Z = (T \cap Z) \cup {x} /\ x \notin T \cap Z
            BY <1>3, <2>3
        <3>2. Cardinality((T \cup {x}) \cap Z) = Cardinality(T \cap Z) + 1
            BY <2>2, <3>1, FS_AddElement
        <3>3. M * (Cardinality(T \cap Z) + 1) = M * Cardinality(T \cap Z) + M
            BY <2>2
        <3> QED BY <1>3, <2>1, <2>3, <3>2, <3>3, <2>2
    <2>4. CASE x \notin Z
        <3>1. (T \cup {x}) \cap Z = T \cap Z /\ f[x] = 0
            BY <2>4
        <3>2. s[T \cup {x}] = s[T]
            BY <2>1, <3>1
        <3>3. T \cup {x} \in SUBSET S
            OBVIOUS
        <3> QED BY <1>3, <3>1, <3>2, <3>3
    <2> QED BY <2>3, <2>4
<1>4. S \in G
    <2> HIDE DEF G
    <2> QED BY <1>2, <1>3, FiniteInduction
<1>5. S \cap Z = Z
    OBVIOUS
<1> QED BY <1>1, <1>4, <1>5, SumIsFold

\* A sum of zeros is zero.
LEMMA SumOfZeros ==
    ASSUME NEW S, IsFiniteSet(S), NEW f \in [S -> Nat], \A x \in S : f[x] = 0
    PROVE  SumFunction(f) = 0
<1>1. SumFunction(f) <= 0 * Cardinality({})
    BY SumBounded
<1>2. Cardinality({}) = 0
    BY FS_EmptySet
<1> QED BY <1>1, <1>2, SumType

----------------------------------------------------------------------------
(* Selections from a sequence.                                             *)

\* g[k] is the selection from the first k elements.
IsWhere(g, n, R, rows, S) ==
    /\ g \in [0..n -> Seq(R)] /\ g[0] = <<>> /\ g[n] = Where(rows, S)
    /\ \A k \in 1..n : g[k] = IF rows[k] \in S THEN Append(g[k - 1], rows[k]) ELSE g[k - 1]

\* What FoldLeft computes for a selection is what a loop over the rows computes.
LEMMA WhereIsLoop ==
    ASSUME NEW R, NEW rows, NEW S, NEW n \in Nat, DOMAIN rows = 1..n, \A k \in 1..n : rows[k] \in R
    PROVE  \E g : IsWhere(g, n, R, rows, S)
<1> DEFINE Keep(s, e) == IF e \in S THEN Append(s, e) ELSE s
           f == [p \in (1..n) \X Seq(R) |-> Keep(p[2], rows[p[1]])]
           Step(h) == [T \in SUBSET (1..n) |->
                         IF T = {} THEN <<>> ELSE Keep(h[T \ {Max(T)}], rows[Max(T)])]
           iter == CHOOSE h : h = Step(h)
<1>1. Where(rows, S) = iter[1..n]
  BY DEF Where, FoldLeft, MapThenFoldSet
<1>2. <<>> \in Seq(R)
  OBVIOUS
<1>3. \A s \in Seq(R), e \in R : Keep(s, e) \in Seq(R)
  OBVIOUS
<1> HIDE DEF Keep
<1>4. f \in [(1..n) \X Seq(R) -> Seq(R)] /\ \A k \in 1..n, s \in Seq(R) : f[<<k, s>>] = Keep(s, rows[k])
  BY <1>3
<1> HIDE DEF f
<1>5. PICK h : IsFold(h, n, Seq(R), <<>>, f)
  BY <1>2, <1>4, FoldExists
<1>6. /\ h \in [SUBSET (1..n) -> Seq(R)] /\ h[{}] = <<>>
      /\ \A T \in SUBSET (1..n) : T # {} => h[T] = f[<<Max(T), h[T \ {Max(T)}]>>]
  BY <1>5 DEF IsFold
<1>7. \A T \in SUBSET (1..n) : T # {} => Max(T) \in 1..n /\ T \ {Max(T)} \in SUBSET (1..n)
  BY MaxOfPositions
<1>8. \A T \in SUBSET (1..n) : T # {} => h[T] = Keep(h[T \ {Max(T)}], rows[Max(T)])
  BY <1>4, <1>6, <1>7
<1>9. h = Step(h)
  <2>1. h = [T \in SUBSET (1..n) |-> h[T]]
    BY <1>6
  <2>2. QED
    BY <1>6, <1>8, <2>1
<1>10. iter = Step(iter)
  <2> HIDE DEF Step
  <2> QED BY <1>9
<1> HIDE DEF iter
<1>11. iter[{}] = <<>> /\ \A T \in SUBSET (1..n) : T # {} => iter[T] = Keep(iter[T \ {Max(T)}], rows[Max(T)])
  BY <1>10
<1>12. PICK g : IsLoop(g, n, Seq(R), <<>>, f, iter[1..n])
  <2> DEFINE A == Seq(R)
  <2>1. \A T \in SUBSET (1..n) : (T # {} /\ iter[T \ {Max(T)}] \in A) =>
            iter[T] = f[<<Max(T), iter[T \ {Max(T)}]>>]
    BY <1>4, <1>7, <1>11
  <2>2. <<>> \in A /\ f \in [(1..n) \X A -> A] /\ iter[{}] = <<>>
    BY <1>2, <1>4, <1>11
  <2> HIDE DEF A
  <2>3. \E g : IsLoop(g, n, A, <<>>, f, iter[1..n])
    BY <2>1, <2>2, LoopOfFold
  <2>4. QED
    BY <2>3 DEF A
<1>13. g \in [0..n -> Seq(R)] /\ g[0] = <<>> /\ g[n] = Where(rows, S)
       /\ \A k \in 1..n : g[k] = f[<<k, g[k - 1]>>]
  BY <1>1, <1>12 DEF IsLoop
<1>14. \A k \in 1..n : k - 1 \in 0..n /\ g[k - 1] \in Seq(R)
  BY <1>13
<1>15. \A k \in 1..n : g[k] = Keep(g[k - 1], rows[k])
  BY <1>4, <1>13, <1>14
<1>16. IsWhere(g, n, R, rows, S)
  BY <1>13, <1>15 DEF IsWhere, Keep
<1>17. QED
  BY <1>16

\* A selection holds elements of the sequence, all of them in S.
LEMMA WhereType ==
    ASSUME NEW R, NEW rows \in Seq(R), NEW S
    PROVE  /\ Where(rows, S) \in Seq(R)
           /\ \A i \in DOMAIN Where(rows, S) :
                \E j \in DOMAIN rows : Where(rows, S)[i] = rows[j] /\ rows[j] \in S
<1> DEFINE n == Len(rows)
<1>1. n \in Nat /\ DOMAIN rows = 1..n /\ \A k \in 1..n : rows[k] \in R
  OBVIOUS
<1> HIDE DEF n
<1>2. PICK g : IsWhere(g, n, R, rows, S)
  BY <1>1, WhereIsLoop
<1>3. /\ g \in [0..n -> Seq(R)] /\ g[0] = <<>> /\ g[n] = Where(rows, S)
      /\ \A k \in 1..n : g[k] = IF rows[k] \in S THEN Append(g[k - 1], rows[k]) ELSE g[k - 1]
  BY <1>2 DEF IsWhere
<1> DEFINE Drawn(s) == \A i \in DOMAIN s : \E j \in 1..n : s[i] = rows[j] /\ rows[j] \in S
           G == {k \in 0..n : Drawn(g[k])}
<1>4. 0 \in G
  BY <1>1, <1>3
<1>5. ASSUME NEW k \in 1..n, k - 1 \in G PROVE k \in G
  <2>1. k - 1 \in 0..n /\ k \in 0..n /\ g[k - 1] \in Seq(R) /\ Drawn(g[k - 1])
    BY <1>3, <1>5
  <2>2. CASE rows[k] \in S
    <3>1. g[k] = Append(g[k - 1], rows[k])
      BY <1>3, <2>2
    <3> DEFINE s == g[k - 1]
               e == rows[k]
    <3>2. s \in Seq(R) /\ e \in R /\ g[k] = Append(s, e)
      BY <1>1, <2>1, <3>1
    <3>3. \A i \in DOMAIN s : \E j \in 1..n : s[i] = rows[j] /\ rows[j] \in S
      BY <2>1
    <3>4. \E j \in 1..n : e = rows[j] /\ rows[j] \in S
      BY <2>2
    <3> HIDE DEF s, e
    <3>5. \A i \in DOMAIN g[k] : (i \in DOMAIN s /\ g[k][i] = s[i]) \/ g[k][i] = e
      BY <3>2
    <3>6. Drawn(g[k])
      BY <3>3, <3>4, <3>5
    <3>7. QED
      BY <2>1, <3>6
  <2>3. CASE rows[k] \notin S
    <3>1. g[k] = g[k - 1]
      BY <1>3, <2>3
    <3>2. QED
      BY <2>1, <3>1
  <2>4. QED
    BY <2>2, <2>3
<1>6. \A k \in 0..n : k \in G
  <2> HIDE DEF G
  <2> QED BY <1>1, <1>4, <1>5, CountUp
<1>7. Drawn(g[n]) /\ g[n] \in Seq(R)
  BY <1>1, <1>3, <1>6
<1> DEFINE w == Where(rows, S)
<1>8. w \in Seq(R) /\ Drawn(w)
  BY <1>3, <1>7
<1> HIDE DEF w
<1>9. w \in Seq(R) /\ \A i \in DOMAIN w : \E j \in DOMAIN rows : w[i] = rows[j] /\ rows[j] \in S
  BY <1>1, <1>8
<1>10. QED
  BY <1>9 DEF w

\* A new element joins the selection if it is in S.
LEMMA WhereAppend ==
    ASSUME NEW R, NEW rows \in Seq(R), NEW e \in R, NEW S
    PROVE  Where(Append(rows, e), S) =
             IF e \in S THEN Append(Where(rows, S), e) ELSE Where(rows, S)
<1> DEFINE n == Len(rows)
           more == Append(rows, e)
<1>1. n \in Nat /\ DOMAIN rows = 1..n /\ \A k \in 1..n : rows[k] \in R
  OBVIOUS
<1>2. /\ n + 1 \in Nat /\ DOMAIN more = 1..(n + 1) /\ \A k \in 1..(n + 1) : more[k] \in R
      /\ \A k \in 1..n : more[k] = rows[k]
      /\ more[n + 1] = e
  OBVIOUS
<1> HIDE DEF n, more
<1>3. PICK g : IsWhere(g, n, R, rows, S)
  BY <1>1, WhereIsLoop
<1>4. PICK h : IsWhere(h, n + 1, R, more, S)
  BY <1>2, WhereIsLoop
<1>5. /\ g[0] = <<>> /\ g[n] = Where(rows, S)
      /\ \A k \in 1..n : g[k] = IF rows[k] \in S THEN Append(g[k - 1], rows[k]) ELSE g[k - 1]
  BY <1>3 DEF IsWhere
<1>6. /\ h[0] = <<>> /\ h[n + 1] = Where(more, S)
      /\ \A k \in 1..(n + 1) : h[k] = IF more[k] \in S THEN Append(h[k - 1], more[k]) ELSE h[k - 1]
  BY <1>4 DEF IsWhere
<1> DEFINE G == {k \in 0..n : g[k] = h[k]}
<1>7. 0 \in G
  BY <1>1, <1>5, <1>6
<1>8. ASSUME NEW k \in 1..n, k - 1 \in G PROVE k \in G
  <2>1. k \in 1..(n + 1) /\ k \in 0..n /\ more[k] = rows[k] /\ g[k - 1] = h[k - 1]
    BY <1>1, <1>2, <1>8
  <2>2. g[k] = h[k]
    BY <1>5, <1>6, <2>1
  <2>3. QED
    BY <2>1, <2>2
<1>9. \A k \in 0..n : k \in G
  <2> HIDE DEF G
  <2> QED BY <1>1, <1>7, <1>8, CountUp
<1>10. h[n] = Where(rows, S)
  BY <1>1, <1>5, <1>9
<1>11. n + 1 \in 1..(n + 1) /\ (n + 1) - 1 = n
  BY <1>1
<1>12. h[n + 1] = IF e \in S THEN Append(h[n], e) ELSE h[n]
  BY <1>2, <1>6, <1>11
<1>13. QED
  BY <1>6, <1>10, <1>12 DEF more

\* Nothing is selected from nothing.
LEMMA WhereEmpty ==
    ASSUME NEW S
    PROVE  Where(<<>>, S) = <<>>
<1> DEFINE rows == <<>>
<1>1. DOMAIN rows = 1..0 /\ 0 \in Nat /\ \A k \in 1..0 : rows[k] \in {}
  OBVIOUS
<1> HIDE DEF rows
<1>2. PICK g : IsWhere(g, 0, {}, rows, S)
  BY <1>1, WhereIsLoop
<1>3. g[0] = <<>> /\ g[0] = Where(rows, S)
  BY <1>2 DEF IsWhere
<1>4. QED
  BY <1>3 DEF rows

\* Every sequence is built by appending: a set that holds the empty sequence, and
\* with a sequence that one and any of the elements, holds the whole.
LEMMA BuildUp ==
    ASSUME NEW R, NEW seq \in Seq(R), NEW G, <<>> \in G,
           \A s \in Seq(R), j \in 1..Len(seq) : s \in G => Append(s, seq[j]) \in G
    PROVE  seq \in G
<1> DEFINE n == Len(seq)
           H == {k \in 0..n : SubSeq(seq, 1, k) \in G}
<1>1. n \in Nat /\ SubSeq(seq, 1, 0) = <<>> /\ SubSeq(seq, 1, n) = seq
  <2>1. n \in Nat
    OBVIOUS
  <2>2. SubSeq(seq, 1, 0) = <<>>
    BY SubSeqEmpty
  <2>3. SubSeq(seq, 1, n) = seq
    BY SubSeqFull
  <2>4. QED
    BY <2>1, <2>2, <2>3
<1>2. 0 \in H
  <2>1. 0 \in 0..n
    BY <1>1
  <2>2. SubSeq(seq, 1, 0) \in G
    BY <1>1, Zenon
  <2>3. QED
    BY <2>1, <2>2, Zenon
<1>3. ASSUME NEW k \in 1..n, k - 1 \in H PROVE k \in H
  <2>1. SubSeq(seq, 1, k - 1) \in G /\ SubSeq(seq, 1, k - 1) \in Seq(R) /\ k \in 0..n
    BY <1>3
  <2>2. SubSeq(seq, 1, k) = Append(SubSeq(seq, 1, k - 1), seq[k])
    BY <1>1
  <2>3. SubSeq(seq, 1, k) \in G
    BY <2>1, <2>2
  <2>4. QED
    BY <2>1, <2>3
<1>4. n \in H
  <2> HIDE DEF H
  <2>1. \A k \in 0..n : k \in H
    <3> HIDE DEF n
    <3> QED BY <1>1, <1>2, <1>3, CountUp
  <2>2. QED
    BY <1>1, <2>1
<1>5. QED
  BY <1>1, <1>4

\* A loop with one more round ends with what that round makes of the shorter loop.
LEMMA LoopAppend ==
    ASSUME NEW n \in Nat, NEW A, NEW base, NEW f, NEW g, NEW u, NEW more, NEW h, NEW v,
           IsLoop(g, n, A, base, f, u), IsLoop(h, n + 1, A, base, more, v),
           \A k \in 1..n, a \in A : f[<<k, a>>] = more[<<k, a>>]
    PROVE  u \in A /\ v = more[<<n + 1, u>>]
<1>1. /\ g \in [0..n -> A] /\ g[0] = base /\ g[n] = u
      /\ \A k \in 1..n : g[k] = f[<<k, g[k - 1]>>]
  BY DEF IsLoop
<1>2. /\ h[0] = base /\ h[n + 1] = v
      /\ \A k \in 1..(n + 1) : h[k] = more[<<k, h[k - 1]>>]
  BY DEF IsLoop
<1> DEFINE G == {k \in 0..n : g[k] = h[k]}
<1>3. 0 \in G
  BY <1>1, <1>2
<1>4. ASSUME NEW k \in 1..n, k - 1 \in G PROVE k \in G
  <2>1. k - 1 \in 0..n /\ k \in 1..(n + 1) /\ k \in 0..n /\ g[k - 1] = h[k - 1] /\ g[k - 1] \in A
    BY <1>1, <1>4
  <2>2. g[k] = f[<<k, g[k - 1]>>] /\ h[k] = more[<<k, h[k - 1]>>]
    BY <1>1, <1>2, <2>1
  <2>3. QED
    BY <2>1, <2>2
<1>5. \A k \in 0..n : k \in G
  <2> HIDE DEF G
  <2> QED BY <1>3, <1>4, CountUp
<1>6. n \in 0..n /\ n + 1 \in 1..(n + 1) /\ (n + 1) - 1 = n
  OBVIOUS
<1>7. h[n] = u /\ u \in A
  BY <1>1, <1>5, <1>6
<1>8. QED
  BY <1>2, <1>6, <1>7

\* Appending to a concatenation, or to its second part.
LEMMA ConcatAppend ==
    ASSUME NEW R, NEW s \in Seq(R), NEW t \in Seq(R), NEW e \in R
    PROVE  s \o Append(t, e) = Append(s \o t, e)
OBVIOUS

\* What is selected from two sequences, one after the other, is what is selected
\* from each.
LEMMA WhereConcat ==
    ASSUME NEW R, NEW s \in Seq(R), NEW t \in Seq(R), NEW S
    PROVE  Where(s \o t, S) = Where(s, S) \o Where(t, S)
<1> DEFINE G == {u \in Seq(R) : Where(s \o u, S) = Where(s, S) \o Where(u, S)}
<1>0. \A u \in Seq(R) : Where(u, S) \in Seq(R)
  BY WhereType
<1>1. <<>> \in G
  <2>1. <<>> \in Seq(R) /\ s \o <<>> = s
    BY ConcatEmptySeq
  <2>2. Where(<<>>, S) = <<>>
    BY WhereEmpty
  <2>3. Where(s, S) \o <<>> = Where(s, S)
    BY <1>0, ConcatEmptySeq
  <2>4. QED
    BY <2>1, <2>2, <2>3
<1>2. ASSUME NEW u \in Seq(R), NEW j \in 1..Len(t), u \in G
      PROVE  Append(u, t[j]) \in G
  <2>1. PICK e \in R : e = t[j]
    OBVIOUS
  <2>2. Append(u, e) \in Seq(R) /\ s \o u \in Seq(R)
    BY ConcatProperties
  <2>3. s \o Append(u, e) = Append(s \o u, e)
    BY ConcatAppend
  <2>4. Where(Append(s \o u, e), S) = IF e \in S THEN Append(Where(s \o u, S), e) ELSE Where(s \o u, S)
    BY <2>2, WhereAppend
  <2>5. Where(Append(u, e), S) = IF e \in S THEN Append(Where(u, S), e) ELSE Where(u, S)
    BY WhereAppend
  <2>6. Where(s, S) \o Append(Where(u, S), e) = Append(Where(s, S) \o Where(u, S), e)
    BY <1>0, ConcatAppend
  <2>7. Where(s \o u, S) = Where(s, S) \o Where(u, S)
    BY <1>2
  <2>8. Where(s \o Append(u, e), S) = Where(s, S) \o Where(Append(u, e), S)
    BY <2>3, <2>4, <2>5, <2>6, <2>7, Zenon
  <2>9. QED
    BY <2>1, <2>2, <2>8
<1>3. t \in G
  <2> HIDE DEF G
  <2> QED BY <1>1, <1>2, BuildUp
<1>4. QED
  BY <1>3

\* A second selection finds everything, or nothing.
LEMMA WhereAgain ==
    ASSUME NEW R, NEW s \in Seq(R), NEW S, NEW T, S \cap T = {}
    PROVE  /\ Where(Where(s, S), S) = Where(s, S)
           /\ Where(Where(s, S), T) = <<>>
<1> DEFINE G == {u \in Seq(R) : Where(Where(u, S), S) = Where(u, S) /\ Where(Where(u, S), T) = <<>>}
<1>0. \A u \in Seq(R) : Where(u, S) \in Seq(R)
  BY WhereType
<1>1. <<>> \in G
  <2>1. <<>> \in Seq(R)
    OBVIOUS
  <2>2. Where(<<>>, S) = <<>> /\ Where(<<>>, T) = <<>>
    BY WhereEmpty
  <2>3. QED
    BY <2>1, <2>2
<1>2. ASSUME NEW u \in Seq(R), NEW j \in 1..Len(s), u \in G
      PROVE  Append(u, s[j]) \in G
  <2>1. PICK e \in R : e = s[j]
    OBVIOUS
  <2>2. Append(u, e) \in Seq(R)
    OBVIOUS
  <2>3. Where(Append(u, e), S) = IF e \in S THEN Append(Where(u, S), e) ELSE Where(u, S)
    BY WhereAppend
  <2>4. CASE e \in S
    <3>1. e \notin T
      BY <2>4
    <3> DEFINE w == Where(u, S)
    <3>2. w \in Seq(R)
      BY <1>0
    <3> HIDE DEF w
    <3>3. /\ Where(Append(w, e), S) = IF e \in S THEN Append(Where(w, S), e) ELSE Where(w, S)
          /\ Where(Append(w, e), T) = IF e \in T THEN Append(Where(w, T), e) ELSE Where(w, T)
      BY <3>2, WhereAppend
    <3>4. Where(w, S) = w /\ Where(w, T) = <<>>
      BY <1>2 DEF w
    <3>5. Where(Append(u, e), S) = Append(w, e)
      BY <2>3, <2>4 DEF w
    <3>6. QED
      BY <2>1, <2>2, <2>4, <3>1, <3>3, <3>4, <3>5
  <2>5. CASE e \notin S
    BY <1>2, <2>1, <2>2, <2>3, <2>5
  <2>6. QED
    BY <2>4, <2>5
<1>3. s \in G
  <2> HIDE DEF G
  <2> QED BY <1>1, <1>2, BuildUp
<1>4. QED
  BY <1>3
=============================================================================

------------------------ MODULE PolicyBundlesProofs ------------------------
(***************************************************************************)
(* Proofs about PolicyBundles, for every environment, policy file, posted  *)
(* bundle, run body and charge its constants allow, and any number of      *)
(* starts, calls and failures.                                             *)
(***************************************************************************)
EXTENDS PolicyBundles, SharedLemmas, TLAPS

----------------------------------------------------------------------------
(* The inductive invariants.                                               *)

\* A policy file that Build accepts, or none.
FileLoads(f) == f = NoFile \/ (f \in Files /\ Validate(f))

\* A daemon that is up was configured by Load from an environment that loads,
\* and works through a file that validates.
BootInv ==
    /\ pc \in {"down", "register", "serving"}
    /\ pc # "down" => /\ env \in Environments /\ Loads(env) /\ conf = Load(env)
                      /\ FileLoads(file)
                      /\ at \in Nat /\ at >= 1
    /\ pc = "register" => posted = {} /\ at <= Len(file.policies) + 1
    /\ pc = "serving" => at = Len(file.policies) + 1

TableInv == \A n \in DOMAIN policies : policies[n] \in PolicyRecords /\ policies[n].name = n /\ n # ""

\* The bundles of the file before at are in the table, but for those replaced
\* through the API.
Applied(b) == b.name \in posted \/ (b.name \in DOMAIN policies /\ policies[b.name] = b)
AppliedInv == pc # "down" => \A i \in DOMAIN file.policies : i < at => Applied(file.policies[i])

\* The run keeps the bundle it was created under, and that bundle stays.
RunInv ==
    /\ run \in Runs \cup {Absent}
    /\ run # Absent => /\ run.ref = asked.body.ref
                       /\ run.ref # Absent => run.ref \in DOMAIN policies

\* A step as it is recorded: its charge, and when it began and ended.
Steps == [tokens : Nat, dollars : Nat, begun : Nat, done : Nat]

\* Every admitted step of the run is one recorded charge.
CallsInv ==
    /\ calls \in Seq(Steps)
    /\ run = Absent => calls = <<>>
    /\ run # Absent => run.gov.loops = Len(calls)

\* What is known of a tool_calls row.
GovernedEntry(t) ==
    (t.under # Absent /\ ~t.failed /\ t.status # "blocked") =>
        /\ t.under.allow # {} => \E p \in t.under.allow : t.tool \in p.matches
        /\ t.tool \in t.under.tools => t.gated

EntryOK(t) ==
    /\ t.tool \in Tools /\ t.status \in {"blocked", "denied", "approved"}
    /\ t.effect \in {"", Effect(t.tool)}
    /\ GovernedEntry(t)

ToolsInv == IsLog(tools) /\ \A i \in DOMAIN tools : EntryOK(tools[i])

IInv == BootInv /\ TableInv /\ AppliedInv /\ RunInv /\ UnlimitedIsChosen /\ CallsInv /\ ToolsInv

----------------------------------------------------------------------------
(* Configuration.                                                          *)

\* The conversion keeps what fits.
LEMMA Int32OK ==
    ASSUME NEW n \in Nat, n <= MaxInt32
    PROVE  Int32(n) = n
<1>1. MaxInt32 \in Nat
  BY BundlesAssumption
<1>2. PICK w \in Nat : w = 2 * (MaxInt32 + 1)
  BY <1>1
<1>3. PICK k \in Nat : k = n + MaxInt32 + 1
  BY <1>1
<1>4. k < w /\ w > 0
  BY <1>1, <1>2, <1>3
<1>5. k % w = k
  BY <1>4
<1>6. QED
  BY <1>1, <1>2, <1>3, <1>5 DEF Int32

\* What Load makes of an environment it accepts: limits that are not negative and
\* fit 32 bits, and none left out unless the operator set a budget without it.
LEMMA LoadOK ==
    ASSUME NEW e \in Environments, Loads(e)
    PROVE  /\ Load(e).budget \in [Dimensions -> Nat]
           /\ Load(e).budget.loops <= MaxInt32 /\ Load(e).budget.seconds <= MaxInt32
           /\ \A v \in {"dollars", "loops", "seconds"} : Load(e).budget[v] <= 0 =>
                /\ \E w \in Dimensions : Effective(e)[w].kind = "num"
                /\ Effective(e)[v].kind = "num" => Effective(e)[v].n = 0
<1> DEFINE vals == Effective(e)
<1>1. Load(e).budget = LoadBudget(vals)
  BY DEF Load
<1>2. \A v \in Dimensions : vals[v].n \in Int
  BY BundlesAssumption DEF Effective
<1>3. MaxInt32 \in Nat /\ MaxInt32 > 0 /\ SafeDefaults \in [Dimensions -> Nat]
      /\ SafeDefaults.loops <= MaxInt32 /\ SafeDefaults.seconds <= MaxInt32
      /\ SafeDefaults.dollars > 0 /\ SafeDefaults.loops > 0 /\ SafeDefaults.seconds > 0
  BY BundlesAssumption
<1>4. CASE ~AnyBudgetEnvSet(vals)
  <2>1. LoadBudget(vals) = SafeDefaults
    BY <1>4 DEF LoadBudget
  <2>2. \A v \in {"dollars", "loops", "seconds"} : ~(SafeDefaults[v] <= 0)
    BY <1>3 DEF Dimensions
  <2> HIDE DEF vals
  <2>3. LoadBudget(vals) \in [Dimensions -> Nat]
    BY <1>3, <2>1
  <2>4. LoadBudget(vals).loops <= MaxInt32 /\ LoadBudget(vals).seconds <= MaxInt32
    BY <1>3, <2>1
  <2>5. ASSUME NEW v \in {"dollars", "loops", "seconds"}, LoadBudget(vals)[v] <= 0
        PROVE  /\ \E w \in Dimensions : vals[w].kind = "num"
               /\ vals[v].kind = "num" => vals[v].n = 0
    BY <2>1, <2>2, <2>5
  <2>6. QED
    BY <1>1, <2>3, <2>4, <2>5 DEF vals
<1>5. CASE AnyBudgetEnvSet(vals)
  <2>1. \A v \in Dimensions : Parses(vals[v])
    BY <1>5 DEF Loads
  <2>2. PICK w \in Dimensions : vals[w].kind \in {"num", "junk"}
    BY <1>5 DEF AnyBudgetEnvSet
  <2>3. vals[w].kind = "num"
    BY <2>1, <2>2 DEF Parses
  <2> HIDE DEF vals
  <2>4. ASSUME NEW v \in Dimensions
        PROVE  /\ Value(vals[v]) \in Nat /\ ClampInt32(Value(vals[v])) \in Nat
               /\ ClampInt32(Value(vals[v])) <= MaxInt32
               /\ ClampInt32(Value(vals[v])) <= 0 => Value(vals[v]) = 0
               /\ (Value(vals[v]) <= 0 /\ vals[v].kind = "num") => vals[v].n = 0
    <3>1. vals[v].kind = "num" => vals[v].n \in Nat
      BY <1>2, <2>1 DEF Parses
    <3>2. Value(vals[v]) \in Nat /\ ((Value(vals[v]) <= 0 /\ vals[v].kind = "num") => vals[v].n = 0)
      BY <3>1 DEF Value
    <3>3. ClampInt32(Value(vals[v])) = IF Value(vals[v]) > MaxInt32 THEN MaxInt32 ELSE Value(vals[v])
      BY <1>3, <3>2, Int32OK DEF ClampInt32
    <3>4. QED
      BY <1>3, <3>2, <3>3
  <2>5. LoadBudget(vals) = [tokens  |-> Value(vals["tokens"]), dollars |-> Value(vals["dollars"]),
                            loops   |-> ClampInt32(Value(vals["loops"])),
                            seconds |-> ClampInt32(Value(vals["seconds"]))]
    BY <1>5 DEF LoadBudget
  <2>6. /\ Value(vals["tokens"]) \in Nat /\ Value(vals["dollars"]) \in Nat
        /\ ClampInt32(Value(vals["loops"])) \in Nat /\ ClampInt32(Value(vals["seconds"])) \in Nat
        /\ ClampInt32(Value(vals["loops"])) <= MaxInt32 /\ ClampInt32(Value(vals["seconds"])) <= MaxInt32
    BY <2>4 DEF Dimensions
  <2>7. LoadBudget(vals) \in [Dimensions -> Nat]
    BY <2>5, <2>6 DEF Dimensions
  <2>8. LoadBudget(vals).loops <= MaxInt32 /\ LoadBudget(vals).seconds <= MaxInt32
    BY <2>5, <2>6
  <2>9. ASSUME NEW v \in {"dollars", "loops", "seconds"}, LoadBudget(vals)[v] <= 0
        PROVE  vals[v].kind = "num" => vals[v].n = 0
    <3>1. v \in Dimensions
      BY DEF Dimensions
    <3>2. LoadBudget(vals)[v] = Value(vals[v]) \/ LoadBudget(vals)[v] = ClampInt32(Value(vals[v]))
      <4>1. LoadBudget(vals).dollars = Value(vals["dollars"])
            /\ LoadBudget(vals).loops = ClampInt32(Value(vals["loops"]))
            /\ LoadBudget(vals).seconds = ClampInt32(Value(vals["seconds"]))
        BY <2>5
      <4>2. QED
        BY <4>1
    <3>3. QED
      BY <2>4, <2>9, <3>1, <3>2
  <2>10. QED
    BY <1>1, <2>3, <2>7, <2>8, <2>9 DEF vals
<1>6. QED
  BY <1>4, <1>5

\* A daemon that serves has a default budget with limits that are not negative.
LEMMA ConfBudget ==
    ASSUME BootInv, pc = "serving"
    PROVE  /\ conf.budget \in Budgets /\ conf.budget \in [Dimensions -> Nat]
           /\ conf.budget.loops <= MaxInt32 /\ conf.budget.seconds <= MaxInt32
<1>1. env \in Environments /\ Loads(env) /\ conf = Load(env)
  BY DEF BootInv
<1>2. conf.budget \in [Dimensions -> Nat] /\ conf.budget.loops <= MaxInt32 /\ conf.budget.seconds <= MaxInt32
  BY <1>1, LoadOK
<1>3. conf.budget \in Budgets
  BY <1>2 DEF Budgets
<1>4. QED
  BY <1>2, <1>3

\* The bundles of a file that validates.
LEMMA FileOK ==
    ASSUME NEW f, FileLoads(f)
    PROVE  /\ Len(f.policies) \in Nat /\ DOMAIN f.policies = 1..Len(f.policies)
           /\ \A i \in DOMAIN f.policies :
                /\ f.policies[i] \in PolicyRecords /\ f.policies[i].name # ""
                /\ \A j \in DOMAIN f.policies : j # i => f.policies[j].name # f.policies[i].name
                /\ \A v \in Dimensions : f.policies[i].budget[v] \in Nat
<1>0. f = NoFile => f.policies = <<>>
  BY DEF NoFile
<1>1. f.policies \in Seq(PolicyRecords)
  <2>1. <<>> \in Seq(PolicyRecords)
    OBVIOUS
  <2>2. \A h \in Files : h.policies \in Seq(PolicyRecords)
    BY BundlesAssumption
  <2>3. QED
    BY <1>0, <2>1, <2>2 DEF FileLoads
<1>2. Len(f.policies) \in Nat /\ DOMAIN f.policies = 1..Len(f.policies)
      /\ \A i \in DOMAIN f.policies : f.policies[i] \in PolicyRecords
  BY <1>1
<1>3. \A i \in DOMAIN f.policies :
        /\ f.policies[i].name # ""
        /\ \A j \in 1..(i - 1) : f.policies[j].name # f.policies[i].name
        /\ \A v \in Dimensions : f.policies[i].budget[v] >= 0
  <2>1. CASE f = NoFile
    <3>1. DOMAIN f.policies = {}
      BY <1>0, <2>1
    <3>2. QED
      BY <3>1
  <2>2. CASE Validate(f)
    BY <2>2 DEF Validate
  <2>3. QED
    BY <2>1, <2>2 DEF FileLoads
<1>4. ASSUME NEW i \in DOMAIN f.policies, NEW j \in DOMAIN f.policies, j # i
      PROVE  f.policies[j].name # f.policies[i].name
  <2>1. i \in Nat /\ j \in Nat /\ i >= 1 /\ j >= 1 /\ (j \in 1..(i - 1) \/ i \in 1..(j - 1))
    BY <1>2, <1>4
  <2>2. CASE j \in 1..(i - 1)
    BY <1>3, <2>2
  <2>3. CASE i \in 1..(j - 1)
    BY <1>3, <2>3
  <2>4. QED
    BY <2>1, <2>2, <2>3
<1>5. ASSUME NEW i \in DOMAIN f.policies, NEW v \in Dimensions PROVE f.policies[i].budget[v] \in Nat
  <2>1. f.policies[i].budget \in [Dimensions -> Int]
    BY <1>2 DEF PolicyRecords, Budgets
  <2>2. f.policies[i].budget[v] \in Int
    BY <2>1
  <2>3. f.policies[i].budget[v] >= 0
    BY <1>3, Zenon
  <2>4. QED
    BY <2>2, <2>3
<1>6. QED
  BY <1>2, <1>3, <1>4, <1>5

----------------------------------------------------------------------------
(* Starting, registering, stopping.                                        *)

\* What UpsertPolicy does to the table.
LEMMA UpsertOK ==
    ASSUME NEW b, UpsertPolicy(b)
    PROVE  /\ DOMAIN policies' = DOMAIN policies \cup {b.name} /\ policies'[b.name] = b
           /\ \A n \in DOMAIN policies : n # b.name => policies'[n] = policies[n]
BY DEF UpsertPolicy

\* The bundle handleRegisterPolicy stores.
LEMMA PostedOK ==
    ASSUME NEW body \in Bodies, NEW b, b = [body EXCEPT !.budget = IF @ = Absent THEN Unlimited ELSE @]
    PROVE  b \in PolicyRecords /\ b.name = body.name
<1>1. body \in [name : STRING, budget : Budgets \cup {Absent}, allow : SUBSET Patterns,
                tools : SUBSET Tools, effects : SUBSET STRING]
  BY BundlesAssumption
<1>2. Unlimited \in Budgets
  BY DEF Unlimited, Budgets
<1>3. (IF body.budget = Absent THEN Unlimited ELSE body.budget) \in Budgets
  BY <1>1, <1>2
<1>4. QED
  BY <1>1, <1>3 DEF PolicyRecords

\* A step that leaves the daemon, its table and the posted names alone.
LEMMA BootSame ==
    ASSUME BootInv, TableInv, AppliedInv, UNCHANGED <<booting, policies, posted>>
    PROVE  BootInv' /\ TableInv' /\ AppliedInv' /\ DOMAIN policies \subseteq DOMAIN policies'
BY DEF booting, BootInv, TableInv, AppliedInv, Applied

\* config.Load, the policy file, one bundle after the other, and the requests.
LEMMA BootStep ==
    ASSUME BootInv, TableInv, AppliedInv,
           \/ \E e \in Environments, f \in Files \cup {NoFile} : Start(e, f)
           \/ RegisterPolicyFile \/ Listen \/ Stop
           \/ \E body \in Bodies : RegisterPolicy(body)
    PROVE  BootInv' /\ TableInv' /\ AppliedInv' /\ DOMAIN policies \subseteq DOMAIN policies'
<1>1. ASSUME pc' = "down", UNCHANGED policies
      PROVE  BootInv' /\ TableInv' /\ AppliedInv' /\ DOMAIN policies \subseteq DOMAIN policies'
  BY <1>1 DEF BootInv, TableInv, AppliedInv
<1>2. CASE \E e \in Environments, f \in Files \cup {NoFile} : Start(e, f)
  <2>1. PICK e \in Environments, f \in Files \cup {NoFile} : Start(e, f)
    BY <1>2
  <2>2. UNCHANGED policies /\ posted' = {}
    BY <2>1 DEF Start
  <2>3. CASE Loads(e) /\ FileLoads(f)
    <3>1. pc' = "register" /\ conf' = Load(e) /\ env' = e /\ file' = f /\ at' = 1
      BY <2>1, <2>3 DEF Start, FileLoads
    <3>2. Len(f.policies) \in Nat /\ DOMAIN f.policies = 1..Len(f.policies)
      BY <2>3, FileOK
    <3>3. BootInv'
      <4>1. 1 \in Nat /\ 1 >= 1 /\ 1 <= Len(f.policies) + 1
        BY <3>2
      <4>2. QED
        BY <2>2, <2>3, <3>1, <4>1 DEF BootInv
    <3>4. TableInv' /\ DOMAIN policies \subseteq DOMAIN policies'
      BY <2>2 DEF TableInv
    <3>5. AppliedInv'
      <4>1. \A i \in DOMAIN f.policies : ~(i < 1)
        BY <3>2
      <4>2. QED
        BY <3>1, <4>1 DEF AppliedInv
    <3>6. QED
      BY <3>3, <3>4, <3>5
  <2>4. CASE ~(Loads(e) /\ FileLoads(f))
    <3>1. pc' = "down"
      BY <2>1, <2>4 DEF Start, Stopped, FileLoads
    <3>2. QED
      BY <1>1, <2>2, <3>1
  <2>5. QED
    BY <2>3, <2>4
<1>3. CASE RegisterPolicyFile
  <2>1. CASE Fault /\ Stopped /\ UNCHANGED policies
    BY <1>1, <2>1 DEF Stopped
  <2>2. CASE UpsertPolicy(file.policies[at]) /\ at' = at + 1 /\ UNCHANGED <<pc, conf, env, file, faults>>
    <3>1. pc = "register" /\ at <= Len(file.policies) /\ posted' = posted
      BY <1>3 DEF RegisterPolicyFile
    <3>2. FileLoads(file) /\ at \in Nat /\ at >= 1 /\ posted = {}
      BY <3>1 DEF BootInv
    <3> DEFINE b == file.policies[at]
    <3>3. Len(file.policies) \in Nat /\ DOMAIN file.policies = 1..Len(file.policies) /\ at \in DOMAIN file.policies
      <4>1. Len(file.policies) \in Nat /\ DOMAIN file.policies = 1..Len(file.policies)
        BY <3>2, FileOK
      <4>2. QED
        BY <3>1, <3>2, <4>1
    <3>4. b \in PolicyRecords /\ b.name # ""
          /\ \A j \in DOMAIN file.policies : j # at => file.policies[j].name # b.name
      <4>1. \A i \in DOMAIN file.policies :
                /\ file.policies[i] \in PolicyRecords /\ file.policies[i].name # ""
                /\ \A j \in DOMAIN file.policies : j # i => file.policies[j].name # file.policies[i].name
        BY <3>2, FileOK
      <4>2. QED
        BY <3>3, <4>1
    <3> HIDE DEF b
    <3>5. UpsertPolicy(b)
      BY <2>2 DEF b
    <3>6. /\ DOMAIN policies' = DOMAIN policies \cup {b.name} /\ policies'[b.name] = b
          /\ \A n \in DOMAIN policies : n # b.name => policies'[n] = policies[n]
      BY <3>5, UpsertOK
    <3>7. TableInv' /\ DOMAIN policies \subseteq DOMAIN policies'
      BY <3>4, <3>6 DEF TableInv
    <3>8. BootInv'
      <4>1. at' \in Nat /\ at' >= 1 /\ at' <= Len(file.policies) + 1
        BY <2>2, <3>1, <3>2, <3>3
      <4>2. pc' = pc /\ conf' = conf /\ env' = env /\ file' = file
        BY <2>2
      <4>3. QED
        BY <3>1, <4>1, <4>2 DEF BootInv
    <3>9. ASSUME NEW i \in DOMAIN file.policies, i < at' PROVE Applied(file.policies[i])'
      <4>1. CASE i = at
        <5>1. file.policies[i] = b /\ file'.policies[i] = b
          BY <2>2, <4>1 DEF b
        <5>2. QED
          BY <3>6, <5>1 DEF Applied
      <4>2. CASE i # at
        <5>1. i < at
          BY <2>2, <3>2, <3>3, <3>9, <4>2
        <5>2. Applied(file.policies[i]) /\ file.policies[i].name # b.name
          BY <3>1, <3>4, <4>2, <5>1 DEF AppliedInv
        <5>3. file' = file
          BY <2>2
        <5>4. QED
          BY <3>1, <3>2, <3>6, <5>2, <5>3 DEF Applied
      <4>3. QED
        BY <4>1, <4>2
    <3>10. AppliedInv'
      <4>1. file' = file
        BY <2>2
      <4>2. QED
        BY <3>9, <4>1 DEF AppliedInv
    <3>11. QED
      BY <3>7, <3>8, <3>10
  <2>3. QED
    BY <1>3, <2>1, <2>2 DEF RegisterPolicyFile
<1>4. CASE Listen
  <2>1. pc = "register" /\ at > Len(file.policies) /\ pc' = "serving"
        /\ UNCHANGED <<conf, env, file, at, policies, posted>>
    BY <1>4 DEF Listen
  <2>2. FileLoads(file) /\ at \in Nat /\ at <= Len(file.policies) + 1
    BY <2>1 DEF BootInv
  <2>3. Len(file.policies) \in Nat
    BY <2>2, FileOK
  <2>4. at = Len(file.policies) + 1
    BY <2>1, <2>2, <2>3
  <2>5. BootInv'
    BY <2>1, <2>4 DEF BootInv
  <2>6. QED
    BY <2>1, <2>5 DEF TableInv, AppliedInv, Applied
<1>5. CASE Stop
  BY <1>1, <1>5 DEF Stop, Stopped
<1>6. CASE \E body \in Bodies : RegisterPolicy(body)
  <2>1. PICK body \in Bodies : RegisterPolicy(body)
    BY <1>6
  <2>2. pc = "serving" /\ UNCHANGED booting
    BY <2>1 DEF RegisterPolicy
  <2>3. pc' = "serving" /\ UNCHANGED <<pc, conf, env, file, at>>
    BY <2>2 DEF booting
  <2>4. CASE body.name = ""
    <3>1. UNCHANGED <<policies, posted>>
      BY <2>1, <2>4 DEF RegisterPolicy
    <3>2. QED
      BY <2>2, <3>1, BootSame
  <2>5. CASE body.name # ""
    <3> DEFINE b == [body EXCEPT !.budget = IF @ = Absent THEN Unlimited ELSE @]
    <3>1. UpsertPolicy(b) /\ posted' = posted \cup {body.name}
      BY <2>1, <2>5 DEF RegisterPolicy
    <3>2. b \in PolicyRecords /\ b.name = body.name
      BY PostedOK
    <3> HIDE DEF b
    <3>3. /\ DOMAIN policies' = DOMAIN policies \cup {b.name} /\ policies'[b.name] = b
          /\ \A n \in DOMAIN policies : n # b.name => policies'[n] = policies[n]
      BY <3>1, UpsertOK
    <3>4. TableInv' /\ DOMAIN policies \subseteq DOMAIN policies'
      BY <2>5, <3>2, <3>3 DEF TableInv
    <3>5. BootInv'
      BY <2>2, <2>3 DEF BootInv
    <3>6. \A c : Applied(c) => Applied(c)'
      BY <3>1, <3>2, <3>3 DEF Applied
    <3>7. AppliedInv'
      BY <2>2, <2>3, <3>6 DEF AppliedInv
    <3>8. QED
      BY <3>4, <3>5, <3>7
  <2>6. QED
    BY <2>4, <2>5
<1>7. QED
  BY <1>2, <1>3, <1>4, <1>5, <1>6

----------------------------------------------------------------------------
(* The governor under any budget.                                          *)

\* What is written for one budget's governor is a run for all.
LEMMA SameRuns ==
    ASSUME NEW b
    PROVE  /\ Gov(b)!LiveRuns = LiveRuns /\ Gov(b)!NewRun = NewRun
           /\ NewRun \in LiveRuns /\ NewRun.elapsed = 0 /\ NewRun.halted = "" /\ NewRun.loops = 0
           /\ NewRun.tokens = 0 /\ NewRun.dollars = 0
<1>1. Gov(b)!LiveRuns = LiveRuns
  BY DEF Gov!LiveRuns, LiveRuns, Gov!HaltReasons, HaltReasons, Gov!HaltNone, HaltNone,
         Gov!HaltTokenBudget, HaltTokenBudget, Gov!HaltDollarBudget, HaltDollarBudget,
         Gov!HaltLoopBudget, HaltLoopBudget, Gov!HaltTimeBudget, HaltTimeBudget,
         Gov!HaltCancelled, HaltCancelled
<1>2. Gov(b)!NewRun = NewRun
  BY DEF Gov!NewRun, NewRun, Gov!HaltNone, HaltNone
<1>3. QED
  BY <1>1, <1>2 DEF NewRun, LiveRuns, HaltNone

\* The token or the dollar limit is reached.
Breached(b, t, d) == (b.tokens > 0 /\ t >= b.tokens) \/ (b.dollars > 0 /\ d >= b.dollars)

\* A limit on what was spent, or on the iterations, is passed; and the one that a
\* halt reason names is.
OverBudget(b, t, d, k) == Breached(b, t, d) \/ (b.loops > 0 /\ k > b.loops)

Exceeded(b, t, d, k, reason) ==
    \/ reason = "token_budget_exceeded" /\ b.tokens > 0 /\ t >= b.tokens
    \/ reason = "dollar_budget_exceeded" /\ b.dollars > 0 /\ d >= b.dollars
    \/ reason = "loop_budget_exceeded" /\ b.loops > 0 /\ k > b.loops

\* r is what CheckLocked makes of the running run g: halted on a breach or when its
\* time is up, with the same usage, or unchanged.
Checked(b, g, r) ==
    /\ r \in LiveRuns
    /\ r.tokens = g.tokens /\ r.dollars = g.dollars /\ r.loops = g.loops
    /\ r.halted = "" => r = g /\ ~Breached(b, g.tokens, g.dollars)
    /\ r.halted # "" => \/ r.halted = "time_budget_exceeded"
                        \/ \A k : Exceeded(b, g.tokens, g.dollars, k, r.halted)

\* CheckLocked halts a running run on a breach or when its time is up, and leaves
\* its usage.
LEMMA CheckOK ==
    ASSUME NEW b \in Budgets, NEW g \in LiveRuns, g.halted = "",
           NEW r, r = Gov(b)!CheckLocked(g)
    PROVE  Checked(b, g, r)
<1>0. SUFFICES /\ r \in LiveRuns
               /\ r.tokens = g.tokens /\ r.dollars = g.dollars /\ r.loops = g.loops
               /\ r.halted = "" => r = g /\ ~Breached(b, g.tokens, g.dollars)
               /\ r.halted # "" => \/ r.halted = "time_budget_exceeded"
                                   \/ \A k : Exceeded(b, g.tokens, g.dollars, k, r.halted)
  BY Zenon DEF Checked
<1>1. b.tokens \in Int /\ b.dollars \in Int /\ b.loops \in Int /\ b.seconds \in Int
  BY DEF Budgets, Dimensions
<1>2. g.tokens \in Nat /\ g.dollars \in Nat
  BY DEF LiveRuns
<1>3. ASSUME NEW reason \in {"token_budget_exceeded", "dollar_budget_exceeded", "time_budget_exceeded"},
             r = [g EXCEPT !.halted = reason, !.ctxDone = TRUE]
      PROVE  /\ r \in LiveRuns /\ r.halted = reason /\ r.halted # ""
             /\ r.tokens = g.tokens /\ r.dollars = g.dollars /\ r.loops = g.loops
  BY <1>3 DEF LiveRuns, HaltReasons, HaltTokenBudget, HaltDollarBudget, HaltTimeBudget
<1>4. CASE Gov(b)!Breach(g) # ""
  <2>1. /\ Gov(b)!Breach(g) \in {"token_budget_exceeded", "dollar_budget_exceeded", "time_budget_exceeded"}
        /\ \/ Gov(b)!Breach(g) = "time_budget_exceeded"
           \/ \A k : Exceeded(b, g.tokens, g.dollars, k, Gov(b)!Breach(g))
    BY <1>4 DEF Exceeded, Gov!Breach, Gov!HaltTokenBudget, Gov!HaltDollarBudget, Gov!HaltTimeBudget,
                Gov!HaltNone
  <2>2. r = [g EXCEPT !.halted = Gov(b)!Breach(g), !.ctxDone = TRUE]
    BY <1>4 DEF Gov!CheckLocked, Gov!HaltLocked, Gov!HaltNone
  <2>3. QED
    BY <1>3, <2>1, <2>2
<1>5. CASE Gov(b)!Breach(g) = ""
  <2>1. ~Breached(b, g.tokens, g.dollars)
    BY <1>5 DEF Breached, Gov!Breach, Gov!HaltTokenBudget, Gov!HaltDollarBudget, Gov!HaltTimeBudget,
                Gov!HaltNone
  <2>2. r = g
    BY <1>5 DEF Gov!CheckLocked, Gov!HaltNone
  <2>3. QED
    BY <2>1, <2>2
<1>6. QED
  BY <1>4, <1>5

\* What one governed call makes of a run: a halted run stays so, a running one that
\* goes on is charged and within every limit, and one that halts has used up its
\* time or exceeds the limit its reason names.
CallResult(b, g, call, r) ==
    /\ r \in LiveRuns
    /\ g.halted # "" => r.halted = g.halted
    /\ g.halted = "" =>
         /\ \/ r.loops = g.loops
            \/ /\ r.loops = g.loops + 1
               /\ \/ r.tokens = g.tokens /\ r.dollars = g.dollars
                  \/ r.tokens = g.tokens + call.tokens /\ r.dollars = g.dollars + call.dollars
         /\ r.halted = "" =>
              /\ r.loops = g.loops + 1
              /\ r.tokens = g.tokens + call.tokens /\ r.dollars = g.dollars + call.dollars
              /\ ~OverBudget(b, r.tokens, r.dollars, r.loops)
         /\ r.halted # "" =>
              \/ r.halted = "time_budget_exceeded"
              \/ Exceeded(b, g.tokens + call.tokens, g.dollars + call.dollars, g.loops + 1, r.halted)

\* Governed does that.
LEMMA GovernedOK ==
    ASSUME NEW b \in Budgets, NEW u \in LiveRuns, NEW call \in Steps,
           NEW r, r = Governed(b, u, call)
    PROVE  CallResult(b, u, call, r)
<1>1. b.tokens \in Int /\ b.dollars \in Int /\ b.loops \in Int /\ b.seconds \in Int
  BY DEF Budgets, Dimensions
<1>2. /\ u.tokens \in Nat /\ u.dollars \in Nat /\ u.loops \in Nat
      /\ call.tokens \in Nat /\ call.dollars \in Nat /\ call.begun \in Nat /\ call.done \in Nat
  BY DEF LiveRuns, Steps
<1> DEFINE g == [u EXCEPT !.elapsed = call.begun]
<1>3. /\ g \in LiveRuns /\ g.halted = u.halted
      /\ g.tokens = u.tokens /\ g.dollars = u.dollars /\ g.loops = u.loops
  BY <1>2 DEF LiveRuns
<1> DEFINE begun == Gov(b)!PreStep(g)
           open  == Gov(b)!CanProceed(begun)
<1>4. r = IF begun.halted # "" THEN begun
          ELSE IF open.halted # "" THEN open
          ELSE Gov(b)!RecordUsage([open EXCEPT !.elapsed = call.done], call)
  BY DEF Governed
<1> HIDE DEF g
<1>5. CASE u.halted # ""
  <2>1. begun = g
    BY <1>3, <1>5 DEF Gov!PreStep, Gov!HaltNone
  <2>2. r = g
    BY <1>3, <1>4, <1>5, <2>1
  <2>3. QED
    BY <1>3, <1>5, <2>2 DEF CallResult
<1>6. CASE u.halted = "" /\ Gov(b)!Expired(g)
  <2>1. begun = [g EXCEPT !.halted = "time_budget_exceeded", !.ctxDone = TRUE]
    BY <1>3, <1>6 DEF Gov!PreStep, Gov!HaltNone, Gov!HaltLocked, Gov!HaltTimeBudget
  <2>2. /\ begun \in LiveRuns /\ begun.halted = "time_budget_exceeded"
        /\ begun.tokens = u.tokens /\ begun.dollars = u.dollars /\ begun.loops = u.loops
    BY <1>3, <2>1 DEF LiveRuns, HaltReasons, HaltTimeBudget
  <2>3. r = begun
    BY <1>4, <2>2
  <2> HIDE DEF begun, open
  <2>4. QED
    BY <1>6, <2>2, <2>3 DEF CallResult
<1>7. CASE u.halted = "" /\ ~Gov(b)!Expired(g) /\ b.loops > 0 /\ u.loops + 1 > b.loops
  <2>1. begun = [g EXCEPT !.halted = "loop_budget_exceeded", !.ctxDone = TRUE]
    BY <1>3, <1>7 DEF Gov!PreStep, Gov!HaltNone, Gov!HaltLocked, Gov!HaltLoopBudget
  <2>2. /\ begun \in LiveRuns /\ begun.halted = "loop_budget_exceeded"
        /\ begun.tokens = u.tokens /\ begun.dollars = u.dollars /\ begun.loops = u.loops
    BY <1>3, <2>1 DEF LiveRuns, HaltReasons, HaltLoopBudget
  <2>3. r = begun
    BY <1>4, <2>2
  <2> HIDE DEF begun, open
  <2>4. Exceeded(b, u.tokens + call.tokens, u.dollars + call.dollars, u.loops + 1, r.halted)
    BY <1>7, <2>2, <2>3 DEF Exceeded
  <2>5. r.loops = u.loops /\ r.halted # "" /\ r \in LiveRuns
    BY <2>2, <2>3
  <2>6. QED
    BY <1>7, <2>4, <2>5, Zenon DEF CallResult
<1>8. CASE u.halted = "" /\ ~Gov(b)!Expired(g) /\ ~(b.loops > 0 /\ u.loops + 1 > b.loops)
  <2>1. begun = [g EXCEPT !.loops = u.loops + 1]
    BY <1>3, <1>8 DEF Gov!PreStep, Gov!HaltNone
  <2>2. open = Gov(b)!CheckLocked(begun)
    BY DEF Gov!CanProceed
  <2> HIDE DEF begun, open
  <2>3. /\ begun \in LiveRuns /\ begun.halted = ""
        /\ begun.tokens = u.tokens /\ begun.dollars = u.dollars /\ begun.loops = u.loops + 1
    <3>1. u.loops + 1 \in Nat
      BY <1>2
    <3>2. \A l \in Nat : /\ [g EXCEPT !.loops = l] \in LiveRuns
                        /\ [g EXCEPT !.loops = l].halted = g.halted
                        /\ [g EXCEPT !.loops = l].tokens = g.tokens
                        /\ [g EXCEPT !.loops = l].dollars = g.dollars
                        /\ [g EXCEPT !.loops = l].loops = l
      BY <1>3 DEF LiveRuns
    <3>3. QED
      BY <1>3, <1>8, <2>1, <3>1, <3>2, Zenon
  <2>4. /\ open \in LiveRuns
        /\ open.tokens = u.tokens /\ open.dollars = u.dollars /\ open.loops = u.loops + 1
        /\ open.halted = "" => open = begun
        /\ open.halted # "" => \/ open.halted = "time_budget_exceeded"
                               \/ Exceeded(b, u.tokens, u.dollars, u.loops + 1, open.halted)
    <3>1. Checked(b, begun, open)
      BY <2>2, <2>3, CheckOK, Zenon
    <3>2. QED
      BY <2>3, <3>1, Zenon DEF Checked
  <2>5. /\ u.tokens + call.tokens \in Nat /\ u.dollars + call.dollars \in Nat /\ u.loops + 1 \in Nat
        /\ u.tokens + call.tokens >= u.tokens /\ u.dollars + call.dollars >= u.dollars
        /\ u.loops + 1 >= u.loops + 1
    BY <1>2
  <2>6. CASE open.halted # ""
    <3>1. r = open
      BY <1>4, <2>3, <2>6
    <3>2. \/ r.halted = "time_budget_exceeded"
          \/ Exceeded(b, u.tokens + call.tokens, u.dollars + call.dollars, u.loops + 1, r.halted)
      <4>1. CASE r.halted = "time_budget_exceeded"
        BY <4>1
      <4>2. CASE Exceeded(b, u.tokens, u.dollars, u.loops + 1, r.halted)
        BY <1>1, <1>2, <4>2 DEF Exceeded
      <4>3. QED
        BY <2>4, <2>6, <3>1, <4>1, <4>2
    <3>3. QED
      BY <1>8, <2>4, <2>6, <3>1, <3>2, Zenon DEF CallResult
  <2>7. CASE open.halted = ""
    <3> DEFINE h == [open EXCEPT !.elapsed = call.done, !.tokens = u.tokens + call.tokens,
                                 !.dollars = u.dollars + call.dollars]
    <3>1. r = Gov(b)!RecordUsage([open EXCEPT !.elapsed = call.done], call)
      BY <1>4, <2>3, <2>7
    <3>2. Gov(b)!RecordUsage([open EXCEPT !.elapsed = call.done], call) = Gov(b)!CheckLocked(h)
      <4>1. [[open EXCEPT !.elapsed = call.done] EXCEPT !.tokens = @ + call.tokens,
                                                       !.dollars = @ + call.dollars] = h
        BY <2>4 DEF LiveRuns
      <4>2. QED
        BY <4>1 DEF Gov!RecordUsage
    <3>3. /\ h \in LiveRuns /\ h.halted = "" /\ h.loops = u.loops + 1
          /\ h.tokens = u.tokens + call.tokens /\ h.dollars = u.dollars + call.dollars
      BY <1>2, <2>4, <2>5, <2>7 DEF LiveRuns
    <3> HIDE DEF h
    <3>4. /\ r \in LiveRuns
          /\ r.tokens = h.tokens /\ r.dollars = h.dollars /\ r.loops = h.loops
          /\ r.halted = "" => ~Breached(b, h.tokens, h.dollars)
          /\ r.halted # "" => \/ r.halted = "time_budget_exceeded"
                              \/ Exceeded(b, h.tokens, h.dollars, u.loops + 1, r.halted)
      <4>1. r = Gov(b)!CheckLocked(h)
        BY <3>1, <3>2
      <4>2. h \in LiveRuns /\ h.halted = ""
        BY <3>3
      <4>3. Checked(b, h, r)
        BY <4>1, <4>2, CheckOK, Zenon
      <4>4. QED
        BY <4>3, Zenon DEF Checked
    <3>5. r.halted = "" => ~OverBudget(b, r.tokens, r.dollars, r.loops)
      BY <1>8, <3>3, <3>4 DEF OverBudget
    <3>6. r.halted # "" =>
              \/ r.halted = "time_budget_exceeded"
              \/ Exceeded(b, u.tokens + call.tokens, u.dollars + call.dollars, u.loops + 1, r.halted)
      BY <3>3, <3>4
    <3>7. /\ r.tokens = u.tokens + call.tokens /\ r.dollars = u.dollars + call.dollars
          /\ r.loops = u.loops + 1
      BY <3>3, <3>4
    <3>8. QED
      BY <1>8, <3>4, <3>5, <3>6, <3>7, Zenon DEF CallResult
  <2>8. QED
    BY <2>6, <2>7
<1>9. QED
  BY <1>5, <1>6, <1>7, <1>8

----------------------------------------------------------------------------
(* The run.                                                                *)

\* The forms of the run.
LEMMA RunForm ==
    ASSUME NEW r \in Runs
    PROVE  /\ r \in [budget : Budgets, ref : {b.ref : b \in RunBodies} \cup {Absent}, gov : LiveRuns]
           /\ r.budget \in Budgets /\ r.gov \in LiveRuns
           /\ \A g \in LiveRuns : /\ [r EXCEPT !.gov = g] \in Runs
                                  /\ [r EXCEPT !.gov = g].gov = g
                                  /\ [r EXCEPT !.gov = g].ref = r.ref
                                  /\ [r EXCEPT !.gov = g].budget = r.budget
<1>1. Runs = [budget : Budgets, ref : {b.ref : b \in RunBodies} \cup {Absent}, gov : LiveRuns]
  BY SameRuns DEF Runs
<1> DEFINE Refs == {b.ref : b \in RunBodies} \cup {Absent}
<1> HIDE DEF Refs
<1>2. Runs = [budget : Budgets, ref : Refs, gov : LiveRuns]
  BY <1>1 DEF Refs
<1>3. QED
  BY <1>1, <1>2

\* The budget a new run gets from a bundle, its own request or the daemon.
LEMMA BudgetForm ==
    ASSUME BootInv, TableInv, pc = "serving", NEW body, body.budget \in Budgets \cup {Absent},
           body.ref # Absent => body.ref \in DOMAIN policies
    PROVE  BundleBudget(body.ref) \in Budgets /\ RequestedBudget(body) \in Budgets
<1>1. Unlimited \in Budgets
  BY DEF Unlimited, Budgets
<1>2. BundleBudget(body.ref) \in Budgets
  <2>1. CASE body.ref = Absent
    BY <1>1, <2>1 DEF BundleBudget
  <2>2. CASE body.ref # Absent
    <3>1. policies[body.ref] \in PolicyRecords
      BY <2>2 DEF TableInv
    <3>2. policies[body.ref].budget \in Budgets
      BY <3>1 DEF PolicyRecords
    <3>3. QED
      BY <2>2, <3>2 DEF BundleBudget, GetPolicy
  <2>3. QED
    BY <2>1, <2>2
<1>3. ASSUME NEW x \in Budgets, NEW y \in Budgets PROVE MergedBudget(x, y) \in Budgets
  BY DEF MergedBudget, Budgets
<1>4. conf.budget \in Budgets
  BY ConfBudget
<1>5. QED
  BY <1>2, <1>3, <1>4 DEF RequestedBudget

\* newRun, from POST /v1/runs or from the proxy.
LEMMA MintOK ==
    ASSUME IInv, pc = "serving", run = Absent, NEW body,
           body.budget \in Budgets \cup {Absent}, body.ref \in {b.ref : b \in RunBodies} \cup {Absent},
           body.ref # Absent => body.ref \in DOMAIN policies,
           MintRun(RequestedBudget(body), body), UNCHANGED <<policies, calls>>
    PROVE  RunInv' /\ UnlimitedIsChosen' /\ CallsInv'
<1>0. BootInv /\ TableInv /\ CallsInv
  BY DEF IInv
<1> DEFINE B == RequestedBudget(body)
           base == BundleBudget(body.ref)
           inline == body.budget
<1>1. B \in Budgets /\ base \in Budgets
  BY <1>0, BudgetForm
<1>2. run' = [budget |-> B, ref |-> body.ref, gov |-> NewRun]
  BY SameRuns DEF MintRun
<1>3. asked' = [body |-> body, env |-> env, base |-> base]
  BY DEF MintRun
<1>4. B = IF inline # Absent THEN MergedBudget(base, inline)
          ELSE IF body.ref # Absent THEN base ELSE conf.budget
  BY DEF RequestedBudget
<1>5. base = Unlimited \/ body.ref # Absent
  BY DEF BundleBudget
<1>6. inline # Absent => inline \in Budgets
  OBVIOUS
<1> HIDE DEF B, base, inline
<1>7. run' \in Runs
  <2>1. Runs = [budget : Budgets, ref : {b.ref : b \in RunBodies} \cup {Absent}, gov : LiveRuns]
    BY SameRuns DEF Runs
  <2>2. NewRun \in LiveRuns
    BY SameRuns
  <2> DEFINE Refs == {b.ref : b \in RunBodies} \cup {Absent}
  <2>3. body.ref \in Refs /\ Runs = [budget : Budgets, ref : Refs, gov : LiveRuns]
    BY <2>1
  <2> HIDE DEF Refs
  <2>4. QED
    BY <1>1, <1>2, <2>2, <2>3
<1>8. /\ run'.budget = B /\ run'.ref = body.ref /\ run'.gov = NewRun
      /\ asked'.body = body /\ asked'.env = env /\ asked'.base = base
  BY <1>2, <1>3
<1>9. RunInv'
  BY <1>7, <1>8 DEF RunInv
<1>10. CallsInv'
  <2>1. calls' = calls /\ calls = <<>> /\ calls \in Seq(Steps) /\ run' # Absent
    BY <1>0, <1>7, BundlesAssumption DEF CallsInv
  <2>2. Len(<<>>) = 0
    OBVIOUS
  <2>3. run'.gov.loops = 0
    BY <1>8, SameRuns
  <2>4. QED
    BY <2>1, <2>2, <2>3 DEF CallsInv
<1>11. ASSUME NEW v \in {"dollars", "loops", "seconds"}, B[v] <= 0
       PROVE  \/ inline # Absent /\ inline[v] < 0
              \/ body.ref # Absent /\ base[v] <= 0
              \/ body.ref = Absent /\ inline # Absent /\ inline[v] = 0
              \/ /\ body.ref = Absent /\ inline = Absent
                 /\ \E w \in Dimensions : Effective(env)[w].kind = "num"
                 /\ Effective(env)[v].kind = "num" => Effective(env)[v].n = 0
  <2>1. v \in Dimensions
    BY DEF Dimensions
  <2>2. CASE inline # Absent
    <3>1. B[v] = IF inline[v] # 0 THEN inline[v] ELSE base[v]
      BY <1>4, <2>1, <2>2 DEF MergedBudget
    <3>2. inline[v] \in Int
      BY <1>6, <2>1, <2>2 DEF Budgets
    <3>3. CASE inline[v] # 0
      <4>1. B[v] = inline[v]
        BY <3>1, <3>3
      <4>2. inline[v] < 0
        BY <1>11, <3>2, <3>3, <4>1
      <4>3. QED
        BY <2>2, <4>2
    <3>4. CASE inline[v] = 0
      <4>1. B[v] = base[v]
        BY <3>1, <3>4
      <4>2. base[v] <= 0
        BY <1>11, <4>1
      <4>3. QED
        BY <2>2, <3>4, <4>2
    <3>5. QED
      BY <3>3, <3>4
  <2>3. CASE inline = Absent /\ body.ref # Absent
    <3>1. B = base
      BY <1>4, <2>3
    <3>2. QED
      BY <1>11, <2>3, <3>1
  <2>4. CASE inline = Absent /\ body.ref = Absent
    <3>1. B = Load(env).budget /\ env \in Environments /\ Loads(env)
      BY <1>0, <1>4, <2>4 DEF BootInv
    <3>2. Load(env).budget[v] <= 0
      BY <1>11, <3>1
    <3>3. /\ \E w \in Dimensions : Effective(env)[w].kind = "num"
          /\ Effective(env)[v].kind = "num" => Effective(env)[v].n = 0
      BY <3>1, <3>2, LoadOK
    <3>4. QED
      BY <2>4, <3>3
  <2>5. QED
    BY <2>2, <2>3, <2>4
<1>12. UnlimitedIsChosen'
  BY <1>8, <1>11 DEF UnlimitedIsChosen, inline
<1>13. QED
  BY <1>9, <1>10, <1>12

\* A step that leaves the run alone and takes no bundle away.
LEMMA RunSame ==
    ASSUME IInv, UNCHANGED <<run, asked, calls>>, DOMAIN policies \subseteq DOMAIN policies'
    PROVE  RunInv' /\ UnlimitedIsChosen' /\ CallsInv'
<1>1. RunInv'
  BY DEF IInv, RunInv
<1>2. UnlimitedIsChosen'
  BY DEF IInv, UnlimitedIsChosen
<1>3. CallsInv'
  BY DEF IInv, CallsInv
<1>4. QED
  BY <1>1, <1>2, <1>3

\* A run that comes back after a restart differs in its clock only.
LEMMA ListenOK ==
    ASSUME IInv, Listen
    PROVE  RunInv' /\ UnlimitedIsChosen' /\ CallsInv'
<1>1. /\ run' = IF run = Absent THEN Absent ELSE [run EXCEPT !.gov.elapsed = 0]
      /\ UNCHANGED <<asked, calls, policies>>
  BY DEF Listen
<1>2. CASE run = Absent
  BY <1>1, <1>2, RunSame
<1>3. CASE run # Absent
  <2> DEFINE u == run.gov
             g == [u EXCEPT !.elapsed = 0]
  <2>1. run \in Runs /\ u \in LiveRuns
    BY <1>3, RunForm DEF IInv, RunInv
  <2>2. run' = [run EXCEPT !.gov = g]
    BY <1>1, <1>3
  <2>3. g \in LiveRuns /\ g.loops = u.loops
    BY <2>1 DEF LiveRuns
  <2> HIDE DEF g
  <2>4. run' \in Runs /\ run'.gov = g /\ run'.ref = run.ref /\ run'.budget = run.budget
    BY <2>1, <2>2, <2>3, RunForm
  <2>5. run' # Absent
    BY <2>4, BundlesAssumption
  <2>6. RunInv'
    BY <1>1, <1>3, <2>4, <2>5 DEF IInv, RunInv
  <2>7. UnlimitedIsChosen'
    BY <1>1, <1>3, <2>4, <2>5 DEF IInv, UnlimitedIsChosen
  <2>8. CallsInv'
    BY <1>1, <1>3, <2>3, <2>4, <2>5 DEF IInv, CallsInv
  <2>9. QED
    BY <2>6, <2>7, <2>8
<1>4. QED
  BY <1>2, <1>3

\* A model call adds one charge for each admitted step.
LEMMA CallOK ==
    ASSUME IInv, NEW call \in Steps, ModelCall(call)
    PROVE  RunInv' /\ UnlimitedIsChosen' /\ CallsInv'
<1> DEFINE g == Governed(run.budget, run.gov, call)
<1>1. /\ run # Absent /\ run.gov.halted = "" /\ run' = [run EXCEPT !.gov = g]
      /\ calls' = IF g.loops = run.gov.loops THEN calls
                  ELSE Append(calls, [call EXCEPT !.tokens = g.tokens - run.gov.tokens,
                                                  !.dollars = g.dollars - run.gov.dollars])
      /\ UNCHANGED <<policies, asked>>
  BY DEF ModelCall
<1>2. run \in Runs /\ RunInv /\ CallsInv /\ UnlimitedIsChosen
  BY <1>1 DEF IInv, RunInv
<1>4. run.budget \in Budgets /\ run.gov \in LiveRuns /\ run.gov.loops = Len(calls)
  <2>1. run.budget \in Budgets /\ run.gov \in LiveRuns
    BY <1>2, RunForm
  <2>2. run.gov.loops = Len(calls)
    BY <1>1, <1>2 DEF CallsInv
  <2>3. QED
    BY <2>1, <2>2
<1>5. /\ g \in LiveRuns
      /\ \/ g.loops = run.gov.loops
         \/ /\ g.loops = run.gov.loops + 1
            /\ \/ g.tokens = run.gov.tokens /\ g.dollars = run.gov.dollars
               \/ g.tokens = run.gov.tokens + call.tokens /\ g.dollars = run.gov.dollars + call.dollars
  <2>1. CallResult(run.budget, run.gov, call, g)
    BY <1>4, GovernedOK
  <2> HIDE DEF g
  <2>2. QED
    BY <1>1, <2>1, Zenon DEF CallResult
<1> HIDE DEF g
<1>6. /\ run' \in Runs /\ run'.gov = g /\ run'.ref = run.ref /\ run'.budget = run.budget
  BY <1>1, <1>2, <1>5, RunForm
<1>7. RunInv'
  BY <1>1, <1>2, <1>6 DEF RunInv
<1>8. UnlimitedIsChosen'
  BY <1>1, <1>2, <1>6 DEF UnlimitedIsChosen
<1>9. calls \in Seq(Steps) /\ run' # Absent /\ Len(calls) \in Nat
  BY <1>2, <1>6, BundlesAssumption DEF CallsInv
<1>10. CallsInv'
  <2>1. CASE g.loops = run.gov.loops
    <3>1. calls' = calls
      BY <1>1, <2>1
    <3>2. QED
      BY <1>4, <1>5, <1>6, <1>9, <2>1, <3>1 DEF CallsInv
  <2>2. CASE g.loops = run.gov.loops + 1
               /\ \/ g.tokens = run.gov.tokens /\ g.dollars = run.gov.dollars
                  \/ g.tokens = run.gov.tokens + call.tokens /\ g.dollars = run.gov.dollars + call.dollars
    <3> DEFINE k == [call EXCEPT !.tokens = g.tokens - run.gov.tokens,
                                 !.dollars = g.dollars - run.gov.dollars]
    <3>1. run.gov.loops \in Nat /\ run.gov.tokens \in Nat /\ run.gov.dollars \in Nat
          /\ call.tokens \in Nat /\ call.dollars \in Nat
      BY <1>4 DEF LiveRuns, Steps
    <3>2. g.tokens - run.gov.tokens \in Nat /\ g.dollars - run.gov.dollars \in Nat /\ g.loops # run.gov.loops
      BY <2>2, <3>1
    <3>3. k \in Steps
      BY <3>2 DEF Steps
    <3>4. calls' = Append(calls, k)
      BY <1>1, <3>2
    <3> HIDE DEF k
    <3>5. calls' \in Seq(Steps) /\ Len(calls') = Len(calls) + 1
      BY <1>9, <3>3, <3>4
    <3>6. QED
      BY <1>4, <1>5, <1>6, <1>9, <2>2, <3>5 DEF CallsInv
  <2>3. QED
    BY <1>5, <2>1, <2>2
<1>11. QED
  BY <1>7, <1>8, <1>10

----------------------------------------------------------------------------
(* Tool calls.                                                             *)

\* A bundle is never mistaken for none, and its rules are those of the record.
LEMMA AsBundleOK ==
    ASSUME NEW b \in PolicyRecords
    PROVE  /\ AsBundle(b) # NoBundle /\ AsBundle(b).allow = {p.matches : p \in b.allow}
           /\ AsBundle(b).tools = b.tools /\ AsBundle(b).effects = b.effects /\ b # Absent
<1>1. /\ b.allow \in SUBSET Patterns /\ b.tools \in SUBSET Tools /\ b.effects \in SUBSET STRING
  BY DEF PolicyRecords
<1>2. {p.matches : p \in b.allow} \in SUBSET SUBSET Tools
  BY <1>1 DEF Patterns
<1>3. AsBundle(b) \in Rules(TRUE, {})!Bundles
  BY <1>1, <1>2 DEF AsBundle, Rules!Bundles
<1>4. QED
  BY <1>3, BundlesAssumption DEF AsBundle

\* What a run's bundle has to say about a tool that is not blocked.
LEMMA BundleDecides ==
    ASSUME NEW b \in PolicyRecords, NEW tool, Allowed(tool, AsBundle(b))
    PROVE  /\ b.allow # {} => \E p \in b.allow : tool \in p.matches
           /\ tool \in b.tools => Asks(tool, AsBundle(b))
<1> DEFINE c == AsBundle(b)
<1>1. c # NoBundle /\ c.allow = {p.matches : p \in b.allow} /\ c.tools = b.tools
  BY AsBundleOK
<1>2. Allowed(tool, c)
  OBVIOUS
<1> HIDE DEF c
<1>3. b.allow # {} => c.allow # {}
  BY <1>1
<1>4. c.allow # {} => \E m \in c.allow : tool \in m
  BY <1>1, <1>2 DEF Allowed, Rules!AllowedFor
<1>5. b.allow # {} => \E p \in b.allow : tool \in p.matches
  BY <1>1, <1>3, <1>4
<1>6. tool \in b.tools => Asks(tool, c)
  BY <1>1 DEF Asks, Rules!NeedsApproval, Rules!Requires, Rules!BundlePolicy
<1>7. QED
  BY <1>5, <1>6 DEF c

\* mcp.handle records a row as the run's bundle decides.
LEMMA ToolOK ==
    ASSUME IInv, NEW tool \in Tools, NEW failed \in BOOLEAN, ToolCall(tool, failed)
    PROVE  ToolsInv'
<1> DEFINE bundle == RunPolicy(failed)
           under  == IF asked.body.ref = Absent THEN Absent ELSE policies[asked.body.ref]
           Entry(status, effect, gated) == [tool |-> tool, under |-> under, failed |-> failed,
                                            status |-> status, effect |-> effect, gated |-> gated]
<1>1. PICK human \in {"denied", "approved"} :
        tools' = Append(tools,
              IF ~Allowed(tool, bundle) THEN Entry("blocked", "", FALSE)
              ELSE IF Asks(tool, bundle) THEN Entry(human, Effect(tool), TRUE)
              ELSE Entry("approved", Effect(tool), FALSE))
  BY DEF ToolCall
<1>2. run # Absent
  BY DEF ToolCall
<1>3. run.ref = asked.body.ref /\ (run.ref # Absent => run.ref \in DOMAIN policies)
  BY <1>2 DEF IInv, RunInv
<1>4. (under # Absent /\ ~failed) => under \in PolicyRecords /\ bundle = AsBundle(under)
  <2>1. CASE failed \/ run.ref = Absent
    BY <1>3, <2>1
  <2>2. CASE ~failed /\ run.ref # Absent
    <3>1. under = policies[run.ref] /\ GetPolicy(run.ref) = policies[run.ref]
      BY <1>3, <2>2 DEF GetPolicy
    <3>2. policies[run.ref] \in PolicyRecords
      BY <1>3, <2>2 DEF IInv, TableInv
    <3>3. GetPolicy(run.ref) # Absent
      BY <3>1, <3>2, AsBundleOK
    <3>4. QED
      BY <2>2, <3>1, <3>2, <3>3 DEF RunPolicy
  <2>3. QED
    BY <2>1, <2>2
<1> HIDE DEF bundle, under
<1> DEFINE e == IF ~Allowed(tool, bundle) THEN Entry("blocked", "", FALSE)
                ELSE IF Asks(tool, bundle) THEN Entry(human, Effect(tool), TRUE)
                ELSE Entry("approved", Effect(tool), FALSE)
<1>5. EntryOK(e)
  <2>1. CASE ~Allowed(tool, bundle)
    <3>1. e = Entry("blocked", "", FALSE)
      BY <2>1
    <3>2. QED
      BY <3>1 DEF EntryOK, GovernedEntry
  <2>2. CASE Allowed(tool, bundle)
    <3>1. /\ e.tool = tool /\ e.under = under /\ e.failed = failed /\ e.effect = Effect(tool)
          /\ e.status \in {"denied", "approved"}
          /\ Asks(tool, bundle) => e.gated = TRUE
      BY <2>2
    <3> HIDE DEF e
    <3>2. (under # Absent /\ ~failed) =>
                            /\ under.allow # {} => \E p \in under.allow : tool \in p.matches
                            /\ tool \in under.tools => Asks(tool, bundle)
      BY <1>4, <2>2, BundleDecides
    <3>3. GovernedEntry(e)
      BY <3>1, <3>2 DEF GovernedEntry
    <3>4. QED
      BY <3>1, <3>3 DEF EntryOK
  <2>3. QED
    BY <2>1, <2>2
<1>6. tools' = Append(tools, e)
  BY <1>1
<1> HIDE DEF e
<1>7. IsLog(tools) /\ \A i \in DOMAIN tools : EntryOK(tools[i])
  BY DEF IInv, ToolsInv
<1>8. IsLog(tools') /\ \A i \in DOMAIN tools' : EntryOK(tools'[i])
  BY <1>5, <1>6, <1>7, AppendToLog
<1>9. QED
  BY <1>8 DEF ToolsInv

----------------------------------------------------------------------------
(* The invariant and the theorems.                                         *)

\* The invariant is inductive.
LEMMA Inductive == Spec => []IInv
<1>1. Init => IInv
  <2> SUFFICES ASSUME Init PROVE IInv
    OBVIOUS
  <2>1. BootInv /\ TableInv /\ AppliedInv /\ RunInv /\ UnlimitedIsChosen
    BY DEF Init, BootInv, TableInv, AppliedInv, RunInv, UnlimitedIsChosen
  <2>2. CallsInv
    BY DEF Init, CallsInv
  <2>3. ToolsInv
    BY DEF Init, ToolsInv, IsLog
  <2>4. QED
    BY <2>1, <2>2, <2>3 DEF IInv
<1>2. IInv /\ [Next]_vars => IInv'
  <2> SUFFICES ASSUME IInv, [Next]_vars PROVE IInv'
    OBVIOUS
  <2>0. BootInv /\ TableInv /\ AppliedInv
    BY DEF IInv
  <2>1. ASSUME UNCHANGED tools PROVE ToolsInv'
    BY <2>1 DEF IInv, ToolsInv
  <2>2. CASE UNCHANGED vars
    <3>1. UNCHANGED <<booting, policies, posted, run, asked, calls, tools>>
      BY <2>2 DEF vars, booting
    <3>2. QED
      BY <2>0, <2>1, <3>1, BootSame, RunSame DEF IInv
  <2>3. CASE \/ \E e \in Environments, f \in Files \cup {NoFile} : Start(e, f)
             \/ RegisterPolicyFile \/ Stop
             \/ \E body \in Bodies : RegisterPolicy(body)
    <3>1. UNCHANGED <<run, asked, calls, tools>>
      BY <2>3 DEF Start, RegisterPolicyFile, Stop, RegisterPolicy
    <3>2. BootInv' /\ TableInv' /\ AppliedInv' /\ DOMAIN policies \subseteq DOMAIN policies'
      BY <2>0, <2>3, BootStep
    <3>3. QED
      BY <2>1, <3>1, <3>2, RunSame DEF IInv
  <2>l. CASE Listen
    <3>1. UNCHANGED tools
      BY <2>l DEF Listen
    <3>2. BootInv' /\ TableInv' /\ AppliedInv'
      BY <2>0, <2>l, BootStep
    <3>3. QED
      BY <2>1, <2>l, <3>1, <3>2, ListenOK DEF IInv
  <2>4. ASSUME NEW body \in RunBodies, CreateRun(body) PROVE IInv'
    <3>1. /\ pc = "serving" /\ run = Absent /\ (body.ref # Absent => GetPolicy(body.ref) # Absent)
          /\ MintRun(RequestedBudget(body), body) /\ UNCHANGED <<booting, policies, posted, calls, tools>>
      BY <2>4 DEF CreateRun
    <3>2. body.budget \in Budgets \cup {Absent} /\ body.ref \in {b.ref : b \in RunBodies} \cup {Absent}
      BY BundlesAssumption
    <3>3. body.ref # Absent => body.ref \in DOMAIN policies
      BY <3>1 DEF GetPolicy
    <3>4. RunInv' /\ UnlimitedIsChosen' /\ CallsInv'
      BY <3>1, <3>2, <3>3, MintOK
    <3>5. QED
      BY <2>0, <2>1, <3>1, <3>4, BootSame DEF IInv
  <2>5. CASE ProxyRun
    <3> DEFINE body == [ref |-> Absent, budget |-> Absent]
    <3>1. /\ pc = "serving" /\ run = Absent
          /\ MintRun(conf.budget, body) /\ UNCHANGED <<booting, policies, posted, calls, tools>>
      BY <2>5 DEF ProxyRun
    <3>2. body.budget = Absent /\ body.ref = Absent
      OBVIOUS
    <3> HIDE DEF body
    <3>3. RequestedBudget(body) = conf.budget
      BY <3>2 DEF RequestedBudget
    <3>4. RunInv' /\ UnlimitedIsChosen' /\ CallsInv'
      BY <3>1, <3>2, <3>3, MintOK
    <3>5. QED
      BY <2>0, <2>1, <3>1, <3>4, BootSame DEF IInv
  <2>6. ASSUME NEW cost \in Costs, NEW begun \in 0..MaxSeconds, NEW done \in 0..MaxSeconds,
               NEW call, call = [tokens |-> cost.tokens, dollars |-> cost.dollars,
                                 begun |-> begun, done |-> done],
               ModelCall(call)
        PROVE  IInv'
    <3>0. call \in Steps
      <4>1. cost.tokens \in Nat /\ cost.dollars \in Nat /\ begun \in Nat /\ done \in Nat
        BY BundlesAssumption
      <4>2. QED
        BY <2>6, <4>1 DEF Steps
    <3>1. UNCHANGED <<booting, policies, posted, tools>>
      BY <2>6 DEF ModelCall
    <3>2. QED
      BY <2>0, <2>1, <2>6, <3>0, <3>1, BootSame, CallOK DEF IInv
  <2>7. ASSUME NEW tool \in Tools, NEW failed \in BOOLEAN, ToolCall(tool, failed) PROVE IInv'
    <3>1. UNCHANGED <<booting, policies, posted, run, asked, calls>>
      BY <2>7 DEF ToolCall
    <3>2. QED
      BY <2>0, <2>7, <3>1, BootSame, RunSame, ToolOK DEF IInv
  <2>8. QED
    BY <2>2, <2>3, <2>l, <2>4, <2>5, <2>6, <2>7 DEF Next
<1>3. QED
  BY <1>1, <1>2, PTL DEF Spec

\* The daemon's budget, the policies table, the run and its rows keep their form,
\* whatever the operator, the policy file and the callers of the API send.
THEOREM TypeCorrect == Spec => []TypeOK
<1>1. IInv => TypeOK
  <2> SUFFICES ASSUME IInv PROVE TypeOK
    OBVIOUS
  <2>1. pc = "serving" => /\ conf.budget \in [Dimensions -> Nat]
                          /\ conf.budget.loops <= MaxInt32 /\ conf.budget.seconds <= MaxInt32
    BY ConfBudget DEF IInv
  <2>2. pc = "serving" => DOMAIN conf.budget = Dimensions /\ \A v \in Dimensions : conf.budget[v] \in Nat
    BY <2>1
  <2>3. \A i \in DOMAIN tools : tools[i].status \in {"blocked", "denied", "approved"}
    BY DEF IInv, ToolsInv, EntryOK
  <2>4. QED
    BY <2>1, <2>2, <2>3 DEF IInv, BootInv, TableInv, RunInv, TypeOK
<1>2. QED
  BY <1>1, Inductive, PTL

\* A daemon that serves has applied its whole policy file, whatever earlier
\* starts, also ones that failed half-way, left in the policies table.
THEOREM FileAppliedHolds == Spec => []FileApplied
<1>1. IInv => FileApplied
  <2> SUFFICES ASSUME IInv, pc = "serving", NEW i \in DOMAIN file.policies PROVE Applied(file.policies[i])
    BY DEF FileApplied, Applied
  <2>1. FileLoads(file) /\ at = Len(file.policies) + 1
    BY DEF IInv, BootInv
  <2>2. Len(file.policies) \in Nat /\ DOMAIN file.policies = 1..Len(file.policies)
    BY <2>1, FileOK
  <2>3. i < at
    BY <2>1, <2>2
  <2>4. QED
    BY <2>3 DEF IInv, AppliedInv
<1>2. QED
  BY <1>1, Inductive, PTL

\* For every environment, bundle and request: a run has no limit on dollars,
\* loops or time only if somebody left that limit out.
THEOREM UnlimitedIsChosenHolds == Spec => []UnlimitedIsChosen
<1>1. IInv => UnlimitedIsChosen
  BY DEF IInv
<1>2. QED
  BY <1>1, Inductive, PTL

\* For every bundle and every later registration and restart: the tool calls of a
\* run whose bundle the gateway can read are decided by the one it was created
\* under.
THEOREM BundleGovernsHolds == Spec => []BundleGoverns
<1>1. IInv => BundleGoverns
  BY DEF IInv, ToolsInv, EntryOK, GovernedEntry, BundleGoverns
<1>2. QED
  BY <1>1, Inductive, PTL

----------------------------------------------------------------------------
(* The dry run: its two folds over the recorded calls as loops.            *)

\* g[k] is what the first k calls cost.
IsTally(g, n, dim) ==
    /\ g \in [0..n -> Nat] /\ g[0] = 0 /\ g[n] = Total(dim)
    /\ \A k \in 1..n : g[k] = g[k - 1] + calls[k][dim]

\* SQLite.Totals adds the calls up one after the other.
LEMMA TotalIsLoop ==
    ASSUME NEW n \in Nat, DOMAIN calls = 1..n, NEW dim, \A k \in 1..n : calls[k][dim] \in Nat
    PROVE  \E g : IsTally(g, n, dim)
<1> DEFINE f == [p \in (1..n) \X Nat |-> p[2] + calls[p[1]][dim]]
           Step(h) == [T \in SUBSET (1..n) |->
                         IF T = {} THEN 0 ELSE h[T \ {Max(T)}] + calls[Max(T)][dim]]
           iter == CHOOSE h : h = Step(h)
<1>1. Total(dim) = iter[1..n]
  BY DEF Total, FoldLeft, MapThenFoldSet
<1>2. f \in [(1..n) \X Nat -> Nat] /\ \A k \in 1..n, x \in Nat : f[<<k, x>>] = x + calls[k][dim]
  OBVIOUS
<1> HIDE DEF f
<1>3. PICK h : IsFold(h, n, Nat, 0, f)
  BY <1>2, FoldExists
<1>4. /\ h \in [SUBSET (1..n) -> Nat] /\ h[{}] = 0
      /\ \A T \in SUBSET (1..n) : T # {} => h[T] = f[<<Max(T), h[T \ {Max(T)}]>>]
  BY <1>3 DEF IsFold
<1>5. \A T \in SUBSET (1..n) : T # {} => Max(T) \in 1..n /\ T \ {Max(T)} \in SUBSET (1..n)
  BY MaxOfPositions
<1>6. \A T \in SUBSET (1..n) : T # {} => h[T] = h[T \ {Max(T)}] + calls[Max(T)][dim]
  BY <1>2, <1>4, <1>5
<1>7. h = Step(h)
  <2>1. h = [T \in SUBSET (1..n) |-> h[T]]
    BY <1>4
  <2>2. QED
    BY <1>4, <1>6, <2>1
<1>8. iter = Step(iter)
  <2> HIDE DEF Step
  <2> QED BY <1>7
<1> HIDE DEF iter
<1>9. iter[{}] = 0 /\ \A T \in SUBSET (1..n) : T # {} => iter[T] = iter[T \ {Max(T)}] + calls[Max(T)][dim]
  BY <1>8
<1>10. PICK g : IsLoop(g, n, Nat, 0, f, iter[1..n])
  <2>1. \A T \in SUBSET (1..n) : (T # {} /\ iter[T \ {Max(T)}] \in Nat) =>
            iter[T] = f[<<Max(T), iter[T \ {Max(T)}]>>]
    BY <1>2, <1>5, <1>9
  <2> DEFINE A == Nat
             z == 0
  <2>2. z \in A /\ f \in [(1..n) \X A -> A] /\ iter[{}] = z
        /\ \A T \in SUBSET (1..n) : (T # {} /\ iter[T \ {Max(T)}] \in A) =>
               iter[T] = f[<<Max(T), iter[T \ {Max(T)}]>>]
    BY <1>2, <1>9, <2>1
  <2> HIDE DEF A, z
  <2>3. \E g : IsLoop(g, n, A, z, f, iter[1..n])
    BY <2>2, LoopOfFold
  <2>4. QED
    BY <2>3 DEF A, z
<1>11. g \in [0..n -> Nat] /\ g[0] = 0 /\ g[n] = Total(dim) /\ \A k \in 1..n : g[k] = f[<<k, g[k - 1]>>]
  BY <1>1, <1>10 DEF IsLoop
<1>12. \A k \in 1..n : k - 1 \in 0..n /\ g[k - 1] \in Nat
  BY <1>11
<1>13. IsTally(g, n, dim)
  BY <1>2, <1>11, <1>12 DEF IsTally
<1>14. QED
  BY <1>13

\* g[k] is the run after the first k calls under budget b.
IsReplay(g, n, b) ==
    /\ g \in [0..n -> LiveRuns] /\ g[0] = NewRun /\ g[n] = Replay(b)
    /\ \A k \in 1..n : CallResult(b, g[k - 1], calls[k], g[k])

\* Replay governs the calls one after the other.
LEMMA ReplayIsLoop ==
    ASSUME NEW n \in Nat, DOMAIN calls = 1..n, NEW b \in Budgets, \A k \in 1..n : calls[k] \in Steps
    PROVE  \E g : IsReplay(g, n, b)
<1> DEFINE f == [p \in (1..n) \X LiveRuns |-> Governed(b, p[2], calls[p[1]])]
           Step(h) == [T \in SUBSET (1..n) |->
                         IF T = {} THEN Gov(b)!NewRun ELSE Governed(b, h[T \ {Max(T)}], calls[Max(T)])]
           iter == CHOOSE h : h = Step(h)
<1>1. Replay(b) = iter[1..n]
  BY DEF Replay, FoldLeft, MapThenFoldSet
<1>2. Gov(b)!NewRun = NewRun /\ NewRun \in LiveRuns
  BY SameRuns
<1>3. ASSUME NEW k \in 1..n, NEW g \in LiveRuns
      PROVE  CallResult(b, g, calls[k], Governed(b, g, calls[k])) /\ Governed(b, g, calls[k]) \in LiveRuns
  <2>1. g \in LiveRuns /\ calls[k] \in Steps
    OBVIOUS
  <2>2. CallResult(b, g, calls[k], Governed(b, g, calls[k]))
    BY <2>1, GovernedOK
  <2>3. QED
    BY <2>2 DEF CallResult
<1>4. f \in [(1..n) \X LiveRuns -> LiveRuns] /\ \A k \in 1..n, x \in LiveRuns : f[<<k, x>>] = Governed(b, x, calls[k])
  BY <1>3
<1> HIDE DEF f
<1>5. PICK h : IsFold(h, n, LiveRuns, NewRun, f)
  BY <1>2, <1>4, FoldExists
<1>6. /\ h \in [SUBSET (1..n) -> LiveRuns] /\ h[{}] = NewRun
      /\ \A T \in SUBSET (1..n) : T # {} => h[T] = f[<<Max(T), h[T \ {Max(T)}]>>]
  BY <1>5 DEF IsFold
<1>7. \A T \in SUBSET (1..n) : T # {} => Max(T) \in 1..n /\ T \ {Max(T)} \in SUBSET (1..n)
  BY MaxOfPositions
<1>8. \A T \in SUBSET (1..n) : T # {} => h[T] = Governed(b, h[T \ {Max(T)}], calls[Max(T)])
  BY <1>4, <1>6, <1>7
<1>9. h = Step(h)
  <2>1. h = [T \in SUBSET (1..n) |-> h[T]]
    BY <1>6
  <2>2. QED
    BY <1>2, <1>6, <1>8, <2>1
<1>10. iter = Step(iter)
  <2> HIDE DEF Step
  <2> QED BY <1>9
<1> HIDE DEF iter
<1>11. /\ iter[{}] = NewRun
       /\ \A T \in SUBSET (1..n) : T # {} => iter[T] = Governed(b, iter[T \ {Max(T)}], calls[Max(T)])
  BY <1>2, <1>10
<1>12. PICK g : IsLoop(g, n, LiveRuns, NewRun, f, iter[1..n])
  <2>1. \A T \in SUBSET (1..n) : (T # {} /\ iter[T \ {Max(T)}] \in LiveRuns) =>
            iter[T] = f[<<Max(T), iter[T \ {Max(T)}]>>]
    BY <1>4, <1>7, <1>11
  <2>2. NewRun \in LiveRuns /\ f \in [(1..n) \X LiveRuns -> LiveRuns] /\ iter[{}] = NewRun
    BY <1>2, <1>4, <1>11
  <2>3. QED
    BY <2>1, <2>2, LoopOfFold
<1>13. g \in [0..n -> LiveRuns] /\ g[0] = NewRun /\ g[n] = Replay(b) /\ \A k \in 1..n : g[k] = f[<<k, g[k - 1]>>]
  BY <1>1, <1>12 DEF IsLoop
<1>14. \A k \in 1..n : k - 1 \in 0..n /\ g[k - 1] \in LiveRuns
  BY <1>13
<1>15. \A k \in 1..n : g[k] = Governed(b, g[k - 1], calls[k])
  BY <1>4, <1>13, <1>14
<1>16. IsReplay(g, n, b)
  BY <1>3, <1>13, <1>14, <1>15 DEF IsReplay
<1>17. QED
  BY <1>16

\* What a dry run adds up and what the governor does, after k calls.
InStep(b, t, d, k, g) ==
    /\ g.halted = "" => /\ g.tokens = t /\ g.dollars = d /\ g.loops = k
                       /\ ~OverBudget(b, t, d, k)
    /\ g.halted # "" => \/ g.halted = "time_budget_exceeded"
                       \/ Exceeded(b, t, d, k, g.halted)

\* One more call of the dry run and of the governor keeps the two in step.
LEMMA StaysInStep ==
    ASSUME NEW b \in Budgets, NEW call \in Steps, NEW g \in LiveRuns, NEW g1,
           NEW t \in Nat, NEW d \in Nat, NEW k \in Nat, NEW t1, NEW d1, NEW k1,
           t1 = t + call.tokens, d1 = d + call.dollars, k1 = k + 1,
           CallResult(b, g, call, g1), InStep(b, t, d, k, g)
    PROVE  InStep(b, t1, d1, k1, g1)
<1>1. call.tokens \in Nat /\ call.dollars \in Nat
  BY DEF Steps
<1>2. t1 \in Nat /\ d1 \in Nat /\ k1 \in Nat /\ t1 >= t /\ d1 >= d /\ k1 >= k
  BY <1>1
<1>3. CASE g.halted # ""
  <2>1. g1.halted = g.halted
    BY <1>3 DEF CallResult
  <2>2. \/ g.halted = "time_budget_exceeded"
        \/ Exceeded(b, t, d, k, g.halted)
    BY <1>3 DEF InStep
  <2>3. \/ g.halted = "time_budget_exceeded"
        \/ Exceeded(b, t1, d1, k1, g.halted)
    <3>1. CASE Exceeded(b, t, d, k, g.halted)
      <4>1. b.tokens \in Int /\ b.dollars \in Int /\ b.loops \in Int
        BY DEF Budgets, Dimensions
      <4>2. QED
        BY <1>2, <3>1, <4>1 DEF Exceeded
    <3>2. QED
      BY <2>2, <3>1
  <2>4. QED
    BY <1>3, <2>1, <2>3 DEF InStep
<1>4. CASE g.halted = ""
  <2>1. g.tokens = t /\ g.dollars = d /\ g.loops = k
    BY <1>4 DEF InStep
  <2>2. g1.halted = "" => /\ g1.tokens = t1 /\ g1.dollars = d1 /\ g1.loops = k1
                          /\ ~OverBudget(b, t1, d1, k1)
    BY <1>4, <2>1 DEF CallResult
  <2>3. g1.halted # "" => \/ g1.halted = "time_budget_exceeded"
                          \/ Exceeded(b, t1, d1, k1, g1.halted)
    BY <1>4, <2>1 DEF CallResult
  <2>4. QED
    BY <2>2, <2>3 DEF InStep
<1>5. QED
  BY <1>3, <1>4

\* Where the governor, call by call, ends with the totals of the whole run.
LEMMA ReplayHalts ==
    ASSUME CallsInv, run # Absent, NEW b \in Budgets
    PROVE  InStep(b, Total("tokens"), Total("dollars"), run.gov.loops, Replay(b))
<1> DEFINE n == Len(calls)
<1>1. n \in Nat /\ DOMAIN calls = 1..n /\ \A k \in 1..n : calls[k] \in Steps
  BY DEF CallsInv
<1>2. run.gov.loops = n
  BY DEF CallsInv
<1> HIDE DEF n
<1>3. \A k \in 1..n : calls[k].tokens \in Nat /\ calls[k].dollars \in Nat
  BY <1>1 DEF Steps
<1>4. PICK t : IsTally(t, n, "tokens")
  BY <1>1, <1>3, TotalIsLoop
<1>5. PICK d : IsTally(d, n, "dollars")
  BY <1>1, <1>3, TotalIsLoop
<1>6. PICK g : IsReplay(g, n, b)
  BY <1>1, ReplayIsLoop
<1>7. /\ t \in [0..n -> Nat] /\ t[0] = 0 /\ t[n] = Total("tokens")
      /\ \A k \in 1..n : t[k] = t[k - 1] + calls[k].tokens
  BY <1>4 DEF IsTally
<1>8. /\ d \in [0..n -> Nat] /\ d[0] = 0 /\ d[n] = Total("dollars")
      /\ \A k \in 1..n : d[k] = d[k - 1] + calls[k].dollars
  BY <1>5 DEF IsTally
<1>9. /\ \A k \in 0..n : g[k] \in LiveRuns /\ g[0] = NewRun /\ g[n] = Replay(b)
      /\ \A k \in 1..n : CallResult(b, g[k - 1], calls[k], g[k])
  BY <1>6 DEF IsReplay
<1> DEFINE G == {k \in 0..n : InStep(b, t[k], d[k], k, g[k])}
<1>10. 0 \in G
  <2>1. b.tokens \in Int /\ b.dollars \in Int /\ b.loops \in Int
    BY DEF Budgets, Dimensions
  <2>2. ~OverBudget(b, 0, 0, 0)
    BY <2>1 DEF OverBudget, Breached
  <2>3. InStep(b, 0, 0, 0, NewRun)
    BY <2>2, SameRuns DEF InStep
  <2>4. 0 \in 0..n /\ g[0] = NewRun
    BY <1>1, <1>9
  <2>5. QED
    BY <1>7, <1>8, <2>3, <2>4
<1>11. ASSUME NEW k \in 1..n, k - 1 \in G PROVE k \in G
  <2>1. k - 1 \in 0..n /\ k - 1 \in Nat /\ k = (k - 1) + 1 /\ k \in 0..n
    BY <1>1
  <2>2. t[k - 1] \in Nat /\ d[k - 1] \in Nat /\ g[k - 1] \in LiveRuns /\ calls[k] \in Steps
    BY <1>1, <1>7, <1>8, <1>9, <2>1
  <2>3. InStep(b, t[k - 1], d[k - 1], k - 1, g[k - 1])
    BY <1>11
  <2>4. t[k] = t[k - 1] + calls[k].tokens /\ d[k] = d[k - 1] + calls[k].dollars
        /\ CallResult(b, g[k - 1], calls[k], g[k])
    BY <1>7, <1>8, <1>9
  <2>5. InStep(b, t[k], d[k], k, g[k])
    BY <2>1, <2>2, <2>3, <2>4, StaysInStep
  <2>6. QED
    BY <2>1, <2>5
<1>12. \A k \in 0..n : k \in G
  <2> HIDE DEF G
  <2> QED BY <1>1, <1>10, <1>11, CountUp
<1>13. InStep(b, t[n], d[n], n, g[n])
  BY <1>1, <1>12
<1>14. g[n] = Replay(b)
  BY <1>1, <1>9
<1>15. QED
  BY <1>2, <1>7, <1>8, <1>13, <1>14

\* A bundle of a file that validates.
LEMMA FileBundleOK ==
    ASSUME NEW b \in FileBundles
    PROVE  b \in PolicyRecords
<1>1. PICK f \in Files : Validate(f) /\ b \in ToSet(f.policies)
  BY DEF FileBundles
<1>2. PICK i \in DOMAIN f.policies : b = f.policies[i]
  BY <1>1 DEF ToSet
<1>3. QED
  BY <1>1, <1>2, FileOK DEF FileLoads

\* For every bundle, every charge, every timing and every number of calls: a dry
\* run announces no halt the governor would not have come to, misses none but the
\* time budget's, misses no call the allowlist would have blocked, and tells the
\* calls the bundle gates from those it does not.
THEOREM DryRunDecidesHolds == Spec => []DryRunDecides
<1>1. IInv => DryRunDecides
  <2> SUFFICES ASSUME IInv, NEW b \in FileBundles
               PROVE  /\ run # Absent =>
                           LET halted == Replay(b.budget).halted IN
                           /\ DryRun(b).halt # "" => halted # ""
                           /\ halted \notin {"", "time_budget_exceeded"} => DryRun(b).halt \in Announced(halted)
                      /\ \A i \in DOMAIN tools :
                           LET t == tools[i] IN
                           /\ (b.allow # {} /\ ~Allowed(t.tool, AsBundle(b))) => i \in DryRun(b).blocked
                           /\ i \in DryRun(b).gated => Asks(t.tool, AsBundle(b))
                           /\ (Effect(t.tool) = "" /\ Asks(t.tool, AsBundle(b))) => i \in DryRun(b).gated
    BY DEF DryRunDecides
  <2>1. b \in PolicyRecords
    BY FileBundleOK
  <2>2. b.budget \in Budgets /\ b.allow \subseteq Patterns
    BY <2>1 DEF PolicyRecords
  <2>3. ASSUME run # Absent, NEW halted, halted = Replay(b.budget).halted
        PROVE  /\ DryRun(b).halt # "" => halted # ""
               /\ halted \notin {"", "time_budget_exceeded"} => DryRun(b).halt \in Announced(halted)
    <3>1. DryRun(b).halt = BudgetHalt(b)
      BY DEF DryRun
    <3>2. BudgetHalt(b) # "" => OverBudget(b.budget, Total("tokens"), Total("dollars"), run.gov.loops)
      BY DEF BudgetHalt, OverBudget, Breached
    <3>3. InStep(b.budget, Total("tokens"), Total("dollars"), run.gov.loops, Replay(b.budget))
      BY <2>2, <2>3, ReplayHalts DEF IInv
    <3>4. halted = "" => ~OverBudget(b.budget, Total("tokens"), Total("dollars"), run.gov.loops)
      BY <2>3, <3>3 DEF InStep
    <3>5. halted \notin {"", "time_budget_exceeded"} =>
            Exceeded(b.budget, Total("tokens"), Total("dollars"), run.gov.loops, halted)
      BY <2>3, <3>3 DEF InStep
    <3>6. \A reason : Exceeded(b.budget, Total("tokens"), Total("dollars"), run.gov.loops, reason)
                        => BudgetHalt(b) \in Announced(reason)
      BY DEF Exceeded, BudgetHalt, Announced
    <3>7. QED
      BY <3>1, <3>2, <3>4, <3>5, <3>6
  <2>4. ASSUME NEW i \in DOMAIN tools, b.allow # {}, ~Allowed(tools[i].tool, AsBundle(b))
        PROVE  i \in DryRun(b).blocked
    <3> DEFINE tool == tools[i].tool
    <3>1. tool \in Tools
      BY DEF IInv, ToolsInv, EntryOK
    <3>2. AsBundle(b) # NoBundle /\ AsBundle(b).allow = {p.matches : p \in b.allow}
      BY <2>1, AsBundleOK
    <3>3. AsBundle(b).allow # {}
      BY <2>4, <3>2
    <3>4. ~\E m \in AsBundle(b).allow : tool \in m
      BY <2>4, <3>2, <3>3 DEF Allowed, Rules!AllowedFor
    <3>5. \A p \in b.allow : tool \notin p.matches
      BY <3>2, <3>4
    <3>6. \A p \in b.allow : p.name # tool
      BY <2>2, <3>1, <3>5 DEF Patterns
    <3>7. ~Allows(b, tool)
      BY <2>4, <3>6 DEF Allows
    <3>8. QED
      BY <3>7 DEF DryRun
  <2>5. ASSUME NEW i \in DOMAIN tools
        PROVE  /\ i \in DryRun(b).gated => Asks(tools[i].tool, AsBundle(b))
               /\ (Effect(tools[i].tool) = "" /\ Asks(tools[i].tool, AsBundle(b))) => i \in DryRun(b).gated
    <3> DEFINE t == tools[i]
               c == AsBundle(b)
    <3>1. t.effect \in {"", Effect(t.tool)}
      BY DEF IInv, ToolsInv, EntryOK
    <3>2. c # NoBundle /\ c.tools = b.tools /\ c.effects = b.effects
      BY <2>1, AsBundleOK
    <3>3. i \in DryRun(b).gated <=> t.tool \in b.tools \/ t.effect \in b.effects
      BY DEF DryRun, RequiresApproval
    <3> HIDE DEF c, t
    <3>4. Asks(t.tool, c) <=> \/ t.tool \in b.tools \/ Effect(t.tool) \in b.effects
                              \/ Effect(t.tool) # ""
      BY <3>2 DEF Asks, Effect, Rules!NeedsApproval, Rules!Requires, Rules!BundlePolicy, Rules!SideEffect
    <3>5. /\ i \in DryRun(b).gated => Asks(t.tool, c)
          /\ (Effect(t.tool) = "" /\ Asks(t.tool, c)) => i \in DryRun(b).gated
      BY <3>1, <3>3, <3>4
    <3>6. QED
      BY <3>5 DEF c, t
  <2>6. QED
    BY <2>3, <2>4, <2>5
<1>2. QED
  BY <1>1, Inductive, PTL
=============================================================================

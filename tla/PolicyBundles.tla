---------------------------- MODULE PolicyBundles ----------------------------
(***************************************************************************)
(* Where a run's limits come from and what a policy bundle does to it: the *)
(* environment and the .env file (internal/config), the riskkernel.yaml    *)
(* applied at start (internal/policy, internal/app), POST /v1/policies and *)
(* POST /v1/runs (internal/httpapi), the policies table, and the dry run   *)
(* of a bundle against the recorded run.                                   *)
(*                                                                         *)
(* One run is followed.  Its model calls are governed one after the other  *)
(* (GovernedRun has the interleavings), its tool calls are decided by      *)
(* ToolPolicy's rules.  A name pattern is [name, matches]: the text and    *)
(* the tools that path.Match accepts for it.                               *)
(***************************************************************************)
EXTENDS Integers, Sequences, SequencesExt, TLC

CONSTANTS
    Absent, NoBundle,
    Environments,   \* what an operator may have set: [process, dotenv, port, safe, allow]
    Files,          \* riskkernel.yaml files: [schema, policies]
    Bodies,         \* bundles posted to /v1/policies; budget may be Absent
    RunBodies,      \* bodies of POST /v1/runs: [ref, budget], either may be Absent
    Costs,          \* what a model call can cost: a set of [tokens, dollars]
    MaxSeconds,     \* bound: how far the run's clock goes
    Tools, ReadOnly,
    MaxInt32,       \* 2^31 - 1, or a smaller stand-in for it
    SafeDefaults,   \* the built-in budget
    MaxBoots,       \* bound: starts of the daemon
    MaxPosts,       \* bound: registrations through the API
    MaxCalls,       \* bound: model calls of the run
    MaxToolCalls,   \* bound: tool calls of the run
    MaxFaults       \* bound: failing store statements

Dimensions == {"tokens", "dollars", "loops", "seconds"}

Gov(b) == INSTANCE Governor WITH Budget <- b
Rules(safe, allow) == INSTANCE ToolPolicy WITH
                         DefaultSafe <- safe, GlobalAllow <- allow, Bundle <- NoBundle

\* A limit of 0 or less is none.
Budgets == [Dimensions -> Int]

\* matchAllow accepts the name itself before it tries the glob.
Patterns == {p \in [name : STRING, matches : SUBSET Tools] : p.name \in Tools => p.name \in p.matches}

\* storage.PolicyRecord and the live run
PolicyRecords == [name : STRING, budget : Budgets, allow : SUBSET Patterns,
                  tools : SUBSET Tools, effects : SUBSET STRING]
Runs == [budget : Budgets, ref : {b.ref : b \in RunBodies} \cup {Absent},
         gov : Gov(SafeDefaults)!LiveRuns]

\* No policy file is configured.
NoFile == [schema |-> 0, policies |-> <<>>]

ASSUME BundlesAssumption ==
    /\ \A e \in Environments :
         /\ DOMAIN e.process = Dimensions /\ DOMAIN e.dotenv = Dimensions
         /\ \A v \in Dimensions : e.process[v].n \in Int /\ e.dotenv[v].n \in Int
    /\ MaxInt32 \in Nat \ {0}
    /\ SafeDefaults \in [Dimensions -> Nat]
    /\ \A v \in {"dollars", "loops", "seconds"} : SafeDefaults[v] > 0
    /\ SafeDefaults.loops <= MaxInt32 /\ SafeDefaults.seconds <= MaxInt32
    /\ \A f \in Files : f # NoFile /\ f.policies \in Seq(PolicyRecords)
    /\ Bodies \subseteq [name : STRING, budget : Budgets \cup {Absent}, allow : SUBSET Patterns,
                         tools : SUBSET Tools, effects : SUBSET STRING]
    /\ RunBodies \subseteq [ref : STRING \cup {Absent}, budget : Budgets \cup {Absent}]
    /\ Costs \subseteq [tokens : Nat, dollars : Nat]
    /\ Absent \notin PolicyRecords \cup Runs /\ NoBundle \notin Rules(TRUE, {})!Bundles
    /\ MaxBoots \in Nat /\ MaxPosts \in Nat /\ MaxCalls \in Nat
    /\ MaxToolCalls \in Nat /\ MaxFaults \in Nat /\ MaxSeconds \in Nat

VARIABLES
    pc,         \* the daemon: "down", "register" (the file), "serving"
    conf,       \* its Config: [budget, safe, allow]
    env,        \* history: the environment it was started with
    file,       \* the parsed file it was started with
    at,         \* the next bundle of the file to register
    policies,   \* the policies table: name -> bundle
    posted,     \* history: names registered through the API since the start
    run,        \* the run: [budget, ref, gov], or Absent; its row is current
    asked,      \* history: how the run was created: [body, env, base]
    calls,      \* its steps: the charge, zero without a model call, and history: the
                \* time on the run's clock when the step began and when it ended
    tools,      \* its tool_calls rows, each with what happened and history: the
                \* bundle of the run, and whether its read failed
    boots, posts, faults

booting == <<pc, conf, env, file, at>>
vars    == <<pc, conf, env, file, at, policies, posted, run, asked, calls, tools,
             boots, posts, faults>>

Fault == faults < MaxFaults /\ faults' = faults + 1

----------------------------------------------------------------------------
(* Configuration.  A raw value is [kind, n]: "unset", "empty", "junk" (not *)
(* a number) or "num".                                                     *)

\* loadDotEnv: a variable present in the environment wins, even an empty one.
Effective(e) == [v \in Dimensions |-> IF e.process[v].kind # "unset" THEN e.process[v]
                                      ELSE e.dotenv[v]]

AnyBudgetEnvSet(vals) == \E v \in Dimensions : vals[v].kind \in {"num", "junk"}

\* envInt64, envFloat
Parses(raw) == raw.kind # "junk" /\ (raw.kind = "num" => raw.n >= 0)
Value(raw)  == IF raw.kind = "num" THEN raw.n ELSE 0

\* The conversion int32(n) keeps the low 32 bits.
Int32(n) == ((n + MaxInt32 + 1) % (2 * (MaxInt32 + 1))) - (MaxInt32 + 1)

\* Mutant of ClampInt32: only the conversion.
ClampInt32Wrapping(n) == Int32(n)

ClampInt32(n) == IF n > MaxInt32 THEN MaxInt32 ELSE Int32(n)

LoadBudget(vals) ==
    IF ~AnyBudgetEnvSet(vals) THEN SafeDefaults
    ELSE [tokens  |-> Value(vals["tokens"]), dollars |-> Value(vals["dollars"]),
          loops   |-> ClampInt32(Value(vals["loops"])),
          seconds |-> ClampInt32(Value(vals["seconds"]))]

\* envBoolDefault with default true: anything but these words is false.
EnvBool(word) == word \in {"", "true", "1", "yes"}

\* splitList: trimmed, without the empty parts.
SplitList(parts) == {p \in ToSet(parts) : p.name # ""}

\* A port that is set must be a port number.
PortLoads(raw) == raw.kind # "junk" /\ (raw.kind = "num" => raw.n \in 1..65535)

\* Load fails on a port or a budget that does not parse.
Loads(e) ==
    /\ PortLoads(e.port)
    /\ AnyBudgetEnvSet(Effective(e)) => \A v \in Dimensions : Parses(Effective(e)[v])

Load(e) == [budget |-> LoadBudget(Effective(e)), safe |-> EnvBool(e.safe),
            allow |-> SplitList(e.allow)]

\* File.Validate
Validate(f) ==
    /\ f.schema = 1 /\ f.policies # <<>>
    /\ \A i \in DOMAIN f.policies :
         /\ f.policies[i].name # ""
         /\ \A j \in 1..(i - 1) : f.policies[j].name # f.policies[i].name
         /\ \A v \in Dimensions : f.policies[i].budget[v] >= 0

----------------------------------------------------------------------------
Stopped == /\ pc' = "down" /\ conf' = Absent /\ env' = Absent /\ file' = Absent /\ at' = 1

Init ==
    /\ pc = "down" /\ conf = Absent /\ env = Absent /\ file = Absent /\ at = 1
    /\ policies = <<>> /\ posted = {}
    /\ run = Absent /\ asked = Absent /\ calls = <<>> /\ tools = <<>>
    /\ boots = 0 /\ posts = 0 /\ faults = 0

TypeOK ==
    /\ pc \in {"down", "register", "serving"}
    /\ pc = "serving" => /\ DOMAIN conf.budget = Dimensions
                         /\ \A v \in Dimensions : conf.budget[v] \in Nat
                         /\ conf.budget.loops <= MaxInt32 /\ conf.budget.seconds <= MaxInt32
    /\ \A n \in DOMAIN policies : policies[n] \in PolicyRecords /\ policies[n].name = n /\ n # ""
    /\ run \in Runs \cup {Absent}
    /\ \A i \in DOMAIN tools : tools[i].status \in {"blocked", "denied", "approved"}

----------------------------------------------------------------------------
(* Start.                                                                  *)

\* config.Load, then app.Build up to the policy file, if there is one; any error
\* ends the start.  The operator may have edited both since the last start.
Start(e, f) ==
    /\ pc = "down" /\ boots < MaxBoots
    /\ boots' = boots + 1 /\ posted' = {}
    /\ IF Loads(e) /\ (f = NoFile \/ Validate(f))
       THEN pc' = "register" /\ conf' = Load(e) /\ env' = e /\ file' = f /\ at' = 1
       ELSE Stopped
    /\ UNCHANGED <<policies, run, asked, calls, tools, posts, faults>>

\* Mutant of UpsertPolicy: an existing bundle is kept.
UpsertPolicyKeeping(b) ==
    policies' = [n \in DOMAIN policies \cup {b.name} |->
                   IF n \in DOMAIN policies THEN policies[n] ELSE b]

UpsertPolicy(b) ==
    policies' = [n \in DOMAIN policies \cup {b.name} |-> IF n = b.name THEN b ELSE policies[n]]

\* registerPolicyFile: one statement per bundle; an error ends the start, with
\* the bundles before it registered.
RegisterPolicyFile ==
    /\ pc = "register" /\ at <= Len(file.policies)
    /\ \/ UpsertPolicy(file.policies[at]) /\ at' = at + 1 /\ UNCHANGED <<pc, conf, env, file, faults>>
       \/ Fault /\ Stopped /\ UNCHANGED policies
    /\ UNCHANGED <<posted, run, asked, calls, tools, boots, posts>>

\* Mutant of Listen: the run's policyRef is not restored.
ListenWithoutRef ==
    /\ pc = "register" /\ at > Len(file.policies)
    /\ pc' = "serving"
    /\ run' = IF run = Absent THEN Absent ELSE [run EXCEPT !.ref = Absent, !.gov.elapsed = 0]
    /\ UNCHANGED <<conf, env, file, at, policies, posted, asked, calls, tools, boots, posts, faults>>

\* The rest of Build, and Reload: the run comes back with its own budget, its
\* policyRef and its usage; its clock starts again.
Listen ==
    /\ pc = "register" /\ at > Len(file.policies)
    /\ pc' = "serving"
    /\ run' = IF run = Absent THEN Absent ELSE [run EXCEPT !.gov.elapsed = 0]
    /\ UNCHANGED <<conf, env, file, at, policies, posted, asked, calls, tools, boots, posts, faults>>

\* The process ends between two requests, or in the middle of a start.
Stop ==
    /\ pc # "down" /\ boots < MaxBoots
    /\ Stopped
    /\ UNCHANGED <<policies, posted, run, asked, calls, tools, boots, posts, faults>>

----------------------------------------------------------------------------
(* The API.                                                                *)

Unlimited == [v \in Dimensions |-> 0]

\* POST /v1/policies: only the name is checked.
RegisterPolicy(body) ==
    /\ pc = "serving" /\ posts < MaxPosts
    /\ posts' = posts + 1
    /\ IF body.name = "" THEN UNCHANGED <<policies, posted>>
       ELSE /\ UpsertPolicy([body EXCEPT !.budget = IF @ = Absent THEN Unlimited ELSE @])
            /\ posted' = posted \cup {body.name}
    /\ UNCHANGED <<booting, run, asked, calls, tools, boots, faults>>

\* handleCreateRun: a non-zero inline field wins.
MergedBudget(base, inline) ==
    [v \in Dimensions |-> IF inline[v] # 0 THEN inline[v] ELSE base[v]]

\* GetPolicy, which of an unknown name is ErrNotFound.
GetPolicy(name) == IF name \in DOMAIN policies THEN policies[name] ELSE Absent

BundleBudget(ref) == IF ref # Absent THEN GetPolicy(ref).budget ELSE Unlimited

\* The budget of POST /v1/runs; without a bundle and an inline budget it is the
\* manager's default.
RequestedBudget(body) ==
    IF body.budget # Absent THEN MergedBudget(BundleBudget(body.ref), body.budget)
    ELSE IF body.ref # Absent THEN BundleBudget(body.ref) ELSE conf.budget

MintRun(budget, body) ==
    /\ run' = [budget |-> budget, ref |-> body.ref, gov |-> Gov(budget)!NewRun]
    /\ asked' = [body |-> body, env |-> env, base |-> BundleBudget(body.ref)]

\* An unknown policy is refused.
CreateRun(body) ==
    /\ pc = "serving" /\ run = Absent
    /\ body.ref # Absent => GetPolicy(body.ref) # Absent
    /\ MintRun(RequestedBudget(body), body)
    /\ UNCHANGED <<booting, policies, posted, calls, tools, boots, posts, faults>>

\* A proxied call with an unknown run id: the daemon's default budget.
ProxyRun ==
    /\ pc = "serving" /\ run = Absent
    /\ MintRun(conf.budget, [ref |-> Absent, budget |-> Absent])
    /\ UNCHANGED <<booting, policies, posted, calls, tools, boots, posts, faults>>

\* One governed model call: PreStep and CanProceed when it begins, the charge when
\* it is done, each at its time on the run's clock.
Governed(b, g, call) ==
    LET begun == Gov(b)!PreStep([g EXCEPT !.elapsed = call.begun])
        open  == Gov(b)!CanProceed(begun)
    IN  IF begun.halted # "" THEN begun
        ELSE IF open.halted # "" THEN open
        ELSE Gov(b)!RecordUsage([open EXCEPT !.elapsed = call.done], call)

\* A step that its ceiling stopped is in the row's loops and has no ledger entry.
ModelCall(call) ==
    /\ pc = "serving" /\ run # Absent /\ Len(calls) < MaxCalls
    /\ run.gov.halted = "" /\ run.gov.elapsed <= call.begun /\ call.begun <= call.done
    /\ LET g == Governed(run.budget, run.gov, call) IN
       /\ run' = [run EXCEPT !.gov = g]
       /\ calls' = IF g.loops = run.gov.loops THEN calls
                   ELSE Append(calls, [call EXCEPT !.tokens = g.tokens - run.gov.tokens,
                                                   !.dollars = g.dollars - run.gov.dollars])
    /\ UNCHANGED <<booting, policies, posted, asked, tools, boots, posts, faults>>

\* A bundle as ToolPolicy sees it.
AsBundle(b) == [allow |-> {p.matches : p \in b.allow}, tools |-> b.tools, effects |-> b.effects]

\* runPolicy: looked up at every tools/call; a failing read falls back to the
\* daemon's configuration, as an unknown bundle does.
RunPolicy(failed) ==
    IF run.ref = Absent \/ failed \/ GetPolicy(run.ref) = Absent THEN NoBundle
    ELSE AsBundle(GetPolicy(run.ref))

\* ToolPolicy's decisions under the daemon's configuration.
Allowed(tool, bundle) == Rules(conf.safe, {p.matches : p \in conf.allow})!AllowedFor(tool, bundle)
Asks(tool, bundle)    == Rules(conf.safe, {})!NeedsApproval(tool, bundle)
Effect(tool)          == Rules(TRUE, {})!SideEffect(tool)

\* mcp.handle.  A human denies or approves a gated call; a blocked call is
\* recorded without its side effect.  under is the bundle the run was created
\* under, as it stands in the table, whether or not handle could read it.
ToolCall(tool, failed) ==
    /\ pc = "serving" /\ run # Absent /\ Len(tools) < MaxToolCalls
    /\ IF failed THEN run.ref # Absent /\ Fault ELSE UNCHANGED faults
    /\ LET bundle == RunPolicy(failed)
           under  == IF asked.body.ref = Absent THEN Absent ELSE policies[asked.body.ref]
           Entry(status, effect, gated) == [tool |-> tool, under |-> under, failed |-> failed,
                                            status |-> status, effect |-> effect, gated |-> gated]
       IN \E human \in {"denied", "approved"} :
            tools' = Append(tools,
              IF ~Allowed(tool, bundle) THEN Entry("blocked", "", FALSE)
              ELSE IF Asks(tool, bundle) THEN Entry(human, Effect(tool), TRUE)
              ELSE Entry("approved", Effect(tool), FALSE))
    /\ UNCHANGED <<booting, policies, posted, run, asked, calls, boots, posts>>

----------------------------------------------------------------------------
Next ==
    \/ \E e \in Environments, f \in Files \cup {NoFile} : Start(e, f)
    \/ RegisterPolicyFile \/ Listen \/ Stop
    \/ \E body \in Bodies : RegisterPolicy(body)
    \/ \E body \in RunBodies : CreateRun(body)
    \/ ProxyRun
    \/ \E cost \in Costs, begun, done \in 0..MaxSeconds :
         ModelCall([tokens |-> cost.tokens, dollars |-> cost.dollars, begun |-> begun, done |-> done])
    \/ \E tool \in Tools, failed \in BOOLEAN : ToolCall(tool, failed)

Spec == Init /\ [][Next]_vars

----------------------------------------------------------------------------
(* riskkernel policy dry-run, over the recorded run.                       *)

\* Bundle.allows: no globs here.
Allows(b, tool) == b.allow = {} \/ \E p \in b.allow : p.name = tool

\* Bundle.requiresApproval
RequiresApproval(b, call) == call.tool \in b.tools \/ call.effect \in b.effects

Total(dim) == FoldLeft(LAMBDA n, c : n + c[dim], 0, calls)

\* Mutant of BudgetHalt: a budget may be met exactly.
BudgetHaltPast(b) ==
    IF b.budget.dollars > 0 /\ Total("dollars") > b.budget.dollars THEN "dollar_budget_exceeded"
    ELSE IF b.budget.tokens > 0 /\ Total("tokens") > b.budget.tokens THEN "token_budget_exceeded"
    ELSE IF b.budget.loops > 0 /\ run.gov.loops > b.budget.loops THEN "loop_budget_exceeded"
    ELSE ""

BudgetHalt(b) ==
    IF b.budget.dollars > 0 /\ Total("dollars") >= b.budget.dollars THEN "dollar_budget_exceeded"
    ELSE IF b.budget.tokens > 0 /\ Total("tokens") >= b.budget.tokens THEN "token_budget_exceeded"
    ELSE IF b.budget.loops > 0 /\ run.gov.loops > b.budget.loops THEN "loop_budget_exceeded"
    ELSE ""

DryRun(b) == [halt    |-> BudgetHalt(b),
              blocked |-> {i \in DOMAIN tools : ~Allows(b, tools[i].tool)},
              gated   |-> {i \in DOMAIN tools : RequiresApproval(b, tools[i])}]

\* The bundles policyDryRun can be given: those of a file that loads.
FileBundles == UNION {ToSet(f.policies) : f \in {g \in Files : Validate(g)}}

\* What the governor does with the recorded calls under another budget.
Replay(budget) == FoldLeft(LAMBDA g, cost : Governed(budget, g, cost), Gov(budget)!NewRun, calls)

----------------------------------------------------------------------------
(* Properties.                                                             *)

\* A daemon that serves has every bundle of its file exactly as the file says,
\* whatever an earlier start, also one that failed half-way, left in the table;
\* only the API may have changed it since (registerPolicyFile, UpsertPolicy).
FileApplied ==
    pc = "serving" =>
        \A i \in DOMAIN file.policies :
            LET b == file.policies[i] IN
            b.name \in posted \/ (b.name \in DOMAIN policies /\ policies[b.name] = b)

\* A run is without a limit on dollars, loops or time only if somebody said so:
\* the operator gave a default budget that leaves it out, the bundle leaves it
\* out, or the request's own budget does (loadBudget, handleCreateRun).  An
\* empty variable, or a huge one, is no such statement.
UnlimitedIsChosen ==
    run # Absent => \A v \in {"dollars", "loops", "seconds"} : run.budget[v] <= 0 =>
        LET inline == asked.body.budget
            vals   == Effective(asked.env)
        IN \/ inline # Absent /\ inline[v] < 0
           \/ asked.body.ref # Absent /\ asked.base[v] <= 0
           \/ asked.body.ref = Absent /\ inline # Absent /\ inline[v] = 0
           \/ /\ asked.body.ref = Absent /\ inline = Absent
              /\ \E w \in Dimensions : vals[w].kind = "num"
              /\ vals[v].kind = "num" => vals[v].n = 0

\* A run created under a bundle is governed by it at every call of the gateway that
\* can read it, also after a restart and whatever was registered since: what its
\* allowlist does not match does not run, and what its rules name is not run
\* without asking (runPolicy, reloadRun's PolicyRef).  A call whose bundle read
\* fails is left to the daemon's own configuration.
BundleGoverns ==
    \A i \in DOMAIN tools :
        LET t == tools[i] IN
        (t.under # Absent /\ ~t.failed /\ t.status # "blocked") =>
            /\ t.under.allow # {} => \E p \in t.under.allow : t.tool \in p.matches
            /\ t.tool \in t.under.tools => t.gated

\* The halts a dry run may announce for a run that the governor would have halted
\* for that reason: it looks at the whole run's totals, dollars first.
Announced(reason) ==
    IF reason = "dollar_budget_exceeded" THEN {"dollar_budget_exceeded"}
    ELSE IF reason = "token_budget_exceeded" THEN {"dollar_budget_exceeded", "token_budget_exceeded"}
    ELSE {"dollar_budget_exceeded", "token_budget_exceeded", "loop_budget_exceeded"}

\* A dry run against the governor given the bundle's budget, call by call (PreStep,
\* CanProceed, RecordUsage): it announces no halt the governor would not have come
\* to, and misses none but the time budget's, which it does not look at.  It misses
\* no recorded tool call that the bundle's allowlist would have blocked; it calls
\* gated only what the bundle would have put before a human, and misses of those
\* only the ones that have a side effect, which every bundle gates.
DryRunDecides ==
    \A b \in FileBundles :
        /\ run # Absent =>
              LET halted == Replay(b.budget).halted IN
              /\ DryRun(b).halt # "" => halted # ""
              /\ halted \notin {"", "time_budget_exceeded"} => DryRun(b).halt \in Announced(halted)
        /\ pc = "serving" => \A i \in DOMAIN tools :
              LET t == tools[i] IN
              /\ (b.allow # {} /\ ~Allowed(t.tool, AsBundle(b))) => i \in DryRun(b).blocked
              /\ i \in DryRun(b).gated => Asks(t.tool, AsBundle(b))
              /\ (Effect(t.tool) = "" /\ Asks(t.tool, AsBundle(b))) => i \in DryRun(b).gated
=============================================================================

----------------------------- MODULE ToolPolicy -----------------------------
(***************************************************************************)
(* The deterministic rules that decide about a tool call: the approval     *)
(* policy (internal/approval/policy.go) and the allowlist and side-effect  *)
(* classification of the MCP gateway (internal/mcp/gateway.go).            *)
(*                                                                         *)
(* A name pattern is represented by the set of tools it matches, and the   *)
(* side-effect globs of a policy by the set of side effects they match.    *)
(***************************************************************************)
CONSTANTS
    Tools,
    ReadOnly,      \* tools the operator declared free of side effects
    GlobalAllow,   \* the daemon's allowlist: a set of patterns, {} for "all tools"
    DefaultSafe,   \* RISKKERNEL_APPROVAL_DEFAULT_SAFE
    Bundle,        \* the policy bundle the run was created under, or NoBundle
    NoBundle

\* tools: named by a rule; effects: matched by a rule's glob.
Bundles == [allow : SUBSET SUBSET Tools, tools : SUBSET Tools, effects : SUBSET STRING]

ASSUME ToolPolicyAssumption ==
    /\ ReadOnly \subseteq Tools
    /\ GlobalAllow \subseteq SUBSET Tools
    /\ DefaultSafe \in BOOLEAN
    /\ Bundle # NoBundle => Bundle \in Bundles

\* The gate's own policy: it has no rules, only the default (app.Build).
GlobalPolicy == [tools |-> {}, effects |-> {}, safe |-> DefaultSafe]

\* bundlePolicy: a bundle never switches the fail-closed default off.
BundlePolicy(b) == [tools |-> b.tools, effects |-> b.effects, safe |-> TRUE]

\* Policy.Requires
Requires(p, tool, effect) ==
    \/ tool \in p.tools
    \/ effect \in p.effects
    \/ p.safe /\ effect # ""

\* allowedFor and matchAllow
AllowedFor(tool, bundle) ==
    LET allow == IF bundle # NoBundle /\ bundle.allow # {} THEN bundle.allow ELSE GlobalAllow
    IN  allow = {} \/ \E pattern \in allow : tool \in pattern

\* sideEffect
SideEffect(tool) == IF tool \in ReadOnly THEN "" ELSE "tool"

\* Whether handle asks the gate, and the gate a human: the bundle's policy
\* decides when there is one, else the global one.
NeedsApproval(tool, bundle) ==
    IF bundle # NoBundle THEN Requires(BundlePolicy(bundle), tool, SideEffect(tool))
    ELSE SideEffect(tool) # "" /\ Requires(GlobalPolicy, tool, SideEffect(tool))
=============================================================================

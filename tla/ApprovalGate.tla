---------------------------- MODULE ApprovalGate ----------------------------
(***************************************************************************)
(* The human-in-the-loop gate of one run: internal/approval around the     *)
(* approvals table, the MCP gateway's tools/call handler and the SDK's     *)
(* polling approve() as its clients, and the channels through which people *)
(* decide (POST /v1/runs/{id}/approve, used by the CLI and the web page,   *)
(* and the Slack callback).                                                *)
(*                                                                         *)
(* Every tool call has at most one approval, so a call also names its      *)
(* approval's row, its waiter and its Slack message.  One step is one      *)
(* store statement, one critical section of the gate, or one step of the   *)
(* caller.  The daemon can be killed at any time; an SDK agent survives it *)
(* and keeps polling, an MCP client loses its connection.                  *)
(***************************************************************************)
EXTENDS ToolPolicy, Naturals

CONSTANTS
    Calls,        \* tool calls
    Humans,       \* people (or retries of one click) deciding concurrently
    Kinds,        \* which kinds of call are made: a subset of {"mcp", "sdk"}
    SdkEffects,   \* side effects an SDK tool declares
    MaxCrashes,   \* bound: SIGKILLs of the daemon
    MaxFaults     \* bound: store statements that fail

ASSUME GateAssumption ==
    /\ Kinds \subseteq {"mcp", "sdk"}
    /\ SdkEffects \subseteq STRING
    /\ MaxCrashes \in Nat /\ MaxFaults \in Nat

VARIABLES
    up,         \* the daemon process is alive
    call,       \* call[c]: the caller of c, in the daemon (MCP) or in the agent (SDK)
    approval,   \* approval[c]: the status of the approvals row, "none" without one
    waiters,    \* Gate.waiters: calls with a registered channel
    chan,       \* chan[c]: what the channel holds, "empty" or a decision
    expired,    \* calls whose context is done (approval timeout, client gone)
    audit,      \* audit[c]: the tool_calls row, "none" without one
    executed,   \* calls whose side effect happened
    exempt,     \* calls the policy let through without asking
    human,      \* human[h]: the goroutine serving h's decision
    message,    \* message[c]: what the Slack message of c shows, "none" without one
    halted,     \* the run was cancelled or ran out of budget
    crashes, faults

calls == <<call, expired, audit, executed, exempt>>
gate  == <<approval, waiters, chan>>
vars  == <<up, call, approval, waiters, chan, expired, audit, executed, exempt,
           human, message, halted, crashes, faults>>

Decisions == {"approved", "denied"}
\* The pcs of a call inside the daemon; only these die with it.
DaemonPCs == {"screen", "create", "register", "wait", "record", "forward", "ask"}
PCs == DaemonPCs \cup {"new", "poll", "run", "done"}

NewCall == [pc |-> "new", kind |-> "none", tool |-> "none", effect |-> "", outcome |-> "none"]
IdleHuman == [pc |-> "idle", call |-> "none", decision |-> "none", via |-> "none", code |-> "none"]

Outcomes == {"none", "blocked", "timeout", "denied", "approved"}
CallRecords == [pc : PCs, kind : {"none", "mcp", "sdk"}, tool : Tools \cup {"none"},
                effect : {"", "tool"} \cup SdkEffects, outcome : Outcomes]
HumanRecords == [pc : {"idle", "lookup", "send", "update"}, call : Calls \cup {"none"},
                 decision : Decisions \cup {"none"}, via : {"none", "api", "slack"},
                 code : {"none", "200", "409", "500"}]

TypeOK ==
    /\ up \in BOOLEAN /\ halted \in BOOLEAN
    /\ call \in [Calls -> CallRecords]
    /\ approval \in [Calls -> {"none", "pending"} \cup Decisions]
    /\ waiters \subseteq Calls
    /\ chan \in [Calls -> {"empty"} \cup Decisions]
    /\ expired \subseteq Calls /\ executed \subseteq Calls /\ exempt \subseteq Calls
    /\ audit \in [Calls -> Outcomes]
    /\ human \in [Humans -> HumanRecords]
    /\ message \in [Calls -> {"none", "posting", "buttons"} \cup Decisions]
    /\ crashes \in Nat /\ faults \in Nat

Init ==
    /\ up = TRUE /\ halted = FALSE
    /\ call = [c \in Calls |-> NewCall]
    /\ approval = [c \in Calls |-> "none"]
    /\ waiters = {} /\ chan = [c \in Calls |-> "empty"]
    /\ expired = {} /\ executed = {} /\ exempt = {}
    /\ audit = [c \in Calls |-> "none"]
    /\ human = [h \in Humans |-> IdleHuman]
    /\ message = [c \in Calls |-> "none"]
    /\ crashes = 0 /\ faults = 0

At(c, pc)   == call[c].pc = pc
Goto(c, pc) == call' = [call EXCEPT ![c].pc = pc]
\* The handler has made up its mind: what recordToolCall will write.
Conclude(c, outcome) == call' = [call EXCEPT ![c].pc = "record", ![c].outcome = outcome]

Fault == faults < MaxFaults /\ faults' = faults + 1

----------------------------------------------------------------------------
(* The MCP gateway's handle, with Gate.Request / RequestUnder inlined.     *)

McpArrives(c, tool) ==
    /\ up /\ At(c, "new")
    /\ call' = [call EXCEPT ![c] = [NewCall EXCEPT !.pc = "screen", !.kind = "mcp",
                                                   !.tool = tool, !.effect = SideEffect(tool)]]
    /\ UNCHANGED <<up, gate, expired, audit, executed, exempt, human, message, halted, crashes, faults>>

\* runPolicy reads the bundle (a failing read counts as "no bundle"), then the
\* allowlist and the approval rules are evaluated.
Screen(c) ==
    /\ up /\ At(c, "screen")
    /\ \E bundle \in {Bundle, NoBundle} :
         /\ IF bundle = Bundle THEN UNCHANGED faults ELSE Fault
         /\ \/ /\ ~AllowedFor(call[c].tool, bundle)
               /\ Conclude(c, "blocked") /\ UNCHANGED exempt
            \/ /\ AllowedFor(call[c].tool, bundle) /\ NeedsApproval(call[c].tool, bundle)
               /\ Goto(c, "create") /\ UNCHANGED exempt
            \/ /\ AllowedFor(call[c].tool, bundle) /\ ~NeedsApproval(call[c].tool, bundle)
               /\ Conclude(c, "approved") /\ exempt' = exempt \cup {c}
    /\ UNCHANGED <<up, gate, expired, audit, executed, human, message, halted, crashes>>

\* RequestUnder: the pending row first; an error ends as a "timeout".
CreateApproval(c) ==
    /\ up /\ At(c, "create")
    /\ \/ approval' = [approval EXCEPT ![c] = "pending"] /\ Goto(c, "register") /\ UNCHANGED faults
       \/ Conclude(c, "timeout") /\ UNCHANGED approval /\ (Fault \/ (c \in expired /\ UNCHANGED faults))
    /\ UNCHANGED <<up, waiters, chan, expired, audit, executed, exempt, human, message, halted, crashes>>

\* Notify: with a Slack channel configured, a goroutine is started to post.
Notify(c) == message' \in {message, [message EXCEPT ![c] = "posting"]}

\* ... then the waiter's channel, under g.mu, and only then the notification.
RegisterWaiter(c) ==
    /\ up /\ At(c, "register")
    /\ waiters' = waiters \cup {c}
    /\ Goto(c, "wait")
    /\ Notify(c)
    /\ UNCHANGED <<up, approval, chan, expired, audit, executed, exempt, human, halted, crashes, faults>>

\* Mutant of Expire: the wait has no timeout of its own.
ExpireNever(c) == c \in expired /\ c \notin expired /\ UNCHANGED vars

\* approvalTimeout passes, or the MCP client disconnects.
Expire(c) ==
    /\ up /\ call[c].kind = "mcp" /\ call[c].pc \in {"create", "register", "wait"} /\ c \notin expired
    /\ expired' = expired \cup {c}
    /\ UNCHANGED <<up, gate, call, audit, executed, exempt, human, message, halted, crashes, faults>>

\* Mutant of Receive: the deferred delete is missing.
ReceiveLeaky(c) ==
    /\ up /\ At(c, "wait") /\ chan[c] # "empty"
    /\ Conclude(c, chan[c])
    /\ chan' = [chan EXCEPT ![c] = "empty"]
    /\ UNCHANGED <<up, approval, waiters, expired, audit, executed, exempt, human, message, halted, crashes, faults>>

\* select: the decision arrives.  The deferred delete runs on both arms, and
\* when both are ready either may be taken.
Receive(c) ==
    /\ up /\ At(c, "wait") /\ chan[c] # "empty"
    /\ waiters' = waiters \ {c}
    /\ Conclude(c, chan[c])
    /\ chan' = [chan EXCEPT ![c] = "empty"]
    /\ UNCHANGED <<up, approval, expired, audit, executed, exempt, human, message, halted, crashes, faults>>

\* Mutant of GiveUp: a timeout is taken for consent.
GiveUpOpen(c) ==
    /\ up /\ At(c, "wait") /\ c \in expired
    /\ waiters' = waiters \ {c}
    /\ Conclude(c, "approved")
    /\ UNCHANGED <<up, approval, chan, expired, audit, executed, exempt, human, message, halted, crashes, faults>>

\* select: the context is done.  The row stays pending.
GiveUp(c) ==
    /\ up /\ At(c, "wait") /\ c \in expired
    /\ waiters' = waiters \ {c}
    /\ Conclude(c, "timeout")
    /\ UNCHANGED <<up, approval, chan, expired, audit, executed, exempt, human, message, halted, crashes, faults>>

\* Mutant of RecordToolCall: only refused calls are recorded.
RecordRefusals(c) ==
    /\ up /\ At(c, "record")
    /\ audit' = [audit EXCEPT ![c] = IF call[c].outcome = "approved" THEN @ ELSE call[c].outcome]
    /\ Goto(c, IF call[c].outcome = "approved" THEN "forward" ELSE "done")
    /\ UNCHANGED <<up, gate, expired, executed, exempt, human, message, halted, crashes, faults>>

\* recordToolCall: best effort.
RecordToolCall(c) ==
    /\ up /\ At(c, "record")
    /\ \/ audit' = [audit EXCEPT ![c] = call[c].outcome] /\ UNCHANGED faults
       \/ Fault /\ UNCHANGED audit
    /\ Goto(c, IF call[c].outcome = "approved" THEN "forward" ELSE "done")
    /\ UNCHANGED <<up, gate, expired, executed, exempt, human, message, halted, crashes>>

\* forward: the upstream server gets the call, or cannot be reached.
Forward(c) ==
    /\ up /\ At(c, "forward")
    /\ executed' \in {executed, executed \cup {c}}
    /\ Goto(c, "done")
    /\ UNCHANGED <<up, gate, expired, audit, exempt, human, message, halted, crashes, faults>>

----------------------------------------------------------------------------
(* The SDK: POST /v1/runs/{id}/approvals, then Run.approve polls.          *)

SdkArrives(c, tool, effect) ==
    /\ At(c, "new")
    /\ call' = [call EXCEPT ![c] = [NewCall EXCEPT !.pc = "ask", !.kind = "sdk",
                                                   !.tool = tool, !.effect = effect]]
    /\ UNCHANGED <<up, gate, expired, audit, executed, exempt, human, message, halted, crashes, faults>>

\* handleRequestApproval and Gate.Create, under the global policy.
SdkAsk(c) ==
    /\ up /\ At(c, "ask")
    /\ \/ /\ ~Requires(GlobalPolicy, call[c].tool, call[c].effect)
          /\ exempt' = exempt \cup {c} /\ Goto(c, "run")
          /\ UNCHANGED <<approval, message, faults>>
       \/ /\ Requires(GlobalPolicy, call[c].tool, call[c].effect)
          /\ \/ approval' = [approval EXCEPT ![c] = "pending"] /\ Goto(c, "poll") /\ UNCHANGED faults
                /\ Notify(c)
             \/ Fault /\ Goto(c, "done") /\ UNCHANGED <<approval, message>>
          /\ UNCHANGED exempt
    /\ UNCHANGED <<up, waiters, chan, expired, audit, executed, human, halted, crashes>>

\* One GET /v1/approvals/{id} of the polling loop.
SdkPoll(c) ==
    /\ up /\ At(c, "poll") /\ approval[c] \in Decisions
    /\ Goto(c, IF approval[c] = "approved" THEN "run" ELSE "done")
    /\ UNCHANGED <<up, gate, expired, audit, executed, exempt, human, message, halted, crashes, faults>>

\* ApprovalTimeout, or the request fails because the daemon is down: the tool
\* is not run.
SdkGiveUp(c) ==
    /\ call[c].pc \in {"ask", "poll"} /\ call[c].kind = "sdk"
    /\ Goto(c, "done")
    /\ UNCHANGED <<up, gate, expired, audit, executed, exempt, human, message, halted, crashes, faults>>

\* governed_tool calls the wrapped function, daemon or no daemon.
SdkRun(c) ==
    /\ At(c, "run")
    /\ executed' = executed \cup {c}
    /\ Goto(c, "done")
    /\ UNCHANGED <<up, gate, expired, audit, exempt, human, message, halted, crashes, faults>>

----------------------------------------------------------------------------
(* People: handleApprove and handleSlackInteraction, with Gate.Resolve.    *)

\* Someone acts on the approval: over the API as soon as its row can be
\* listed, in Slack once the message is there.
CanDecide(h, c, via) ==
    /\ up /\ human[h].pc = "idle" /\ approval[c] # "none"
    /\ via = "slack" => message[c] \notin {"none", "posting"}

\* Mutant of Decide: the row is updated whatever its status.
DecideUnchecked(h, c, decision, via) ==
    /\ CanDecide(h, c, via)
    /\ approval' = [approval EXCEPT ![c] = decision]
    /\ human' = [human EXCEPT ![h] = [pc |-> "lookup", call |-> c, decision |-> decision,
                                      via |-> via, code |-> "200"]]
    /\ UNCHANGED <<up, calls, waiters, chan, message, halted, crashes, faults>>

\* Where the handler goes on once Resolve returned: a Slack click rewrites its
\* message, whether or not its decision was the one recorded.
AfterResolve(via) == IF via = "slack" THEN "update" ELSE "idle"

\* What the handler answers: handleSlackInteraction acknowledges every click with
\* 200, so that Slack does not retry it; handleApprove reports what Resolve said.
Acknowledge(via, code) == IF via = "slack" THEN "200" ELSE code

\* The handler found the approval and calls Resolve: a compare-and-set on the
\* pending row decides, and the loser gets 409 over the API.
Decide(h, c, decision, via) ==
    /\ CanDecide(h, c, via)
    /\ LET wins == approval[c] = "pending" IN
       /\ approval' = [approval EXCEPT ![c] = IF wins THEN decision ELSE @]
       /\ human' = [human EXCEPT ![h] =
              [pc |-> IF wins THEN "lookup" ELSE AfterResolve(via), call |-> c,
               decision |-> decision, via |-> via,
               code |-> Acknowledge(via, IF wins THEN "200" ELSE "409")]]
    /\ UNCHANGED <<up, calls, waiters, chan, message, halted, crashes, faults>>

\* ResolveApproval fails in the store: 500 over the API, while a Slack click is
\* logged, acknowledged and shown all the same.
DecideFails(h, c, decision, via) ==
    /\ CanDecide(h, c, via) /\ Fault
    /\ human' = [human EXCEPT ![h] = [pc |-> AfterResolve(via), call |-> c, decision |-> decision,
                                      via |-> via, code |-> Acknowledge(via, "500")]]
    /\ UNCHANGED <<up, calls, gate, message, halted, crashes>>

\* Resolve looks the waiter's channel up under g.mu ...
Lookup(h) ==
    /\ up /\ human[h].pc = "lookup"
    /\ human' = [human EXCEPT ![h].pc =
           IF human[h].call \in waiters THEN "send" ELSE AfterResolve(human[h].via)]
    /\ UNCHANGED <<up, calls, gate, message, halted, crashes, faults>>

\* ... and sends outside it, when the waiter may be gone.  The channel has
\* room for one decision; a send to a full one blocks.
Send(h) ==
    /\ up /\ human[h].pc = "send" /\ chan[human[h].call] = "empty"
    /\ chan' = [chan EXCEPT ![human[h].call] = human[h].decision]
    /\ human' = [human EXCEPT ![h].pc = AfterResolve(human[h].via)]
    /\ UNCHANGED <<up, calls, approval, waiters, message, halted, crashes, faults>>

\* The goroutine of Notify posts the message with its buttons; best effort.
PostMessage(c) ==
    /\ up /\ message[c] = "posting"
    /\ \E text \in {"buttons", "none"} : message' = [message EXCEPT ![c] = text]
    /\ UNCHANGED <<up, calls, gate, human, halted, crashes, faults>>

\* UpdateResolved: the message shows what was clicked; best effort.
UpdateResolved(h) ==
    /\ up /\ human[h].pc = "update"
    /\ message' \in {message, [message EXCEPT ![human[h].call] = human[h].decision]}
    /\ human' = [human EXCEPT ![h].pc = "idle"]
    /\ UNCHANGED <<up, calls, gate, halted, crashes, faults>>

----------------------------------------------------------------------------
\* The run's kill switch, or a budget: nothing in this module reads it.
Halt ==
    /\ up /\ ~halted /\ halted' = TRUE
    /\ UNCHANGED <<up, calls, gate, human, message, crashes, faults>>

\* SIGKILL: handlers, channels and waiters are gone, rows and agents stay.
Crash ==
    /\ up /\ crashes < MaxCrashes
    /\ up' = FALSE /\ crashes' = crashes + 1
    /\ waiters' = {} /\ chan' = [c \in Calls |-> "empty"]
    /\ call' = [c \in Calls |-> IF call[c].pc \in DaemonPCs \ {"ask"}
                                THEN [call[c] EXCEPT !.pc = "done"] ELSE call[c]]
    /\ human' = [h \in Humans |-> IdleHuman]
    /\ message' = [c \in Calls |-> IF message[c] = "posting" THEN "none" ELSE message[c]]
    /\ UNCHANGED <<approval, expired, audit, executed, exempt, halted, faults>>

Restart ==
    /\ ~up /\ up' = TRUE
    /\ UNCHANGED <<calls, gate, human, message, halted, crashes, faults>>

McpStep(c) ==
    \/ Screen(c) \/ CreateApproval(c) \/ RegisterWaiter(c)
    \/ Receive(c) \/ GiveUp(c) \/ RecordToolCall(c) \/ Forward(c)

SdkStep(c) == SdkAsk(c) \/ SdkPoll(c) \/ SdkRun(c)

Next ==
    \/ \E c \in Calls, tool \in Tools :
         \/ "mcp" \in Kinds /\ McpArrives(c, tool)
         \/ "sdk" \in Kinds /\ \E effect \in SdkEffects : SdkArrives(c, tool, effect)
    \/ \E c \in Calls : McpStep(c) \/ Expire(c) \/ SdkStep(c) \/ SdkGiveUp(c) \/ PostMessage(c)
    \/ \E h \in Humans, c \in Calls, decision \in Decisions, via \in {"api", "slack"} :
         Decide(h, c, decision, via) \/ DecideFails(h, c, decision, via)
    \/ \E h \in Humans : Lookup(h) \/ Send(h) \/ UpdateResolved(h)
    \/ Halt \/ Crash \/ Restart

Spec == Init /\ [][Next]_vars
\* Weak fairness for the daemon's goroutines, for the timer of an approval wait
\* and for the agent's own loop.  Nobody is obliged to decide anything.
FairSpec ==
    /\ Spec
    /\ \A c \in Calls : WF_vars(McpStep(c)) /\ WF_vars(Expire(c)) /\ WF_vars(SdkStep(c))
    /\ \A h \in Humans : WF_vars(Lookup(h) \/ Send(h) \/ UpdateResolved(h))

----------------------------------------------------------------------------
(* Properties.                                                             *)

\* What the daemon's own policy gates, whoever calls ...
GatedGlobally(c) == Requires(GlobalPolicy, call[c].tool, call[c].effect)
\* ... and what the run's bundle gates at the MCP gateway, which reads it.
GatedByBundle(c) == call[c].kind = "mcp" /\ NeedsApproval(call[c].tool, Bundle)

\* A side effect the policy gates happens only if a human approved exactly this
\* call, and it stays approved: timeouts, late decisions, duplicate clicks and
\* restarts never turn into consent (handle, RequestUnder, Run.approve).  The
\* global rules hold whatever the store fails to do; the bundle's own rules bind
\* the gateway as long as no store statement failed, since runPolicy takes a
\* failed read for "no bundle".
NoUnapprovedExecution ==
    \A c \in executed :
        GatedGlobally(c) \/ (faults = 0 /\ GatedByBundle(c)) => approval[c] = "approved"

\* "The bundle's approvalPolicy rules apply to that run on top of the global
\* fail-safe gating" (docs/POLICY.md), to every call of the run.  Gate.Create,
\* which the SDK's calls go through, consults the global policy only.
BundleGatesEveryCall ==
    \A c \in executed :
        (Bundle # NoBundle /\ Requires(BundlePolicy(Bundle), call[c].tool, call[c].effect))
            => approval[c] = "approved"

\* A decision the API acknowledged with success is the one on record, now and
\* later, so of two people deciding at once only one is told so, and a failed
\* write is never reported as a decision (ResolveApproval's compare-and-set,
\* handleApprove).  Slack acknowledges every click and promises nothing.
AcknowledgedIsRecorded ==
    \A h \in Humans :
        (human[h].via = "api" /\ human[h].code = "200")
            => approval[human[h].call] = human[h].decision

\* As long as no store statement failed, every tool call the MCP gateway forwarded
\* was written to the audit trail as approved before the upstream server saw it
\* (recordToolCall, best effort, before forward).
AuditedBeforeExecuted ==
    \A c \in executed : (faults = 0 /\ call[c].kind = "mcp") => audit[c] = "approved"

\* The waiters map holds exactly the goroutines blocked in the gate: no entry
\* outlives its request (the deferred delete).
NoLeakedWaiter == waiters = {c \in Calls : call[c].pc = "wait"}

\* Every tools/call is answered even if nobody ever decides (approvalTimeout).
McpCallsEnd == \A c \in Calls :
    call[c].pc \in DaemonPCs \ {"ask"} ~> call[c].pc = "done"

\* Resolve never blocks on the waiter's channel, whoever else decides.
DecidersReturn == \A h \in Humans : human[h].pc # "idle" ~> human[h].pc = "idle"

\* A tools/call that waits for approval when its run is cancelled or out of
\* budget is refused, whatever is decided afterwards.
NoToolAfterHalt ==
    [][\A c \in Calls : (halted /\ At(c, "wait")) => call'[c].outcome # "approved"]_vars

\* Refinement: what the gate promises, whatever happens between the row, the
\* waiter, the channel, the agent and the people (SideEffectGate).
Verdict == [c \in Calls |-> IF c \in exempt THEN "exempt"
                           ELSE IF approval[c] \in Decisions THEN approval[c] ELSE "open"]
Abstract == INSTANCE SideEffectGate WITH verdict <- Verdict, done <- executed

\* The daemon's gate, with its callers and deciders, implements SideEffectGate.
ImplementsGate == Abstract!Spec
=============================================================================

------------------------- MODULE ApprovalGateProofs -------------------------
(***************************************************************************)
(* Theorems about ApprovalGate, for any sets of calls, people and tools,   *)
(* any policy and any number of crashes and store faults.                  *)
(***************************************************************************)
EXTENDS ApprovalGate, TLAPS

\* A call that may have its side effect: let through by the policy, or approved.
Cleared(c) == c \in exempt \/ approval[c] = "approved"

\* Nothing was decided about a call before its policy check.
Undecided == {"new", "screen", "create", "ask"}

\* The inductive invariant, per call ...
CallOK(c) ==
    /\ call[c].pc \in Undecided => approval[c] = "none" /\ c \notin exempt
    /\ c \in exempt => approval[c] = "none"
    /\ call[c].outcome = "approved" => Cleared(c)
    /\ call[c].pc = "forward" => call[c].outcome = "approved"
    /\ call[c].pc = "run" => Cleared(c)
    /\ c \in executed => Cleared(c)
    /\ chan[c] # "empty" => chan[c] = approval[c]

\* ... and per person: who is past the compare-and-set won it.
HumanOK(h) ==
    /\ human[h].pc # "idle" => human[h].call \in Calls /\ human[h].decision \in Decisions
    /\ \/ human[h].pc \in {"lookup", "send"}
       \/ human[h].via = "api" /\ human[h].code = "200"
       => /\ human[h].call \in Calls /\ human[h].decision \in Decisions
          /\ approval[human[h].call] = human[h].decision

GateInv ==
    /\ TypeOK
    /\ \A c \in Calls : CallOK(c)
    /\ \A h \in Humans : HumanOK(h)

----------------------------------------------------------------------------
(* A step of one call.                                                     *)

\* What the step of a call leaves alone: everything said of the other calls, the
\* people, and a decision that was made.
StepOf(c) ==
    /\ call' \in [Calls -> CallRecords] /\ UNCHANGED human
    /\ \A d \in Calls \ {c} :
         /\ call'[d] = call[d] /\ approval'[d] = approval[d] /\ chan'[d] = chan[d]
         /\ d \in exempt' <=> d \in exempt
         /\ d \in executed' <=> d \in executed
    /\ approval[c] # "none" => approval'[c] = approval[c]

\* Such a step can only break what is said about c itself.
LEMMA OthersKeepInv ==
    ASSUME GateInv, NEW c \in Calls, StepOf(c), CallOK(c)'
    PROVE  (\A d \in Calls : CallOK(d)') /\ (\A h \in Humans : HumanOK(h)')
<1>1. ASSUME NEW d \in Calls, d # c PROVE CallOK(d)'
  BY <1>1 DEF GateInv, StepOf, CallOK, Cleared
<1>2. ASSUME NEW h \in Humans PROVE HumanOK(h)'
  <2>1. HumanOK(h) /\ human' = human
    BY DEF GateInv, StepOf
  <2>2. \A d \in Calls : approval[d] \in Decisions => approval'[d] = approval[d]
    BY DEF StepOf, Decisions
  <2>3. QED
    BY <2>1, <2>2 DEF HumanOK
<1>3. QED
  BY <1>1, <1>2

\* Goto moves the program counter of c and nothing else.
LEMMA GotoMoves ==
    ASSUME call \in [Calls -> CallRecords], NEW c \in Calls, NEW pc \in PCs, Goto(c, pc)
    PROVE  /\ call' \in [Calls -> CallRecords]
           /\ \A d \in Calls \ {c} : call'[d] = call[d]
           /\ call'[c].pc = pc /\ call'[c].outcome = call[c].outcome
BY DEF Goto, CallRecords

\* Conclude fixes the outcome.
LEMMA ConcludeMoves ==
    ASSUME call \in [Calls -> CallRecords], NEW c \in Calls, NEW outcome \in Outcomes,
           Conclude(c, outcome)
    PROVE  /\ call' \in [Calls -> CallRecords]
           /\ \A d \in Calls \ {c} : call'[d] = call[d]
           /\ call'[c].pc = "record" /\ call'[c].outcome = outcome
<1>1. "record" \in PCs
  BY DEF PCs, DaemonPCs
<1>2. QED
  BY <1>1 DEF Conclude, CallRecords

\* A call arrives.
LEMMA ArrivalKeeps ==
    ASSUME GateInv, NEW c \in Calls, NEW tool \in Tools, NEW effect \in SdkEffects,
           SdkArrives(c, tool, effect)
    PROVE  GateInv'
<1>1. call' \in [Calls -> CallRecords] /\ call'[c].pc = "ask" /\ call'[c].outcome = "none"
      /\ \A d \in Calls \ {c} : call'[d] = call[d]
  <2>1. [NewCall EXCEPT !.pc = "ask", !.kind = "sdk", !.tool = tool, !.effect = effect] \in CallRecords
    BY DEF NewCall, CallRecords, PCs, DaemonPCs, Outcomes
  <2>2. QED
    BY <2>1 DEF SdkArrives, NewCall, GateInv, TypeOK
<1>2. StepOf(c)
  BY <1>1 DEF SdkArrives, gate, StepOf
<1>3. CallOK(c)'
  <2>1. CallOK(c) /\ call[c].pc = "new"
    BY DEF GateInv, SdkArrives, At
  <2>2. UNCHANGED <<approval, exempt, executed, chan>>
    BY DEF SdkArrives, gate
  <2>3. QED
    BY <1>1, <2>1, <2>2 DEF CallOK, Cleared, Undecided
<1>4. TypeOK'
  BY <1>1 DEF SdkArrives, gate, GateInv, TypeOK
<1>5. QED
  BY <1>2, <1>3, <1>4, OthersKeepInv DEF GateInv

\* A tools/call arrives.
LEMMA McpArrivalKeeps ==
    ASSUME GateInv, NEW c \in Calls, NEW tool \in Tools, McpArrives(c, tool)
    PROVE  GateInv'
<1>1. call' \in [Calls -> CallRecords] /\ call'[c].pc = "screen" /\ call'[c].outcome = "none"
      /\ \A d \in Calls \ {c} : call'[d] = call[d]
  <2>1. [NewCall EXCEPT !.pc = "screen", !.kind = "mcp", !.tool = tool,
                        !.effect = SideEffect(tool)] \in CallRecords
    BY DEF NewCall, CallRecords, PCs, DaemonPCs, Outcomes, SideEffect
  <2>2. QED
    BY <2>1 DEF McpArrives, NewCall, GateInv, TypeOK
<1>2. StepOf(c)
  BY <1>1 DEF McpArrives, gate, StepOf
<1>3. CallOK(c)'
  <2>1. CallOK(c) /\ call[c].pc = "new"
    BY DEF GateInv, McpArrives, At
  <2>2. UNCHANGED <<approval, exempt, executed, chan>>
    BY DEF McpArrives, gate
  <2>3. QED
    BY <1>1, <2>1, <2>2 DEF CallOK, Cleared, Undecided
<1>4. TypeOK'
  BY <1>1 DEF McpArrives, gate, GateInv, TypeOK
<1>5. QED
  BY <1>2, <1>3, <1>4, OthersKeepInv DEF GateInv

\* The steps of a tools/call in the daemon.
LEMMA McpKeeps ==
    ASSUME GateInv, NEW c \in Calls, McpStep(c)
    PROVE  GateInv'
<1> USE DEF GateInv, TypeOK
<1>0. CallOK(c) /\ call[c] \in CallRecords
  OBVIOUS
<1>1. CASE Screen(c)
  <2>1. call[c].pc = "screen" /\ UNCHANGED <<gate, executed, human>>
    BY <1>1 DEF Screen, At
  <2>2. \/ Conclude(c, "blocked") /\ exempt' = exempt
        \/ Goto(c, "create") /\ exempt' = exempt
        \/ Conclude(c, "approved") /\ exempt' = exempt \cup {c}
    BY <1>1 DEF Screen
  <2>3. /\ call' \in [Calls -> CallRecords]
        /\ \A d \in Calls \ {c} : call'[d] = call[d]
        /\ \/ exempt' = exempt /\ call'[c].pc = "record" /\ call'[c].outcome = "blocked"
           \/ exempt' = exempt /\ call'[c].pc = "create" /\ call'[c].outcome = call[c].outcome
           \/ exempt' = exempt \cup {c} /\ call'[c].pc = "record"
    <3>1. "create" \in PCs /\ {"blocked", "approved"} \subseteq Outcomes
      BY DEF Outcomes, PCs, DaemonPCs
    <3>2. QED
      BY <2>2, <3>1, GotoMoves, ConcludeMoves
  <2>4. CallOK(c)'
    BY <1>0, <2>1, <2>3 DEF CallOK, Cleared, Undecided, gate
  <2>5. StepOf(c)
    BY <2>1, <2>3 DEF StepOf, gate
  <2>6. TypeOK'
    <3>1. faults' \in Nat
      BY <1>1 DEF Screen, Fault
    <3>2. QED
      BY <1>1, <2>3, <3>1 DEF Screen, gate
  <2>7. QED
    BY <2>4, <2>5, <2>6, OthersKeepInv
<1>2. CASE CreateApproval(c)
  <2>1. /\ call[c].pc = "create" /\ UNCHANGED <<waiters, chan, exempt, executed, human>>
        /\ \/ approval' = [approval EXCEPT ![c] = "pending"] /\ Goto(c, "register")
           \/ approval' = approval /\ Conclude(c, "timeout")
    BY <1>2 DEF CreateApproval, At
  <2>2. /\ call' \in [Calls -> CallRecords]
        /\ \A d \in Calls \ {c} : call'[d] = call[d]
        /\ \/ /\ approval' = [approval EXCEPT ![c] = "pending"]
              /\ call'[c].pc = "register" /\ call'[c].outcome = call[c].outcome
           \/ approval' = approval /\ call'[c].pc = "record" /\ call'[c].outcome = "timeout"
    <3>1. "register" \in PCs /\ "timeout" \in Outcomes
      BY DEF Outcomes, PCs, DaemonPCs
    <3>2. QED
      BY <2>1, <3>1, GotoMoves, ConcludeMoves
  <2>3. CallOK(c)'
    <3>1. /\ approval[c] = "none" /\ c \notin exempt /\ c \notin executed
          /\ call[c].outcome # "approved" /\ chan[c] = "empty"
      BY <1>0, <2>1 DEF CallOK, Cleared, Undecided, Decisions
    <3>2. QED
      BY <2>1, <2>2, <3>1 DEF CallOK, Cleared, Undecided
  <2>4. StepOf(c)
    BY <1>0, <2>1, <2>2 DEF StepOf, CallOK, Undecided
  <2>5. TypeOK'
    <3>1. faults' \in Nat
      BY <1>2 DEF CreateApproval, Fault
    <3>2. approval' \in [Calls -> {"none", "pending"} \cup Decisions]
      BY <2>1
    <3>3. QED
      BY <1>2, <2>2, <3>1, <3>2 DEF CreateApproval
  <2>6. QED
    BY <2>3, <2>4, <2>5, OthersKeepInv
<1>3. CASE RegisterWaiter(c)
  <2>1. call[c].pc = "register" /\ Goto(c, "wait") /\ "wait" \in PCs
        /\ UNCHANGED <<approval, chan, exempt, executed, human>>
    BY <1>3 DEF RegisterWaiter, At, PCs, DaemonPCs
  <2>2. /\ call' \in [Calls -> CallRecords]
        /\ \A d \in Calls \ {c} : call'[d] = call[d]
        /\ call'[c].pc = "wait" /\ call'[c].outcome = call[c].outcome
    BY <2>1, GotoMoves
  <2>3. CallOK(c)'
    BY <1>0, <2>1, <2>2 DEF CallOK, Cleared, Undecided
  <2>4. StepOf(c)
    BY <2>1, <2>2 DEF StepOf
  <2>5. TypeOK'
    BY <1>3, <2>2 DEF RegisterWaiter, Notify
  <2>6. QED
    BY <2>3, <2>4, <2>5, OthersKeepInv
<1>4. CASE Receive(c) \/ GiveUp(c)
  <2>1. /\ call[c].pc = "wait" /\ UNCHANGED <<approval, exempt, executed, human>>
        /\ chan' \in {chan, [chan EXCEPT ![c] = "empty"]}
        /\ \/ Conclude(c, "timeout")
           \/ Conclude(c, chan[c]) /\ chan[c] # "empty"
    BY <1>4 DEF Receive, GiveUp, At
  <2>2. chan[c] # "empty" => chan[c] \in Outcomes /\ chan[c] = approval[c]
    BY <1>0 DEF CallOK, Outcomes, Decisions
  <2>3. /\ call' \in [Calls -> CallRecords]
        /\ \A d \in Calls \ {c} : call'[d] = call[d]
        /\ call'[c].pc = "record" /\ call'[c].outcome \in {"timeout", approval[c]}
    BY <2>1, <2>2, ConcludeMoves DEF Outcomes
  <2>4. CallOK(c)'
    BY <1>0, <2>1, <2>3 DEF CallOK, Cleared, Undecided
  <2>5. StepOf(c)
    BY <2>1, <2>3 DEF StepOf
  <2>6. TypeOK'
    BY <1>4, <2>1, <2>3 DEF Receive, GiveUp
  <2>7. QED
    BY <2>4, <2>5, <2>6, OthersKeepInv
<1>5. CASE RecordToolCall(c)
  <2>1. /\ call[c].pc = "record" /\ UNCHANGED <<gate, exempt, executed, human>>
        /\ Goto(c, IF call[c].outcome = "approved" THEN "forward" ELSE "done")
    BY <1>5 DEF RecordToolCall, At
  <2>2. (IF call[c].outcome = "approved" THEN "forward" ELSE "done") \in PCs
    BY DEF PCs, DaemonPCs
  <2>3. /\ call' \in [Calls -> CallRecords]
        /\ \A d \in Calls \ {c} : call'[d] = call[d]
        /\ call'[c].outcome = call[c].outcome
        /\ call'[c].pc = IF call[c].outcome = "approved" THEN "forward" ELSE "done"
    BY <2>1, <2>2, GotoMoves
  <2>4. CallOK(c)'
    BY <1>0, <2>1, <2>3 DEF CallOK, Cleared, Undecided, gate
  <2>5. StepOf(c)
    BY <2>1, <2>3 DEF StepOf, gate
  <2>6. TypeOK'
    <3>1. faults' \in Nat
      BY <1>5 DEF RecordToolCall, Fault
    <3>2. audit' \in [Calls -> Outcomes]
      <4>1. call[c].outcome \in Outcomes
        BY <1>0 DEF CallRecords
      <4>2. QED
        BY <1>5, <4>1 DEF RecordToolCall
    <3>3. QED
      BY <1>5, <2>3, <3>1, <3>2 DEF RecordToolCall, gate
  <2>7. QED
    BY <2>4, <2>5, <2>6, OthersKeepInv
<1>6. CASE Forward(c)
  <2>1. /\ call[c].pc = "forward" /\ UNCHANGED <<gate, exempt, human>>
        /\ Goto(c, "done") /\ "done" \in PCs /\ executed' \in {executed, executed \cup {c}}
    BY <1>6 DEF Forward, At, PCs
  <2>2. /\ call' \in [Calls -> CallRecords]
        /\ \A d \in Calls \ {c} : call'[d] = call[d]
        /\ call'[c].pc = "done" /\ call'[c].outcome = call[c].outcome
    BY <2>1, GotoMoves
  <2>3. CallOK(c)'
    BY <1>0, <2>1, <2>2 DEF CallOK, Cleared, Undecided, gate
  <2>4. StepOf(c)
    BY <2>1, <2>2 DEF StepOf, gate
  <2>5. TypeOK'
    BY <1>6, <2>1, <2>2 DEF Forward, gate
  <2>6. QED
    BY <2>3, <2>4, <2>5, OthersKeepInv
<1>7. QED
  BY <1>1, <1>2, <1>3, <1>4, <1>5, <1>6 DEF McpStep

\* The steps of a call gated by the SDK.
LEMMA SdkKeeps ==
    ASSUME GateInv, NEW c \in Calls, SdkStep(c) \/ SdkGiveUp(c)
    PROVE  GateInv'
<1> USE DEF GateInv, TypeOK
<1>0. CallOK(c) /\ call[c] \in CallRecords
  OBVIOUS
<1>1. CASE SdkAsk(c)
  <2>1. /\ call[c].pc = "ask" /\ UNCHANGED <<waiters, chan, executed, human>>
        /\ \/ exempt' = exempt \cup {c} /\ Goto(c, "run") /\ UNCHANGED approval
           \/ exempt' = exempt /\ approval' = [approval EXCEPT ![c] = "pending"] /\ Goto(c, "poll")
           \/ exempt' = exempt /\ UNCHANGED approval /\ Goto(c, "done")
    BY <1>1 DEF SdkAsk, At
  <2>2. {"run", "poll", "done"} \subseteq PCs
    BY DEF PCs
  <2>3. /\ call' \in [Calls -> CallRecords]
        /\ \A d \in Calls \ {c} : call'[d] = call[d]
        /\ call'[c].outcome = call[c].outcome
        /\ \/ exempt' = exempt \cup {c} /\ call'[c].pc = "run" /\ approval' = approval
           \/ /\ exempt' = exempt /\ approval' = [approval EXCEPT ![c] = "pending"]
              /\ call'[c].pc = "poll"
           \/ exempt' = exempt /\ approval' = approval /\ call'[c].pc = "done"
    BY <2>1, <2>2, GotoMoves
  <2>4. CallOK(c)'
    <3>1. /\ approval[c] = "none" /\ c \notin exempt /\ c \notin executed
          /\ call[c].outcome # "approved" /\ chan[c] = "empty"
      BY <1>0, <2>1 DEF CallOK, Cleared, Undecided, Decisions
    <3>2. QED
      BY <2>1, <2>3, <3>1 DEF CallOK, Cleared, Undecided
  <2>5. StepOf(c)
    BY <1>0, <2>1, <2>3 DEF StepOf, CallOK, Undecided
  <2>6. TypeOK'
    <3>1. faults' \in Nat
      BY <1>1 DEF SdkAsk, Fault
    <3>2. message' \in [Calls -> {"none", "posting", "buttons"} \cup Decisions]
      BY <1>1 DEF SdkAsk, Notify
    <3>3. approval' \in [Calls -> {"none", "pending"} \cup Decisions] /\ exempt' \subseteq Calls
      BY <2>1
    <3>4. QED
      BY <1>1, <2>3, <3>1, <3>2, <3>3 DEF SdkAsk
  <2>7. QED
    BY <2>4, <2>5, <2>6, OthersKeepInv
<1>2. CASE SdkPoll(c) \/ SdkGiveUp(c)
  <2>1. /\ call[c].pc \in {"ask", "poll"} /\ UNCHANGED <<gate, exempt, executed, human>>
        /\ (approval[c] = "approved" /\ Goto(c, "run")) \/ Goto(c, "done")
    BY <1>2 DEF SdkPoll, SdkGiveUp, At
  <2>2. {"run", "done"} \subseteq PCs
    BY DEF PCs
  <2>3. /\ call' \in [Calls -> CallRecords]
        /\ \A d \in Calls \ {c} : call'[d] = call[d]
        /\ call'[c].outcome = call[c].outcome
        /\ (approval[c] = "approved" /\ call'[c].pc = "run") \/ call'[c].pc = "done"
    BY <2>1, <2>2, GotoMoves
  <2>4. CallOK(c)'
    BY <1>0, <2>1, <2>3 DEF CallOK, Cleared, Undecided, gate
  <2>5. StepOf(c)
    BY <2>1, <2>3 DEF StepOf, gate
  <2>6. TypeOK'
    BY <1>2, <2>3 DEF SdkPoll, SdkGiveUp, gate
  <2>7. QED
    BY <2>4, <2>5, <2>6, OthersKeepInv
<1>3. CASE SdkRun(c)
  <2>1. /\ call[c].pc = "run" /\ UNCHANGED <<gate, exempt, human>>
        /\ Goto(c, "done") /\ "done" \in PCs /\ executed' = executed \cup {c}
    BY <1>3 DEF SdkRun, At, PCs
  <2>2. /\ call' \in [Calls -> CallRecords]
        /\ \A d \in Calls \ {c} : call'[d] = call[d]
        /\ call'[c].pc = "done" /\ call'[c].outcome = call[c].outcome
    BY <2>1, GotoMoves
  <2>3. CallOK(c)'
    BY <1>0, <2>1, <2>2 DEF CallOK, Cleared, Undecided, gate
  <2>4. StepOf(c)
    BY <2>1, <2>2 DEF StepOf, gate
  <2>5. TypeOK'
    BY <1>3, <2>1, <2>2 DEF SdkRun, gate
  <2>6. QED
    BY <2>3, <2>4, <2>5, OthersKeepInv
<1>4. QED
  BY <1>1, <1>2, <1>3 DEF SdkStep

----------------------------------------------------------------------------
(* A step of a person, and of the process.                                 *)

\* A decision is recorded only over a pending row, so it revises no verdict.
LEMMA DecideKeeps ==
    ASSUME GateInv, NEW h \in Humans, NEW c \in Calls, NEW decision \in Decisions,
           NEW via \in {"api", "slack"}, Decide(h, c, decision, via)
    PROVE  GateInv'
<1> USE DEF GateInv, TypeOK
<1>1. UNCHANGED <<up, calls, waiters, chan, message, halted, crashes, faults>> /\ approval[c] # "none"
  BY DEF Decide, CanDecide
<1>2. \/ /\ approval[c] = "pending" /\ approval' = [approval EXCEPT ![c] = decision]
         /\ human' = [human EXCEPT ![h] = [pc |-> "lookup", call |-> c, decision |-> decision,
                                           via |-> via,
                                           code |-> Acknowledge(via, "200")]]
      \/ /\ approval[c] # "pending" /\ approval' = approval
         /\ human' = [human EXCEPT ![h] = [pc |-> AfterResolve(via), call |-> c,
                                           decision |-> decision, via |-> via,
                                           code |-> Acknowledge(via, "409")]]
  BY DEF Decide
<1>3. /\ AfterResolve(via) \in {"idle", "update"}
      /\ \A code \in {"200", "409"} : Acknowledge(via, code) \in {"200", "409"}
      /\ via = "api" => Acknowledge(via, "409") # "200"
  BY DEF AfterResolve, Acknowledge
<1>4. /\ human' \in [Humans -> HumanRecords]
      /\ approval' \in [Calls -> {"none", "pending"} \cup Decisions]
  BY <1>2, <1>3 DEF HumanRecords, Decisions
<1>5. TypeOK'
  BY <1>1, <1>4 DEF calls
<1>6. \A d \in Calls : approval'[d] = approval[d] \/ (d = c /\ approval[d] = "pending" /\ approval'[d] = decision)
  BY <1>2
<1>7. ASSUME NEW d \in Calls PROVE CallOK(d)'
  BY <1>1, <1>6 DEF CallOK, Cleared, calls, Decisions
<1>8. ASSUME NEW g \in Humans PROVE HumanOK(g)'
  <2>1. HumanOK(g)
    OBVIOUS
  <2>2. CASE g = h
    BY <1>2, <1>3, <2>2 DEF HumanOK
  <2>3. CASE g # h
    <3>1. human'[g] = human[g]
      BY <1>2, <2>3
    <3>2. QED
      BY <1>6, <2>1, <3>1 DEF HumanOK, Decisions
  <2>4. QED
    BY <2>2, <2>3
<1>9. QED
  BY <1>5, <1>7, <1>8

\* A decision the store could not take changes no row.
LEMMA DecideFailsKeeps ==
    ASSUME GateInv, NEW h \in Humans, NEW c \in Calls, NEW decision \in Decisions,
           NEW via \in {"api", "slack"}, DecideFails(h, c, decision, via)
    PROVE  GateInv'
<1> USE DEF GateInv, TypeOK
<1>1. UNCHANGED <<up, calls, gate, message, halted, crashes>>
  BY DEF DecideFails
<1>2. faults' \in Nat
  <2>1. faults' = faults + 1
    BY DEF DecideFails, Fault
  <2>2. QED
    BY <2>1
<1>3. human' = [human EXCEPT ![h] = [pc |-> AfterResolve(via), call |-> c, decision |-> decision,
                                     via |-> via, code |-> Acknowledge(via, "500")]]
  BY DEF DecideFails
<1>4. /\ AfterResolve(via) \in {"idle", "update"}
      /\ Acknowledge(via, "500") \in {"200", "500"}
      /\ via = "api" => Acknowledge(via, "500") # "200"
  BY DEF AfterResolve, Acknowledge
<1>5. human' \in [Humans -> HumanRecords]
  BY <1>3, <1>4 DEF HumanRecords
<1>6. TypeOK'
  BY <1>1, <1>2, <1>5 DEF calls, gate
<1>7. ASSUME NEW d \in Calls PROVE CallOK(d)'
  BY <1>1 DEF CallOK, Cleared, calls, gate
<1>8. ASSUME NEW g \in Humans PROVE HumanOK(g)'
  <2>1. HumanOK(g)
    OBVIOUS
  <2>2. CASE g = h
    BY <1>3, <1>4, <2>2 DEF HumanOK
  <2>3. CASE g # h
    <3>1. human'[g] = human[g]
      BY <1>3, <2>3
    <3>2. QED
      BY <1>1, <2>1, <3>1 DEF HumanOK, gate
  <2>4. QED
    BY <2>2, <2>3
<1>9. QED
  BY <1>6, <1>7, <1>8

\* Waking the waiter and rewriting the message.
LEMMA ResolveKeeps ==
    ASSUME GateInv, NEW h \in Humans, Lookup(h) \/ Send(h) \/ UpdateResolved(h)
    PROVE  GateInv'
<1> USE DEF GateInv, TypeOK
<1>0. HumanOK(h) /\ human[h] \in HumanRecords
  OBVIOUS
<1>1. /\ human[h].pc # "idle" /\ UNCHANGED <<up, calls, approval, waiters, halted, crashes, faults>>
      /\ Send(h) => human[h].pc = "send"
      /\ UNCHANGED chan \/ (human[h].pc = "send" /\ chan' = [chan EXCEPT ![human[h].call] = human[h].decision])
      /\ message' \in {message, [message EXCEPT ![human[h].call] = human[h].decision]}
  BY DEF Lookup, Send, UpdateResolved, gate
<1>2. PICK pc : /\ human' = [human EXCEPT ![h].pc = pc]
                /\ pc \in {"idle", "update"} \/ (pc = "send" /\ human[h].pc = "lookup")
  BY DEF Lookup, Send, UpdateResolved, AfterResolve
<1>3. /\ human' \in [Humans -> HumanRecords]
      /\ \A g \in Humans \ {h} : human'[g] = human[g]
      /\ human'[h] = [human[h] EXCEPT !.pc = pc]
  <2>1. [human[h] EXCEPT !.pc = pc] \in HumanRecords
    BY <1>0, <1>2 DEF HumanRecords
  <2>2. human' = [human EXCEPT ![h] = [human[h] EXCEPT !.pc = pc]]
    BY <1>2
  <2>3. QED
    BY <2>1, <2>2
<1>4. human[h].call \in Calls /\ human[h].decision \in Decisions
  BY <1>0, <1>1 DEF HumanOK
<1>5. human[h].pc = "send" => approval[human[h].call] = human[h].decision
  BY <1>0 DEF HumanOK
<1>6. TypeOK'
  BY <1>1, <1>3, <1>4 DEF calls
<1>7. ASSUME NEW c \in Calls PROVE CallOK(c)'
  BY <1>1, <1>4, <1>5 DEF CallOK, Cleared, calls
<1>8. ASSUME NEW g \in Humans PROVE HumanOK(g)'
  <2>1. HumanOK(g)
    OBVIOUS
  <2>2. CASE g = h
    <3>1. /\ human'[h].call = human[h].call /\ human'[h].decision = human[h].decision
          /\ human'[h].code = human[h].code /\ human'[h].via = human[h].via /\ human'[h].pc = pc
      BY <1>0, <1>3 DEF HumanRecords
    <3>2. QED
      BY <1>0, <1>1, <1>2, <1>4, <2>2, <3>1 DEF HumanOK
  <2>3. CASE g # h
    BY <1>1, <1>3, <2>1, <2>3 DEF HumanOK
  <2>4. QED
    BY <2>2, <2>3
<1>9. QED
  BY <1>6, <1>7, <1>8

\* Timeouts, halts, crashes and restarts decide nothing.
LEMMA ProcessKeeps ==
    ASSUME GateInv, Halt \/ Crash \/ Restart \/ \E c \in Calls : Expire(c) \/ PostMessage(c)
    PROVE  GateInv'
<1> USE DEF GateInv, TypeOK
<1>1. CASE Halt \/ Restart
  <2>1. TypeOK'
    BY <1>1 DEF Halt, Restart, calls, gate
  <2>2. (\A c \in Calls : CallOK(c)') /\ (\A h \in Humans : HumanOK(h)')
    BY <1>1 DEF Halt, Restart, calls, gate, CallOK, Cleared, HumanOK
  <2>3. QED
    BY <2>1, <2>2
<1>2. CASE \E c \in Calls : Expire(c) \/ PostMessage(c)
  <2>1. TypeOK'
    BY <1>2 DEF Expire, PostMessage, calls, gate
  <2>2. (\A c \in Calls : CallOK(c)') /\ (\A h \in Humans : HumanOK(h)')
    BY <1>2 DEF Expire, PostMessage, calls, gate, CallOK, Cleared, HumanOK
  <2>3. QED
    BY <2>1, <2>2
<1>3. CASE Crash
  <2>1. \A c \in Calls : /\ call'[c] \in CallRecords /\ call'[c].outcome = call[c].outcome
                         /\ call'[c].pc \in {call[c].pc, "done"}
    <3>1. SUFFICES ASSUME NEW c \in Calls
                   PROVE  /\ call'[c] \in CallRecords /\ call'[c].outcome = call[c].outcome
                          /\ call'[c].pc \in {call[c].pc, "done"}
      OBVIOUS
    <3>2. call[c] \in CallRecords /\ call'[c] \in {call[c], [call[c] EXCEPT !.pc = "done"]}
      BY <1>3 DEF Crash
    <3>3. "done" \in PCs
      BY DEF PCs
    <3>4. QED
      BY <3>2, <3>3 DEF CallRecords
  <2>2. /\ call' \in [Calls -> CallRecords] /\ human' = [h \in Humans |-> IdleHuman]
        /\ chan' = [c \in Calls |-> "empty"] /\ UNCHANGED <<approval, exempt, executed>>
    BY <1>3, <2>1 DEF Crash
  <2>3. IdleHuman \in HumanRecords /\ IdleHuman.pc = "idle" /\ IdleHuman.via = "none"
    BY DEF IdleHuman, HumanRecords
  <2>4. up' \in BOOLEAN /\ waiters' = {}
        /\ message' \in [Calls -> {"none", "posting", "buttons"} \cup Decisions]
        /\ UNCHANGED <<expired, audit, halted, faults>>
    BY <1>3 DEF Crash
  <2>5. crashes' \in Nat
    <3>1. crashes' = crashes + 1
      BY <1>3 DEF Crash
    <3>2. QED
      BY <3>1
  <2>6. TypeOK'
    BY <2>2, <2>3, <2>4, <2>5
  <2>7. ASSUME NEW c \in Calls PROVE CallOK(c)'
    BY <2>1, <2>2 DEF CallOK, Cleared, Undecided
  <2>8. ASSUME NEW h \in Humans PROVE HumanOK(h)'
    BY <2>2, <2>3 DEF HumanOK
  <2>9. QED
    BY <2>6, <2>7, <2>8
<1>4. QED
  BY <1>1, <1>2, <1>3

\* The invariant holds initially and is preserved.
LEMMA GateInvInductive ==
    /\ Init => GateInv
    /\ GateInv /\ [Next]_vars => GateInv'
<1>1. ASSUME Init PROVE GateInv
  <2>1. NewCall \in CallRecords /\ NewCall.pc = "new" /\ NewCall.outcome = "none"
    BY DEF NewCall, CallRecords, PCs, Outcomes
  <2>2. IdleHuman \in HumanRecords /\ IdleHuman.pc = "idle" /\ IdleHuman.via = "none"
    BY DEF IdleHuman, HumanRecords
  <2>3. TypeOK
    BY <1>1, <2>1, <2>2 DEF Init, TypeOK, Outcomes
  <2>4. \A c \in Calls : CallOK(c)
    BY <1>1, <2>1 DEF Init, CallOK, Cleared, Undecided
  <2>5. \A h \in Humans : HumanOK(h)
    BY <1>1, <2>2 DEF Init, HumanOK
  <2>6. QED
    BY <2>3, <2>4, <2>5 DEF GateInv
<1>2. ASSUME GateInv, [Next]_vars PROVE GateInv'
  <2>1. CASE UNCHANGED vars
    <3>1. TypeOK'
      BY <1>2, <2>1 DEF vars, GateInv, TypeOK
    <3>2. (\A c \in Calls : CallOK(c)') /\ (\A h \in Humans : HumanOK(h)')
      BY <1>2, <2>1 DEF vars, GateInv, CallOK, Cleared, HumanOK
    <3>3. QED
      BY <3>1, <3>2 DEF GateInv
  <2>2. CASE Next
    BY <1>2, <2>2, McpArrivalKeeps, ArrivalKeeps, McpKeeps, SdkKeeps, DecideKeeps, DecideFailsKeeps,
       ResolveKeeps, ProcessKeeps
    DEF Next
  <2>3. QED
    BY <1>2, <2>1, <2>2
<1>3. QED
  BY <1>1, <1>2

\* Every reachable state of the gate, its callers and deciders is well formed.
THEOREM GateTypeCorrect == Spec => []TypeOK
<1>1. GateInv => TypeOK
  BY DEF GateInv
<1>2. QED
  BY <1>1, GateInvInductive, PTL DEF Spec

\* Whoever is told "200" by the API made the decision that is on record, now and
\* later: ResolveApproval's compare-and-set has one winner and nobody revises it.
THEOREM AcknowledgedIsRecordedHolds == Spec => []AcknowledgedIsRecorded
<1>1. GateInv => AcknowledgedIsRecorded
  BY DEF GateInv, HumanOK, AcknowledgedIsRecorded
<1>2. QED
  BY <1>1, GateInvInductive, PTL DEF Spec

----------------------------------------------------------------------------
(* Refinement.                                                             *)

\* How a step moves one call's verdict: it stays, or an open one is settled.
LEMMA VerdictSteps ==
    ASSUME GateInv, [Next]_vars
    PROVE  \/ Verdict' = Verdict /\ executed' = executed
           \/ \E c \in Calls : Abstract!Settle(c) \/ Abstract!Execute(c)
<1> USE DEF GateInv, TypeOK
<1>1. CASE \E c \in Calls : \/ Screen(c) /\ exempt' # exempt
                            \/ SdkAsk(c) /\ exempt' # exempt
  <2>1. PICK c \in Calls : \/ Screen(c) /\ exempt' # exempt
                           \/ SdkAsk(c) /\ exempt' # exempt
    BY <1>1
  <2>2. /\ call[c].pc \in {"screen", "ask"} /\ exempt' = exempt \cup {c}
        /\ approval' = approval /\ executed' = executed
    BY <2>1 DEF Screen, SdkAsk, At, gate
  <2>3. approval[c] = "none" /\ c \notin exempt
    BY <2>2 DEF CallOK, Undecided
  <2>4. Verdict[c] = "open" /\ Verdict' = [Verdict EXCEPT ![c] = "exempt"]
    BY <2>2, <2>3 DEF Verdict, Decisions
  <2>5. Abstract!Settle(c)
    BY <2>2, <2>4 DEF Abstract!Settle, Abstract!Favourable
  <2>6. QED
    BY <2>5
<1>2. CASE \E h \in Humans, c \in Calls, decision \in Decisions, via \in {"api", "slack"} :
             Decide(h, c, decision, via)
  <2>1. PICK h \in Humans, c \in Calls, decision \in Decisions, via \in {"api", "slack"} :
          Decide(h, c, decision, via)
    BY <1>2
  <2>2. UNCHANGED <<exempt, executed>> /\ approval[c] # "none"
    BY <2>1 DEF Decide, CanDecide, calls
  <2>3. CASE approval[c] # "pending"
    <3>1. approval' = approval
      BY <2>1, <2>3 DEF Decide
    <3>2. QED
      BY <2>2, <3>1 DEF Verdict
  <2>4. CASE approval[c] = "pending"
    <3>1. approval' = [approval EXCEPT ![c] = decision] /\ c \notin exempt
      BY <2>1, <2>4 DEF Decide, CallOK
    <3>2. Verdict[c] = "open" /\ Verdict' = [Verdict EXCEPT ![c] = decision]
      BY <2>2, <2>4, <3>1 DEF Verdict, Decisions
    <3>3. Abstract!Settle(c)
      BY <2>2, <3>2 DEF Abstract!Settle, Abstract!Favourable, Decisions
    <3>4. QED
      BY <3>3
  <2>5. QED
    BY <2>3, <2>4
<1>3. CASE \E c \in Calls : Forward(c) \/ SdkRun(c)
  <2>1. PICK c \in Calls : Forward(c) \/ SdkRun(c)
    BY <1>3
  <2>2. /\ call[c].pc \in {"forward", "run"} /\ UNCHANGED <<approval, exempt>>
        /\ executed' \in {executed, executed \cup {c}}
    BY <2>1 DEF Forward, SdkRun, At, gate
  <2>3. Cleared(c)
    BY <2>2 DEF CallOK
  <2>4. Verdict[c] \in {"exempt", "approved"} /\ Verdict' = Verdict
    BY <2>2, <2>3 DEF Cleared, Verdict, Decisions
  <2>5. executed' = executed \/ Abstract!Execute(c)
    BY <2>2, <2>4 DEF Abstract!Execute, Abstract!Favourable
  <2>6. QED
    BY <2>4, <2>5
<1>4. CASE UNCHANGED <<exempt, executed>> /\ (\E c \in Calls : CreateApproval(c) \/ SdkAsk(c))
  <2>1. PICK c \in Calls : CreateApproval(c) \/ SdkAsk(c)
    BY <1>4
  <2>2. call[c].pc \in {"create", "ask"} /\ approval' \in {approval, [approval EXCEPT ![c] = "pending"]}
    BY <2>1 DEF CreateApproval, SdkAsk, At
  <2>3. approval[c] = "none"
    BY <2>2 DEF CallOK, Undecided
  <2>4. \A d \in Calls : (approval'[d] = approval[d]) \/ {approval[d], approval'[d]} \cap Decisions = {}
    BY <2>2, <2>3 DEF Decisions
  <2>5. Verdict' = Verdict
    BY <1>4, <2>4 DEF Verdict
  <2>6. QED
    BY <1>4, <2>5
<1>5. CASE UNCHANGED <<approval, exempt, executed>>
  BY <1>5 DEF Verdict
<1>6. QED
  <2>1. CASE UNCHANGED vars
    BY <1>5, <2>1 DEF vars
  <2>2. ASSUME NEW c \in Calls, McpStep(c) \/ Expire(c) \/ SdkStep(c) \/ SdkGiveUp(c)
        PROVE  \/ Screen(c) /\ exempt' # exempt
               \/ SdkAsk(c) /\ exempt' # exempt
               \/ Forward(c) \/ SdkRun(c)
               \/ UNCHANGED <<exempt, executed>> /\ (CreateApproval(c) \/ SdkAsk(c))
               \/ UNCHANGED <<approval, exempt, executed>>
    BY <2>2
    DEF McpStep, SdkStep, Screen, CreateApproval, RegisterWaiter, Receive, GiveUp, RecordToolCall,
        Expire, SdkAsk, SdkPoll, SdkGiveUp, gate
  <2>3. ASSUME NEW c \in Calls, NEW tool \in Tools,
               McpArrives(c, tool) \/ \E effect \in SdkEffects : SdkArrives(c, tool, effect)
        PROVE  UNCHANGED <<approval, exempt, executed>>
    BY <2>3 DEF McpArrives, SdkArrives, gate
  <2>4. ASSUME \/ \E h \in Humans : Lookup(h) \/ Send(h) \/ UpdateResolved(h)
               \/ \E h \in Humans, c \in Calls, decision \in Decisions, via \in {"api", "slack"} :
                    DecideFails(h, c, decision, via)
               \/ \E c \in Calls : PostMessage(c)
               \/ Halt \/ Crash \/ Restart
        PROVE  UNCHANGED <<approval, exempt, executed>>
    BY <2>4
    DEF Lookup, Send, UpdateResolved, DecideFails, PostMessage, Halt, Crash, Restart, calls, gate
  <2>5. QED
    BY <1>1, <1>2, <1>3, <1>4, <1>5, <2>1, <2>2, <2>3, <2>4 DEF Next

\* The daemon's gate, its SDK and MCP callers and the people deciding over
\* either channel implement SideEffectGate: one verdict per call, never revised,
\* and no side effect without a favourable one.
THEOREM ImplementsGateHolds == Spec => ImplementsGate
<1>1. Init => Abstract!Init
  BY DEF Init, Abstract!Init, Verdict, Decisions
<1>2. GateInv /\ [Next]_vars => [Abstract!Next]_<<Verdict, executed>>
  BY VerdictSteps DEF Abstract!Next
<1>3. QED
  BY <1>1, <1>2, GateInvInductive, PTL DEF Spec, ImplementsGate, Abstract!Spec

----------------------------------------------------------------------------
(* No gated side effect without approval.                                  *)

\* A call the policy let through is one the policy does not gate.
ExemptOK ==
    \A c \in Calls : /\ call[c].pc = "screen" => /\ call[c].kind = "mcp"
                                                 /\ call[c].effect = SideEffect(call[c].tool)
                     /\ call[c].pc = "ask" => call[c].kind = "sdk"
                     /\ c \in exempt => ~GatedGlobally(c)
                     /\ (c \in exempt /\ faults = 0) => ~GatedByBundle(c)

\* Failed store statements are counted and never forgotten.
LEMMA FaultsGrow ==
    ASSUME [Next]_vars
    PROVE  UNCHANGED faults \/ Fault
<1>1. ASSUME NEW c \in Calls, McpStep(c) \/ Expire(c) \/ SdkStep(c) \/ SdkGiveUp(c) \/ PostMessage(c)
      PROVE  UNCHANGED faults \/ Fault
  BY <1>1
  DEF McpStep, SdkStep, Screen, CreateApproval, RegisterWaiter, Receive, GiveUp, RecordToolCall,
      Forward, Expire, SdkAsk, SdkPoll, SdkRun, SdkGiveUp, PostMessage
<1>2. ASSUME NEW c \in Calls, NEW tool \in Tools,
             McpArrives(c, tool) \/ \E effect \in SdkEffects : SdkArrives(c, tool, effect)
      PROVE  UNCHANGED faults
  BY <1>2 DEF McpArrives, SdkArrives
<1>3. ASSUME NEW h \in Humans, Lookup(h) \/ Send(h) \/ UpdateResolved(h)
      PROVE  UNCHANGED faults
  BY <1>3 DEF Lookup, Send, UpdateResolved
<1>4. ASSUME NEW h \in Humans, NEW c \in Calls, NEW decision \in Decisions,
             NEW via \in {"api", "slack"},
             Decide(h, c, decision, via) \/ DecideFails(h, c, decision, via)
      PROVE  UNCHANGED faults \/ Fault
  BY <1>4 DEF Decide, DecideFails
<1>5. ASSUME Halt \/ Crash \/ Restart \/ UNCHANGED vars PROVE UNCHANGED faults
  BY <1>5 DEF Halt, Crash, Restart, vars
<1>6. QED
  BY <1>1, <1>2, <1>3, <1>4, <1>5 DEF Next

\* So a state without failed statements has a past without any.
LEMMA FaultFreePast ==
    ASSUME GateInv, [Next]_vars, faults' = 0
    PROVE  faults = 0 /\ ~Fault
  BY FaultsGrow DEF GateInv, TypeOK, Fault

\* What a call is about never changes once it arrived.
LEMMA CallIdentity ==
    ASSUME GateInv, [Next]_vars, NEW c \in Calls
    PROVE  \/ /\ call'[c].kind = call[c].kind /\ call'[c].tool = call[c].tool
              /\ call'[c].effect = call[c].effect
              /\ call'[c].pc \in {"screen", "ask"} => call'[c].pc = call[c].pc
           \/ /\ call[c].pc = "new" /\ UNCHANGED exempt
              /\ \/ /\ call'[c].pc = "screen" /\ call'[c].kind = "mcp"
                    /\ call'[c].effect = SideEffect(call'[c].tool)
                 \/ call'[c].pc = "ask" /\ call'[c].kind = "sdk"
<1>0. call \in [Calls -> CallRecords]
  BY DEF GateInv, TypeOK
<1>1. ASSUME NEW d \in Calls, NEW pc, pc \notin {"screen", "ask"}, Goto(d, pc)
      PROVE  /\ call'[c].kind = call[c].kind /\ call'[c].tool = call[c].tool
             /\ call'[c].effect = call[c].effect
             /\ call'[c].pc \in {"screen", "ask"} => call'[c].pc = call[c].pc
  BY <1>0, <1>1 DEF Goto, CallRecords
<1>2. ASSUME NEW d \in Calls, NEW outcome, Conclude(d, outcome)
      PROVE  /\ call'[c].kind = call[c].kind /\ call'[c].tool = call[c].tool
             /\ call'[c].effect = call[c].effect
             /\ call'[c].pc \in {"screen", "ask"} => call'[c].pc = call[c].pc
  BY <1>0, <1>2 DEF Conclude, CallRecords
<1>3. ASSUME NEW d \in Calls, McpStep(d) \/ SdkStep(d) \/ SdkGiveUp(d)
      PROVE  \/ \E pc : pc \notin {"screen", "ask"} /\ Goto(d, pc)
             \/ \E outcome : Conclude(d, outcome)
  BY <1>3
  DEF McpStep, SdkStep, Screen, CreateApproval, RegisterWaiter, Receive, GiveUp, RecordToolCall,
      Forward, SdkAsk, SdkPoll, SdkRun, SdkGiveUp
<1>4. ASSUME NEW d \in Calls, NEW tool \in Tools,
             McpArrives(d, tool) \/ \E effect \in SdkEffects : SdkArrives(d, tool, effect)
      PROVE  \/ call'[c] = call[c]
             \/ /\ call[c].pc = "new" /\ UNCHANGED exempt
                /\ \/ /\ call'[c].pc = "screen" /\ call'[c].kind = "mcp"
                      /\ call'[c].effect = SideEffect(call'[c].tool)
                   \/ call'[c].pc = "ask" /\ call'[c].kind = "sdk"
  BY <1>0, <1>4, ZenonT(60) DEF McpArrives, SdkArrives, At, NewCall
<1>5. CASE Crash
  BY <1>0, <1>5 DEF Crash, CallRecords
<1>6. ASSUME \/ UNCHANGED vars \/ Halt \/ Restart
             \/ \E d \in Calls : Expire(d) \/ PostMessage(d)
             \/ \E h \in Humans : Lookup(h) \/ Send(h) \/ UpdateResolved(h)
             \/ \E h \in Humans, d \in Calls, decision \in Decisions, via \in {"api", "slack"} :
                  Decide(h, d, decision, via) \/ DecideFails(h, d, decision, via)
      PROVE  call' = call
  BY <1>6
  DEF vars, Halt, Restart, Expire, Lookup, Send, UpdateResolved, Decide, DecideFails,
      PostMessage, calls
<1>7. QED
  BY <1>1, <1>2, <1>3, <1>4, <1>5, <1>6 DEF Next

\* Only the two policy evaluations, the gateway's and Gate.Create's, let a call
\* through without asking.
LEMMA ExemptSteps ==
    ASSUME [Next]_vars
    PROVE  UNCHANGED exempt \/ \E c \in Calls : Screen(c) \/ SdkAsk(c)
<1>1. ASSUME NEW c \in Calls, McpStep(c) \/ Expire(c) \/ SdkStep(c) \/ SdkGiveUp(c) \/ PostMessage(c)
      PROVE  UNCHANGED exempt \/ Screen(c) \/ SdkAsk(c)
  BY <1>1
  DEF McpStep, SdkStep, CreateApproval, RegisterWaiter, Receive, GiveUp, RecordToolCall, Forward,
      Expire, SdkPoll, SdkRun, SdkGiveUp, PostMessage, calls
<1>2. ASSUME NEW c \in Calls, NEW tool \in Tools,
             McpArrives(c, tool) \/ \E effect \in SdkEffects : SdkArrives(c, tool, effect)
      PROVE  UNCHANGED exempt
  BY <1>2 DEF McpArrives, SdkArrives
<1>3. ASSUME NEW h \in Humans, Lookup(h) \/ Send(h) \/ UpdateResolved(h)
      PROVE  UNCHANGED exempt
  BY <1>3 DEF Lookup, Send, UpdateResolved, calls
<1>4. ASSUME NEW h \in Humans, NEW c \in Calls, NEW decision \in Decisions,
             NEW via \in {"api", "slack"},
             Decide(h, c, decision, via) \/ DecideFails(h, c, decision, via)
      PROVE  UNCHANGED exempt
  BY <1>4 DEF Decide, DecideFails, calls
<1>5. ASSUME Halt \/ Crash \/ Restart \/ UNCHANGED vars PROVE UNCHANGED exempt
  BY <1>5 DEF Halt, Crash, Restart, calls, vars
<1>6. QED
  BY <1>1, <1>2, <1>3, <1>4, <1>5 DEF Next

\* A gated side effect happens only under a human's approval of this very call:
\* always under the global rules, and under the bundle's as long as no store
\* statement failed.
THEOREM NoUnapprovedExecutionHolds == Spec => []NoUnapprovedExecution
<1>1. ASSUME Init PROVE ExemptOK
  <2>1. ASSUME NEW c \in Calls PROVE call[c].pc = "new" /\ c \notin exempt
    BY <1>1, <2>1 DEF Init, NewCall
  <2>2. QED
    BY <2>1 DEF ExemptOK
<1>2. ASSUME GateInv, ExemptOK, [Next]_vars PROVE ExemptOK'
  <2>1. SUFFICES ASSUME NEW c \in Calls
                 PROVE  /\ call'[c].pc = "screen" => /\ call'[c].kind = "mcp"
                                                     /\ call'[c].effect = SideEffect(call'[c].tool)
                        /\ call'[c].pc = "ask" => call'[c].kind = "sdk"
                        /\ c \in exempt' => ~GatedGlobally(c)'
                        /\ (c \in exempt' /\ faults' = 0) => ~GatedByBundle(c)'
    BY DEF ExemptOK
  <2>2. CASE /\ call[c].pc = "new" /\ UNCHANGED exempt
             /\ \/ /\ call'[c].pc = "screen" /\ call'[c].kind = "mcp"
                   /\ call'[c].effect = SideEffect(call'[c].tool)
                \/ call'[c].pc = "ask" /\ call'[c].kind = "sdk"
    BY <1>2, <2>2 DEF GateInv, CallOK, Undecided
  <2>3. CASE /\ call'[c].kind = call[c].kind /\ call'[c].tool = call[c].tool
             /\ call'[c].effect = call[c].effect
             /\ call'[c].pc \in {"screen", "ask"} => call'[c].pc = call[c].pc
    <3>1. GatedGlobally(c)' = GatedGlobally(c) /\ GatedByBundle(c)' = GatedByBundle(c)
      BY <2>3 DEF GatedGlobally, GatedByBundle
    <3>2. ASSUME c \in exempt' \ exempt
          PROVE  ~GatedGlobally(c) /\ (faults' = 0 => ~GatedByBundle(c))
      <4>1. ~UNCHANGED exempt
        BY <3>2
      <4>2. PICK d \in Calls : Screen(d) \/ SdkAsk(d)
        BY <1>2, <4>1, ExemptSteps
      <4>3. exempt' = exempt \cup {d}
        BY <4>1, <4>2 DEF Screen, SdkAsk
      <4>4. d = c
        BY <3>2, <4>3
      <4>5. CASE Screen(c)
        <5>1. call[c].kind = "mcp" /\ call[c].effect = SideEffect(call[c].tool)
          BY <1>2, <4>5 DEF Screen, At, ExemptOK
        <5>2. PICK bundle \in {Bundle, NoBundle} :
                /\ IF bundle = Bundle THEN UNCHANGED faults ELSE Fault
                /\ ~NeedsApproval(call[c].tool, bundle)
          BY <3>2, <4>5 DEF Screen
        <5>3. ~GatedGlobally(c)
          BY <5>1, <5>2
          DEF GatedGlobally, NeedsApproval, Requires, GlobalPolicy, BundlePolicy
        <5>4. faults' = 0 => bundle = Bundle
          BY <1>2, <5>2, FaultFreePast
        <5>5. QED
          BY <5>1, <5>2, <5>3, <5>4 DEF GatedByBundle
      <4>6. CASE SdkAsk(c)
        <5>1. ~GatedGlobally(c)
          BY <3>2, <4>6 DEF SdkAsk, GatedGlobally
        <5>2. call[c].kind = "sdk"
          BY <1>2, <4>6 DEF SdkAsk, At, ExemptOK
        <5>3. QED
          BY <5>1, <5>2 DEF GatedByBundle
      <4>7. QED
        BY <4>2, <4>4, <4>5, <4>6
    <3>3. faults' = 0 => faults = 0
      BY <1>2, FaultFreePast
    <3>4. QED
      BY <1>2, <2>3, <3>1, <3>2, <3>3 DEF ExemptOK
  <2>4. QED
    BY <1>2, <2>2, <2>3, CallIdentity
<1>3. GateInv /\ ExemptOK => NoUnapprovedExecution
  BY DEF GateInv, TypeOK, CallOK, Cleared, ExemptOK, NoUnapprovedExecution
<1>4. QED
  BY <1>1, <1>2, <1>3, GateInvInductive, PTL DEF Spec

----------------------------------------------------------------------------
(* The waiters map.                                                        *)

\* The gate's map holds exactly the goroutines blocked in RequestUnder, for any
\* number of calls: registration and the deferred delete, on both arms of the
\* select, are the only steps into and out of the wait.
THEOREM NoLeakedWaiterHolds == Spec => []NoLeakedWaiter
<1>1. ASSUME Init PROVE NoLeakedWaiter
  BY <1>1 DEF Init, NewCall, NoLeakedWaiter
<1>2. ASSUME GateInv, NoLeakedWaiter, [Next]_vars PROVE NoLeakedWaiter'
  <2>0. call \in [Calls -> CallRecords] /\ waiters \subseteq Calls
    BY <1>2 DEF GateInv, TypeOK
  <2>1. ASSUME NEW c \in Calls, NEW pc \in PCs, Goto(c, pc), pc # "wait",
               call[c].pc # "wait", UNCHANGED waiters
        PROVE  NoLeakedWaiter'
    BY <1>2, <2>0, <2>1, GotoMoves DEF NoLeakedWaiter
  <2>2. ASSUME NEW c \in Calls, NEW outcome \in Outcomes, Conclude(c, outcome),
               waiters' = waiters \ {c}
        PROVE  NoLeakedWaiter'
    BY <1>2, <2>0, <2>2, ConcludeMoves DEF NoLeakedWaiter
  <2>3. ASSUME NEW c \in Calls, Screen(c) \/ CreateApproval(c) PROVE NoLeakedWaiter'
    <3>1. call[c].pc # "wait" /\ UNCHANGED waiters
      BY <2>3 DEF Screen, CreateApproval, At, gate
    <3>2. waiters' = waiters \ {c}
      BY <1>2, <3>1 DEF NoLeakedWaiter
    <3>3. \/ \E outcome \in Outcomes : Conclude(c, outcome)
          \/ \E pc \in PCs : pc # "wait" /\ Goto(c, pc)
      BY <2>3 DEF Screen, CreateApproval, Outcomes, PCs, DaemonPCs
    <3>4. QED
      BY <2>1, <2>2, <3>1, <3>2, <3>3
  <2>4. ASSUME NEW c \in Calls, RegisterWaiter(c) PROVE NoLeakedWaiter'
    <3>1. "wait" \in PCs /\ Goto(c, "wait") /\ waiters' = waiters \cup {c}
      BY <2>4 DEF RegisterWaiter, PCs, DaemonPCs
    <3>2. QED
      BY <1>2, <2>0, <3>1, GotoMoves DEF NoLeakedWaiter
  <2>5. ASSUME NEW c \in Calls, Receive(c) \/ GiveUp(c) PROVE NoLeakedWaiter'
    <3>1. \E outcome \in Outcomes : Conclude(c, outcome)
      BY <1>2, <2>5 DEF Receive, GiveUp, GateInv, TypeOK, Decisions, Outcomes
    <3>2. waiters' = waiters \ {c}
      BY <2>5 DEF Receive, GiveUp
    <3>3. QED
      BY <2>2, <3>1, <3>2
  <2>6. ASSUME NEW c \in Calls, \/ RecordToolCall(c) \/ Forward(c)
                                \/ SdkStep(c) \/ SdkGiveUp(c)
        PROVE  NoLeakedWaiter'
    <3>1. call[c].pc # "wait" /\ UNCHANGED waiters
      BY <2>6 DEF RecordToolCall, Forward, SdkStep, SdkAsk, SdkPoll, SdkRun, SdkGiveUp, At, gate
    <3>2. \E pc \in PCs : pc # "wait" /\ Goto(c, pc)
      BY <2>6
      DEF RecordToolCall, Forward, SdkStep, SdkAsk, SdkPoll, SdkRun, SdkGiveUp, PCs, DaemonPCs
    <3>3. QED
      BY <2>1, <3>1, <3>2
  <2>7. ASSUME NEW c \in Calls, NEW tool \in Tools,
               McpArrives(c, tool) \/ \E effect \in SdkEffects : SdkArrives(c, tool, effect)
        PROVE  NoLeakedWaiter'
    <3>1. /\ call[c].pc = "new" /\ call'[c].pc \in {"screen", "ask"}
          /\ \A d \in Calls \ {c} : call'[d] = call[d]
          /\ UNCHANGED waiters
      BY <2>0, <2>7 DEF McpArrives, SdkArrives, At, NewCall, gate
    <3>2. QED
      BY <1>2, <3>1 DEF NoLeakedWaiter
  <2>8. CASE Crash
    <3>1. \A c \in Calls : call'[c].pc # "wait"
      BY <2>0, <2>8 DEF Crash, CallRecords, DaemonPCs
    <3>2. QED
      BY <2>8, <3>1 DEF Crash, NoLeakedWaiter
  <2>9. ASSUME \/ UNCHANGED vars \/ Halt \/ Restart
               \/ \E d \in Calls : Expire(d) \/ PostMessage(d)
               \/ \E h \in Humans : Lookup(h) \/ Send(h) \/ UpdateResolved(h)
               \/ \E h \in Humans, d \in Calls, decision \in Decisions, via \in {"api", "slack"} :
                    Decide(h, d, decision, via) \/ DecideFails(h, d, decision, via)
        PROVE  NoLeakedWaiter'
    <3>1. UNCHANGED <<call, waiters>>
      BY <2>9
      DEF vars, Halt, Restart, Expire, Lookup, Send, UpdateResolved, Decide, DecideFails,
          PostMessage, calls, gate
    <3>2. QED
      BY <1>2, <3>1 DEF NoLeakedWaiter
  <2>10. QED
    BY <1>2, <2>3, <2>4, <2>5, <2>6, <2>7, <2>8, <2>9 DEF Next, McpStep
<1>3. QED
  BY <1>1, <1>2, GateInvInductive, PTL DEF Spec

----------------------------------------------------------------------------
(* The audit row precedes the effect.                                      *)

\* Where a call of the gateway stands with its audit row.  Only the SDK's calls
\* take the other way to a side effect, and a call that had its own is over.
AuditOK(c) ==
    /\ call[c].pc \in {"ask", "poll", "run"} => call[c].kind = "sdk"
    /\ call[c].pc = "forward" => audit[c] = "approved"
    /\ c \in executed => /\ call[c].pc = "done"
                         /\ call[c].kind = "mcp" => audit[c] = "approved"

AuditInv == \A c \in Calls : AuditOK(c)

\* Neither Goto nor Conclude changes who made the call.
LEMMA KindKept ==
    ASSUME call \in [Calls -> CallRecords], NEW c \in Calls,
           (\E pc : Goto(c, pc)) \/ (\E outcome : Conclude(c, outcome))
    PROVE  /\ \A d \in Calls \ {c} : call'[d] = call[d]
           /\ call'[c].kind = call[c].kind
<1>1. CASE \E pc : Goto(c, pc)
  BY <1>1 DEF Goto, CallRecords
<1>2. CASE \E outcome : Conclude(c, outcome)
  BY <1>2 DEF Conclude, CallRecords
<1>3. QED
  BY <1>1, <1>2

\* A step of one call before its side effect, when no store statement fails.
LEMMA AuditStep ==
    ASSUME GateInv, AuditInv, ~Fault, NEW c \in Calls,
           McpStep(c) \/ SdkStep(c) \/ SdkGiveUp(c)
    PROVE  AuditInv'
<1>0. /\ call \in [Calls -> CallRecords] /\ audit \in [Calls -> Outcomes] /\ AuditOK(c)
      /\ executed \subseteq Calls
  BY DEF GateInv, TypeOK, AuditInv
<1>1. (\E pc : Goto(c, pc)) \/ (\E outcome : Conclude(c, outcome))
  BY DEF McpStep, SdkStep, Screen, CreateApproval, RegisterWaiter, Receive, GiveUp,
         RecordToolCall, Forward, SdkAsk, SdkPoll, SdkRun, SdkGiveUp
<1>2. /\ \A d \in Calls \ {c} : call'[d] = call[d]
      /\ call'[c].kind = call[c].kind
  BY <1>0, <1>1, KindKept
<1>3. /\ \A d \in Calls \ {c} : audit'[d] = audit[d]
      /\ \A d \in Calls \ {c} : d \in executed' <=> d \in executed
  BY <1>0
  DEF McpStep, SdkStep, Screen, CreateApproval, RegisterWaiter, Receive, GiveUp,
      RecordToolCall, Forward, SdkAsk, SdkPoll, SdkRun, SdkGiveUp
<1>4. ASSUME NEW d \in Calls, d # c PROVE AuditOK(d)'
  BY <1>2, <1>3, <1>4 DEF AuditInv, AuditOK
<1>5. AuditOK(c)'
  <2>1. ASSUME NEW pc \in PCs \ {"ask", "poll", "run", "forward"}, Goto(c, pc),
               UNCHANGED <<audit, executed>>, call[c].pc # "done"
        PROVE  AuditOK(c)'
    BY <1>0, <1>2, <2>1, GotoMoves DEF AuditOK
  <2>2. ASSUME NEW outcome \in Outcomes, Conclude(c, outcome),
               UNCHANGED <<audit, executed>>, call[c].pc # "done"
        PROVE  AuditOK(c)'
    BY <1>0, <1>2, <2>2, ConcludeMoves DEF AuditOK
  <2>3. CASE Screen(c) \/ CreateApproval(c) \/ RegisterWaiter(c)
    <3>1. call[c].pc # "done" /\ UNCHANGED <<audit, executed>>
      BY <2>3 DEF Screen, CreateApproval, RegisterWaiter, At
    <3>2. \/ \E outcome \in Outcomes : Conclude(c, outcome)
          \/ \E pc \in PCs \ {"ask", "poll", "run", "forward"} : Goto(c, pc)
      BY <2>3 DEF Screen, CreateApproval, RegisterWaiter, Outcomes, PCs, DaemonPCs
    <3>3. QED
      BY <2>1, <2>2, <3>1, <3>2
  <2>4. CASE Receive(c) \/ GiveUp(c)
    <3>1. call[c].pc # "done" /\ UNCHANGED <<audit, executed>>
      BY <2>4 DEF Receive, GiveUp, At
    <3>2. \E outcome \in Outcomes : Conclude(c, outcome)
      BY <2>4 DEF Receive, GiveUp, GateInv, TypeOK, Decisions, Outcomes
    <3>3. QED
      BY <2>2, <3>1, <3>2
  <2>5. CASE RecordToolCall(c)
    <3>1. /\ call[c].pc = "record" /\ executed' = executed
          /\ audit' = [audit EXCEPT ![c] = call[c].outcome]
      BY <2>5 DEF RecordToolCall, At
    <3>2. PICK pc \in {"forward", "done"} :
            Goto(c, pc) /\ (pc = "forward" => call[c].outcome = "approved")
      BY <2>5 DEF RecordToolCall
    <3>3. pc \in PCs
      BY DEF PCs, DaemonPCs
    <3>4. call'[c].pc = pc /\ c \notin executed
      BY <1>0, <3>1, <3>2, <3>3, GotoMoves DEF AuditOK
    <3>5. QED
      BY <1>0, <3>1, <3>2, <3>4 DEF AuditOK
  <2>6. CASE Forward(c)
    <3>1. "done" \in PCs /\ Goto(c, "done") /\ call[c].pc = "forward" /\ audit' = audit
      BY <2>6 DEF Forward, At, PCs
    <3>2. call'[c].pc = "done" /\ audit'[c] = "approved"
      BY <1>0, <3>1, GotoMoves DEF AuditOK
    <3>3. QED
      BY <3>2 DEF AuditOK
  <2>7. CASE SdkStep(c) \/ SdkGiveUp(c)
    <3>1. /\ call[c].pc \in {"ask", "poll", "run"} /\ audit' = audit
          /\ SdkRun(c) \/ executed' = executed
      BY <2>7 DEF SdkStep, SdkAsk, SdkPoll, SdkRun, SdkGiveUp, At
    <3>2. PICK pc \in {"poll", "run", "done"} : Goto(c, pc) /\ (SdkRun(c) => pc = "done")
      <4>1. CASE SdkRun(c)
        BY <4>1 DEF SdkRun
      <4>2. CASE SdkAsk(c) \/ SdkPoll(c) \/ SdkGiveUp(c)
        <5>1. ~SdkRun(c) \/ Goto(c, "done")
          BY DEF SdkRun
        <5>2. \E pc \in {"poll", "run", "done"} : Goto(c, pc)
          BY <4>2 DEF SdkAsk, SdkPoll, SdkGiveUp
        <5>3. QED
          BY <5>1, <5>2
      <4>3. QED
        BY <2>7, <4>1, <4>2 DEF SdkStep
    <3>3. pc \in PCs
      BY DEF PCs
    <3>4. call'[c].pc = pc
      BY <1>0, <3>2, <3>3, GotoMoves
    <3>5. call[c].kind = "sdk" /\ c \notin executed
      BY <1>0, <3>1 DEF AuditOK
    <3>6. QED
      BY <1>2, <3>1, <3>2, <3>4, <3>5 DEF AuditOK
  <2>8. QED
    BY <2>3, <2>4, <2>5, <2>6, <2>7 DEF McpStep
<1>6. QED
  BY <1>4, <1>5 DEF AuditInv

\* Every call the gateway forwarded is on the audit trail as approved, from
\* before the upstream server saw it, as long as no store statement failed.
THEOREM AuditedBeforeExecutedHolds == Spec => []AuditedBeforeExecuted
<1>0. ASSUME Init PROVE AuditInv
  BY <1>0 DEF Init, NewCall, AuditInv, AuditOK
<1>1. Init => (faults = 0 => AuditInv)
  BY <1>0
<1>2. ASSUME GateInv, AuditInv, ~Fault, [Next]_vars PROVE AuditInv'
  <2>0. call \in [Calls -> CallRecords]
    BY <1>2 DEF GateInv, TypeOK
  <2>1. ASSUME NEW c \in Calls, McpStep(c) \/ SdkStep(c) \/ SdkGiveUp(c) PROVE AuditInv'
    BY <1>2, <2>1, AuditStep
  <2>2. ASSUME NEW c \in Calls, NEW tool \in Tools,
               McpArrives(c, tool) \/ \E effect \in SdkEffects : SdkArrives(c, tool, effect)
        PROVE  AuditInv'
    <3>1. /\ call[c].pc = "new" /\ UNCHANGED <<audit, executed>>
          /\ \/ call'[c].pc = "screen"
             \/ call'[c].pc = "ask" /\ call'[c].kind = "sdk"
          /\ \A d \in Calls \ {c} : call'[d] = call[d]
      BY <2>0, <2>2 DEF McpArrives, SdkArrives, At, NewCall
    <3>2. QED
      BY <1>2, <3>1 DEF AuditInv, AuditOK
  <2>3. CASE Crash
    <3>1. SUFFICES ASSUME NEW c \in Calls PROVE AuditOK(c)'
      BY DEF AuditInv
    <3>2. call'[c] = call[c] \/ (call'[c].pc = "done" /\ call'[c].kind = call[c].kind)
      BY <2>0, <2>3 DEF Crash, CallRecords
    <3>3. UNCHANGED <<audit, executed>>
      BY <2>3 DEF Crash
    <3>4. QED
      BY <1>2, <3>2, <3>3 DEF AuditInv, AuditOK
  <2>4. ASSUME \/ UNCHANGED vars \/ Halt \/ Restart
               \/ \E d \in Calls : Expire(d) \/ PostMessage(d)
               \/ \E h \in Humans : Lookup(h) \/ Send(h) \/ UpdateResolved(h)
               \/ \E h \in Humans, d \in Calls, decision \in Decisions, via \in {"api", "slack"} :
                    Decide(h, d, decision, via) \/ DecideFails(h, d, decision, via)
        PROVE  AuditInv'
    <3>1. UNCHANGED <<call, audit, executed>>
      BY <2>4
      DEF vars, Halt, Restart, Expire, Lookup, Send, UpdateResolved, Decide, DecideFails,
          PostMessage, calls, gate
    <3>2. QED
      BY <1>2, <3>1 DEF AuditInv, AuditOK
  <2>5. QED
    BY <1>2, <2>1, <2>2, <2>3, <2>4 DEF Next
<1>3. GateInv /\ (faults = 0 => AuditInv) => AuditedBeforeExecuted
  BY DEF GateInv, TypeOK, AuditInv, AuditOK, AuditedBeforeExecuted
<1>4. GateInv /\ (faults = 0 => AuditInv) /\ [Next]_vars => (faults = 0 => AuditInv)'
  BY <1>2, FaultFreePast
<1>5. QED
  BY <1>1, <1>3, <1>4, GateInvInductive, PTL DEF Spec
=============================================================================

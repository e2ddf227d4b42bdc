------------------------- MODULE AgentSessionProofs -------------------------
(***************************************************************************)
(* Theorems about AgentSession, for any number of items and failures and   *)
(* every budget.                                                           *)
(***************************************************************************)
EXTENDS AgentSession, SharedLemmas, TLAPS

----------------------------------------------------------------------------
(* Types and control.                                                      *)

\* The row is written with every change of the live run; the agent knows its run
\* when it works, and nothing has happened to a run nobody knows.
ControlOK ==
    /\ ~up => run = Nil
    /\ run # Nil => row # Nil /\ row.loops = run.loops
    /\ known => row # Nil
    /\ agent.pc \notin {"off", "create"} => known
    /\ agent.pc = "create" => ~known /\ agent.i = 0
    /\ agent.pc \in {"work", "call", "save"} => agent.i < Total
    /\ agent.pc = "call" => run # Nil
    /\ orphans > 0 => run # Nil
    /\ orphans <= failures
    /\ ~known => orphans = 0 /\ cp = Nil /\ saved = 0 /\ ~masked /\ \A i \in Items : work[i] = 0

TypeInv == TypeOK /\ ControlOK

Agents  == [pc : PCs, mode : {"fresh", "resume"}, i : 0 .. Total]
Cursors == [usage : Checkpoints, cursor : NoCursor .. Total]

\* Where an exception takes the agent.
LeftPCs == {"off", "cancel", "refused"}

Moved(pc) == agent' \in Agents /\ agent'.pc = pc /\ agent'.i = agent.i

Left == agent' \in Agents /\ agent'.pc \in LeftPCs /\ agent'.i = agent.i

Failed == failures' = failures + 1 /\ failures' \in 0 .. MaxFailures

\* Goto and Raised move the agent within its work.
LEMMA AgentMoves ==
    ASSUME TypeOK
    PROVE  /\ \A pc \in PCs : Goto(pc) => Moved(pc)
           /\ \A final \in BOOLEAN : Raised(final) => Left
           /\ Fails => Failed
<1>1. agent \in Agents /\ failures \in 0 .. MaxFailures
  BY DEF TypeOK, Agents
<1>2. \A pc \in PCs : Goto(pc) => Moved(pc)
  BY <1>1 DEF Goto, Moved, Agents
<1>3. \A final \in BOOLEAN : Raised(final) => Left
  <2>1. LeftPCs \subseteq PCs
    BY DEF LeftPCs, PCs
  <2>2. \A final \in BOOLEAN : Raised(final) => \E pc \in LeftPCs : Goto(pc)
    BY DEF Raised, LeftPCs
  <2>3. QED
    BY <1>2, <2>1, <2>2 DEF Moved, Left
<1>4. Fails => Failed
  BY <1>1, SessionAssumption DEF Fails, Failed
<1>5. QED
  BY <1>2, <1>3, <1>4

\* An answer arrives or is lost.
LEMMA AnswerMoves ==
    ASSUME TypeOK, NEW pc \in PCs, Answered(pc)
    PROVE  (Moved(pc) /\ UNCHANGED failures) \/ (Left /\ Failed)
BY AgentMoves DEF Answered

\* Nil is not a checkpoint.
LEMMA CursorTypes == Nil \notin Cursors
BY SessionAssumption DEF Cursors, NoCursor

\* The row of a run has its iterations.
LEMMA RecordLoops ==
    \A g \in LiveRuns : g # Nil /\ Record(g) \in Rows /\ Record(g) # Nil /\ Record(g).loops = g.loops
BY PersistedTypes, UsageKept, SessionAssumption DEF SameUsage

\* What RecordCall leaves behind.
LEMMA CallRecorded ==
    ASSUME TypeOK, run # Nil, RecordCall
    PROVE  /\ run' \in LiveRuns /\ run' # Nil /\ run'.loops = run.loops
           /\ row' \in Rows /\ row' # Nil /\ row'.loops = run.loops
           /\ cp' \in Cursors /\ cp' # Nil /\ cp'.cursor = NoCursor /\ cp'.usage.loops = run'.loops
<1>1. run \in LiveRuns /\ CallCost \in Charges
  BY SessionAssumption DEF TypeOK
<1>2. run' = RecordUsage(run, CallCost) /\ run' \in LiveRuns /\ run'.loops = run.loops
  BY <1>1, GovernorTypes, UsageCounted DEF RecordCall
<1>3. Snapshot(run') \in Checkpoints /\ Record(run') \in Rows
        /\ Record(run') # Nil /\ Record(run').loops = run'.loops
  BY <1>2, PersistedTypes, RecordLoops
<1>4. Snapshot(run').loops = run'.loops
  BY <1>2, UsageKept DEF SameUsage
<1>5. cp' = [usage |-> Snapshot(run'), cursor |-> NoCursor]
  BY DEF RecordCall
<1>6. cp' \in Cursors
  BY <1>3, <1>5, SessionAssumption DEF Cursors, NoCursor
<1>7. QED
  BY <1>2, <1>3, <1>4, <1>5, <1>6, CursorTypes, SessionAssumption DEF RecordCall

\* The types outside the agent.
StoreTypes ==
    /\ run \in LiveRuns \cup {Nil} /\ row \in Rows \cup {Nil} /\ (cp = Nil \/ cp \in Cursors)
    /\ orphans \in 0 .. MaxFailures /\ failures \in 0 .. MaxFailures
    /\ work \in [Items -> Nat] /\ saved \in 0 .. Total
    /\ known \in BOOLEAN /\ up \in BOOLEAN /\ masked \in BOOLEAN
    /\ sdk \in {"python", "typescript"}

\* The work of the agent's item is done once more.
LEMMA DoneOnce ==
    ASSUME TypeOK, agent.i < Total, Done(agent.i)
    PROVE  /\ work' \in [Items -> Nat] /\ agent.i \in Items
           /\ work'[agent.i] = work[agent.i] + 1
           /\ DifferAt(work, work', agent.i)
<1>1. agent.i \in Items
  BY SessionAssumption DEF TypeOK, Items
<1>2. work' = [work EXCEPT ![agent.i] = @ + 1] /\ work \in [Items -> Nat]
  BY DEF TypeOK, Done
<1>3. QED
  BY <1>1, <1>2 DEF DifferAt

\* The run the proxy finds has the usage of the row or of the latest checkpoint.
LEMMA FoundRun ==
    ASSUME TypeOK, ControlOK, known
    PROVE  /\ Found \in LiveRuns
           /\ \/ Found.loops = row.loops
              \/ run = Nil /\ cp # Nil /\ Found.loops = cp.usage.loops
<1>1. /\ run \in LiveRuns \cup {Nil} /\ row \in Rows /\ (cp = Nil \/ cp \in Cursors)
      /\ run # Nil => row.loops = run.loops
  BY DEF TypeOK, ControlOK, Cursors
<1>2. LatestUsage \in Checkpoints \cup {Nil} /\ (LatestUsage # Nil => cp # Nil /\ LatestUsage = cp.usage)
  BY <1>1 DEF LatestUsage, Cursors
<1>3. CASE run # Nil
  BY <1>1, <1>3 DEF Found
<1>4. CASE run = Nil
  <2>1. Reconciled(row, LatestUsage) \in Rows
    BY <1>1, <1>2, PersistedTypes
  <2>2. Found = Reloaded(Reconciled(row, LatestUsage))
    BY <1>4 DEF Found
  <2>3. Found.loops = Reconciled(row, LatestUsage).loops
    BY <2>1, <2>2, UsageKept DEF SameUsage
  <2>4. \/ Reconciled(row, LatestUsage).loops = row.loops
        \/ LatestUsage # Nil /\ Reconciled(row, LatestUsage).loops = LatestUsage.loops
    BY <1>1, <1>2, UsageKept DEF SameUsage
  <2>5. QED
    BY <1>2, <1>4, <2>1, <2>2, <2>3, <2>4, PersistedTypes
<1>5. QED
  BY <1>3, <1>4

\* Types and control are inductive.
LEMMA TypeInvInductive ==
    /\ Init => TypeInv
    /\ TypeInv /\ [Next]_vars => TypeInv'
<1>0. /\ PCs = {"off", "create", "attach", "latest", "loop", "work", "call", "save",
                "cancel", "done", "refused"}
      /\ TRUE \in BOOLEAN /\ FALSE \in BOOLEAN
  BY DEF PCs
<1>1. ASSUME Init PROVE TypeInv
  <2>1. TypeOK
    <3>1. Off \in Agents /\ 0 \in 0 .. Total /\ 0 \in 0 .. MaxFailures
      BY <1>0, SessionAssumption DEF Off, Agents
    <3>2. [i \in Items |-> 0] \in [Items -> Nat]
      OBVIOUS
    <3>3. QED
      BY <1>1, <3>1, <3>2 DEF Init, TypeOK, Agents
  <2>2. ControlOK
    BY <1>1 DEF Init, ControlOK, Off
  <2>3. QED
    BY <2>1, <2>2 DEF TypeInv
<1>2. ASSUME TypeInv, Next PROVE TypeInv'
  <2>0. /\ TypeOK /\ ControlOK /\ StoreTypes /\ agent \in Agents
        /\ agent.i \in 0 .. Total /\ agent.pc \in PCs /\ Total \in Nat /\ MaxFailures \in Nat
    BY <1>2, SessionAssumption DEF TypeInv, TypeOK, StoreTypes, Cursors, Agents
  <2>1. SUFFICES agent' \in Agents /\ StoreTypes' /\ ControlOK'
    BY DEF TypeInv, TypeOK, StoreTypes, Cursors, Agents
  <2>2. CASE AgentStart
    <3>1. /\ agent' \in Agents /\ agent'.i = 0
          /\ agent'.pc = IF known THEN "attach" ELSE "create"
      BY <1>0, <2>0, <2>2 DEF AgentStart, Agents
    <3>2. StoreTypes'
      BY <2>0, <2>2 DEF AgentStart, StoreTypes, daemon, past
    <3>3. ControlOK'
      BY <2>0, <2>2, <3>1 DEF AgentStart, ControlOK, StoreTypes, daemon, past
    <3>4. QED
      BY <3>1, <3>2, <3>3
  <2>3. CASE Create
    <3>1. /\ NewRun \in LiveRuns /\ Record(NewRun) \in Rows /\ NewRun # Nil
          /\ Record(NewRun) # Nil /\ Record(NewRun).loops = NewRun.loops
      BY PersistedTypes, RecordLoops
    <3>2. UNCHANGED <<sdk, up, orphans, work, saved, masked>> /\ ~known /\ agent.i = 0
      BY <2>0, <2>3 DEF Create, past, ControlOK
    <3>3. \/ /\ up /\ run' = NewRun /\ row' = Record(NewRun) /\ cp' = Nil
             /\ \/ Moved("loop") /\ known' = TRUE /\ UNCHANGED failures
                \/ Moved("off") /\ Failed /\ UNCHANGED known
          \/ ~up /\ Moved("off") /\ UNCHANGED <<known, run, row, cp, failures>>
      BY <1>0, <2>0, <2>3, AgentMoves DEF Create
    <3>4. StoreTypes'
      BY <2>0, <3>1, <3>2, <3>3 DEF StoreTypes, Failed
    <3>5. ControlOK'
      BY <2>0, <3>1, <3>2, <3>3 DEF ControlOK, Moved, Failed, StoreTypes
    <3>6. QED
      BY <3>3, <3>4, <3>5 DEF Moved
  <2>4. CASE Attach \/ Unreachable \/ CallFails \/ Finish
    <3>1. UNCHANGED <<sdk, known, daemon, past>>
      BY <2>4 DEF Attach, Unreachable, CallFails, Finish
    <3>2. (Left \/ Moved("latest") \/ Moved("done")) /\ (UNCHANGED failures \/ Failed)
      <4>1. CASE Attach
        BY <1>0, <2>0, <4>1, AnswerMoves DEF Attach
      <4>2. CASE Unreachable \/ CallFails \/ Finish
        BY <1>0, <2>0, <4>2, AgentMoves DEF Unreachable, CallFails, Finish
      <4>3. QED
        BY <2>4, <4>1, <4>2
    <3>3. agent.pc \notin {"off", "create"}
      BY <2>4 DEF Attach, Unreachable, CallFails, Finish
    <3>4. agent' \in Agents /\ agent'.pc \in {"off", "cancel", "refused", "latest", "done"}
      BY <3>2 DEF Left, Moved, LeftPCs
    <3>5. StoreTypes' /\ failures' >= failures
      BY <2>0, <3>1, <3>2 DEF StoreTypes, Failed, daemon, past
    <3>6. ControlOK'
      BY <2>0, <3>1, <3>3, <3>4, <3>5 DEF ControlOK, StoreTypes, daemon, past
    <3>7. QED
      BY <3>4, <3>5, <3>6
  <2>5. CASE LatestCheckpoint
    <3>1. UNCHANGED <<sdk, known, daemon, work, saved>> /\ known /\ agent.pc = "latest"
      BY <2>0, <2>5 DEF LatestCheckpoint, ControlOK
    <3>2. /\ agent' \in Agents /\ agent'.pc \in {"off", "cancel", "refused", "loop"}
          /\ masked' \in BOOLEAN /\ (UNCHANGED failures \/ Failed)
      <4>1. CASE Left /\ UNCHANGED masked /\ (Failed \/ UNCHANGED failures)
        BY <2>0, <4>1 DEF Left, LeftPCs, StoreTypes
      <4>2. CASE /\ agent' = [agent EXCEPT !.pc = "loop",
                                           !.i = IF cp = Nil \/ cp.cursor = NoCursor THEN 0 ELSE cp.cursor]
                 /\ masked' = (masked \/ (cp # Nil /\ cp.cursor = NoCursor /\ saved > 0))
                 /\ UNCHANGED failures
        <5>1. (IF cp = Nil \/ cp.cursor = NoCursor THEN 0 ELSE cp.cursor) \in 0 .. Total
          BY <2>0 DEF StoreTypes, Cursors, NoCursor
        <5>2. \A n \in 0 .. Total : /\ [agent EXCEPT !.pc = "loop", !.i = n] \in Agents
                                    /\ [agent EXCEPT !.pc = "loop", !.i = n].pc = "loop"
          BY <1>0, <2>0 DEF Agents
        <5>3. masked' \in BOOLEAN
          BY <2>0, <4>2 DEF StoreTypes
        <5>4. QED
          BY <4>2, <5>1, <5>2, <5>3
      <4>3. QED
        BY <1>0, <2>0, <2>5, <4>1, <4>2, AgentMoves DEF LatestCheckpoint
    <3>3. StoreTypes' /\ failures' >= failures
      BY <2>0, <3>1, <3>2 DEF StoreTypes, Failed, daemon
    <3>4. ControlOK'
      BY <2>0, <3>1, <3>2, <3>3 DEF ControlOK, StoreTypes, daemon
    <3>5. QED
      BY <3>2, <3>3, <3>4
  <2>6. CASE BeginStep
    <3>1. UNCHANGED <<sdk, known, up, cp, orphans, work, saved, masked>> /\ known /\ agent.i < Total
      BY <2>0, <2>6 DEF BeginStep, ControlOK, past
    <3>2. /\ agent' \in Agents /\ agent'.i = agent.i /\ agent'.pc \in {"off", "cancel", "refused", "work"}
          /\ UNCHANGED failures \/ Failed
      BY <1>0, <2>0, <2>6, AgentMoves, AnswerMoves DEF BeginStep, Left, Moved, LeftPCs
    <3>3. \/ run = Nil /\ UNCHANGED <<run, row>>
          \/ /\ run # Nil /\ run' \in LiveRuns /\ run' # Nil
             /\ row' \in Rows /\ row' # Nil /\ row'.loops = run'.loops
      <4>1. run # Nil => PreStep(run) \in LiveRuns
        BY <2>0, GovernorTypes, SessionAssumption DEF StoreTypes
      <4>2. QED
        BY <2>6, <4>1, RecordLoops DEF BeginStep
    <3>4. StoreTypes' /\ failures' >= failures
      <4>1. failures' \in 0 .. MaxFailures /\ failures' >= failures
        BY <2>0, <3>2 DEF StoreTypes, Failed
      <4>2. QED
        BY <2>0, <3>1, <3>3, <4>1 DEF StoreTypes
    <3>5. ControlOK'
      <4>1. up \/ run = Nil
        BY <2>0 DEF ControlOK
      <4>2. orphans' <= failures'
        BY <2>0, <3>1, <3>4 DEF ControlOK, StoreTypes
      <4>3. QED
        BY <2>0, <3>1, <3>2, <3>3, <4>1, <4>2 DEF ControlOK
    <3>6. QED
      BY <3>2, <3>4, <3>5
  <2>7. CASE DoWork
    <3>1. UNCHANGED <<sdk, known, daemon, saved, masked, failures>> /\ known /\ agent.i < Total
      BY <2>0, <2>7 DEF DoWork, ControlOK
    <3>2. Moved("save") /\ work' \in [Items -> Nat]
      BY <1>0, <2>0, <2>7, <3>1, AgentMoves, DoneOnce DEF DoWork
    <3>3. StoreTypes'
      BY <2>0, <3>1, <3>2 DEF StoreTypes, daemon
    <3>4. ControlOK'
      BY <2>0, <3>1, <3>2 DEF ControlOK, Moved, daemon
    <3>5. QED
      BY <3>2, <3>3, <3>4 DEF Moved
  <2>8. CASE ProxyCall
    <3>1. /\ UNCHANGED <<sdk, known, up, cp, orphans, saved, masked, failures>>
          /\ known /\ agent.i < Total /\ up
      BY <2>0, <2>8 DEF ProxyCall, ControlOK
    <3>2. CanProceed(PreStep(Found)) \in LiveRuns
      BY <2>0, <3>1, FoundRun, GovernorTypes, SessionAssumption
    <3>3. /\ run' \in LiveRuns /\ run' # Nil /\ row' \in Rows /\ row' # Nil /\ row'.loops = run'.loops
      BY <2>8, <3>2, RecordLoops DEF ProxyCall
    <3>4. /\ agent' \in Agents /\ agent'.i = agent.i
          /\ agent'.pc \in {"off", "cancel", "refused", "call"} /\ work' \in [Items -> Nat]
      BY <1>0, <2>0, <2>8, <3>1, AgentMoves, DoneOnce DEF ProxyCall, StoreTypes, Left, Moved, LeftPCs
    <3>5. StoreTypes'
      BY <2>0, <3>1, <3>3, <3>4 DEF StoreTypes
    <3>6. ControlOK'
      BY <2>0, <3>1, <3>3, <3>4 DEF ControlOK
    <3>7. QED
      BY <3>4, <3>5, <3>6
  <2>9. CASE CallReturns
    <3>1. UNCHANGED <<sdk, known, up, orphans, work, saved, masked>> /\ known /\ run # Nil
            /\ agent.i < Total /\ up /\ RecordCall
      BY <2>0, <2>9 DEF CallReturns, ControlOK, past
    <3>2. /\ agent' \in Agents /\ agent'.i = agent.i /\ agent'.pc \in {"off", "cancel", "refused", "save"}
          /\ UNCHANGED failures \/ Failed
      BY <1>0, <2>0, <2>9, AnswerMoves DEF CallReturns, Left, Moved, LeftPCs
    <3>3. StoreTypes' /\ failures' >= failures
      BY <2>0, <3>1, <3>2, CallRecorded DEF StoreTypes, Failed
    <3>4. ControlOK'
      BY <2>0, <3>1, <3>2, <3>3, CallRecorded, SessionAssumption DEF ControlOK, StoreTypes
    <3>5. QED
      BY <3>2, <3>3, <3>4
  <2>10. CASE SaveCheckpoint
    <3>1. UNCHANGED <<sdk, known, up, run, row, orphans, work, masked>> /\ known /\ agent.i < Total
      BY <2>0, <2>10 DEF SaveCheckpoint, ControlOK
    <3>2. /\ agent' \in Agents /\ agent'.pc \in {"off", "cancel", "refused", "loop"}
          /\ UNCHANGED failures \/ Failed
      <4>1. CASE Left /\ (UNCHANGED failures \/ Failed)
        BY <4>1 DEF Left, LeftPCs
      <4>2. CASE agent' = [agent EXCEPT !.pc = "loop", !.i = @ + 1] /\ UNCHANGED failures
        <5>1. agent.i + 1 \in 0 .. Total
          BY <2>0, <3>1
        <5>2. \A n \in 0 .. Total : /\ [agent EXCEPT !.pc = "loop", !.i = n] \in Agents
                                    /\ [agent EXCEPT !.pc = "loop", !.i = n].pc = "loop"
          BY <1>0, <2>0 DEF Agents
        <5>3. QED
          BY <4>2, <5>1, <5>2
      <4>3. QED
        BY <1>0, <2>0, <2>10, <4>1, <4>2, AgentMoves DEF SaveCheckpoint
    <3>3. (cp' = Nil \/ cp' \in Cursors) /\ saved' \in 0 .. Total
      <4>1. CASE run = Nil
        BY <2>0, <2>10, <4>1 DEF SaveCheckpoint, StoreTypes
      <4>2. CASE run # Nil
        <5>1. agent.i + 1 \in 0 .. Total /\ agent.i + 1 \in NoCursor .. Total
          BY <2>0, <3>1 DEF NoCursor
        <5>2. Snapshot(run) \in Checkpoints
          BY <2>0, <4>2, PersistedTypes DEF StoreTypes
        <5>3. cp' = [usage |-> Snapshot(run), cursor |-> agent.i + 1] /\ saved' = agent.i + 1
          BY <2>10, <4>2 DEF SaveCheckpoint
        <5>4. QED
          BY <5>1, <5>2, <5>3 DEF Cursors
      <4>3. QED
        BY <4>1, <4>2
    <3>4. StoreTypes' /\ failures' >= failures
      BY <2>0, <3>1, <3>2, <3>3 DEF StoreTypes, Failed
    <3>5. ControlOK'
      BY <2>0, <3>1, <3>2, <3>4 DEF ControlOK, StoreTypes
    <3>6. QED
      BY <3>2, <3>4, <3>5
  <2>11. CASE CancelOnError
    <3>1. UNCHANGED <<sdk, known, up, cp, orphans, work, saved, masked, failures>> /\ Moved("off")
      BY <1>0, <2>0, <2>11, AgentMoves DEF CancelOnError, past
    <3>2. \/ /\ run # Nil /\ run' \in LiveRuns /\ run' # Nil /\ up
             /\ row' \in Rows /\ row' # Nil /\ row'.loops = run'.loops
          \/ UNCHANGED <<run, row>>
      <4>1. run # Nil => Cancel(run) \in LiveRuns
        BY <2>0, GovernorTypes, SessionAssumption DEF StoreTypes
      <4>2. QED
        BY <2>11, <4>1, RecordLoops DEF CancelOnError
    <3>3. StoreTypes'
      BY <2>0, <3>1, <3>2 DEF StoreTypes
    <3>4. ControlOK'
      BY <2>0, <3>1, <3>2 DEF ControlOK, Moved
    <3>5. QED
      BY <3>1, <3>3, <3>4 DEF Moved
  <2>12. CASE OrphanReturns
    <3>1. UNCHANGED <<sdk, agent, known, up, work, saved, masked, failures>> /\ run # Nil /\ up
            /\ orphans' = orphans - 1 /\ orphans > 0
      BY <2>0, <2>12 DEF OrphanReturns, ControlOK, agents, past
    <3>2. RecordCall \/ UNCHANGED <<run, row, cp>>
      BY <2>12 DEF OrphanReturns
    <3>3. StoreTypes'
      BY <2>0, <3>1, <3>2, CallRecorded DEF StoreTypes
    <3>4. ControlOK'
      BY <2>0, <3>1, <3>2, CallRecorded, SessionAssumption DEF ControlOK, StoreTypes
    <3>5. QED
      BY <2>0, <3>1, <3>3, <3>4
  <2>13. CASE AgentKill
    <3>1. UNCHANGED <<sdk, known, up, run, row, cp, work, saved, masked>> /\ Moved("off") /\ Failed
            /\ orphans' = IF agent.pc = "call" THEN orphans + 1 ELSE orphans
      BY <1>0, <2>0, <2>13, AgentMoves DEF AgentKill, past
    <3>2. orphans' <= failures'
      BY <2>0, <3>1 DEF ControlOK, Failed, StoreTypes
    <3>3. StoreTypes'
      BY <2>0, <3>1, <3>2 DEF StoreTypes, Failed
    <3>4. agent.pc = "call" => run # Nil /\ known
      BY <2>0 DEF ControlOK
    <3>5. ControlOK'
      BY <2>0, <3>1, <3>2, <3>4 DEF ControlOK, Moved
    <3>6. QED
      BY <3>1, <3>3, <3>5 DEF Moved
  <2>14. CASE DaemonCrash
    <3>1. UNCHANGED <<sdk, known, row, cp, work, saved, masked>> /\ Failed
            /\ up' = FALSE /\ run' = Nil /\ orphans' = 0
      BY <2>0, <2>14, AgentMoves DEF DaemonCrash, past
    <3>2. /\ agent' \in Agents
          /\ \/ agent.pc = "call" /\ agent'.pc \in {"off", "cancel", "refused"}
             \/ agent.pc # "call" /\ UNCHANGED agent
      BY <1>0, <2>0, <2>14, AgentMoves DEF DaemonCrash, Left, LeftPCs
    <3>3. StoreTypes' /\ 0 <= failures'
      <4>1. 0 \in 0 .. MaxFailures /\ failures' \in 0 .. MaxFailures /\ 0 <= failures'
        BY <2>0, <3>1 DEF StoreTypes, Failed
      <4>2. QED
        BY <2>0, <3>1, <4>1 DEF StoreTypes
    <3>4. ControlOK'
      BY <2>0, <3>1, <3>2, <3>3 DEF ControlOK, StoreTypes
    <3>5. QED
      BY <3>2, <3>3, <3>4
  <2>15. CASE DaemonStart
    <3>1. UNCHANGED <<sdk, agent, known, cp, orphans, work, saved, masked, failures>>
            /\ up' = TRUE /\ run = Nil
      BY <2>0, <2>15 DEF DaemonStart, agents, past, ControlOK
    <3>2. LatestUsage \in Checkpoints \cup {Nil}
      BY <2>0 DEF LatestUsage, StoreTypes, Cursors
    <3>3. \/ UNCHANGED <<run, row>>
          \/ /\ row # Nil /\ ~Terminal(row) /\ row' = Reconciled(row, LatestUsage)
             /\ run' = Reloaded(row')
      BY <2>15 DEF DaemonStart
    <3>4. \/ UNCHANGED <<run, row>>
          \/ /\ row' \in Rows /\ row' # Nil /\ run' \in LiveRuns /\ run' # Nil
             /\ row'.loops = run'.loops
      <4>1. CASE UNCHANGED <<run, row>>
        BY <4>1
      <4>2. CASE /\ row # Nil /\ ~Terminal(row) /\ row' = Reconciled(row, LatestUsage)
                 /\ run' = Reloaded(row')
        <5>1. row' \in Rows /\ run' \in LiveRuns
          BY <2>0, <3>2, <4>2, PersistedTypes DEF StoreTypes
        <5>2. row'.loops = run'.loops
          BY <4>2, <5>1, UsageKept DEF SameUsage
        <5>3. QED
          BY <5>1, <5>2, SessionAssumption
      <4>3. QED
        BY <3>3, <4>1, <4>2
    <3>5. StoreTypes'
      BY <2>0, <3>1, <3>4 DEF StoreTypes
    <3>6. ControlOK'
      BY <2>0, <3>1, <3>4 DEF ControlOK
    <3>7. QED
      BY <2>0, <3>1, <3>5, <3>6
  <2>16. QED
    BY <1>2, <2>2, <2>3, <2>4, <2>5, <2>6, <2>7, <2>8, <2>9, <2>10, <2>11, <2>12, <2>13, <2>14, <2>15
    DEF Next, AgentNext
<1>3. ASSUME TypeInv, UNCHANGED vars PROVE TypeInv'
  BY <1>3 DEF TypeInv, TypeOK, ControlOK, vars, agents, daemon, past
<1>4. QED
  BY <1>1, <1>2, <1>3

\* The session stays within its types: the agent in its control flow, the cursor
\* within the items, the failures within their bound.
THEOREM TypeCorrect == Spec => []TypeOK
BY TypeInvInductive, PTL DEF Spec, TypeInv

----------------------------------------------------------------------------
(* The steps as the invariants below see them.                             *)

\* Usage is only ever rolled back by a reload.
LEMMA LoopSteps ==
    /\ \A g \in LiveRuns : CanProceed(g).loops = g.loops /\ Cancel(g).loops = g.loops
    /\ \A g \in LiveRuns : /\ PreStep(g).loops \in {g.loops, g.loops + 1}
                           /\ PreStep(g).halted = HaltNone => PreStep(g).loops = g.loops + 1
                           /\ (Budget.loops > 0 /\ g.loops <= Budget.loops) =>
                                 PreStep(g).loops <= Budget.loops
                           /\ CanProceed(g).halted = HaltNone => CanProceed(g) = g
<1>1. \A g \in LiveRuns : CanProceed(g).loops = g.loops /\ Cancel(g).loops = g.loops
  BY UsageKept DEF SameUsage
<1>2. \A g \in LiveRuns : CanProceed(g).halted = HaltNone => CanProceed(g) = g
  BY UnderBudget
<1>3. \A g \in LiveRuns : /\ PreStep(g).loops \in {g.loops, g.loops + 1}
                          /\ PreStep(g).halted = HaltNone => PreStep(g).loops = g.loops + 1
  BY UsageCounted, SessionAssumption
<1>4. ASSUME NEW g \in LiveRuns, Budget.loops > 0, g.loops <= Budget.loops
      PROVE  PreStep(g).loops <= Budget.loops
  <2>1. g.loops \in Nat /\ Budget.loops \in Nat
    BY BudgetAssumption DEF LiveRuns
  <2>2. CASE PreStep(g).loops = g.loops
    BY <1>4, <2>2
  <2>3. CASE PreStep(g).loops = g.loops + 1
    <3>1. \A r \in HaltReasons : HaltLocked(g, r).loops = g.loops
      BY DEF HaltLocked, LiveRuns
    <3>2. g.loops + 1 # g.loops
      BY <2>1
    <3>3. g.loops + 1 <= Budget.loops
      BY <1>4, <2>1, <2>3, <3>1, <3>2 DEF PreStep, HaltReasons
    <3>4. QED
      BY <2>3, <3>3
  <2>4. QED
    BY <1>3, <2>2, <2>3
<1>5. QED
  BY <1>1, <1>2, <1>3, <1>4

SameLoops == (row' = Nil <=> row = Nil) /\ (row # Nil => row'.loops = row.loops)

\* The agent's own steps.
LEMMA AgentSteps ==
    ASSUME TypeInv
    PROVE  /\ AgentStart =>
                /\ agent'.i = 0 /\ agent'.pc \in {"attach", "create"} /\ agent.pc = "off"
                /\ agent'.pc = "create" => ~known
                /\ UNCHANGED <<run, row, cp, past, failures>>
           /\ Create =>
                /\ ~known /\ agent'.i = 0 /\ agent'.pc \in {"loop", "off"} /\ cp' = Nil
                /\ row' = row \/ row'.loops = 0
                /\ failures' >= failures /\ UNCHANGED past
           /\ (Attach \/ Finish \/ CancelOnError \/ CallFails \/ Unreachable) =>
                /\ agent'.i = agent.i /\ agent'.pc \in LeftPCs \cup {"latest", "done"}
                /\ agent'.pc = "done" => agent.i = Total
                /\ SameLoops /\ UNCHANGED <<cp, past>> /\ (run' = Nil <=> run = Nil)
                /\ \/ failures' = failures + 1
                   \/ UNCHANGED failures /\ (agent.pc \in {"work", "call", "save"} => run = Nil)
           /\ LatestCheckpoint =>
                /\ UNCHANGED <<run, row, cp, work, saved>> /\ agent.pc = "latest"
                /\ \/ /\ agent'.pc \in LeftPCs /\ agent'.i = agent.i
                      /\ failures' >= failures /\ UNCHANGED masked
                   \/ /\ agent'.pc = "loop"
                      /\ agent'.i = IF cp = Nil \/ cp.cursor = NoCursor THEN 0 ELSE cp.cursor
                      /\ masked' = (masked \/ (cp # Nil /\ cp.cursor = NoCursor /\ saved > 0))
                      /\ UNCHANGED failures
<1>0. /\ TypeOK /\ ControlOK /\ failures \in Nat /\ agent \in Agents
      /\ run \in LiveRuns \cup {Nil} /\ row \in Rows \cup {Nil}
      /\ PCs = {"off", "create", "attach", "latest", "loop", "work", "call", "save",
                "cancel", "done", "refused"}
      /\ TRUE \in BOOLEAN /\ FALSE \in BOOLEAN
  BY DEF TypeInv, TypeOK, PCs, Agents
<1>1. AgentStart =>
        /\ agent'.i = 0 /\ agent'.pc \in {"attach", "create"} /\ agent.pc = "off"
        /\ agent'.pc = "create" => ~known
        /\ UNCHANGED <<run, row, cp, past, failures>>
  BY <1>0 DEF AgentStart, daemon
<1>2. Create =>
        /\ ~known /\ agent'.i = 0 /\ agent'.pc \in {"loop", "off"} /\ cp' = Nil
        /\ row' = row \/ row'.loops = 0
        /\ failures' >= failures /\ UNCHANGED past
  <2>1. Record(NewRun).loops = 0
    BY DEF Record, NewRun
  <2>2. Create => ~known /\ agent.i = 0 /\ cp = Nil
    BY <1>0 DEF Create, ControlOK
  <2>3. Create => agent'.i = agent.i /\ agent'.pc \in {"loop", "off"} /\ failures' >= failures
    BY <1>0, AgentMoves DEF Create, Moved, Failed
  <2>4. QED
    BY <2>1, <2>2, <2>3 DEF Create
<1>3. (Attach \/ Finish \/ CancelOnError \/ CallFails \/ Unreachable) =>
        /\ agent'.i = agent.i /\ agent'.pc \in LeftPCs \cup {"latest", "done"}
        /\ agent'.pc = "done" => agent.i = Total
        /\ SameLoops /\ UNCHANGED <<cp, past>> /\ (run' = Nil <=> run = Nil)
        /\ \/ failures' = failures + 1
           \/ UNCHANGED failures /\ (agent.pc \in {"work", "call", "save"} => run = Nil)
  <2>1. CASE Attach
    <3>1. (Moved("latest") /\ UNCHANGED failures) \/ (Left /\ Failed)
      BY <1>0, <2>1, AnswerMoves DEF Attach
    <3>2. QED
      BY <2>1, <3>1 DEF Attach, Moved, Left, LeftPCs, Failed, SameLoops, daemon
  <2>2. CASE Finish
    BY <1>0, <2>2, AgentMoves DEF Finish, Moved, LeftPCs, SameLoops, daemon
  <2>3. CASE CancelOnError
    <3>1. Moved("off") /\ UNCHANGED <<cp, past, failures>> /\ agent.pc = "cancel"
      BY <1>0, <2>3, AgentMoves DEF CancelOnError
    <3>2. \/ UNCHANGED <<run, row>>
          \/ /\ run # Nil /\ run' # Nil /\ row # Nil /\ row' # Nil /\ row'.loops = row.loops
      <4>1. run # Nil => /\ Cancel(run) \in LiveRuns /\ Cancel(run).loops = run.loops
                         /\ row # Nil /\ row.loops = run.loops
        BY <1>0, GovernorTypes, LoopSteps, SessionAssumption DEF ControlOK
      <4>2. QED
        BY <2>3, <4>1, RecordLoops DEF CancelOnError
    <3>3. QED
      BY <3>1, <3>2 DEF Moved, LeftPCs, SameLoops
  <2>4. CASE CallFails
    BY <1>0, <2>4, AgentMoves DEF CallFails, Left, LeftPCs, Failed, SameLoops, daemon
  <2>5. CASE Unreachable
    BY <1>0, <2>5, AgentMoves DEF Unreachable, Left, LeftPCs, SameLoops, daemon, ControlOK
  <2>6. QED
    BY <2>1, <2>2, <2>3, <2>4, <2>5
<1>4. LatestCheckpoint =>
        /\ UNCHANGED <<run, row, cp, work, saved>> /\ agent.pc = "latest"
        /\ \/ /\ agent'.pc \in LeftPCs /\ agent'.i = agent.i
              /\ failures' >= failures /\ UNCHANGED masked
           \/ /\ agent'.pc = "loop"
              /\ agent'.i = IF cp = Nil \/ cp.cursor = NoCursor THEN 0 ELSE cp.cursor
              /\ masked' = (masked \/ (cp # Nil /\ cp.cursor = NoCursor /\ saved > 0))
              /\ UNCHANGED failures
  <2>1. \A n : /\ [agent EXCEPT !.pc = "loop", !.i = n].pc = "loop"
               /\ [agent EXCEPT !.pc = "loop", !.i = n].i = n
    BY <1>0 DEF Agents
  <2>2. \A final \in BOOLEAN : Raised(final) => agent'.pc \in LeftPCs /\ agent'.i = agent.i
    BY <1>0, AgentMoves DEF Left
  <2>3. Fails => failures' >= failures
    BY <1>0 DEF Fails
  <2>4. ASSUME LatestCheckpoint
        PROVE  \/ Raised(FALSE) /\ (Fails \/ UNCHANGED failures) /\ UNCHANGED masked
               \/ /\ agent' = [agent EXCEPT !.pc = "loop",
                                            !.i = IF cp = Nil \/ cp.cursor = NoCursor
                                                  THEN 0 ELSE cp.cursor]
                  /\ masked' = (masked \/ (cp # Nil /\ cp.cursor = NoCursor /\ saved > 0))
                  /\ UNCHANGED failures
    BY <2>4 DEF LatestCheckpoint
  <2>5. LatestCheckpoint => UNCHANGED <<run, row, cp, work, saved>> /\ agent.pc = "latest"
    BY DEF LatestCheckpoint, daemon
  <2>6. UNCHANGED failures => failures' >= failures
    BY <1>0
  <2>7. QED
    BY <1>0, <2>1, <2>2, <2>3, <2>4, <2>5, <2>6
<1>5. QED
  BY <1>1, <1>2, <1>3, <1>4

\* The steps of an item.
LEMMA ItemSteps ==
    ASSUME TypeInv
    PROVE  /\ BeginStep =>
                /\ agent'.i = agent.i /\ agent.pc = "loop"
                /\ UNCHANGED <<cp, past>> /\ (run' = Nil <=> run = Nil) /\ row # Nil /\ row' # Nil
                /\ (Budget.loops > 0 /\ row.loops <= Budget.loops) => row'.loops <= Budget.loops
                /\ \/ /\ agent'.pc \in LeftPCs /\ row'.loops >= row.loops /\ failures' >= failures
                   \/ /\ agent'.pc = "work" /\ run # Nil
                      /\ row'.loops = row.loops + 1 /\ UNCHANGED failures
           /\ DoWork =>
                /\ agent.pc = "work" /\ agent'.pc = "save" /\ agent'.i = agent.i
                /\ Done(agent.i) /\ UNCHANGED <<run, row, cp, saved, masked, failures>>
           /\ ProxyCall =>
                /\ agent.pc = "work" /\ agent'.i = agent.i /\ row' # Nil /\ run' # Nil
                /\ UNCHANGED <<cp, saved, masked, failures>>
                /\ (Budget.loops > 0 /\ Found.loops <= Budget.loops) => row'.loops <= Budget.loops
                /\ \/ agent'.pc \in LeftPCs /\ UNCHANGED work /\ row'.loops >= Found.loops
                   \/ agent'.pc = "call" /\ Done(agent.i) /\ row'.loops = Found.loops + 1
           /\ CallReturns =>
                /\ agent.pc = "call" /\ agent'.i = agent.i /\ SameLoops /\ row # Nil
                /\ run # Nil /\ run' # Nil /\ UNCHANGED past
                /\ cp' # Nil /\ cp'.cursor = NoCursor /\ cp'.usage.loops = row.loops
                /\ \/ agent'.pc = "save" /\ UNCHANGED failures
                   \/ agent'.pc \in LeftPCs /\ failures' = failures + 1
           /\ SaveCheckpoint =>
                /\ agent.pc = "save" /\ UNCHANGED <<run, row, work, masked>> /\ row # Nil
                /\ \/ /\ run = Nil /\ UNCHANGED <<cp, saved, failures>>
                      /\ agent'.pc \in LeftPCs /\ agent'.i = agent.i
                   \/ /\ run # Nil /\ cp' # Nil /\ cp'.cursor = agent.i + 1
                      /\ cp'.usage.loops = row.loops /\ saved' = agent.i + 1
                      /\ \/ agent'.pc \in LeftPCs /\ agent'.i = agent.i /\ failures' = failures + 1
                         \/ agent'.pc = "loop" /\ agent'.i = agent.i + 1 /\ UNCHANGED failures
<1>0. /\ TypeOK /\ ControlOK /\ failures \in Nat /\ agent \in Agents
      /\ run \in LiveRuns \cup {Nil} /\ row \in Rows \cup {Nil}
      /\ PCs = {"off", "create", "attach", "latest", "loop", "work", "call", "save",
                "cancel", "done", "refused"}
      /\ TRUE \in BOOLEAN /\ FALSE \in BOOLEAN
      /\ run # Nil => row # Nil /\ row.loops = run.loops
      /\ \A g \in LiveRuns : g.loops \in Nat
  BY DEF TypeInv, TypeOK, ControlOK, PCs, Agents, LiveRuns
<1>1. ASSUME BeginStep
      PROVE  /\ agent'.i = agent.i /\ agent.pc = "loop"
             /\ UNCHANGED <<cp, past>> /\ (run' = Nil <=> run = Nil) /\ row # Nil /\ row' # Nil
             /\ (Budget.loops > 0 /\ row.loops <= Budget.loops) => row'.loops <= Budget.loops
             /\ \/ /\ agent'.pc \in LeftPCs /\ row'.loops >= row.loops /\ failures' >= failures
                \/ /\ agent'.pc = "work" /\ run # Nil
                   /\ row'.loops = row.loops + 1 /\ UNCHANGED failures
  <2>1. agent.pc = "loop" /\ UNCHANGED <<cp, past>> /\ row # Nil /\ row \in Rows /\ row.loops \in Nat
    BY <1>0, <1>1 DEF BeginStep, ControlOK, Rows
  <2>2. CASE run = Nil
    <3>1. Left /\ UNCHANGED <<run, row, failures>>
      BY <1>0, <1>1, <2>2, AgentMoves DEF BeginStep
    <3>2. QED
      BY <1>0, <2>1, <2>2, <3>1 DEF Left
  <2>3. CASE run # Nil
    <3>1. /\ PreStep(run) \in LiveRuns /\ PreStep(run).loops \in {run.loops, run.loops + 1}
          /\ PreStep(run).halted = HaltNone => PreStep(run).loops = run.loops + 1
          /\ (Budget.loops > 0 /\ run.loops <= Budget.loops) => PreStep(run).loops <= Budget.loops
      BY <1>0, <2>3, GovernorTypes, LoopSteps, SessionAssumption
    <3>2. run' = PreStep(run) /\ row' = Record(run')
      BY <1>1, <2>3 DEF BeginStep
    <3>3. run' # Nil /\ row' # Nil /\ row'.loops = PreStep(run).loops
      BY <3>1, <3>2, RecordLoops
    <3>4. \/ run'.halted = HaltNone /\ Moved("work") /\ UNCHANGED failures
          \/ Left /\ failures' >= failures
      <4>1. CASE run'.halted = HaltNone
        <5>1. Answered("work")
          BY <1>1, <2>3, <4>1 DEF BeginStep
        <5>2. QED
          BY <1>0, <4>1, <5>1, AnswerMoves DEF Failed
      <4>2. CASE run'.halted # HaltNone
        <5>1. Raised(TRUE) /\ UNCHANGED failures
          BY <1>1, <2>3, <4>2 DEF BeginStep
        <5>2. Left
          BY <1>0, <5>1, AgentMoves
        <5>3. failures' >= failures
          BY <1>0, <5>1
        <5>4. QED
          BY <5>2, <5>3
      <4>3. QED
        BY <4>1, <4>2
    <3>5. row'.loops >= row.loops
      BY <1>0, <2>1, <2>3, <3>1, <3>3
    <3>6. QED
      BY <1>0, <2>1, <2>3, <3>1, <3>2, <3>3, <3>4, <3>5 DEF Left, Moved
  <2>4. QED
    BY <2>2, <2>3
<1>2. DoWork =>
        /\ agent.pc = "work" /\ agent'.pc = "save" /\ agent'.i = agent.i
        /\ Done(agent.i) /\ UNCHANGED <<run, row, cp, saved, masked, failures>>
  BY <1>0, AgentMoves DEF DoWork, Moved, daemon
<1>3. ASSUME ProxyCall
      PROVE  /\ agent.pc = "work" /\ agent'.i = agent.i /\ row' # Nil /\ run' # Nil
             /\ UNCHANGED <<cp, saved, masked, failures>>
             /\ (Budget.loops > 0 /\ Found.loops <= Budget.loops) => row'.loops <= Budget.loops
             /\ \/ agent'.pc \in LeftPCs /\ UNCHANGED work /\ row'.loops >= Found.loops
                \/ agent'.pc = "call" /\ Done(agent.i) /\ row'.loops = Found.loops + 1
  <2>1. agent.pc = "work" /\ known /\ UNCHANGED <<cp, saved, masked, failures>>
    BY <1>0, <1>3 DEF ProxyCall, ControlOK
  <2>2. Found \in LiveRuns
    BY <1>0, <2>1, FoundRun
  <2> DEFINE p == PreStep(Found)
             g == CanProceed(p)
  <2>3. /\ p \in LiveRuns /\ p.loops \in {Found.loops, Found.loops + 1}
        /\ p.halted = HaltNone => p.loops = Found.loops + 1
        /\ (Budget.loops > 0 /\ Found.loops <= Budget.loops) => p.loops <= Budget.loops
    BY <2>2, GovernorTypes, LoopSteps, SessionAssumption
  <2>4. /\ g \in LiveRuns /\ g.loops = p.loops
        /\ g.halted = HaltNone => g = p
    BY <2>3, GovernorTypes, LoopSteps, SessionAssumption
  <2>5. run' = g /\ row' = Record(g)
    BY <1>3 DEF ProxyCall
  <2>6. \/ g.halted = HaltNone /\ Done(agent.i) /\ Goto("call")
        \/ Raised(TRUE) /\ UNCHANGED work
    BY <1>3 DEF ProxyCall
  <2> HIDE DEF p, g
  <2>7. run' # Nil /\ row' # Nil /\ row'.loops = p.loops
    BY <2>4, <2>5, RecordLoops
  <2>8. p.loops >= Found.loops
    BY <1>0, <2>2, <2>3
  <2>9. \/ g.halted = HaltNone /\ Done(agent.i) /\ Moved("call")
        \/ Left /\ UNCHANGED work
    BY <1>0, <2>6, AgentMoves
  <2>10. QED
    BY <2>1, <2>3, <2>4, <2>7, <2>8, <2>9 DEF Moved, Left
<1>4. ASSUME CallReturns
      PROVE  /\ agent.pc = "call" /\ agent'.i = agent.i /\ SameLoops /\ row # Nil
             /\ run # Nil /\ run' # Nil /\ UNCHANGED past
             /\ cp' # Nil /\ cp'.cursor = NoCursor /\ cp'.usage.loops = row.loops
             /\ \/ agent'.pc = "save" /\ UNCHANGED failures
                \/ agent'.pc \in LeftPCs /\ failures' = failures + 1
  <2>1. agent.pc = "call" /\ run # Nil /\ RecordCall /\ UNCHANGED past
    BY <1>0, <1>4 DEF CallReturns, ControlOK
  <2>2. (Moved("save") /\ UNCHANGED failures) \/ (Left /\ Failed)
    BY <1>0, <1>4, AnswerMoves DEF CallReturns
  <2>3. QED
    BY <1>0, <2>1, <2>2, CallRecorded DEF Moved, Left, Failed, SameLoops
<1>5. ASSUME SaveCheckpoint
      PROVE  /\ agent.pc = "save" /\ UNCHANGED <<run, row, work, masked>> /\ row # Nil
             /\ \/ /\ run = Nil /\ UNCHANGED <<cp, saved, failures>>
                   /\ agent'.pc \in LeftPCs /\ agent'.i = agent.i
                \/ /\ run # Nil /\ cp' # Nil /\ cp'.cursor = agent.i + 1
                   /\ cp'.usage.loops = row.loops /\ saved' = agent.i + 1
                   /\ \/ agent'.pc \in LeftPCs /\ agent'.i = agent.i /\ failures' = failures + 1
                      \/ agent'.pc = "loop" /\ agent'.i = agent.i + 1 /\ UNCHANGED failures
  <2>1. agent.pc = "save" /\ UNCHANGED <<run, row, work, masked>> /\ row # Nil
    BY <1>0, <1>5 DEF SaveCheckpoint, ControlOK
  <2>2. CASE run = Nil
    <3>1. Left /\ UNCHANGED <<cp, saved, failures>>
      BY <1>0, <1>5, <2>2, AgentMoves DEF SaveCheckpoint
    <3>2. QED
      BY <2>1, <2>2, <3>1 DEF Left
  <2>3. CASE run # Nil
    <3>1. cp' = [usage |-> Snapshot(run), cursor |-> agent.i + 1] /\ saved' = agent.i + 1
      BY <1>5, <2>3 DEF SaveCheckpoint
    <3>2. Snapshot(run) \in Checkpoints /\ Snapshot(run).loops = run.loops
      BY <1>0, <2>3, PersistedTypes, UsageKept DEF SameUsage
    <3>3. cp' # Nil
      BY <1>0, <3>1, <3>2, SessionAssumption DEF Agents
    <3>4. \/ Left /\ failures' = failures + 1
          \/ agent' = [agent EXCEPT !.pc = "loop", !.i = @ + 1] /\ UNCHANGED failures
      BY <1>0, <1>5, <2>3, AgentMoves DEF SaveCheckpoint, Failed
    <3>5. \/ agent'.pc \in LeftPCs /\ agent'.i = agent.i /\ failures' = failures + 1
          \/ agent'.pc = "loop" /\ agent'.i = agent.i + 1 /\ UNCHANGED failures
      BY <1>0, <3>4 DEF Left, Agents
    <3>6. QED
      BY <1>0, <2>1, <2>3, <3>1, <3>2, <3>3, <3>5
  <2>4. QED
    BY <2>2, <2>3
<1>6. QED
  BY <1>1, <1>2, <1>3, <1>4, <1>5

\* The daemon's steps, and the kills.
LEMMA DaemonSteps ==
    ASSUME TypeInv
    PROVE  /\ OrphanReturns =>
                /\ UNCHANGED <<agent, past, failures>> /\ run # Nil /\ run' # Nil
                /\ SameLoops /\ row # Nil
                /\ \/ UNCHANGED cp
                   \/ cp' # Nil /\ cp'.cursor = NoCursor /\ cp'.usage.loops = row.loops
           /\ AgentKill =>
                /\ UNCHANGED <<run, row, cp, past>> /\ failures' = failures + 1
                /\ agent'.pc = "off" /\ agent'.i = agent.i
           /\ DaemonCrash =>
                /\ UNCHANGED <<row, cp, past>> /\ failures' = failures + 1 /\ run' = Nil
                /\ \/ agent.pc = "call" /\ agent'.pc \in LeftPCs /\ agent'.i = agent.i /\ run # Nil
                   \/ agent.pc # "call" /\ UNCHANGED agent
           /\ DaemonStart =>
                /\ UNCHANGED <<agent, cp, past, failures>> /\ run = Nil
                /\ \/ UNCHANGED <<run, row>>
                   \/ /\ row # Nil /\ row' # Nil /\ run' # Nil
                      /\ row'.loops = row.loops \/ (cp # Nil /\ row'.loops = cp.usage.loops)
<1>0. /\ TypeOK /\ ControlOK /\ failures \in Nat /\ agent \in Agents
      /\ run \in LiveRuns \cup {Nil} /\ row \in Rows \cup {Nil} /\ (cp = Nil \/ cp \in Cursors)
      /\ "off" \in PCs /\ FALSE \in BOOLEAN
      /\ run # Nil => row # Nil /\ row.loops = run.loops
  BY DEF TypeInv, TypeOK, ControlOK, PCs, Agents, Cursors
<1>1. ASSUME OrphanReturns
      PROVE  /\ UNCHANGED <<agent, past, failures>> /\ run # Nil /\ run' # Nil
             /\ SameLoops /\ row # Nil
             /\ \/ UNCHANGED cp
                \/ cp' # Nil /\ cp'.cursor = NoCursor /\ cp'.usage.loops = row.loops
  <2>1. /\ UNCHANGED <<agent, past, failures>> /\ run # Nil
        /\ RecordCall \/ UNCHANGED <<run, row, cp>>
    BY <1>0, <1>1 DEF OrphanReturns, ControlOK, agents
  <2>2. QED
    BY <1>0, <2>1, CallRecorded DEF SameLoops
<1>2. AgentKill =>
        /\ UNCHANGED <<run, row, cp, past>> /\ failures' = failures + 1
        /\ agent'.pc = "off" /\ agent'.i = agent.i
  BY <1>0, AgentMoves DEF AgentKill, Moved, Failed
<1>3. DaemonCrash =>
        /\ UNCHANGED <<row, cp, past>> /\ failures' = failures + 1 /\ run' = Nil
        /\ \/ agent.pc = "call" /\ agent'.pc \in LeftPCs /\ agent'.i = agent.i /\ run # Nil
           \/ agent.pc # "call" /\ UNCHANGED agent
  BY <1>0, AgentMoves DEF DaemonCrash, Left, Failed, ControlOK
<1>4. ASSUME DaemonStart
      PROVE  /\ UNCHANGED <<agent, cp, past, failures>> /\ run = Nil
             /\ \/ UNCHANGED <<run, row>>
                \/ /\ row # Nil /\ row' # Nil /\ run' # Nil
                   /\ row'.loops = row.loops \/ (cp # Nil /\ row'.loops = cp.usage.loops)
  <2>1. UNCHANGED <<agent, cp, past, failures>> /\ run = Nil
    BY <1>0, <1>4 DEF DaemonStart, agents, ControlOK
  <2>2. CASE UNCHANGED <<run, row>>
    BY <2>1, <2>2
  <2>3. CASE row # Nil /\ row' = Reconciled(row, LatestUsage) /\ run' = Reloaded(row')
    <3>1. /\ LatestUsage \in Checkpoints \cup {Nil}
          /\ LatestUsage # Nil => cp # Nil /\ LatestUsage = cp.usage
      BY <1>0 DEF LatestUsage, Cursors
    <3>2. row' \in Rows /\ run' \in LiveRuns
      BY <1>0, <2>3, <3>1, PersistedTypes
    <3>3. \/ row'.loops = row.loops
          \/ LatestUsage # Nil /\ row'.loops = LatestUsage.loops
      BY <1>0, <2>3, <3>1, UsageKept DEF SameUsage
    <3>4. QED
      BY <2>1, <2>3, <3>1, <3>2, <3>3, SessionAssumption
  <2>4. QED
    BY <1>4, <2>2, <2>3 DEF DaemonStart
<1>5. QED
  BY <1>1, <1>2, <1>3, <1>4

----------------------------------------------------------------------------
(* The cursor.                                                             *)

\* What the agent's cursors are past has been done; the checkpoint with a cursor has
\* the one saved last; and as long as no resume was misled the agent is at that
\* cursor and nothing was done beyond it.
ItemInv ==
    /\ \A i \in Items : i < saved \/ i < agent.i => work[i] > 0
    /\ agent.pc \in {"call", "save"} => work[agent.i] > 0
    /\ agent.pc = "done" => agent.i = Total
    /\ cp = Nil => saved = 0
    /\ (cp # Nil /\ cp.cursor # NoCursor) => cp.cursor = saved
    /\ ~masked => /\ agent.pc \in {"create", "loop", "work", "call", "save"} => agent.i = saved
                  /\ \A i \in Items : i > saved => work[i] = 0

\* Done items stay done, and nothing else becomes one.
LEMMA ItemDone ==
    ASSUME TypeOK, agent.i < Total, Done(agent.i)
    PROVE  /\ agent.i \in Items /\ work'[agent.i] > 0
           /\ \A i \in Items : work[i] > 0 => work'[i] > 0
           /\ \A i \in Items : i # agent.i => work'[i] = work[i]
<1>1. /\ agent.i \in Items /\ work \in [Items -> Nat]
      /\ work'[agent.i] = work[agent.i] + 1
      /\ \A i \in Items : i # agent.i => work'[i] = work[i]
  BY DoneOnce DEF TypeOK, DifferAt
<1>2. work[agent.i] \in Nat
  BY <1>1
<1>3. QED
  BY <1>1, <1>2

\* The cursor invariant is inductive.
LEMMA ItemInvInductive ==
    /\ Init => ItemInv
    /\ TypeInv /\ ItemInv /\ [Next]_vars => ItemInv'
<1>1. ASSUME Init PROVE ItemInv
  <2>1. /\ saved = 0 /\ agent.i = 0 /\ agent.pc = "off" /\ cp = Nil
        /\ \A i \in Items : work[i] = 0
    BY <1>1 DEF Init, Off
  <2>2. \A i \in Items : ~(i < 0)
    BY SessionAssumption DEF Items
  <2>3. QED
    BY <2>1, <2>2 DEF ItemInv
<1>2. ASSUME TypeInv, ItemInv, Next PROVE ItemInv'
  <2>0. /\ TypeOK /\ ControlOK /\ Total \in Nat /\ saved \in 0 .. Total /\ agent.i \in 0 .. Total
        /\ \A i \in Items : i \in Int /\ i >= 0 /\ i < Total
        /\ \A i \in Items : work[i] \in Nat
        /\ masked \in BOOLEAN
        /\ LeftPCs = {"off", "cancel", "refused"}
    BY <1>2, SessionAssumption DEF TypeInv, TypeOK, Items, LeftPCs
  <2>1. CASE AgentStart
    <3>1. agent'.pc = "create" => saved = 0
      BY <1>2, <2>0, <2>1, AgentSteps DEF ControlOK
    <3>2. QED
      BY <1>2, <2>0, <2>1, <3>1, AgentSteps DEF ItemInv, past
  <2>2. CASE Create
    <3>1. saved = 0 /\ cp' = Nil /\ agent'.i = 0 /\ agent'.pc \in {"loop", "off"}
            /\ UNCHANGED <<work, saved, masked>>
      BY <1>2, <2>0, <2>2, AgentSteps DEF ControlOK, past
    <3>2. QED
      BY <1>2, <2>0, <3>1 DEF ItemInv
  <2>3. CASE Attach \/ Finish \/ CancelOnError \/ CallFails \/ Unreachable
    <3>1. /\ agent'.i = agent.i /\ agent'.pc \in {"off", "cancel", "refused", "latest", "done"}
          /\ agent'.pc = "done" => agent.i = Total
          /\ UNCHANGED <<cp, work, saved, masked>>
      BY <1>2, <2>0, <2>3, AgentSteps DEF past
    <3>2. QED
      BY <1>2, <3>1 DEF ItemInv
  <2>4. CASE LatestCheckpoint
    <3>1. UNCHANGED <<cp, work, saved>>
      BY <1>2, <2>4, AgentSteps
    <3>2. CASE agent'.pc \in LeftPCs /\ agent'.i = agent.i /\ UNCHANGED masked
      BY <1>2, <2>0, <3>1, <3>2 DEF ItemInv
    <3>3. CASE /\ agent'.pc = "loop"
               /\ agent'.i = IF cp = Nil \/ cp.cursor = NoCursor THEN 0 ELSE cp.cursor
               /\ masked' = (masked \/ (cp # Nil /\ cp.cursor = NoCursor /\ saved > 0))
      <4>1. agent'.i = 0 \/ agent'.i = saved
        BY <1>2, <3>3 DEF ItemInv
      <4>2. ~masked' => ~masked /\ agent'.i = saved
        <5>1. ~masked' => ~masked /\ ~(cp # Nil /\ cp.cursor = NoCursor /\ saved > 0)
          BY <2>0, <3>3, Zenon
        <5>2. ~(saved > 0) => saved = 0
          BY <2>0
        <5>3. QED
          BY <1>2, <3>3, <5>1, <5>2 DEF ItemInv
      <4>3. \A i \in Items : i < saved' \/ i < agent'.i => work'[i] > 0
        BY <1>2, <2>0, <3>1, <4>1 DEF ItemInv
      <4>4. ~masked' => (\A i \in Items : i > saved' => work'[i] = 0) /\ agent'.i = saved'
        BY <1>2, <3>1, <4>2 DEF ItemInv
      <4>5. (cp' = Nil => saved' = 0) /\ ((cp' # Nil /\ cp'.cursor # NoCursor) => cp'.cursor = saved')
        BY <1>2, <3>1 DEF ItemInv
      <4>6. QED
        BY <3>3, <4>3, <4>4, <4>5 DEF ItemInv
    <3>4. QED
      BY <1>2, <2>4, <3>2, <3>3, AgentSteps
  <2>5. CASE BeginStep
    <3>1. /\ agent'.i = agent.i /\ agent.pc = "loop" /\ UNCHANGED <<cp, work, saved, masked>>
          /\ agent'.pc \in {"off", "cancel", "refused", "work"}
      BY <1>2, <2>0, <2>5, ItemSteps DEF past
    <3>2. QED
      BY <1>2, <3>1 DEF ItemInv
  <2>6. CASE \/ DoWork
             \/ ProxyCall /\ agent'.pc = "call"
    <3>1. /\ agent.pc = "work" /\ agent'.i = agent.i /\ Done(agent.i) /\ agent.i < Total
          /\ agent'.pc \in {"call", "save"} /\ UNCHANGED <<cp, saved, masked>>
      BY <1>2, <2>0, <2>6, ItemSteps DEF ControlOK, LeftPCs
    <3>2. /\ agent.i \in Items /\ work'[agent.i] > 0
          /\ \A i \in Items : work[i] > 0 => work'[i] > 0
          /\ \A i \in Items : i # agent.i => work'[i] = work[i]
      BY <2>0, <3>1, ItemDone
    <3>3. QED
      BY <1>2, <2>0, <3>1, <3>2 DEF ItemInv
  <2>7. CASE ProxyCall /\ agent'.pc # "call"
    <3>1. /\ agent'.i = agent.i /\ UNCHANGED <<cp, work, saved, masked>>
          /\ agent'.pc \in {"off", "cancel", "refused"}
      BY <1>2, <2>0, <2>7, ItemSteps
    <3>2. QED
      BY <1>2, <3>1 DEF ItemInv
  <2>8. CASE CallReturns
    <3>1. /\ agent'.i = agent.i /\ agent.pc = "call" /\ UNCHANGED <<work, saved, masked>>
          /\ agent'.pc \in {"off", "cancel", "refused", "save"}
          /\ cp' # Nil /\ cp'.cursor = NoCursor
      BY <1>2, <2>0, <2>8, ItemSteps DEF past
    <3>2. QED
      BY <1>2, <3>1 DEF ItemInv
  <2>9. CASE SaveCheckpoint
    <3>1. agent.pc = "save" /\ UNCHANGED <<work, masked>> /\ agent.i < Total /\ agent.i \in Items
      BY <1>2, <2>0, <2>9, ItemSteps DEF ControlOK, Items
    <3>2. CASE UNCHANGED <<cp, saved>> /\ agent'.pc \in LeftPCs /\ agent'.i = agent.i
      BY <1>2, <2>0, <3>1, <3>2 DEF ItemInv
    <3>3. CASE /\ cp' # Nil /\ cp'.cursor = agent.i + 1 /\ saved' = agent.i + 1
               /\ \/ agent'.pc \in LeftPCs /\ agent'.i = agent.i
                  \/ agent'.pc = "loop" /\ agent'.i = agent.i + 1
      <4>1. \A i \in Items : i < agent.i + 1 => work[i] > 0
        BY <1>2, <2>0, <3>1 DEF ItemInv
      <4>2. ~masked => \A i \in Items : i > agent.i + 1 => work[i] = 0
        BY <1>2, <2>0, <3>1 DEF ItemInv
      <4>3. \A i \in Items : i < agent'.i => work'[i] > 0
        BY <2>0, <3>1, <3>3, <4>1
      <4>4. QED
        BY <1>2, <2>0, <3>1, <3>3, <4>1, <4>2, <4>3 DEF ItemInv
    <3>4. QED
      BY <1>2, <2>9, <3>2, <3>3, ItemSteps
  <2>10. CASE OrphanReturns
    <3>1. /\ UNCHANGED <<agent, work, saved, masked>>
          /\ UNCHANGED cp \/ (cp' # Nil /\ cp'.cursor = NoCursor)
      BY <1>2, <2>10, DaemonSteps DEF past
    <3>2. QED
      BY <1>2, <3>1 DEF ItemInv
  <2>11. CASE AgentKill \/ DaemonCrash \/ DaemonStart
    <3>1. /\ UNCHANGED <<cp, work, saved, masked>>
          /\ UNCHANGED agent \/ (agent'.pc \in LeftPCs /\ agent'.i = agent.i)
      BY <1>2, <2>0, <2>11, DaemonSteps DEF past
    <3>2. QED
      BY <1>2, <2>0, <3>1 DEF ItemInv
  <2>12. QED
    BY <1>2, <2>1, <2>2, <2>3, <2>4, <2>5, <2>6, <2>7, <2>8, <2>9, <2>10, <2>11
    DEF Next, AgentNext
<1>3. ASSUME ItemInv, UNCHANGED vars PROVE ItemInv'
  BY <1>3 DEF ItemInv, vars, agents, daemon, past
<1>4. QED
  BY <1>1, <1>2, <1>3

\* A resumed agent leaves no item out, whatever is killed or lost between its steps
\* (resume_run, latest_checkpoint): what the latest cursor is past has been done, and
\* an agent that is done has done every item.
THEOREM NoItemSkippedHolds == Spec => []NoItemSkipped
<1>1. ASSUME TypeInv, ItemInv PROVE NoItemSkipped
  <2>1. \A i \in Items : i \in Int /\ i >= 0 /\ i < Total
    BY SessionAssumption DEF Items
  <2>2. cp # Nil /\ cp.cursor = NoCursor => \A i \in Items : ~(i < cp.cursor)
    BY <2>1 DEF NoCursor
  <2>3. QED
    BY <1>1, <2>1, <2>2 DEF ItemInv, NoItemSkipped
<1>2. QED
  BY <1>1, TypeInvInductive, ItemInvInductive, PTL DEF Spec

----------------------------------------------------------------------------
(* Repeated work.                                                          *)

If(b) == IF b THEN 1 ELSE 0

\* The daemon died under the agent's item: the failure that will take the agent out
\* of it is counted already.
Counted == If(run = Nil /\ agent.pc \in {"work", "save"})

\* The item at the cursor was done and will be done again.
ToRepeat == If(saved \in Items /\ work[saved] > 0 /\ agent.pc \notin {"call", "save"})

RedoInv == ~masked => Redone + ToRepeat + Counted <= failures

\* Each of the two credits is at most one.
LEMMA CreditTypes ==
    /\ ToRepeat \in {0, 1} /\ ToRepeat' \in {0, 1}
    /\ Counted \in {0, 1} /\ Counted' \in {0, 1}
BY DEF ToRepeat, Counted, If

\* What the work of an item does to the counts.
LEMMA WorkCounted ==
    ASSUME TypeOK
    PROVE  /\ WorkDone \in Nat /\ Redone \in Int
           /\ UNCHANGED work => WorkDone' = WorkDone /\ Redone' = Redone
           /\ agent.i < Total /\ Done(agent.i) =>
                /\ WorkDone' = WorkDone + 1
                /\ Redone' = Redone + If(work[agent.i] > 0)
<1> DEFINE S  == {i \in Items : work[i] > 0}
<1>1. IsFiniteSet(Items) /\ work \in [Items -> Nat]
  <2>1. IsFiniteSet(0 .. (Total - 1))
    BY FS_Interval, SessionAssumption
  <2>2. QED
    BY <2>1 DEF Items, TypeOK
<1>2. IsFiniteSet(S) /\ Cardinality(S) \in Nat
  BY <1>1, FS_Subset, FS_CardinalityType
<1>3. WorkDone \in Nat
  BY <1>1, SumType DEF WorkDone
<1>4. Redone = WorkDone - Cardinality(S) /\ Redone \in Int
  BY <1>2, <1>3 DEF Redone
<1>5. UNCHANGED work => WorkDone' = WorkDone /\ Redone' = Redone
  BY DEF WorkDone, Redone
<1>6. ASSUME agent.i < Total, Done(agent.i)
      PROVE  WorkDone' = WorkDone + 1 /\ Redone' = Redone + If(work[agent.i] > 0)
  <2> DEFINE n == agent.i
             T == {i \in Items : work'[i] > 0}
  <2>1. /\ work' \in [Items -> Nat] /\ n \in Items
        /\ work'[n] = work[n] + 1 /\ DifferAt(work, work', n)
    BY <1>6, DoneOnce
  <2>2. work[n] \in Nat
    BY <1>1, <2>1
  <2>3. SumFunction(work') = SumFunction(work) - work[n] + work'[n]
    BY <1>1, <2>1, SumOfChanged
  <2>4. WorkDone' = WorkDone + 1
    BY <1>3, <2>1, <2>2, <2>3 DEF WorkDone
  <2>5. Redone' = WorkDone' - Cardinality(T)
    BY DEF Redone
  <2>6. T = S \cup {n}
    BY <1>1, <2>1, <2>2 DEF DifferAt
  <2>7. CASE work[n] > 0
    <3>1. T = S
      BY <2>1, <2>6, <2>7
    <3>2. If(work[agent.i] > 0) = 1 /\ 1 \in Int
      BY <2>7 DEF If
    <3>3. Cardinality(T) = Cardinality(S)
      BY <3>1
    <3>4. Redone' = Redone + 1
      <4> HIDE DEF S, T, n
      <4> QED BY <1>2, <1>3, <1>4, <2>4, <2>5, <3>3
    <3>5. QED
      BY <2>4, <3>2, <3>4
  <2>8. CASE ~(work[n] > 0)
    <3>1. Cardinality(T) = Cardinality(S) + 1
      BY <1>2, <2>6, <2>8, FS_AddElement
    <3>2. QED
      BY <1>2, <1>3, <1>4, <2>4, <2>5, <2>8, <3>1 DEF If
  <2>9. QED
    BY <2>4, <2>7, <2>8
<1>7. QED
  BY <1>3, <1>4, <1>5, <1>6

\* What a step does to the account: the item at hand is done, for the first time or
\* again; or no item is, and the agent stays where it is, leaves an item for a
\* failure of this step or of one before, or goes on to an item not done yet.
RedoStep ==
    \/ Redone' = Redone + ToRepeat /\ ToRepeat' = 0 /\ Counted' <= Counted /\ failures' = failures
    \/ Redone' = Redone /\ ToRepeat' = ToRepeat /\ Counted' <= Counted /\ failures' >= failures
    \/ Redone' = Redone /\ ToRepeat' = ToRepeat /\ failures' = failures + 1
    \/ Redone' = Redone /\ Counted' = 0 /\ failures' = failures + 1
    \/ Redone' = Redone /\ Counted' = 0 /\ Counted = 1 /\ failures' = failures
    \/ Redone' = Redone /\ Counted' = 0 /\ ToRepeat' = 0 /\ failures' >= failures

\* Every one of those ways keeps the count of repeated items within the failures.
LEMMA RedoStepKeeps ==
    ASSUME TypeOK, TypeOK', RedoStep, Redone + ToRepeat + Counted <= failures
    PROVE  Redone' + ToRepeat' + Counted' <= failures'
<1>1. /\ Redone \in Int /\ failures \in Int /\ failures' \in Int
      /\ ToRepeat \in {0, 1} /\ ToRepeat' \in {0, 1}
      /\ Counted \in {0, 1} /\ Counted' \in {0, 1}
  BY WorkCounted, CreditTypes DEF TypeOK
<1>2. QED
  BY <1>1 DEF RedoStep

\* Every repetition is paid for by a failure: the invariant is inductive.
LEMMA RedoInvInductive ==
    /\ Init => RedoInv
    /\ TypeInv /\ ItemInv /\ RedoInv /\ [Next]_vars => RedoInv'
<1>1. ASSUME Init PROVE RedoInv
  <2>1. IsFiniteSet(Items) /\ work \in [Items -> Nat] /\ \A i \in Items : work[i] = 0
    BY <1>1, FS_Interval, SessionAssumption DEF Items, Init
  <2>2. WorkDone = 0
    BY <2>1, SumOfZeros DEF WorkDone
  <2>3. {i \in Items : work[i] > 0} = {}
    BY <2>1
  <2>4. Redone = 0
    BY <2>2, <2>3, FS_EmptySet DEF Redone
  <2>5. ToRepeat = 0 /\ Counted = 0
    BY <1>1, <2>1 DEF Init, ToRepeat, Counted, If, Off
  <2>6. QED
    BY <1>1, <2>4, <2>5 DEF Init, RedoInv
<1>2. ASSUME TypeInv, ItemInv, RedoInv, Next PROVE RedoInv'
  <2>0. /\ TypeOK /\ TypeOK' /\ ControlOK /\ Total \in Nat
        /\ LeftPCs = {"off", "cancel", "refused"}
    BY <1>2, TypeInvInductive, SessionAssumption DEF TypeInv, LeftPCs
  <2>1. SUFFICES ASSUME ~masked, ~masked'
                 PROVE  RedoStep
    <3>1. ~masked' => ~masked
      BY <1>2, <2>0, AgentSteps, ItemSteps, DaemonSteps DEF Next, AgentNext, past, TypeOK
    <3>2. QED
      BY <1>2, <2>0, <2>1, <3>1, RedoStepKeeps DEF RedoInv
  <2>2. UNCHANGED work => Redone' = Redone
    BY <2>0, WorkCounted
  <2>3. /\ UNCHANGED <<work, saved>>
        /\ agent.pc \in {"call", "save"} <=> agent'.pc \in {"call", "save"}
        => ToRepeat' = ToRepeat
    BY DEF ToRepeat
  <2>4. agent'.pc \notin {"work", "save"} \/ run' # Nil => Counted' = 0 /\ Counted' <= Counted
    BY CreditTypes DEF Counted, If
  <2>5. failures \in Int /\ failures' \in Int
    BY <2>0 DEF TypeOK
  <2>6. CASE AgentStart \/ Create \/ LatestCheckpoint \/ BeginStep
    <3>1. /\ UNCHANGED <<work, saved>>
          /\ agent.pc \notin {"call", "save"} /\ agent'.pc \notin {"call", "save"}
          /\ agent'.pc # "work" \/ run' # Nil
      BY <1>2, <2>0, <2>6, AgentSteps, ItemSteps DEF past, Create
    <3>2. failures' >= failures
      BY <1>2, <2>5, <2>6, AgentSteps, ItemSteps
    <3>3. QED
      BY <2>2, <2>3, <2>4, <3>1, <3>2 DEF RedoStep
  <2>7. CASE Attach \/ Finish \/ CancelOnError \/ CallFails \/ Unreachable
    <3>1. /\ UNCHANGED <<work, saved>>
          /\ agent'.pc \notin {"work", "call", "save"}
          /\ \/ failures' = failures + 1
             \/ UNCHANGED failures /\ (agent.pc \in {"work", "call", "save"} => run = Nil)
      BY <1>2, <2>0, <2>7, AgentSteps DEF past
    <3>2. Redone' = Redone /\ Counted' = 0 /\ Counted' <= Counted
      BY <2>2, <2>4, <3>1
    <3>3. agent.pc = "call" => run # Nil
      BY <2>0 DEF ControlOK
    <3>4. agent.pc = "save" /\ run = Nil => Counted = 1
      BY DEF Counted, If
    <3>5. CASE failures' = failures + 1
      BY <3>2, <3>5 DEF RedoStep
    <3>6. CASE UNCHANGED failures /\ Counted = 1
      BY <3>2, <3>6 DEF RedoStep
    <3>7. CASE UNCHANGED failures /\ agent.pc \notin {"call", "save"}
      <4>1. ToRepeat' = ToRepeat
        BY <2>3, <3>1, <3>7
      <4>2. QED
        BY <2>5, <3>2, <3>7, <4>1 DEF RedoStep
    <3>8. QED
      BY <3>1, <3>3, <3>4, <3>5, <3>6, <3>7
  <2>8. CASE \/ DoWork
             \/ ProxyCall /\ agent'.pc = "call"
    <3>1. /\ agent.pc = "work" /\ Done(agent.i) /\ agent.i < Total /\ UNCHANGED failures
          /\ agent'.pc \in {"call", "save"}
          /\ agent'.pc = "call" \/ run' = run
      BY <1>2, <2>0, <2>8, ItemSteps DEF ControlOK, LeftPCs
    <3>2. agent.i = saved /\ agent.i \in Items
      BY <1>2, <2>0, <2>1, <3>1 DEF ItemInv, TypeOK, Items
    <3>3. Redone' = Redone + ToRepeat
      <4>1. Redone' = Redone + If(work[agent.i] > 0)
        BY <2>0, <3>1, WorkCounted
      <4>2. ToRepeat = If(work[agent.i] > 0)
        BY <3>1, <3>2 DEF ToRepeat
      <4>3. QED
        BY <4>1, <4>2
    <3>4. ToRepeat' = 0
      BY <3>1 DEF ToRepeat, If
    <3>5. Counted' <= Counted
      <4>1. CASE agent'.pc = "call"
        BY <2>4, <4>1
      <4>2. CASE run' = run
        BY <3>1, <4>2 DEF Counted, If
      <4>3. QED
        BY <3>1, <4>1, <4>2
    <3>6. QED
      BY <3>1, <3>3, <3>4, <3>5 DEF RedoStep
  <2>9. CASE ProxyCall /\ agent'.pc # "call"
    <3>1. /\ UNCHANGED <<work, saved, failures>> /\ agent.pc = "work"
          /\ agent'.pc \in {"off", "cancel", "refused"}
      BY <1>2, <2>0, <2>9, ItemSteps
    <3>2. QED
      BY <2>2, <2>3, <2>4, <2>5, <3>1 DEF RedoStep
  <2>10. CASE CallReturns
    <3>1. /\ UNCHANGED <<work, saved>> /\ agent.pc = "call" /\ run' # Nil
          /\ \/ agent'.pc = "save" /\ UNCHANGED failures
             \/ failures' = failures + 1
      BY <1>2, <2>0, <2>10, ItemSteps DEF past
    <3>2. QED
      BY <2>2, <2>3, <2>4, <2>5, <3>1 DEF RedoStep
  <2>11. CASE SaveCheckpoint
    <3>1. agent.pc = "save" /\ UNCHANGED work /\ agent'.pc \in {"off", "cancel", "refused", "loop"}
      BY <1>2, <2>0, <2>11, ItemSteps
    <3>2. Redone' = Redone /\ Counted' = 0
      BY <2>2, <2>4, <3>1
    <3>3. CASE run = Nil
      <4>1. UNCHANGED failures /\ Counted = 1
        BY <1>2, <2>11, <3>1, <3>3, ItemSteps DEF Counted, If
      <4>2. QED
        BY <3>2, <4>1 DEF RedoStep
    <3>4. CASE run # Nil
      <4>1. saved' = agent.i + 1 /\ agent.i = saved /\ (failures' = failures + 1 \/ UNCHANGED failures)
        BY <1>2, <2>1, <2>11, <3>1, <3>4, ItemSteps DEF ItemInv
      <4>2. saved \in Nat
        BY <2>0 DEF TypeOK
      <4>3. saved' \in Items => work'[saved'] = 0
        BY <1>2, <2>1, <3>1, <4>1, <4>2 DEF ItemInv
      <4>4. ToRepeat' = 0
        BY <4>3 DEF ToRepeat, If
      <4>5. failures' >= failures
        BY <2>5, <4>1
      <4>6. QED
        BY <3>2, <4>4, <4>5 DEF RedoStep
    <3>5. QED
      BY <3>3, <3>4
  <2>12. CASE OrphanReturns
    <3>1. UNCHANGED <<agent, work, saved, failures>> /\ run' # Nil
      BY <1>2, <2>12, DaemonSteps DEF past
    <3>2. QED
      BY <2>2, <2>3, <2>4, <2>5, <3>1 DEF RedoStep
  <2>13. CASE AgentKill
    <3>1. UNCHANGED work /\ failures' = failures + 1 /\ agent'.pc = "off"
      BY <1>2, <2>13, DaemonSteps DEF past
    <3>2. QED
      BY <2>2, <2>4, <3>1 DEF RedoStep
  <2>14. CASE DaemonCrash
    <3>1. /\ UNCHANGED <<work, saved>> /\ failures' = failures + 1
          /\ agent'.pc \in {"off", "cancel", "refused"} \/ UNCHANGED agent
      BY <1>2, <2>0, <2>14, DaemonSteps DEF past
    <3>2. QED
      BY <2>2, <2>3, <2>4, <3>1 DEF RedoStep
  <2>15. CASE DaemonStart
    <3>1. UNCHANGED <<agent, work, saved, failures>> /\ run = Nil
      BY <1>2, <2>15, DaemonSteps DEF past
    <3>2. Counted' <= Counted
      BY <3>1 DEF Counted, If
    <3>3. QED
      BY <2>2, <2>3, <2>5, <3>1, <3>2 DEF RedoStep
  <2>16. \/ AgentStart \/ Create \/ LatestCheckpoint \/ BeginStep
         \/ Attach \/ Finish \/ CancelOnError \/ CallFails \/ Unreachable
         \/ DoWork \/ ProxyCall \/ CallReturns \/ SaveCheckpoint
         \/ OrphanReturns \/ AgentKill \/ DaemonCrash \/ DaemonStart
    BY <1>2 DEF Next, AgentNext
  <2>17. QED
    BY <2>6, <2>7, <2>8, <2>9, <2>10, <2>11, <2>12, <2>13, <2>14, <2>15, <2>16
<1>3. ASSUME RedoInv, UNCHANGED vars PROVE RedoInv'
  BY <1>3 DEF RedoInv, Redone, WorkDone, ToRepeat, Counted, vars, agents, daemon, past
<1>4. QED
  BY <1>1, <1>2, <1>3

\* Each kill, crash, lost answer or provider error makes the agent do at most one
\* item again, as long as no checkpoint of the daemon's own lay over the agent's
\* when it resumed (checkpoint, resume_run).
THEOREM RedoneOncePerFailureHolds == Spec => []RedoneOncePerFailure
<1>1. ASSUME TypeInv, RedoInv PROVE RedoneOncePerFailure
  <2>1. Redone \in Int /\ ToRepeat \in {0, 1} /\ Counted \in {0, 1} /\ failures \in Nat
    BY <1>1, WorkCounted, CreditTypes DEF TypeInv, TypeOK
  <2>2. QED
    BY <1>1, <2>1 DEF RedoInv, RedoneOncePerFailure
<1>2. QED
  BY <1>1, TypeInvInductive, ItemInvInductive, RedoInvInductive, PTL DEF Spec

----------------------------------------------------------------------------
(* The loop budget.                                                        *)

\* The agent has begun an iteration and not done its item; it has done the item and
\* not saved its cursor.
Begun   == If(agent.pc = "work")
Unsaved == If(agent.pc \in {"call", "save"})

\* Every item that was done is an iteration of the row, but for the ones a failure
\* took back; and the checkpoint the row may be rolled back to lacks, beyond them,
\* the item at hand.
LoopInv ==
    /\ row = Nil => WorkDone = 0
    /\ row # Nil => WorkDone + Begun <= row.loops + failures
    /\ cp # Nil => WorkDone + Counted <= cp.usage.loops + failures + Unsaved

\* The numbers the loop budget's invariant compares.
LEMMA LoopTypes ==
    /\ TypeOK => /\ WorkDone \in Int /\ failures \in Int
                 /\ Begun \in {0, 1} /\ Unsaved \in {0, 1} /\ Counted \in {0, 1}
                 /\ row # Nil => row.loops \in Int
                 /\ cp # Nil => cp.usage.loops \in Int
    /\ TypeOK' => /\ WorkDone' \in Int /\ failures' \in Int
                  /\ Begun' \in {0, 1} /\ Unsaved' \in {0, 1} /\ Counted' \in {0, 1}
                  /\ row' # Nil => row'.loops \in Int
                  /\ cp' # Nil => cp'.usage.loops \in Int
<1>1. IsFiniteSet(Items)
  BY FS_Interval, SessionAssumption DEF Items
<1>2. TypeOK => WorkDone \in Int
  BY <1>1, SumType DEF TypeOK, WorkDone
<1>3. TypeOK' => WorkDone' \in Int
  BY <1>1, SumType DEF TypeOK, WorkDone
<1>4. /\ Begun \in {0, 1} /\ Unsaved \in {0, 1} /\ Counted \in {0, 1}
      /\ Begun' \in {0, 1} /\ Unsaved' \in {0, 1} /\ Counted' \in {0, 1}
  BY DEF Begun, Unsaved, Counted, If
<1>5. TypeOK => /\ row # Nil => row.loops \in Int
                /\ cp # Nil => cp.usage.loops \in Int
                /\ failures \in Int
  BY DEF TypeOK, Rows, Checkpoints
<1>6. TypeOK' => /\ row' # Nil => row'.loops \in Int
                 /\ cp' # Nil => cp'.usage.loops \in Int
                 /\ failures' \in Int
  BY DEF TypeOK, Rows, Checkpoints
<1>7. QED
  BY <1>2, <1>3, <1>4, <1>5, <1>6

\* The account of the iterations is inductive.
LEMMA LoopInvInductive ==
    /\ Init => LoopInv
    /\ TypeInv /\ LoopInv /\ [Next]_vars => LoopInv'
<1>1. ASSUME Init PROVE LoopInv
  <2>1. IsFiniteSet(Items) /\ work \in [Items -> Nat] /\ \A i \in Items : work[i] = 0
    BY <1>1, FS_Interval, SessionAssumption DEF Items, Init
  <2>2. WorkDone = 0
    BY <2>1, SumOfZeros DEF WorkDone
  <2>3. QED
    BY <1>1, <2>2 DEF Init, LoopInv
<1>2. ASSUME TypeInv, LoopInv, Next PROVE LoopInv'
  <2>0. /\ TypeOK /\ TypeOK' /\ ControlOK /\ LeftPCs = {"off", "cancel", "refused"}
    BY <1>2, TypeInvInductive DEF TypeInv, LeftPCs
  <2>1. /\ WorkDone \in Int /\ failures \in Int
        /\ Begun \in {0, 1} /\ Unsaved \in {0, 1} /\ Counted \in {0, 1}
        /\ row # Nil => row.loops \in Int
        /\ cp # Nil => cp.usage.loops \in Int
    BY <2>0, LoopTypes
  <2>2. /\ WorkDone' \in Int /\ failures' \in Int
        /\ Begun' \in {0, 1} /\ Unsaved' \in {0, 1} /\ Counted' \in {0, 1}
        /\ row' # Nil => row'.loops \in Int
        /\ cp' # Nil => cp'.usage.loops \in Int
    BY <2>0, LoopTypes
  <2>3. UNCHANGED work => WorkDone' = WorkDone
    BY <2>0, WorkCounted
  <2>4. /\ Begun = (IF agent.pc = "work" THEN 1 ELSE 0)
        /\ Begun' = (IF agent'.pc = "work" THEN 1 ELSE 0)
        /\ Unsaved = (IF agent.pc \in {"call", "save"} THEN 1 ELSE 0)
        /\ Unsaved' = (IF agent'.pc \in {"call", "save"} THEN 1 ELSE 0)
    BY DEF Begun, Unsaved, If
  <2>5. /\ agent'.pc \notin {"work", "save"} \/ run' # Nil => Counted' = 0
        /\ agent.pc \in {"work", "save"} /\ run = Nil => Counted = 1
    BY DEF Counted, If
  <2>6. /\ row = Nil => WorkDone = 0
        /\ row # Nil => WorkDone + Begun <= row.loops + failures
        /\ cp # Nil => WorkDone + Counted <= cp.usage.loops + failures + Unsaved
    BY <1>2 DEF LoopInv
  <2>7. SUFFICES /\ row' = Nil => WorkDone' = 0
                 /\ row' # Nil => WorkDone' + Begun' <= row'.loops + failures'
                 /\ cp' # Nil => WorkDone' + Counted' <= cp'.usage.loops + failures' + Unsaved'
    BY DEF LoopInv
  <2>8. CASE AgentStart \/ LatestCheckpoint
    <3>1. UNCHANGED <<run, row, cp, work>> /\ agent.pc \notin {"work", "call", "save"}
      BY <1>2, <2>8, AgentSteps DEF past
    <3>2. agent'.pc \notin {"work", "call", "save"}
      BY <1>2, <2>0, <2>8, AgentSteps
    <3>3. failures' >= failures
      BY <1>2, <2>1, <2>8, AgentSteps
    <3>4. WorkDone' = WorkDone /\ Begun' = 0 /\ Begun = 0 /\ Unsaved' = 0 /\ Unsaved = 0 /\ Counted' = 0
      BY <2>3, <2>4, <2>5, <3>1, <3>2
    <3>5. QED
      BY <2>1, <2>2, <2>6, <3>1, <3>3, <3>4
  <2>9. CASE Create
    <3>1. /\ ~known /\ UNCHANGED work /\ cp' = Nil /\ agent'.pc \in {"loop", "off"}
          /\ row' = row \/ row'.loops = 0
      BY <1>2, <2>9, AgentSteps DEF past
    <3>2. IsFiniteSet(Items) /\ work \in [Items -> Nat] /\ \A i \in Items : work[i] = 0
      <4>1. IsFiniteSet(Items)
        BY FS_Interval, SessionAssumption DEF Items
      <4>2. work \in [Items -> Nat] /\ \A i \in Items : work[i] = 0
        BY <2>0, <3>1 DEF TypeOK, ControlOK
      <4>3. QED
        BY <4>1, <4>2
    <3>3. WorkDone = 0
      BY <3>2, SumOfZeros DEF WorkDone
    <3>4. WorkDone' = 0 /\ Begun' = 0
      BY <2>3, <2>4, <3>1, <3>3
    <3>5. failures' >= 0 /\ (row' # Nil => row'.loops >= 0)
      BY <2>0 DEF TypeOK, Rows
    <3>6. QED
      BY <2>2, <3>1, <3>4, <3>5
  <2>10. CASE Attach \/ Finish \/ CancelOnError \/ CallFails \/ Unreachable
    <3>1. /\ UNCHANGED <<cp, work>> /\ agent'.pc \notin {"work", "call", "save"}
          /\ \/ failures' = failures + 1
             \/ UNCHANGED failures /\ (agent.pc \in {"work", "call", "save"} => run = Nil)
      BY <1>2, <2>0, <2>10, AgentSteps DEF past
    <3>2. (row' = Nil <=> row = Nil) /\ (row # Nil => row'.loops = row.loops)
      BY <1>2, <2>0, <2>10, AgentSteps DEF SameLoops
    <3>3. agent.pc = "call" => run # Nil
      BY <2>0 DEF ControlOK
    <3>4. WorkDone' = WorkDone /\ Begun' = 0 /\ Unsaved' = 0 /\ Counted' = 0
      BY <2>3, <2>4, <2>5, <3>1
    <3>5. failures' = failures + 1 \/ (failures' = failures /\ (Counted = 1 \/ Unsaved = 0))
      BY <2>4, <2>5, <3>1, <3>3
    <3>6. QED
      BY <2>1, <2>2, <2>6, <3>1, <3>2, <3>4, <3>5
  <2>11. CASE BeginStep
    <3>1. /\ UNCHANGED <<cp, work>> /\ agent.pc = "loop" /\ row # Nil /\ row' # Nil
          /\ \/ agent'.pc \in LeftPCs /\ row'.loops >= row.loops /\ failures' >= failures
             \/ agent'.pc = "work" /\ run' # Nil /\ row'.loops = row.loops + 1 /\ failures' = failures
      BY <1>2, <2>11, ItemSteps DEF past
    <3>2. WorkDone' = WorkDone /\ Begun = 0 /\ Unsaved = 0 /\ Unsaved' = 0 /\ Counted' = 0
      BY <2>0, <2>3, <2>4, <2>5, <3>1
    <3>3. Begun' = 0 \/ agent'.pc = "work"
      BY <2>4
    <3>4. QED
      BY <2>0, <2>1, <2>2, <2>6, <3>1, <3>2, <3>3
  <2>12. CASE DoWork
    <3>1. /\ agent.pc = "work" /\ agent'.pc = "save" /\ Done(agent.i) /\ agent.i < Total
          /\ UNCHANGED <<run, row, cp, failures>> /\ row # Nil
      BY <1>2, <2>0, <2>12, ItemSteps DEF ControlOK
    <3>2. WorkDone' = WorkDone + 1
      BY <2>0, <3>1, WorkCounted
    <3>3. Begun = 1 /\ Begun' = 0 /\ Unsaved = 0 /\ Unsaved' = 1
      BY <2>4, <3>1
    <3>4. Counted' = Counted
      BY <3>1 DEF Counted
    <3>5. QED
      BY <2>1, <2>2, <2>6, <3>1, <3>2, <3>3, <3>4
  <2>13. CASE ProxyCall
    <3>1. /\ agent.pc = "work" /\ agent.i < Total /\ known
          /\ row # Nil /\ row' # Nil /\ run' # Nil /\ UNCHANGED <<cp, failures>>
          /\ \/ agent'.pc \in LeftPCs /\ UNCHANGED work /\ row'.loops >= Found.loops
             \/ agent'.pc = "call" /\ Done(agent.i) /\ row'.loops = Found.loops + 1
      BY <1>2, <2>0, <2>13, ItemSteps DEF ControlOK
    <3>2. Begun = 1 /\ Begun' = 0 /\ Unsaved = 0 /\ Counted' = 0
      BY <2>0, <2>4, <2>5, <3>1
    <3>3. /\ Found.loops \in Int
          /\ Found.loops = row.loops \/ (Counted = 1 /\ cp # Nil /\ Found.loops = cp.usage.loops)
      BY <2>0, <2>5, <3>1, FoundRun DEF LiveRuns
    <3>4. WorkDone + Begun <= Found.loops + failures \/ WorkDone + 1 <= Found.loops + failures
      BY <2>1, <2>6, <3>1, <3>2, <3>3
    <3>5. CASE agent'.pc \in LeftPCs /\ UNCHANGED work /\ row'.loops >= Found.loops
      <4>1. WorkDone' = WorkDone /\ Unsaved' = 0
        BY <2>0, <2>3, <2>4, <3>5
      <4>2. QED
        BY <2>1, <2>2, <2>6, <3>1, <3>2, <3>3, <3>4, <3>5, <4>1
    <3>6. CASE agent'.pc = "call" /\ Done(agent.i) /\ row'.loops = Found.loops + 1
      <4>1. WorkDone' = WorkDone + 1 /\ Unsaved' = 1
        BY <2>0, <2>4, <3>1, <3>6, WorkCounted
      <4>2. QED
        BY <2>1, <2>2, <2>6, <3>1, <3>2, <3>3, <3>4, <3>6, <4>1
    <3>7. QED
      BY <3>1, <3>5, <3>6
  <2>14. CASE CallReturns
    <3>1. /\ agent.pc = "call" /\ row # Nil /\ run' # Nil /\ UNCHANGED work
          /\ cp' # Nil /\ cp'.usage.loops = row.loops
          /\ agent'.pc # "work" /\ failures' >= failures
      BY <1>2, <2>0, <2>1, <2>14, ItemSteps DEF past
    <3>2. (row' = Nil <=> row = Nil) /\ (row # Nil => row'.loops = row.loops)
      BY <1>2, <2>14, ItemSteps DEF SameLoops
    <3>3. WorkDone' = WorkDone /\ Begun' = 0 /\ Counted' = 0
      BY <2>3, <2>4, <2>5, <3>1
    <3>4. QED
      BY <2>1, <2>2, <2>6, <3>1, <3>2, <3>3
  <2>15. CASE SaveCheckpoint
    <3>1. /\ agent.pc = "save" /\ UNCHANGED <<row, work>> /\ row # Nil
          /\ agent'.pc \notin {"work", "call", "save"} /\ failures' >= failures
          /\ \/ run = Nil /\ UNCHANGED cp
             \/ cp' # Nil /\ cp'.usage.loops = row.loops
      BY <1>2, <2>0, <2>1, <2>15, ItemSteps
    <3>2. WorkDone' = WorkDone /\ Begun' = 0 /\ Counted' = 0 /\ Unsaved' = 0
      BY <2>3, <2>4, <2>5, <3>1
    <3>3. run = Nil => Counted = 1
      BY <2>5, <3>1
    <3>4. QED
      BY <2>1, <2>2, <2>6, <3>1, <3>2, <3>3
  <2>16. CASE OrphanReturns
    <3>1. /\ UNCHANGED <<agent, work, failures>> /\ row # Nil /\ run' # Nil
          /\ UNCHANGED cp \/ (cp' # Nil /\ cp'.usage.loops = row.loops)
      BY <1>2, <2>16, DaemonSteps DEF past
    <3>2. (row' = Nil <=> row = Nil) /\ (row # Nil => row'.loops = row.loops)
      BY <1>2, <2>16, DaemonSteps DEF SameLoops
    <3>3. WorkDone' = WorkDone /\ Begun' = Begun /\ Unsaved' = Unsaved /\ Counted' = 0
      BY <2>3, <2>4, <2>5, <3>1
    <3>4. QED
      BY <2>1, <2>2, <2>6, <3>1, <3>2, <3>3
  <2>17. CASE AgentKill
    <3>1. UNCHANGED <<row, cp, work>> /\ failures' = failures + 1 /\ agent'.pc = "off"
      BY <1>2, <2>17, DaemonSteps DEF past
    <3>2. WorkDone' = WorkDone /\ Begun' = 0 /\ Counted' = 0 /\ Unsaved' = 0
      BY <2>3, <2>4, <2>5, <3>1
    <3>3. QED
      BY <2>1, <2>2, <2>6, <3>1, <3>2
  <2>18. CASE DaemonCrash
    <3>1. /\ UNCHANGED <<row, cp, work>> /\ failures' = failures + 1
          /\ \/ agent.pc = "call" /\ agent'.pc \in LeftPCs
             \/ agent'.pc = agent.pc
      BY <1>2, <2>18, DaemonSteps DEF past
    <3>2. WorkDone' = WorkDone
      BY <2>3, <3>1
    <3>3. Begun' <= Begun /\ (Unsaved' = Unsaved \/ (Unsaved' = 0 /\ Counted' = 0))
      BY <2>0, <2>4, <2>5, <3>1
    <3>4. QED
      BY <2>1, <2>2, <2>6, <3>1, <3>2, <3>3
  <2>19. CASE DaemonStart
    <3>1. /\ UNCHANGED <<agent, cp, work, failures>> /\ run = Nil /\ (row' = Nil <=> row = Nil)
          /\ \/ row' = row
             \/ row'.loops = row.loops \/ (cp # Nil /\ row'.loops = cp.usage.loops)
      BY <1>2, <2>19, DaemonSteps DEF past
    <3>2. WorkDone' = WorkDone /\ Begun' = Begun /\ Unsaved' = Unsaved
      BY <2>3, <2>4, <3>1
    <3>3. Counted' <= Counted
      BY <3>1 DEF Counted, If
    <3>4. agent.pc # "call"
      BY <2>0, <3>1 DEF ControlOK
    <3>5. Begun + Unsaved <= Counted
      BY <2>1, <2>4, <2>5, <3>1, <3>4
    <3>6. QED
      BY <2>1, <2>2, <2>6, <3>1, <3>2, <3>3, <3>5
  <2>20. \/ AgentStart \/ Create \/ LatestCheckpoint \/ BeginStep
         \/ Attach \/ Finish \/ CancelOnError \/ CallFails \/ Unreachable
         \/ DoWork \/ ProxyCall \/ CallReturns \/ SaveCheckpoint
         \/ OrphanReturns \/ AgentKill \/ DaemonCrash \/ DaemonStart
    BY <1>2 DEF Next, AgentNext
  <2>21. QED
    BY <2>8, <2>9, <2>10, <2>11, <2>12, <2>13, <2>14, <2>15, <2>16, <2>17, <2>18, <2>19, <2>20
<1>3. ASSUME LoopInv, UNCHANGED vars PROVE LoopInv'
  BY <1>3 DEF LoopInv, WorkDone, Begun, Unsaved, Counted, vars, agents, daemon, past
<1>4. QED
  BY <1>1, <1>2, <1>3

\* No row and no checkpoint has more iterations than the budget allows.
LoopsBounded ==
    Budget.loops > 0 => /\ row # Nil => row.loops <= Budget.loops
                        /\ cp # Nil => cp.usage.loops <= Budget.loops

\* PreStep counts an iteration only below the limit, and a restore takes a count
\* that was within it.
LEMMA LoopsBoundedInductive ==
    /\ Init => LoopsBounded
    /\ TypeInv /\ LoopsBounded /\ [Next]_vars => LoopsBounded'
<1>1. ASSUME Init PROVE LoopsBounded
  BY <1>1 DEF Init, LoopsBounded
<1>2. ASSUME TypeInv, LoopsBounded, Next, Budget.loops > 0
      PROVE  /\ row' # Nil => row'.loops <= Budget.loops
             /\ cp' # Nil => cp'.usage.loops <= Budget.loops
  <2>0. TypeOK /\ ControlOK
    BY <1>2 DEF TypeInv
  <2>1. /\ row # Nil => row.loops <= Budget.loops
        /\ cp # Nil => cp.usage.loops <= Budget.loops
    BY <1>2 DEF LoopsBounded
  <2>2. SameLoops => (row' = Nil <=> row = Nil) /\ (row # Nil => row'.loops = row.loops)
    BY DEF SameLoops
  <2>3. CASE AgentStart \/ LatestCheckpoint \/ DoWork \/ AgentKill \/ DaemonCrash
    <3>1. UNCHANGED <<row, cp>>
      BY <1>2, <2>3, AgentSteps, ItemSteps, DaemonSteps
    <3>2. QED
      BY <2>1, <3>1
  <2>4. CASE Create
    <3>1. cp' = Nil /\ (row' = row \/ row'.loops = 0)
      BY <1>2, <2>4, AgentSteps
    <3>2. Budget.loops \in Nat
      BY BudgetAssumption
    <3>3. QED
      BY <2>1, <3>1, <3>2
  <2>5. CASE Attach \/ Finish \/ CancelOnError \/ CallFails \/ Unreachable
    <3>1. SameLoops /\ UNCHANGED cp
      BY <1>2, <2>5, AgentSteps
    <3>2. QED
      BY <2>1, <2>2, <3>1
  <2>6. CASE BeginStep
    <3>1. row # Nil /\ UNCHANGED cp /\ (row.loops <= Budget.loops => row'.loops <= Budget.loops)
      BY <1>2, <2>6, ItemSteps
    <3>2. QED
      BY <2>1, <3>1
  <2>7. CASE ProxyCall
    <3>1. known /\ row # Nil /\ UNCHANGED cp /\ (Found.loops <= Budget.loops => row'.loops <= Budget.loops)
      BY <1>2, <2>0, <2>7, ItemSteps DEF ControlOK
    <3>2. Found.loops <= Budget.loops
      BY <2>0, <2>1, <3>1, FoundRun
    <3>3. QED
      BY <2>1, <3>1, <3>2
  <2>8. CASE CallReturns \/ OrphanReturns
    <3>1. SameLoops /\ row # Nil /\ (UNCHANGED cp \/ cp'.usage.loops = row.loops)
      BY <1>2, <2>8, ItemSteps, DaemonSteps
    <3>2. QED
      BY <2>1, <2>2, <3>1
  <2>9. CASE SaveCheckpoint
    <3>1. UNCHANGED row /\ row # Nil /\ (UNCHANGED cp \/ cp'.usage.loops = row.loops)
      BY <1>2, <2>9, ItemSteps
    <3>2. QED
      BY <2>1, <3>1
  <2>10. CASE DaemonStart
    <3>1. /\ UNCHANGED cp
          /\ \/ UNCHANGED row
             \/ row # Nil /\ row'.loops = row.loops
             \/ cp # Nil /\ row'.loops = cp.usage.loops
      BY <1>2, <2>10, DaemonSteps
    <3>2. QED
      BY <2>1, <3>1
  <2>11. \/ AgentStart \/ Create \/ LatestCheckpoint \/ BeginStep
         \/ Attach \/ Finish \/ CancelOnError \/ CallFails \/ Unreachable
         \/ DoWork \/ ProxyCall \/ CallReturns \/ SaveCheckpoint
         \/ OrphanReturns \/ AgentKill \/ DaemonCrash \/ DaemonStart
    BY <1>2 DEF Next, AgentNext
  <2>12. QED
    BY <2>3, <2>4, <2>5, <2>6, <2>7, <2>8, <2>9, <2>10, <2>11
<1>3. ASSUME LoopsBounded, UNCHANGED vars PROVE LoopsBounded'
  BY <1>3 DEF LoopsBounded, vars, daemon
<1>4. QED
  BY <1>1, <1>2, <1>3 DEF LoopsBounded

\* The loop budget bounds the work over all restarts (PreStep, Reload): an agent does
\* no more items than the budget has iterations, but for one to each failure.
THEOREM WorkWithinLoopsHolds == Spec => []WorkWithinLoops
<1>1. ASSUME TypeInv, LoopInv, LoopsBounded PROVE WorkWithinLoops
  <2>1. /\ WorkDone \in Int /\ failures \in Nat /\ Begun \in {0, 1}
        /\ row # Nil => row.loops \in Int
        /\ Budget.loops \in Nat
    BY <1>1, LoopTypes, BudgetAssumption DEF TypeInv, TypeOK
  <2>2. QED
    BY <1>1, <2>1 DEF LoopInv, LoopsBounded, WorkWithinLoops
<1>2. QED
  BY <1>1, TypeInvInductive, LoopInvInductive, LoopsBoundedInductive, PTL DEF Spec
=============================================================================

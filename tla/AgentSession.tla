---------------------------- MODULE AgentSession ----------------------------
(***************************************************************************)
(* An agent that uses an SDK (sdks/python, sdks/typescript) against one    *)
(* daemon: it opens a governed run or attaches to the one it had, reads    *)
(* the latest checkpoint for the cursor of its work and goes through the   *)
(* rest of its items, one step and one checkpoint for each, as resume_run  *)
(* documents it.  The work of an item is the agent's own, or a model call  *)
(* through the proxy under the run's id.  The agent is killed, the daemon  *)
(* is killed, answers get lost; both are started again.                    *)
(*                                                                         *)
(* A handler is one step here: GovernedRun has its statements one by one   *)
(* and the requests that run beside it.  There is no time budget.          *)
(***************************************************************************)
EXTENDS RunRecords, FiniteSets, Functions

CONSTANTS
    Total,         \* the items of the agent's work
    CallCost,      \* what one model call is charged
    MaxFailures    \* bound: kills, crashes, lost answers and provider errors

ASSUME SessionAssumption ==
    /\ Total \in Nat /\ MaxFailures \in Nat
    /\ CallCost \in Charges
    /\ Budget.seconds = 0
    /\ Nil \notin LiveRuns /\ Nil \notin Rows
    /\ Nil \notin [usage : Checkpoints, cursor : Int]

VARIABLES
    sdk,        \* which SDK the agent is written with
    agent,      \* the agent process
    known,      \* the agent has kept the id of its run
    up,         \* the daemon is running
    run,        \* the daemon's live run, or Nil
    row,        \* the runs row, or Nil
    cp,         \* the latest checkpoint of the run, or Nil
    orphans,    \* model calls under way whose caller is gone
    work,       \* history: how often the work of each item was done
    saved,      \* history: the cursor the agent saved last
    masked,     \* history: a resume found a checkpoint of the daemon over it
    failures

daemon == <<up, run, row, cp, orphans>>
agents == <<agent, known>>
past   == <<work, saved, masked>>
vars   == <<sdk, agents, daemon, past, failures>>

Items    == 0 .. (Total - 1)
NoCursor == -1                     \* a checkpoint whose payload is empty

PCs == {"off", "create", "attach", "latest", "loop", "work", "call", "save",
        "cancel", "done", "refused"}
Off == [pc |-> "off", mode |-> "fresh", i |-> 0]

TypeOK ==
    /\ sdk \in {"python", "typescript"}
    /\ agent \in [pc : PCs, mode : {"fresh", "resume"}, i : 0 .. Total]
    /\ known \in BOOLEAN /\ up \in BOOLEAN
    /\ run \in LiveRuns \cup {Nil} /\ row \in Rows \cup {Nil}
    /\ cp = Nil \/ cp \in [usage : Checkpoints, cursor : NoCursor .. Total]
    /\ orphans \in 0 .. MaxFailures
    /\ work \in [Items -> Nat] /\ saved \in 0 .. Total /\ masked \in BOOLEAN
    /\ failures \in 0 .. MaxFailures

Init ==
    /\ sdk \in {"python", "typescript"}
    /\ agent = Off /\ known = FALSE
    /\ up = TRUE /\ run = Nil /\ row = Nil /\ cp = Nil /\ orphans = 0
    /\ work = [i \in Items |-> 0] /\ saved = 0 /\ masked = FALSE
    /\ failures = 0

----------------------------------------------------------------------------
\* The agent goes on, or its process ends.
Goto(pc) == agent' = [agent EXCEPT !.pc = pc]

\* An exception out of the body: governed_run cancels the run and raises,
\* resume_run only raises.  An agent that is told that its run is halted (402)
\* or gone (404) does not come back.
Raised(final) ==
    Goto(IF agent.mode = "fresh" THEN "cancel" ELSE IF final THEN "refused" ELSE "off")

Fails == failures < MaxFailures /\ failures' = failures + 1

\* _request: the answer arrives, or it is lost although the daemon did what was
\* asked (the client's timeout, a connection that breaks).
Answered(pc) == \/ Goto(pc) /\ UNCHANGED failures
                \/ Raised(FALSE) /\ Fails

\* connection_error
Unreachable ==
    /\ ~up /\ agent.pc \in {"attach", "latest", "loop", "work", "save"}
    /\ Raised(FALSE)
    /\ UNCHANGED <<sdk, known, daemon, past, failures>>

----------------------------------------------------------------------------
\* The program is started: with a run id it resumes, without one it begins.
AgentStart ==
    /\ agent.pc = "off"
    /\ agent' = IF known THEN [pc |-> "attach", mode |-> "resume", i |-> 0]
                         ELSE [pc |-> "create", mode |-> "fresh", i |-> 0]
    /\ UNCHANGED <<sdk, known, daemon, past, failures>>

\* governed_run: create_run is outside the try, so that nothing is cancelled when
\* it fails.  A run whose id got lost is never used; the next one replaces it.
Create ==
    /\ agent.pc = "create"
    /\ \/ /\ up
          /\ run' = NewRun /\ row' = Record(NewRun) /\ cp' = Nil
          /\ \/ Goto("loop") /\ known' = TRUE /\ UNCHANGED failures
             \/ Goto("off") /\ Fails /\ UNCHANGED known
       \/ /\ ~up /\ Goto("off")
          /\ UNCHANGED <<known, run, row, cp, failures>>
    /\ UNCHANGED <<sdk, up, orphans, past>>

\* resume_run: GET /v1/runs/{id} reads the row, whatever its status.
Attach ==
    /\ agent.pc = "attach" /\ up
    /\ row # Nil
    /\ Answered("latest")
    /\ UNCHANGED <<sdk, known, daemon, past>>

\* Mutant of LatestCheckpoint: the 404 of a run without a checkpoint is raised.
LatestCheckpointRaising ==
    /\ agent.pc = "latest" /\ up
    /\ IF cp = Nil THEN Raised(FALSE) /\ UNCHANGED <<masked, failures>>
       ELSE \/ /\ Fails /\ Raised(FALSE) /\ UNCHANGED masked
            \/ /\ agent' = [agent EXCEPT !.pc = "loop", !.i = IF cp.cursor = NoCursor THEN 0 ELSE cp.cursor]
               /\ masked' = (masked \/ cp.cursor = NoCursor)
               /\ UNCHANGED failures
    /\ UNCHANGED <<sdk, known, daemon, work, saved>>

\* latest_checkpoint and the cursor in it: no checkpoint (404) is None and
\* begins at 0; of an empty payload cp["payload"]["cursor"] is a KeyError and
\* cp?.payload?.cursor ?? 0 is 0.
LatestCheckpoint ==
    /\ agent.pc = "latest" /\ up
    /\ \/ /\ Fails /\ Raised(FALSE) /\ UNCHANGED masked
       \/ /\ cp # Nil /\ cp.cursor = NoCursor /\ sdk = "python"
          /\ Raised(FALSE) /\ UNCHANGED <<masked, failures>>
       \/ /\ ~(cp # Nil /\ cp.cursor = NoCursor /\ sdk = "python")
          /\ LET start == IF cp = Nil \/ cp.cursor = NoCursor THEN 0 ELSE cp.cursor
             IN /\ agent' = [agent EXCEPT !.pc = "loop", !.i = start]
                /\ masked' = (masked \/ (cp # Nil /\ cp.cursor = NoCursor /\ saved > 0))
          /\ UNCHANGED failures
    /\ UNCHANGED <<sdk, known, daemon, work, saved>>

\* handleBeginStep: 404 for a run that is not live, 402 for one that may not
\* begin another iteration, whose halt is persisted.
BeginStep ==
    /\ agent.pc = "loop" /\ agent.i < Total /\ up
    /\ \/ /\ run = Nil /\ Raised(TRUE)
          /\ UNCHANGED <<run, row, failures>>
       \/ /\ run # Nil
          /\ run' = PreStep(run) /\ row' = Record(run')
          /\ IF run'.halted = HaltNone THEN Answered("work")
             ELSE Raised(TRUE) /\ UNCHANGED failures
    /\ UNCHANGED <<sdk, known, up, cp, orphans, past>>

Done(i) == work' = [work EXCEPT ![i] = @ + 1]

\* The agent's own work.
DoWork ==
    /\ agent.pc = "work"
    /\ Done(agent.i) /\ Goto("save")
    /\ UNCHANGED <<sdk, known, daemon, saved, masked, failures>>

LatestUsage == IF cp = Nil THEN Nil ELSE cp.usage

\* The run the proxy finds under the id: GetOrCreate restores one that is not
\* live from its row.
Found == IF run # Nil THEN run ELSE Reloaded(Reconciled(row, LatestUsage))

\* A model call as the work: governedCall counts an iteration of its own and
\* checks the ceiling, and the provider is called.
ProxyCall ==
    /\ agent.pc = "work" /\ up
    /\ LET g == CanProceed(PreStep(Found))
       IN /\ run' = g /\ row' = Record(g)
          /\ IF g.halted = HaltNone THEN Done(agent.i) /\ Goto("call")
             ELSE Raised(TRUE) /\ UNCHANGED work
    /\ UNCHANGED <<sdk, known, up, cp, orphans, saved, masked, failures>>

\* RecordCall: the usage, the row, and the checkpoint that the daemon takes after
\* every call, which has no payload.
RecordCall ==
    /\ run' = RecordUsage(run, CallCost) /\ row' = Record(run')
    /\ cp' = [usage |-> Snapshot(run'), cursor |-> NoCursor]

\* The provider answers the call the agent waits for.  Usage that ends the
\* budget does not take the answer away.
CallReturns ==
    /\ agent.pc = "call" /\ up
    /\ RecordCall
    /\ Answered("save")
    /\ UNCHANGED <<sdk, known, up, orphans, past>>

\* The provider fails: nothing is recorded.
CallFails ==
    /\ agent.pc = "call" /\ up
    /\ Fails /\ Raised(FALSE)
    /\ UNCHANGED <<sdk, known, daemon, past>>

\* A call whose caller is gone is cancelled with its connection, unless the
\* answer of the provider was there before.
OrphanReturns ==
    /\ up /\ orphans > 0 /\ orphans' = orphans - 1
    /\ \/ RecordCall
       \/ UNCHANGED <<run, row, cp>>
    /\ UNCHANGED <<sdk, agents, up, past, failures>>

\* Mutant of SaveCheckpoint: the row of an earlier checkpoint is kept.
SaveCheckpointOnce ==
    /\ agent.pc = "save" /\ up
    /\ \/ /\ run = Nil /\ Raised(TRUE)
          /\ UNCHANGED <<cp, saved, failures>>
       \/ /\ run # Nil
          /\ cp' = IF cp = Nil THEN [usage |-> Snapshot(run), cursor |-> agent.i + 1] ELSE cp
          /\ saved' = agent.i + 1
          /\ \/ Raised(FALSE) /\ Fails
             \/ agent' = [agent EXCEPT !.pc = "loop", !.i = @ + 1] /\ UNCHANGED failures
    /\ UNCHANGED <<sdk, known, up, run, row, orphans, work, masked>>

\* Mutant of SaveCheckpoint: the cursor is one item ahead.
SaveCheckpointAhead ==
    /\ agent.pc = "save" /\ up
    /\ \/ /\ run = Nil /\ Raised(TRUE)
          /\ UNCHANGED <<cp, saved, failures>>
       \/ /\ run # Nil
          /\ cp' = [usage |-> Snapshot(run), cursor |-> IF agent.i + 2 > Total THEN Total ELSE agent.i + 2]
          /\ saved' = agent.i + 1
          /\ \/ Raised(FALSE) /\ Fails
             \/ agent' = [agent EXCEPT !.pc = "loop", !.i = @ + 1] /\ UNCHANGED failures
    /\ UNCHANGED <<sdk, known, up, run, row, orphans, work, masked>>

\* handleSaveCheckpoint: the usage of the live run, halted or not, and the
\* agent's payload, the cursor of its next item.
SaveCheckpoint ==
    /\ agent.pc = "save" /\ up
    /\ \/ /\ run = Nil /\ Raised(TRUE)
          /\ UNCHANGED <<cp, saved, failures>>
       \/ /\ run # Nil
          /\ cp' = [usage |-> Snapshot(run), cursor |-> agent.i + 1]
          /\ saved' = agent.i + 1
          /\ \/ Raised(FALSE) /\ Fails
             \/ agent' = [agent EXCEPT !.pc = "loop", !.i = @ + 1] /\ UNCHANGED failures
    /\ UNCHANGED <<sdk, known, up, run, row, orphans, work, masked>>

\* The exception handler of governed_run: the run is cancelled if the daemon is
\* there and knows it, an error of the cancel is dropped.
CancelOnError ==
    /\ agent.pc = "cancel"
    /\ \/ /\ up /\ run # Nil
          /\ run' = Cancel(run) /\ row' = Record(run')
       \/ /\ ~up \/ run = Nil
          /\ UNCHANGED <<run, row>>
    /\ Goto("off")
    /\ UNCHANGED <<sdk, known, up, cp, orphans, past, failures>>

Finish ==
    /\ agent.pc = "loop" /\ agent.i = Total
    /\ Goto("done")
    /\ UNCHANGED <<sdk, known, daemon, past, failures>>

----------------------------------------------------------------------------
\* SIGKILL of the agent; a call it waits for loses its caller.
AgentKill ==
    /\ agent.pc \notin {"off", "done", "refused"}
    /\ Fails /\ Goto("off")
    /\ orphans' = IF agent.pc = "call" THEN orphans + 1 ELSE orphans
    /\ UNCHANGED <<sdk, known, up, run, row, cp, past>>

\* SIGKILL of the daemon: the live run and the calls under way are gone.
DaemonCrash ==
    /\ up /\ Fails
    /\ up' = FALSE /\ run' = Nil /\ orphans' = 0
    /\ IF agent.pc = "call" THEN Raised(FALSE) ELSE UNCHANGED agent
    /\ UNCHANGED <<sdk, known, row, cp, past>>

\* The daemon starts: Reload restores a run whose row says running, rolled back to
\* its latest checkpoint, and writes the row when it was.
DaemonStart ==
    /\ ~up /\ up' = TRUE
    /\ IF row # Nil /\ ~Terminal(row)
       THEN LET rec == Reconciled(row, LatestUsage)
            IN run' = Reloaded(rec) /\ row' = rec
       ELSE UNCHANGED <<run, row>>
    /\ UNCHANGED <<sdk, agents, cp, orphans, past, failures>>

AgentNext ==
    \/ AgentStart \/ Create \/ Attach \/ LatestCheckpoint \/ BeginStep
    \/ DoWork \/ ProxyCall \/ CallReturns \/ CallFails \/ SaveCheckpoint
    \/ CancelOnError \/ Finish \/ Unreachable

Next == AgentNext \/ OrphanReturns \/ AgentKill \/ DaemonCrash \/ DaemonStart

Spec == Init /\ [][Next]_vars

\* The agent runs and is run again when it failed, and the daemon is started
\* again when it is down.
FairSpec == Spec /\ WF_vars(AgentNext) /\ WF_vars(DaemonStart)

----------------------------------------------------------------------------
WorkDone == SumFunction(work)
Redone   == WorkDone - Cardinality({i \in Items : work[i] > 0})

\* Whatever is killed or lost, a resumed agent leaves no item out: what the latest
\* cursor is past has been done, and an agent that is done has done every item.
NoItemSkipped ==
    /\ cp # Nil => \A i \in Items : i < cp.cursor => work[i] > 0
    /\ agent.pc = "done" => \A i \in Items : work[i] > 0

\* As long as no checkpoint of the daemon's own lies over the agent's, each kill, crash, lost
\* answer or provider error makes the agent do at most one item again.
RedoneOncePerFailure == ~masked => Redone <= failures

\* The loop budget bounds the work over all restarts: the roll-back to the latest
\* checkpoint gives back iterations whose work was done, but never more of them
\* than there were failures, however many iterations had no checkpoint between.
WorkWithinLoops ==
    Budget.loops > 0 => WorkDone <= Budget.loops + failures

\* A python agent that finds a checkpoint without a cursor.
NoCursorToResume ==
    sdk = "python" /\ known /\ cp # Nil /\ cp.cursor = NoCursor

\* An agent that is started again whenever it failed gets to the end of its work
\* or is refused, unless the daemon's own checkpoint hides its cursor for good.
AgentFinishes == <>(agent.pc \in {"done", "refused"}) \/ <>[]NoCursorToResume
=============================================================================

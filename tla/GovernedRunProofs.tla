------------------------- MODULE GovernedRunProofs -------------------------
(***************************************************************************)
(* Theorems about GovernedRun, for every budget, every set of costs, any   *)
(* finite number of clients and any number of requests, crashes and store  *)
(* faults.                                                                 *)
(***************************************************************************)
EXTENDS GovernedRun, SharedLemmas, TLAPS, FiniteSetTheorems

----------------------------------------------------------------------------
(* Types and control.                                                      *)

TypeInv == TypeOK /\ ControlOK

\* A step of the goroutine c: nobody else's registers change, the daemon lives
\* and the run stays where it is, if there is one.
StepOf(c) ==
    /\ up /\ up'
    /\ run # Nil => run' # Nil
    /\ act' \in [Clients -> Actors]
    /\ \A d \in Clients \ {c} : act'[d] = act[d]

\* Such a step can only break what is said about c itself.
LEMMA OthersKeepControl ==
    ASSUME TypeInv, NEW c \in Clients, StepOf(c), GoroutineOK(c)'
    PROVE  ControlOK'
<1>1. ASSUME NEW d \in Clients, d # c
      PROVE  GoroutineOK(d)'
  BY <1>1 DEF TypeInv, ControlOK, GoroutineOK, StepOf
<1>2. QED
  BY <1>1 DEF ControlOK, StepOf

\* Goto moves the program counter of c and nothing else.
LEMMA GotoMoves ==
    ASSUME act \in [Clients -> Actors], NEW c \in Clients, NEW pc \in PCs, Goto(c, pc)
    PROVE  /\ act' \in [Clients -> Actors]
           /\ \A d \in Clients \ {c} : act'[d] = act[d]
           /\ act'[c] = [act[c] EXCEPT !.pc = pc]
BY DEF Goto, Actors

\* Answer leaves c idle.
LEMMA AnswerMoves ==
    ASSUME act \in [Clients -> Actors], NEW c \in Clients, NEW code \in Codes,
           NEW why \in HaltReasons \cup {HaltNone}, Answer(c, code, why)
    PROVE  /\ act' \in [Clients -> Actors]
           /\ \A d \in Clients \ {c} : act'[d] = act[d]
           /\ act'[c].pc = "idle"
<1>1. [IdleActor EXCEPT !.code = code, !.why = why, !.cut = act[c].cut] \in Actors
  BY DEF IdleActor, Actors, PCs, NoCharge, Charges
<1>2. QED
  BY <1>1 DEF Answer, IdleActor

\* A goroutine is about to start the work of an operation.
LEMMA EntryPC ==
    \A op \in Operations : Entry(op) \in {"prestep", "meter", "cp.read", "kill"}
BY ConstantsAssumption DEF Entry, AllOperations

\* The lookup of the run: Resolve and what follows a miss.
LEMMA LookupTypes ==
    ASSUME TypeInv, NEW c \in Clients,
           \/ Resolve(c) \/ RestoreFromStore(c) \/ ReloadRun(c)
           \/ UpsertRollback(c) \/ Register(c)
    PROVE  TypeInv'
<1> USE DEF TypeInv, TypeOK
<1>0. act[c] \in Actors /\ GoroutineOK(c)
  BY DEF ControlOK
<1>1. CASE Resolve(c)
  <2>1. StepOf(c) /\ GoroutineOK(c)'
    <3>1. CASE run # Nil
      <4>1. Goto(c, Entry(act[c].op)) /\ act[c].op \in Operations
        BY <1>0, <1>1, <3>1 DEF Resolve, At, GoroutineOK
      <4>2. Entry(act[c].op) \in PCs
        BY <4>1, EntryPC DEF PCs, BeginPCs, AdmittedPCs
      <4>3. StepOf(c) /\ act'[c] = [act[c] EXCEPT !.pc = Entry(act[c].op)]
        BY <1>1, <4>1, <4>2, GotoMoves DEF Resolve, At, mem, StepOf
      <4>4. act'[c].pc \in {"prestep", "meter", "cp.read", "kill"} /\ act'[c].op = act[c].op
        BY <1>0, <4>1, <4>3, EntryPC DEF Actors
      <4>5. QED
        BY <1>1, <3>1, <4>1, <4>3, <4>4 DEF GoroutineOK, UpsertPCs, StepOf
    <3>2. CASE run = Nil /\ act[c].op \in {"chat", "stream", "otlp"}
      <4>1. "restore" \in PCs /\ Goto(c, "restore")
        BY <1>1, <3>2 DEF Resolve, PCs, ResolvePCs
      <4>2. StepOf(c) /\ act'[c] = [act[c] EXCEPT !.pc = "restore"]
        BY <1>1, <4>1, GotoMoves DEF Resolve, At, mem, StepOf
      <4>3. QED
        BY <1>0, <1>1, <4>2 DEF Resolve, At, GoroutineOK, UpsertPCs, ResolvePCs, Actors
    <3>3. CASE run = Nil /\ act[c].op \notin {"chat", "stream", "otlp"}
      BY <1>0, <1>1, <3>3, AnswerMoves
      DEF Resolve, At, mem, StepOf, GoroutineOK, UpsertPCs, ResolvePCs, Codes
    <3>4. QED
      BY <3>1, <3>2, <3>3
  <2>2. QED
    BY <1>1, <2>1, OthersKeepControl DEF Resolve, StepOf, mem, store
<1>2. CASE RestoreFromStore(c)
  <2>1. StepOf(c) /\ GoroutineOK(c)'
    BY <1>0, <1>2
    DEF RestoreFromStore, At, mem, StepOf, GoroutineOK, UpsertPCs, ResolvePCs, PCs, Actors
  <2>2. faults' \in Nat
    BY <1>2 DEF RestoreFromStore, Fault
  <2>3. QED
    BY <1>2, <2>1, <2>2, OthersKeepControl DEF RestoreFromStore, StepOf, mem, store
<1>3. CASE ReloadRun(c)
  <2>1. act[c].snap \in Rows /\ act[c].pc = "reload" /\ up
    BY <1>0, <1>3 DEF ReloadRun, At, GoroutineOK
  <2>2. PICK latest \in {cp, Nil} :
          /\ IF latest = cp THEN UNCHANGED faults ELSE Fault
          /\ act' = [act EXCEPT ![c].snap = Reconciled(act[c].snap, latest),
                                ![c].pc = IF Reconciled(act[c].snap, latest) = act[c].snap
                                          THEN "register" ELSE "rollback.upsert"]
    BY <1>3 DEF ReloadRun
  <2>3. Reconciled(act[c].snap, latest) \in Rows
    BY <2>1, PersistedTypes
  <2>4. StepOf(c) /\ GoroutineOK(c)'
    BY <1>0, <1>3, <2>1, <2>2, <2>3
    DEF ReloadRun, mem, StepOf, GoroutineOK, UpsertPCs, ResolvePCs, PCs, Actors
  <2>5. faults' \in Nat
    BY <2>2 DEF Fault
  <2>6. QED
    BY <1>3, <2>4, <2>5, OthersKeepControl DEF ReloadRun, StepOf, mem, store
<1>4. CASE UpsertRollback(c)
  <2>1. StepOf(c) /\ GoroutineOK(c)'
    <3>1. "register" \in PCs /\ Goto(c, "register")
      BY <1>4 DEF UpsertRollback, PCs, ResolvePCs
    <3>2. StepOf(c) /\ act'[c] = [act[c] EXCEPT !.pc = "register"]
      BY <1>4, <3>1, GotoMoves DEF UpsertRollback, At, mem, StepOf
    <3>3. QED
      BY <1>0, <1>4, <3>2 DEF UpsertRollback, At, GoroutineOK, UpsertPCs, ResolvePCs, Actors
  <2>2. row' \in Rows \cup {Nil} /\ faults' \in Nat
    BY <1>0, <1>4 DEF UpsertRollback, At, GoroutineOK, Fault
  <2>3. QED
    BY <1>4, <2>1, <2>2, OthersKeepControl DEF UpsertRollback, StepOf, mem
<1>5. CASE Register(c)
  <2>1. act[c].snap \in Rows \cup {Nil} /\ act[c].op \in Operations /\ act[c].pc = "register"
    BY <1>0, <1>5 DEF Register, At, GoroutineOK
  <2>2. run' \in LiveRuns
    BY <1>5, <2>1, PersistedTypes DEF Register
  <2>3. run' # Nil
    BY <2>2, ConstantsAssumption
  <2>4. StepOf(c) /\ GoroutineOK(c)'
    <3>1. Entry(act[c].op) \in {"prestep", "meter", "cp.read", "kill"}
      BY <2>1, EntryPC
    <3>2. StepOf(c)
      BY <1>0, <1>5, <2>3, <3>1
      DEF Register, At, StepOf, PCs, Actors, RecordPCs, BeginPCs, AdmittedPCs
    <3>3. act'[c].pc \in {"mint.record", "prestep", "meter", "cp.read", "kill"} /\ act'[c].op = act[c].op
      BY <1>0, <1>5, <3>1 DEF Register, Actors
    <3>4. QED
      BY <2>1, <2>3, <3>2, <3>3 DEF GoroutineOK, UpsertPCs
  <2>5. QED
    BY <1>5, <2>2, <2>4, OthersKeepControl DEF Register, StepOf, store
<1>6. QED
  BY <1>1, <1>2, <1>3, <1>4, <1>5

\* A goroutine at work moves on to a place that expects nothing of snap.
LEMMA GotoControl ==
    ASSUME TypeInv, NEW c \in Clients, NEW pc \in PCs, Goto(c, pc),
           pc \notin ResolvePCs \cup UpsertPCs \cup {"cp.save"},
           up, up', run' # Nil, act[c].pc # "idle"
    PROVE  act' \in [Clients -> Actors] /\ ControlOK'
<1>1. /\ act \in [Clients -> Actors] /\ act[c] \in Actors
      /\ act[c].op \in Operations
  BY DEF TypeInv, TypeOK, ControlOK, GoroutineOK
<1>2. StepOf(c) /\ act'[c] = [act[c] EXCEPT !.pc = pc]
  BY <1>1, GotoMoves DEF StepOf
<1>3. GoroutineOK(c)'
  BY <1>1, <1>2 DEF GoroutineOK, ResolvePCs, Actors
<1>4. QED
  BY <1>2, <1>3, OthersKeepControl DEF StepOf

\* A goroutine answers.
LEMMA AnswerControl ==
    ASSUME TypeInv, NEW c \in Clients, NEW code \in Codes,
           NEW why \in HaltReasons \cup {HaltNone}, Answer(c, code, why),
           up, up', run # Nil => run' # Nil
    PROVE  act' \in [Clients -> Actors] /\ ControlOK'
<1>1. act \in [Clients -> Actors]
  BY DEF TypeInv, TypeOK
<1>2. StepOf(c) /\ act'[c].pc = "idle"
  BY <1>1, AnswerMoves DEF StepOf
<1>3. GoroutineOK(c)'
  BY <1>2 DEF GoroutineOK, ResolvePCs, UpsertPCs
<1>4. QED
  BY <1>2, <1>3, OthersKeepControl DEF StepOf

\* A new run, or a new request.
LEMMA ArrivalTypes ==
    ASSUME TypeInv,
           Create \/ \E c \in Clients, op \in Operations : Request(c, op)
    PROVE  TypeInv'
<1> USE DEF TypeInv, TypeOK
<1>1. CASE Create
  <2>1. run' \in LiveRuns /\ row' \in Rows \cup {Nil} /\ faults' \in Nat
    <3>1. NewRun \in LiveRuns /\ Record(NewRun) \in Rows
      BY PersistedTypes
    <3>2. run' = NewRun /\ row' \in {row, Record(NewRun)} /\ faults' \in {faults, faults + 1}
      BY <1>1 DEF Create, Fault
    <3>3. QED
      BY <3>1, <3>2
  <2>2. run' # Nil
    BY <2>1, ConstantsAssumption
  <2>3. ControlOK'
    BY <1>1, <2>2 DEF Create, ControlOK, GoroutineOK
  <2>4. QED
    BY <1>1, <2>1, <2>3 DEF Create
<1>2. ASSUME NEW c \in Clients, NEW op \in Operations, Request(c, op)
      PROVE  TypeInv'
  <2>1. PICK cost \in Costs \cup {NoCharge} :
          act' = [act EXCEPT ![c] = [IdleActor EXCEPT !.pc = "resolve", !.op = op, !.cost = cost]]
    BY <1>2 DEF Request, Posted
  <2>2. [IdleActor EXCEPT !.pc = "resolve", !.op = op, !.cost = cost] \in Actors
    <3>1. cost \in Charges /\ op \in AllOperations
      BY ConstantsAssumption DEF NoCharge, Charges
    <3>2. QED
      BY <3>1 DEF IdleActor, Actors, PCs, ResolvePCs, Codes
  <2>3. StepOf(c) /\ act'[c].pc = "resolve" /\ act'[c].op = op
    <3>1. act' \in [Clients -> Actors] /\ \A d \in Clients \ {c} : act'[d] = act[d]
      BY <2>1, <2>2
    <3>2. act'[c].pc = "resolve" /\ act'[c].op = op
      BY <2>1 DEF IdleActor
    <3>3. QED
      BY <1>2, <3>1, <3>2 DEF Request, At, StepOf, mem
  <2>4. GoroutineOK(c)'
    BY <2>3 DEF GoroutineOK, ResolvePCs, UpsertPCs
  <2>5. ControlOK'
    BY <1>2, <2>3, <2>4, OthersKeepControl
  <2>6. QED
    <3>1. requests' = requests + 1 /\ UNCHANGED <<mem, store, metered, crashes, faults>>
      BY <1>2 DEF Request
    <3>2. QED
      BY <2>3, <2>5, <3>1 DEF StepOf, mem, store
<1>3. QED
  BY <1>1, <1>2

\* persistRun.
LEMMA PersistTypes ==
    ASSUME TypeInv, NEW c \in Clients, RunRecord(c) \/ UpsertRun(c)
    PROVE  TypeInv'
<1> USE DEF TypeInv, TypeOK
<1>0. act[c] \in Actors /\ GoroutineOK(c)
  BY DEF ControlOK
<1>1. CASE RunRecord(c)
  <2>1. run \in LiveRuns /\ act[c].op \in Operations
    BY <1>0, <1>1 DEF RunRecord, RecordPCs, GoroutineOK, ResolvePCs
  <2>2. UpsertAfter(act[c].pc) \in UpsertPCs
    BY <1>1 DEF RunRecord, RecordPCs, UpsertPCs, UpsertAfter
  <2>3. StepOf(c) /\ act'[c].pc \in UpsertPCs /\ act'[c].snap \in Rows /\ act'[c].op = act[c].op
    BY <1>0, <1>1, <2>1, <2>2, PersistedTypes DEF RunRecord, mem, StepOf, Actors, PCs
  <2>4. GoroutineOK(c)'
    BY <1>1, <2>1, <2>3, ConstantsAssumption DEF RunRecord, mem, GoroutineOK, UpsertPCs
  <2>5. QED
    <3>1. ControlOK'
      BY <2>3, <2>4, OthersKeepControl
    <3>2. QED
      BY <1>1, <2>3, <3>1 DEF RunRecord, StepOf, mem, store
<1>2. CASE UpsertRun(c)
  <2>1. /\ act[c].pc \in UpsertPCs /\ act[c].op \in Operations /\ act[c].pc # "idle"
        /\ up /\ up' /\ run # Nil /\ run' # Nil /\ act[c].snap \in Rows
    BY <1>0, <1>2 DEF UpsertRun, UpsertPCs, GoroutineOK, ResolvePCs, mem
  <2>2. act' \in [Clients -> Actors] /\ ControlOK'
    <3>1. CASE act[c].pc = "mint.upsert"
      <4>1. Goto(c, Entry(act[c].op))
        BY <1>2, <3>1 DEF UpsertRun, AfterUpsert
      <4>2. Entry(act[c].op) \in PCs \ (ResolvePCs \cup UpsertPCs \cup {"cp.save"})
        BY <2>1, EntryPC DEF PCs, ResolvePCs, UpsertPCs, BeginPCs, AdmittedPCs
      <4>3. QED
        BY <2>1, <4>1, <4>2, GotoControl
    <3>2. CASE act[c].pc = "begin.upsert" /\ act[c].op # "step"
      <4>1. Goto(c, "ceiling") /\ "ceiling" \in PCs \ (ResolvePCs \cup UpsertPCs \cup {"cp.save"})
        BY <1>2, <3>2 DEF UpsertRun, AfterUpsert, PCs, ResolvePCs, UpsertPCs
      <4>2. QED
        BY <2>1, <4>1, GotoControl
    <3>3. CASE act[c].pc = "call.upsert"
      <4>1. Goto(c, "cp.read") /\ "cp.read" \in PCs \ (ResolvePCs \cup UpsertPCs \cup {"cp.save"})
        BY <1>2, <3>3 DEF UpsertRun, AfterUpsert, PCs, ResolvePCs, UpsertPCs
      <4>2. QED
        BY <2>1, <4>1, GotoControl
    <3>4. CASE \/ act[c].pc = "begin.upsert" /\ act[c].op = "step"
               \/ act[c].pc \in {"halt.upsert", "kill.upsert"}
      <4>1. \E code \in Codes, why \in HaltReasons \cup {HaltNone} : Answer(c, code, why)
        BY <1>0, <1>2, <3>4 DEF UpsertRun, AfterUpsert, AnswerHalt, Codes, Actors
      <4>2. QED
        BY <2>1, <4>1, AnswerControl
    <3>5. QED
      BY <2>1, <3>1, <3>2, <3>3, <3>4 DEF UpsertPCs
  <2>3. row' \in Rows \cup {Nil} /\ faults' \in Nat
    BY <1>2, <2>1 DEF UpsertRun, Fault
  <2>4. QED
    BY <1>2, <2>2, <2>3 DEF UpsertRun, mem
<1>3. QED
  BY <1>1, <1>2

\* A goroutine at work changes some of its registers on the way to such a place.
LEMMA WorkControl ==
    ASSUME TypeInv, NEW c \in Clients, act' \in [Clients -> Actors],
           \A d \in Clients \ {c} : act'[d] = act[d],
           act'[c].op = act[c].op,
           act'[c].pc \notin ResolvePCs \cup UpsertPCs \cup {"cp.save"},
           up, up', run' # Nil, act[c].pc # "idle"
    PROVE  ControlOK'
<1>1. act[c].op \in Operations
  BY DEF TypeInv, ControlOK, GoroutineOK
<1>2. GoroutineOK(c)'
  BY <1>1 DEF GoroutineOK, ResolvePCs
<1>3. StepOf(c)
  BY DEF StepOf
<1>4. QED
  BY <1>2, <1>3, OthersKeepControl

\* BeginStep and CanProceed.
LEMMA GuardTypes ==
    ASSUME TypeInv, NEW c \in Clients,
           BeginStep(c) \/ StepIndex(c) \/ PersistStepStart(c) \/ Ceiling(c)
    PROVE  TypeInv'
<1> USE DEF TypeInv, TypeOK
<1>0. act[c] \in Actors /\ GoroutineOK(c)
  BY DEF ControlOK
<1>1. /\ up /\ up' /\ run \in LiveRuns /\ run # Nil
      /\ act[c].pc \in {"prestep", "index", "stepstart", "ceiling"}
  BY <1>0, ConstantsAssumption
  DEF BeginStep, StepIndex, PersistStepStart, Ceiling, At, mem, GoroutineOK, ResolvePCs
<1>2. ASSUME NEW next \in LiveRuns, NEW pc \in {"index", "route"}, Guarded(c, next, pc)
      PROVE  act' \in [Clients -> Actors] /\ ControlOK' /\ run' \in LiveRuns
  <2>1. next.halted \in HaltReasons \cup {HaltNone}
    BY DEF LiveRuns
  <2>2. /\ act' \in [Clients -> Actors]
        /\ \A d \in Clients \ {c} : act'[d] = act[d]
        /\ act'[c].op = act[c].op
        /\ act'[c].pc \in {"halt.record", "index", "route"}
    <3>1. PICK q \in {"halt.record", "index", "route"} :
            act' = [act EXCEPT ![c].why = next.halted, ![c].pc = q]
      BY <1>2 DEF Guarded
    <3>2. q \in PCs
      BY DEF PCs, BeginPCs, AdmittedPCs, RecordPCs
    <3>3. QED
      BY <1>0, <2>1, <3>1, <3>2 DEF Actors
  <2>3. run' \in LiveRuns /\ run' # Nil
    BY <1>2, ConstantsAssumption DEF Guarded
  <2>4. ControlOK'
    BY <1>1, <2>2, <2>3, WorkControl DEF ResolvePCs, UpsertPCs
  <2>5. QED
    BY <2>2, <2>3, <2>4
<1>3. CASE BeginStep(c)
  <2>1. PreStep(run) \in LiveRuns
    BY <1>1, GovernorTypes DEF Charges
  <2>2. Guarded(c, PreStep(run), "index")
    BY <1>3 DEF BeginStep
  <2>3. QED
    BY <1>2, <1>3, <2>1, <2>2 DEF BeginStep, store
<1>4. CASE StepIndex(c)
  <2>1. run.loops \in Nat
    BY <1>1 DEF LiveRuns
  <2>2. /\ act' \in [Clients -> Actors]
        /\ \A d \in Clients \ {c} : act'[d] = act[d]
        /\ act'[c].op = act[c].op
        /\ act'[c].pc = "stepstart"
    <3>1. "stepstart" \in PCs
      BY DEF PCs, BeginPCs
    <3>2. act' = [act EXCEPT ![c].step = run.loops, ![c].pc = "stepstart"]
      BY <1>4 DEF StepIndex
    <3>3. QED
      BY <1>0, <2>1, <3>1, <3>2 DEF Actors
  <2>3. ControlOK'
    BY <1>1, <1>4, <2>2, WorkControl DEF StepIndex, mem, ResolvePCs, UpsertPCs
  <2>4. QED
    BY <1>4, <2>2, <2>3 DEF StepIndex, mem, store
<1>5. CASE PersistStepStart(c)
  <2>1. Goto(c, "begin.record") /\ "begin.record" \in PCs \ (ResolvePCs \cup UpsertPCs \cup {"cp.save"})
    BY <1>5 DEF PersistStepStart, PCs, RecordPCs, ResolvePCs, UpsertPCs
  <2>2. run' # Nil /\ act[c].pc # "idle"
    BY <1>1, <1>5 DEF PersistStepStart, mem
  <2>3. act' \in [Clients -> Actors] /\ ControlOK'
    BY <1>1, <2>1, <2>2, GotoControl
  <2>4. steps' \in [StepIndexes -> StepRows] /\ faults' \in Nat
    BY <1>5 DEF PersistStepStart, ChildWrite, StepRows, Fault
  <2>5. QED
    BY <1>5, <2>3, <2>4 DEF PersistStepStart, mem
<1>6. CASE Ceiling(c)
  <2>1. CanProceed(run) \in LiveRuns
    BY <1>1, GovernorTypes DEF Charges
  <2>2. Guarded(c, CanProceed(run), "route")
    BY <1>6 DEF Ceiling
  <2>3. QED
    BY <1>2, <1>6, <2>1, <2>2 DEF Ceiling, store
<1>7. QED
  BY <1>3, <1>4, <1>5, <1>6

\* The provider call.
LEMMA ProviderTypes ==
    ASSUME TypeInv, NEW c \in Clients,
           \/ Dispatch(c) \/ Refuse(c) \/ ReportFailure(c) \/ ProviderStep(c)
    PROVE  TypeInv'
<1> USE DEF TypeInv, TypeOK
<1>0. act[c] \in Actors /\ GoroutineOK(c)
  BY DEF ControlOK
<1>1. /\ up /\ up' /\ run \in LiveRuns /\ run # Nil /\ run' # Nil
      /\ act[c].pc \in {"route", "inflight", "streaming", "failed"}
      /\ UNCHANGED <<mem, store, metered, requests, crashes, faults>>
  <2>1. /\ At(c, "route") \/ At(c, "inflight") \/ At(c, "streaming") \/ At(c, "failed")
        /\ UNCHANGED <<mem, store, metered, requests, crashes, faults>>
    BY DEF Dispatch, Refuse, ReportFailure, ProviderStep, ProviderReturns,
           StreamOpens, StreamEnds, ProviderFails
  <2>2. QED
    BY <1>0, <2>1, ConstantsAssumption DEF At, mem, GoroutineOK, ResolvePCs
<1>2. SUFFICES act' \in [Clients -> Actors] /\ ControlOK'
  BY <1>1 DEF mem, store
<1>3. CASE Dispatch(c) \/ StreamOpens(c)
  <2>1. PICK pc \in {"inflight", "streaming"} : Goto(c, pc)
    BY <1>3 DEF Dispatch, StreamOpens
  <2>2. pc \in PCs \ (ResolvePCs \cup UpsertPCs \cup {"cp.save"})
    BY DEF PCs, AdmittedPCs, ResolvePCs, UpsertPCs
  <2>3. QED
    BY <1>1, <2>1, <2>2, GotoControl
<1>4. CASE Refuse(c) \/ ReportFailure(c)
  <2>1. run.halted \in HaltReasons \cup {HaltNone}
    BY <1>1 DEF LiveRuns
  <2>2. \E code \in Codes, why \in HaltReasons \cup {HaltNone} : Answer(c, code, why)
    BY <1>4, <2>1 DEF Refuse, ReportFailure, AnswerHalt, Codes
  <2>3. QED
    BY <1>1, <2>2, AnswerControl
<1>5. CASE ProviderReturns(c) \/ StreamEnds(c)
  <2>1. PICK cost \in Costs \cup {NoCharge} :
          act' = [act EXCEPT ![c].cost = cost, ![c].pc = "meter"]
    BY <1>5 DEF ProviderReturns, StreamEnds
  <2>2. cost \in Charges
    BY ConstantsAssumption DEF NoCharge, Charges
  <2>3. /\ act' \in [Clients -> Actors]
        /\ \A d \in Clients \ {c} : act'[d] = act[d]
        /\ act'[c].op = act[c].op
        /\ act'[c].pc = "meter"
    <3>1. "meter" \in PCs
      BY DEF PCs, AdmittedPCs
    <3>2. QED
      BY <1>0, <2>1, <2>2, <3>1 DEF Actors
  <2>4. ControlOK'
    BY <1>1, <2>3, WorkControl DEF ResolvePCs, UpsertPCs
  <2>5. QED
    BY <2>3, <2>4
<1>6. ASSUME NEW cause \in {"context", "client", "provider"}, ProviderFails(c, cause)
      PROVE  act' \in [Clients -> Actors] /\ ControlOK'
  <2>1. /\ act' \in [Clients -> Actors]
        /\ \A d \in Clients \ {c} : act'[d] = act[d]
        /\ act'[c].op = act[c].op
        /\ act'[c].pc = "failed"
    <3>1. "failed" \in PCs
      BY DEF PCs
    <3>2. act' = [act EXCEPT ![c].cut = cause, ![c].pc = "failed"]
      BY <1>6 DEF ProviderFails
    <3>3. QED
      BY <1>0, <3>1, <3>2 DEF Actors
  <2>2. ControlOK'
    BY <1>1, <2>1, WorkControl DEF ResolvePCs, UpsertPCs
  <2>3. QED
    BY <2>1, <2>2
<1>7. QED
  BY <1>3, <1>4, <1>5, <1>6 DEF ProviderStep

\* RecordCall, persistCall, checkpoints and the kill switch.
LEMMA AccountTypes ==
    ASSUME TypeInv, NEW c \in Clients,
           \/ RecordCall(c) \/ AppendLedger(c) \/ PersistStepEnd(c)
           \/ ReadCheckpoint(c) \/ SaveCheckpoint(c) \/ Kill(c)
    PROVE  TypeInv'
<1> USE DEF TypeInv, TypeOK
<1>0. act[c] \in Actors /\ GoroutineOK(c)
  BY DEF ControlOK
<1>1. /\ up /\ up' /\ run \in LiveRuns /\ run # Nil
      /\ act[c].pc \in {"meter", "ledger", "stepend", "cp.read", "cp.save", "kill"}
  BY <1>0, ConstantsAssumption
  DEF RecordCall, AppendLedger, PersistStepEnd, ReadCheckpoint, SaveCheckpoint, Kill,
      At, mem, GoroutineOK, ResolvePCs
<1>2. act[c].cost \in Charges /\ act[c].why \in HaltReasons \cup {HaltNone}
  BY <1>0 DEF Actors
<1>3. \A s, t \in Charges : Add(s, t) \in Charges
  BY DEF Add, Charges
<1>4. CASE RecordCall(c)
  <2>1. run' \in LiveRuns /\ run' = RecordUsage(run, act[c].cost)
    BY <1>1, <1>2, <1>4, GovernorTypes DEF RecordCall
  <2>2. run'.halted \in HaltReasons \cup {HaltNone} /\ run' # Nil
    BY <2>1, ConstantsAssumption DEF LiveRuns
  <2>3. act' = [act EXCEPT ![c].why = run'.halted, ![c].pc = "ledger"]
    BY <1>4 DEF RecordCall
  <2>4. /\ act' \in [Clients -> Actors]
        /\ \A d \in Clients \ {c} : act'[d] = act[d]
        /\ act'[c].op = act[c].op
        /\ act'[c].pc = "ledger"
    <3>1. "ledger" \in PCs
      BY DEF PCs
    <3>2. QED
      BY <1>0, <2>2, <2>3, <3>1 DEF Actors
  <2>5. ControlOK'
    BY <1>1, <2>2, <2>4, WorkControl DEF ResolvePCs, UpsertPCs
  <2>6. metered' \in Charges
    BY <1>2, <1>3, <1>4 DEF RecordCall
  <2>7. QED
    BY <1>4, <2>1, <2>4, <2>5, <2>6 DEF RecordCall, store
<1>5. CASE AppendLedger(c) \/ PersistStepEnd(c)
  <2>1. PICK pc \in {"stepend", "call.record"} : Goto(c, pc)
    BY <1>5 DEF AppendLedger, PersistStepEnd
  <2>2. pc \in PCs \ (ResolvePCs \cup UpsertPCs \cup {"cp.save"})
    BY DEF PCs, RecordPCs, ResolvePCs, UpsertPCs
  <2>3. run' # Nil /\ act[c].pc # "idle"
    BY <1>1, <1>5 DEF AppendLedger, PersistStepEnd, mem
  <2>4. act' \in [Clients -> Actors] /\ ControlOK'
    BY <1>1, <2>1, <2>2, <2>3, GotoControl
  <2>5. faults' \in Nat
    BY <1>5 DEF AppendLedger, PersistStepEnd, ChildWrite, Fault
  <2>6. ledger' \in Charges
    BY <1>2, <1>3, <1>5 DEF AppendLedger, PersistStepEnd, ChildWrite
  <2>7. steps' \in [StepIndexes -> StepRows]
    <3>1. act[c].cost.dollars \in Nat
      BY <1>2 DEF Charges
    <3>2. QED
      BY <1>5, <3>1 DEF AppendLedger, PersistStepEnd, ChildWrite, StepRows
  <2>8. QED
    BY <1>5, <2>4, <2>5, <2>6, <2>7 DEF AppendLedger, PersistStepEnd, mem
<1>6. CASE ReadCheckpoint(c)
  <2>1. Snapshot(run) \in Checkpoints
    BY <1>1, PersistedTypes
  <2>2. /\ StepOf(c) /\ act'[c].op = act[c].op
        /\ act'[c].pc = "cp.save" /\ act'[c].snap \in Checkpoints
    <3>1. "cp.save" \in PCs
      BY DEF PCs
    <3>2. /\ act' = [act EXCEPT ![c].snap = Snapshot(run), ![c].pc = "cp.save"]
          /\ UNCHANGED <<up, run>>
      BY <1>6 DEF ReadCheckpoint, mem
    <3>3. QED
      BY <1>0, <1>1, <2>1, <3>1, <3>2 DEF StepOf, Actors
  <2>3. GoroutineOK(c)'
    BY <1>0, <1>1, <2>2 DEF GoroutineOK, StepOf, ResolvePCs, UpsertPCs
  <2>4. ControlOK'
    BY <2>2, <2>3, OthersKeepControl
  <2>5. QED
    BY <1>6, <2>2, <2>4 DEF ReadCheckpoint, StepOf, mem, store
<1>7. CASE SaveCheckpoint(c)
  <2>1. act[c].snap \in Checkpoints
    BY <1>0, <1>7 DEF SaveCheckpoint, At, GoroutineOK
  <2>2. \E code \in Codes, why \in HaltReasons \cup {HaltNone} : Answer(c, code, why)
    BY <1>2, <1>7 DEF SaveCheckpoint, Codes
  <2>3. run # Nil => run' # Nil
    BY <1>7 DEF SaveCheckpoint, mem
  <2>4. act' \in [Clients -> Actors] /\ ControlOK'
    BY <1>1, <2>2, <2>3, AnswerControl
  <2>5. cp' \in Checkpoints \cup {Nil} /\ faults' \in Nat
    BY <1>7, <2>1 DEF SaveCheckpoint, ChildWrite, Fault
  <2>6. QED
    BY <1>7, <2>4, <2>5 DEF SaveCheckpoint, mem
<1>8. CASE Kill(c)
  <2>1. run' \in LiveRuns
    BY <1>1, <1>2, <1>8, GovernorTypes DEF Kill
  <2>2. Goto(c, "kill.record") /\ "kill.record" \in PCs \ (ResolvePCs \cup UpsertPCs \cup {"cp.save"})
    BY <1>8 DEF Kill, PCs, RecordPCs, ResolvePCs, UpsertPCs
  <2>3. run' # Nil /\ act[c].pc # "idle"
    BY <1>1, <2>1, ConstantsAssumption
  <2>4. act' \in [Clients -> Actors] /\ ControlOK'
    BY <1>1, <2>2, <2>3, GotoControl
  <2>5. QED
    BY <1>8, <2>1, <2>4 DEF Kill, store
<1>9. QED
  BY <1>4, <1>5, <1>6, <1>7, <1>8

\* The clock, the deadline and the process.
LEMMA ProcessTypes ==
    ASSUME TypeInv, Tick \/ DeadlineFires \/ Crash \/ Restart
    PROVE  TypeInv'
<1> USE DEF TypeInv, TypeOK
<1>1. CASE Tick \/ DeadlineFires
  <2>1. run' \in LiveRuns
    <3>1. run \in LiveRuns /\ run.elapsed + 1 \in Nat
      BY <1>1 DEF Tick, DeadlineFires, LiveRuns
    <3>2. CASE Tick
      BY <3>1, <3>2 DEF Tick, LiveRuns
    <3>3. CASE DeadlineFires
      BY <3>1, <3>3 DEF DeadlineFires, LiveRuns
    <3>4. QED
      BY <1>1, <3>2, <3>3
  <2>2. run' # Nil
    BY <2>1, ConstantsAssumption
  <2>3. ControlOK'
    BY <1>1, <2>2 DEF Tick, DeadlineFires, ControlOK, GoroutineOK
  <2>4. QED
    BY <1>1, <2>1, <2>3 DEF Tick, DeadlineFires, store
<1>2. CASE Crash
  <2>1. IdleActor \in Actors /\ IdleActor.pc = "idle"
    BY DEF IdleActor, Actors, PCs, Codes, NoCharge, Charges
  <2>2. act' \in [Clients -> Actors] /\ \A c \in Clients : act'[c].pc = "idle"
    BY <1>2, <2>1 DEF Crash
  <2>3. ControlOK'
    BY <1>2, <2>2 DEF Crash, ControlOK, GoroutineOK, Quiet, ResolvePCs, UpsertPCs
  <2>4. up' \in BOOLEAN
    BY <1>2 DEF Crash
  <2>5. crashes' \in Nat
    <3>1. crashes' = crashes + 1
      BY <1>2 DEF Crash
    <3>2. QED
      BY <3>1
  <2>6. run' = Nil /\ UNCHANGED <<store, metered, requests, faults>>
    BY <1>2 DEF Crash
  <2>7. QED
    BY <2>2, <2>3, <2>4, <2>5, <2>6 DEF store
<1>3. CASE Restart
  <2>1. Quiet
    BY <1>3 DEF Restart, ControlOK
  <2>2. ControlOK'
    BY <1>3, <2>1 DEF Restart, ControlOK, GoroutineOK, Quiet, ResolvePCs, UpsertPCs
  <2>3. run' \in LiveRuns \cup {Nil} /\ row' \in Rows \cup {Nil} /\ faults' \in Nat
    <3>1. CASE row # Nil /\ ~Terminal(row)
      <4>1. PICK latest \in {cp, Nil}, written \in BOOLEAN :
              /\ run' = Reloaded(Reconciled(row, latest))
              /\ row' = IF written THEN Reconciled(row, latest) ELSE row
              /\ faults' = faults + (IF latest = cp THEN 0 ELSE 1)
                                 + (IF row' = Reconciled(row, latest) THEN 0 ELSE 1)
        BY <1>3, <3>1 DEF Restart
      <4>2. Reconciled(row, latest) \in Rows
        BY <3>1, PersistedTypes
      <4>3. run' \in LiveRuns /\ row' \in Rows
        BY <3>1, <4>1, <4>2, PersistedTypes
      <4>4. faults' \in Nat
        BY <4>1
      <4>5. QED
        BY <4>3, <4>4
    <3>2. CASE ~(row # Nil /\ ~Terminal(row))
      BY <1>3, <3>2 DEF Restart
    <3>3. QED
      BY <3>1, <3>2
  <2>4. QED
    BY <1>3, <2>2, <2>3 DEF Restart
<1>4. QED
  BY <1>1, <1>2, <1>3

\* The type and control invariant holds initially and is preserved.
LEMMA TypeInvInductive ==
    /\ Init => TypeInv
    /\ TypeInv /\ [Next]_vars => TypeInv'
<1>1. ASSUME Init PROVE TypeInv
  <2>1. IdleActor \in Actors /\ IdleActor.pc = "idle"
    BY DEF IdleActor, Actors, PCs, Codes, NoCharge, Charges
  <2>2. act \in [Clients -> Actors] /\ \A c \in Clients : act[c].pc = "idle"
    BY <1>1, <2>1 DEF Init
  <2>3. ControlOK
    BY <1>1, <2>2 DEF Init, ControlOK, GoroutineOK, ResolvePCs, UpsertPCs
  <2>4. steps \in [StepIndexes -> StepRows] /\ NoCharge \in Charges
    BY <1>1 DEF Init, StepRows, NoCharge, Charges
  <2>5. QED
    BY <1>1, <2>2, <2>3, <2>4 DEF Init, TypeInv, TypeOK
<1>2. ASSUME TypeInv, [Next]_vars PROVE TypeInv'
  <2>1. CASE UNCHANGED vars
    <3>1. TypeOK'
      BY <1>2, <2>1 DEF vars, TypeInv, TypeOK
    <3>2. ControlOK'
      BY <1>2, <2>1 DEF vars, TypeInv, ControlOK, GoroutineOK, Quiet
    <3>3. QED
      BY <3>1, <3>2 DEF TypeInv
  <2>2. CASE Next
    BY <1>2, <2>2, ArrivalTypes, LookupTypes, PersistTypes, GuardTypes, ProviderTypes,
       AccountTypes, ProcessTypes
    DEF Next, HandlerStep
  <2>3. QED
    BY <1>2, <2>1, <2>2
<1>3. QED
  BY <1>1, <1>2

\* Every reachable state is well formed, and no handler past the lookup ever
\* finds the run missing or a snapshot of the wrong kind (governor.Run,
\* runs.Manager, the rows of internal/storage).
THEOREM TypeCorrect == Spec => [](TypeOK /\ ControlOK)
<1>1. Spec => []TypeInv
  BY TypeInvInductive, PTL DEF Spec
<1>2. QED
  BY <1>1, PTL DEF TypeInv

----------------------------------------------------------------------------
(* Where usage comes from.  The usage of a run exists in several copies:   *)
(* the live one, the row, the latest checkpoint and the snapshots that     *)
(* goroutines carry to a statement.  Apart from PreStep and RecordUsage no *)
(* step makes up a number: it copies one of them, or starts from zero.     *)

Copies == ({run, row, cp} \cup {act[c].snap : c \in Clients}) \ {Nil}

\* u is nothing, zero, or a copy of what some copy holds now.
Copied(u) == u = Nil \/ SameUsage(u, NewRun) \/ \E v \in Copies : SameUsage(u, v)

\* What the step may write anywhere but into the live run.
CopiesOnly ==
    /\ Copied(row') /\ Copied(cp')
    /\ \A c \in Clients : Copied(act'[c].snap)

\* A copy of a copy is a copy.
LEMMA CopiedAgain ==
    ASSUME NEW u, NEW v, v \in Copies \/ v = NewRun, SameUsage(u, v)
    PROVE  Copied(u)
BY DEF Copied

\* What exists is a copy of itself.
LEMMA KeptIsCopied ==
    /\ Copied(Nil) /\ Copied(run) /\ Copied(row) /\ Copied(cp)
    /\ \A c \in Clients : Copied(act[c].snap)
BY DEF Copied, Copies, SameUsage

\* A handler that moves on without reading the run or the store keeps the
\* snapshot it has or drops it.
LEMMA SnapshotsKept ==
    ASSUME TypeInv, NEW c \in Clients,
           \/ \E pc \in PCs : Goto(c, pc)
           \/ \E code \in Codes, why \in HaltReasons \cup {HaltNone} : Answer(c, code, why)
    PROVE  \A d \in Clients : act'[d].snap \in {act[d].snap, Nil}
<1>0. act \in [Clients -> Actors] /\ act[c] \in Actors
  BY DEF TypeInv, TypeOK
<1>1. ASSUME NEW pc \in PCs, Goto(c, pc)
      PROVE  \A d \in Clients : act'[d].snap = act[d].snap
  BY <1>0, <1>1 DEF Goto, Actors
<1>2. ASSUME NEW code, NEW why, Answer(c, code, why)
      PROVE  \A d \in Clients : act'[d].snap \in {act[d].snap, Nil}
  BY <1>0, <1>2 DEF Answer, IdleActor
<1>3. QED
  BY <1>1, <1>2

\* Which steps keep every snapshot.
SnapshotsKeptStep ==
    \/ Create \/ (\E c \in Clients, op \in Operations : Request(c, op))
    \/ \E c \in Clients : \/ Resolve(c) \/ UpsertRollback(c) \/ Register(c) \/ UpsertRun(c)
                          \/ BeginStep(c) \/ StepIndex(c) \/ PersistStepStart(c) \/ Ceiling(c)
                          \/ Dispatch(c) \/ Refuse(c) \/ ReportFailure(c) \/ ProviderStep(c)
                          \/ RecordCall(c) \/ AppendLedger(c) \/ PersistStepEnd(c)
                          \/ SaveCheckpoint(c) \/ Kill(c)
    \/ Tick \/ DeadlineFires \/ Crash \/ Restart

\* None of them gives a goroutine a new snapshot.
LEMMA SnapshotsKeptByStep ==
    ASSUME TypeInv, SnapshotsKeptStep
    PROVE  \A d \in Clients : act'[d].snap \in {act[d].snap, Nil}
<1>0. act \in [Clients -> Actors]
  BY DEF TypeInv, TypeOK
<1>1. CASE Create \/ Tick \/ DeadlineFires \/ Restart
  BY <1>1 DEF Create, Tick, DeadlineFires, Restart
<1>2. CASE Crash
  BY <1>2 DEF Crash, IdleActor
<1>3. ASSUME NEW c \in Clients, NEW op \in Operations, Request(c, op)
      PROVE  \A d \in Clients : act'[d].snap \in {act[d].snap, Nil}
  BY <1>0, <1>3 DEF Request, IdleActor
<1>4. ASSUME NEW c \in Clients,
             \/ Resolve(c) \/ UpsertRollback(c) \/ UpsertRun(c) \/ PersistStepStart(c)
             \/ Dispatch(c) \/ Refuse(c) \/ ReportFailure(c) \/ StreamOpens(c)
             \/ AppendLedger(c) \/ PersistStepEnd(c) \/ SaveCheckpoint(c) \/ Kill(c)
      PROVE  \A d \in Clients : act'[d].snap \in {act[d].snap, Nil}
  <2>0. /\ act[c] \in Actors /\ GoroutineOK(c) /\ act[c].why \in HaltReasons \cup {HaltNone}
        /\ run # Nil => run.halted \in HaltReasons \cup {HaltNone}
    BY DEF TypeInv, TypeOK, ControlOK, Actors, LiveRuns
  <2>1. CASE \/ UpsertRollback(c) \/ PersistStepStart(c) \/ Dispatch(c) \/ StreamOpens(c)
             \/ AppendLedger(c) \/ PersistStepEnd(c) \/ Kill(c)
    <3>1. \E pc \in PCs : Goto(c, pc)
      BY <2>1 DEF UpsertRollback, PersistStepStart, Dispatch, StreamOpens, AppendLedger,
                  PersistStepEnd, Kill, PCs, ResolvePCs, RecordPCs, AdmittedPCs
    <3>2. QED
      BY <3>1, SnapshotsKept
  <2>2. CASE Refuse(c) \/ ReportFailure(c) \/ SaveCheckpoint(c)
    <3>1. run # Nil
      BY <2>0, <2>2 DEF Refuse, ReportFailure, SaveCheckpoint, At, GoroutineOK, ResolvePCs
    <3>2. \E code \in Codes, why \in HaltReasons \cup {HaltNone} : Answer(c, code, why)
      BY <2>0, <2>2, <3>1 DEF Refuse, ReportFailure, AnswerHalt, SaveCheckpoint, Codes
    <3>3. QED
      BY <3>2, SnapshotsKept
  <2>3. CASE Resolve(c) \/ UpsertRun(c)
    <3>1. Entry(act[c].op) \in PCs
      <4>1. act[c].op \in Operations
        BY <2>0, <2>3 DEF Resolve, UpsertRun, At, UpsertPCs, GoroutineOK
      <4>2. QED
        BY <4>1, EntryPC DEF PCs, BeginPCs, AdmittedPCs
    <3>2. \/ \E pc \in PCs : Goto(c, pc)
          \/ \E code \in Codes, why \in HaltReasons \cup {HaltNone} : Answer(c, code, why)
      <4>1. CASE Resolve(c)
        BY <3>1, <4>1 DEF Resolve, PCs, ResolvePCs, Codes
      <4>2. CASE UpsertRun(c)
        BY <2>0, <3>1, <4>2 DEF UpsertRun, UpsertPCs, AfterUpsert, AnswerHalt, PCs, Codes
      <4>3. QED
        BY <2>3, <4>1, <4>2
    <3>3. QED
      BY <3>2, SnapshotsKept
  <2>4. QED
    BY <1>4, <2>1, <2>2, <2>3
<1>5. ASSUME NEW c \in Clients,
             \/ Register(c) \/ BeginStep(c) \/ StepIndex(c) \/ Ceiling(c) \/ RecordCall(c)
             \/ ProviderReturns(c) \/ StreamEnds(c)
             \/ \E cause \in {"context", "client", "provider"} : ProviderFails(c, cause)
      PROVE  \A d \in Clients : act'[d].snap \in {act[d].snap, Nil}
  <2>0. act[c] \in Actors
    BY <1>0
  <2>1. CASE Register(c)
    BY <1>0, <2>0, <2>1 DEF Register, Actors
  <2>2. CASE BeginStep(c) \/ Ceiling(c)
    BY <1>0, <2>0, <2>2 DEF BeginStep, Ceiling, Guarded, Actors
  <2>3. CASE StepIndex(c) \/ RecordCall(c)
    BY <1>0, <2>0, <2>3 DEF StepIndex, RecordCall, Actors
  <2>4. CASE ProviderReturns(c) \/ StreamEnds(c)
    <3>1. PICK cost : act' = [act EXCEPT ![c].cost = cost, ![c].pc = "meter"]
      BY <2>4 DEF ProviderReturns, StreamEnds
    <3>2. QED
      BY <1>0, <2>0, <3>1 DEF Actors
  <2>5. CASE \E cause \in {"context", "client", "provider"} : ProviderFails(c, cause)
    BY <1>0, <2>0, <2>5 DEF ProviderFails, Actors
  <2>6. QED
    BY <1>5, <2>1, <2>2, <2>3, <2>4, <2>5
<1>6. QED
  BY <1>1, <1>2, <1>3, <1>4, <1>5 DEF SnapshotsKeptStep, ProviderStep

\* Every step copies usage, except PreStep in BeginStep and RecordUsage in
\* RecordCall, which change the live run.
LEMMA UsageFlow ==
    ASSUME TypeInv, Next
    PROVE  /\ CopiesOnly
           /\ Copied(run') \/ \E c \in Clients : BeginStep(c) \/ RecordCall(c)
<1> USE DEF TypeInv, TypeOK
<1>1. (SnapshotsKeptStep /\ UNCHANGED <<row, cp>>) => CopiesOnly
  BY SnapshotsKeptByStep, KeptIsCopied DEF CopiesOnly
<1>2. CASE Create
  <2>1. SameUsage(Record(NewRun), NewRun)
    BY PersistedTypes, UsageKept
  <2>2. Copied(NewRun) /\ Copied(Record(NewRun))
    BY <2>1 DEF Copied, SameUsage
  <2>3. QED
    BY <1>2, <2>2, KeptIsCopied DEF Create, CopiesOnly
<1>3. ASSUME NEW c \in Clients, NEW op \in Operations, Request(c, op)
      PROVE  CopiesOnly /\ Copied(run')
  BY <1>1, <1>3, KeptIsCopied DEF Request, SnapshotsKeptStep, mem, store
<1>4. ASSUME NEW c \in Clients, HandlerStep(c) \/ ProviderStep(c)
      PROVE  CopiesOnly /\ (Copied(run') \/ BeginStep(c) \/ RecordCall(c))
  <2>0. act[c] \in Actors /\ GoroutineOK(c)
    BY DEF ControlOK
  <2>1. CASE \/ Resolve(c) \/ StepIndex(c) \/ PersistStepStart(c) \/ Dispatch(c) \/ Refuse(c)
             \/ ReportFailure(c) \/ ProviderStep(c) \/ AppendLedger(c) \/ PersistStepEnd(c)
             \/ BeginStep(c) \/ RecordCall(c)
    <3>1. SnapshotsKeptStep
      BY <2>1 DEF SnapshotsKeptStep
    <3>2. UNCHANGED <<row, cp>> /\ (UNCHANGED run \/ BeginStep(c) \/ RecordCall(c))
      BY <2>1 DEF Resolve, StepIndex, PersistStepStart, Dispatch, Refuse, ReportFailure,
                  ProviderStep, ProviderReturns, StreamOpens, StreamEnds, ProviderFails,
                  AppendLedger, PersistStepEnd, BeginStep, RecordCall, mem, store
    <3>3. QED
      BY <1>1, <3>1, <3>2, KeptIsCopied
  <2>2. CASE Ceiling(c) \/ Kill(c)
    <3>1. run \in LiveRuns /\ run \in Copies
      BY <2>0, <2>2 DEF Ceiling, Kill, At, GoroutineOK, ResolvePCs, Copies
    <3>2. Copied(CanProceed(run)) /\ Copied(Cancel(run))
      BY <3>1, UsageKept, CopiedAgain
    <3>3. SnapshotsKeptStep /\ UNCHANGED <<row, cp>> /\ run' \in {CanProceed(run), Cancel(run)}
      BY <2>2 DEF SnapshotsKeptStep, Ceiling, Guarded, Kill, store
    <3>4. QED
      BY <1>1, <3>2, <3>3
  <2>3. CASE UpsertRollback(c) \/ UpsertRun(c)
    <3>1. SnapshotsKeptStep /\ row' \in {row, act[c].snap} /\ UNCHANGED <<run, cp>>
      BY <2>3 DEF SnapshotsKeptStep, UpsertRollback, UpsertRun, mem
    <3>2. QED
      BY <3>1, SnapshotsKeptByStep, KeptIsCopied DEF CopiesOnly
  <2>4. CASE SaveCheckpoint(c)
    <3>1. SnapshotsKeptStep /\ cp' \in {cp, act[c].snap} /\ UNCHANGED <<run, row>>
      BY <2>4 DEF SnapshotsKeptStep, SaveCheckpoint, ChildWrite, mem
    <3>2. QED
      BY <3>1, SnapshotsKeptByStep, KeptIsCopied DEF CopiesOnly
  <2>5. CASE Register(c)
    <3>1. act[c].snap \in Rows \cup {Nil}
      BY <2>0, <2>5 DEF Register, At, GoroutineOK
    <3>2. run' \in {run, NewRun} \/ (act[c].snap # Nil /\ run' = Reloaded(act[c].snap))
      BY <2>5 DEF Register
    <3>3. Copied(NewRun)
      BY DEF Copied, SameUsage
    <3>4. act[c].snap # Nil => Copied(Reloaded(act[c].snap))
      BY <3>1, UsageKept, CopiedAgain DEF Copies
    <3>5. Copied(run')
      BY <3>2, <3>3, <3>4, KeptIsCopied
    <3>6. SnapshotsKeptStep /\ UNCHANGED <<row, cp>>
      BY <2>5 DEF SnapshotsKeptStep, Register, store
    <3>7. QED
      BY <1>1, <3>5, <3>6
  <2>6. CASE RestoreFromStore(c) \/ ReloadRun(c) \/ RunRecord(c) \/ ReadCheckpoint(c)
    <3>1. UNCHANGED <<run, row, cp>>
      BY <2>6 DEF RestoreFromStore, ReloadRun, RunRecord, ReadCheckpoint, mem, store
    <3>2. \A d \in Clients \ {c} : act'[d] = act[d]
      BY <2>6 DEF RestoreFromStore, ReloadRun, RunRecord, ReadCheckpoint
    <3>3. Copied(act'[c].snap)
      <4>1. CASE RestoreFromStore(c)
        <5>1. act'[c].snap \in {row, Nil}
          BY <2>0, <4>1 DEF RestoreFromStore, Actors
        <5>2. QED
          BY <5>1, KeptIsCopied
      <4>2. CASE ReloadRun(c)
        <5>1. act[c].snap \in Rows
          BY <2>0, <4>2 DEF ReloadRun, At, GoroutineOK
        <5>2. PICK latest \in {cp, Nil} : act'[c].snap = Reconciled(act[c].snap, latest)
          BY <2>0, <4>2 DEF ReloadRun, Actors
        <5>3. act[c].snap \in Copies /\ (latest # Nil => latest \in Copies)
          BY <5>1, ConstantsAssumption DEF Copies
        <5>4. QED
          BY <5>1, <5>2, <5>3, UsageKept, CopiedAgain
      <4>3. CASE RunRecord(c) \/ ReadCheckpoint(c)
        <5>1. run \in LiveRuns /\ run \in Copies
          BY <2>0, <4>3 DEF RunRecord, ReadCheckpoint, At, RecordPCs, GoroutineOK, ResolvePCs, Copies
        <5>2. act'[c].snap \in {Record(run), Snapshot(run)}
          BY <2>0, <4>3 DEF RunRecord, ReadCheckpoint, Actors
        <5>3. QED
          BY <5>1, <5>2, UsageKept, CopiedAgain
      <4>4. QED
        BY <2>6, <4>1, <4>2, <4>3
    <3>4. QED
      BY <3>1, <3>2, <3>3, KeptIsCopied DEF CopiesOnly
  <2>7. QED
    BY <1>4, <2>1, <2>2, <2>3, <2>4, <2>5, <2>6 DEF HandlerStep
<1>5. CASE Tick \/ DeadlineFires
  <2>1. run \in LiveRuns /\ run \in Copies
    BY <1>5 DEF Tick, DeadlineFires, Copies
  <2>2. SameUsage(run', run)
    BY <1>5, <2>1 DEF Tick, DeadlineFires, SameUsage, LiveRuns
  <2>3. SnapshotsKeptStep /\ UNCHANGED <<row, cp>>
    BY <1>5 DEF SnapshotsKeptStep, Tick, DeadlineFires, store
  <2>4. QED
    BY <1>1, <2>1, <2>2, <2>3, CopiedAgain
<1>6. CASE Crash
  BY <1>1, <1>6, KeptIsCopied DEF SnapshotsKeptStep, Crash, store
<1>7. CASE Restart
  <2>1. SnapshotsKeptStep /\ UNCHANGED <<cp, act>>
    BY <1>7 DEF SnapshotsKeptStep, Restart
  <2>2. Copied(row') /\ Copied(run')
    <3>1. CASE row # Nil /\ ~Terminal(row)
      <4>1. PICK latest \in {cp, Nil} :
              /\ run' = Reloaded(Reconciled(row, latest))
              /\ row' \in {row, Reconciled(row, latest)}
        BY <1>7, <3>1 DEF Restart
      <4>2. row \in Rows /\ row \in Copies /\ (latest # Nil => latest \in Copies)
        BY <3>1 DEF Copies
      <4>3. Copied(Reconciled(row, latest))
        BY <4>2, UsageKept, CopiedAgain
      <4>4. Copied(Reloaded(Reconciled(row, latest)))
        <5>1. Reconciled(row, latest) \in Rows
          BY <4>2, PersistedTypes
        <5>2. SameUsage(Reloaded(Reconciled(row, latest)), Reconciled(row, latest))
          BY <5>1, UsageKept
        <5>3. Reconciled(row, latest) # Nil
          BY <5>1, ConstantsAssumption
        <5>4. QED
          BY <4>3, <5>2, <5>3 DEF Copied, SameUsage
      <4>5. QED
        BY <4>1, <4>3, <4>4, KeptIsCopied
    <3>2. CASE ~(row # Nil /\ ~Terminal(row))
      BY <1>7, <3>2, KeptIsCopied DEF Restart
    <3>3. QED
      BY <3>1, <3>2
  <2>3. QED
    BY <2>1, <2>2, KeptIsCopied DEF CopiesOnly
<1>8. QED
  BY <1>2, <1>3, <1>4, <1>5, <1>6, <1>7 DEF Next

\* The copies after a step, by where they come from.
LEMMA CopiesAfter ==
    ASSUME TypeInv, Next, NEW u \in Copies'
    PROVE  \/ \E v \in Copies \cup {NewRun} : SameUsage(u, v)
           \/ u = run' /\ \E c \in Clients : BeginStep(c) \/ RecordCall(c)
<1>1. u # Nil /\ (u \in {run', row', cp'} \/ \E c \in Clients : u = act'[c].snap)
  BY DEF Copies
<1>2. Copied(u) \/ (u = run' /\ \E c \in Clients : BeginStep(c) \/ RecordCall(c))
  BY <1>1, UsageFlow DEF CopiesOnly
<1>3. QED
  BY <1>1, <1>2 DEF Copied

\* Every copy holds numbers.
LEMMA CopiesTyped ==
    ASSUME TypeInv, NEW u \in Copies
    PROVE  u.tokens \in Nat /\ u.dollars \in Nat /\ u.loops \in Nat
<1>1. u \in LiveRuns \cup Rows \cup Checkpoints
  BY DEF TypeInv, TypeOK, Copies, Actors
<1>2. QED
  BY <1>1 DEF LiveRuns, Rows, Checkpoints

\* What the two methods that change usage do to it.
LEMMA UsageChanges ==
    ASSUME NEW g \in LiveRuns, NEW k \in Charges
    PROVE  /\ PreStep(g).tokens = g.tokens /\ PreStep(g).dollars = g.dollars
           /\ (Budget.loops > 0 /\ g.loops <= Budget.loops) => PreStep(g).loops <= Budget.loops
           /\ RecordUsage(g, k).tokens = g.tokens + k.tokens
           /\ RecordUsage(g, k).dollars = g.dollars + k.dollars
           /\ RecordUsage(g, k).loops = g.loops
<1>1. \A h \in LiveRuns, r \in HaltReasons : SameUsage(HaltLocked(h, r), h)
  BY DEF HaltLocked, LiveRuns, SameUsage
<1>2. \A h \in LiveRuns : SameUsage(CheckLocked(h), h)
  BY UsageKept DEF CanProceed
<1>3. /\ PreStep(g).tokens = g.tokens /\ PreStep(g).dollars = g.dollars
      /\ (Budget.loops > 0 /\ g.loops <= Budget.loops) => PreStep(g).loops <= Budget.loops
  <2>1. CASE PreStep(g) = [g EXCEPT !.loops = @ + 1] /\ ~(Budget.loops > 0 /\ g.loops + 1 > Budget.loops)
    BY <2>1, BudgetAssumption DEF LiveRuns
  <2>2. CASE PreStep(g) = g \/ \E r \in HaltReasons : PreStep(g) = HaltLocked(g, r)
    BY <1>1, <2>2 DEF SameUsage
  <2>3. QED
    BY <2>1, <2>2 DEF PreStep, HaltReasons
<1>4. DEFINE h == [g EXCEPT !.tokens = @ + k.tokens, !.dollars = @ + k.dollars]
<1>5. h.tokens = g.tokens + k.tokens /\ h.dollars = g.dollars + k.dollars /\ h.loops = g.loops
  BY DEF LiveRuns
<1>6. h \in LiveRuns
  <2>1. \A t, d \in Nat : [g EXCEPT !.tokens = t, !.dollars = d] \in LiveRuns
    BY DEF LiveRuns
  <2>2. g.tokens + k.tokens \in Nat /\ g.dollars + k.dollars \in Nat
    BY DEF LiveRuns, Charges
  <2>3. QED
    BY <2>1, <2>2, Zenon
<1>7. RecordUsage(g, k) = CheckLocked(h)
  BY DEF RecordUsage
<1>8. QED
  <2>1. SameUsage(CheckLocked(h), h)
    BY <1>2, <1>6
  <2>2. QED
    BY <1>3, <1>5, <1>7, <2>1 DEF SameUsage

\* The goroutine that changes usage holds the run.
LEMMA ChargedRun ==
    ASSUME TypeInv, NEW c \in Clients, BeginStep(c) \/ RecordCall(c)
    PROVE  /\ run \in LiveRuns /\ run \in Copies /\ act[c].cost \in Charges
           /\ BeginStep(c) => run' = PreStep(run) /\ UNCHANGED metered
           /\ RecordCall(c) => /\ run' = RecordUsage(run, act[c].cost)
                               /\ metered' = Add(metered, act[c].cost)
<1>1. run \in LiveRuns /\ run # Nil
  <2>1. run # Nil
    BY DEF TypeInv, ControlOK, GoroutineOK, BeginStep, RecordCall, At, ResolvePCs
  <2>2. QED
    BY <2>1 DEF TypeInv, TypeOK
<1>2. act[c].cost \in Charges
  BY DEF TypeInv, TypeOK, Actors
<1>3. QED
  BY <1>1, <1>2 DEF Copies, BeginStep, Guarded, RecordCall

----------------------------------------------------------------------------
(* The loop cap.                                                           *)

LoopsCapped == Budget.loops > 0 => \A u \in Copies : u.loops <= Budget.loops

\* No copy of the usage, live or durable, ever exceeds the loop cap, and so
\* neither a reload nor a late write can push the run past it (PreStep).
THEOREM LoopCapHolds == Spec => []LoopCap
<1>1. Init => LoopsCapped
  BY DEF Init, LoopsCapped, Copies, IdleActor
<1>2. TypeInv /\ LoopsCapped /\ [Next]_vars => LoopsCapped'
  <2>1. SUFFICES ASSUME TypeInv, LoopsCapped, [Next]_vars, Budget.loops > 0, NEW u \in Copies'
                 PROVE  u.loops <= Budget.loops
    BY DEF LoopsCapped
  <2>2. CASE UNCHANGED vars
    BY <2>1, <2>2 DEF vars, LoopsCapped, Copies
  <2>3. CASE Next
    <3>1. CASE \E v \in Copies \cup {NewRun} : SameUsage(u, v)
      BY <2>1, <3>1, BudgetAssumption DEF LoopsCapped, SameUsage, NewRun
    <3>2. CASE u = run' /\ \E c \in Clients : BeginStep(c) \/ RecordCall(c)
      <4>1. PICK c \in Clients : BeginStep(c) \/ RecordCall(c)
        BY <3>2
      <4>2. /\ run \in LiveRuns /\ run \in Copies /\ act[c].cost \in Charges
            /\ run' = PreStep(run) \/ run' = RecordUsage(run, act[c].cost)
        BY <2>1, <4>1, ChargedRun
      <4>3. run.loops <= Budget.loops
        BY <2>1, <4>2 DEF LoopsCapped
      <4>4. QED
        <5>1. /\ PreStep(run).loops <= Budget.loops
              /\ RecordUsage(run, act[c].cost).loops = run.loops
          BY <2>1, <4>2, <4>3, UsageChanges
        <5>2. QED
          BY <3>2, <4>2, <4>3, <5>1
    <3>3. QED
      BY <2>1, <2>3, <3>1, <3>2, CopiesAfter
  <2>4. QED
    BY <2>1, <2>2, <2>3
<1>3. LoopsCapped => LoopCap
  BY DEF LoopsCapped, LoopCap, Copies
<1>4. QED
  BY <1>1, <1>2, <1>3, TypeInvInductive, PTL DEF Spec

----------------------------------------------------------------------------
(* Nothing is charged twice.                                               *)

CopiesOnMeter == \A u \in Copies : u.tokens <= metered.tokens /\ u.dollars <= metered.dollars

\* Whatever is crashed, reloaded, rolled back or written late, no copy of the
\* usage exceeds the sum of what was passed to RecordUsage.
THEOREM NothingChargedTwiceHolds == Spec => []NothingChargedTwice
<1>1. Init => CopiesOnMeter
  BY DEF Init, CopiesOnMeter, Copies, IdleActor
<1>2. TypeInv /\ CopiesOnMeter /\ [Next]_vars => CopiesOnMeter'
  <2>1. SUFFICES ASSUME TypeInv, CopiesOnMeter, [Next]_vars, NEW u \in Copies'
                 PROVE  u.tokens <= metered'.tokens /\ u.dollars <= metered'.dollars
    BY DEF CopiesOnMeter
  <2>2. metered \in Charges
    BY <2>1 DEF TypeInv, TypeOK
  <2>3. CASE UNCHANGED vars
    BY <2>1, <2>3 DEF vars, CopiesOnMeter, Copies
  <2>4. CASE Next
    <3>1. UNCHANGED metered \/ \E c \in Clients : RecordCall(c)
      <4>1. ASSUME NEW c \in Clients, HandlerStep(c)
            PROVE  UNCHANGED metered \/ RecordCall(c)
        BY <4>1 DEF HandlerStep, Resolve, RestoreFromStore, ReloadRun, UpsertRollback, Register,
             RunRecord, UpsertRun, BeginStep, StepIndex, PersistStepStart, Ceiling, Dispatch, Refuse,
             ReportFailure, AppendLedger, PersistStepEnd, ReadCheckpoint, SaveCheckpoint, Kill
      <4>2. ASSUME NEW c \in Clients, ProviderStep(c)
            PROVE  UNCHANGED metered
        BY <4>2 DEF ProviderStep, ProviderReturns, StreamOpens, StreamEnds, ProviderFails
      <4>3. ASSUME NEW c \in Clients, NEW op \in Operations, Request(c, op)
            PROVE  UNCHANGED metered
        BY <4>3 DEF Request
      <4>4. CASE Create \/ Tick \/ DeadlineFires \/ Crash \/ Restart
        BY <4>4 DEF Create, Tick, DeadlineFires, Crash, Restart
      <4>5. QED
        BY <2>4, <4>1, <4>2, <4>3, <4>4 DEF Next
    <3>2. metered'.tokens >= metered.tokens /\ metered'.dollars >= metered.dollars
          /\ metered'.tokens \in Nat /\ metered'.dollars \in Nat
      <4>1. CASE UNCHANGED metered
        BY <2>2, <4>1 DEF Charges
      <4>2. ASSUME NEW c \in Clients, RecordCall(c)
            PROVE  metered'.tokens >= metered.tokens /\ metered'.dollars >= metered.dollars
                   /\ metered'.tokens \in Nat /\ metered'.dollars \in Nat
        <5>1. act[c].cost \in Charges /\ metered' = Add(metered, act[c].cost)
          BY <2>1, <4>2, ChargedRun
        <5>2. QED
          BY <2>2, <5>1 DEF Add, Charges
      <4>3. QED
        BY <3>1, <4>1, <4>2
    <3>3. CASE \E v \in Copies \cup {NewRun} : SameUsage(u, v)
      <4>1. PICK v \in Copies \cup {NewRun} : SameUsage(u, v)
        BY <3>3
      <4>2. /\ v.tokens \in Nat /\ v.dollars \in Nat
            /\ v.tokens <= metered.tokens /\ v.dollars <= metered.dollars
        <5>1. CASE v \in Copies
          BY <2>1, <5>1, CopiesTyped DEF CopiesOnMeter
        <5>2. CASE v = NewRun
          BY <2>2, <5>2 DEF NewRun, Charges
        <5>3. QED
          BY <5>1, <5>2
      <4>3. QED
        BY <2>2, <3>2, <4>1, <4>2 DEF SameUsage, Charges
    <3>4. ASSUME u = run', NEW c \in Clients, BeginStep(c) \/ RecordCall(c)
          PROVE  u.tokens <= metered'.tokens /\ u.dollars <= metered'.dollars
      <4>1. /\ run \in LiveRuns /\ run \in Copies /\ act[c].cost \in Charges
            /\ \/ run' = PreStep(run) /\ metered' = metered
               \/ run' = RecordUsage(run, act[c].cost) /\ metered' = Add(metered, act[c].cost)
        BY <2>1, <3>4, ChargedRun
      <4>2. run.tokens <= metered.tokens /\ run.dollars <= metered.dollars
        BY <2>1, <4>1 DEF CopiesOnMeter
      <4>3. CASE run' = PreStep(run) /\ metered' = metered
        BY <3>4, <4>1, <4>2, <4>3, UsageChanges
      <4>4. CASE run' = RecordUsage(run, act[c].cost) /\ metered' = Add(metered, act[c].cost)
        <5>1. /\ run'.tokens = run.tokens + act[c].cost.tokens
              /\ run'.dollars = run.dollars + act[c].cost.dollars
          BY <4>1, <4>4, UsageChanges
        <5>2. /\ metered'.tokens = metered.tokens + act[c].cost.tokens
              /\ metered'.dollars = metered.dollars + act[c].cost.dollars
          BY <4>4 DEF Add
        <5>3. QED
          BY <2>2, <3>4, <4>1, <4>2, <5>1, <5>2 DEF LiveRuns, Charges
      <4>5. QED
        BY <4>1, <4>3, <4>4
    <3>5. QED
      BY <2>1, <2>4, <3>3, <3>4, CopiesAfter
  <2>5. QED
    BY <2>1, <2>3, <2>4
<1>3. CopiesOnMeter => NothingChargedTwice
  BY DEF CopiesOnMeter, NothingChargedTwice, Copies
<1>4. QED
  BY <1>1, <1>2, <1>3, TypeInvInductive, PTL DEF Spec

----------------------------------------------------------------------------
(* A halt is final.                                                        *)

\* How a step may change the live run.
LEMMA RunChanges ==
    ASSUME TypeInv, Next
    PROVE  \/ run' = run \/ run' = Nil
           \/ run = Nil /\ (run' = NewRun \/ \E rec \in Rows : run' = Reloaded(rec))
           \/ /\ run \in LiveRuns
              /\ \/ run' \in {PreStep(run), CanProceed(run), Cancel(run)}
                 \/ run' \in {[run EXCEPT !.elapsed = @ + 1], [run EXCEPT !.ctxDone = TRUE]}
                 \/ \E c \in Clients : /\ RecordCall(c) /\ act[c].cost \in Charges
                                        /\ run' = RecordUsage(run, act[c].cost)
<1> USE DEF TypeInv, TypeOK
<1>1. CASE Create
  BY <1>1 DEF Create
<1>2. CASE \E c \in Clients, op \in Operations : Request(c, op)
  BY <1>2 DEF Request, mem
<1>3. ASSUME NEW c \in Clients, HandlerStep(c) \/ ProviderStep(c)
      PROVE  \/ run' = run
             \/ run = Nil /\ (run' = NewRun \/ \E rec \in Rows : run' = Reloaded(rec))
             \/ /\ run \in LiveRuns
                /\ \/ run' \in {PreStep(run), CanProceed(run), Cancel(run)}
                   \/ /\ RecordCall(c) /\ act[c].cost \in Charges
                      /\ run' = RecordUsage(run, act[c].cost)
  <2>0. act[c] \in Actors /\ GoroutineOK(c)
    BY DEF ControlOK
  <2>1. CASE Register(c)
    BY <2>0, <2>1 DEF Register, At, GoroutineOK
  <2>2. CASE BeginStep(c) \/ Ceiling(c) \/ Kill(c)
    BY <2>0, <2>2 DEF BeginStep, Ceiling, Kill, Guarded, At, GoroutineOK, ResolvePCs
  <2>3. CASE RecordCall(c)
    BY <2>3, ChargedRun
  <2>4. CASE ~(Register(c) \/ BeginStep(c) \/ Ceiling(c) \/ Kill(c) \/ RecordCall(c))
    BY <1>3, <2>4
    DEF HandlerStep, ProviderStep, Resolve, RestoreFromStore, ReloadRun, UpsertRollback, RunRecord,
        UpsertRun, StepIndex, PersistStepStart, Dispatch, Refuse, ReportFailure, AppendLedger,
        PersistStepEnd, ReadCheckpoint, SaveCheckpoint, ProviderReturns, StreamOpens, StreamEnds,
        ProviderFails, mem
  <2>5. QED
    BY <2>1, <2>2, <2>3, <2>4
<1>4. CASE Tick \/ DeadlineFires \/ Crash
  BY <1>4 DEF Tick, DeadlineFires, Crash
<1>5. CASE Restart
  <2>1. run = Nil
    BY <1>5 DEF Restart, ControlOK
  <2>2. CASE row # Nil /\ ~Terminal(row)
    BY <1>5, <2>1, <2>2, PersistedTypes DEF Restart
  <2>3. CASE ~(row # Nil /\ ~Terminal(row))
    BY <1>5, <2>3 DEF Restart
  <2>4. QED
    BY <2>2, <2>3
<1>6. QED
  BY <1>1, <1>2, <1>3, <1>4, <1>5 DEF Next

\* The kill switch has fired whenever a reason is recorded.
HaltCancels == run # Nil => (run.halted # HaltNone => run.ctxDone)

\* While the process lives, the first halt reason stays, no further iteration
\* is admitted and the Context stays cancelled (haltLocked, PreStep).
THEOREM HaltIsFinalHolds == Spec => HaltIsFinal
<1>1. Init => HaltCancels
  BY DEF Init, HaltCancels
<1>2. ASSUME TypeInv, HaltCancels, [Next]_vars
      PROVE  /\ HaltCancels'
             /\ (run # Nil /\ run.halted # HaltNone /\ run' # Nil) =>
                   /\ run'.halted = run.halted /\ run'.loops = run.loops
                   /\ run.ctxDone /\ run'.ctxDone
  <2>1. CASE run' = run \/ run' = Nil
    BY <1>2, <2>1 DEF HaltCancels
  <2>2. CASE run = Nil /\ (run' = NewRun \/ \E rec \in Rows : run' = Reloaded(rec))
    <3>1. NewRun.halted = HaltNone
      BY DEF NewRun
    <3>2. \A u, r : RestoredRun(u, r).halted = r /\ RestoredRun(u, r).ctxDone = (r # HaltNone)
      BY DEF RestoredRun, NewRun
    <3>3. \A u, r : RestoredRun(u, r).halted # HaltNone => RestoredRun(u, r).ctxDone
      BY <3>2
    <3>4. run'.halted # HaltNone => run'.ctxDone
      <4>1. CASE run' = NewRun
        BY <3>1, <4>1
      <4>2. CASE \E rec \in Rows : run' = Reloaded(rec)
        <5>1. PICK u, r : run' = RestoredRun(u, r)
          BY <4>2 DEF Reloaded
        <5>2. QED
          BY <3>3, <5>1
      <4>3. QED
        BY <2>2, <4>1, <4>2
    <3>5. QED
      BY <2>2, <3>4 DEF HaltCancels
  <2>3. CASE /\ run \in LiveRuns
             /\ \/ run' \in {PreStep(run), CanProceed(run), Cancel(run)}
                \/ run' \in {[run EXCEPT !.elapsed = @ + 1], [run EXCEPT !.ctxDone = TRUE]}
                \/ \E k \in Charges : run' = RecordUsage(run, k)
    <3>1. run # Nil /\ (run.halted # HaltNone => run.ctxDone)
      BY <1>2, <2>3, ConstantsAssumption DEF HaltCancels
    <3>2. NoCharge \in Charges
      BY DEF NoCharge, Charges
    <3>3. /\ run'.halted # HaltNone => run'.ctxDone
          /\ run.halted # HaltNone => run'.halted = run.halted /\ run'.loops = run.loops /\ run'.ctxDone
      <4>1. CASE \E k \in Charges : run' = RecordUsage(run, k)
        BY <2>3, <3>1, <4>1, HaltLemma
      <4>2. CASE ~\E k \in Charges : run' = RecordUsage(run, k)
        BY <2>3, <3>1, <3>2, <4>2, HaltLemma
      <4>3. QED
        BY <4>1, <4>2
    <3>4. QED
      BY <3>1, <3>3 DEF HaltCancels
  <2>4. QED
    BY <1>2, <2>1, <2>2, <2>3, RunChanges DEF vars
<1>3. QED
  BY <1>1, <1>2, TypeInvInductive, PTL DEF Spec, HaltIsFinal

----------------------------------------------------------------------------
(* The overshoot of the hard ceiling.                                      *)

\* What a goroutine carries is the cost of one call, or nothing.
CostsOK == \A c \in Clients : act[c].cost \in Costs \cup {NoCharge}

\* How a step of c's handler, or of its provider, moves c: only Ceiling lets a
\* call through, and only when the run is not halted; RecordCall settles it.
LEMMA Admission ==
    ASSUME TypeInv, "otlp" \notin Operations, NEW c \in Clients, HandlerStep(c) \/ ProviderStep(c)
    PROVE  /\ \A d \in Clients \ {c} : act'[d] = act[d]
           /\ act'[c].cost \in {act[c].cost, NoCharge} \cup Costs
           /\ act'[c].pc \in AdmittedPCs =>
                 \/ act[c].pc \in AdmittedPCs /\ ~RecordCall(c)
                 \/ Ceiling(c) /\ CanProceed(run).halted = HaltNone
<1>0. act \in [Clients -> Actors] /\ act[c] \in Actors /\ GoroutineOK(c)
  BY DEF TypeInv, TypeOK, ControlOK
<1>1. ASSUME NEW pc, Goto(c, pc)
      PROVE  /\ \A d \in Clients \ {c} : act'[d] = act[d]
             /\ act'[c].cost = act[c].cost /\ act'[c].pc = pc
  BY <1>0, <1>1 DEF Goto, Actors
<1>2. ASSUME NEW code, NEW why, Answer(c, code, why)
      PROVE  /\ \A d \in Clients \ {c} : act'[d] = act[d]
             /\ act'[c].cost = NoCharge /\ act'[c].pc = "idle"
  BY <1>0, <1>2 DEF Answer, IdleActor
<1>3. act[c].op \in Operations => Entry(act[c].op) \in {"prestep", "cp.read", "kill"}
  BY ConstantsAssumption DEF Entry, AllOperations
<1>4. RecordCall(c) => act[c].pc = "meter"
  BY DEF RecordCall, At
<1>5. CASE \/ UpsertRollback(c) \/ PersistStepStart(c) \/ AppendLedger(c) \/ PersistStepEnd(c) \/ Kill(c)
  <2>1. PICK pc \in {"register", "begin.record", "stepend", "call.record", "kill.record"} : Goto(c, pc)
    BY <1>5 DEF UpsertRollback, PersistStepStart, AppendLedger, PersistStepEnd, Kill
  <2>2. QED
    BY <1>1, <2>1 DEF AdmittedPCs
<1>6. CASE Dispatch(c) \/ StreamOpens(c)
  <2>1. PICK pc \in {"inflight", "streaming"} : Goto(c, pc)
    BY <1>6 DEF Dispatch, StreamOpens
  <2>2. act[c].pc \in {"route", "inflight"}
    BY <1>6 DEF Dispatch, StreamOpens, At
  <2>3. QED
    BY <1>1, <1>4, <2>1, <2>2 DEF AdmittedPCs
<1>7. CASE Refuse(c) \/ ReportFailure(c) \/ SaveCheckpoint(c)
  <2>1. \E code, why : Answer(c, code, why)
    BY <1>7 DEF Refuse, ReportFailure, AnswerHalt, SaveCheckpoint
  <2>2. QED
    BY <1>2, <2>1 DEF AdmittedPCs
<1>8. CASE Resolve(c) \/ UpsertRun(c)
  <2>1. act[c].op \in Operations
    BY <1>0, <1>8 DEF Resolve, UpsertRun, At, UpsertPCs, GoroutineOK
  <2>2. \/ \E pc \in {"prestep", "cp.read", "kill", "restore", "ceiling"} : Goto(c, pc)
        \/ \E code, why : Answer(c, code, why)
    <3>1. CASE Resolve(c)
      BY <1>3, <2>1, <3>1 DEF Resolve
    <3>2. CASE UpsertRun(c)
      BY <1>3, <2>1, <3>2 DEF UpsertRun, UpsertPCs, AfterUpsert, AnswerHalt
    <3>3. QED
      BY <1>8, <3>1, <3>2
  <2>3. QED
    BY <1>1, <1>2, <2>2 DEF AdmittedPCs
<1>9. CASE RestoreFromStore(c)
  BY <1>0, <1>9 DEF RestoreFromStore, Actors, AdmittedPCs
<1>10. CASE ReloadRun(c)
  BY <1>0, <1>10 DEF ReloadRun, Actors, AdmittedPCs
<1>11. CASE Register(c)
  <2>1. act[c].op \in Operations
    BY <1>0, <1>11 DEF Register, At, GoroutineOK
  <2>2. /\ \A d \in Clients \ {c} : act'[d] = act[d]
        /\ act'[c].cost = act[c].cost /\ act'[c].pc \in {"mint.record", Entry(act[c].op)}
    BY <1>0, <1>11 DEF Register, Actors
  <2>3. QED
    BY <1>3, <2>1, <2>2 DEF AdmittedPCs
<1>12. CASE RunRecord(c)
  <2>1. UpsertAfter(act[c].pc) \in UpsertPCs
    BY <1>12 DEF RunRecord, RecordPCs, UpsertPCs, UpsertAfter
  <2>2. /\ \A d \in Clients \ {c} : act'[d] = act[d]
        /\ act'[c].cost = act[c].cost /\ act'[c].pc = UpsertAfter(act[c].pc)
    BY <1>0, <1>12 DEF RunRecord, Actors
  <2>3. QED
    BY <2>1, <2>2 DEF AdmittedPCs, UpsertPCs
<1>13. CASE BeginStep(c)
  BY <1>0, <1>13 DEF BeginStep, Guarded, Actors, AdmittedPCs
<1>14. CASE Ceiling(c)
  BY <1>0, <1>14 DEF Ceiling, Guarded, Actors, AdmittedPCs
<1>15. CASE StepIndex(c) \/ ReadCheckpoint(c)
  BY <1>0, <1>15 DEF StepIndex, ReadCheckpoint, Actors, AdmittedPCs
<1>16. CASE RecordCall(c)
  BY <1>0, <1>16 DEF RecordCall, Actors, AdmittedPCs
<1>17. CASE ProviderReturns(c) \/ StreamEnds(c)
  <2>1. PICK cost \in Costs \cup {NoCharge} : act' = [act EXCEPT ![c].cost = cost, ![c].pc = "meter"]
    BY <1>17 DEF ProviderReturns, StreamEnds
  <2>2. act[c].pc \in {"inflight", "streaming"}
    BY <1>17 DEF ProviderReturns, StreamEnds, At
  <2>3. (\A d \in Clients \ {c} : act'[d] = act[d]) /\ act'[c].cost = cost
    BY <1>0, <2>1 DEF Actors
  <2>4. QED
    BY <1>4, <2>2, <2>3 DEF AdmittedPCs
<1>18. CASE \E cause \in {"context", "client", "provider"} : ProviderFails(c, cause)
  BY <1>0, <1>18 DEF ProviderFails, Actors, AdmittedPCs
<1>19. QED
  BY <1>5, <1>6, <1>7, <1>8, <1>9, <1>10, <1>11, <1>12, <1>13, <1>14, <1>15, <1>16, <1>17, <1>18
  DEF HandlerStep, ProviderStep

\* Which calls are unsettled after a step.
LEMMA UnsettledAfter ==
    ASSUME TypeInv, "otlp" \notin Operations, Next
    PROVE  \/ Unsettled' \subseteq Unsettled /\ \A c \in Clients : ~RecordCall(c)
           \/ \E c \in Unsettled : RecordCall(c) /\ Unsettled' \subseteq Unsettled \ {c}
           \/ \E c \in Clients : Ceiling(c) /\ CanProceed(run).halted = HaltNone
<1>0. act \in [Clients -> Actors]
  BY DEF TypeInv, TypeOK
<1>1. ASSUME NEW c \in Clients, HandlerStep(c) \/ ProviderStep(c)
      PROVE  \/ Unsettled' \subseteq Unsettled /\ ~RecordCall(c)
             \/ c \in Unsettled /\ RecordCall(c) /\ Unsettled' \subseteq Unsettled \ {c}
             \/ Ceiling(c) /\ CanProceed(run).halted = HaltNone
  <2>1. RecordCall(c) => c \in Unsettled
    BY DEF RecordCall, At, Unsettled, AdmittedPCs
  <2>2. QED
    BY <1>1, <2>1, Admission DEF Unsettled
<1>2. ASSUME NEW c \in Clients, NEW d \in Clients, RecordCall(d), HandlerStep(c) \/ ProviderStep(c)
      PROVE  d = c
  <2>1. act'[d].pc = "ledger" /\ act[d].pc = "meter"
    BY <1>0, <1>2 DEF RecordCall, At, Actors
  <2>2. QED
    BY <1>2, <2>1, Admission
<1>3. ASSUME NEW c \in Clients, NEW op \in Operations, Request(c, op)
      PROVE  /\ Unsettled' \subseteq Unsettled
             /\ \A d \in Clients : ~RecordCall(d)
  <2>1. /\ \A d \in Clients \ {c} : act'[d] = act[d]
        /\ act'[c].pc = "resolve"
    BY <1>0, <1>3 DEF Request, IdleActor
  <2>2. \A d \in Clients : RecordCall(d) => act[d].pc = "meter" /\ act'[d].pc = "ledger"
    BY <1>0 DEF RecordCall, At, Actors
  <2>3. QED
    BY <2>1, <2>2 DEF Unsettled, AdmittedPCs
<1>4. CASE Create \/ Tick \/ DeadlineFires \/ Crash \/ Restart
  <2>1. \A d \in Clients : act'[d] = act[d] \/ act'[d].pc = "idle"
    BY <1>4 DEF Create, Tick, DeadlineFires, Crash, Restart, IdleActor
  <2>2. \A d \in Clients : RecordCall(d) => act[d].pc = "meter" /\ act'[d].pc = "ledger"
    BY <1>0 DEF RecordCall, At, Actors
  <2>3. QED
    BY <2>1, <2>2 DEF Unsettled, AdmittedPCs
<1>5. QED
  BY <1>1, <1>2, <1>3, <1>4 DEF Next

\* What a step can do to the spending and to the unsettled calls together.
LEMMA SpendingStep ==
    ASSUME TypeInv, CostsOK, "otlp" \notin Operations, Next, run' # Nil
    PROVE  \/ /\ run # Nil /\ Unsettled' \subseteq Unsettled
              /\ run'.dollars = run.dollars /\ run'.tokens = run.tokens
           \/ /\ run # Nil
              /\ \E c \in Unsettled : Unsettled' \subseteq Unsettled \ {c}
              /\ run'.dollars <= run.dollars + MaxCost.dollars
              /\ run'.tokens <= run.tokens + MaxCost.tokens
           \/ /\ Budget.dollars > 0 => run'.dollars < Budget.dollars
              /\ Budget.tokens > 0 => run'.tokens < Budget.tokens
           \/ /\ Unsettled' = {}
              /\ \E v \in Copies \cup {NewRun} : SameUsage(run', v)
<1> USE DEF TypeInv, TypeOK
<1>1. CASE \E c \in Clients : Ceiling(c) /\ CanProceed(run).halted = HaltNone
  <2>1. PICK c \in Clients : Ceiling(c) /\ CanProceed(run).halted = HaltNone
    BY <1>1
  <2>2. run \in LiveRuns /\ run' = CanProceed(run)
    BY <2>1 DEF Ceiling, Guarded, At, ControlOK, GoroutineOK, ResolvePCs
  <2>3. QED
    BY <2>1, <2>2, UnderBudget
<1>2. CASE \E c \in Unsettled : RecordCall(c) /\ Unsettled' \subseteq Unsettled \ {c}
  <2>1. PICK c \in Unsettled : RecordCall(c) /\ Unsettled' \subseteq Unsettled \ {c}
    BY <1>2
  <2>2. c \in Clients
    BY <2>1 DEF Unsettled
  <2>3. /\ run \in LiveRuns /\ run # Nil /\ act[c].cost \in Charges
        /\ run' = RecordUsage(run, act[c].cost)
    BY <2>1, <2>2, ChargedRun, ConstantsAssumption
  <2>4. /\ act[c].cost.dollars <= MaxCost.dollars /\ act[c].cost.tokens <= MaxCost.tokens
        /\ MaxCost.dollars \in Nat /\ MaxCost.tokens \in Nat
    BY <2>2, ConstantsAssumption DEF CostsOK, NoCharge, Charges
  <2>5. /\ run'.tokens = run.tokens + act[c].cost.tokens
        /\ run'.dollars = run.dollars + act[c].cost.dollars
    BY <2>3, UsageChanges
  <2>6. QED
    BY <2>1, <2>3, <2>4, <2>5 DEF LiveRuns, Charges
<1>3. CASE Unsettled' \subseteq Unsettled /\ \A c \in Clients : ~RecordCall(c)
  <2>1. CASE run # Nil
    <3>1. \/ run' = run
          \/ /\ run \in LiveRuns
             /\ \/ run' \in {PreStep(run), CanProceed(run), Cancel(run)}
                \/ run' \in {[run EXCEPT !.elapsed = @ + 1], [run EXCEPT !.ctxDone = TRUE]}
      BY <1>3, <2>1, RunChanges
    <3>2. NoCharge \in Charges
      BY DEF NoCharge, Charges
    <3>3. run'.dollars = run.dollars /\ run'.tokens = run.tokens
      <4>1. CASE run' = PreStep(run) /\ run \in LiveRuns
        BY <3>2, <4>1, UsageChanges
      <4>2. CASE run' \in {CanProceed(run), Cancel(run)} /\ run \in LiveRuns
        BY <4>2, UsageKept DEF SameUsage
      <4>3. CASE /\ run \in LiveRuns
                 /\ run' \in {[run EXCEPT !.elapsed = @ + 1], [run EXCEPT !.ctxDone = TRUE]}
        BY <4>3 DEF LiveRuns
      <4>4. QED
        BY <3>1, <4>1, <4>2, <4>3
    <3>4. QED
      BY <1>3, <2>1, <3>3
  <2>2. CASE run = Nil
    <3>1. Unsettled = {}
      BY <2>2 DEF Unsettled, AdmittedPCs, ControlOK, GoroutineOK, ResolvePCs
    <3>2. ~\E c \in Clients : BeginStep(c) \/ RecordCall(c)
      BY <1>3, <2>2 DEF BeginStep, At, ControlOK, GoroutineOK, ResolvePCs
    <3>3. Copied(run')
      BY <3>2, UsageFlow
    <3>4. QED
      BY <1>3, <3>1, <3>3 DEF Copied
  <2>3. QED
    BY <2>1, <2>2
<1>4. QED
  BY <1>1, <1>2, <1>3, UnsettledAfter

\* With y spent and the calls of V unsettled, each of which can cost m, the
\* budget b is exceeded by less than one such call per client.
Room(y, m, b, V) == y + m * Cardinality(V) <= b - 1 + m * Cardinality(Clients)

\* How room is kept: nothing is spent; one call is settled; a call is let
\* through below the budget; nothing is unsettled.
LEMMA RoomKept ==
    ASSUME NEW x \in Nat, NEW y \in Nat, NEW m \in Nat, NEW b \in Nat \ {0},
           NEW U \in SUBSET Clients, NEW V \in SUBSET Clients,
           \/ y = x /\ V \subseteq U /\ Room(x, m, b, U)
           \/ y <= x + m /\ Room(x, m, b, U) /\ \E c \in U : V \subseteq U \ {c}
           \/ y < b
           \/ V = {} /\ Room(y, m, b, {})
    PROVE  Room(y, m, b, V)
<1>0. /\ IsFiniteSet(Clients) /\ IsFiniteSet(U) /\ IsFiniteSet(V)
      /\ Cardinality(Clients) \in Nat /\ Cardinality(U) \in Nat /\ Cardinality(V) \in Nat
  BY ConstantsAssumption, FS_Subset, FS_CardinalityType
<1>1. \A i, j \in Nat : i <= j => m * i <= m * j
  <2>1. SUFFICES ASSUME NEW i \in Nat, NEW j \in Nat, i <= j PROVE m * i <= m * j
    OBVIOUS
  <2>2. PICK k \in Nat : j = i + k
    <3>1. j - i \in Nat /\ j = i + (j - i)
      BY <2>1
    <3>2. QED
      BY <3>1
  <2>3. m * j = m * i + m * k /\ m * k >= 0 /\ m * i \in Nat /\ m * k \in Nat
    BY <2>2
  <2>4. QED
    BY <2>3
<1>2. CASE y = x /\ V \subseteq U /\ Room(x, m, b, U)
  <2>1. Cardinality(V) <= Cardinality(U)
    BY <1>0, <1>2, FS_Subset
  <2>2. m * Cardinality(V) <= m * Cardinality(U)
    BY <1>0, <1>1, <2>1
  <2>3. m * Cardinality(V) \in Nat /\ m * Cardinality(U) \in Nat /\ m * Cardinality(Clients) \in Nat
    BY <1>0
  <2>4. QED
    BY <1>2, <2>2, <2>3 DEF Room
<1>3. CASE y <= x + m /\ Room(x, m, b, U) /\ \E c \in U : V \subseteq U \ {c}
  <2>1. PICK c \in U : V \subseteq U \ {c}
    BY <1>3
  <2>2. IsFiniteSet(U \ {c}) /\ Cardinality(U \ {c}) = Cardinality(U) - 1
    BY <1>0, FS_RemoveElement
  <2>3. Cardinality(V) <= Cardinality(U) - 1
    BY <2>1, <2>2, FS_Subset
  <2>4. Cardinality(V) + 1 \in Nat /\ Cardinality(V) + 1 <= Cardinality(U)
    BY <1>0, <2>3
  <2>5. m * (Cardinality(V) + 1) <= m * Cardinality(U)
    BY <1>0, <1>1, <2>4
  <2>6. m * (Cardinality(V) + 1) = m * Cardinality(V) + m
    BY <1>0
  <2>7. m * Cardinality(V) \in Nat /\ m * Cardinality(U) \in Nat /\ m * Cardinality(Clients) \in Nat
    BY <1>0
  <2>8. QED
    BY <1>3, <2>5, <2>6, <2>7 DEF Room
<1>4. CASE y < b
  <2>1. Cardinality(V) <= Cardinality(Clients)
    BY <1>0, FS_Subset
  <2>2. m * Cardinality(V) <= m * Cardinality(Clients)
    BY <1>0, <1>1, <2>1
  <2>3. m * Cardinality(V) \in Nat /\ m * Cardinality(Clients) \in Nat
    BY <1>0
  <2>4. QED
    BY <1>4, <2>2, <2>3 DEF Room
<1>5. CASE V = {} /\ Room(y, m, b, {})
  BY <1>5
<1>6. QED
  BY <1>2, <1>3, <1>4, <1>5

\* A smaller set of unsettled calls needs less room.
LEMMA RoomWithoutCalls ==
    ASSUME NEW x \in Nat, NEW m \in Nat, NEW b \in Nat \ {0},
           NEW U \in SUBSET Clients, Room(x, m, b, U)
    PROVE  Room(x, m, b, {})
BY RoomKept

\* The hard ceiling within one process lifetime: the live run leaves room for the
\* unsettled calls, and every copy it may be reloaded from leaves room for none.
OvershootInv ==
    /\ CostsOK
    /\ Budget.dollars > 0 =>
         /\ run # Nil => Room(run.dollars, MaxCost.dollars, Budget.dollars, Unsettled)
         /\ \A u \in Copies : Room(u.dollars, MaxCost.dollars, Budget.dollars, {})
    /\ Budget.tokens > 0 =>
         /\ run # Nil => Room(run.tokens, MaxCost.tokens, Budget.tokens, Unsettled)
         /\ \A u \in Copies : Room(u.tokens, MaxCost.tokens, Budget.tokens, {})

\* A run that has spent nothing has room.
LEMMA RoomAtZero ==
    ASSUME NEW m \in Nat, NEW b \in Nat \ {0}
    PROVE  Room(0, m, b, {})
<1>1. Cardinality(Clients) \in Nat
  BY ConstantsAssumption, FS_CardinalityType
<1>2. Cardinality({}) = 0 /\ m * 0 = 0 /\ m * Cardinality(Clients) \in Nat
  BY <1>1, FS_EmptySet
<1>3. QED
  BY <1>2 DEF Room

\* Costs stay what providers charge.
LEMMA CostsOKStep ==
    ASSUME TypeInv, CostsOK, "otlp" \notin Operations, [Next]_vars
    PROVE  CostsOK'
<1>0. act \in [Clients -> Actors]
  BY DEF TypeInv, TypeOK
<1>1. CASE UNCHANGED vars
  BY <1>1 DEF vars, CostsOK
<1>2. ASSUME NEW c \in Clients, NEW op \in Operations, Request(c, op)
      PROVE  CostsOK'
  <2>1. PICK cost \in Costs \cup {NoCharge} :
          act' = [act EXCEPT ![c] = [IdleActor EXCEPT !.pc = "resolve", !.op = op, !.cost = cost]]
    BY <1>2 DEF Request, Posted
  <2>2. act'[c].cost = cost /\ \A d \in Clients \ {c} : act'[d] = act[d]
    BY <1>0, <2>1 DEF IdleActor
  <2>3. QED
    BY <2>2 DEF CostsOK
<1>3. ASSUME NEW c \in Clients, HandlerStep(c) \/ ProviderStep(c)
      PROVE  CostsOK'
  BY <1>3, Admission DEF CostsOK
<1>4. CASE Create \/ Tick \/ DeadlineFires \/ Crash \/ Restart
  BY <1>4 DEF Create, Tick, DeadlineFires, Crash, Restart, IdleActor, CostsOK
<1>5. QED
  BY <1>1, <1>2, <1>3, <1>4 DEF Next

\* Without spans from the OTLP ingress, calls admitted together take the live run
\* past a budget by less than one maximal call per client, whatever interleaves
\* between CanProceed and RecordUsage (governedCall).
LEMMA CeilingInductive ==
    /\ Init => OvershootInv
    /\ "otlp" \notin Operations /\ TypeInv /\ OvershootInv /\ [Next]_vars => OvershootInv'
<1>0. /\ Budget.dollars \in Nat /\ Budget.tokens \in Nat
      /\ MaxCost.dollars \in Nat /\ MaxCost.tokens \in Nat
  BY BudgetAssumption, ConstantsAssumption DEF Charges
<1>1. Init => OvershootInv
  <2>1. SUFFICES ASSUME Init PROVE OvershootInv
    OBVIOUS
  <2>2. run = Nil /\ row = Nil /\ cp = Nil
        /\ \A c \in Clients : act[c].snap = Nil /\ act[c].cost = NoCharge
    BY <2>1 DEF Init, IdleActor
  <2>3. QED
    BY <2>2 DEF OvershootInv, CostsOK, Copies
<1>2. "otlp" \notin Operations /\ TypeInv /\ OvershootInv /\ [Next]_vars => OvershootInv'
  <2>1. SUFFICES ASSUME "otlp" \notin Operations, TypeInv, TypeInv', OvershootInv, [Next]_vars
                 PROVE  OvershootInv'
    BY TypeInvInductive
  <2>2. CASE UNCHANGED vars
    BY <2>1, <2>2 DEF vars, OvershootInv, CostsOK, Unsettled, Copies
  <2>3. CASE Next
    <3>1. CostsOK /\ CostsOK'
      BY <2>1, CostsOKStep DEF OvershootInv
    <3>2. Unsettled \in SUBSET Clients /\ Unsettled' \in SUBSET Clients
      BY DEF Unsettled
    <3>3. /\ run # Nil => run \in Copies
          /\ run' # Nil => run'.dollars \in Nat /\ run'.tokens \in Nat
      BY <2>1 DEF Copies, TypeInv, TypeOK, LiveRuns
    <3>4. \A v \in Copies \cup {NewRun} : v.dollars \in Nat /\ v.tokens \in Nat
      BY <2>1, CopiesTyped DEF NewRun
    <3>5. NewRun.dollars = 0 /\ NewRun.tokens = 0
      BY DEF NewRun
    <3>6. ASSUME Budget.dollars > 0
          PROVE  /\ run' # Nil => Room(run'.dollars, MaxCost.dollars, Budget.dollars, Unsettled')
                 /\ \A u \in Copies' : Room(u.dollars, MaxCost.dollars, Budget.dollars, {})
      <4>1. \A v \in Copies \cup {NewRun} : Room(v.dollars, MaxCost.dollars, Budget.dollars, {})
        BY <1>0, <2>1, <3>5, <3>6, RoomAtZero DEF OvershootInv
      <4>2. ASSUME run' # Nil
            PROVE  Room(run'.dollars, MaxCost.dollars, Budget.dollars, Unsettled')
        <5>1. \/ /\ run # Nil /\ Unsettled' \subseteq Unsettled /\ run'.dollars = run.dollars
              \/ /\ run # Nil /\ run'.dollars <= run.dollars + MaxCost.dollars
                 /\ \E c \in Unsettled : Unsettled' \subseteq Unsettled \ {c}
              \/ run'.dollars < Budget.dollars
              \/ Unsettled' = {} /\ \E v \in Copies \cup {NewRun} : run'.dollars = v.dollars
          BY <2>1, <2>3, <3>1, <3>6, <4>2, SpendingStep DEF SameUsage
        <5>2. run # Nil => Room(run.dollars, MaxCost.dollars, Budget.dollars, Unsettled)
          BY <2>1, <3>6 DEF OvershootInv
        <5>3. /\ run # Nil => run.dollars \in Nat
              /\ run'.dollars \in Nat /\ Budget.dollars \in Nat \ {0}
          BY <1>0, <3>3, <3>4, <3>6, <4>2
        <5>4. CASE run # Nil /\ Unsettled' \subseteq Unsettled /\ run'.dollars = run.dollars
          <6>1. Room(run.dollars, MaxCost.dollars, Budget.dollars, Unsettled)
            BY <5>2, <5>4
          <6>2. QED
            BY <1>0, <3>2, <5>3, <5>4, <6>1, RoomKept
        <5>5. CASE /\ run # Nil /\ run'.dollars <= run.dollars + MaxCost.dollars
                   /\ \E c \in Unsettled : Unsettled' \subseteq Unsettled \ {c}
          <6>1. Room(run.dollars, MaxCost.dollars, Budget.dollars, Unsettled)
            BY <5>2, <5>5
          <6>2. QED
            BY <1>0, <3>2, <5>3, <5>5, <6>1, RoomKept
        <5>6. CASE run'.dollars < Budget.dollars
          BY <1>0, <3>2, <5>3, <5>6, RoomKept
        <5>7. CASE Unsettled' = {} /\ \E v \in Copies \cup {NewRun} : run'.dollars = v.dollars
          BY <4>1, <5>7
        <5>8. QED
          BY <5>1, <5>4, <5>5, <5>6, <5>7
      <4>3. ASSUME NEW u \in Copies'
            PROVE  Room(u.dollars, MaxCost.dollars, Budget.dollars, {})
        <5>1. (\E v \in Copies \cup {NewRun} : u.dollars = v.dollars) \/ u = run'
          BY <2>1, <2>3, CopiesAfter DEF SameUsage
        <5>2. CASE u = run'
          <6>1. run' # Nil
            BY <5>2 DEF Copies
          <6>2. QED
            BY <1>0, <3>2, <3>3, <3>6, <4>2, <5>2, <6>1, RoomWithoutCalls
        <5>3. QED
          BY <4>1, <5>1, <5>2
      <4>4. QED
        BY <4>2, <4>3
    <3>7. ASSUME Budget.tokens > 0
          PROVE  /\ run' # Nil => Room(run'.tokens, MaxCost.tokens, Budget.tokens, Unsettled')
                 /\ \A u \in Copies' : Room(u.tokens, MaxCost.tokens, Budget.tokens, {})
      <4>1. \A v \in Copies \cup {NewRun} : Room(v.tokens, MaxCost.tokens, Budget.tokens, {})
        BY <1>0, <2>1, <3>5, <3>7, RoomAtZero DEF OvershootInv
      <4>2. ASSUME run' # Nil
            PROVE  Room(run'.tokens, MaxCost.tokens, Budget.tokens, Unsettled')
        <5>1. \/ /\ run # Nil /\ Unsettled' \subseteq Unsettled /\ run'.tokens = run.tokens
              \/ /\ run # Nil /\ run'.tokens <= run.tokens + MaxCost.tokens
                 /\ \E c \in Unsettled : Unsettled' \subseteq Unsettled \ {c}
              \/ run'.tokens < Budget.tokens
              \/ Unsettled' = {} /\ \E v \in Copies \cup {NewRun} : run'.tokens = v.tokens
          BY <2>1, <2>3, <3>1, <3>7, <4>2, SpendingStep DEF SameUsage
        <5>2. run # Nil => Room(run.tokens, MaxCost.tokens, Budget.tokens, Unsettled)
          BY <2>1, <3>7 DEF OvershootInv
        <5>3. /\ run # Nil => run.tokens \in Nat
              /\ run'.tokens \in Nat /\ Budget.tokens \in Nat \ {0}
          BY <1>0, <3>3, <3>4, <3>7, <4>2
        <5>4. CASE run # Nil /\ Unsettled' \subseteq Unsettled /\ run'.tokens = run.tokens
          <6>1. Room(run.tokens, MaxCost.tokens, Budget.tokens, Unsettled)
            BY <5>2, <5>4
          <6>2. QED
            BY <1>0, <3>2, <5>3, <5>4, <6>1, RoomKept
        <5>5. CASE /\ run # Nil /\ run'.tokens <= run.tokens + MaxCost.tokens
                   /\ \E c \in Unsettled : Unsettled' \subseteq Unsettled \ {c}
          <6>1. Room(run.tokens, MaxCost.tokens, Budget.tokens, Unsettled)
            BY <5>2, <5>5
          <6>2. QED
            BY <1>0, <3>2, <5>3, <5>5, <6>1, RoomKept
        <5>6. CASE run'.tokens < Budget.tokens
          BY <1>0, <3>2, <5>3, <5>6, RoomKept
        <5>7. CASE Unsettled' = {} /\ \E v \in Copies \cup {NewRun} : run'.tokens = v.tokens
          BY <4>1, <5>7
        <5>8. QED
          BY <5>1, <5>4, <5>5, <5>6, <5>7
      <4>3. ASSUME NEW u \in Copies'
            PROVE  Room(u.tokens, MaxCost.tokens, Budget.tokens, {})
        <5>1. (\E v \in Copies \cup {NewRun} : u.tokens = v.tokens) \/ u = run'
          BY <2>1, <2>3, CopiesAfter DEF SameUsage
        <5>2. CASE u = run'
          <6>1. run' # Nil
            BY <5>2 DEF Copies
          <6>2. QED
            BY <1>0, <3>2, <3>3, <3>7, <4>2, <5>2, <6>1, RoomWithoutCalls
        <5>3. QED
          BY <4>1, <5>1, <5>2
      <4>4. QED
        BY <4>2, <4>3
    <3>8. QED
      BY <3>1, <3>6, <3>7 DEF OvershootInv
  <2>4. QED
    BY <2>1, <2>2, <2>3
<1>3. QED
  BY <1>1, <1>2

----------------------------------------------------------------------------
(* The steps of a handler, register by register, as the invariants below   *)
(* see them.                                                               *)

Others(c) == \A d \in Clients \ {c} : act'[d] = act[d]

\* c moves on with what it holds.
Moves(c, pc) ==
    /\ Others(c) /\ act'[c].pc = pc
    /\ act'[c].why = act[c].why /\ act'[c].snap = act[c].snap /\ act'[c].cost = act[c].cost

\* c answers and holds nothing any more.
Answers(c, code, why) ==
    /\ Others(c) /\ act'[c].pc = "idle" /\ act'[c].code = code /\ act'[c].why = why
    /\ act'[c].snap = Nil /\ act'[c].cost = NoCharge

\* c sets out on the work of its operation; only a span is metered at once.
EntryPCs == {"prestep", "cp.read", "kill"} \cup (IF "otlp" \in Operations THEN {"meter"} ELSE {})

\* A statement on the row or a child table succeeds or fails.
RowWritten(rec) ==
    \/ row' = rec /\ UNCHANGED faults
    \/ row' = row /\ faults' = faults + 1

\* The model's own register operators do what those name.
LEMMA Registers ==
    ASSUME TypeInv, NEW c \in Clients
    PROVE  /\ \A pc : Goto(c, pc) => Moves(c, pc)
           /\ \A code, why : Answer(c, code, why) => Answers(c, code, why)
           /\ act[c].op \in Operations => Entry(act[c].op) \in EntryPCs
           /\ act[c] \in Actors /\ act \in [Clients -> Actors] /\ GoroutineOK(c)
<1>1. act[c] \in Actors /\ act \in [Clients -> Actors] /\ GoroutineOK(c)
  BY DEF TypeInv, TypeOK, ControlOK
<1>2. \A pc : Goto(c, pc) => Moves(c, pc)
  BY <1>1 DEF Goto, Moves, Others, Actors
<1>3. \A code, why : Answer(c, code, why) => Answers(c, code, why)
  BY <1>1 DEF Answer, Answers, Others, IdleActor
<1>4. act[c].op \in Operations => Entry(act[c].op) \in EntryPCs
  BY ConstantsAssumption DEF Entry, EntryPCs, AllOperations
<1>5. QED
  BY <1>1, <1>2, <1>3, <1>4

\* The lookup of the run.
LEMMA LookupEffects ==
    ASSUME TypeInv, NEW c \in Clients
    PROVE  /\ Resolve(c) =>
                /\ act[c].pc = "resolve" /\ UNCHANGED <<run, row, cp, ledger, metered, crashes, faults>>
                /\ \/ run # Nil /\ \E pc \in EntryPCs : Moves(c, pc)
                   \/ run = Nil /\ Moves(c, "restore")
                   \/ run = Nil /\ Answers(c, "404", HaltNone)
           /\ RestoreFromStore(c) =>
                /\ act[c].pc = "restore" /\ UNCHANGED <<run, row, cp, ledger, metered, crashes>>
                /\ Others(c) /\ act'[c].why = act[c].why /\ act'[c].cost = act[c].cost
                /\ act'[c].pc = IF act'[c].snap = Nil THEN "register"
                                ELSE IF Terminal(act'[c].snap) THEN "register" ELSE "reload"
                /\ \/ act'[c].snap = row /\ UNCHANGED faults
                   \/ act'[c].snap = Nil /\ faults' = faults + 1
           /\ ReloadRun(c) =>
                /\ act[c].pc = "reload" /\ UNCHANGED <<run, row, cp, ledger, metered, crashes>>
                /\ Others(c) /\ act'[c].why = act[c].why /\ act'[c].cost = act[c].cost
                /\ act'[c].pc = IF act'[c].snap = act[c].snap THEN "register" ELSE "rollback.upsert"
                /\ \/ act'[c].snap = Reconciled(act[c].snap, cp) /\ UNCHANGED faults
                   \/ act'[c].snap = Reconciled(act[c].snap, Nil) /\ faults' = faults + 1
           /\ UpsertRollback(c) =>
                /\ act[c].pc = "rollback.upsert" /\ UNCHANGED <<run, cp, ledger, metered, crashes>>
                /\ RowWritten(act[c].snap) /\ Moves(c, "register")
           /\ Register(c) =>
                /\ act[c].pc = "register" /\ UNCHANGED <<row, cp, ledger, metered, crashes, faults>>
                /\ Others(c) /\ act'[c].why = act[c].why /\ act'[c].cost = act[c].cost
                /\ act'[c].snap = Nil
                /\ \/ run # Nil /\ run' = run /\ act'[c].pc \in EntryPCs
                   \/ run = Nil /\ act[c].snap = Nil /\ run' = NewRun /\ act'[c].pc = "mint.record"
                   \/ run = Nil /\ act[c].snap # Nil /\ run' = Reloaded(act[c].snap) /\ act'[c].pc \in EntryPCs
<1>0. act[c] \in Actors /\ act \in [Clients -> Actors] /\ GoroutineOK(c)
  BY Registers
<1>1. ASSUME Resolve(c)
      PROVE  /\ act[c].pc = "resolve" /\ UNCHANGED <<run, row, cp, ledger, metered, crashes, faults>>
             /\ \/ run # Nil /\ \E pc \in EntryPCs : Moves(c, pc)
                \/ run = Nil /\ Moves(c, "restore")
                \/ run = Nil /\ Answers(c, "404", HaltNone)
  <2>1. act[c].pc = "resolve" /\ UNCHANGED <<run, row, cp, ledger, metered, crashes, faults>>
    BY <1>1 DEF Resolve, At, mem, store
  <2>2. act[c].op \in Operations
    BY <1>0, <2>1 DEF GoroutineOK
  <2>3. \/ run # Nil /\ Goto(c, Entry(act[c].op))
        \/ run = Nil /\ Goto(c, "restore")
        \/ run = Nil /\ Answer(c, "404", HaltNone)
    BY <1>1 DEF Resolve
  <2>4. QED
    BY <2>1, <2>2, <2>3, Registers
<1>2. ASSUME RestoreFromStore(c)
      PROVE  /\ act[c].pc = "restore" /\ UNCHANGED <<run, row, cp, ledger, metered, crashes>>
             /\ Others(c) /\ act'[c].why = act[c].why /\ act'[c].cost = act[c].cost
             /\ act'[c].pc = IF act'[c].snap = Nil THEN "register"
                             ELSE IF Terminal(act'[c].snap) THEN "register" ELSE "reload"
             /\ \/ act'[c].snap = row /\ UNCHANGED faults
                \/ act'[c].snap = Nil /\ faults' = faults + 1
  <2>1. act[c].pc = "restore" /\ UNCHANGED <<run, row, cp, ledger, metered, crashes>>
    BY <1>2 DEF RestoreFromStore, At, mem, store
  <2>2. PICK found \in {row, Nil} :
          /\ IF found = row THEN UNCHANGED faults ELSE faults' = faults + 1
          /\ act' = [act EXCEPT ![c].snap = found,
                                ![c].pc = IF found = Nil THEN "register"
                                          ELSE IF Terminal(found) THEN "register" ELSE "reload"]
    BY <1>2 DEF RestoreFromStore, Fault
  <2>3. /\ Others(c) /\ act'[c].why = act[c].why /\ act'[c].cost = act[c].cost
        /\ act'[c].snap = found
        /\ act'[c].pc = IF found = Nil THEN "register"
                        ELSE IF Terminal(found) THEN "register" ELSE "reload"
    BY <1>0, <2>2 DEF Others, Actors
  <2>4. QED
    BY <2>1, <2>2, <2>3
<1>3. ASSUME ReloadRun(c)
      PROVE  /\ act[c].pc = "reload" /\ UNCHANGED <<run, row, cp, ledger, metered, crashes>>
             /\ Others(c) /\ act'[c].why = act[c].why /\ act'[c].cost = act[c].cost
             /\ act'[c].pc = IF act'[c].snap = act[c].snap THEN "register" ELSE "rollback.upsert"
             /\ \/ act'[c].snap = Reconciled(act[c].snap, cp) /\ UNCHANGED faults
                \/ act'[c].snap = Reconciled(act[c].snap, Nil) /\ faults' = faults + 1
  <2>1. act[c].pc = "reload" /\ UNCHANGED <<run, row, cp, ledger, metered, crashes>>
    BY <1>3 DEF ReloadRun, At, mem, store
  <2>0. PICK latest \in {cp, Nil} :
          /\ IF latest = cp THEN UNCHANGED faults ELSE faults' = faults + 1
          /\ act' = [act EXCEPT ![c].snap = Reconciled(act[c].snap, latest),
                                ![c].pc = IF Reconciled(act[c].snap, latest) = act[c].snap
                                          THEN "register" ELSE "rollback.upsert"]
    BY <1>3 DEF ReloadRun, Fault
  <2>2. PICK rec :
          /\ rec = Reconciled(act[c].snap, latest)
          /\ IF latest = cp THEN UNCHANGED faults ELSE faults' = faults + 1
          /\ act' = [act EXCEPT ![c].snap = rec,
                                ![c].pc = IF rec = act[c].snap THEN "register" ELSE "rollback.upsert"]
    BY <2>0
  <2>3. /\ Others(c) /\ act'[c].why = act[c].why /\ act'[c].cost = act[c].cost
        /\ act'[c].snap = rec
        /\ act'[c].pc = IF rec = act[c].snap THEN "register" ELSE "rollback.upsert"
    BY <1>0, <2>2 DEF Others, Actors
  <2>4. QED
    BY <2>1, <2>2, <2>3
<1>4. ASSUME UpsertRollback(c)
      PROVE  /\ act[c].pc = "rollback.upsert" /\ UNCHANGED <<run, cp, ledger, metered, crashes>>
             /\ RowWritten(act[c].snap) /\ Moves(c, "register")
  <2>1. Goto(c, "register")
    BY <1>4 DEF UpsertRollback
  <2>2. Moves(c, "register")
    BY <2>1, Registers
  <2>3. QED
    BY <1>4, <2>2 DEF UpsertRollback, At, mem, RowWritten, Fault
<1>5. ASSUME Register(c)
      PROVE  /\ act[c].pc = "register" /\ UNCHANGED <<row, cp, ledger, metered, crashes, faults>>
             /\ Others(c) /\ act'[c].why = act[c].why /\ act'[c].cost = act[c].cost
             /\ act'[c].snap = Nil
             /\ \/ run # Nil /\ run' = run /\ act'[c].pc \in EntryPCs
                \/ run = Nil /\ act[c].snap = Nil /\ run' = NewRun /\ act'[c].pc = "mint.record"
                \/ run = Nil /\ act[c].snap # Nil /\ run' = Reloaded(act[c].snap) /\ act'[c].pc \in EntryPCs
  <2>1. act[c].pc = "register" /\ UNCHANGED <<row, cp, ledger, metered, crashes, faults>>
    BY <1>5 DEF Register, At, store
  <2>2. Entry(act[c].op) \in EntryPCs
    BY <1>0, <2>1, Registers DEF GoroutineOK
  <2>3. PICK pc : /\ act' = [act EXCEPT ![c].snap = Nil, ![c].pc = pc]
                  /\ pc = IF run = Nil /\ act[c].snap = Nil THEN "mint.record" ELSE Entry(act[c].op)
    BY <1>5 DEF Register
  <2>4. /\ Others(c) /\ act'[c].why = act[c].why /\ act'[c].cost = act[c].cost
        /\ act'[c].snap = Nil /\ act'[c].pc = pc
    BY <1>0, <2>3 DEF Others, Actors
  <2>5. run' = IF run # Nil THEN run ELSE IF act[c].snap = Nil THEN NewRun ELSE Reloaded(act[c].snap)
    BY <1>5 DEF Register
  <2>6. QED
    BY <2>1, <2>2, <2>3, <2>4, <2>5
<1>6. QED
  BY <1>1, <1>2, <1>3, <1>4, <1>5

\* persistRun.
LEMMA PersistEffects ==
    ASSUME TypeInv, NEW c \in Clients
    PROVE  /\ RunRecord(c) =>
                /\ UNCHANGED <<run, row, cp, ledger, metered, crashes, faults>>
                /\ Others(c) /\ act'[c].why = act[c].why /\ act'[c].cost = act[c].cost
                /\ act'[c].snap = Record(run)
                /\ \/ act[c].pc = "mint.record" /\ act'[c].pc = "mint.upsert"
                   \/ act[c].pc = "begin.record" /\ act'[c].pc = "begin.upsert"
                   \/ act[c].pc = "halt.record" /\ act'[c].pc = "halt.upsert"
                   \/ act[c].pc = "call.record" /\ act'[c].pc = "call.upsert"
                   \/ act[c].pc = "kill.record" /\ act'[c].pc = "kill.upsert"
           /\ UpsertRun(c) =>
                /\ UNCHANGED <<run, cp, ledger, metered, crashes>> /\ RowWritten(act[c].snap)
                /\ \/ act[c].pc = "mint.upsert" /\ \E pc \in EntryPCs : Moves(c, pc)
                   \/ act[c].pc = "begin.upsert" /\ Answers(c, "200", HaltNone)
                   \/ act[c].pc = "begin.upsert" /\ Moves(c, "ceiling")
                   \/ act[c].pc = "halt.upsert" /\ \E code \in {"402", "500"} : Answers(c, code, act[c].why)
                   \/ act[c].pc = "call.upsert" /\ Moves(c, "cp.read")
                   \/ act[c].pc = "kill.upsert" /\ Answers(c, "200", HaltNone)
<1>0. act[c] \in Actors /\ act \in [Clients -> Actors] /\ GoroutineOK(c)
  BY Registers
<1>1. ASSUME RunRecord(c)
      PROVE  /\ UNCHANGED <<run, row, cp, ledger, metered, crashes, faults>>
             /\ Others(c) /\ act'[c].why = act[c].why /\ act'[c].cost = act[c].cost
             /\ act'[c].snap = Record(run)
             /\ \/ act[c].pc = "mint.record" /\ act'[c].pc = "mint.upsert"
                \/ act[c].pc = "begin.record" /\ act'[c].pc = "begin.upsert"
                \/ act[c].pc = "halt.record" /\ act'[c].pc = "halt.upsert"
                \/ act[c].pc = "call.record" /\ act'[c].pc = "call.upsert"
                \/ act[c].pc = "kill.record" /\ act'[c].pc = "kill.upsert"
  <2>1. PICK pc, rec : /\ act' = [act EXCEPT ![c].snap = rec, ![c].pc = pc]
                       /\ rec = Record(run) /\ pc = UpsertAfter(act[c].pc)
    BY <1>1 DEF RunRecord
  <2>2. /\ Others(c) /\ act'[c].why = act[c].why /\ act'[c].cost = act[c].cost
        /\ act'[c].snap = rec /\ act'[c].pc = pc
    BY <1>0, <2>1 DEF Others, Actors
  <2>3. \/ act[c].pc = "mint.record" /\ pc = "mint.upsert"
        \/ act[c].pc = "begin.record" /\ pc = "begin.upsert"
        \/ act[c].pc = "halt.record" /\ pc = "halt.upsert"
        \/ act[c].pc = "call.record" /\ pc = "call.upsert"
        \/ act[c].pc = "kill.record" /\ pc = "kill.upsert"
    BY <1>1, <2>1 DEF RunRecord, RecordPCs, UpsertAfter
  <2>4. UNCHANGED <<run, row, cp, ledger, metered, crashes, faults>>
    BY <1>1 DEF RunRecord, mem, store
  <2>5. QED
    BY <2>1, <2>2, <2>3, <2>4
<1>2. ASSUME UpsertRun(c)
      PROVE  /\ UNCHANGED <<run, cp, ledger, metered, crashes>> /\ RowWritten(act[c].snap)
             /\ \/ act[c].pc = "mint.upsert" /\ \E pc \in EntryPCs : Moves(c, pc)
                \/ act[c].pc = "begin.upsert" /\ Answers(c, "200", HaltNone)
                \/ act[c].pc = "begin.upsert" /\ Moves(c, "ceiling")
                \/ act[c].pc = "halt.upsert" /\ \E code \in {"402", "500"} : Answers(c, code, act[c].why)
                \/ act[c].pc = "call.upsert" /\ Moves(c, "cp.read")
                \/ act[c].pc = "kill.upsert" /\ Answers(c, "200", HaltNone)
  <2>1. act[c].pc \in UpsertPCs /\ AfterUpsert(c)
    BY <1>2 DEF UpsertRun
  <2>2. act[c].op \in Operations
    BY <1>0, <2>1 DEF GoroutineOK, UpsertPCs
  <2>3. \/ act[c].pc = "mint.upsert" /\ Goto(c, Entry(act[c].op))
        \/ act[c].pc = "begin.upsert" /\ Answer(c, "200", HaltNone)
        \/ act[c].pc = "begin.upsert" /\ Goto(c, "ceiling")
        \/ act[c].pc = "halt.upsert" /\ \E code \in {"402", "500"} : Answer(c, code, act[c].why)
        \/ act[c].pc = "call.upsert" /\ Goto(c, "cp.read")
        \/ act[c].pc = "kill.upsert" /\ Answer(c, "200", HaltNone)
    BY <2>1 DEF UpsertPCs, AfterUpsert, AnswerHalt
  <2>4. UNCHANGED <<run, cp, ledger, metered, crashes>> /\ RowWritten(act[c].snap)
    BY <1>2 DEF UpsertRun, mem, RowWritten, Fault
  <2>5. QED
    BY <2>2, <2>3, <2>4, Registers
<1>3. QED
  BY <1>1, <1>2

\* The guards and the provider call.
LEMMA CallEffects ==
    ASSUME TypeInv, NEW c \in Clients
    PROVE  /\ BeginStep(c) =>
                /\ act[c].pc = "prestep" /\ run # Nil /\ run' = PreStep(run)
                /\ UNCHANGED <<row, cp, ledger, metered, crashes, faults>>
                /\ Others(c) /\ act'[c].snap = act[c].snap /\ act'[c].cost = act[c].cost
                /\ act'[c].why = run'.halted
                /\ act'[c].pc = IF run'.halted # HaltNone THEN "halt.record" ELSE "index"
           /\ Ceiling(c) =>
                /\ act[c].pc = "ceiling" /\ run # Nil /\ run' = CanProceed(run)
                /\ UNCHANGED <<row, cp, ledger, metered, crashes, faults>>
                /\ Others(c) /\ act'[c].snap = act[c].snap /\ act'[c].cost = act[c].cost
                /\ act'[c].why = run'.halted
                /\ act'[c].pc = IF run'.halted # HaltNone THEN "halt.record" ELSE "route"
           /\ (\/ StepIndex(c) \/ PersistStepStart(c) \/ Dispatch(c) \/ StreamOpens(c)
               \/ \E cause \in {"context", "client", "provider"} : ProviderFails(c, cause)) =>
                /\ UNCHANGED <<run, row, cp, ledger, metered, crashes>> /\ run # Nil
                /\ UNCHANGED faults \/ faults' = faults + 1
                /\ \/ act[c].pc = "index" /\ Moves(c, "stepstart")
                   \/ act[c].pc = "stepstart" /\ Moves(c, "begin.record")
                   \/ act[c].pc = "route" /\ Moves(c, "inflight")
                   \/ act[c].pc = "inflight" /\ Moves(c, "streaming")
                   \/ act[c].pc = "inflight" /\ Moves(c, "failed")
           /\ (Refuse(c) \/ ReportFailure(c)) =>
                /\ UNCHANGED <<run, row, cp, ledger, metered, crashes, faults>> /\ run # Nil
                /\ act[c].pc \in {"route", "failed"}
                /\ \/ \E code \in {"400", "500", "501", "502"} : Answers(c, code, HaltNone)
                   \/ run.halted # HaltNone /\ Answers(c, "402", run.halted)
           /\ (ProviderReturns(c) \/ StreamEnds(c)) =>
                /\ UNCHANGED <<run, row, cp, ledger, metered, crashes, faults>> /\ run # Nil
                /\ act[c].pc \in {"inflight", "streaming"} /\ act'[c].pc = "meter"
                /\ Others(c) /\ act'[c].why = act[c].why /\ act'[c].snap = act[c].snap
                /\ act'[c].cost \in Costs \cup {NoCharge}
<1>0. act[c] \in Actors /\ act \in [Clients -> Actors] /\ GoroutineOK(c)
  BY Registers
<1>1. ASSUME NEW next, NEW pc, Guarded(c, next, pc)
      PROVE  /\ run' = next
             /\ Others(c) /\ act'[c].snap = act[c].snap /\ act'[c].cost = act[c].cost
             /\ act'[c].why = run'.halted
             /\ act'[c].pc = IF run'.halted # HaltNone THEN "halt.record" ELSE pc
  <2>1. PICK q, w : /\ act' = [act EXCEPT ![c].why = w, ![c].pc = q]
                    /\ w = next.halted /\ q = IF next.halted # HaltNone THEN "halt.record" ELSE pc
    BY <1>1 DEF Guarded
  <2>2. /\ Others(c) /\ act'[c].snap = act[c].snap /\ act'[c].cost = act[c].cost
        /\ act'[c].why = w /\ act'[c].pc = q
    BY <1>0, <2>1 DEF Others, Actors
  <2>3. QED
    BY <1>1, <2>1, <2>2 DEF Guarded
<1>2. BeginStep(c) =>
        /\ act[c].pc = "prestep" /\ run # Nil /\ run' = PreStep(run)
        /\ UNCHANGED <<row, cp, ledger, metered, crashes, faults>>
        /\ Others(c) /\ act'[c].snap = act[c].snap /\ act'[c].cost = act[c].cost
        /\ act'[c].why = run'.halted
        /\ act'[c].pc = IF run'.halted # HaltNone THEN "halt.record" ELSE "index"
  <2>1. BeginStep(c) => /\ act[c].pc = "prestep" /\ run # Nil
                        /\ UNCHANGED <<row, cp, ledger, metered, crashes, faults>>
    BY <1>0 DEF BeginStep, At, store, GoroutineOK, ResolvePCs
  <2>2. BeginStep(c) => Guarded(c, PreStep(run), "index")
    BY DEF BeginStep
  <2>3. QED
    BY <1>1, <2>1, <2>2
<1>3. Ceiling(c) =>
        /\ act[c].pc = "ceiling" /\ run # Nil /\ run' = CanProceed(run)
        /\ UNCHANGED <<row, cp, ledger, metered, crashes, faults>>
        /\ Others(c) /\ act'[c].snap = act[c].snap /\ act'[c].cost = act[c].cost
        /\ act'[c].why = run'.halted
        /\ act'[c].pc = IF run'.halted # HaltNone THEN "halt.record" ELSE "route"
  <2>1. Ceiling(c) => /\ act[c].pc = "ceiling" /\ run # Nil
                      /\ UNCHANGED <<row, cp, ledger, metered, crashes, faults>>
    BY <1>0 DEF Ceiling, At, store, GoroutineOK, ResolvePCs
  <2>2. Ceiling(c) => Guarded(c, CanProceed(run), "route")
    BY DEF Ceiling
  <2>3. QED
    BY <1>1, <2>1, <2>2
<1>4. ASSUME \/ StepIndex(c) \/ PersistStepStart(c) \/ Dispatch(c) \/ StreamOpens(c)
             \/ \E cause \in {"context", "client", "provider"} : ProviderFails(c, cause)
      PROVE  /\ UNCHANGED <<run, row, cp, ledger, metered, crashes>> /\ run # Nil
             /\ UNCHANGED faults \/ faults' = faults + 1
             /\ \/ act[c].pc = "index" /\ Moves(c, "stepstart")
                \/ act[c].pc = "stepstart" /\ Moves(c, "begin.record")
                \/ act[c].pc = "route" /\ Moves(c, "inflight")
                \/ act[c].pc = "inflight" /\ Moves(c, "streaming")
                \/ act[c].pc = "inflight" /\ Moves(c, "failed")
  <2>1. CASE StepIndex(c)
    <3>1. PICK i : act' = [act EXCEPT ![c].step = i, ![c].pc = "stepstart"]
      BY <2>1 DEF StepIndex
    <3>2. Moves(c, "stepstart")
      BY <1>0, <3>1 DEF Moves, Others, Actors
    <3>3. QED
      BY <1>0, <2>1, <3>2 DEF StepIndex, At, mem, store, GoroutineOK, ResolvePCs
  <2>2. CASE PersistStepStart(c)
    <3>1. Goto(c, "begin.record") /\ act[c].pc = "stepstart"
      BY <2>2 DEF PersistStepStart, At
    <3>2. UNCHANGED <<run, row, cp, ledger, metered, crashes>> /\ run # Nil
      BY <1>0, <2>2 DEF PersistStepStart, At, mem, GoroutineOK, ResolvePCs
    <3>3. UNCHANGED faults \/ faults' = faults + 1
      BY <2>2 DEF PersistStepStart, ChildWrite, Fault
    <3>4. QED
      BY <3>1, <3>2, <3>3, Registers
  <2>3. CASE Dispatch(c) \/ StreamOpens(c)
    <3>1. \/ Goto(c, "inflight") /\ act[c].pc = "route"
          \/ Goto(c, "streaming") /\ act[c].pc = "inflight"
      BY <2>3 DEF Dispatch, StreamOpens, At
    <3>2. UNCHANGED <<run, row, cp, ledger, metered, crashes, faults>> /\ run # Nil
      BY <1>0, <2>3 DEF Dispatch, StreamOpens, At, mem, store, GoroutineOK, ResolvePCs
    <3>3. QED
      BY <3>1, <3>2, Registers
  <2>4. CASE \E cause \in {"context", "client", "provider"} : ProviderFails(c, cause)
    <3>1. PICK cause : act' = [act EXCEPT ![c].cut = cause, ![c].pc = "failed"]
      BY <2>4 DEF ProviderFails
    <3>2. Moves(c, "failed")
      BY <1>0, <3>1 DEF Moves, Others, Actors
    <3>3. /\ UNCHANGED <<run, row, cp, ledger, metered, crashes, faults>> /\ run # Nil
          /\ act[c].pc = "inflight"
      BY <1>0, <2>4 DEF ProviderFails, At, mem, store, GoroutineOK, ResolvePCs
    <3>4. QED
      BY <3>2, <3>3
  <2>5. QED
    BY <1>4, <2>1, <2>2, <2>3, <2>4
<1>5. ASSUME Refuse(c) \/ ReportFailure(c)
      PROVE  /\ UNCHANGED <<run, row, cp, ledger, metered, crashes, faults>> /\ run # Nil
             /\ act[c].pc \in {"route", "failed"}
             /\ \/ \E code \in {"400", "500", "501", "502"} : Answers(c, code, HaltNone)
                \/ run.halted # HaltNone /\ Answers(c, "402", run.halted)
  <2>1. /\ UNCHANGED <<run, row, cp, ledger, metered, crashes, faults>> /\ run # Nil
        /\ act[c].pc \in {"route", "failed"}
    BY <1>0, <1>5 DEF Refuse, ReportFailure, At, mem, store, GoroutineOK, ResolvePCs
  <2>2. \/ \E code \in {"400", "500", "501", "502"} : Answer(c, code, HaltNone)
        \/ run.halted # HaltNone /\ Answer(c, "402", run.halted)
    BY <1>5 DEF Refuse, ReportFailure, AnswerHalt
  <2>3. QED
    BY <2>1, <2>2, Registers
<1>6. ASSUME ProviderReturns(c) \/ StreamEnds(c)
      PROVE  /\ UNCHANGED <<run, row, cp, ledger, metered, crashes, faults>> /\ run # Nil
             /\ act[c].pc \in {"inflight", "streaming"} /\ act'[c].pc = "meter"
             /\ Others(c) /\ act'[c].why = act[c].why /\ act'[c].snap = act[c].snap
             /\ act'[c].cost \in Costs \cup {NoCharge}
  <2>1. PICK cost \in Costs \cup {NoCharge} : act' = [act EXCEPT ![c].cost = cost, ![c].pc = "meter"]
    BY <1>6 DEF ProviderReturns, StreamEnds
  <2>2. /\ act'[c].pc = "meter" /\ act'[c].cost = cost
        /\ Others(c) /\ act'[c].why = act[c].why /\ act'[c].snap = act[c].snap
    BY <1>0, <2>1 DEF Others, Actors
  <2>3. /\ UNCHANGED <<run, row, cp, ledger, metered, crashes, faults>> /\ run # Nil
        /\ act[c].pc \in {"inflight", "streaming"}
    BY <1>0, <1>6 DEF ProviderReturns, StreamEnds, At, mem, store, GoroutineOK, ResolvePCs
  <2>4. QED
    BY <2>2, <2>3
<1>7. QED
  BY <1>2, <1>3, <1>4, <1>5, <1>6

\* The metering of a call, its persistence, the checkpoint and the kill switch.
LEMMA AccountEffects ==
    ASSUME TypeInv, NEW c \in Clients
    PROVE  /\ RecordCall(c) =>
                /\ act[c].pc = "meter" /\ act'[c].pc = "ledger" /\ run # Nil
                /\ run' = RecordUsage(run, act[c].cost) /\ metered' = Add(metered, act[c].cost)
                /\ UNCHANGED <<row, cp, ledger, crashes, faults>>
                /\ Others(c) /\ act'[c].snap = act[c].snap /\ act'[c].cost = act[c].cost
                /\ act'[c].why = run'.halted
           /\ AppendLedger(c) =>
                /\ act[c].pc = "ledger" /\ Moves(c, "stepend") /\ run # Nil
                /\ UNCHANGED <<run, row, cp, metered, crashes>>
                /\ \/ row # Nil /\ ledger' = Add(ledger, act[c].cost) /\ UNCHANGED faults
                   \/ row = Nil /\ UNCHANGED <<ledger, faults>>
                   \/ UNCHANGED ledger /\ faults' = faults + 1
           /\ PersistStepEnd(c) =>
                /\ act[c].pc = "stepend" /\ Moves(c, "call.record") /\ run # Nil
                /\ UNCHANGED <<run, row, cp, ledger, metered, crashes>>
                /\ UNCHANGED faults \/ faults' = faults + 1
           /\ ReadCheckpoint(c) =>
                /\ act[c].pc = "cp.read" /\ act'[c].pc = "cp.save" /\ run # Nil
                /\ UNCHANGED <<run, row, cp, ledger, metered, crashes, faults>>
                /\ Others(c) /\ act'[c].why = act[c].why /\ act'[c].cost = act[c].cost
                /\ act'[c].snap = Snapshot(run)
           /\ SaveCheckpoint(c) =>
                /\ act[c].pc = "cp.save" /\ run # Nil
                /\ UNCHANGED <<run, row, ledger, metered, crashes>>
                /\ \E code \in {"200", "500"}, why \in {act[c].why, HaltNone} : Answers(c, code, why)
                /\ \/ row # Nil /\ cp' = act[c].snap /\ UNCHANGED faults
                   \/ row = Nil /\ UNCHANGED <<cp, faults>>
                   \/ UNCHANGED cp /\ faults' = faults + 1
           /\ Kill(c) =>
                /\ act[c].pc = "kill" /\ Moves(c, "kill.record") /\ run # Nil /\ run' = Cancel(run)
                /\ UNCHANGED <<row, cp, ledger, metered, crashes, faults>>
<1>0. act[c] \in Actors /\ act \in [Clients -> Actors] /\ GoroutineOK(c)
  BY Registers
<1>1. ASSUME RecordCall(c)
      PROVE  /\ act[c].pc = "meter" /\ act'[c].pc = "ledger" /\ run # Nil
             /\ run' = RecordUsage(run, act[c].cost) /\ metered' = Add(metered, act[c].cost)
             /\ UNCHANGED <<row, cp, ledger, crashes, faults>>
             /\ Others(c) /\ act'[c].snap = act[c].snap /\ act'[c].cost = act[c].cost
             /\ act'[c].why = run'.halted
  <2>1. PICK w : w = RecordUsage(run, act[c].cost).halted
                   /\ act' = [act EXCEPT ![c].why = w, ![c].pc = "ledger"]
    BY <1>1 DEF RecordCall
  <2>2. /\ Others(c) /\ act'[c].snap = act[c].snap /\ act'[c].cost = act[c].cost
        /\ act'[c].why = w /\ act'[c].pc = "ledger"
    BY <1>0, <2>1 DEF Others, Actors
  <2>3. /\ act[c].pc = "meter" /\ run # Nil
        /\ run' = RecordUsage(run, act[c].cost) /\ metered' = Add(metered, act[c].cost)
        /\ UNCHANGED <<row, cp, ledger, crashes, faults>>
    BY <1>0, <1>1 DEF RecordCall, At, store, GoroutineOK, ResolvePCs
  <2>4. QED
    BY <2>1, <2>2, <2>3
<1>2. ASSUME AppendLedger(c)
      PROVE  /\ act[c].pc = "ledger" /\ Moves(c, "stepend") /\ run # Nil
             /\ UNCHANGED <<run, row, cp, metered, crashes>>
             /\ \/ row # Nil /\ ledger' = Add(ledger, act[c].cost) /\ UNCHANGED faults
                \/ row = Nil /\ UNCHANGED <<ledger, faults>>
                \/ UNCHANGED ledger /\ faults' = faults + 1
  <2>1. /\ act[c].pc = "ledger" /\ Goto(c, "stepend") /\ run # Nil
        /\ UNCHANGED <<run, row, cp, metered, crashes>>
    BY <1>0, <1>2 DEF AppendLedger, At, mem, GoroutineOK, ResolvePCs
  <2>2. \/ row # Nil /\ ledger' = Add(ledger, act[c].cost) /\ UNCHANGED faults
        \/ row = Nil /\ UNCHANGED <<ledger, faults>>
        \/ UNCHANGED ledger /\ faults' = faults + 1
    BY <1>2 DEF AppendLedger, ChildWrite, Fault
  <2>3. QED
    BY <2>1, <2>2, Registers
<1>3. ASSUME PersistStepEnd(c)
      PROVE  /\ act[c].pc = "stepend" /\ Moves(c, "call.record") /\ run # Nil
             /\ UNCHANGED <<run, row, cp, ledger, metered, crashes>>
             /\ UNCHANGED faults \/ faults' = faults + 1
  <2>1. /\ act[c].pc = "stepend" /\ Goto(c, "call.record") /\ run # Nil
        /\ UNCHANGED <<run, row, cp, ledger, metered, crashes>>
    BY <1>0, <1>3 DEF PersistStepEnd, At, mem, GoroutineOK, ResolvePCs
  <2>2. UNCHANGED faults \/ faults' = faults + 1
    BY <1>3 DEF PersistStepEnd, ChildWrite, Fault
  <2>3. QED
    BY <2>1, <2>2, Registers
<1>4. ASSUME ReadCheckpoint(c)
      PROVE  /\ act[c].pc = "cp.read" /\ act'[c].pc = "cp.save" /\ run # Nil
             /\ UNCHANGED <<run, row, cp, ledger, metered, crashes, faults>>
             /\ Others(c) /\ act'[c].why = act[c].why /\ act'[c].cost = act[c].cost
             /\ act'[c].snap = Snapshot(run)
  <2>1. PICK u : u = Snapshot(run) /\ act' = [act EXCEPT ![c].snap = u, ![c].pc = "cp.save"]
    BY <1>4 DEF ReadCheckpoint
  <2>2. /\ Others(c) /\ act'[c].why = act[c].why /\ act'[c].cost = act[c].cost
        /\ act'[c].snap = u /\ act'[c].pc = "cp.save"
    BY <1>0, <2>1 DEF Others, Actors
  <2>3. /\ act[c].pc = "cp.read" /\ run # Nil
        /\ UNCHANGED <<run, row, cp, ledger, metered, crashes, faults>>
    BY <1>0, <1>4 DEF ReadCheckpoint, At, mem, store, GoroutineOK, ResolvePCs
  <2>4. QED
    BY <2>1, <2>2, <2>3
<1>5. ASSUME SaveCheckpoint(c)
      PROVE  /\ act[c].pc = "cp.save" /\ run # Nil
             /\ UNCHANGED <<run, row, ledger, metered, crashes>>
             /\ \E code \in {"200", "500"}, why \in {act[c].why, HaltNone} : Answers(c, code, why)
             /\ \/ row # Nil /\ cp' = act[c].snap /\ UNCHANGED faults
                \/ row = Nil /\ UNCHANGED <<cp, faults>>
                \/ UNCHANGED cp /\ faults' = faults + 1
  <2>1. /\ act[c].pc = "cp.save" /\ run # Nil
        /\ UNCHANGED <<run, row, ledger, metered, crashes>>
    BY <1>0, <1>5 DEF SaveCheckpoint, At, mem, GoroutineOK, ResolvePCs
  <2>2. \E code \in {"200", "500"}, why \in {act[c].why, HaltNone} : Answer(c, code, why)
    BY <1>5 DEF SaveCheckpoint
  <2>3. \/ row # Nil /\ cp' = act[c].snap /\ UNCHANGED faults
        \/ row = Nil /\ UNCHANGED <<cp, faults>>
        \/ UNCHANGED cp /\ faults' = faults + 1
    BY <1>5 DEF SaveCheckpoint, ChildWrite, Fault
  <2>4. QED
    BY <2>1, <2>2, <2>3, Registers
<1>6. ASSUME Kill(c)
      PROVE  /\ act[c].pc = "kill" /\ Moves(c, "kill.record") /\ run # Nil /\ run' = Cancel(run)
             /\ UNCHANGED <<row, cp, ledger, metered, crashes, faults>>
  <2>1. /\ act[c].pc = "kill" /\ Goto(c, "kill.record") /\ run # Nil /\ run' = Cancel(run)
        /\ UNCHANGED <<row, cp, ledger, metered, crashes, faults>>
    BY <1>0, <1>6 DEF Kill, At, store, GoroutineOK, ResolvePCs
  <2>2. QED
    BY <2>1, Registers
<1>7. QED
  BY <1>1, <1>2, <1>3, <1>4, <1>5, <1>6

\* A request arrives; the run is made; time passes; the process dies and comes back.
LEMMA ProcessEffects ==
    ASSUME TypeInv
    PROVE  /\ \A c \in Clients, op \in Operations : Request(c, op) =>
                /\ act[c].pc = "idle" /\ act'[c].pc = "resolve" /\ Others(c)
                /\ act'[c].why = HaltNone /\ act'[c].snap = Nil /\ act'[c].cost \in Costs \cup {NoCharge}
                /\ UNCHANGED <<run, row, cp, ledger, metered, crashes, faults>>
           /\ Create =>
                /\ run = Nil /\ row = Nil /\ Quiet /\ run' = NewRun
                /\ RowWritten(Record(NewRun)) /\ UNCHANGED <<act, cp, ledger, metered, crashes>>
           /\ (Tick \/ DeadlineFires) =>
                /\ run \in LiveRuns /\ run # Nil /\ run' # Nil /\ run'.halted = run.halted /\ SameUsage(run', run)
                /\ UNCHANGED <<act, row, cp, ledger, metered, crashes, faults>>
           /\ Crash =>
                /\ run' = Nil /\ crashes' = crashes + 1 /\ act' = [c \in Clients |-> IdleActor]
                /\ UNCHANGED <<row, cp, ledger, metered, faults>>
           /\ Restart =>
                /\ run = Nil /\ Quiet /\ UNCHANGED <<act, cp, ledger, metered, crashes>> /\ faults' >= faults
                /\ \/ /\ row # Nil /\ ~Terminal(row)
                      /\ \/ /\ run' = Reloaded(Reconciled(row, cp)) /\ row' = Reconciled(row, cp)
                         \/ faults' > faults
                      /\ run' # Nil
                      /\ \E latest \in {cp, Nil} : row' \in {row, Reconciled(row, latest)}
                   \/ run' = Nil /\ (row = Nil \/ Terminal(row)) /\ UNCHANGED <<row, faults>>
<1>0. act \in [Clients -> Actors]
  BY DEF TypeInv, TypeOK
<1>1. ASSUME NEW c \in Clients, NEW op \in Operations, Request(c, op)
      PROVE  /\ act[c].pc = "idle" /\ act'[c].pc = "resolve" /\ Others(c)
             /\ act'[c].why = HaltNone /\ act'[c].snap = Nil /\ act'[c].cost \in Costs \cup {NoCharge}
             /\ UNCHANGED <<run, row, cp, ledger, metered, crashes, faults>>
  <2>1. PICK cost \in Costs \cup {NoCharge} :
          act' = [act EXCEPT ![c] = [IdleActor EXCEPT !.pc = "resolve", !.op = op, !.cost = cost]]
    BY <1>1 DEF Request, Posted
  <2>2. /\ act'[c].pc = "resolve" /\ Others(c)
        /\ act'[c].why = HaltNone /\ act'[c].snap = Nil /\ act'[c].cost = cost
    BY <1>0, <2>1 DEF Others, IdleActor
  <2>3. act[c].pc = "idle" /\ UNCHANGED <<run, row, cp, ledger, metered, crashes, faults>>
    BY <1>1 DEF Request, At, mem, store
  <2>4. QED
    BY <2>2, <2>3
<1>2. Create => /\ run = Nil /\ row = Nil /\ Quiet /\ run' = NewRun
                /\ RowWritten(Record(NewRun)) /\ UNCHANGED <<act, cp, ledger, metered, crashes>>
  BY DEF Create, RowWritten, Fault
<1>3. ASSUME Tick \/ DeadlineFires
      PROVE  /\ run \in LiveRuns /\ run # Nil /\ run' # Nil /\ run'.halted = run.halted /\ SameUsage(run', run)
             /\ UNCHANGED <<act, row, cp, ledger, metered, crashes, faults>>
  <2>1. run # Nil /\ run \in LiveRuns
    BY <1>3 DEF Tick, DeadlineFires, TypeInv, TypeOK
  <2>2. /\ run' \in {[run EXCEPT !.elapsed = @ + 1], [run EXCEPT !.ctxDone = TRUE]}
        /\ UNCHANGED <<act, row, cp, ledger, metered, crashes, faults>>
    BY <1>3 DEF Tick, DeadlineFires, store
  <2>3. run' \in LiveRuns /\ run'.halted = run.halted /\ SameUsage(run', run)
    <3>1. CASE run' = [run EXCEPT !.elapsed = @ + 1]
      BY <2>1, <3>1 DEF LiveRuns, SameUsage
    <3>2. CASE run' = [run EXCEPT !.ctxDone = TRUE]
      BY <2>1, <3>2 DEF LiveRuns, SameUsage
    <3>3. QED
      BY <2>2, <3>1, <3>2
  <2>4. QED
    BY <2>1, <2>2, <2>3, ConstantsAssumption
<1>4. Crash => /\ run' = Nil /\ crashes' = crashes + 1 /\ act' = [c \in Clients |-> IdleActor]
               /\ UNCHANGED <<row, cp, ledger, metered, faults>>
  BY DEF Crash, store
<1>5. ASSUME Restart
      PROVE  /\ run = Nil /\ Quiet /\ UNCHANGED <<act, cp, ledger, metered, crashes>> /\ faults' >= faults
             /\ \/ /\ row # Nil /\ ~Terminal(row)
                   /\ \/ /\ run' = Reloaded(Reconciled(row, cp)) /\ row' = Reconciled(row, cp)
                      \/ faults' > faults
                   /\ run' # Nil
                   /\ \E latest \in {cp, Nil} : row' \in {row, Reconciled(row, latest)}
                \/ run' = Nil /\ (row = Nil \/ Terminal(row)) /\ UNCHANGED <<row, faults>>
  <2>1. run = Nil /\ Quiet /\ UNCHANGED <<act, cp, ledger, metered, crashes>> /\ faults \in Nat
    BY <1>5 DEF Restart, TypeInv, TypeOK, ControlOK
  <2>2. CASE row # Nil /\ ~Terminal(row)
    <3>1. PICK latest \in {cp, Nil}, written \in BOOLEAN :
            /\ run' = Reloaded(Reconciled(row, latest))
            /\ row' = IF written THEN Reconciled(row, latest) ELSE row
            /\ faults' = faults + (IF latest = cp THEN 0 ELSE 1)
                               + (IF row' = Reconciled(row, latest) THEN 0 ELSE 1)
      BY <1>5, <2>2 DEF Restart
    <3>2. run' # Nil
      <4>1. row \in Rows /\ latest \in Checkpoints \cup {Nil}
        BY <2>2 DEF TypeInv, TypeOK
      <4>2. Reloaded(Reconciled(row, latest)) \in LiveRuns
        BY <4>1, PersistedTypes
      <4>3. QED
        BY <3>1, <4>2, ConstantsAssumption
    <3>3. (latest = cp /\ row' = Reconciled(row, cp)) \/ faults' > faults
      BY <2>1, <3>1
    <3>4. faults' >= faults
      BY <2>1, <3>1
    <3>5. QED
      BY <2>1, <2>2, <3>1, <3>2, <3>3, <3>4
  <2>3. CASE row = Nil \/ Terminal(row)
    BY <1>5, <2>1, <2>3 DEF Restart
  <2>4. QED
    BY <2>2, <2>3
<1>6. QED
  BY <1>1, <1>2, <1>3, <1>4, <1>5

\* A run that is halted stays halted, for the same reason and at the same iteration.
LEMMA HaltedStays ==
    ASSUME NEW g \in LiveRuns, NEW k \in Charges, g.halted # HaltNone
    PROVE  /\ PreStep(g) = g /\ CanProceed(g) = g /\ Cancel(g) = g
           /\ RecordUsage(g, k).halted = g.halted
<1>1. PreStep(g) = g /\ CanProceed(g) = g /\ Cancel(g) = g
  BY DEF PreStep, CanProceed, CheckLocked, Cancel, HaltLocked
<1>2. \A t, d : [g EXCEPT !.tokens = t, !.dollars = d].halted = g.halted
  BY DEF LiveRuns
<1>3. PICK h : h = [g EXCEPT !.tokens = @ + k.tokens, !.dollars = @ + k.dollars] /\ RecordUsage(g, k) = CheckLocked(h)
  BY DEF RecordUsage
<1>4. h.halted = g.halted
  BY <1>2, <1>3
<1>5. CheckLocked(h) = h
  BY <1>4 DEF CheckLocked
<1>6. QED
  BY <1>1, <1>3, <1>4, <1>5

\* The run stays in memory until the process dies, and halted once it is.
LEMMA RunStays ==
    ASSUME TypeInv, Next, run # Nil, ~Crash
    PROVE  /\ run' # Nil
           /\ run.halted # HaltNone => run'.halted = run.halted /\ run'.loops = run.loops
<1>0. run \in LiveRuns /\ NoCharge \in Charges
  BY DEF TypeInv, TypeOK, NoCharge, Charges
<1>1. \A k \in Charges : \A h \in {PreStep(run), CanProceed(run), Cancel(run), RecordUsage(run, k)} :
         /\ h # Nil
         /\ run.halted # HaltNone => h.halted = run.halted /\ h.loops = run.loops
  <2>1. ASSUME NEW k \in Charges, NEW h \in {PreStep(run), CanProceed(run), Cancel(run), RecordUsage(run, k)}
        PROVE  /\ h # Nil
               /\ run.halted # HaltNone => h.halted = run.halted /\ h.loops = run.loops
    <3>1. h \in LiveRuns
      BY <1>0, <2>1, GovernorTypes
    <3>2. h # Nil
      BY <3>1, ConstantsAssumption
    <3>3. ASSUME run.halted # HaltNone PROVE h.halted = run.halted /\ h.loops = run.loops
      <4>1. RecordUsage(run, k).loops = run.loops
        BY <1>0, <2>1, UsageCounted
      <4>2. PreStep(run) = run /\ CanProceed(run) = run /\ Cancel(run) = run /\ RecordUsage(run, k).halted = run.halted
        BY <1>0, <2>1, <3>3, HaltedStays
      <4>3. h = run \/ h = RecordUsage(run, k)
        BY <2>1, <4>2
      <4>4. QED
        BY <4>1, <4>2, <4>3
    <3>4. QED
      BY <3>2, <3>3
  <2>2. QED
    BY <2>1
<1>2. ASSUME NEW c \in Clients, HandlerStep(c) \/ ProviderStep(c)
      PROVE  run' = run \/ \E k \in Charges : run' \in {PreStep(run), CanProceed(run), Cancel(run), RecordUsage(run, k)}
  <2>0. act[c].cost \in Charges
    BY DEF TypeInv, TypeOK, Actors
  <2>1. CASE \/ Resolve(c) \/ RestoreFromStore(c) \/ ReloadRun(c) \/ UpsertRollback(c) \/ Register(c)
             \/ RunRecord(c) \/ UpsertRun(c)
    BY <2>1, LookupEffects, PersistEffects
  <2>2. CASE \/ StepIndex(c) \/ PersistStepStart(c) \/ Dispatch(c) \/ Refuse(c) \/ ReportFailure(c)
             \/ ProviderStep(c)
    BY <2>2, CallEffects DEF ProviderStep
  <2>3. CASE \/ AppendLedger(c) \/ PersistStepEnd(c) \/ ReadCheckpoint(c) \/ SaveCheckpoint(c)
    BY <2>3, AccountEffects
  <2>4. CASE BeginStep(c) \/ Ceiling(c) \/ RecordCall(c) \/ Kill(c)
    BY <1>0, <2>0, <2>4, CallEffects, AccountEffects
  <2>5. QED
    BY <1>2, <2>1, <2>2, <2>3, <2>4 DEF HandlerStep
<1>3. CASE \E c \in Clients : HandlerStep(c) \/ ProviderStep(c)
  BY <1>1, <1>2, <1>3
<1>4. CASE Create \/ Tick \/ DeadlineFires \/ Restart
  BY <1>4, ProcessEffects DEF SameUsage
<1>5. CASE \E c \in Clients, op \in Operations : Request(c, op)
  BY <1>5, ProcessEffects
<1>6. QED
  BY <1>3, <1>4, <1>5 DEF Next

----------------------------------------------------------------------------
(* The answers.                                                            *)

\* A reason that a goroutine holds or has answered is the reason of the live run, and
\* there is one wherever a 402 is on its way or has been given.
WhyOK(c) ==
    /\ act[c].why # HaltNone => run # Nil /\ run.halted = act[c].why
    /\ act[c].pc \in {"halt.record", "halt.upsert"} => act[c].why # HaltNone
    /\ act[c].pc = "idle" /\ act[c].code = "402" => act[c].why # HaltNone

AnswersInv == \A c \in Clients : WhyOK(c)

\* What the goroutine's own step does to it.
LEMMA WhyOKOfStep ==
    ASSUME TypeInv, AnswersInv, NEW c \in Clients, HandlerStep(c) \/ ProviderStep(c),
           run # Nil => run' # Nil /\ (run.halted # HaltNone => run'.halted = run.halted)
    PROVE  WhyOK(c)' /\ Others(c)
<1>0. WhyOK(c)
  BY DEF AnswersInv
<1>1. CASE \/ Resolve(c) \/ RestoreFromStore(c) \/ ReloadRun(c) \/ UpsertRollback(c) \/ Register(c)
  <2>1. /\ Others(c) /\ act'[c].why \in {act[c].why, HaltNone}
        /\ act'[c].pc \notin {"halt.record", "halt.upsert"}
        /\ act'[c].pc = "idle" => act'[c].code # "402"
    BY <1>1, LookupEffects DEF Moves, Answers, EntryPCs
  <2>2. QED
    BY <1>0, <2>1 DEF WhyOK
<1>2. CASE RunRecord(c) \/ UpsertRun(c)
  <2>1. /\ Others(c) /\ act'[c].why \in {act[c].why, HaltNone}
        /\ act'[c].pc \in {"halt.record", "halt.upsert"} => act[c].pc = "halt.record" /\ act'[c].why = act[c].why
        /\ act'[c].pc = "idle" /\ act'[c].code = "402" => act[c].pc = "halt.upsert" /\ act'[c].why = act[c].why
    BY <1>2, PersistEffects DEF Moves, Answers, EntryPCs
  <2>2. QED
    BY <1>0, <2>1 DEF WhyOK
<1>3. CASE BeginStep(c) \/ Ceiling(c) \/ RecordCall(c)
  <2>1. /\ Others(c) /\ act'[c].why = run'.halted /\ run' # Nil
        /\ act'[c].pc \in {"halt.record", "halt.upsert"} => run'.halted # HaltNone
        /\ act'[c].pc # "idle"
    BY <1>3, CallEffects, AccountEffects
  <2>2. QED
    BY <2>1 DEF WhyOK
<1>4. CASE \/ StepIndex(c) \/ PersistStepStart(c) \/ Dispatch(c) \/ ProviderStep(c)
           \/ AppendLedger(c) \/ PersistStepEnd(c) \/ ReadCheckpoint(c) \/ Kill(c)
  <2>1. /\ Others(c) /\ act'[c].why = act[c].why
        /\ act'[c].pc \notin {"halt.record", "halt.upsert", "idle"}
    <3>1. CASE StepIndex(c) \/ PersistStepStart(c) \/ Dispatch(c) \/ ProviderStep(c)
      BY <3>1, CallEffects DEF Moves, ProviderStep
    <3>2. CASE AppendLedger(c) \/ PersistStepEnd(c) \/ ReadCheckpoint(c) \/ Kill(c)
      BY <3>2, AccountEffects DEF Moves
    <3>3. QED
      BY <1>4, <3>1, <3>2
  <2>2. QED
    BY <1>0, <2>1 DEF WhyOK
<1>5. CASE Refuse(c) \/ ReportFailure(c)
  <2>1. /\ Others(c) /\ run' = run /\ run # Nil /\ act'[c].pc = "idle"
        /\ \/ act'[c].why = HaltNone /\ act'[c].code # "402"
           \/ act'[c].why = run.halted /\ run.halted # HaltNone
    BY <1>5, CallEffects DEF Answers
  <2>2. QED
    BY <2>1 DEF WhyOK
<1>6. CASE SaveCheckpoint(c)
  <2>1. /\ Others(c) /\ act'[c].pc = "idle" /\ act'[c].code # "402" /\ act'[c].why \in {act[c].why, HaltNone}
    BY <1>6, AccountEffects DEF Answers
  <2>2. QED
    BY <1>0, <2>1 DEF WhyOK
<1>7. QED
  BY <1>1, <1>2, <1>3, <1>4, <1>5, <1>6 DEF HandlerStep

\* Every 402, and every paid response that carries a halt header, names the reason
\* the run really halted for, however many requests, crashes and failing statements
\* there are (budgetError, haltGWError, callMeta.halt).
THEOREM AnswersNameTheHaltHolds == Spec => []AnswersNameTheHalt
<1>1. Init => AnswersInv
  BY DEF Init, AnswersInv, WhyOK, IdleActor
<1>2. ASSUME TypeInv, AnswersInv, Next PROVE AnswersInv'
  <2>1. CASE Crash
    BY <1>2, <2>1, ProcessEffects DEF AnswersInv, WhyOK, IdleActor
  <2>2. ASSUME ~Crash, NEW d \in Clients, act'[d] = act[d]
        PROVE  WhyOK(d)'
    <3>1. WhyOK(d)
      BY <1>2 DEF AnswersInv
    <3>2. act[d].why # HaltNone => run' # Nil /\ run'.halted = run.halted
      BY <1>2, <2>2, <3>1, RunStays DEF WhyOK
    <3>3. QED
      BY <2>2, <3>1, <3>2 DEF WhyOK
  <2>3. CASE ~Crash /\ (Create \/ Tick \/ DeadlineFires \/ Restart)
    BY <1>2, <2>2, <2>3, ProcessEffects DEF AnswersInv
  <2>4. ASSUME ~Crash, NEW c \in Clients, NEW op \in Operations, Request(c, op)
        PROVE  AnswersInv'
    <3>1. WhyOK(c)'
      BY <1>2, <2>4, ProcessEffects DEF WhyOK
    <3>2. Others(c)
      BY <1>2, <2>4, ProcessEffects
    <3>3. QED
      BY <2>2, <2>4, <3>1, <3>2 DEF AnswersInv, Others
  <2>5. ASSUME ~Crash, NEW c \in Clients, HandlerStep(c) \/ ProviderStep(c)
        PROVE  AnswersInv'
    <3>1. WhyOK(c)' /\ Others(c)
      BY <1>2, <2>5, RunStays, WhyOKOfStep
    <3>2. QED
      BY <2>2, <2>5, <3>1 DEF AnswersInv, Others
  <2>6. QED
    BY <1>2, <2>1, <2>3, <2>4, <2>5 DEF Next
<1>3. ASSUME AnswersInv, UNCHANGED vars PROVE AnswersInv'
  BY <1>3 DEF AnswersInv, WhyOK, vars
<1>4. AnswersInv => AnswersNameTheHalt
  BY DEF AnswersInv, WhyOK, AnswersNameTheHalt
<1>5. QED
  BY <1>1, <1>2, <1>3, <1>4, TypeInvInductive, PTL DEF Spec
----------------------------------------------------------------------------
(* One request at a time.  With a single client, and until a statement     *)
(* fails, the row lags the live run only inside a handler, and the stored  *)
(* copies lag the meter by at most one call for each crash.                *)

UnderBudgets(u) ==
    /\ Budget.tokens > 0 => u.tokens < Budget.tokens
    /\ Budget.dollars > 0 => u.dollars < Budget.dollars

\* Where the live run may be ahead of the row.
DirtyPCs == {"mint.record", "mint.upsert", "index", "stepstart", "begin.record", "begin.upsert",
             "halt.record", "halt.upsert", "ledger", "stepend", "call.record", "call.upsert",
             "kill.record", "kill.upsert"}

\* There is a row from the first statement of the run on, and before it nothing.
RowMade(pc) ==
    row = Nil => /\ cp = Nil /\ metered = NoCharge
                 /\ run # Nil => pc \in {"mint.record", "mint.upsert"} /\ SameUsage(run, NewRun) /\ run.halted = HaltNone

\* The row is a record that the manager writes, and while it says "running" both it
\* and the checkpoint a reload may roll back to are under the budgets.
RowSound ==
    row # Nil => /\ row.status = StatusFor(row.halted)
                 /\ ~Terminal(row) => UnderBudgets(row) /\ (cp # Nil => UnderBudgets(cp))

\* The live run and the row agree, outside a handler entirely, inside it on a halt.
RowFollows(pc) ==
    run # Nil => /\ pc \notin DirtyPCs => row = Record(run)
                 /\ row # Nil /\ Terminal(row) => run.halted = row.halted /\ run.loops = row.loops
                 /\ run.halted = HaltNone => UnderBudgets(run)

\* What the goroutine is about to write or register is still true.
SnapFresh(pc, snap) ==
    /\ pc \in UpsertPCs => snap = Record(run)
    /\ pc = "cp.save" => snap = Snapshot(run)
    /\ pc \in {"restore", "reload", "rollback.upsert", "register"} => run = Nil
    /\ pc = "reload" => snap = row /\ row # Nil /\ ~Terminal(row)
    /\ pc = "rollback.upsert" => row # Nil /\ ~Terminal(row) /\ snap = Reconciled(row, cp)
    /\ pc = "register" => snap = row

SequentialInv(c) ==
    /\ RowMade(act[c].pc) /\ RowSound /\ RowFollows(act[c].pc)
    /\ SnapFresh(act[c].pc, act[c].snap)

\* Under one client and without failing statements.
Alone(c) == Clients = {c} /\ faults = 0

Sequential == \A c \in Clients : Alone(c) => SequentialInv(c)

\* The record a manager wrote is the record of the run rebuilt from it.
LEMMA RecordReloaded ==
    ASSUME NEW rec \in Rows, rec.status = StatusFor(rec.halted)
    PROVE  /\ Record(Reloaded(rec)) = rec
           /\ Reloaded(rec).halted = rec.halted
           /\ Terminal(rec) <=> rec.halted # HaltNone
<1>1. Terminal(rec) <=> rec.halted # HaltNone
  BY DEF Terminal, StatusFor, Rows, HaltReasons, HaltNone
<1>2. Reloaded(rec).halted = rec.halted
  BY <1>1 DEF Reloaded, RestoredRun, NewRun
<1>3. Reloaded(rec) \in LiveRuns /\ SameUsage(Reloaded(rec), rec)
  BY PersistedTypes, UsageKept
<1>4. Record(Reloaded(rec)) = [status |-> rec.status, halted |-> rec.halted,
                               tokens |-> rec.tokens, dollars |-> rec.dollars, loops |-> rec.loops]
  BY <1>2, <1>3 DEF Record, SameUsage
<1>5. QED
  BY <1>1, <1>2, <1>4 DEF Rows

\* Rolling back keeps the form of the record, and keeps it under the budgets.
LEMMA ReconciledSound ==
    ASSUME NEW rec \in Rows, NEW latest \in Checkpoints \cup {Nil},
           rec.status = StatusFor(rec.halted), ~Terminal(rec), UnderBudgets(rec),
           latest # Nil => UnderBudgets(latest)
    PROVE  /\ Reconciled(rec, latest) \in Rows
           /\ Reconciled(rec, latest).status = StatusFor(Reconciled(rec, latest).halted)
           /\ ~Terminal(Reconciled(rec, latest)) /\ UnderBudgets(Reconciled(rec, latest))
<1>1. Reconciled(rec, latest) \in Rows
  BY PersistedTypes
<1>2. /\ Reconciled(rec, latest).status = rec.status
      /\ Reconciled(rec, latest).halted = rec.halted
  BY DEF Reconciled, Rows
<1>3. UnderBudgets(Reconciled(rec, latest))
  BY UsageKept DEF SameUsage, UnderBudgets
<1>4. QED
  BY <1>1, <1>2, <1>3 DEF Terminal

\* What the governor's methods leave running is under its budgets.
LEMMA RunningStaysUnder ==
    ASSUME NEW g \in LiveRuns, NEW k \in Charges, g.halted = HaltNone => UnderBudgets(g)
    PROVE  /\ PreStep(g).halted = HaltNone => UnderBudgets(PreStep(g))
           /\ CanProceed(g).halted = HaltNone => UnderBudgets(CanProceed(g)) /\ CanProceed(g) = g
           /\ Cancel(g).halted # HaltNone
           /\ RecordUsage(g, k).halted = HaltNone => UnderBudgets(RecordUsage(g, k))
<1>1. PreStep(g).halted = HaltNone => UnderBudgets(PreStep(g))
  <2>1. PreStep(g).halted = HaltNone => g.halted = HaltNone
    BY HaltedStays
  <2>2. PreStep(g).tokens = g.tokens /\ PreStep(g).dollars = g.dollars
    BY UsageCounted
  <2>3. QED
    BY <2>1, <2>2 DEF UnderBudgets
<1>2. CanProceed(g).halted = HaltNone => UnderBudgets(CanProceed(g)) /\ CanProceed(g) = g
  BY UnderBudget DEF UnderBudgets
<1>3. Cancel(g).halted # HaltNone
  BY DEF Cancel, HaltLocked, LiveRuns, HaltNone, HaltCancelled
<1>4. ASSUME RecordUsage(g, k).halted = HaltNone PROVE UnderBudgets(RecordUsage(g, k))
  <2>1. \A t, d \in Nat : [g EXCEPT !.tokens = t, !.dollars = d] \in LiveRuns
    BY DEF LiveRuns
  <2>2. g.tokens + k.tokens \in Nat /\ g.dollars + k.dollars \in Nat
    BY DEF LiveRuns, Charges
  <2>3. PICK h \in LiveRuns : RecordUsage(g, k) = CanProceed(h)
    BY <2>1, <2>2, Zenon DEF RecordUsage, CanProceed
  <2>4. QED
    BY <1>4, <2>3, UnderBudget DEF UnderBudgets
<1>5. QED
  BY <1>1, <1>2, <1>3, <1>4
\* A failing statement is counted, and the count never falls.
LEMMA FaultsGrow ==
    ASSUME TypeInv, Next
    PROVE  faults' = faults \/ faults' > faults
<1>0. faults \in Nat
  BY DEF TypeInv, TypeOK
<1>1. ASSUME NEW c \in Clients, HandlerStep(c) \/ ProviderStep(c)
      PROVE  faults' = faults \/ faults' = faults + 1
  <2>1. CASE \/ Resolve(c) \/ RestoreFromStore(c) \/ ReloadRun(c) \/ UpsertRollback(c) \/ Register(c)
             \/ RunRecord(c) \/ UpsertRun(c)
    BY <2>1, LookupEffects, PersistEffects DEF RowWritten
  <2>2. CASE \/ StepIndex(c) \/ PersistStepStart(c) \/ Dispatch(c) \/ Refuse(c) \/ ReportFailure(c)
             \/ ProviderStep(c) \/ BeginStep(c) \/ Ceiling(c)
    BY <2>2, CallEffects DEF ProviderStep
  <2>3. CASE \/ AppendLedger(c) \/ PersistStepEnd(c) \/ ReadCheckpoint(c) \/ SaveCheckpoint(c)
             \/ RecordCall(c) \/ Kill(c)
    BY <2>3, AccountEffects
  <2>4. QED
    BY <1>1, <2>1, <2>2, <2>3 DEF HandlerStep
<1>2. CASE Create \/ Tick \/ DeadlineFires \/ Crash
  BY <1>0, <1>2, ProcessEffects DEF RowWritten
<1>3. CASE Restart
  <2>1. faults' >= faults
    BY <1>3, ProcessEffects
  <2>2. faults' \in Nat
    BY TypeInvInductive DEF TypeInv, TypeOK
  <2>3. QED
    BY <1>0, <2>1, <2>2
<1>4. CASE \E c \in Clients, op \in Operations : Request(c, op)
  BY <1>4, ProcessEffects
<1>5. QED
  BY <1>0, <1>1, <1>2, <1>3, <1>4 DEF Next

\* The goroutine moves on, and neither the run nor what is stored of it changes.
LEMMA MoveSequential ==
    ASSUME NEW c, SequentialInv(c), UNCHANGED <<run, row, cp, metered>>,
           row = Nil /\ run # Nil => act'[c].pc \in {"mint.record", "mint.upsert"},
           act[c].pc \in DirtyPCs => act'[c].pc \in DirtyPCs,
           SnapFresh(act'[c].pc, act'[c].snap)
    PROVE  SequentialInv(c)'
<1>1. RowMade(act[c].pc)'
  BY DEF SequentialInv, RowMade
<1>2. RowSound'
  BY DEF SequentialInv, RowSound, UnderBudgets
<1>3. RowFollows(act[c].pc)'
  BY DEF SequentialInv, RowFollows
<1>4. SnapFresh(act[c].pc, act[c].snap)'
  BY DEF SnapFresh
<1>5. QED
  BY <1>1, <1>2, <1>3, <1>4 DEF SequentialInv

\* The steps of a handler that only move it on.
LEMMA HandlerMoves ==
    ASSUME TypeInv, NEW c \in Clients, SequentialInv(c), faults = 0, faults' = 0,
           \/ Resolve(c) \/ RestoreFromStore(c) \/ ReloadRun(c) \/ RunRecord(c)
           \/ StepIndex(c) \/ PersistStepStart(c) \/ Dispatch(c) \/ Refuse(c) \/ ReportFailure(c)
           \/ ProviderStep(c) \/ AppendLedger(c) \/ PersistStepEnd(c) \/ ReadCheckpoint(c)
    PROVE  SequentialInv(c)'
<1>0. row = Nil /\ run # Nil => act[c].pc \in {"mint.record", "mint.upsert"}
  BY DEF SequentialInv, RowMade
<1>1. SnapFresh(act[c].pc, act[c].snap)
  BY DEF SequentialInv
<1>2. CASE Resolve(c)
  <2>1. /\ act[c].pc = "resolve" /\ UNCHANGED <<run, row, cp, metered>>
        /\ \/ run # Nil /\ act'[c].pc \in {"prestep", "cp.read", "kill", "meter"}
           \/ run = Nil /\ act'[c].pc \in {"restore", "idle"}
    BY <1>2, LookupEffects DEF Moves, Answers, EntryPCs
  <2>2. SnapFresh(act'[c].pc, act'[c].snap)
    BY <2>1 DEF SnapFresh, UpsertPCs
  <2>3. act[c].pc \notin DirtyPCs /\ act[c].pc \notin {"mint.record", "mint.upsert"}
    BY <2>1 DEF DirtyPCs
  <2>4. QED
    BY <1>0, <2>1, <2>2, <2>3, MoveSequential
<1>3. CASE RestoreFromStore(c)
  <2>1. /\ act[c].pc = "restore" /\ UNCHANGED <<run, row, cp, metered>> /\ act'[c].snap = row
        /\ act'[c].pc = IF row = Nil THEN "register" ELSE IF Terminal(row) THEN "register" ELSE "reload"
    BY <1>3, LookupEffects
  <2>2. SnapFresh(act'[c].pc, act'[c].snap)
    BY <1>1, <2>1 DEF SnapFresh, UpsertPCs
  <2>3. act[c].pc \notin DirtyPCs /\ run = Nil
    BY <1>1, <2>1 DEF DirtyPCs, SnapFresh
  <2>4. QED
    BY <2>1, <2>2, <2>3, MoveSequential
<1>4. CASE ReloadRun(c)
  <2>1. /\ act[c].pc = "reload" /\ UNCHANGED <<run, row, cp, metered>>
        /\ act'[c].snap = Reconciled(act[c].snap, cp)
        /\ act'[c].pc = IF act'[c].snap = act[c].snap THEN "register" ELSE "rollback.upsert"
    BY <1>4, LookupEffects
  <2>2. SnapFresh(act'[c].pc, act'[c].snap)
    BY <1>1, <2>1 DEF SnapFresh, UpsertPCs
  <2>3. act[c].pc \notin DirtyPCs /\ run = Nil
    BY <1>1, <2>1 DEF DirtyPCs, SnapFresh
  <2>4. QED
    BY <2>1, <2>2, <2>3, MoveSequential
<1>5. CASE RunRecord(c)
  <2>1. /\ UNCHANGED <<run, row, cp, metered>> /\ act'[c].snap = Record(run)
        /\ act[c].pc \in RecordPCs /\ act'[c].pc \in UpsertPCs
        /\ act[c].pc = "mint.record" => act'[c].pc = "mint.upsert"
    BY <1>5, PersistEffects DEF RecordPCs, UpsertPCs
  <2>2. SnapFresh(act'[c].pc, act'[c].snap)
    BY <2>1 DEF SnapFresh, UpsertPCs
  <2>3. act'[c].pc \in DirtyPCs /\ act[c].pc # "mint.upsert"
    BY <2>1 DEF DirtyPCs, UpsertPCs, RecordPCs
  <2>4. QED
    BY <1>0, <2>1, <2>2, <2>3, MoveSequential
<1>6. CASE StepIndex(c) \/ PersistStepStart(c) \/ Dispatch(c) \/ Refuse(c) \/ ReportFailure(c) \/ ProviderStep(c)
  <2>1. /\ UNCHANGED <<run, row, cp, metered>>
        /\ \/ act[c].pc \in {"index", "stepstart"} /\ act'[c].pc \in {"stepstart", "begin.record"}
           \/ /\ act[c].pc \in {"route", "inflight", "failed", "streaming"}
              /\ act'[c].pc \in {"inflight", "streaming", "failed", "idle", "meter"}
    BY <1>6, CallEffects DEF Moves, Answers, ProviderStep
  <2>2. SnapFresh(act'[c].pc, act'[c].snap)
    BY <2>1 DEF SnapFresh, UpsertPCs
  <2>3. /\ act[c].pc \in DirtyPCs => act'[c].pc \in DirtyPCs
        /\ act[c].pc \notin {"mint.record", "mint.upsert"}
    BY <2>1 DEF DirtyPCs
  <2>4. QED
    BY <1>0, <2>1, <2>2, <2>3, MoveSequential
<1>7. CASE AppendLedger(c) \/ PersistStepEnd(c) \/ ReadCheckpoint(c)
  <2>1. /\ UNCHANGED <<run, row, cp, metered>>
        /\ \/ act[c].pc \in {"ledger", "stepend"} /\ act'[c].pc \in {"stepend", "call.record"}
           \/ act[c].pc = "cp.read" /\ act'[c].pc = "cp.save" /\ act'[c].snap = Snapshot(run)
    BY <1>7, AccountEffects DEF Moves
  <2>2. SnapFresh(act'[c].pc, act'[c].snap)
    BY <2>1 DEF SnapFresh, UpsertPCs
  <2>3. /\ act[c].pc \in DirtyPCs => act'[c].pc \in DirtyPCs
        /\ act[c].pc \notin {"mint.record", "mint.upsert"}
    BY <2>1 DEF DirtyPCs
  <2>4. QED
    BY <1>0, <2>1, <2>2, <2>3, MoveSequential
<1>8. QED
  BY <1>2, <1>3, <1>4, <1>5, <1>6, <1>7

\* The governor's guards, the meter and the kill switch.
LEMMA GovernorSequential ==
    ASSUME TypeInv, NEW c \in Clients, SequentialInv(c), Next,
           BeginStep(c) \/ Ceiling(c) \/ RecordCall(c) \/ Kill(c)
    PROVE  SequentialInv(c)'
<1>0. run \in LiveRuns /\ run # Nil /\ act[c].cost \in Charges
  BY CallEffects, AccountEffects DEF TypeInv, TypeOK, Actors
<1>1. /\ act[c].pc \in {"prestep", "ceiling", "meter", "kill"}
      /\ act'[c].pc \in {"index", "route", "halt.record", "ledger", "kill.record"}
      /\ UNCHANGED <<row, cp>> /\ run' # Nil
      /\ act'[c].pc = "route" => run' = CanProceed(run) /\ run'.halted = HaltNone
      /\ run' \in {PreStep(run), CanProceed(run), RecordUsage(run, act[c].cost), Cancel(run)}
  <2>1. run' # Nil
    <3>1. ~Crash
      BY <1>0, CallEffects, AccountEffects, ProcessEffects, GovernorTypes, ConstantsAssumption
    <3>2. QED
      BY <1>0, <3>1, RunStays
  <2>2. CASE BeginStep(c) \/ Ceiling(c)
    BY <2>1, <2>2, CallEffects
  <2>3. CASE RecordCall(c) \/ Kill(c)
    BY <2>1, <2>3, AccountEffects DEF Moves
  <2>4. QED
    BY <2>2, <2>3
<1>2. row = Record(run) /\ row # Nil
  <2>1. row = Record(run)
    BY <1>0, <1>1 DEF SequentialInv, RowFollows, DirtyPCs
  <2>2. Record(run) \in Rows
    BY <1>0, PersistedTypes
  <2>3. QED
    BY <2>1, <2>2, ConstantsAssumption
<1>3. run.halted = HaltNone => UnderBudgets(run)
  BY <1>0 DEF SequentialInv, RowFollows
<1>4. /\ run'.halted = HaltNone => UnderBudgets(run')
      /\ act'[c].pc = "route" => run' = run
  BY <1>0, <1>1, <1>3, RunningStaysUnder
<1>5. Terminal(row) => run'.halted = row.halted /\ run'.loops = row.loops
  <2>1. Terminal(row) => run.halted # HaltNone /\ run.halted = row.halted
    BY <1>0, <1>2, StatusOfRecord
  <2>2. run.loops = row.loops
    BY <1>0, <1>2, UsageKept DEF SameUsage
  <2>3. run.halted # HaltNone => /\ run' \in {run, RecordUsage(run, act[c].cost)}
                                 /\ RecordUsage(run, act[c].cost).halted = run.halted
                                 /\ RecordUsage(run, act[c].cost).loops = run.loops
    BY <1>0, <1>1, HaltedStays, UsageCounted
  <2>4. QED
    BY <2>1, <2>2, <2>3
<1>6. RowMade(act[c].pc)' /\ RowSound'
  <2>1. RowMade(act[c].pc)'
    BY <1>1, <1>2 DEF RowMade
  <2>2. RowSound'
    BY <1>1 DEF SequentialInv, RowSound, UnderBudgets
  <2>3. QED
    BY <2>1, <2>2
<1>7. RowFollows(act[c].pc)'
  <2>1. act'[c].pc \notin DirtyPCs => act'[c].pc = "route"
    BY <1>1 DEF DirtyPCs
  <2>2. act'[c].pc \notin DirtyPCs => row' = Record(run)'
    BY <1>1, <1>2, <1>4, <2>1
  <2>3. run'.halted = HaltNone => UnderBudgets(run)'
    BY <1>4 DEF UnderBudgets
  <2>4. Terminal(row)' => Terminal(row)
    BY <1>1 DEF Terminal
  <2>5. QED
    BY <1>1, <1>5, <2>2, <2>3, <2>4 DEF RowFollows
<1>8. SnapFresh(act[c].pc, act[c].snap)'
  BY <1>1 DEF SnapFresh, UpsertPCs
<1>9. QED
  BY <1>6, <1>7, <1>8 DEF SequentialInv
\* The statement that writes the row, after a rollback or of the live run.
LEMMA RowWriteSequential ==
    ASSUME TypeInv, NEW c \in Clients, SequentialInv(c), faults = 0, faults' = 0,
           UpsertRollback(c) \/ UpsertRun(c)
    PROVE  SequentialInv(c)'
<1>1. CASE UpsertRollback(c)
  <2>1. /\ act[c].pc = "rollback.upsert" /\ UNCHANGED <<run, cp, metered>>
        /\ row' = act[c].snap /\ act'[c].pc = "register" /\ act'[c].snap = act[c].snap
    BY <1>1, LookupEffects DEF RowWritten, Moves
  <2>2. run = Nil /\ row # Nil /\ ~Terminal(row) /\ row' = Reconciled(row, cp)
    BY <2>1 DEF SequentialInv, SnapFresh
  <2>3. /\ row \in Rows /\ cp \in Checkpoints \cup {Nil} /\ row.status = StatusFor(row.halted)
        /\ UnderBudgets(row) /\ (cp # Nil => UnderBudgets(cp))
    BY <2>2 DEF TypeInv, TypeOK, SequentialInv, RowSound
  <2>4. /\ row' \in Rows /\ row'.status = StatusFor(row'.halted) /\ UnderBudgets(row')
    BY <2>2, <2>3, ReconciledSound
  <2>5. RowMade(act[c].pc)'
    BY <2>4, ConstantsAssumption DEF RowMade
  <2>6. RowSound'
    BY <2>1, <2>3, <2>4 DEF RowSound, UnderBudgets
  <2>7. RowFollows(act[c].pc)'
    BY <2>1, <2>2 DEF RowFollows
  <2>8. SnapFresh(act[c].pc, act[c].snap)'
    BY <2>1, <2>2 DEF SnapFresh, UpsertPCs
  <2>9. QED
    BY <2>5, <2>6, <2>7, <2>8 DEF SequentialInv
<1>2. CASE UpsertRun(c)
  <2>1. /\ act[c].pc \in UpsertPCs /\ UNCHANGED <<run, cp, metered>> /\ row' = act[c].snap
        /\ act'[c].pc \in {"prestep", "cp.read", "kill", "meter", "ceiling", "idle"}
    BY <1>2, PersistEffects DEF RowWritten, Moves, Answers, EntryPCs, UpsertPCs
  <2>2. run \in LiveRuns /\ run # Nil
    BY <2>1, Registers DEF GoroutineOK, UpsertPCs, ResolvePCs, TypeInv, TypeOK
  <2>3. row' = Record(run) /\ row' \in Rows /\ row' # Nil
    <3>1. row' = Record(run)
      BY <2>1 DEF SequentialInv, SnapFresh
    <3>2. QED
      BY <2>2, <3>1, PersistedTypes, ConstantsAssumption
  <2>4. run.halted = HaltNone => UnderBudgets(run)
    BY <2>2 DEF SequentialInv, RowFollows
  <2>5. /\ Terminal(row') <=> run.halted # HaltNone
        /\ row'.halted = run.halted /\ SameUsage(row', run) /\ row'.status = StatusFor(row'.halted)
    <3>1. Record(run).status = StatusFor(Record(run).halted)
      BY DEF Record
    <3>2. QED
      BY <2>2, <2>3, <3>1, StatusOfRecord, UsageKept
  <2>6. ~Terminal(row') /\ cp # Nil => UnderBudgets(cp)
    <3>1. row = Nil => cp = Nil
      BY DEF SequentialInv, RowMade
    <3>2. row # Nil /\ Terminal(row) => run.halted = row.halted /\ row.halted # HaltNone
      <4>1. row # Nil /\ Terminal(row) => row.halted # HaltNone
        BY DEF SequentialInv, RowSound, StatusFor, Terminal
      <4>2. QED
        BY <2>2, <4>1 DEF SequentialInv, RowFollows
    <3>3. row # Nil /\ ~Terminal(row) /\ cp # Nil => UnderBudgets(cp)
      BY DEF SequentialInv, RowSound
    <3>4. QED
      BY <2>5, <3>1, <3>2, <3>3
  <2>7. RowMade(act[c].pc)'
    BY <2>3 DEF RowMade
  <2>8. RowSound'
    <3>1. ~Terminal(row') => UnderBudgets(row')
      BY <2>4, <2>5 DEF SameUsage, UnderBudgets
    <3>2. QED
      BY <2>1, <2>5, <2>6, <3>1 DEF RowSound, UnderBudgets
  <2>9. RowFollows(act[c].pc)'
    BY <2>1, <2>3, <2>4, <2>5 DEF RowFollows, SameUsage
  <2>10. SnapFresh(act[c].pc, act[c].snap)'
    BY <2>1 DEF SnapFresh, UpsertPCs
  <2>11. QED
    BY <2>7, <2>8, <2>9, <2>10 DEF SequentialInv
<1>3. QED
  BY <1>1, <1>2

\* Registering a run, a fresh one or the one rebuilt from its row, and saving a
\* checkpoint of it.
LEMMA RegisterSequential ==
    ASSUME TypeInv, NEW c \in Clients, SequentialInv(c), faults = 0, faults' = 0,
           Register(c) \/ SaveCheckpoint(c)
    PROVE  SequentialInv(c)'
<1>1. CASE Register(c)
  <2>1. /\ act[c].pc = "register" /\ UNCHANGED <<row, cp, metered>> /\ run = Nil /\ act[c].snap = row
        /\ \/ row = Nil /\ run' = NewRun /\ act'[c].pc = "mint.record"
           \/ row # Nil /\ run' = Reloaded(row) /\ act'[c].pc \in {"prestep", "cp.read", "kill", "meter"}
    <3>1. act[c].pc = "register"
      BY <1>1, LookupEffects
    <3>2. run = Nil /\ act[c].snap = row
      BY <3>1 DEF SequentialInv, SnapFresh
    <3>3. QED
      BY <1>1, <3>1, <3>2, LookupEffects DEF EntryPCs
  <2>2. CASE row = Nil
    <3>1. run' = NewRun /\ act'[c].pc = "mint.record" /\ row' = Nil
      BY <2>1, <2>2
    <3>2. RowMade(act[c].pc)'
      BY <2>1, <3>1 DEF SequentialInv, RowMade, SameUsage, NewRun
    <3>3. RowFollows(act[c].pc)'
      BY <3>1, BudgetAssumption DEF RowFollows, DirtyPCs, UnderBudgets, NewRun
    <3>4. RowSound' /\ SnapFresh(act[c].pc, act[c].snap)'
      BY <3>1 DEF RowSound, SnapFresh, UpsertPCs
    <3>5. QED
      BY <3>2, <3>3, <3>4 DEF SequentialInv
  <2>3. CASE row # Nil
    <3>1. row \in Rows /\ row.status = StatusFor(row.halted) /\ (~Terminal(row) => UnderBudgets(row))
      BY <2>3 DEF TypeInv, TypeOK, SequentialInv, RowSound
    <3>2. /\ run' = Reloaded(row) /\ row' = row /\ act'[c].pc \in {"prestep", "cp.read", "kill", "meter"}
          /\ UNCHANGED <<cp, metered>>
      BY <2>1, <2>3
    <3>3. /\ Record(run') = row /\ run'.halted = row.halted /\ SameUsage(run', row)
          /\ Terminal(row) <=> row.halted # HaltNone
      BY <3>1, <3>2, RecordReloaded, UsageKept
    <3>4. RowMade(act[c].pc)' /\ RowSound'
      <4>1. RowMade(act[c].pc)'
        BY <2>3, <3>2 DEF RowMade
      <4>2. RowSound'
        BY <3>2 DEF SequentialInv, RowSound, UnderBudgets
      <4>3. QED
        BY <4>1, <4>2
    <3>5. RowFollows(act[c].pc)'
      <4>1. run'.halted = HaltNone => UnderBudgets(run')
        BY <3>1, <3>3 DEF UnderBudgets, SameUsage
      <4>2. QED
        BY <3>2, <3>3, <4>1 DEF RowFollows, SameUsage
    <3>6. SnapFresh(act[c].pc, act[c].snap)'
      BY <3>2 DEF SnapFresh, UpsertPCs
    <3>7. QED
      BY <3>4, <3>5, <3>6 DEF SequentialInv
  <2>4. QED
    BY <2>2, <2>3
<1>2. CASE SaveCheckpoint(c)
  <2>1. /\ act[c].pc = "cp.save" /\ run # Nil /\ UNCHANGED <<run, row, metered>> /\ act'[c].pc = "idle"
        /\ row # Nil => cp' = act[c].snap
        /\ row = Nil => cp' = cp
    BY <1>2, AccountEffects DEF Answers
  <2>2. row = Record(run) /\ run \in LiveRuns /\ act[c].snap = Snapshot(run)
    BY <2>1 DEF SequentialInv, RowFollows, DirtyPCs, SnapFresh, TypeInv, TypeOK
  <2>3. row # Nil
    BY <2>2, PersistedTypes, ConstantsAssumption
  <2>4. ~Terminal(row) => UnderBudgets(cp')
    <3>1. ~Terminal(row) => run.halted = HaltNone
      BY <2>2, StatusOfRecord
    <3>2. run.halted = HaltNone => UnderBudgets(run)
      BY <2>1 DEF SequentialInv, RowFollows
    <3>3. SameUsage(cp', run)
      BY <2>1, <2>2, <2>3, UsageKept
    <3>4. QED
      BY <3>1, <3>2, <3>3 DEF UnderBudgets, SameUsage
  <2>5. RowMade(act[c].pc)'
    BY <2>1, <2>3 DEF RowMade
  <2>6. RowSound'
    BY <2>1, <2>4 DEF SequentialInv, RowSound, UnderBudgets
  <2>7. RowFollows(act[c].pc)'
    BY <2>1, <2>2 DEF SequentialInv, RowFollows, UnderBudgets
  <2>8. SnapFresh(act[c].pc, act[c].snap)'
    BY <2>1 DEF SnapFresh, UpsertPCs
  <2>9. QED
    BY <2>5, <2>6, <2>7, <2>8 DEF SequentialInv
<1>3. QED
  BY <1>1, <1>2

\* The run is made, time passes, the process dies and comes back.
LEMMA ProcessSequential ==
    ASSUME TypeInv, NEW c \in Clients, Clients = {c}, SequentialInv(c), faults = 0, faults' = 0,
           Create \/ Tick \/ DeadlineFires \/ Crash \/ Restart
    PROVE  SequentialInv(c)'
<1>1. CASE Create
  <2>1. /\ run = Nil /\ row = Nil /\ act[c].pc = "idle" /\ run' = NewRun
        /\ row' = Record(NewRun) /\ UNCHANGED <<act, cp, metered>>
    BY <1>1, ProcessEffects DEF RowWritten, Quiet
  <2>2. NewRun \in LiveRuns /\ row' # Nil /\ NewRun.halted = HaltNone
    BY <2>1, PersistedTypes, ConstantsAssumption DEF NewRun
  <2>3. /\ ~Terminal(row') /\ row'.halted = HaltNone /\ SameUsage(row', NewRun)
        /\ row'.status = StatusFor(row'.halted)
    <3>1. Record(NewRun).status = StatusFor(Record(NewRun).halted)
      BY DEF Record
    <3>2. QED
      BY <2>1, <2>2, <3>1, StatusOfRecord, UsageKept
  <2>4. UnderBudgets(NewRun) /\ UnderBudgets(row')
    BY <2>3, BudgetAssumption DEF UnderBudgets, NewRun, SameUsage
  <2>5. RowMade(act[c].pc)'
    BY <2>2 DEF RowMade
  <2>6. RowSound'
    <3>1. cp' = Nil
      BY <2>1 DEF SequentialInv, RowMade
    <3>2. QED
      BY <2>3, <2>4, <3>1 DEF RowSound, UnderBudgets
  <2>7. RowFollows(act[c].pc)'
    BY <2>1, <2>3, <2>4 DEF RowFollows, UnderBudgets
  <2>8. SnapFresh(act[c].pc, act[c].snap)'
    BY <2>1 DEF SnapFresh, UpsertPCs
  <2>9. QED
    BY <2>5, <2>6, <2>7, <2>8 DEF SequentialInv
<1>2. CASE Tick \/ DeadlineFires
  <2>1. /\ run # Nil /\ run' # Nil /\ run'.halted = run.halted /\ SameUsage(run', run)
        /\ UNCHANGED <<act, row, cp, metered>>
    BY <1>2, ProcessEffects
  <2>2. Record(run') = Record(run) /\ Snapshot(run') = Snapshot(run)
    BY <2>1 DEF Record, Snapshot, SameUsage
  <2>3. RowMade(act[c].pc)'
    BY <2>1 DEF SequentialInv, RowMade, SameUsage
  <2>4. RowSound'
    BY <2>1 DEF SequentialInv, RowSound, UnderBudgets
  <2>5. RowFollows(act[c].pc)'
    BY <2>1, <2>2 DEF SequentialInv, RowFollows, SameUsage, UnderBudgets
  <2>6. SnapFresh(act[c].pc, act[c].snap)'
    BY <2>1, <2>2 DEF SequentialInv, SnapFresh
  <2>7. QED
    BY <2>3, <2>4, <2>5, <2>6 DEF SequentialInv
<1>3. CASE Crash
  <2>1. run' = Nil /\ UNCHANGED <<row, cp, metered>> /\ act'[c].pc = "idle"
    BY <1>3, ProcessEffects DEF IdleActor
  <2>2. RowMade(act[c].pc)'
    BY <2>1 DEF SequentialInv, RowMade
  <2>3. RowSound'
    BY <2>1 DEF SequentialInv, RowSound, UnderBudgets
  <2>4. RowFollows(act[c].pc)' /\ SnapFresh(act[c].pc, act[c].snap)'
    BY <2>1 DEF RowFollows, SnapFresh, UpsertPCs
  <2>5. QED
    BY <2>2, <2>3, <2>4 DEF SequentialInv
<1>4. CASE Restart
  <2>1. /\ run = Nil /\ act[c].pc = "idle" /\ UNCHANGED <<act, cp, metered>>
        /\ \/ /\ row # Nil /\ ~Terminal(row) /\ run' = Reloaded(Reconciled(row, cp))
              /\ row' = Reconciled(row, cp) /\ run' # Nil
           \/ run' = Nil /\ row' = row
    BY <1>4, ProcessEffects DEF Quiet
  <2>2. SnapFresh(act[c].pc, act[c].snap)'
    BY <2>1 DEF SnapFresh, UpsertPCs
  <2>3. CASE run' = Nil /\ row' = row
    <3>1. RowMade(act[c].pc)'
      BY <2>1, <2>3 DEF SequentialInv, RowMade
    <3>2. RowSound'
      BY <2>1, <2>3 DEF SequentialInv, RowSound, UnderBudgets
    <3>3. RowFollows(act[c].pc)'
      BY <2>3 DEF RowFollows
    <3>4. QED
      BY <2>2, <3>1, <3>2, <3>3 DEF SequentialInv
  <2>4. CASE row # Nil /\ ~Terminal(row) /\ run' = Reloaded(Reconciled(row, cp)) /\ row' = Reconciled(row, cp)
    <3>1. /\ row \in Rows /\ cp \in Checkpoints \cup {Nil} /\ row.status = StatusFor(row.halted)
          /\ UnderBudgets(row) /\ (cp # Nil => UnderBudgets(cp))
      BY <2>4 DEF TypeInv, TypeOK, SequentialInv, RowSound
    <3>2. /\ row' \in Rows /\ row'.status = StatusFor(row'.halted) /\ ~Terminal(row') /\ UnderBudgets(row')
      BY <2>4, <3>1, ReconciledSound
    <3>3. /\ Record(run') = row' /\ run'.halted = row'.halted /\ SameUsage(run', row')
      BY <2>4, <3>2, RecordReloaded, UsageKept
    <3>4. RowMade(act[c].pc)'
      BY <3>2, ConstantsAssumption DEF RowMade
    <3>5. RowSound'
      BY <2>1, <3>1, <3>2 DEF RowSound, UnderBudgets
    <3>6. RowFollows(act[c].pc)'
      <4>1. UnderBudgets(run')
        BY <3>2, <3>3 DEF UnderBudgets, SameUsage
      <4>2. QED
        BY <3>3, <4>1 DEF RowFollows, SameUsage
    <3>7. QED
      BY <2>2, <3>4, <3>5, <3>6 DEF SequentialInv
  <2>5. QED
    BY <2>1, <2>3, <2>4
<1>5. QED
  BY <1>1, <1>2, <1>3, <1>4

\* With one client and no failing statement, the row follows the live run.
LEMMA SequentialInductive ==
    /\ Init => Sequential
    /\ TypeInv /\ Sequential /\ [Next]_vars => Sequential'
<1>1. Init => Sequential
  BY DEF Init, Sequential, Alone, SequentialInv, RowMade, RowSound, RowFollows, SnapFresh, IdleActor, UpsertPCs
<1>2. ASSUME TypeInv, Sequential, Next, NEW c \in Clients, Alone(c)'
      PROVE  SequentialInv(c)'
  <2>1. Clients = {c} /\ faults' = 0 /\ faults = 0
    BY <1>2, FaultsGrow DEF Alone, TypeInv, TypeOK
  <2>2. SequentialInv(c)
    BY <1>2, <2>1 DEF Sequential, Alone
  <2>3. CASE Create \/ Tick \/ DeadlineFires \/ Crash \/ Restart
    BY <1>2, <2>1, <2>2, <2>3, ProcessSequential
  <2>4. CASE \E op \in Operations : Request(c, op)
    <3>1. /\ act[c].pc = "idle" /\ act'[c].pc = "resolve" /\ UNCHANGED <<run, row, cp, metered>>
      BY <1>2, <2>4, ProcessEffects
    <3>2. row = Nil => run = Nil
      BY <2>2, <3>1 DEF SequentialInv, RowMade
    <3>3. SnapFresh(act'[c].pc, act'[c].snap) /\ act[c].pc \notin DirtyPCs
      BY <3>1 DEF SnapFresh, UpsertPCs, DirtyPCs
    <3>4. QED
      BY <2>2, <3>1, <3>2, <3>3, MoveSequential
  <2>5. CASE HandlerStep(c) \/ ProviderStep(c)
    <3>1. \/ \/ Resolve(c) \/ RestoreFromStore(c) \/ ReloadRun(c) \/ RunRecord(c)
             \/ StepIndex(c) \/ PersistStepStart(c) \/ Dispatch(c) \/ Refuse(c) \/ ReportFailure(c)
             \/ ProviderStep(c) \/ AppendLedger(c) \/ PersistStepEnd(c) \/ ReadCheckpoint(c)
          \/ BeginStep(c) \/ Ceiling(c) \/ RecordCall(c) \/ Kill(c)
          \/ UpsertRollback(c) \/ UpsertRun(c) \/ Register(c) \/ SaveCheckpoint(c)
      BY <2>5 DEF HandlerStep
    <3>2. QED
      BY <1>2, <2>1, <2>2, <3>1, HandlerMoves, GovernorSequential, RowWriteSequential, RegisterSequential
  <2>6. QED
    BY <1>2, <2>1, <2>3, <2>4, <2>5 DEF Next
<1>3. ASSUME Sequential, UNCHANGED vars PROVE Sequential'
  BY <1>3 DEF Sequential, Alone, SequentialInv, RowMade, RowSound, RowFollows, SnapFresh, UnderBudgets, vars
<1>4. QED
  BY <1>1, <1>2, <1>3 DEF Sequential
FaultCap == faults <= MaxFaults

\* No more statements fail than the bound allows.
LEMMA FaultsBounded ==
    /\ Init => FaultCap
    /\ TypeInv /\ FaultCap /\ [Next]_vars => FaultCap'
<1>0. MaxFaults \in Nat
  BY ConstantsAssumption
<1>1. Init => faults <= MaxFaults
  BY <1>0 DEF Init
<1>2. ASSUME TypeInv, faults <= MaxFaults, Next PROVE faults' <= MaxFaults
  <2>0. faults \in Nat
    BY <1>2 DEF TypeInv, TypeOK
  <2>1. faults' = faults \/ Fault \/ Restart
    <3>1. ASSUME NEW c \in Clients, HandlerStep(c) \/ ProviderStep(c) PROVE faults' = faults \/ Fault
      <4>1. CASE \/ RestoreFromStore(c) \/ ReloadRun(c) \/ UpsertRollback(c) \/ UpsertRun(c)
                 \/ PersistStepStart(c) \/ AppendLedger(c) \/ PersistStepEnd(c) \/ SaveCheckpoint(c)
        BY <4>1 DEF RestoreFromStore, ReloadRun, UpsertRollback, UpsertRun, PersistStepStart,
                    AppendLedger, PersistStepEnd, SaveCheckpoint, ChildWrite
      <4>2. CASE \/ Resolve(c) \/ Register(c) \/ RunRecord(c) \/ BeginStep(c) \/ StepIndex(c)
                 \/ Ceiling(c) \/ Dispatch(c) \/ Refuse(c) \/ ReportFailure(c) \/ RecordCall(c)
                 \/ ReadCheckpoint(c) \/ Kill(c) \/ ProviderStep(c)
        BY <4>2 DEF Resolve, Register, RunRecord, BeginStep, StepIndex, Ceiling, Dispatch, Refuse,
                    ReportFailure, RecordCall, ReadCheckpoint, Kill, ProviderStep, ProviderReturns,
                    StreamOpens, StreamEnds, ProviderFails
      <4>3. QED
        BY <3>1, <4>1, <4>2 DEF HandlerStep
    <3>2. CASE Create \/ Tick \/ DeadlineFires \/ Crash
      BY <3>2 DEF Create, Tick, DeadlineFires, Crash
    <3>3. CASE \E c \in Clients, op \in Operations : Request(c, op)
      BY <3>3 DEF Request
    <3>4. QED
      BY <1>2, <3>1, <3>2, <3>3 DEF Next
  <2>2. CASE Fault
    BY <1>0, <2>0, <2>2 DEF Fault
  <2>3. CASE Restart
    BY <1>2, <2>3 DEF Restart
  <2>4. QED
    BY <1>2, <2>1, <2>2, <2>3
<1>3. QED
  BY <1>1, <1>2 DEF FaultCap, vars

\* The rows of this run are written by one request at a time.
OneClient == \E c \in Clients : Clients = {c}

\* Served one request at a time, and as long as no statement fails, the row of a
\* run is its live state whenever no handler is under way, across crashes, reloads
\* and rollbacks (persistRun, Reload).
THEOREM RowCurrentHolds == OneClient => (Spec => []RowCurrent)
<1>1. SUFFICES ASSUME OneClient PROVE Spec => []RowCurrent
  OBVIOUS
<1>2. Sequential => RowCurrent
  <2>1. PICK c \in Clients : Clients = {c}
    BY <1>1 DEF OneClient
  <2>2. ASSUME Sequential, Quiet, run # Nil, faults = 0 PROVE row = Record(run)
    <3>1. SequentialInv(c) /\ act[c].pc = "idle"
      BY <2>1, <2>2 DEF Sequential, Alone, Quiet
    <3>2. QED
      BY <2>2, <3>1 DEF SequentialInv, RowFollows, DirtyPCs
  <2>3. QED
    BY <2>2 DEF RowCurrent
<1>3. QED
  BY <1>2, TypeInvInductive, SequentialInductive, PTL DEF Spec

\* Served one request at a time, and as long as no statement fails, a run that is
\* not halted is under its token and dollar budgets, also when it was rebuilt from
\* its row and rolled back to its checkpoint after a crash (RecordUsage, reloadRun).
THEOREM RunningIsUnderBudgetHolds == OneClient => (Spec => [](faults = 0 => RunningIsUnderBudget))
<1>1. SUFFICES ASSUME OneClient PROVE Spec => [](faults = 0 => RunningIsUnderBudget)
  OBVIOUS
<1>2. Sequential => (faults = 0 => RunningIsUnderBudget)
  <2>1. PICK c \in Clients : Clients = {c}
    BY <1>1 DEF OneClient
  <2>2. ASSUME Sequential, faults = 0 PROVE RunningIsUnderBudget
    <3>1. SequentialInv(c)
      BY <2>1, <2>2 DEF Sequential, Alone
    <3>2. QED
      BY <3>1 DEF SequentialInv, RowFollows, UnderBudgets, RunningIsUnderBudget
  <2>3. QED
    BY <2>2
<1>3. QED
  BY <1>2, TypeInvInductive, SequentialInductive, PTL DEF Spec

\* How the row changes.
LEMMA RowChanges ==
    ASSUME TypeInv, Next, row # Nil, row' # row, NEW c, Alone(c), Alone(c)'
    PROVE  \/ UpsertRollback(c) \/ UpsertRun(c)
           \/ ~Terminal(row)
<1>1. ASSUME NEW d \in Clients, HandlerStep(d) \/ ProviderStep(d)
      PROVE  UpsertRollback(d) \/ UpsertRun(d)
  <2>1. CASE Resolve(d) \/ RestoreFromStore(d) \/ ReloadRun(d) \/ Register(d) \/ RunRecord(d)
    BY <2>1, LookupEffects, PersistEffects
  <2>2. CASE \/ StepIndex(d) \/ PersistStepStart(d) \/ Dispatch(d) \/ Refuse(d) \/ ReportFailure(d)
             \/ ProviderStep(d) \/ BeginStep(d) \/ Ceiling(d)
    BY <2>2, CallEffects DEF ProviderStep
  <2>3. CASE \/ AppendLedger(d) \/ PersistStepEnd(d) \/ ReadCheckpoint(d) \/ SaveCheckpoint(d)
             \/ RecordCall(d) \/ Kill(d)
    BY <2>3, AccountEffects
  <2>4. QED
    BY <1>1, <2>1, <2>2, <2>3 DEF HandlerStep
<1>2. CASE Create \/ Tick \/ DeadlineFires \/ Crash \/ Restart
  BY <1>2, ProcessEffects
<1>3. CASE \E d \in Clients, op \in Operations : Request(d, op)
  BY <1>3, ProcessEffects
<1>4. QED
  BY <1>1, <1>2, <1>3 DEF Next, Alone

\* Served one request at a time, and when no statement fails, a row that says halted
\* or cancelled keeps its reason and its loop count: neither a restart, nor the reload
\* of the run, nor a further request revives it (GetOrCreate, WithRestoredHalt).
THEOREM TerminalRowIsFinalHolds == OneClient /\ MaxFaults = 0 => (Spec => TerminalRowIsFinal)
<1>1. SUFFICES ASSUME OneClient, MaxFaults = 0 PROVE Spec => TerminalRowIsFinal
  OBVIOUS
<1>2. ASSUME TypeInv, Sequential, FaultCap, [Next]_vars
      PROVE  (row # Nil /\ Terminal(row)) =>
                /\ row'.status = row.status /\ row'.halted = row.halted /\ row'.loops = row.loops
  <2>1. PICK c \in Clients : Clients = {c}
    BY <1>1 DEF OneClient
  <2>2. faults = 0 /\ faults' = 0
    <3>1. faults' <= MaxFaults
      BY <1>2, FaultsBounded DEF FaultCap
    <3>2. faults \in Nat /\ faults' \in Nat
      BY <1>2, TypeInvInductive DEF TypeInv, TypeOK
    <3>3. QED
      BY <1>1, <1>2, <3>1, <3>2 DEF FaultCap
  <2>3. SequentialInv(c)
    BY <1>2, <2>1, <2>2 DEF Sequential, Alone
  <2>4. ASSUME row # Nil, Terminal(row), Next, row' # row
        PROVE  row'.status = row.status /\ row'.halted = row.halted /\ row'.loops = row.loops
    <3>1. UpsertRollback(c) \/ UpsertRun(c)
      BY <1>2, <2>1, <2>2, <2>4, RowChanges DEF Alone
    <3>2. CASE UpsertRollback(c)
      BY <1>2, <2>3, <2>4, <3>2, LookupEffects DEF SequentialInv, SnapFresh
    <3>3. CASE UpsertRun(c)
      <4>1. act[c].pc \in UpsertPCs /\ row' = act[c].snap
        BY <1>2, <2>2, <3>3, PersistEffects DEF RowWritten, UpsertPCs
      <4>2. row' = Record(run) /\ run # Nil /\ run \in LiveRuns
        BY <1>2, <2>3, <4>1, Registers
           DEF SequentialInv, SnapFresh, GoroutineOK, UpsertPCs, ResolvePCs, TypeInv, TypeOK
      <4>3. run.halted = row.halted /\ run.loops = row.loops /\ row.status = StatusFor(row.halted)
        BY <2>3, <2>4, <4>2 DEF SequentialInv, RowFollows, RowSound
      <4>4. QED
        BY <4>2, <4>3 DEF Record
    <3>4. QED
      BY <3>1, <3>2, <3>3
  <2>5. QED
    BY <1>2, <2>4 DEF vars
<1>3. QED
  BY <1>2, TypeInvInductive, SequentialInductive, FaultsBounded, PTL DEF Spec, TerminalRowIsFinal
----------------------------------------------------------------------------
(* What a crash makes the meter forget.                                    *)

\* u is behind the meter by at most n calls.
Lag(u, n) == /\ metered.tokens <= u.tokens + n * MaxCost.tokens
             /\ metered.dollars <= u.dollars + n * MaxCost.dollars

\* Where a metered call is not yet in the row, and not yet in a checkpoint.
UnwrittenPCs == {"ledger", "stepend", "call.record", "call.upsert"}
UnsavedPCs   == UnwrittenPCs \cup {"cp.read", "cp.save"}

Behind(pc, S) == IF pc \in S THEN 1 ELSE 0

LossInv(c) ==
    /\ run # Nil => Lag(run, crashes)
    /\ row # Nil => Lag(row, crashes + Behind(act[c].pc, UnwrittenPCs))
    /\ cp # Nil => Lag(cp, crashes + Behind(act[c].pc, UnsavedPCs))

Losses == \A c \in Clients : Alone(c) => LossInv(c)

\* One more call of slack, and one more call on the meter.
LEMMA LagGrows ==
    ASSUME NEW u, u.tokens \in Nat, u.dollars \in Nat, NEW n \in Nat, metered \in Charges, Lag(u, n)
    PROVE  /\ Lag(u, n + 1)
           /\ \A k \in Costs \cup {NoCharge} :
                /\ metered.tokens + k.tokens <= u.tokens + (n + 1) * MaxCost.tokens
                /\ metered.dollars + k.dollars <= u.dollars + (n + 1) * MaxCost.dollars
                /\ metered.tokens + k.tokens <= (u.tokens + k.tokens) + n * MaxCost.tokens
                /\ metered.dollars + k.dollars <= (u.dollars + k.dollars) + n * MaxCost.dollars
<1>1. /\ MaxCost.tokens \in Nat /\ MaxCost.dollars \in Nat
      /\ metered.tokens \in Nat /\ metered.dollars \in Nat
  BY ConstantsAssumption DEF Charges
<1>2. PICK x, y \in Nat : x = n * MaxCost.tokens /\ y = n * MaxCost.dollars
  BY <1>1
<1>3. (n + 1) * MaxCost.tokens = x + MaxCost.tokens /\ (n + 1) * MaxCost.dollars = y + MaxCost.dollars
  <2>1. \A b \in Nat : (n + 1) * b = n * b + b
    OBVIOUS
  <2>2. QED
    BY <1>1, <1>2, <2>1
<1>4. metered.tokens <= u.tokens + x /\ metered.dollars <= u.dollars + y
  BY <1>2 DEF Lag
<1>5. Lag(u, n + 1)
  <2>1. metered.tokens <= u.tokens + (x + MaxCost.tokens) /\ metered.dollars <= u.dollars + (y + MaxCost.dollars)
    BY <1>1, <1>2, <1>4
  <2>2. QED
    BY <1>3, <2>1 DEF Lag
<1>6. ASSUME NEW k \in Costs \cup {NoCharge}
      PROVE  /\ metered.tokens + k.tokens <= u.tokens + (n + 1) * MaxCost.tokens
             /\ metered.dollars + k.dollars <= u.dollars + (n + 1) * MaxCost.dollars
             /\ metered.tokens + k.tokens <= (u.tokens + k.tokens) + n * MaxCost.tokens
             /\ metered.dollars + k.dollars <= (u.dollars + k.dollars) + n * MaxCost.dollars
  <2>1. /\ k.tokens \in Nat /\ k.dollars \in Nat
        /\ k.tokens <= MaxCost.tokens /\ k.dollars <= MaxCost.dollars
    BY <1>1, ConstantsAssumption DEF Charges, NoCharge
  <2>2. /\ metered.tokens + k.tokens <= u.tokens + (x + MaxCost.tokens)
        /\ metered.dollars + k.dollars <= u.dollars + (y + MaxCost.dollars)
        /\ metered.tokens + k.tokens <= (u.tokens + k.tokens) + x
        /\ metered.dollars + k.dollars <= (u.dollars + k.dollars) + y
    BY <1>1, <1>2, <1>4, <2>1
  <2>3. QED
    BY <1>2, <1>3, <2>2
<1>7. QED
  BY <1>5, <1>6

\* Copies of the usage lag alike.
LEMMA LagOfCopy ==
    ASSUME NEW u, NEW v, SameUsage(u, v), NEW n, Lag(v, n)
    PROVE  Lag(u, n)
BY DEF SameUsage, Lag

\* A step that meters nothing keeps the bound if each copy is taken from one within
\* it, or stays while the handler has still to write it.
LEMMA LossStep ==
    ASSUME TypeInv, NEW c \in Clients, LossInv(c), UNCHANGED <<metered, crashes>>,
           run' # Nil => Lag(run', crashes),
           row' # Nil => \/ row' \in Rows /\ Lag(row', crashes)
                         \/ row' = row /\ (act[c].pc \in UnwrittenPCs => act'[c].pc \in UnwrittenPCs),
           cp' # Nil => \/ cp' \in Checkpoints /\ Lag(cp', crashes)
                        \/ cp' = cp /\ (act[c].pc \in UnsavedPCs => act'[c].pc \in UnsavedPCs)
    PROVE  LossInv(c)'
<1>0. crashes \in Nat /\ metered \in Charges
  BY DEF TypeInv, TypeOK
<1>1. ASSUME NEW S, NEW u, u.tokens \in Nat, u.dollars \in Nat,
             \/ Lag(u, crashes)
             \/ /\ Lag(u, crashes + Behind(act[c].pc, S))
                /\ act[c].pc \in S => act'[c].pc \in S
      PROVE  Lag(u, crashes + Behind(act'[c].pc, S))
  <2>1. CASE act'[c].pc \in S
    <3>1. Lag(u, crashes + 1)
      <4>1. Lag(u, crashes) => Lag(u, crashes + 1)
        BY <1>0, <1>1, LagGrows
      <4>2. crashes + 0 = crashes
        BY <1>0
      <4>3. QED
        BY <1>1, <4>1, <4>2 DEF Behind
    <3>2. QED
      BY <2>1, <3>1 DEF Behind
  <2>2. CASE act'[c].pc \notin S
    <3>1. Lag(u, crashes + 0)
      <4>1. crashes + 0 = crashes
        BY <1>0
      <4>2. QED
        BY <1>1, <2>2, <4>1 DEF Behind
    <3>2. QED
      BY <2>2, <3>1 DEF Behind
  <2>3. QED
    BY <2>1, <2>2
<1>2. row' # Nil => Lag(row', crashes + Behind(act'[c].pc, UnwrittenPCs))
  <2>1. row # Nil => row \in Rows /\ Lag(row, crashes + Behind(act[c].pc, UnwrittenPCs))
    BY DEF LossInv, TypeInv, TypeOK
  <2>2. \A r \in Rows : r.tokens \in Nat /\ r.dollars \in Nat
    BY DEF Rows
  <2>3. QED
    BY <1>1, <2>1, <2>2
<1>3. cp' # Nil => Lag(cp', crashes + Behind(act'[c].pc, UnsavedPCs))
  <2>1. cp # Nil => cp \in Checkpoints /\ Lag(cp, crashes + Behind(act[c].pc, UnsavedPCs))
    BY DEF LossInv, TypeInv, TypeOK
  <2>2. \A r \in Checkpoints : r.tokens \in Nat /\ r.dollars \in Nat
    BY DEF Checkpoints
  <2>3. QED
    BY <1>1, <2>1, <2>2
<1>4. QED
  BY <1>2, <1>3 DEF LossInv, Lag, Behind
\* Every charge under way is one the providers or the senders of spans can ask for.
LEMMA CostsInductive ==
    /\ Init => CostsOK
    /\ TypeInv /\ CostsOK /\ [Next]_vars => CostsOK'
<1>1. Init => CostsOK
  BY DEF Init, CostsOK, IdleActor
<1>2. ASSUME TypeInv, CostsOK, Next PROVE CostsOK'
  <2>1. ASSUME NEW c \in Clients, HandlerStep(c) \/ ProviderStep(c)
        PROVE  Others(c) /\ act'[c].cost \in {act[c].cost, NoCharge} \cup Costs
    <3>1. CASE Resolve(c) \/ RestoreFromStore(c) \/ ReloadRun(c) \/ UpsertRollback(c) \/ Register(c)
      BY <1>2, <3>1, LookupEffects DEF Moves, Answers
    <3>2. CASE RunRecord(c) \/ UpsertRun(c)
      BY <1>2, <3>2, PersistEffects DEF Moves, Answers
    <3>3. CASE \/ StepIndex(c) \/ PersistStepStart(c) \/ Dispatch(c) \/ Refuse(c) \/ ReportFailure(c)
               \/ ProviderStep(c) \/ BeginStep(c) \/ Ceiling(c)
      BY <1>2, <3>3, CallEffects DEF Moves, Answers, ProviderStep
    <3>4. CASE \/ AppendLedger(c) \/ PersistStepEnd(c) \/ ReadCheckpoint(c) \/ SaveCheckpoint(c)
               \/ RecordCall(c) \/ Kill(c)
      BY <1>2, <3>4, AccountEffects DEF Moves, Answers
    <3>5. QED
      BY <2>1, <3>1, <3>2, <3>3, <3>4 DEF HandlerStep
  <2>2. CASE \E c \in Clients : HandlerStep(c) \/ ProviderStep(c)
    BY <1>2, <2>1, <2>2 DEF CostsOK, Others
  <2>3. CASE Create \/ Tick \/ DeadlineFires \/ Crash \/ Restart
    BY <1>2, <2>3, ProcessEffects DEF CostsOK, IdleActor
  <2>4. CASE \E c \in Clients, op \in Operations : Request(c, op)
    BY <1>2, <2>4, ProcessEffects DEF CostsOK, Others
  <2>5. QED
    BY <1>2, <2>2, <2>3, <2>4 DEF Next
<1>3. QED
  BY <1>1, <1>2 DEF CostsOK, vars

\* The handler's steps that leave the copies alone.
LEMMA HandlerMovesLoss ==
    ASSUME TypeInv, NEW c \in Clients, LossInv(c), faults = 0, faults' = 0,
           \/ Resolve(c) \/ RestoreFromStore(c) \/ ReloadRun(c) \/ RunRecord(c)
           \/ StepIndex(c) \/ PersistStepStart(c) \/ Dispatch(c) \/ Refuse(c) \/ ReportFailure(c)
           \/ ProviderStep(c) \/ AppendLedger(c) \/ PersistStepEnd(c) \/ ReadCheckpoint(c)
    PROVE  LossInv(c)'
<1>1. /\ UNCHANGED <<run, row, cp, metered, crashes>>
      /\ act[c].pc \in UnwrittenPCs => act'[c].pc \in UnwrittenPCs
      /\ act[c].pc \in UnsavedPCs => act'[c].pc \in UnsavedPCs
  <2>1. CASE Resolve(c) \/ RestoreFromStore(c) \/ ReloadRun(c)
    BY <2>1, LookupEffects DEF UnsavedPCs, UnwrittenPCs
  <2>2. CASE RunRecord(c)
    BY <2>2, PersistEffects DEF UnsavedPCs, UnwrittenPCs
  <2>3. CASE StepIndex(c) \/ PersistStepStart(c) \/ Dispatch(c) \/ Refuse(c) \/ ReportFailure(c) \/ ProviderStep(c)
    BY <2>3, CallEffects DEF ProviderStep, UnsavedPCs, UnwrittenPCs
  <2>4. CASE AppendLedger(c) \/ PersistStepEnd(c) \/ ReadCheckpoint(c)
    BY <2>4, AccountEffects DEF Moves, UnsavedPCs, UnwrittenPCs
  <2>5. QED
    BY <2>1, <2>2, <2>3, <2>4
<1>2. run' # Nil => Lag(run', crashes)
  BY <1>1 DEF LossInv
<1>3. QED
  BY <1>1, <1>2, LossStep

\* The handler's steps that write one of the copies.
LEMMA HandlerWritesLoss ==
    ASSUME TypeInv, NEW c \in Clients, LossInv(c), SequentialInv(c), faults = 0, faults' = 0,
           \/ BeginStep(c) \/ Ceiling(c) \/ Kill(c) \/ UpsertRollback(c) \/ UpsertRun(c)
           \/ Register(c) \/ SaveCheckpoint(c)
    PROVE  LossInv(c)'
<1>0. SnapFresh(act[c].pc, act[c].snap) /\ RowMade(act[c].pc)
  BY DEF SequentialInv
<1>1. /\ crashes \in Nat /\ crashes + 0 = crashes /\ metered \in Charges
      /\ run # Nil => run \in LiveRuns /\ Lag(run, crashes)
      /\ row # Nil => row \in Rows
      /\ cp # Nil => cp \in Checkpoints
  BY DEF LossInv, TypeInv, TypeOK
<1>2. /\ row # Nil /\ act[c].pc \notin UnwrittenPCs => Lag(row, crashes)
      /\ cp # Nil /\ act[c].pc \notin UnsavedPCs => Lag(cp, crashes)
  BY <1>1 DEF LossInv, Behind
<1>3. CASE BeginStep(c) \/ Ceiling(c) \/ Kill(c)
  <2>1. /\ run # Nil /\ run' \in {PreStep(run), CanProceed(run), Cancel(run)}
        /\ UNCHANGED <<row, cp, metered, crashes>> /\ act[c].pc \in {"prestep", "ceiling", "kill"}
    BY <1>3, CallEffects, AccountEffects
  <2>2. run'.tokens = run.tokens /\ run'.dollars = run.dollars
    <3>1. NoCharge \in Charges
      BY DEF NoCharge, Charges
    <3>2. QED
      BY <1>1, <2>1, <3>1, UsageKept, UsageCounted DEF SameUsage
  <2>3. Lag(run', crashes)
    BY <1>1, <2>1, <2>2 DEF Lag
  <2>4. act[c].pc \notin UnwrittenPCs /\ act[c].pc \notin UnsavedPCs
    BY <2>1 DEF UnwrittenPCs, UnsavedPCs
  <2>5. QED
    BY <2>1, <2>3, <2>4, LossStep
<1>4. CASE UpsertRollback(c)
  <2>1. /\ act[c].pc = "rollback.upsert" /\ UNCHANGED <<run, cp, metered, crashes>> /\ row' = act[c].snap
    BY <1>4, LookupEffects DEF RowWritten
  <2>2. run = Nil /\ row # Nil /\ row' = Reconciled(row, cp)
    BY <1>0, <2>1 DEF SnapFresh
  <2>3. act[c].pc \notin UnwrittenPCs /\ act[c].pc \notin UnsavedPCs
    BY <2>1 DEF UnwrittenPCs, UnsavedPCs
  <2>4. row' \in Rows /\ Lag(row', crashes)
    BY <1>1, <1>2, <2>2, <2>3, PersistedTypes, UsageKept, LagOfCopy
  <2>5. QED
    BY <2>1, <2>2, <2>3, <2>4, LossStep
<1>5. CASE UpsertRun(c)
  <2>1. /\ act[c].pc \in UpsertPCs /\ UNCHANGED <<run, cp, metered, crashes>> /\ row' = act[c].snap
        /\ act[c].pc \in UnsavedPCs => act'[c].pc \in UnsavedPCs
    BY <1>5, PersistEffects DEF RowWritten, Moves, UpsertPCs, UnsavedPCs, UnwrittenPCs
  <2>2. run # Nil /\ row' = Record(run)
    BY <1>0, <2>1, Registers DEF SnapFresh, GoroutineOK, UpsertPCs, ResolvePCs
  <2>3. row' \in Rows /\ Lag(row', crashes)
    BY <1>1, <2>2, PersistedTypes, UsageKept, LagOfCopy
  <2>4. QED
    BY <1>1, <2>1, <2>2, <2>3, LossStep
<1>6. CASE Register(c)
  <2>1. /\ act[c].pc = "register" /\ UNCHANGED <<row, cp, metered, crashes>>
        /\ run = Nil /\ act[c].snap = row
        /\ row = Nil => run' = NewRun
        /\ row # Nil => run' = Reloaded(row)
    <3>1. act[c].pc = "register"
      BY <1>6, LookupEffects
    <3>2. run = Nil /\ act[c].snap = row
      BY <1>0, <3>1 DEF SnapFresh
    <3>3. QED
      BY <1>6, <3>1, <3>2, LookupEffects
  <2>2. act[c].pc \notin UnwrittenPCs /\ act[c].pc \notin UnsavedPCs
    BY <2>1 DEF UnwrittenPCs, UnsavedPCs
  <2>3. Lag(run', crashes)
    <3>1. CASE row # Nil
      BY <1>1, <1>2, <2>1, <2>2, <3>1, UsageKept, LagOfCopy
    <3>2. CASE row = Nil
      <4>1. metered = NoCharge /\ run' = NewRun
        BY <1>0, <2>1, <3>2 DEF RowMade
      <4>2. crashes * MaxCost.tokens \in Nat /\ crashes * MaxCost.dollars \in Nat
        BY <1>1, ConstantsAssumption DEF Charges
      <4>3. QED
        BY <4>1, <4>2 DEF Lag, NoCharge, NewRun
    <3>3. QED
      BY <3>1, <3>2
  <2>4. QED
    BY <2>1, <2>2, <2>3, LossStep
<1>7. CASE SaveCheckpoint(c)
  <2>1. /\ act[c].pc = "cp.save" /\ run # Nil /\ UNCHANGED <<run, row, metered, crashes>>
        /\ row # Nil => cp' = act[c].snap
        /\ row = Nil => cp' = cp
    BY <1>7, AccountEffects
  <2>2. row = Nil => cp' = Nil
    BY <1>0, <2>1 DEF RowMade
  <2>3. act[c].snap = Snapshot(run)
    BY <1>0, <2>1 DEF SnapFresh
  <2>4. cp' # Nil => cp' \in Checkpoints /\ Lag(cp', crashes)
    BY <1>1, <2>1, <2>2, <2>3, PersistedTypes, UsageKept, LagOfCopy
  <2>5. act[c].pc \notin UnwrittenPCs
    BY <2>1 DEF UnwrittenPCs
  <2>6. QED
    BY <1>1, <2>1, <2>4, <2>5, LossStep
<1>8. QED
  BY <1>3, <1>4, <1>5, <1>6, <1>7

\* A call is metered: the run keeps up, the stored copies fall behind by that call.
LEMMA MeterLoss ==
    ASSUME TypeInv, NEW c \in Clients, LossInv(c), CostsOK, RecordCall(c)
    PROVE  LossInv(c)'
<1>1. /\ act[c].pc = "meter" /\ act'[c].pc = "ledger" /\ run # Nil
      /\ run' = RecordUsage(run, act[c].cost) /\ metered' = Add(metered, act[c].cost)
      /\ UNCHANGED <<row, cp, crashes>>
  BY AccountEffects
<1>2. /\ crashes \in Nat /\ crashes + 0 = crashes /\ metered \in Charges /\ run \in LiveRuns
      /\ act[c].cost \in Costs \cup {NoCharge} /\ act[c].cost \in Charges
  BY <1>1 DEF TypeInv, TypeOK, CostsOK, Actors
<1>3. /\ metered'.tokens = metered.tokens + act[c].cost.tokens
      /\ metered'.dollars = metered.dollars + act[c].cost.dollars
  BY <1>1 DEF Add
<1>4. Lag(run, crashes)'
  <2>1. run.tokens \in Nat /\ run.dollars \in Nat /\ Lag(run, crashes)
    BY <1>1, <1>2 DEF LiveRuns, LossInv
  <2>2. run'.tokens = run.tokens + act[c].cost.tokens /\ run'.dollars = run.dollars + act[c].cost.dollars
    BY <1>1, <1>2, UsageCounted
  <2>3. /\ metered'.tokens <= run'.tokens + crashes * MaxCost.tokens
        /\ metered'.dollars <= run'.dollars + crashes * MaxCost.dollars
    BY <1>2, <1>3, <2>1, <2>2, LagGrows
  <2>4. QED
    BY <1>1, <2>3 DEF Lag
<1>5. ASSUME NEW u, u.tokens \in Nat, u.dollars \in Nat, Lag(u, crashes)
      PROVE  /\ metered'.tokens <= u.tokens + (crashes + 1) * MaxCost.tokens
             /\ metered'.dollars <= u.dollars + (crashes + 1) * MaxCost.dollars
  BY <1>2, <1>3, <1>5, LagGrows
<1>6. /\ Behind(act[c].pc, UnwrittenPCs) = 0 /\ Behind(act'[c].pc, UnwrittenPCs) = 1
      /\ Behind(act[c].pc, UnsavedPCs) = 0 /\ Behind(act'[c].pc, UnsavedPCs) = 1
  BY <1>1 DEF Behind, UnwrittenPCs, UnsavedPCs
<1>7. /\ row # Nil => row.tokens \in Nat /\ row.dollars \in Nat /\ Lag(row, crashes)
      /\ cp # Nil => cp.tokens \in Nat /\ cp.dollars \in Nat /\ Lag(cp, crashes)
  BY <1>2, <1>6 DEF LossInv, TypeInv, TypeOK, Rows, Checkpoints
<1>8. row' # Nil => /\ metered'.tokens <= row'.tokens + (crashes' + 1) * MaxCost.tokens
                    /\ metered'.dollars <= row'.dollars + (crashes' + 1) * MaxCost.dollars
  BY <1>1, <1>5, <1>7
<1>9. cp' # Nil => /\ metered'.tokens <= cp'.tokens + (crashes' + 1) * MaxCost.tokens
                   /\ metered'.dollars <= cp'.dollars + (crashes' + 1) * MaxCost.dollars
  BY <1>1, <1>5, <1>7
<1>10. QED
  BY <1>4, <1>6, <1>8, <1>9 DEF LossInv, Lag, Behind

\* The run is made, time passes, the process dies (and with it one call that was not
\* yet written) and comes back.
LEMMA ProcessLoss ==
    ASSUME TypeInv, NEW c \in Clients, Clients = {c}, LossInv(c), SequentialInv(c), faults = 0, faults' = 0,
           Create \/ Tick \/ DeadlineFires \/ Crash \/ Restart
    PROVE  LossInv(c)'
<1>1. /\ crashes \in Nat /\ crashes + 0 = crashes /\ metered \in Charges
      /\ run # Nil => Lag(run, crashes)
      /\ row # Nil => row \in Rows
      /\ cp # Nil => cp \in Checkpoints
  BY DEF LossInv, TypeInv, TypeOK
<1>2. /\ row # Nil /\ act[c].pc = "idle" => Lag(row, crashes)
      /\ cp # Nil /\ act[c].pc = "idle" => Lag(cp, crashes)
  BY <1>1 DEF LossInv, Behind, UnwrittenPCs, UnsavedPCs
<1>3. CASE Create
  <2>1. /\ row = Nil /\ run' = NewRun /\ row' = Record(NewRun) /\ UNCHANGED <<act, cp, metered, crashes>>
    BY <1>3, ProcessEffects DEF RowWritten
  <2>2. metered = NoCharge
    BY <2>1 DEF SequentialInv, RowMade
  <2>3. crashes * MaxCost.tokens \in Nat /\ crashes * MaxCost.dollars \in Nat
    BY <1>1, ConstantsAssumption DEF Charges
  <2>4. Lag(NewRun, crashes)
    BY <2>2, <2>3 DEF Lag, NoCharge, NewRun
  <2>5. row' \in Rows /\ Lag(row', crashes)
    BY <2>1, <2>4, PersistedTypes, UsageKept, LagOfCopy
  <2>6. QED
    BY <2>1, <2>4, <2>5, LossStep
<1>4. CASE Tick \/ DeadlineFires
  <2>1. run # Nil /\ SameUsage(run', run) /\ UNCHANGED <<act, row, cp, metered, crashes>>
    BY <1>4, ProcessEffects
  <2>2. Lag(run', crashes)
    BY <1>1, <2>1, LagOfCopy
  <2>3. QED
    BY <2>1, <2>2, LossStep
<1>5. CASE Crash
  <2>1. run' = Nil /\ crashes' = crashes + 1 /\ UNCHANGED <<row, cp, metered>> /\ act'[c].pc = "idle"
    BY <1>5, ProcessEffects DEF IdleActor
  <2>2. ASSUME NEW u, u.tokens \in Nat, u.dollars \in Nat, NEW S, Lag(u, crashes + Behind(act[c].pc, S))
        PROVE  Lag(u, crashes + 1)
    <3>1. Lag(u, crashes) \/ Lag(u, crashes + 1)
      BY <1>1, <2>2 DEF Behind
    <3>2. QED
      BY <1>1, <2>2, <3>1, LagGrows
  <2>3. row # Nil => row.tokens \in Nat /\ row.dollars \in Nat /\ Lag(row, crashes + 1)
    BY <1>1, <2>2 DEF LossInv, Rows
  <2>4. cp # Nil => cp.tokens \in Nat /\ cp.dollars \in Nat /\ Lag(cp, crashes + 1)
    BY <1>1, <2>2 DEF LossInv, Checkpoints
  <2>5. /\ Behind(act'[c].pc, UnwrittenPCs) = 0 /\ Behind(act'[c].pc, UnsavedPCs) = 0
        /\ crashes' + 0 = crashes + 1
    BY <1>1, <2>1 DEF Behind, UnwrittenPCs, UnsavedPCs
  <2>6. QED
    BY <2>1, <2>3, <2>4, <2>5 DEF LossInv, Lag, Behind
<1>6. CASE Restart
  <2>1. /\ act[c].pc = "idle" /\ UNCHANGED <<act, cp, metered, crashes>>
        /\ \/ row # Nil /\ run' = Reloaded(Reconciled(row, cp)) /\ row' = Reconciled(row, cp)
           \/ run' = Nil /\ row' = row
    BY <1>6, ProcessEffects DEF Quiet
  <2>2. CASE run' = Nil /\ row' = row
    BY <2>1, <2>2, LossStep
  <2>3. CASE row # Nil /\ run' = Reloaded(Reconciled(row, cp)) /\ row' = Reconciled(row, cp)
    <3>1. row' \in Rows /\ Lag(row', crashes)
      BY <1>1, <1>2, <2>1, <2>3, PersistedTypes, UsageKept, LagOfCopy
    <3>2. Lag(run', crashes)
      BY <2>3, <3>1, UsageKept, LagOfCopy
    <3>3. QED
      BY <2>1, <3>1, <3>2, LossStep
  <2>4. QED
    BY <2>1, <2>2, <2>3
<1>7. QED
  BY <1>3, <1>4, <1>5, <1>6

\* With one client and no failing statement, the usage of the run, its row and its
\* checkpoint lags the meter by one call for each crash, at most.
LEMMA LossesInductive ==
    /\ Init => Losses
    /\ TypeInv /\ CostsOK /\ Sequential /\ Losses /\ [Next]_vars => Losses'
<1>1. Init => Losses
  BY DEF Init, Losses, LossInv
<1>2. ASSUME TypeInv, CostsOK, Sequential, Losses, Next, NEW c \in Clients, Alone(c)'
      PROVE  LossInv(c)'
  <2>1. Clients = {c} /\ faults' = 0 /\ faults = 0
    BY <1>2, FaultsGrow DEF Alone, TypeInv, TypeOK
  <2>2. SequentialInv(c) /\ LossInv(c)
    BY <1>2, <2>1 DEF Sequential, Losses, Alone
  <2>3. CASE Create \/ Tick \/ DeadlineFires \/ Crash \/ Restart
    BY <1>2, <2>1, <2>2, <2>3, ProcessLoss
  <2>4. CASE \E op \in Operations : Request(c, op)
    <3>1. /\ act[c].pc = "idle" /\ UNCHANGED <<run, row, cp, metered, crashes>>
      BY <1>2, <2>4, ProcessEffects
    <3>2. act[c].pc \notin UnwrittenPCs /\ act[c].pc \notin UnsavedPCs /\ (run' # Nil => Lag(run', crashes))
      BY <2>2, <3>1 DEF LossInv, UnwrittenPCs, UnsavedPCs
    <3>3. QED
      BY <1>2, <2>2, <3>1, <3>2, LossStep
  <2>5. CASE HandlerStep(c) \/ ProviderStep(c)
    <3>1. \/ \/ Resolve(c) \/ RestoreFromStore(c) \/ ReloadRun(c) \/ RunRecord(c)
             \/ StepIndex(c) \/ PersistStepStart(c) \/ Dispatch(c) \/ Refuse(c) \/ ReportFailure(c)
             \/ ProviderStep(c) \/ AppendLedger(c) \/ PersistStepEnd(c) \/ ReadCheckpoint(c)
          \/ \/ BeginStep(c) \/ Ceiling(c) \/ Kill(c) \/ UpsertRollback(c) \/ UpsertRun(c)
             \/ Register(c) \/ SaveCheckpoint(c)
          \/ RecordCall(c)
      BY <2>5 DEF HandlerStep
    <3>2. QED
      BY <1>2, <2>1, <2>2, <3>1, HandlerMovesLoss, HandlerWritesLoss, MeterLoss
  <2>6. QED
    BY <1>2, <2>1, <2>3, <2>4, <2>5 DEF Next
<1>3. ASSUME Losses, UNCHANGED vars PROVE Losses'
  BY <1>3 DEF Losses, Alone, LossInv, Lag, vars
<1>4. QED
  BY <1>1, <1>2, <1>3 DEF Losses

\* Served one request at a time, and as long as no statement fails, a crash makes
\* the meter forget at most one call: the one whose persistence it cut short
\* (persistCall, reloadRun's rollback to the checkpoint).
THEOREM LossBoundedHolds == OneClient => (Spec => []LossBounded)
<1>1. SUFFICES ASSUME OneClient PROVE Spec => []LossBounded
  OBVIOUS
<1>2. TypeInv /\ Losses => LossBounded
  <2>1. PICK c \in Clients : Clients = {c}
    BY <1>1 DEF OneClient
  <2>2. ASSUME TypeInv, Losses, run # Nil, faults = 0
        PROVE  /\ metered.dollars - run.dollars <= crashes * MaxCost.dollars
               /\ metered.tokens - run.tokens <= crashes * MaxCost.tokens
    <3>1. Lag(run, crashes)
      BY <2>1, <2>2 DEF Losses, Alone, LossInv
    <3>2. /\ metered.dollars \in Nat /\ metered.tokens \in Nat /\ run.dollars \in Nat /\ run.tokens \in Nat
          /\ crashes \in Nat /\ MaxCost.dollars \in Nat /\ MaxCost.tokens \in Nat
      BY <2>2, ConstantsAssumption DEF TypeInv, TypeOK, Charges, LiveRuns
    <3>3. PICK x, y \in Nat : x = crashes * MaxCost.dollars /\ y = crashes * MaxCost.tokens
      BY <3>2
    <3>4. metered.dollars <= run.dollars + x /\ metered.tokens <= run.tokens + y
      BY <3>1, <3>3 DEF Lag
    <3>5. metered.dollars - run.dollars <= x /\ metered.tokens - run.tokens <= y
      BY <3>2, <3>3, <3>4
    <3>6. QED
      BY <3>3, <3>5
  <2>3. QED
    BY <2>2 DEF LossBounded
<1>3. QED
  BY <1>2, TypeInvInductive, CostsInductive, SequentialInductive, LossesInductive, PTL DEF Spec
----------------------------------------------------------------------------
(* Until the first crash, with any number of clients.                      *)

\* The live run is the meter: nothing is registered before it, and it is charged for
\* exactly what is metered.
MeterInv ==
    crashes = 0 =>
        /\ run = Nil => /\ row = Nil /\ metered = NoCharge /\ ledger = NoCharge
                        /\ \A c \in Clients : act[c].snap = Nil
        /\ run # Nil => /\ run.tokens = metered.tokens /\ run.dollars = metered.dollars
                        /\ run.halted = HaltNone => UnderBudgets(run)

\* Crashes are counted.
LEMMA CrashesCounted ==
    ASSUME TypeInv, Next
    PROVE  crashes' = crashes \/ Crash
<1>1. ASSUME NEW c \in Clients, HandlerStep(c) \/ ProviderStep(c) PROVE crashes' = crashes
  <2>1. CASE \/ Resolve(c) \/ RestoreFromStore(c) \/ ReloadRun(c) \/ UpsertRollback(c) \/ Register(c)
             \/ RunRecord(c) \/ UpsertRun(c)
    BY <2>1, LookupEffects, PersistEffects
  <2>2. CASE \/ StepIndex(c) \/ PersistStepStart(c) \/ Dispatch(c) \/ Refuse(c) \/ ReportFailure(c)
             \/ ProviderStep(c) \/ BeginStep(c) \/ Ceiling(c)
    BY <2>2, CallEffects DEF ProviderStep
  <2>3. CASE \/ AppendLedger(c) \/ PersistStepEnd(c) \/ ReadCheckpoint(c) \/ SaveCheckpoint(c)
             \/ RecordCall(c) \/ Kill(c)
    BY <2>3, AccountEffects
  <2>4. QED
    BY <1>1, <2>1, <2>2, <2>3 DEF HandlerStep
<1>2. CASE Create \/ Tick \/ DeadlineFires \/ Restart
  BY <1>2, ProcessEffects
<1>3. CASE \E c \in Clients, op \in Operations : Request(c, op)
  BY <1>3, ProcessEffects
<1>4. QED
  BY <1>1, <1>2, <1>3 DEF Next

\* A run that is there is charged for exactly what is metered.
LEMMA MeterOfStep ==
    ASSUME TypeInv, Next, run # Nil, ~Crash
    PROVE  \/ run' = run /\ metered' = metered
           \/ run' \in {PreStep(run), CanProceed(run), Cancel(run)} /\ metered' = metered
           \/ \E k \in Charges : run' = RecordUsage(run, k) /\ metered' = Add(metered, k)
           \/ run'.halted = run.halted /\ SameUsage(run', run) /\ metered' = metered
<1>1. ASSUME NEW c \in Clients, HandlerStep(c) \/ ProviderStep(c)
      PROVE  \/ run' = run /\ metered' = metered
             \/ run' \in {PreStep(run), CanProceed(run), Cancel(run)} /\ metered' = metered
             \/ \E k \in Charges : run' = RecordUsage(run, k) /\ metered' = Add(metered, k)
  <2>0. act[c].cost \in Charges
    BY DEF TypeInv, TypeOK, Actors
  <2>1. CASE \/ Resolve(c) \/ RestoreFromStore(c) \/ ReloadRun(c) \/ UpsertRollback(c) \/ Register(c)
             \/ RunRecord(c) \/ UpsertRun(c)
    BY <2>1, LookupEffects, PersistEffects
  <2>2. CASE \/ StepIndex(c) \/ PersistStepStart(c) \/ Dispatch(c) \/ Refuse(c) \/ ReportFailure(c)
             \/ ProviderStep(c)
    BY <2>2, CallEffects DEF ProviderStep
  <2>3. CASE \/ AppendLedger(c) \/ PersistStepEnd(c) \/ ReadCheckpoint(c) \/ SaveCheckpoint(c)
    BY <2>3, AccountEffects
  <2>4. CASE BeginStep(c) \/ Ceiling(c) \/ RecordCall(c) \/ Kill(c)
    BY <2>0, <2>4, CallEffects, AccountEffects
  <2>5. QED
    BY <1>1, <2>1, <2>2, <2>3, <2>4 DEF HandlerStep
<1>2. CASE Create \/ Tick \/ DeadlineFires \/ Restart
  BY <1>2, ProcessEffects
<1>3. CASE \E c \in Clients, op \in Operations : Request(c, op)
  BY <1>3, ProcessEffects
<1>4. QED
  BY <1>1, <1>2, <1>3 DEF Next

\* A run that is there stays the meter.
LEMMA MeterOfRun ==
    ASSUME TypeInv, MeterInv, Next, run # Nil, crashes = 0, ~Crash
    PROVE  /\ run' # Nil /\ run'.tokens = metered'.tokens /\ run'.dollars = metered'.dollars
           /\ run'.halted = HaltNone => UnderBudgets(run')
<1>0. /\ run \in LiveRuns /\ NoCharge \in Charges /\ run' # Nil
      /\ run.tokens = metered.tokens /\ run.dollars = metered.dollars
      /\ run.halted = HaltNone => UnderBudgets(run)
  <2>1. run' # Nil
    BY RunStays
  <2>2. run \in LiveRuns /\ NoCharge \in Charges
    BY DEF TypeInv, TypeOK, NoCharge, Charges
  <2>3. QED
    BY <2>1, <2>2 DEF MeterInv
<1>1. CASE run' = run /\ metered' = metered
  BY <1>0, <1>1
<1>2. CASE run' \in {PreStep(run), CanProceed(run), Cancel(run)} /\ metered' = metered
  <2>1. run'.tokens = run.tokens /\ run'.dollars = run.dollars
    BY <1>0, <1>2, UsageKept, UsageCounted DEF SameUsage
  <2>2. run'.halted = HaltNone => UnderBudgets(run')
    BY <1>0, <1>2, RunningStaysUnder
  <2>3. QED
    BY <1>0, <1>2, <2>1, <2>2
<1>3. CASE \E k \in Charges : run' = RecordUsage(run, k) /\ metered' = Add(metered, k)
  <2>1. PICK k \in Charges : run' = RecordUsage(run, k) /\ metered' = Add(metered, k)
    BY <1>3
  <2>2. run'.tokens = run.tokens + k.tokens /\ run'.dollars = run.dollars + k.dollars
    BY <1>0, <2>1, UsageCounted
  <2>3. metered'.tokens = metered.tokens + k.tokens /\ metered'.dollars = metered.dollars + k.dollars
    BY <2>1 DEF Add
  <2>4. run'.halted = HaltNone => UnderBudgets(run')
    BY <1>0, <2>1, RunningStaysUnder
  <2>5. QED
    BY <1>0, <2>2, <2>3, <2>4
<1>4. CASE run'.halted = run.halted /\ SameUsage(run', run) /\ metered' = metered
  BY <1>0, <1>4 DEF SameUsage, UnderBudgets
<1>5. QED
  BY <1>1, <1>2, <1>3, <1>4, MeterOfStep

\* The first step that has a run has a fresh one.
LEMMA MeterOfNone ==
    ASSUME TypeInv, MeterInv, Next, run = Nil, crashes = 0, ~Crash
    PROVE  /\ metered' = NoCharge /\ ledger' = NoCharge
           /\ \/ run' = Nil /\ row' = Nil /\ \A c \in Clients : act'[c].snap = Nil
              \/ run' = NewRun
<1>0. /\ row = Nil /\ metered = NoCharge /\ ledger = NoCharge /\ \A c \in Clients : act[c].snap = Nil
  BY DEF MeterInv
<1>1. ASSUME NEW c \in Clients, HandlerStep(c) \/ ProviderStep(c)
      PROVE  /\ Others(c) /\ metered' = metered /\ ledger' = ledger /\ row' = row
             /\ (run' = Nil /\ act'[c].snap = Nil) \/ run' = NewRun
  <2>1. act[c].pc \in ResolvePCs \cup {"idle"} /\ act[c].snap = Nil
    BY <1>0, Registers DEF GoroutineOK
  <2>2. CASE Resolve(c)
    BY <1>0, <2>1, <2>2, LookupEffects DEF Moves, Answers
  <2>3. CASE RestoreFromStore(c)
    BY <1>0, <2>3, LookupEffects
  <2>4. CASE ReloadRun(c) \/ UpsertRollback(c)
    <3>1. act[c].snap \in Rows
      BY <2>4, LookupEffects, Registers DEF GoroutineOK
    <3>2. QED
      BY <2>1, <3>1, ConstantsAssumption
  <2>5. CASE Register(c)
    BY <1>0, <2>1, <2>5, LookupEffects
  <2>6. ~(RunRecord(c) \/ UpsertRun(c))
    BY <2>1, PersistEffects DEF ResolvePCs
  <2>7. ~(\/ StepIndex(c) \/ PersistStepStart(c) \/ Dispatch(c) \/ Refuse(c) \/ ReportFailure(c)
          \/ ProviderStep(c) \/ BeginStep(c) \/ Ceiling(c))
    BY CallEffects DEF ProviderStep
  <2>8. ~(\/ AppendLedger(c) \/ PersistStepEnd(c) \/ ReadCheckpoint(c) \/ SaveCheckpoint(c)
          \/ RecordCall(c) \/ Kill(c))
    BY AccountEffects
  <2>9. QED
    BY <1>1, <2>2, <2>3, <2>4, <2>5, <2>6, <2>7, <2>8 DEF HandlerStep
<1>2. CASE \E c \in Clients : HandlerStep(c) \/ ProviderStep(c)
  BY <1>0, <1>1, <1>2 DEF Others
<1>3. CASE Create \/ Tick \/ DeadlineFires \/ Restart
  BY <1>0, <1>3, ProcessEffects
<1>4. CASE \E c \in Clients, op \in Operations : Request(c, op)
  BY <1>0, <1>4, ProcessEffects DEF Others
<1>5. QED
  BY <1>2, <1>3, <1>4 DEF Next

\* The meter's invariant is inductive.
LEMMA MeterInductive ==
    /\ Init => MeterInv
    /\ TypeInv /\ MeterInv /\ [Next]_vars => MeterInv'
<1>1. Init => MeterInv
  BY DEF Init, MeterInv, IdleActor
<1>2. ASSUME TypeInv, MeterInv, Next, crashes' = 0 PROVE MeterInv'
  <2>1. crashes = 0 /\ ~Crash
    <3>1. crashes \in Nat /\ (crashes' = crashes \/ Crash)
      BY <1>2, CrashesCounted DEF TypeInv, TypeOK
    <3>2. Crash => crashes' = crashes + 1
      BY <1>2, ProcessEffects
    <3>3. QED
      BY <1>2, <3>1, <3>2
  <2>2. CASE run # Nil
    BY <1>2, <2>1, <2>2, MeterOfRun DEF MeterInv, UnderBudgets
  <2>3. CASE run = Nil /\ run' = Nil
    <3>1. NewRun # Nil
      BY PersistedTypes, ConstantsAssumption
    <3>2. QED
      BY <1>2, <2>1, <2>3, <3>1, MeterOfNone DEF MeterInv
  <2>4. CASE run = Nil /\ run' # Nil
    <3>1. metered' = NoCharge /\ run' = NewRun
      BY <1>2, <2>1, <2>4, MeterOfNone
    <3>2. QED
      BY <2>4, <3>1, BudgetAssumption DEF MeterInv, NewRun, NoCharge, UnderBudgets
  <2>5. QED
    BY <2>2, <2>3, <2>4
<1>3. ASSUME MeterInv, UNCHANGED vars PROVE MeterInv'
  BY <1>3 DEF MeterInv, UnderBudgets, vars
<1>4. QED
  BY <1>1, <1>2, <1>3 DEF MeterInv

\* Until the first crash, however many requests interleave and whatever statements
\* fail, a run that is not halted is under its token and dollar budgets (RecordUsage).
THEOREM RunningWhileUpHolds == Spec => [](crashes = 0 => RunningIsUnderBudget)
<1>1. MeterInv => (crashes = 0 => RunningIsUnderBudget)
  BY DEF MeterInv, RunningIsUnderBudget, UnderBudgets
<1>2. QED
  BY <1>1, TypeInvInductive, MeterInductive, PTL DEF Spec
----------------------------------------------------------------------------
(* The cost ledger.                                                        *)

\* What is metered and about to be entered into the ledger.
PendingTokens  == [c \in Clients |-> IF act[c].pc = "ledger" THEN act[c].cost.tokens ELSE 0]
PendingDollars == [c \in Clients |-> IF act[c].pc = "ledger" THEN act[c].cost.dollars ELSE 0]

\* From the ceiling to the ledger the run has a row, which the entry refers to.
ReferringPCs == {"ceiling", "route", "inflight", "streaming", "meter", "failed", "ledger"}

\* Nothing lost a ledger entry so far.
NoLoss == "otlp" \notin Operations /\ crashes = 0 /\ faults = 0

LedgerInv ==
    NoLoss => /\ \A c \in Clients : act[c].pc \in ReferringPCs => row # Nil
              /\ metered.tokens = ledger.tokens + SumFunction(PendingTokens)
              /\ metered.dollars = ledger.dollars + SumFunction(PendingDollars)

\* Without losses the row stays.
LEMMA RowStays ==
    ASSUME TypeInv, Next, row # Nil
    PROVE  row' # Nil
<1>0. row \in Rows
  BY DEF TypeInv, TypeOK
<1>1. ASSUME NEW c \in Clients, HandlerStep(c) \/ ProviderStep(c)
      PROVE  row' = row \/ row' \in Rows
  <2>1. CASE Resolve(c) \/ RestoreFromStore(c) \/ ReloadRun(c) \/ Register(c) \/ RunRecord(c)
    BY <2>1, LookupEffects, PersistEffects
  <2>2. CASE \/ StepIndex(c) \/ PersistStepStart(c) \/ Dispatch(c) \/ Refuse(c) \/ ReportFailure(c)
             \/ ProviderStep(c) \/ BeginStep(c) \/ Ceiling(c)
    BY <2>2, CallEffects DEF ProviderStep
  <2>3. CASE \/ AppendLedger(c) \/ PersistStepEnd(c) \/ ReadCheckpoint(c) \/ SaveCheckpoint(c)
             \/ RecordCall(c) \/ Kill(c)
    BY <2>3, AccountEffects
  <2>4. CASE UpsertRollback(c)
    <3>1. act[c].snap \in Rows
      BY <2>4, LookupEffects, Registers DEF GoroutineOK
    <3>2. QED
      BY <2>4, <3>1, LookupEffects DEF RowWritten
  <2>5. CASE UpsertRun(c)
    <3>1. act[c].snap \in Rows
      BY <2>5, PersistEffects, Registers DEF GoroutineOK, UpsertPCs
    <3>2. QED
      BY <2>5, <3>1, PersistEffects DEF RowWritten
  <2>6. QED
    BY <1>1, <2>1, <2>2, <2>3, <2>4, <2>5 DEF HandlerStep
<1>2. CASE \E c \in Clients : HandlerStep(c) \/ ProviderStep(c)
  BY <1>0, <1>1, <1>2, ConstantsAssumption
<1>3. CASE Create \/ Tick \/ DeadlineFires \/ Crash
  BY <1>3, ProcessEffects
<1>4. CASE Restart
  <2>1. cp \in Checkpoints \cup {Nil}
    BY DEF TypeInv, TypeOK
  <2>2. row' = row \/ \E latest \in {cp, Nil} : row' = Reconciled(row, latest)
    BY <1>4, ProcessEffects
  <2>3. row' \in Rows
    BY <1>0, <2>1, <2>2, PersistedTypes
  <2>4. QED
    BY <2>3, ConstantsAssumption
<1>5. CASE \E c \in Clients, op \in Operations : Request(c, op)
  BY <1>5, ProcessEffects
<1>6. QED
  BY <1>2, <1>3, <1>4, <1>5 DEF Next

\* How a step of c moves it with respect to the ledger.
LEMMA LedgerMoves ==
    ASSUME TypeInv, NEW c \in Clients, HandlerStep(c) \/ ProviderStep(c), NoLoss, faults' = 0
    PROVE  /\ Others(c)
           /\ act'[c].pc \in ReferringPCs => act[c].pc \in ReferringPCs \/ row' # Nil
           /\ \/ act[c].pc # "ledger" /\ act'[c].pc # "ledger" /\ UNCHANGED <<metered, ledger>>
              \/ RecordCall(c) \/ AppendLedger(c)
<1> USE DEF ReferringPCs
<1>0. "otlp" \notin Operations /\ faults = 0
  BY DEF NoLoss
<1>1. CASE Resolve(c) \/ RestoreFromStore(c) \/ ReloadRun(c) \/ UpsertRollback(c) \/ Register(c)
  BY <1>0, <1>1, LookupEffects DEF Moves, Answers, EntryPCs
<1>2. CASE RunRecord(c)
  BY <1>2, PersistEffects
<1>3. CASE UpsertRun(c)
  <2>1. act[c].snap \in Rows
    BY <1>3, PersistEffects, Registers DEF GoroutineOK, UpsertPCs
  <2>2. row' # Nil
    BY <1>0, <1>3, <2>1, PersistEffects, ConstantsAssumption DEF RowWritten
  <2>3. /\ Others(c) /\ act[c].pc # "ledger" /\ act'[c].pc # "ledger" /\ UNCHANGED <<metered, ledger>>
    BY <1>3, PersistEffects DEF Moves, Answers, EntryPCs
  <2>4. QED
    BY <2>2, <2>3
<1>4. CASE \/ StepIndex(c) \/ PersistStepStart(c) \/ Dispatch(c) \/ ProviderStep(c)
  BY <1>4, CallEffects DEF Moves, ProviderStep
<1>5. CASE Refuse(c) \/ ReportFailure(c) \/ BeginStep(c) \/ Ceiling(c)
  BY <1>5, CallEffects DEF Answers
<1>6. CASE PersistStepEnd(c) \/ ReadCheckpoint(c) \/ SaveCheckpoint(c) \/ Kill(c)
  BY <1>6, AccountEffects DEF Moves, Answers
<1>7. CASE RecordCall(c) \/ AppendLedger(c)
  BY <1>7, AccountEffects DEF Moves
<1>8. QED
  BY <1>1, <1>2, <1>3, <1>4, <1>5, <1>6, <1>7 DEF HandlerStep

\* The pending entries are natural numbers, and a step of c changes only c's.
LEMMA PendingTypes ==
    ASSUME TypeInv
    PROVE  /\ PendingTokens \in [Clients -> Nat] /\ PendingDollars \in [Clients -> Nat]
           /\ IsFiniteSet(Clients)
<1>1. \A c \in Clients : act[c].cost.tokens \in Nat /\ act[c].cost.dollars \in Nat
  BY DEF TypeInv, TypeOK, Actors, Charges
<1>2. QED
  BY <1>1, ConstantsAssumption DEF PendingTokens, PendingDollars

\* A step of one client changes the pending sums by that client's share.
LEMMA PendingChanges ==
    ASSUME TypeInv, TypeInv', NEW c \in Clients, Others(c)
    PROVE  /\ SumFunction(PendingTokens)' = SumFunction(PendingTokens) - PendingTokens[c] + PendingTokens'[c]
           /\ SumFunction(PendingDollars)' = SumFunction(PendingDollars) - PendingDollars[c] + PendingDollars'[c]
           /\ SumFunction(PendingTokens) \in Nat /\ SumFunction(PendingDollars) \in Nat
<1>1. /\ PendingTokens \in [Clients -> Nat] /\ PendingDollars \in [Clients -> Nat] /\ IsFiniteSet(Clients)
  BY PendingTypes
<1>2. PendingTokens' \in [Clients -> Nat] /\ PendingDollars' \in [Clients -> Nat]
  <2>1. \A d \in Clients : act'[d].cost.tokens \in Nat /\ act'[d].cost.dollars \in Nat
    BY DEF TypeInv, TypeOK, Actors, Charges
  <2>2. QED
    BY <2>1 DEF PendingTokens, PendingDollars
<1>3. DifferAt(PendingTokens, PendingTokens', c) /\ DifferAt(PendingDollars, PendingDollars', c)
  BY DEF DifferAt, PendingTokens, PendingDollars, Others
<1>4. QED
  BY <1>1, <1>2, <1>3, SumOfChanged, SumType

\* The ledger's invariant is inductive, given the meter's.
LEMMA LedgerInductive ==
    /\ Init => LedgerInv
    /\ TypeInv /\ MeterInv /\ LedgerInv /\ [Next]_vars => LedgerInv'
<1>1. ASSUME Init PROVE LedgerInv
  <2>1. /\ PendingTokens \in [Clients -> Nat] /\ PendingDollars \in [Clients -> Nat] /\ IsFiniteSet(Clients)
        /\ \A c \in Clients : PendingTokens[c] = 0 /\ PendingDollars[c] = 0
    BY <1>1, ConstantsAssumption DEF Init, IdleActor, PendingTokens, PendingDollars
  <2>2. SumFunction(PendingTokens) = 0 /\ SumFunction(PendingDollars) = 0
    BY <2>1, SumOfZeros
  <2>3. QED
    BY <1>1, <2>2 DEF Init, LedgerInv, ReferringPCs, IdleActor, NoCharge
<1>2. ASSUME TypeInv, MeterInv, LedgerInv, Next, NoLoss' PROVE LedgerInv'
  <2>0. NoLoss /\ faults' = 0 /\ crashes' = 0 /\ ~Crash
    <3>1. faults \in Nat /\ crashes \in Nat /\ "otlp" \notin Operations /\ faults' = 0 /\ crashes' = 0
      BY <1>2 DEF TypeInv, TypeOK, NoLoss
    <3>2. faults = 0
      BY <1>2, <3>1, FaultsGrow
    <3>3. ~Crash
      BY <1>2, <3>1, ProcessEffects
    <3>4. QED
      BY <1>2, <3>1, <3>2, <3>3, CrashesCounted DEF NoLoss
  <2>1. /\ \A c \in Clients : act[c].pc \in ReferringPCs => row # Nil
        /\ metered.tokens = ledger.tokens + SumFunction(PendingTokens)
        /\ metered.dollars = ledger.dollars + SumFunction(PendingDollars)
    BY <1>2, <2>0 DEF LedgerInv
  <2>2. TypeInv'
    BY <1>2, TypeInvInductive
  <2>3. ASSUME NEW c \in Clients, Others(c), act'[c].pc \in ReferringPCs => act[c].pc \in ReferringPCs \/ row' # Nil
        PROVE  \A d \in Clients : act'[d].pc \in ReferringPCs => row' # Nil
    BY <1>2, <2>1, <2>3, RowStays DEF Others
  <2>4. ASSUME UNCHANGED <<metered, ledger>>,
               \/ act' = act
               \/ \E c \in Clients : Others(c) /\ act[c].pc # "ledger" /\ act'[c].pc # "ledger"
        PROVE  /\ metered'.tokens = ledger'.tokens + SumFunction(PendingTokens)'
               /\ metered'.dollars = ledger'.dollars + SumFunction(PendingDollars)'
    <3>1. PendingTokens' = PendingTokens /\ PendingDollars' = PendingDollars
      BY <2>4 DEF PendingTokens, PendingDollars, Others
    <3>2. QED
      BY <2>1, <2>4, <3>1
  <2>5. ASSUME NEW c \in Clients, RecordCall(c)
        PROVE  /\ metered'.tokens = ledger'.tokens + SumFunction(PendingTokens)'
               /\ metered'.dollars = ledger'.dollars + SumFunction(PendingDollars)'
    <3>1. /\ act[c].pc = "meter" /\ act'[c].pc = "ledger" /\ Others(c) /\ ledger' = ledger
          /\ metered' = Add(metered, act[c].cost) /\ act'[c].cost = act[c].cost
      BY <1>2, <2>5, AccountEffects
    <3>2. /\ PendingTokens[c] = 0 /\ PendingTokens'[c] = act[c].cost.tokens
          /\ PendingDollars[c] = 0 /\ PendingDollars'[c] = act[c].cost.dollars
      BY <3>1 DEF PendingTokens, PendingDollars
    <3>3. /\ metered'.tokens = metered.tokens + act[c].cost.tokens
          /\ metered'.dollars = metered.dollars + act[c].cost.dollars
      BY <3>1 DEF Add
    <3>4. /\ SumFunction(PendingTokens)' = SumFunction(PendingTokens) + act[c].cost.tokens
          /\ SumFunction(PendingDollars)' = SumFunction(PendingDollars) + act[c].cost.dollars
          /\ SumFunction(PendingTokens) \in Nat /\ SumFunction(PendingDollars) \in Nat
      BY <1>2, <2>2, <3>1, <3>2, PendingChanges
    <3>5. /\ ledger.tokens \in Nat /\ ledger.dollars \in Nat
          /\ act[c].cost.tokens \in Nat /\ act[c].cost.dollars \in Nat
      BY <1>2 DEF TypeInv, TypeOK, Actors, Charges
    <3>6. QED
      BY <2>1, <3>1, <3>3, <3>4, <3>5
  <2>6. ASSUME NEW c \in Clients, AppendLedger(c)
        PROVE  /\ metered'.tokens = ledger'.tokens + SumFunction(PendingTokens)'
               /\ metered'.dollars = ledger'.dollars + SumFunction(PendingDollars)'
    <3>1. /\ act[c].pc = "ledger" /\ act'[c].pc = "stepend" /\ Others(c) /\ metered' = metered
          /\ ledger' = Add(ledger, act[c].cost)
      <4>1. act[c].pc = "ledger" /\ row # Nil
        BY <1>2, <2>1, <2>6, AccountEffects DEF ReferringPCs
      <4>2. faults = 0
        BY <2>0 DEF NoLoss
      <4>3. QED
        BY <1>2, <2>0, <2>6, <4>1, <4>2, AccountEffects DEF Moves
    <3>2. /\ PendingTokens[c] = act[c].cost.tokens /\ PendingTokens'[c] = 0
          /\ PendingDollars[c] = act[c].cost.dollars /\ PendingDollars'[c] = 0
      BY <3>1 DEF PendingTokens, PendingDollars
    <3>3. /\ ledger'.tokens = ledger.tokens + act[c].cost.tokens
          /\ ledger'.dollars = ledger.dollars + act[c].cost.dollars
      BY <3>1 DEF Add
    <3>4. /\ ledger.tokens \in Nat /\ ledger.dollars \in Nat
          /\ act[c].cost.tokens \in Nat /\ act[c].cost.dollars \in Nat
      BY <1>2 DEF TypeInv, TypeOK, Actors, Charges
    <3>5. /\ SumFunction(PendingTokens)' = SumFunction(PendingTokens) - act[c].cost.tokens
          /\ SumFunction(PendingDollars)' = SumFunction(PendingDollars) - act[c].cost.dollars
          /\ SumFunction(PendingTokens) \in Nat /\ SumFunction(PendingDollars) \in Nat
      <4>1. /\ SumFunction(PendingTokens)' = SumFunction(PendingTokens) - act[c].cost.tokens + 0
            /\ SumFunction(PendingDollars)' = SumFunction(PendingDollars) - act[c].cost.dollars + 0
            /\ SumFunction(PendingTokens) \in Nat /\ SumFunction(PendingDollars) \in Nat
        BY <1>2, <2>2, <3>1, <3>2, PendingChanges
      <4>2. QED
        BY <3>4, <4>1
    <3>6. QED
      BY <2>1, <3>1, <3>3, <3>4, <3>5
  <2>7. CASE \E c \in Clients : HandlerStep(c) \/ ProviderStep(c)
    <3>1. PICK c \in Clients : HandlerStep(c) \/ ProviderStep(c)
      BY <2>7
    <3>2. /\ Others(c)
          /\ act'[c].pc \in ReferringPCs => act[c].pc \in ReferringPCs \/ row' # Nil
          /\ \/ act[c].pc # "ledger" /\ act'[c].pc # "ledger" /\ UNCHANGED <<metered, ledger>>
             \/ RecordCall(c) \/ AppendLedger(c)
      BY <1>2, <2>0, <3>1, LedgerMoves
    <3>3. \A d \in Clients : act'[d].pc \in ReferringPCs => row' # Nil
      BY <2>3, <3>2
    <3>4. /\ metered'.tokens = ledger'.tokens + SumFunction(PendingTokens)'
          /\ metered'.dollars = ledger'.dollars + SumFunction(PendingDollars)'
      BY <2>4, <2>5, <2>6, <3>2
    <3>5. QED
      BY <3>3, <3>4 DEF LedgerInv
  <2>8. CASE Create \/ Tick \/ DeadlineFires \/ Restart
    <3>1. act' = act /\ UNCHANGED <<metered, ledger>>
      BY <1>2, <2>8, ProcessEffects
    <3>2. \A d \in Clients : act'[d].pc \in ReferringPCs => row' # Nil
      BY <1>2, <2>1, <3>1, RowStays
    <3>3. /\ metered'.tokens = ledger'.tokens + SumFunction(PendingTokens)'
          /\ metered'.dollars = ledger'.dollars + SumFunction(PendingDollars)'
      BY <2>4, <3>1
    <3>4. QED
      BY <3>2, <3>3 DEF LedgerInv
  <2>9. CASE \E c \in Clients, op \in Operations : Request(c, op)
    <3>1. PICK c \in Clients, op \in Operations : Request(c, op)
      BY <2>9
    <3>2. /\ act[c].pc = "idle" /\ act'[c].pc = "resolve" /\ Others(c) /\ UNCHANGED <<metered, ledger>>
      BY <1>2, <3>1, ProcessEffects
    <3>3. \A d \in Clients : act'[d].pc \in ReferringPCs => row' # Nil
      BY <2>3, <3>2 DEF ReferringPCs
    <3>4. /\ metered'.tokens = ledger'.tokens + SumFunction(PendingTokens)'
          /\ metered'.dollars = ledger'.dollars + SumFunction(PendingDollars)'
      BY <2>4, <3>2
    <3>5. QED
      BY <3>3, <3>4 DEF LedgerInv
  <2>10. QED
    BY <1>2, <2>0, <2>7, <2>8, <2>9 DEF Next
<1>3. ASSUME LedgerInv, UNCHANGED vars PROVE LedgerInv'
  <2>1. PendingTokens' = PendingTokens /\ PendingDollars' = PendingDollars
    BY <1>3 DEF PendingTokens, PendingDollars, vars
  <2>2. QED
    BY <1>3, <2>1 DEF LedgerInv, NoLoss, vars
<1>4. QED
  BY <1>1, <1>2, <1>3 DEF LedgerInv

\* Without a crash, a failing statement or a span from the ingress, and with any
\* number of requests interleaving, the ledger's sum is the usage the governor
\* enforces and what was metered, once every handler returned (persistCall).
THEOREM LedgerExactHolds == Spec => []LedgerExact
<1>1. ASSUME TypeInv, MeterInv, LedgerInv PROVE LedgerExact
  <2>1. ASSUME Quiet, run # Nil, NoLoss
        PROVE  /\ ledger = [tokens |-> run.tokens, dollars |-> run.dollars]
               /\ ledger = metered
    <3>1. \A c \in Clients : PendingTokens[c] = 0 /\ PendingDollars[c] = 0
      BY <2>1 DEF Quiet, PendingTokens, PendingDollars
    <3>2. SumFunction(PendingTokens) = 0 /\ SumFunction(PendingDollars) = 0
      BY <1>1, <3>1, PendingTypes, SumOfZeros
    <3>3. ledger \in Charges /\ metered \in Charges
      BY <1>1 DEF TypeInv, TypeOK
    <3>4. metered.tokens = ledger.tokens /\ metered.dollars = ledger.dollars
      BY <1>1, <2>1, <3>2, <3>3 DEF LedgerInv, Charges
    <3>5. run.tokens = metered.tokens /\ run.dollars = metered.dollars
      BY <1>1, <2>1 DEF MeterInv, NoLoss
    <3>6. QED
      BY <3>3, <3>4, <3>5 DEF Charges
  <2>2. QED
    BY <2>1 DEF LedgerExact, NoLoss
<1>2. QED
  BY <1>1, TypeInvInductive, MeterInductive, LedgerInductive, PTL DEF Spec

----------------------------------------------------------------------------
(* The hard ceiling over all process lifetimes.                            *)

Within(x, n, l, y) == x <= n * l + y

\* The same under more slack, after a charge, and after a lifetime ended.
LEMMA WithinStep ==
    ASSUME NEW x \in Nat, NEW n \in Nat, NEW l \in Nat, NEW y \in Nat, Within(x, n, l, y)
    PROVE  /\ \A z \in Nat : y <= z => Within(x, n, l, z)
           /\ \A k \in Nat : Within(x + k, n, l, y + k)
           /\ y <= l => Within(x, n + 1, l, 0)
<1>1. PICK p \in Nat : p = n * l
  OBVIOUS
<1>2. (n + 1) * l = p + l
  BY <1>1
<1>3. x <= p + y
  BY <1>1 DEF Within
<1>4. /\ \A z \in Nat : y <= z => x <= p + z
      /\ \A k \in Nat : x + k <= p + (y + k)
      /\ y <= l => x <= (p + l) + 0
  BY <1>1, <1>3
<1>5. QED
  BY <1>1, <1>2, <1>4 DEF Within

Spendings == {"tokens", "dollars"}

\* What this lifetime accounts for: the live run's usage, restored or spent.
Accounted(dim) == IF run = Nil THEN 0 ELSE run[dim]

\* Earlier lifetimes spent at most one ceiling each.
Life(dim) == Within(metered[dim], crashes, LifeCeiling(Budget[dim], MaxCost[dim]), Accounted(dim))

LifeInv == \A dim \in Spendings : Budget[dim] > 0 => Life(dim)

\* The quantities of one dimension, and the ceiling of the lifetime under way.
LEMMA LifeTypes ==
    ASSUME TypeInv, OvershootInv, NEW dim \in Spendings, Budget[dim] > 0
    PROVE  /\ metered[dim] \in Nat /\ crashes \in Nat /\ Accounted(dim) \in Nat
           /\ Budget[dim] \in Nat /\ MaxCost[dim] \in Nat /\ Cardinality(Clients) \in Nat
           /\ MaxCost[dim] * Cardinality(Unsettled) \in Nat
           /\ LifeCeiling(Budget[dim], MaxCost[dim]) \in Nat
           /\ Accounted(dim) <= LifeCeiling(Budget[dim], MaxCost[dim])
           /\ run # Nil => Accounted(dim) + MaxCost[dim] * Cardinality(Unsettled)
                               <= LifeCeiling(Budget[dim], MaxCost[dim])
           /\ run = Nil => Unsettled = {}
<1>1. /\ metered[dim] \in Nat /\ crashes \in Nat /\ Accounted(dim) \in Nat
      /\ Budget[dim] \in Nat /\ MaxCost[dim] \in Nat
  BY BudgetAssumption, ConstantsAssumption
     DEF TypeInv, TypeOK, Charges, LiveRuns, Accounted, Spendings
<1>2. IsFiniteSet(Unsettled) /\ Cardinality(Unsettled) \in Nat /\ Cardinality(Clients) \in Nat
  BY ConstantsAssumption, FS_Subset, FS_CardinalityType DEF Unsettled
<1>3. PICK u, v \in Nat : u = MaxCost[dim] * Cardinality(Unsettled) /\ v = MaxCost[dim] * Cardinality(Clients)
  BY <1>1, <1>2
<1>4. LifeCeiling(Budget[dim], MaxCost[dim]) = Budget[dim] - 1 + v
  BY <1>3 DEF LifeCeiling
<1>5. Budget[dim] - 1 + v \in Nat
  BY <1>1, <1>3
<1>6. run # Nil => Accounted(dim) + u <= Budget[dim] - 1 + v
  BY <1>3 DEF OvershootInv, Room, Accounted, Spendings
<1>7. run = Nil => Accounted(dim) = 0
  BY DEF Accounted
<1>8. run = Nil => Unsettled = {}
  BY DEF TypeInv, ControlOK, GoroutineOK, Unsettled, AdmittedPCs, ResolvePCs
<1>9. Accounted(dim) <= Budget[dim] - 1 + v
  BY <1>1, <1>3, <1>5, <1>6, <1>7
<1>10. QED
  BY <1>1, <1>2, <1>3, <1>4, <1>5, <1>6, <1>8, <1>9

\* Nothing is metered while there is no run.
LEMMA NoneUnmetered ==
    ASSUME TypeInv, Next, run = Nil
    PROVE  metered' = metered
<1>1. ASSUME NEW c \in Clients, HandlerStep(c) \/ ProviderStep(c)
      PROVE  metered' = metered
  <2>1. CASE \/ Resolve(c) \/ RestoreFromStore(c) \/ ReloadRun(c) \/ UpsertRollback(c) \/ Register(c)
             \/ RunRecord(c) \/ UpsertRun(c)
    BY <2>1, LookupEffects, PersistEffects
  <2>2. CASE \/ StepIndex(c) \/ PersistStepStart(c) \/ Dispatch(c) \/ Refuse(c) \/ ReportFailure(c)
             \/ ProviderStep(c) \/ BeginStep(c) \/ Ceiling(c)
    BY <2>2, CallEffects DEF ProviderStep
  <2>3. CASE \/ AppendLedger(c) \/ PersistStepEnd(c) \/ ReadCheckpoint(c) \/ SaveCheckpoint(c)
             \/ RecordCall(c) \/ Kill(c)
    BY <2>3, AccountEffects
  <2>4. QED
    BY <1>1, <2>1, <2>2, <2>3 DEF HandlerStep
<1>2. CASE Create \/ Tick \/ DeadlineFires \/ Crash \/ Restart
  BY <1>2, ProcessEffects
<1>3. CASE \E c \in Clients, op \in Operations : Request(c, op)
  BY <1>3, ProcessEffects
<1>4. QED
  BY <1>1, <1>2, <1>3 DEF Next

\* How the meter and the live run move together in one dimension.
LEMMA MeterInDimension ==
    ASSUME TypeInv, Next, NEW dim \in Spendings, ~Crash
    PROVE  \/ metered'[dim] = metered[dim] /\ (run = Nil \/ Accounted(dim)' = Accounted(dim))
           \/ \E k \in Nat : /\ metered'[dim] = metered[dim] + k
                             /\ Accounted(dim)' = Accounted(dim) + k
<1>1. CASE run = Nil
  BY <1>1, NoneUnmetered
<1>2. CASE run # Nil
  <2>1. run' # Nil /\ run \in LiveRuns
    BY <1>2, RunStays DEF TypeInv, TypeOK
  <2>2. Accounted(dim) = run[dim] /\ Accounted(dim)' = run'[dim]
    BY <1>2, <2>1 DEF Accounted
  <2>3. CASE /\ metered' = metered
             /\ \/ run' = run \/ SameUsage(run', run)
                \/ run' \in {PreStep(run), CanProceed(run), Cancel(run)}
    <3>1. CASE run' = run \/ SameUsage(run', run)
      BY <3>1, <2>2, <2>3 DEF SameUsage, Spendings
    <3>2. CASE run' = PreStep(run)
      <4>1. NoCharge \in Charges
        BY DEF NoCharge, Charges
      <4>2. run'.tokens = run.tokens /\ run'.dollars = run.dollars
        BY <2>1, <3>2, <4>1, UsageChanges
      <4>3. QED
        BY <2>2, <2>3, <4>2 DEF Spendings
    <3>3. CASE run' \in {CanProceed(run), Cancel(run)}
      <4>1. run'.tokens = run.tokens /\ run'.dollars = run.dollars
        BY <2>1, <3>3, UsageKept DEF SameUsage
      <4>2. QED
        BY <2>2, <2>3, <4>1 DEF Spendings
    <3>4. QED
      BY <2>3, <3>1, <3>2, <3>3
  <2>4. CASE \E k \in Charges : run' = RecordUsage(run, k) /\ metered' = Add(metered, k)
    <3>1. PICK k \in Charges : run' = RecordUsage(run, k) /\ metered' = Add(metered, k)
      BY <2>4
    <3>2. /\ run'.tokens = run.tokens + k.tokens /\ run'.dollars = run.dollars + k.dollars
          /\ metered'.tokens = metered.tokens + k.tokens
          /\ metered'.dollars = metered.dollars + k.dollars
      BY <2>1, <3>1, UsageChanges DEF Add
    <3>3. k[dim] \in Nat /\ metered'[dim] = metered[dim] + k[dim] /\ run'[dim] = run[dim] + k[dim]
      BY <3>1, <3>2 DEF Spendings, Charges
    <3>4. QED
      BY <2>2, <3>3
  <2>5. QED
    BY <1>2, <2>3, <2>4, MeterOfStep
<1>3. QED
  BY <1>1, <1>2

\* The invariant over lifetimes is inductive.
LEMMA LifeInductive ==
    /\ Init => LifeInv
    /\ TypeInv /\ TypeInv' /\ OvershootInv /\ OvershootInv' /\ LifeInv /\ [Next]_vars => LifeInv'
<1>1. ASSUME Init, NEW dim \in Spendings, Budget[dim] > 0 PROVE Life(dim)
  <2>1. metered[dim] = 0 /\ crashes = 0 /\ Accounted(dim) = 0
    BY <1>1 DEF Init, NoCharge, Accounted, Spendings
  <2>2. Budget[dim] \in Nat /\ MaxCost[dim] \in Nat /\ Cardinality(Clients) \in Nat
    BY BudgetAssumption, ConstantsAssumption, FS_CardinalityType DEF Charges, Spendings
  <2>3. LifeCeiling(Budget[dim], MaxCost[dim]) \in Int
    <3>1. MaxCost[dim] * Cardinality(Clients) \in Int
      BY <2>2
    <3>2. QED
      BY <2>2, <3>1 DEF LifeCeiling
  <2>4. QED
    BY <2>1, <2>3 DEF Life, Within
<1>2. ASSUME TypeInv, TypeInv', OvershootInv, OvershootInv', LifeInv, Next,
             NEW dim \in Spendings, Budget[dim] > 0
      PROVE  Life(dim)'
  <2> DEFINE l == LifeCeiling(Budget[dim], MaxCost[dim])
  <2>1. /\ metered[dim] \in Nat /\ crashes \in Nat /\ Accounted(dim) \in Nat
        /\ l \in Nat /\ Accounted(dim) <= l
    BY <1>2, LifeTypes
  <2>2. Accounted(dim)' \in Nat
    BY <1>2 DEF TypeInv, TypeOK, LiveRuns, Accounted, Spendings
  <2>3. Within(metered[dim], crashes, l, Accounted(dim))
    BY <1>2 DEF LifeInv, Life
  <2>4. /\ \A z \in Nat : Accounted(dim) <= z => Within(metered[dim], crashes, l, z)
        /\ \A k \in Nat : Within(metered[dim] + k, crashes, l, Accounted(dim) + k)
        /\ Within(metered[dim], crashes + 1, l, 0)
    <3> HIDE DEF l
    <3>1. QED
      BY <2>1, <2>3, WithinStep
  <2>5. Life(dim)' = Within(metered'[dim], crashes', l, Accounted(dim)')
    BY DEF Life, LifeCeiling
  <2>6. CASE Crash
    <3>1. crashes' = crashes + 1 /\ metered' = metered /\ Accounted(dim)' = 0
      BY <1>2, <2>6, ProcessEffects DEF Accounted
    <3>2. QED
      BY <2>4, <2>5, <3>1
  <2>7. CASE ~Crash
    <3>1. crashes' = crashes
      BY <1>2, <2>7, CrashesCounted
    <3>2. run = Nil => Accounted(dim) = 0
      BY DEF Accounted
    <3>3. CASE metered'[dim] = metered[dim] /\ (run = Nil \/ Accounted(dim)' = Accounted(dim))
      <4>1. Accounted(dim) <= Accounted(dim)'
        BY <2>1, <2>2, <3>2, <3>3
      <4>2. Within(metered[dim], crashes, l, Accounted(dim)')
        BY <2>2, <2>4, <4>1
      <4>3. QED
        BY <2>5, <3>1, <3>3, <4>2
    <3>4. CASE \E k \in Nat : /\ metered'[dim] = metered[dim] + k
                              /\ Accounted(dim)' = Accounted(dim) + k
      BY <2>4, <2>5, <3>1, <3>4
    <3>5. QED
      BY <1>2, <2>7, <3>3, <3>4, MeterInDimension
  <2>8. QED
    BY <2>6, <2>7
<1>3. ASSUME LifeInv, UNCHANGED vars PROVE LifeInv'
  BY <1>3 DEF LifeInv, Life, Accounted, vars
<1>4. QED
  BY <1>1, <1>2, <1>3 DEF LifeInv

\* A single client without faults: some copy of the usage is within the ceiling and
\* behind the meter by at most one call for each crash, or nothing was metered.
LEMMA SpentBySingle ==
    ASSUME TypeInv, OvershootInv, Sequential, Losses, OneClient, faults = 0,
           NEW dim \in Spendings, Budget[dim] > 0
    PROVE  metered[dim] + MaxCost[dim] * Cardinality(Unsettled)
               < Budget[dim] + (crashes + 1) * MaxCost[dim]
<1>1. PICK c \in Clients : Clients = {c}
  BY DEF OneClient
<1>2. SequentialInv(c) /\ LossInv(c)
  BY <1>1 DEF Sequential, Losses, Alone
<1>3. /\ metered[dim] \in Nat /\ crashes \in Nat /\ Budget[dim] \in Nat /\ MaxCost[dim] \in Nat
      /\ MaxCost[dim] * Cardinality(Unsettled) \in Nat
      /\ LifeCeiling(Budget[dim], MaxCost[dim]) \in Nat
      /\ run = Nil => Unsettled = {}
      /\ run # Nil => run[dim] + MaxCost[dim] * Cardinality(Unsettled)
                          <= LifeCeiling(Budget[dim], MaxCost[dim])
  BY LifeTypes DEF Accounted
<1>4. LifeCeiling(Budget[dim], MaxCost[dim]) = Budget[dim] - 1 + MaxCost[dim]
  <2>1. Cardinality(Clients) = 1
    BY <1>1, FS_Singleton
  <2>2. MaxCost[dim] * 1 = MaxCost[dim]
    BY <1>3
  <2>3. QED
    BY <2>1, <2>2 DEF LifeCeiling
<1>5. PICK p \in Nat : p = crashes * MaxCost[dim]
  BY <1>3
<1>6. (crashes + 1) * MaxCost[dim] = p + MaxCost[dim]
  <2>1. \A n, b \in Nat : (n + 1) * b = n * b + b
    OBVIOUS
  <2>2. (crashes + 1) * MaxCost[dim] = crashes * MaxCost[dim] + MaxCost[dim]
    BY <1>3, <2>1
  <2>3. QED
    BY <1>5, <2>2
<1>7. PICK u \in Nat : u = MaxCost[dim] * Cardinality(Unsettled)
  BY <1>3
<1>8. CASE run # Nil
  <2>1. metered[dim] <= run[dim] + p
    BY <1>2, <1>5, <1>8 DEF LossInv, Lag, Spendings
  <2>2. run[dim] \in Nat
    BY <1>8 DEF TypeInv, TypeOK, LiveRuns, Spendings
  <2>3. run[dim] + u <= Budget[dim] - 1 + MaxCost[dim]
    BY <1>3, <1>4, <1>7, <1>8
  <2>4. metered[dim] + u < Budget[dim] + (p + MaxCost[dim])
    BY <1>3, <1>5, <1>7, <2>1, <2>2, <2>3
  <2>5. QED
    BY <1>6, <1>7, <2>4
<1>9. CASE run = Nil
  <2>1. u = 0
    <3>1. Cardinality(Unsettled) = 0
      BY <1>3, <1>9, FS_EmptySet
    <3>2. MaxCost[dim] * 0 = 0
      BY <1>3
    <3>3. QED
      BY <1>7, <3>1, <3>2
  <2>2. CASE row = Nil
    <3>1. metered[dim] = 0
      BY <1>2, <2>2 DEF SequentialInv, RowMade, NoCharge, Spendings
    <3>2. metered[dim] + u < Budget[dim] + (p + MaxCost[dim])
      BY <1>3, <1>5, <2>1, <3>1
    <3>3. QED
      BY <1>6, <1>7, <3>2
  <2>3. CASE row # Nil
    <3>1. act[c].pc \notin UnwrittenPCs
      BY <1>1, <1>9 DEF TypeInv, ControlOK, GoroutineOK, UnwrittenPCs, ResolvePCs
    <3>2. Behind(act[c].pc, UnwrittenPCs) = 0
      BY <3>1 DEF Behind
    <3>3. Lag(row, crashes)
      <4>1. crashes + 0 = crashes
        BY <1>3
      <4>2. QED
        BY <1>2, <2>3, <3>2, <4>1 DEF LossInv
    <3>4. metered[dim] <= row[dim] + p
      BY <1>5, <3>3 DEF Lag, Spendings
    <3>5. row[dim] \in Nat /\ row \in Copies
      BY <2>3 DEF TypeInv, TypeOK, Rows, Copies, Spendings
    <3>6. Room(row[dim], MaxCost[dim], Budget[dim], {})
      BY <3>5 DEF OvershootInv, Spendings
    <3>7. row[dim] <= Budget[dim] - 1 + MaxCost[dim]
      <4>1. MaxCost[dim] * Cardinality({}) = 0
        BY <1>3, FS_EmptySet
      <4>2. Budget[dim] - 1 + MaxCost[dim] * Cardinality(Clients) = Budget[dim] - 1 + MaxCost[dim]
        BY <1>4 DEF LifeCeiling
      <4>3. QED
        BY <1>3, <3>5, <3>6, <4>1, <4>2 DEF Room
    <3>8. metered[dim] + u < Budget[dim] + (p + MaxCost[dim])
      BY <1>3, <1>5, <2>1, <3>4, <3>5, <3>7
    <3>9. QED
      BY <1>6, <1>7, <3>8
  <2>4. QED
    BY <2>2, <2>3
<1>10. QED
  BY <1>8, <1>9

\* Everything ever spent, and the worst that is still under way, stays below one
\* ceiling (the budget and one maximal call per client) for each process lifetime,
\* whatever the store loses, rolls back or fails to read; a single client without
\* store faults is held to one budget, its last call and one call for each crash
\* (CanProceed, RecordUsage, restoreFromStore, reloadRun).
THEOREM OvershootBoundedHolds == Spec => []OvershootBounded
<1>1. CASE "otlp" \in Operations
  <2>1. OvershootBounded
    BY <1>1 DEF OvershootBounded
  <2>2. QED
    BY <2>1, PTL
<1>2. CASE "otlp" \notin Operations
  <2>1. ASSUME TypeInv, OvershootInv, LifeInv, Sequential, Losses,
               NEW dim \in Spendings, Budget[dim] > 0
        PROVE  /\ metered[dim] + MaxCost[dim] * Cardinality(Unsettled)
                     <= (crashes + 1) * LifeCeiling(Budget[dim], MaxCost[dim])
               /\ (Cardinality(Clients) = 1 /\ faults = 0) =>
                     metered[dim] + MaxCost[dim] * Cardinality(Unsettled)
                         < Budget[dim] + (crashes + 1) * MaxCost[dim]
    <3> DEFINE l == LifeCeiling(Budget[dim], MaxCost[dim])
    <3>1. /\ metered[dim] \in Nat /\ crashes \in Nat /\ Accounted(dim) \in Nat
          /\ MaxCost[dim] * Cardinality(Unsettled) \in Nat /\ l \in Nat
      BY <2>1, LifeTypes
    <3>2. PICK u, p \in Nat : u = MaxCost[dim] * Cardinality(Unsettled) /\ p = crashes * l
      BY <3>1
    <3>3. Accounted(dim) + u <= l
      <4>1. run # Nil => Accounted(dim) + u <= l
        BY <2>1, <3>2, LifeTypes
      <4>2. run = Nil => Accounted(dim) = 0 /\ Unsettled = {}
        BY <2>1, LifeTypes DEF Accounted
      <4>3. run = Nil => u = 0
        <5>1. MaxCost[dim] \in Nat
          BY <2>1, LifeTypes
        <5>2. QED
          BY <3>2, <4>2, <5>1, FS_EmptySet
      <4>4. QED
        BY <3>1, <3>2, <4>1, <4>2, <4>3
    <3>4. metered[dim] <= p + Accounted(dim)
      BY <2>1, <3>2 DEF LifeInv, Life, Within
    <3>5. (crashes + 1) * l = p + l
      <4> HIDE DEF l
      <4>1. QED
        BY <3>1, <3>2
    <3>6. metered[dim] + u <= p + l
      <4> HIDE DEF l
      <4>1. QED
        BY <3>1, <3>2, <3>3, <3>4
    <3>7. Cardinality(Clients) = 1 => OneClient
      <4>1. Cardinality(Clients) = 1 => \E c : Clients = {c}
        BY ConstantsAssumption, FS_Singleton
      <4>2. QED
        BY <4>1 DEF OneClient
    <3>8. QED
      BY <2>1, <3>2, <3>5, <3>6, <3>7, SpentBySingle
  <2>2. TypeInv /\ OvershootInv /\ LifeInv /\ Sequential /\ Losses => OvershootBounded
    BY <2>1 DEF OvershootBounded, Spendings
  <2>3. QED
    BY <1>2, <2>2, TypeInvInductive, CeilingInductive, LifeInductive, CostsInductive,
       SequentialInductive, LossesInductive, PTL DEF Spec
<1>3. QED
  BY <1>1, <1>2
=============================================================================

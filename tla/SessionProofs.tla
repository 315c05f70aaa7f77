---------------------------- MODULE SessionProofs ----------------------------
(***************************************************************************)
(* What is proved of Session for every value of its constants.             *)
(*                                                                         *)
(*   TypeCorrect           every variable keeps its type                   *)
(*   FaultedIsSilent       a faulted handle appends nothing                *)
(*   RunsSettle            every run settles once, in the order of opening *)
(*   InterruptWins         a run with an accepted durable interrupt        *)
(*                         settles as interrupted                          *)
(*   HandleMatches         a live handle mirrors what its journal folds to *)
(*   Conserved             an accepted input is in one place, once         *)
(*   ImplementsTheLedger   every batch is a step of RunLedger              *)
(*                                                                         *)
(* TypeOK is not inductive: usage is updated by a difference of counters.  *)
(* TypeInv adds that what a run has recorded is part of what the session   *)
(* has, in memory and in the journal.                                      *)
(***************************************************************************)
EXTENDS Session, FiniteSetTheorems, TLAPS

-----------------------------------------------------------------------------
(***************************************************************************)
(* The fold keeps the type of the journal: one lemma per entry kind, cited *)
(* by the proofs about the session that appends the entries.               *)
(***************************************************************************)
\* The fold starts from a well-formed state (recovery.go: foldedState).
LEMMA EmptyJournalType == EmptyJournal \in JournalType
BY DEF EmptyJournal, JournalType, Suspension, NoSuspension, NoRun, Roles

\* run.opened and run.recovered keep the folded state well formed.
LEMMA RunOpenedType ==
  ASSUME NEW j \in JournalType, NEW run \in Nat, NEW limit \in Nat
  PROVE  RunOpened(j, run, limit) \in JournalType
BY ZenonT(30) DEF RunOpened, JournalType, Suspension, NoSuspension

\* run.closed keeps it, and records the status it closes with.
LEMMA RunClosedType ==
  ASSUME NEW j \in JournalType, NEW status \in {"Completed", "Failed", "Interrupted"}
  PROVE  RunClosed(j, status) \in JournalType
<1>1. (IF j.run # NoRun /\ j.interruptRun = j.run THEN NoRun ELSE j.interruptRun) \in Nat
  BY DEF JournalType, NoRun
<1>2. Append(j.closed, [run |-> j.run, status |-> status])
        \in Seq([run : Nat, status : {"Completed", "Failed", "Interrupted"}])
  BY DEF JournalType
<1>3. ASSUME NEW pending \in Nat,
             NEW closed \in Seq([run : Nat, status : {"Completed", "Failed", "Interrupted"}])
      PROVE  [j EXCEPT !.interruptRun = pending, !.run = NoRun, !.limit = 0, !.last = 0,
                       !.started = {}, !.state = "Idle", !.susp = NoSuspension,
                       !.closed = closed] \in JournalType
  BY DEF JournalType, Suspension, NoSuspension, NoRun
<1>4. QED BY <1>1, <1>2, <1>3 DEF RunClosed

\* queue.accepted keeps it for an entry of the queue's kinds.
LEMMA QueueAcceptedType ==
  ASSUME NEW j \in JournalType, NEW entry \in QueueEntry, NEW target \in Nat
  PROVE  QueueAccepted(j, entry, target) \in JournalType
<1> DEFINE Acceptance == [id : Inputs, kind : QueueKinds, run : Nat, target : Nat]
           acceptance == [id |-> entry.id, kind |-> entry.kind, run |-> j.run,
                          target |-> target]
<1>1. acceptance \in Acceptance /\ j.accepted \in Seq(Acceptance)
  BY DEF JournalType, QueueEntry
<1>2. Append(j.accepted, acceptance) \in Seq(Acceptance) BY <1>1
<1>3. ASSUME NEW queue \in SUBSET QueueEntry, NEW accepted \in Seq(Acceptance)
      PROVE  [j EXCEPT !.queue = queue, !.accepted = accepted] \in JournalType
  BY DEF JournalType
<1>4. j.queue \cup {entry} \in SUBSET QueueEntry BY DEF JournalType
<1>5. QueueAccepted(j, entry, target)
        = [j EXCEPT !.queue = j.queue \cup {entry},
                    !.accepted = Append(j.accepted, acceptance)]
  BY DEF QueueAccepted, JournalType
<1>6. QED BY <1>2, <1>3, <1>4, <1>5

\* queue.drained moves entries of the queue and keeps both sides well formed.
LEMMA QueueDrainedType ==
  ASSUME NEW j \in JournalType, NEW ids
  PROVE  QueueDrained(j, ids) \in JournalType
BY DEF QueueDrained, Only, Without, JournalType

\* queue.cancelled keeps it for identities of inputs.
LEMMA QueueCancelledType ==
  ASSUME NEW j \in JournalType, NEW ids \in SUBSET Inputs
  PROVE  QueueCancelled(j, ids) \in JournalType
BY DEF QueueCancelled, Without, JournalType

\* Inputs written into a run's transcript keep the record of where they went.
LEMMA IntoType ==
  ASSUME NEW applied \in [Inputs -> Seq(Nat)], NEW ids, NEW run \in Nat
  PROVE  Into(applied, ids, run) \in [Inputs -> Seq(Nat)]
BY DEF Into

\* A message with a queue ID, and messages_injected, keep the type.
LEMMA InputsAppliedType ==
  ASSUME NEW j \in JournalType, NEW entries
  PROVE  InputsApplied(j, entries) \in JournalType
<1>1. Into(j.applied, Ids(entries), j.run) \in [Inputs -> Seq(Nat)]
  BY IntoType DEF JournalType
<1>2. Without(j.drained, Ids(entries)) \in SUBSET QueueEntry BY DEF Without, JournalType
<1>3. ASSUME NEW applied \in [Inputs -> Seq(Nat)], NEW drained \in SUBSET QueueEntry
      PROVE  [j EXCEPT !.applied = applied, !.tail = "user", !.drained = drained]
               \in JournalType
  BY DEF JournalType, Roles
<1>4. QED BY <1>1, <1>2, <1>3 DEF InputsApplied

\* The identities of queued entries are identities of inputs.
LEMMA IdsAreInputs ==
  ASSUME NEW entries \in SUBSET QueueEntry
  PROVE  Ids(entries) \in SUBSET Inputs
BY DEF Ids, QueueEntry

\* A prompt or validation feedback keeps the type.
LEMMA UserMessageType ==
  ASSUME NEW j \in JournalType
  PROVE  UserMessage(j) \in JournalType
BY DEF UserMessage, JournalType, Roles

\* assistant_committed keeps it for a finite set of calls.
LEMMA AssistantCommittedType ==
  ASSUME NEW j \in JournalType, NEW calls \in SUBSET Calls, Cardinality(calls) \in Nat
  PROVE  AssistantCommitted(j, calls) \in JournalType
<1>1. j.calls \in Nat BY DEF JournalType
<1>2. j.calls + Cardinality(calls) \in Nat BY <1>1
<1>3. ASSUME NEW count \in Nat
      PROVE  [j EXCEPT !.open = calls, !.tail = "assistant", !.calls = count]
               \in JournalType
  BY DEF JournalType, Roles
<1>4. QED BY <1>2, <1>3 DEF AssistantCommitted

\* tool_started keeps it, and counts the start.
LEMMA ToolStartedType ==
  ASSUME NEW j \in JournalType, NEW call \in Calls
  PROVE  ToolStarted(j, call) \in JournalType
<1>1. (IF j.run = NoRun THEN j.started ELSE j.started \cup {call}) \in SUBSET Calls
  BY DEF JournalType
<1>2. [j.starts EXCEPT ![call] = @ + 1] \in [Calls -> Nat] BY DEF JournalType
<1>3. ASSUME NEW started \in SUBSET Calls, NEW starts \in [Calls -> Nat]
      PROVE  [j EXCEPT !.started = started, !.starts = starts] \in JournalType
  BY DEF JournalType
<1> DEFINE started == IF j.run = NoRun THEN j.started ELSE j.started \cup {call}
           starts  == [j.starts EXCEPT ![call] = @ + 1]
<1>4. ToolStarted(j, call) = [j EXCEPT !.started = started, !.starts = starts]
  BY DEF ToolStarted, JournalType
<1>5. started \in SUBSET Calls /\ starts \in [Calls -> Nat] BY <1>1, <1>2
<1> HIDE DEF started, starts
<1>6. QED BY <1>3, <1>4, <1>5

\* tool_result_committed keeps it.
LEMMA ToolResultType ==
  ASSUME NEW j \in JournalType, NEW call
  PROVE  ToolResult(j, call) \in JournalType
BY DEF ToolResult, JournalType, Roles

\* A repaired frontier keeps it.
LEMMA FrontierClosedType ==
  ASSUME NEW j \in JournalType
  PROVE  FrontierClosed(j) \in JournalType
BY ZenonT(30) DEF FrontierClosed, JournalType, Roles

\* So does the repair that recovery writes.
LEMMA FrontierAbandonedType ==
  ASSUME NEW j \in JournalType
  PROVE  FrontierAbandoned(j) \in JournalType
<1>1. FrontierClosed(j) \in JournalType BY FrontierClosedType
<1>2. QED BY <1>1 DEF FrontierAbandoned, JournalType

\* usage.committed and turn_ended keep it for natural counters.
LEMMA UsageRecordedType ==
  ASSUME NEW j \in JournalType, NEW run \in Nat, NEW session \in Nat
  PROVE  UsageRecorded(j, run, session) \in JournalType
BY DEF UsageRecorded, JournalType

\* run_started keeps it.
LEMMA RunStartedType ==
  ASSUME NEW j \in JournalType
  PROVE  RunStarted(j) \in JournalType
BY ZenonT(30) DEF RunStarted, JournalType

\* run_completed keeps it.
LEMMA RunCompletedType ==
  ASSUME NEW j \in JournalType
  PROVE  RunCompleted(j) \in JournalType
BY DEF RunCompleted, JournalType

\* run_suspended and recovery.suspension keep it.
LEMMA RunSuspendedType ==
  ASSUME NEW j \in JournalType, NEW suspension \in Suspension
  PROVE  RunSuspended(j, suspension) \in JournalType
<1>1. j.susps + 1 \in Nat BY DEF JournalType
<1>2. ASSUME NEW count \in Nat
      PROVE  [j EXCEPT !.susp = suspension, !.state = "Suspended", !.susps = count]
               \in JournalType
  BY DEF JournalType
<1>3. QED BY <1>1, <1>2 DEF RunSuspended

\* command.accepted of an interrupt keeps it.
LEMMA InterruptAcceptedType ==
  ASSUME NEW j \in JournalType, NEW target \in Nat
  PROVE  InterruptAccepted(j, target) \in JournalType
<1>1. j.run \in Nat /\ j.interrupts \cup {[run |-> j.run, target |-> target]}
                         \in SUBSET [run : Nat, target : Nat]
  BY DEF JournalType
<1>2. ASSUME NEW run \in Nat, NEW interrupts \in SUBSET [run : Nat, target : Nat]
      PROVE  [j EXCEPT !.interruptRun = run, !.interrupts = interrupts] \in JournalType
  BY DEF JournalType
<1>3. QED BY <1>1, <1>2 DEF InterruptAccepted

\* session.fault keeps it.
LEMMA FaultRecordedType ==
  ASSUME NEW j \in JournalType
  PROVE  FaultRecorded(j) \in JournalType
BY DEF FaultRecorded, JournalType

-----------------------------------------------------------------------------
(***************************************************************************)
(* A handle that lost its journal.                                         *)
(***************************************************************************)
\* Session.Close releases the journal with the state, so that a goroutine of a
\* closed handle has nothing left to append to.
ClosedIsUnlocked == state = "Closed" => ~lock

\* Only Close enters Closed, and only Recover takes the journal again.
LEMMA ClosedStep ==
  ASSUME ClosedIsUnlocked, [Next]_vars
  PROVE  ClosedIsUnlocked'
<1> USE DEF ClosedIsUnlocked
<1>1. CASE Client
  BY <1>1 DEF Client, Start, Accept, Interrupt, Resume, ResumeIndeterminate, Unclient,
              Commit, AppendError
<1>2. CASE Driver
  BY <1>2 DEF Driver, Launch, ResumeFails, ResolveSuspended, StartRun, StartFails,
              BeginTurn, ModelAnswers, ModelFails, CandidateValid, CandidateInvalid,
              GateDefers, GateAdmits, GateFails, StartTool, ToolsReturn, HandlerDefers,
              CommitResult, EndTurn, HookRefuses, HookEnds, HookInjects, InjectMessages,
              CompleteRun, SuspendRun, Loop, Leave, Emit, Commit, AppendError, Undriven
<1>3. CASE Finish
  BY <1>3 DEF Finish, FinishFaulted, FinishInterrupted, FinishBounced, FinishUnusable,
              FinishSuspended, FinishClosed, SettleInterrupt, NothingToInterrupt,
              FinishInterrupt, PersistFault, Loop, Commit, AppendError, Undriven
<1>4. CASE SettleSuspended
  BY <1>4 DEF SettleSuspended, NothingToInterrupt, FinishInterrupt, Commit, AppendError
<1>5. CASE Owner BY <1>5 DEF Owner, Abandon, Close, Drop, Crash, NoHandle
<1>6. CASE Recover
  BY <1>6 DEF Recover, RecoverInterrupted, RecoverCompleted, RecoverIdle,
              RecoverSuspended, RecoverInject, RecoverIndeterminate, RecoverContinue,
              Reopen, Recovering, RecoverOpenRun
<1>7. CASE UNCHANGED vars BY <1>7 DEF vars
<1>8. QED BY <1>1, <1>2, <1>3, <1>4, <1>5, <1>6, <1>7 DEF Next

\* A step from Faulted leaves the journal alone.
LEMMA FaultedStep ==
  ASSUME [Next]_vars, state = "Faulted"
  PROVE  journal' = journal
<1>1. CASE Client
  BY <1>1 DEF Client, Start, Accept, Interrupt, Resume, ResumeIndeterminate, Resumable,
              Acceptable, Attached, Busy
<1>2. CASE Driver
  BY <1>2 DEF Driver, Launch, ResumeFails, ResolveSuspended, StartRun, StartFails,
              BeginTurn, ModelAnswers, ModelFails, CandidateValid, CandidateInvalid,
              GateDefers, GateAdmits, GateFails, StartTool, ToolsReturn, HandlerDefers,
              CommitResult, EndTurn, HookRefuses, HookEnds, HookInjects, InjectMessages,
              CompleteRun, SuspendRun, Loop, Leave, Emit, Commit, AppendError
<1>3. CASE Finish
  BY <1>3 DEF Finish, FinishFaulted, FinishInterrupted, FinishBounced, FinishUnusable,
              FinishSuspended, FinishClosed, SettleInterrupt, NothingToInterrupt,
              FinishInterrupt, PersistFault, Loop, Commit, AppendError, Settling
<1>4. CASE SettleSuspended
  BY <1>4 DEF SettleSuspended, NothingToInterrupt, FinishInterrupt, Commit, AppendError
<1>5. CASE Owner BY <1>5 DEF Owner, Abandon, Close, Drop, Crash, NoHandle
<1>6. CASE Recover
  BY <1>6 DEF Recover, RecoverInterrupted, RecoverCompleted, RecoverIdle,
              RecoverSuspended, RecoverInject, RecoverIndeterminate, RecoverContinue,
              Recovering, RecoverOpenRun
<1>7. CASE UNCHANGED vars BY <1>7 DEF vars
<1>8. QED BY <1>1, <1>2, <1>3, <1>4, <1>5, <1>6, <1>7 DEF Next

\* A handle that faulted appends nothing more, whatever its driver and its settling
\* goroutine still do (the fault checks of Emit, finishExecution and finishInterrupt).
THEOREM FaultedIsSilent == Spec => FaultedWritesNothing
<1>1. [Next]_vars => [state = "Faulted" => journal' = journal]_vars BY FaultedStep
<1>2. QED BY <1>1, PTL DEF Spec, FaultedWritesNothing

-----------------------------------------------------------------------------
(***************************************************************************)
(* Types.                                                                  *)
(***************************************************************************)
JournalOK(j) ==
  j \in JournalType /\ j.last <= j.usage /\ (j.run = NoRun => j.last = 0)

MemOK(m) == m \in MemType /\ m.last <= m.usage

TypeInv ==
  /\ state \in States
  /\ MemOK(mem)
  /\ drv \in DriverType
  /\ settler \in BOOLEAN
  /\ lock \in BOOLEAN
  /\ JournalOK(journal)
  /\ spent \in Nat /\ opens \in Nat

\* What a handle takes over from the journal is well formed (Recover).
LEMMA LoadedOK ==
  ASSUME NEW j, JournalOK(j)
  PROVE  MemOK(Loaded(j))
<1>1. Loaded(j).last = j.last /\ Loaded(j).usage = j.usage BY DEF Loaded
<1>2. Loaded(j) \in MemType BY DEF JournalOK, Loaded, JournalType, MemType
<1>3. QED BY <1>1, <1>2 DEF JournalOK, MemOK

\* The fold starts with no usage.
LEMMA EmptyJournalOK == JournalOK(EmptyJournal)
BY EmptyJournalType DEF JournalOK, EmptyJournal

\* A run opens with nothing recorded; its session keeps its usage.
LEMMA RunOpenedOK ==
  ASSUME NEW j \in JournalType, NEW run \in Nat \ {NoRun}, NEW limit \in Nat
  PROVE  JournalOK(RunOpened(j, run, limit))
<1>1. RunOpened(j, run, limit) \in JournalType BY RunOpenedType
<1>2. /\ RunOpened(j, run, limit).last = 0
      /\ RunOpened(j, run, limit).run = run
      /\ RunOpened(j, run, limit).usage = j.usage
  BY DEF RunOpened, JournalType
<1>3. j.usage \in Nat BY DEF JournalType
<1>4. QED BY <1>1, <1>2, <1>3 DEF JournalOK

\* A closed run leaves nothing recorded.
LEMMA RunClosedOK ==
  ASSUME NEW j \in JournalType, NEW status \in {"Completed", "Failed", "Interrupted"}
  PROVE  JournalOK(RunClosed(j, status))
<1>1. RunClosed(j, status) \in JournalType BY RunClosedType
<1>2. RunClosed(j, status).last = 0 /\ RunClosed(j, status).usage = j.usage
  BY DEF RunClosed, JournalType
<1>3. j.usage \in Nat BY DEF JournalType
<1>4. QED BY <1>1, <1>2, <1>3 DEF JournalOK

\* An entry that records no usage and opens or closes no run keeps the order of
\* the counters.
LEMMA CountersKept ==
  ASSUME NEW j, JournalOK(j), NEW k \in JournalType,
         k.run = j.run, k.last = j.last, k.usage = j.usage
  PROVE  JournalOK(k)
BY DEF JournalOK

\* queue.accepted records no usage.
LEMMA QueueAcceptedOK ==
  ASSUME NEW j, JournalOK(j), NEW entry \in QueueEntry, NEW target \in Nat
  PROVE  JournalOK(QueueAccepted(j, entry, target))
<1>1. QueueAccepted(j, entry, target) \in JournalType BY QueueAcceptedType DEF JournalOK
<1>2. /\ QueueAccepted(j, entry, target).run = j.run
      /\ QueueAccepted(j, entry, target).last = j.last
      /\ QueueAccepted(j, entry, target).usage = j.usage
  BY DEF JournalOK, QueueAccepted, JournalType
<1>3. QED BY <1>1, <1>2, CountersKept

\* queue.drained records no usage.
LEMMA QueueDrainedOK ==
  ASSUME NEW j, JournalOK(j), NEW ids
  PROVE  JournalOK(QueueDrained(j, ids))
<1>1. QueueDrained(j, ids) \in JournalType BY QueueDrainedType DEF JournalOK
<1>2. /\ QueueDrained(j, ids).run = j.run
      /\ QueueDrained(j, ids).last = j.last
      /\ QueueDrained(j, ids).usage = j.usage
  BY DEF JournalOK, QueueDrained, JournalType
<1>3. QED BY <1>1, <1>2, CountersKept

\* messages_injected records no usage.
LEMMA InputsAppliedOK ==
  ASSUME NEW j, JournalOK(j), NEW entries
  PROVE  JournalOK(InputsApplied(j, entries))
<1>1. InputsApplied(j, entries) \in JournalType BY InputsAppliedType DEF JournalOK
<1>2. /\ InputsApplied(j, entries).run = j.run
      /\ InputsApplied(j, entries).last = j.last
      /\ InputsApplied(j, entries).usage = j.usage
  BY DEF JournalOK, InputsApplied, JournalType
<1>3. QED BY <1>1, <1>2, CountersKept

\* A prompt records no usage.
LEMMA UserMessageOK ==
  ASSUME NEW j, JournalOK(j)
  PROVE  JournalOK(UserMessage(j))
<1>1. UserMessage(j) \in JournalType BY UserMessageType DEF JournalOK
<1>2. /\ UserMessage(j).run = j.run
      /\ UserMessage(j).last = j.last
      /\ UserMessage(j).usage = j.usage
  BY DEF JournalOK, UserMessage, JournalType
<1>3. QED BY <1>1, <1>2, CountersKept

\* assistant_committed records no usage.
LEMMA AssistantCommittedOK ==
  ASSUME NEW j, JournalOK(j), NEW calls \in SUBSET Calls, Cardinality(calls) \in Nat
  PROVE  JournalOK(AssistantCommitted(j, calls))
<1>1. AssistantCommitted(j, calls) \in JournalType BY AssistantCommittedType DEF JournalOK
<1>2. /\ AssistantCommitted(j, calls).run = j.run
      /\ AssistantCommitted(j, calls).last = j.last
      /\ AssistantCommitted(j, calls).usage = j.usage
  BY DEF JournalOK, AssistantCommitted, JournalType
<1>3. QED BY <1>1, <1>2, CountersKept

\* tool_started records no usage.
LEMMA ToolStartedOK ==
  ASSUME NEW j, JournalOK(j), NEW call \in Calls
  PROVE  JournalOK(ToolStarted(j, call))
<1>1. ToolStarted(j, call) \in JournalType BY ToolStartedType DEF JournalOK
<1>2. /\ ToolStarted(j, call).run = j.run
      /\ ToolStarted(j, call).last = j.last
      /\ ToolStarted(j, call).usage = j.usage
  BY DEF JournalOK, ToolStarted, JournalType
<1>3. QED BY <1>1, <1>2, CountersKept

\* tool_result_committed records no usage.
LEMMA ToolResultOK ==
  ASSUME NEW j, JournalOK(j), NEW call
  PROVE  JournalOK(ToolResult(j, call))
<1>1. ToolResult(j, call) \in JournalType BY ToolResultType DEF JournalOK
<1>2. /\ ToolResult(j, call).run = j.run
      /\ ToolResult(j, call).last = j.last
      /\ ToolResult(j, call).usage = j.usage
  BY DEF JournalOK, ToolResult, JournalType
<1>3. QED BY <1>1, <1>2, CountersKept

\* run_started records no usage.
LEMMA RunStartedOK ==
  ASSUME NEW j, JournalOK(j)
  PROVE  JournalOK(RunStarted(j))
<1>1. RunStarted(j) \in JournalType BY RunStartedType DEF JournalOK
<1>2. /\ RunStarted(j).run = j.run
      /\ RunStarted(j).last = j.last
      /\ RunStarted(j).usage = j.usage
  BY DEF JournalOK, RunStarted, JournalType
<1>3. QED BY <1>1, <1>2, CountersKept

\* run_completed records no usage.
LEMMA RunCompletedOK ==
  ASSUME NEW j, JournalOK(j)
  PROVE  JournalOK(RunCompleted(j))
<1>1. RunCompleted(j) \in JournalType BY RunCompletedType DEF JournalOK
<1>2. /\ RunCompleted(j).run = j.run
      /\ RunCompleted(j).last = j.last
      /\ RunCompleted(j).usage = j.usage
  BY DEF JournalOK, RunCompleted, JournalType
<1>3. QED BY <1>1, <1>2, CountersKept

\* run_suspended records no usage.
LEMMA RunSuspendedOK ==
  ASSUME NEW j, JournalOK(j), NEW suspension \in Suspension
  PROVE  JournalOK(RunSuspended(j, suspension))
<1>1. RunSuspended(j, suspension) \in JournalType BY RunSuspendedType DEF JournalOK
<1>2. /\ RunSuspended(j, suspension).run = j.run
      /\ RunSuspended(j, suspension).last = j.last
      /\ RunSuspended(j, suspension).usage = j.usage
  BY DEF JournalOK, RunSuspended, JournalType
<1>3. QED BY <1>1, <1>2, CountersKept

\* An accepted interrupt records no usage.
LEMMA InterruptAcceptedOK ==
  ASSUME NEW j, JournalOK(j), NEW target \in Nat
  PROVE  JournalOK(InterruptAccepted(j, target))
<1>1. InterruptAccepted(j, target) \in JournalType BY InterruptAcceptedType DEF JournalOK
<1>2. /\ InterruptAccepted(j, target).run = j.run
      /\ InterruptAccepted(j, target).last = j.last
      /\ InterruptAccepted(j, target).usage = j.usage
  BY DEF JournalOK, InterruptAccepted, JournalType
<1>3. QED BY <1>1, <1>2, CountersKept

\* session.fault records no usage.
LEMMA FaultRecordedOK ==
  ASSUME NEW j, JournalOK(j)
  PROVE  JournalOK(FaultRecorded(j))
<1>1. FaultRecorded(j) \in JournalType BY FaultRecordedType DEF JournalOK
<1>2. /\ FaultRecorded(j).run = j.run
      /\ FaultRecorded(j).last = j.last
      /\ FaultRecorded(j).usage = j.usage
  BY DEF JournalOK, FaultRecorded, JournalType
<1>3. QED BY <1>1, <1>2, CountersKept

\* usage.committed and turn_ended keep the order of the counters when the session
\* has at least the usage of the run.
LEMMA UsageRecordedOK ==
  ASSUME NEW j, JournalOK(j), NEW run \in Nat, NEW session \in Nat, run <= session
  PROVE  JournalOK(UsageRecorded(j, run, session))
<1>1. UsageRecorded(j, run, session) \in JournalType BY UsageRecordedType DEF JournalOK
<1>2. /\ UsageRecorded(j, run, session).run = j.run
      /\ UsageRecorded(j, run, session).last = IF j.run = NoRun THEN j.last ELSE run
      /\ UsageRecorded(j, run, session).usage = session
  BY DEF JournalOK, UsageRecorded, JournalType
<1>3. QED BY <1>1, <1>2 DEF JournalOK

\* A batch that an action appends: it lands, or the append fails (Commit and
\* AppendError together; Emit is the driver's form of them).
LEMMA CommitType ==
  ASSUME TypeInv, NEW j, JournalOK(j), NEW m, MemOK(m), NEW s \in States,
         Commit(j, m, s) \/ AppendError(j)
  PROVE  state' \in States /\ MemOK(mem)' /\ JournalOK(journal)'
BY DEF TypeInv, Commit, AppendError, States, MemOK

\* What the driver does after an event keeps its type.
LEMMA OutcomeType ==
  ASSUME TypeInv, NEW o \in Outcomes, Outcome(o)
  PROVE  drv' \in DriverType
BY DEF TypeInv, DriverType, DriverSteps, Outcome

LEMMA EmitType ==
  ASSUME TypeInv, NEW j, JournalOK(j), NEW m, MemOK(m), NEW d \in DriverType,
         Emit(j, m, d), spent' \in Nat
  PROVE  TypeInv'
<1>1. state \in States BY DEF TypeInv
<1>2. state' \in States /\ MemOK(mem)' /\ JournalOK(journal)'
  BY <1>1, CommitType DEF Emit, TypeInv, MemOK
<1>3. drv' \in DriverType BY OutcomeType DEF Emit, Outcomes
<1>4. QED BY <1>2, <1>3 DEF TypeInv, Emit, Undriven

\* A step of the loop that appends nothing.
LEMMA LoopType ==
  ASSUME TypeInv, drv' \in DriverType,
         UNCHANGED <<state, mem, journal, spent, Undriven>>
  PROVE  TypeInv'
BY DEF TypeInv, Undriven, MemOK

LEMMA GotoType ==
  ASSUME TypeInv, NEW pc \in DriverSteps, Goto(pc)
  PROVE  drv' \in DriverType
BY DEF TypeInv, DriverType, DriverSteps, Goto

\* A driver between runs has its type.
LEMMA NoDriverType == NoDriver \in DriverType
BY DEF NoDriver, DriverType, DriverSteps, Outcomes

\* Tool calls of an answer are finitely many calls of the instance.
LEMMA AnswerCalls ==
  ASSUME TypeInv, NEW n \in 0..Cardinality(Calls), (journal.calls + n) \in Calls \cup {0}
  PROVE  /\ (journal.calls + 1)..(journal.calls + n) \in SUBSET Calls
         /\ Cardinality((journal.calls + 1)..(journal.calls + n)) \in Nat
<1>1. Cardinality(Calls) \in Nat /\ Calls = 1..Cardinality(Calls)
  BY CallsAssumption, FS_CardinalityType
<1>2. journal.calls \in Nat BY DEF TypeInv, JournalOK, JournalType
<1>3. \A c \in (journal.calls + 1)..(journal.calls + n) : c \in 1..Cardinality(Calls)
  BY <1>1, <1>2
<1>4. (journal.calls + 1)..(journal.calls + n) \in SUBSET Calls BY <1>1, <1>3
<1>5. IsFiniteSet((journal.calls + 1)..(journal.calls + n))
  BY <1>4, CallsAssumption, FS_Subset
<1>6. QED BY <1>4, <1>5, FS_CardinalityType

\* The steps of the agent loop keep the types.
LEMMA LoopSteps ==
  ASSUME TypeInv,
         \/ Launch \/ ResumeFails \/ ResolveSuspended \/ StartFails \/ BeginTurn
         \/ ModelFails \/ CandidateValid \/ GateDefers \/ GateAdmits \/ GateFails
         \/ ToolsReturn \/ HandlerDefers \/ HookRefuses
  PROVE  TypeInv'
<1>1. mem.last \in Nat /\ mem.open \in SUBSET Calls /\ spent \in Nat
  BY DEF TypeInv, MemOK, MemType
<1>2. CASE Launch \/ ResolveSuspended \/ StartFails \/ BeginTurn \/ HookRefuses
  <2>1. ASSUME NEW pc \in DriverSteps, Loop(pc)
        PROVE  TypeInv'
    BY <2>1, GotoType, LoopType DEF Loop
  <2>2. ASSUME NEW o \in Outcomes, Leave(o)
        PROVE  TypeInv'
    BY <2>2, OutcomeType, LoopType DEF Leave
  <2>3. CASE Launch BY <2>1, <2>3 DEF Launch, DriverSteps
  <2>4. CASE ResolveSuspended BY <2>1, <2>4 DEF ResolveSuspended, DriverSteps
  <2>5. CASE StartFails BY <2>2, <2>5 DEF StartFails, Outcomes
  <2>6. CASE BeginTurn BY <2>1, <2>2, <2>6 DEF BeginTurn, DriverSteps, Outcomes
  <2>7. CASE HookRefuses BY <2>2, <2>7 DEF HookRefuses, Outcomes
  <2>8. QED BY <1>2, <2>3, <2>4, <2>5, <2>6, <2>7
<1>3. CASE ResumeFails
  <2>1. drv' \in DriverType
    <3>1. CASE Outcome("Failed") \/ Outcome("Refused") BY <3>1, OutcomeType DEF Outcomes
    <3>2. ASSUME NEW used \in {0, mem.last, drv.used},
                 drv' = [drv EXCEPT !.pc = "return", !.outcome = "Rejected", !.used = used]
          PROVE  drv' \in DriverType
      <4>1. used \in Nat BY <1>1 DEF TypeInv, DriverType
      <4>2. QED BY <3>2, <4>1 DEF TypeInv, DriverType, DriverSteps, Outcomes
    <3>3. QED BY <1>3, <3>1, <3>2 DEF ResumeFails
  <2>2. QED BY <1>3, <2>1, LoopType DEF ResumeFails
<1>4. CASE ModelFails
  <2>1. drv' \in DriverType /\ spent' \in Nat
    <3>1. PICK paid \in {0, 1}, o \in {"Failed", "Interrupted"} :
            /\ drv' = [drv EXCEPT !.pc = "return", !.outcome = o, !.used = @ + paid]
            /\ spent' = spent + paid
      BY <1>4 DEF ModelFails
    <3>2. drv.used + paid \in Nat /\ spent + paid \in Nat BY <1>1 DEF TypeInv, DriverType
    <3>3. QED BY <3>1, <3>2 DEF TypeInv, DriverType, DriverSteps, Outcomes
  <2>2. QED BY <1>4, <2>1 DEF ModelFails, TypeInv, Undriven, MemOK
<1>5. CASE CandidateValid \/ GateDefers \/ GateAdmits \/ GateFails
  <2>1. drv' \in DriverType
    <3>1. CASE CandidateValid BY <3>1 DEF CandidateValid, TypeInv, DriverType, DriverSteps
    <3>2. CASE GateDefers BY <3>2 DEF GateDefers, TypeInv, DriverType, DriverSteps
    <3>3. CASE GateAdmits
      <4>1. PICK calls \in SUBSET mem.open : drv' = [drv EXCEPT !.pc = "exec", !.todo = calls]
        BY <3>3 DEF GateAdmits
      <4>2. QED BY <1>1, <4>1 DEF TypeInv, DriverType, DriverSteps
    <3>4. CASE GateFails BY <3>4 DEF GateFails, TypeInv, DriverType, DriverSteps
    <3>5. QED BY <1>5, <3>1, <3>2, <3>3, <3>4
  <2>2. QED BY <1>5, <2>1, LoopType DEF CandidateValid, GateDefers, GateAdmits, GateFails
<1>6. CASE ToolsReturn \/ HandlerDefers
  <2>1. AfterTools("results") \in DriverType /\ AfterTools("suspend") \in DriverType
    <3>1. ASSUME NEW pc \in {"results", "suspend"}
          PROVE  /\ [drv EXCEPT !.pc = "start", !.next = pc] \in DriverType
                 /\ [drv EXCEPT !.pc = pc] \in DriverType
      BY DEF TypeInv, DriverType, DriverSteps
    <3>2. QED BY <3>1 DEF AfterTools
  <2>2. drv' \in DriverType BY <1>6, <2>1 DEF ToolsReturn, HandlerDefers, DriverType
  <2>3. QED BY <1>6, <2>2, LoopType DEF ToolsReturn, HandlerDefers
<1>7. QED BY <1>2, <1>3, <1>4, <1>5, <1>6

\* Driver steps that append an event keep the types.
LEMMA EventSteps ==
  ASSUME TypeInv,
         \/ StartRun \/ (\E n \in 0..Cardinality(Calls) : ModelAnswers(n))
         \/ CandidateInvalid \/ StartTool \/ CommitResult \/ EndTurn
         \/ InjectMessages \/ CompleteRun \/ SuspendRun
  PROVE  TypeInv'
<1> USE DEF MemOK
<1>1. /\ mem \in MemType /\ mem.last \in Nat /\ mem.usage \in Nat /\ mem.last <= mem.usage
      /\ JournalOK(journal) /\ drv \in DriverType /\ drv.used \in Nat
      /\ spent \in Nat /\ mem.open \in SUBSET Calls /\ drv.todo \in SUBSET Calls
  BY DEF TypeInv, MemType, DriverType
<1>2. CASE StartRun
  <2>1. MemOK([mem EXCEPT !.seen = @ \/ mem.resuming]) BY <1>1 DEF MemType
  <2>2. [drv EXCEPT !.pc = drv.next] \in DriverType BY <1>1 DEF DriverType, DriverSteps
  <2>3. QED BY <1>1, <1>2, <2>1, <2>2, RunStartedOK, EmitType DEF StartRun
<1>3. ASSUME NEW n \in 0..Cardinality(Calls), ModelAnswers(n)
      PROVE  TypeInv'
  <2> DEFINE calls == (journal.calls + 1)..(journal.calls + n)
  <2>1. calls \in SUBSET Calls /\ Cardinality(calls) \in Nat
    BY <1>3, AnswerCalls DEF ModelAnswers
  <2>2. /\ Emit(AssistantCommitted(journal, calls),
                [mem EXCEPT !.open = calls, !.tail = "assistant"],
                [drv EXCEPT !.used = @ + 1, !.cand = FALSE, !.fatal = FALSE,
                            !.pc = IF n = 0 THEN "evaluate" ELSE "gate"])
        /\ spent' = spent + 1
    BY <1>3 DEF ModelAnswers
  <2> HIDE DEF calls
  <2>3. MemOK([mem EXCEPT !.open = calls, !.tail = "assistant"])
    BY <1>1, <2>1 DEF MemType, Roles
  <2>4. ASSUME NEW used \in Nat, NEW pc \in DriverSteps
        PROVE  [drv EXCEPT !.used = used, !.cand = FALSE, !.fatal = FALSE, !.pc = pc]
                 \in DriverType
    BY <1>1 DEF DriverType
  <2>5. [drv EXCEPT !.used = @ + 1, !.cand = FALSE, !.fatal = FALSE,
                    !.pc = IF n = 0 THEN "evaluate" ELSE "gate"] \in DriverType
    <3>1. drv.used + 1 \in Nat /\ (IF n = 0 THEN "evaluate" ELSE "gate") \in DriverSteps
      BY <1>1 DEF DriverSteps
    <3>2. QED BY <2>4, <3>1
  <2>6. spent' \in Nat BY <1>1, <2>2
  <2>7. JournalOK(AssistantCommitted(journal, calls)) BY <1>1, <2>1, AssistantCommittedOK
  <2>8. QED BY <2>2, <2>3, <2>5, <2>6, <2>7, EmitType
<1>4. CASE CandidateInvalid
  <2>1. PICK fatal \in BOOLEAN :
          Emit(UserMessage(journal), [mem EXCEPT !.tail = "user", !.inject = {}],
               [drv EXCEPT !.pc = "ended", !.fatal = fatal])
    BY <1>4 DEF CandidateInvalid
  <2>2. MemOK([mem EXCEPT !.tail = "user", !.inject = {}]) BY <1>1 DEF MemType, Roles
  <2>3. [drv EXCEPT !.pc = "ended", !.fatal = fatal] \in DriverType
    BY <1>1 DEF DriverType, DriverSteps
  <2>4. QED BY <1>1, <1>4, <2>1, <2>2, <2>3, UserMessageOK, EmitType DEF CandidateInvalid
<1>5. CASE StartTool
  <2>1. PICK c \in drv.todo :
          Emit(ToolStarted(journal, c), [mem EXCEPT !.started = @ \cup {c}],
               [drv EXCEPT !.todo = @ \ {c}])
    BY <1>5 DEF StartTool
  <2>2. MemOK([mem EXCEPT !.started = @ \cup {c}]) BY <1>1 DEF MemType
  <2>3. [drv EXCEPT !.todo = @ \ {c}] \in DriverType BY <1>1 DEF DriverType
  <2>4. QED BY <1>1, <1>5, <2>1, <2>2, <2>3, ToolStartedOK, EmitType DEF StartTool
<1>6. CASE CommitResult
  <2>1. CASE mem.open = {} /\ Loop("ended")
    BY <2>1, GotoType, LoopType DEF Loop, DriverSteps
  <2>2. ASSUME NEW c \in mem.open,
               Emit(ToolResult(journal, c),
                    [mem EXCEPT !.open = @ \ {c}, !.tail = "tool"], drv), spent' = spent
        PROVE  TypeInv'
    <3>1. MemOK([mem EXCEPT !.open = @ \ {c}, !.tail = "tool"]) BY <1>1 DEF MemType, Roles
    <3>2. QED BY <1>1, <2>2, <3>1, ToolResultOK, EmitType
  <2>3. QED BY <1>6, <2>1, <2>2 DEF CommitResult
<1>7. CASE EndTurn
  <2>1. mem.usage + Delta \in Nat /\ drv.used <= mem.usage + Delta BY <1>1 DEF Delta
  <2>2. ASSUME NEW usage \in Nat, drv.used <= usage
        PROVE  MemOK([mem EXCEPT !.usage = usage, !.last = drv.used])
    BY <1>1, <2>2 DEF MemType
  <2>3. MemOK([mem EXCEPT !.usage = @ + Delta, !.last = drv.used]) BY <2>1, <2>2
  <2>4. /\ [drv EXCEPT !.pc = "return", !.outcome = "Failed"] \in DriverType
        /\ [drv EXCEPT !.pc = "hook"] \in DriverType
    BY <1>1 DEF DriverType, DriverSteps, Outcomes
  <2>5. JournalOK(UsageRecorded(journal, drv.used, mem.usage + Delta))
    BY <1>1, <2>1, UsageRecordedOK
  <2>6. QED BY <1>1, <1>7, <2>3, <2>4, <2>5, EmitType DEF EndTurn
<1>8. CASE InjectMessages
  <2>1. Into(mem.applied, Ids(mem.inject), mem.run) \in [Inputs -> Seq(Nat)]
    BY <1>1, IntoType DEF MemType
  <2>2. ASSUME NEW applied \in [Inputs -> Seq(Nat)]
        PROVE  MemOK([mem EXCEPT !.applied = applied, !.tail = "user", !.inject = {}])
    BY <1>1 DEF MemType, Roles
  <2>3. MemOK([mem EXCEPT !.applied = Into(@, Ids(mem.inject), mem.run),
                          !.tail = "user", !.inject = {}])
    BY <2>1, <2>2
  <2>4. [drv EXCEPT !.pc = "turn"] \in DriverType BY <1>1 DEF DriverType, DriverSteps
  <2>5. QED BY <1>1, <1>8, <2>3, <2>4, InputsAppliedOK, EmitType DEF InjectMessages
<1>9. CASE CompleteRun
  <2>1. [drv EXCEPT !.pc = "return", !.outcome = "Completed"] \in DriverType
    BY <1>1 DEF DriverType, DriverSteps, Outcomes
  <2>2. QED BY <1>1, <1>9, <2>1, RunCompletedOK, EmitType DEF CompleteRun
<1>10. CASE SuspendRun
  <2> DEFINE susp == [kind |-> drv.kind, id |-> journal.susps + 1, used |-> drv.used]
  <2>1. susp \in Suspension
    BY <1>1, SMTT(30) DEF Suspension, DriverType, JournalOK, JournalType
  <2>2. /\ Emit(RunSuspended(journal, susp), [mem EXCEPT !.susp = susp],
                [drv EXCEPT !.pc = "return", !.outcome = "Suspended"])
        /\ spent' = spent
    BY <1>10 DEF SuspendRun
  <2> HIDE DEF susp
  <2>3. MemOK([mem EXCEPT !.susp = susp]) BY <1>1, <2>1 DEF MemType
  <2>4. [drv EXCEPT !.pc = "return", !.outcome = "Suspended"] \in DriverType
    BY <1>1 DEF DriverType, DriverSteps, Outcomes
  <2>5. QED BY <1>1, <2>1, <2>2, <2>3, <2>4, RunSuspendedOK, EmitType
<1>11. QED BY <1>2, <1>3, <1>4, <1>5, <1>6, <1>7, <1>8, <1>9, <1>10

\* turnHook keeps the types.
LEMMA HookSteps ==
  ASSUME TypeInv, HookEnds \/ HookInjects
  PROVE  TypeInv'
<1>1. mem \in MemType /\ mem.last <= mem.usage /\ JournalOK(journal) BY DEF TypeInv, MemOK
<1>2. CASE HookEnds
  <2>1. drv' \in DriverType /\ state' \in States
    BY <1>2, GotoType DEF HookEnds, DriverSteps, TypeInv, States
  <2>2. QED BY <1>2, <2>1 DEF HookEnds, TypeInv, MemOK, Undriven
<1>3. CASE HookInjects
  <2> DEFINE m == [mem EXCEPT !.queue = Without(@, Ids(Boundary)), !.inject = Boundary]
  <2>1. Boundary \in SUBSET QueueEntry BY <1>1 DEF Boundary, OfKind, MemType
  <2>2. Without(mem.queue, Ids(Boundary)) \in SUBSET QueueEntry BY <1>1 DEF Without, MemType
  <2>3. MemOK(m) BY <1>1, <2>1, <2>2 DEF MemOK, MemType
  <2>4. JournalOK(QueueDrained(journal, Ids(Boundary))) BY <1>1, QueueDrainedOK
  <2>5. /\ \/ Commit(QueueDrained(journal, Ids(Boundary)), m, state) /\ Goto("inject")
           \/ AppendError(QueueDrained(journal, Ids(Boundary))) /\ Outcome("Failed")
        /\ UNCHANGED <<spent, Undriven>>
    BY <1>3 DEF HookInjects
  <2> HIDE DEF m
  <2>6. state \in States BY DEF TypeInv
  <2>7. state' \in States /\ MemOK(mem)' /\ JournalOK(journal)'
    BY <2>3, <2>4, <2>5, <2>6, CommitType
  <2>8. drv' \in DriverType BY <2>5, GotoType, OutcomeType DEF DriverSteps, Outcomes
  <2>9. QED BY <2>5, <2>7, <2>8 DEF TypeInv, Undriven
<1>4. QED BY <1>2, <1>3

\* Every step of the drive keeps the types.
LEMMA DriverStepsType == TypeInv /\ Driver => TypeInv'
BY LoopSteps, EventSteps, HookSteps DEF Driver

\* A batch that charges a result leaves a well-formed journal.
LEMMA ChargedOK ==
  ASSUME NEW j, JournalOK(j), NEW m, MemOK(m), NEW used \in Nat, used >= m.last
  PROVE  /\ JournalOK(Charged(j, m, used))
         /\ m.usage + (used - m.last) \in Nat
         /\ used <= m.usage + (used - m.last)
<1>1. m.last \in Nat /\ m.usage \in Nat /\ m.last <= m.usage BY DEF MemOK, MemType
<1>2. m.usage + (used - m.last) \in Nat /\ used <= m.usage + (used - m.last) BY <1>1
<1>3. JournalOK(UsageRecorded(j, used, m.usage + (used - m.last))) BY <1>2, UsageRecordedOK
<1>4. QED BY <1>2, <1>3 DEF Charged

\* The usage a finished drive is charged with is a count.
LEMMA UsedType == TypeInv => Used(mem) \in Nat
BY DEF TypeInv, MemOK, MemType, DriverType, Used

\* A run starts with nothing recorded and keeps what the session has.
LEMMA NewRunType ==
  ASSUME NEW m \in MemType, NEW run \in Nat, NEW limit \in Nat
  PROVE  /\ NewRun(m, run, limit) \in MemType
         /\ NewRun(m, run, limit).last = 0
         /\ NewRun(m, run, limit).usage = m.usage
         /\ NewRun(m, run, limit).queue = m.queue
         /\ NewRun(m, run, limit).applied = m.applied
         /\ NewRun(m, run, limit).open = m.open
         /\ NewRun(m, run, limit).tail = m.tail
<1>1. NewRun(m, run, limit) \in MemType BY DEF NewRun, MemType
<1>2. QED BY <1>1 DEF NewRun, MemType

\* So does a handle without a run.
LEMMA DetachedType ==
  ASSUME NEW m \in MemType
  PROVE  /\ Detached(m) \in MemType
         /\ Detached(m).last = 0
         /\ Detached(m).usage = m.usage
         /\ Detached(m).queue = m.queue
         /\ Detached(m).open = m.open
         /\ Detached(m).tail = m.tail
<1> DEFINE n == NewRun(m, NoRun, 0)
<1>1. /\ n \in MemType /\ n.last = 0 /\ n.usage = m.usage /\ n.queue = m.queue
      /\ n.open = m.open /\ n.tail = m.tail
  BY NewRunType DEF NoRun
<1>2. Detached(m) = [n EXCEPT !.susp = NoSuspension] BY DEF Detached
<1> HIDE DEF n
<1>3. NoSuspension \in Suspension BY DEF NoSuspension, Suspension
<1>4. QED BY <1>1, <1>2, <1>3 DEF MemType

\* The handle may be given the counters and the queue that a batch leaves.
LEMMA DetachedOK ==
  ASSUME NEW d \in MemType, d.last = 0, NEW usage \in Nat,
         NEW queue \in SUBSET QueueEntry, NEW open \in SUBSET Calls, NEW tail \in Roles
  PROVE  /\ MemOK([d EXCEPT !.usage = usage, !.queue = queue])
         /\ MemOK([d EXCEPT !.open = open, !.tail = tail, !.usage = usage,
                            !.queue = queue])
<1>1. [d EXCEPT !.usage = usage, !.queue = queue] \in MemType BY DEF MemType
<1>2. [d EXCEPT !.open = open, !.tail = tail, !.usage = usage, !.queue = queue] \in MemType
  BY DEF MemType
<1>3. /\ [d EXCEPT !.usage = usage, !.queue = queue].last = 0
      /\ [d EXCEPT !.usage = usage, !.queue = queue].usage = usage
      /\ [d EXCEPT !.open = open, !.tail = tail, !.usage = usage, !.queue = queue].last = 0
      /\ [d EXCEPT !.open = open, !.tail = tail, !.usage = usage, !.queue = queue].usage = usage
  BY DEF MemType
<1>4. QED BY <1>1, <1>2, <1>3 DEF MemOK

\* finishInterrupt's batch and the handle it leaves are well formed.
LEMMA InterruptBatchOK ==
  ASSUME NEW m, MemOK(m), JournalOK(journal), NEW used \in Nat, used >= m.last
  PROVE  JournalOK(InterruptBatch(m, used)) /\ MemOK(AfterInterrupt(m, used))
<1>1. m \in MemType BY DEF MemOK
<1>2. JournalOK(FrontierClosed(journal))
  <2>1. FrontierClosed(journal) \in JournalType BY FrontierClosedType DEF JournalOK
  <2>2. /\ FrontierClosed(journal).run = journal.run
        /\ FrontierClosed(journal).last = journal.last
        /\ FrontierClosed(journal).usage = journal.usage
    BY DEF JournalOK, FrontierClosed, JournalType
  <2>3. QED BY <2>1, <2>2, CountersKept
<1>3. /\ Charged(FrontierClosed(journal), m, used) \in JournalType
      /\ m.usage + (used - m.last) \in Nat
  BY <1>2, ChargedOK DEF JournalOK
<1>4. RunScopedIds(m.queue) \in SUBSET Inputs
  BY <1>1, IdsAreInputs DEF RunScopedIds, OfKind, MemType
<1>5. JournalOK(InterruptBatch(m, used))
  BY <1>3, <1>4, QueueCancelledType, RunClosedOK DEF InterruptBatch
<1>6. Without(m.queue, RunScopedIds(m.queue)) \in SUBSET QueueEntry
  BY <1>1 DEF Without, MemType
<1>7. (IF m.open = {} THEN m.tail ELSE "tool") \in Roles BY <1>1 DEF MemType, Roles
<1>8. /\ Detached(m) \in MemType
      /\ Detached(m).last = 0
      /\ Detached(m).tail = m.tail
      /\ Detached(m).usage = m.usage
      /\ Detached(m).queue = m.queue
  BY <1>1, DetachedType
<1>9. /\ (IF m.open = {} THEN Detached(m).tail ELSE "tool") \in Roles
      /\ Detached(m).usage + (used - m.last) \in Nat
      /\ Without(Detached(m).queue, RunScopedIds(m.queue)) \in SUBSET QueueEntry
  BY <1>3, <1>6, <1>7, <1>8
<1>10. MemOK(AfterInterrupt(m, used)) BY <1>8, <1>9, DetachedOK DEF AfterInterrupt
<1>11. QED BY <1>5, <1>10

\* finishInterrupt keeps the types, in the driver and in the settling goroutine.
LEMMA FinishInterruptType ==
  ASSUME TypeInv, NEW used \in Nat, used >= mem.last, FinishInterrupt(used)
  PROVE  state' \in States /\ MemOK(mem)' /\ JournalOK(journal)'
<1>1. JournalOK(InterruptBatch(mem, used)) /\ MemOK(AfterInterrupt(mem, used))
  BY InterruptBatchOK DEF TypeInv
<1>2. \/ Commit(InterruptBatch(mem, used), AfterInterrupt(mem, used), "Idle")
      \/ AppendError(InterruptBatch(mem, used))
  BY DEF FinishInterrupt
<1>3. "Idle" \in States BY DEF States
<1>4. QED BY <1>1, <1>2, <1>3, CommitType

\* The steps that settle a drive keep the types.
LEMMA FinishStepsType ==
  ASSUME TypeInv, Finish
  PROVE  TypeInv'
<1>1. /\ mem \in MemType /\ MemOK(mem) /\ mem.last \in Nat /\ mem.usage \in Nat
      /\ JournalOK(journal) /\ drv.used \in Nat /\ state \in States
  BY DEF TypeInv, MemOK, MemType, DriverType
<1>2. Finished => drv' \in DriverType BY NoDriverType DEF Finished
<1>3. PersistFault => state' \in States /\ MemOK(mem)' /\ JournalOK(journal)'
  BY <1>1, FaultRecordedOK DEF PersistFault, States
<1>4. ASSUME state' \in States /\ MemOK(mem)' /\ JournalOK(journal)', drv' \in DriverType,
             UNCHANGED <<spent, Undriven>>
      PROVE  TypeInv'
  BY <1>4 DEF TypeInv, Undriven
<1>5. CASE FinishFaulted BY <1>2, <1>5, LoopType DEF FinishFaulted
<1>6. CASE FinishInterrupted
  BY <1>6, GotoType, LoopType DEF FinishInterrupted, Loop, DriverSteps
<1>7. CASE FinishBounced
  <2>1. MemOK([mem EXCEPT !.resuming = FALSE]) BY <1>1 DEF MemOK, MemType
  <2>2. state' \in States /\ MemOK(mem)' /\ JournalOK(journal)'
    BY <1>1, <1>7, <2>1 DEF FinishBounced, States
  <2>3. QED BY <1>2, <1>4, <1>7, <2>2 DEF FinishBounced
<1>8. CASE FinishUnusable BY <1>2, <1>3, <1>4, <1>8 DEF FinishUnusable
<1>9. CASE FinishSuspended
  <2> DEFINE usage == mem.usage + (drv.used - mem.last)
             m == [mem EXCEPT !.usage = @ + (drv.used - mem.last), !.last = drv.used,
                              !.resuming = FALSE]
  <2>1. /\ JournalOK(Charged(journal, mem, drv.used))
        /\ usage \in Nat /\ drv.used <= usage
    BY <1>1, <1>9, ChargedOK DEF FinishSuspended
  <2>2. ASSUME NEW u \in Nat, drv.used <= u
        PROVE  MemOK([mem EXCEPT !.usage = u, !.last = drv.used, !.resuming = FALSE])
    BY <1>1, <2>2 DEF MemOK, MemType
  <2>3. MemOK(m) BY <2>1, <2>2
  <2>4. \/ /\ journal' \in {journal, Charged(journal, mem, drv.used)}
           /\ mem' = m /\ state' = "Suspended"
        \/ AppendError(Charged(journal, mem, drv.used))
    BY <1>9 DEF FinishSuspended
  <2> HIDE DEF m
  <2>5. state' \in States /\ MemOK(mem)' /\ JournalOK(journal)'
    BY <1>1, <2>1, <2>3, <2>4 DEF AppendError, States
  <2>6. QED BY <1>2, <1>4, <1>9, <2>5 DEF FinishSuspended
<1>10. CASE FinishClosed
  <2> DEFINE status  == IF drv.outcome = "Completed" THEN "Completed" ELSE "Failed"
             cancels == IF status = "Completed" THEN {} ELSE RunScopedIds(mem.queue)
             j == RunClosed(QueueCancelled(Charged(journal, mem, Used(mem)), cancels),
                            status)
             m == [Detached(mem) EXCEPT !.usage = @ + (Used(mem) - mem.last),
                                        !.queue = Without(@, cancels)]
  <2>1. /\ Charged(journal, mem, Used(mem)) \in JournalType
        /\ mem.usage + (Used(mem) - mem.last) \in Nat
    BY <1>1, <1>10, ChargedOK, UsedType DEF FinishClosed, JournalOK
  <2>2. cancels \in SUBSET Inputs BY <1>1, IdsAreInputs DEF RunScopedIds, OfKind, MemType
  <2>3. status \in {"Completed", "Failed", "Interrupted"}
    OBVIOUS
  <2>4. Commit(j, m, "Idle") \/ AppendError(j) BY <1>10 DEF FinishClosed
  <2> HIDE DEF status, cancels
  <2>5. JournalOK(j) BY <2>1, <2>2, <2>3, QueueCancelledType, RunClosedOK
  <2>6. /\ Detached(mem) \in MemType
        /\ Detached(mem).last = 0
        /\ Detached(mem).usage + (Used(mem) - mem.last) \in Nat
        /\ Without(Detached(mem).queue, cancels) \in SUBSET QueueEntry
    BY <1>1, <2>1, DetachedType DEF Without, MemType
  <2>7. MemOK(m) BY <2>6, DetachedOK DEF Roles
  <2> HIDE DEF j, m
  <2>8. state' \in States /\ MemOK(mem)' /\ JournalOK(journal)'
    BY <2>4, <2>5, <2>7, CommitType DEF States
  <2>9. QED BY <1>2, <1>4, <1>10, <2>8 DEF FinishClosed
<1>11. CASE SettleInterrupt
  <2>1. CASE NothingToInterrupt
    BY <1>1, <1>2, <1>4, <1>11, <2>1 DEF NothingToInterrupt, SettleInterrupt
  <2>2. CASE Used(mem) >= mem.last /\ FinishInterrupt(Used(mem))
    BY <1>2, <1>4, <1>11, <2>2, UsedType, FinishInterruptType DEF SettleInterrupt
  <2>3. CASE PersistFault BY <1>2, <1>3, <1>4, <1>11, <2>3 DEF SettleInterrupt
  <2>4. QED BY <1>11, <2>1, <2>2, <2>3 DEF SettleInterrupt
<1>12. QED BY <1>5, <1>6, <1>7, <1>8, <1>9, <1>10, <1>11 DEF Finish

\* So does the goroutine of an interrupted suspension.
LEMMA SettleSuspendedType ==
  ASSUME TypeInv, SettleSuspended
  PROVE  TypeInv'
<1>1. mem.last \in Nat /\ state \in States /\ MemOK(mem) /\ JournalOK(journal)
  BY DEF TypeInv, MemOK, MemType
<1>2. CASE NothingToInterrupt
  BY <1>1, <1>2 DEF SettleSuspended, NothingToInterrupt, TypeInv, MemOK
<1>3. CASE FinishInterrupt(mem.last)
  <2>1. state' \in States /\ MemOK(mem)' /\ JournalOK(journal)'
    BY <1>1, <1>3, FinishInterruptType
  <2>2. QED BY <2>1 DEF SettleSuspended, TypeInv
<1>4. QED BY <1>2, <1>3 DEF SettleSuspended

\* What the session's budget leaves to a new run is a count.
LEMMA RemainingType ==
  ASSUME NEW usage \in Nat, ~BudgetExhausted(usage)
  PROVE  Remaining(usage) \in Nat
BY SessionAssumption DEF BudgetExhausted, Remaining

\* Client calls keep the types.
LEMMA ClientSteps ==
  ASSUME TypeInv, Client
  PROVE  TypeInv'
<1>1. /\ mem \in MemType /\ MemOK(mem) /\ mem.usage \in Nat /\ mem.run \in Nat
      /\ mem.queue \in SUBSET QueueEntry /\ mem.open \in SUBSET Calls /\ mem.tail \in Roles
      /\ JournalOK(journal) /\ journal \in JournalType
      /\ journal.runs \in Nat /\ state \in States /\ drv \in DriverType
  BY DEF TypeInv, MemOK, MemType, JournalOK, JournalType
<1>2. ASSUME state' \in States /\ MemOK(mem)' /\ JournalOK(journal)', drv' \in DriverType,
             UNCHANGED Unclient
      PROVE  TypeInv'
  BY <1>2 DEF TypeInv, Unclient
<1>3. /\ [NoDriver EXCEPT !.pc = "start"] \in DriverType
      /\ journal.runs + 1 \in Nat \ {NoRun}
      /\ "Running" \in States /\ "Interrupting" \in States
  <2>1. [NoDriver EXCEPT !.pc = "start"] \in DriverType
    BY NoDriverType DEF DriverType, DriverSteps
  <2>2. QED BY <1>1, <2>1 DEF NoRun, States
<1>4. CASE Start
  <2> DEFINE run    == journal.runs + 1
             limit  == Remaining(mem.usage)
             next   == OfKind(mem.queue, {"next_turn"})
             drains == QueueDrained(RunOpened(journal, run, limit), Ids(next))
             j      == UserMessage(InputsApplied(drains, next))
             n      == NewRun(mem, run, limit)
             m      == [n EXCEPT !.queue = Without(@, Ids(next)), !.tail = "user",
                                 !.applied = Into(@, Ids(next), run)]
  <2>1. limit \in Nat /\ run \in Nat BY <1>1, <1>3, <1>4, RemainingType DEF Start
  <2>2. JournalOK(j)
    BY <1>1, <1>3, <2>1, RunOpenedOK, QueueDrainedOK, InputsAppliedOK, UserMessageOK
  <2>3. /\ n \in MemType /\ n.last = 0
        /\ Without(n.queue, Ids(next)) \in SUBSET QueueEntry
        /\ Into(n.applied, Ids(next), run) \in [Inputs -> Seq(Nat)]
    BY <1>1, <2>1, NewRunType, IntoType, ZenonT(30) DEF Without, MemType
  <2>4. /\ \/ Commit(j, m, "Running") /\ drv' = [NoDriver EXCEPT !.pc = "start"]
           \/ AppendError(j) /\ UNCHANGED drv
        /\ UNCHANGED Unclient
    BY <1>4 DEF Start
  <2> HIDE DEF j, n
  <2>5. ASSUME NEW queue \in SUBSET QueueEntry, NEW applied \in [Inputs -> Seq(Nat)]
        PROVE  MemOK([n EXCEPT !.queue = queue, !.tail = "user", !.applied = applied])
    <3>1. [n EXCEPT !.queue = queue, !.tail = "user", !.applied = applied] \in MemType
      BY <2>3 DEF MemType, Roles
    <3>2. n.usage \in Nat BY <2>3 DEF MemType
    <3>3. QED BY <2>3, <3>1, <3>2 DEF MemOK, MemType
  <2>6. MemOK(m) BY <2>3, <2>5
  <2> HIDE DEF m
  <2>7. state' \in States /\ MemOK(mem)' /\ JournalOK(journal)'
    BY <1>3, <2>2, <2>4, <2>6, CommitType
  <2>8. QED BY <1>1, <1>2, <1>3, <2>4, <2>7
<1>5. ASSUME NEW id \in Inputs, NEW kind \in QueueKinds, NEW target \in 0..MaxRuns,
             Accept(id, kind, target)
      PROVE  TypeInv'
  <2> DEFINE entry == [id |-> id, kind |-> kind, at |-> Len(journal.accepted) + 1]
             j == QueueAccepted(journal, entry, target)
  <2>1. Len(journal.accepted) \in Nat /\ target \in Nat
    BY <1>1, SessionAssumption DEF JournalType
  <2>2. entry \in QueueEntry BY <2>1 DEF QueueEntry
  <2>3. \/ Commit(j, [mem EXCEPT !.queue = @ \cup {entry}], state)
        \/ AppendError(j)
    BY <1>5 DEF Accept
  <2> HIDE DEF entry
  <2>4. JournalOK(j) /\ MemOK([mem EXCEPT !.queue = @ \cup {entry}])
    BY <1>1, <2>1, <2>2, QueueAcceptedOK DEF MemOK, MemType
  <2>5. state' \in States /\ MemOK(mem)' /\ JournalOK(journal)'
    BY <1>1, <2>3, <2>4, CommitType
  <2>6. QED BY <1>1, <1>2, <1>5, <2>5 DEF Accept
<1>6. ASSUME NEW target \in 0..MaxRuns, Interrupt(target)
      PROVE  TypeInv'
  <2> DEFINE j == InterruptAccepted(journal, target)
  <2>1. target \in Nat BY SessionAssumption
  <2>2. JournalOK(j) BY <1>1, <2>1, InterruptAcceptedOK
  <2>3. \/ Commit(j, mem, "Interrupting") \/ AppendError(j)
        \/ state' = "Interrupting" /\ UNCHANGED <<mem, journal>>
    BY <1>6 DEF Interrupt
  <2> HIDE DEF j
  <2>4. state' \in States /\ MemOK(mem)' /\ JournalOK(journal)'
    BY <1>1, <1>3, <2>2, <2>3, CommitType DEF MemOK
  <2>5. settler' \in BOOLEAN /\ UNCHANGED <<drv, lock, spent, opens>>
    BY <1>6 DEF Interrupt, TypeInv
  <2>6. QED BY <2>4, <2>5 DEF TypeInv
<1>7. ASSUME NEW id, NEW approved \in SUBSET Calls, Resume(id, approved)
      PROVE  TypeInv'
  <2>1. MemOK([mem EXCEPT !.resuming = TRUE, !.seen = FALSE]) BY <1>1 DEF MemOK, MemType
  <2>2. mem.susp.used \in Nat /\ mem.susp.kind \in {"none", "gate", "handler", "indeterminate"}
    BY <1>1 DEF MemType, Suspension
  <2>3. [NoDriver EXCEPT !.pc = "resolve", !.todo = approved, !.used = mem.susp.used,
                         !.resumed = TRUE, !.kind = mem.susp.kind] \in DriverType
    BY <2>2 DEF NoDriver, DriverType, DriverSteps, Outcomes
  <2>4. drv' \in DriverType /\ UNCHANGED Unclient BY <1>1, <1>7, <2>3 DEF Resume
  <2>5. state' \in States /\ MemOK(mem)' /\ JournalOK(journal)'
    BY <1>1, <1>3, <1>7, <2>1, CommitType DEF Resume
  <2>6. QED BY <1>2, <2>4, <2>5
<1>8. ASSUME NEW id, ResumeIndeterminate(id)
      PROVE  TypeInv'
  <2> DEFINE run   == journal.runs + 1
             limit == Remaining(mem.usage)
             j == RunOpened(FrontierClosed(RunClosed(journal, "Interrupted")), run, limit)
             n == NewRun(mem, run, limit)
             tail == IF mem.open = {} THEN n.tail ELSE "tool"
             m == [n EXCEPT !.open = {}, !.tail = IF mem.open = {} THEN @ ELSE "tool",
                            !.susp = NoSuspension]
  <2>1. limit \in Nat /\ run \in Nat
    BY <1>1, <1>3, <1>8, RemainingType DEF ResumeIndeterminate
  <2>2. JournalOK(j) BY <1>1, <1>3, <2>1, RunClosedType, FrontierClosedType, RunOpenedOK
  <2>3. n \in MemType /\ n.last = 0 /\ n.usage \in Nat /\ tail \in Roles
    BY <1>1, <2>1, NewRunType, ZenonT(30) DEF Roles
  <2>4. /\ \/ Commit(j, m, "Running") /\ drv' = [NoDriver EXCEPT !.pc = "start"]
           \/ AppendError(j) /\ UNCHANGED drv
        /\ UNCHANGED Unclient
    BY <1>8 DEF ResumeIndeterminate
  <2> HIDE DEF j, n
  <2>5. MemOK([n EXCEPT !.open = {}, !.tail = tail, !.susp = NoSuspension])
    <3> HIDE DEF tail
    <3>1. NoSuspension \in Suspension BY DEF NoSuspension, Suspension
    <3>2. [n EXCEPT !.open = {}, !.tail = tail, !.susp = NoSuspension] \in MemType
      BY <2>3, <3>1 DEF MemType
    <3>3. QED BY <2>3, <3>2 DEF MemOK, MemType
  <2>6. MemOK(m) BY <2>5
  <2> HIDE DEF m
  <2>7. state' \in States /\ MemOK(mem)' /\ JournalOK(journal)'
    BY <1>3, <2>2, <2>4, <2>6, CommitType
  <2>8. QED BY <1>1, <1>2, <1>3, <2>4, <2>7
<1>9. QED BY <1>4, <1>5, <1>6, <1>7, <1>8 DEF Client

\* Closing, abandoning or losing a handle keeps the types.
LEMMA OwnerSteps ==
  ASSUME TypeInv, Owner
  PROVE  TypeInv'
<1>1. CASE Abandon \/ Close BY <1>1 DEF Abandon, Close, TypeInv, MemOK, States
<1>2. CASE Drop \/ Crash
  <2>1. MemOK(Loaded(EmptyJournal)) BY LoadedOK, EmptyJournalOK
  <2>2. NoHandle BY <1>2 DEF Drop, Crash
  <2>3. MemOK(mem)' /\ drv' \in DriverType /\ state' \in States
    BY <2>1, <2>2, NoDriverType DEF NoHandle, States
  <2>4. QED BY <2>2, <2>3 DEF NoHandle, TypeInv
<1>3. QED BY <1>1, <1>2 DEF Owner

\* Recover keeps the types: its handle mirrors the journal it leaves.
LEMMA RecoverSteps ==
  ASSUME TypeInv, Recover
  PROVE  TypeInv'
<1>1. /\ JournalOK(journal) /\ journal \in JournalType /\ journal.last \in Nat
      /\ journal.run \in Nat /\ journal.usage \in Nat /\ opens \in Nat
      /\ journal.open \in SUBSET Calls /\ journal.tail \in Roles
  BY DEF TypeInv, JournalOK, JournalType
<1>2. /\ MemOK(Folded) /\ Folded \in MemType /\ Folded.last = journal.last
      /\ Folded.usage = journal.usage /\ Folded.tail = journal.tail
  BY <1>1, LoadedOK DEF Folded, MemOK, Loaded
<1>3. ASSUME NEW j, JournalOK(j), NEW m, MemOK(m), NEW s \in States, NEW d \in DriverType,
             Reopen(j, m, s, d)
      PROVE  TypeInv'
  BY <1>1, <1>3 DEF Reopen, TypeInv, MemOK
<1>4. /\ "Idle" \in States /\ "Suspended" \in States /\ "Running" \in States
      /\ NoDriver \in DriverType
  BY NoDriverType DEF States
<1>5. CASE RecoverInterrupted
  <2>1. JournalOK(InterruptBatch(Folded, Folded.last))
        /\ MemOK(AfterInterrupt(Folded, Folded.last))
    BY <1>1, <1>2, InterruptBatchOK
  <2>2. QED BY <1>3, <1>4, <1>5, <2>1 DEF RecoverInterrupted
<1>6. CASE RecoverCompleted
  <2>1. Detached(Folded) \in MemType /\ Detached(Folded).last = 0
        /\ Detached(Folded).usage = journal.usage
    BY <1>2, DetachedType
  <2>2. MemOK(Detached(Folded)) BY <1>1, <2>1 DEF MemOK
  <2>3. JournalOK(RunClosed(journal, "Completed")) BY <1>1, RunClosedOK
  <2>4. QED BY <1>3, <1>4, <1>6, <2>2, <2>3 DEF RecoverCompleted
<1>7. CASE RecoverIdle \/ RecoverSuspended
  BY <1>1, <1>2, <1>3, <1>4, <1>7 DEF RecoverIdle, RecoverSuspended
<1>8. CASE RecoverInject
  <2>1. JournalOK(InputsApplied(journal, journal.drained)) BY <1>1, InputsAppliedOK
  <2>2. QED BY <1>8, <2>1 DEF RecoverInject, TypeInv, MemOK
<1>9. CASE RecoverIndeterminate
  <2> DEFINE susp == [kind |-> "indeterminate", id |-> journal.susps + 1, used |-> 0]
  <2>1. susp \in Suspension BY <1>1 DEF Suspension, JournalType
  <2>2. Reopen(RunSuspended(journal, susp), [Folded EXCEPT !.susp = susp], "Suspended",
               NoDriver)
    BY <1>9 DEF RecoverIndeterminate
  <2> HIDE DEF susp
  <2>3. MemOK([Folded EXCEPT !.susp = susp])
    <3>1. [Folded EXCEPT !.susp = susp] \in MemType BY <1>2, <2>1 DEF MemType
    <3>2. /\ [Folded EXCEPT !.susp = susp].last = Folded.last
          /\ [Folded EXCEPT !.susp = susp].usage = Folded.usage
      BY <1>2 DEF MemType
    <3>3. QED BY <1>2, <3>1, <3>2 DEF MemOK
  <2>4. JournalOK(RunSuspended(journal, susp)) BY <1>1, <2>1, RunSuspendedOK
  <2>5. QED BY <1>3, <1>4, <2>2, <2>3, <2>4
<1>10. CASE RecoverContinue
  <2> DEFINE limit == Remaining(journal.usage)
             n == NewRun(Folded, journal.run, limit)
             tail == IF journal.open = {} THEN n.tail ELSE "tool"
             m == [n EXCEPT !.open = {}, !.tail = IF journal.open = {} THEN @ ELSE "tool",
                            !.susp = NoSuspension]
             d == [NoDriver EXCEPT !.pc = "launch",
                     !.next = IF m.tail = "assistant" THEN "evaluate" ELSE "turn"]
             j == RunOpened(FrontierAbandoned(journal), journal.run, limit)
  <2>1. limit \in Nat /\ journal.run \in Nat \ {NoRun}
    BY <1>1, <1>10, RemainingType DEF RecoverContinue, RecoverOpenRun
  <2>2. JournalOK(j) BY <1>1, <2>1, FrontierAbandonedType, RunOpenedOK
  <2>3. n \in MemType /\ n.last = 0 /\ n.usage \in Nat /\ tail \in Roles
    BY <1>1, <1>2, <2>1, NewRunType, ZenonT(30) DEF Roles
  <2>4. d \in DriverType
    <3>1. ASSUME NEW next \in {"turn", "evaluate"}
          PROVE  [NoDriver EXCEPT !.pc = "launch", !.next = next] \in DriverType
      BY NoDriverType DEF DriverType, DriverSteps
    <3>2. QED BY <3>1
  <2>5. Reopen(j, m, "Running", d) BY <1>10 DEF RecoverContinue
  <2> HIDE DEF j, n, d
  <2>6. MemOK([n EXCEPT !.open = {}, !.tail = tail, !.susp = NoSuspension])
    <3> HIDE DEF tail
    <3>1. NoSuspension \in Suspension BY DEF NoSuspension, Suspension
    <3>2. [n EXCEPT !.open = {}, !.tail = tail, !.susp = NoSuspension] \in MemType
      BY <2>3, <3>1 DEF MemType
    <3>3. QED BY <2>3, <3>2 DEF MemOK, MemType
  <2>7. MemOK(m) BY <2>6
  <2> HIDE DEF m
  <2>8. QED BY <1>3, <1>4, <2>2, <2>4, <2>5, <2>7
<1>11. QED BY <1>5, <1>6, <1>7, <1>8, <1>9, <1>10 DEF Recover

\* The invariant that the types rest on.
LEMMA TypeInvariant == Spec => []TypeInv
<1>1. ASSUME Init PROVE TypeInv
  <2>1. JournalOK(EmptyJournal) /\ MemOK(Loaded(EmptyJournal)) BY EmptyJournalOK, LoadedOK
  <2>2. MemOK(mem) /\ JournalOK(journal) /\ drv \in DriverType
    BY <1>1, <2>1, NoDriverType DEF Init
  <2>3. state \in States /\ settler \in BOOLEAN /\ lock \in BOOLEAN
        /\ spent \in Nat /\ opens \in Nat
    BY <1>1 DEF Init, States
  <2>4. QED BY <2>2, <2>3 DEF TypeInv
<1>2. TypeInv /\ [Next]_vars => TypeInv'
  <2>1. TypeInv /\ UNCHANGED vars => TypeInv' BY DEF TypeInv, vars, MemOK
  <2>2. QED
    BY <2>1, ClientSteps, DriverStepsType, FinishStepsType, SettleSuspendedType,
       OwnerSteps, RecoverSteps DEF Next
<1>3. QED BY <1>1, <1>2, PTL DEF Spec

\* Every variable keeps its type: in particular no counter of usage goes below
\* zero, and a run's limit is what the budget leaves.
THEOREM TypeCorrect == Spec => []TypeOK
<1>1. TypeInv => TypeOK BY DEF TypeInv, TypeOK, MemOK, JournalOK
<1>2. QED BY <1>1, TypeInvariant, PTL

-----------------------------------------------------------------------------
(***************************************************************************)
(* The books of a session: which runs were opened, interrupted and closed. *)
(*                                                                         *)
(* RunsSettle and InterruptWins are not inductive.  Books strengthens both *)
(* as far as the journal goes: the open run is the last one opened, and    *)
(* the interrupt that recovery would find pending is the one the open run  *)
(* accepted.  LiveRun adds what the handle's memory and its goroutines     *)
(* have to do with it: the handle and the journal agree on the open run, a *)
(* session that is idle or suspended has no driver, the goroutine of an    *)
(* interrupted suspension has no rival, and a run whose interrupt is       *)
(* recorded is already Interrupting.                                       *)
(***************************************************************************)
Uninterrupted(j) == \A i \in j.interrupts : i.run # j.run

Books(j) ==
  /\ j.run # NoRun => j.run = j.runs
  /\ \A n \in DOMAIN j.closed : j.closed[n].run = n
  /\ Len(j.closed) = IF j.run = NoRun THEN j.runs ELSE j.runs - 1
  /\ \A i \in j.interrupts : i.run \in 1..j.runs
  /\ \A i \in j.interrupts : i.run = j.run => j.interruptRun = j.run
  /\ \A i \in j.interrupts, n \in DOMAIN j.closed :
       j.closed[n].run = i.run => j.closed[n].status = "Interrupted"

GoneIsQuiet == state = "Down" => ~lock /\ drv.pc = "none" /\ ~settler

LiveRun ==
  lock /\ state \in Attached =>
    /\ mem.run = journal.run
    /\ state = "Idle" <=> mem.run = NoRun
    /\ state \in {"Idle", "Suspended"} => drv.pc = "none"
    /\ settler => drv.pc = "none"
    /\ state # "Interrupting" => Uninterrupted(journal) /\ ~settler

Coherent == GoneIsQuiet /\ ClosedIsUnlocked /\ LiveRun /\ Books(journal)

\* Entries that leave the books alone.
SameBooks(j, k) ==
  /\ k.run = j.run /\ k.runs = j.runs /\ k.closed = j.closed
  /\ k.interrupts = j.interrupts /\ k.interruptRun = j.interruptRun

\* The books of a journal depend on those fields only.
LEMMA BooksKept ==
  ASSUME NEW j, Books(j), NEW k, SameBooks(j, k)
  PROVE  Books(k) /\ (Uninterrupted(j) => Uninterrupted(k))
BY DEF Books, SameBooks, Uninterrupted

\* Leaving the books alone is transitive: a batch of such entries does.
LEMMA SameBooksTransitive ==
  ASSUME NEW i, NEW j, NEW k, SameBooks(i, j), SameBooks(j, k)
  PROVE  SameBooks(i, k)
BY DEF SameBooks

\* Queue entries open, interrupt and close nothing.
LEMMA QueueBooks ==
  ASSUME NEW j \in JournalType, NEW entry, NEW target, NEW ids, NEW entries
  PROVE  /\ SameBooks(j, QueueAccepted(j, entry, target))
         /\ SameBooks(j, QueueDrained(j, ids))
         /\ SameBooks(j, QueueCancelled(j, ids))
         /\ SameBooks(j, InputsApplied(j, entries))
<1>1. SameBooks(j, QueueAccepted(j, entry, target))
  BY DEF SameBooks, QueueAccepted, JournalType
<1>2. SameBooks(j, QueueDrained(j, ids)) BY DEF SameBooks, QueueDrained, JournalType
<1>3. SameBooks(j, QueueCancelled(j, ids)) BY DEF SameBooks, QueueCancelled, JournalType
<1>4. SameBooks(j, InputsApplied(j, entries)) BY DEF SameBooks, InputsApplied, JournalType
<1>5. QED BY <1>1, <1>2, <1>3, <1>4

\* Neither do the events of the agent loop.
LEMMA EventBooks ==
  ASSUME NEW j \in JournalType, NEW calls, NEW call, NEW run, NEW session,
         NEW suspension
  PROVE  /\ SameBooks(j, UserMessage(j))
         /\ SameBooks(j, AssistantCommitted(j, calls))
         /\ SameBooks(j, ToolStarted(j, call))
         /\ SameBooks(j, ToolResult(j, call))
         /\ SameBooks(j, UsageRecorded(j, run, session))
         /\ SameBooks(j, RunStarted(j))
         /\ SameBooks(j, RunCompleted(j))
         /\ SameBooks(j, RunSuspended(j, suspension))
<1>1. SameBooks(j, UserMessage(j)) /\ SameBooks(j, ToolResult(j, call))
  BY DEF SameBooks, UserMessage, ToolResult, JournalType
<1>2. SameBooks(j, AssistantCommitted(j, calls))
  BY DEF SameBooks, AssistantCommitted, JournalType
<1>3. SameBooks(j, ToolStarted(j, call)) BY DEF SameBooks, ToolStarted, JournalType
<1>4. SameBooks(j, UsageRecorded(j, run, session))
  BY DEF SameBooks, UsageRecorded, JournalType
<1>5. SameBooks(j, RunStarted(j)) /\ SameBooks(j, RunCompleted(j))
  BY DEF SameBooks, RunStarted, RunCompleted, JournalType
<1>6. SameBooks(j, RunSuspended(j, suspension)) BY DEF SameBooks, RunSuspended, JournalType
<1>7. QED BY <1>1, <1>2, <1>3, <1>4, <1>5, <1>6

\* Nor do repairs and recorded faults.
LEMMA RepairBooks ==
  ASSUME NEW j \in JournalType
  PROVE  /\ SameBooks(j, FrontierClosed(j))
         /\ SameBooks(j, FrontierAbandoned(j))
         /\ SameBooks(j, FaultRecorded(j))
<1>1. SameBooks(j, FrontierClosed(j)) /\ SameBooks(j, FaultRecorded(j))
  BY DEF SameBooks, FrontierClosed, FaultRecorded, JournalType
<1>2. FrontierClosed(j) \in JournalType BY FrontierClosedType
<1>3. SameBooks(FrontierClosed(j), FrontierAbandoned(j))
  BY <1>2 DEF SameBooks, FrontierAbandoned, JournalType
<1>4. QED BY <1>1, <1>3, SameBooksTransitive

\* Charging a result is a usage entry or nothing.
LEMMA ChargedBooks ==
  ASSUME NEW j \in JournalType, NEW m, NEW used
  PROVE  SameBooks(j, Charged(j, m, used))
BY EventBooks DEF Charged, SameBooks

\* run.opened takes the next number when no run is open; run.recovered opens the
\* same run again.
LEMMA OpenedBooks ==
  ASSUME NEW j \in JournalType, Books(j), NEW run \in Nat, NEW limit \in Nat,
         \/ j.run = NoRun /\ run = j.runs + 1
         \/ j.run # NoRun /\ run = j.run /\ Uninterrupted(j)
  PROVE  /\ Books(RunOpened(j, run, limit))
         /\ Uninterrupted(RunOpened(j, run, limit))
         /\ RunOpened(j, run, limit).run = run
<1> DEFINE k == RunOpened(j, run, limit)
<1>1. /\ k.run = run /\ k.runs = run /\ k.closed = j.closed
      /\ k.interrupts = j.interrupts /\ k.interruptRun = j.interruptRun
  BY DEF RunOpened, JournalType
<1>2. j.runs \in Nat /\ j.run \in Nat BY DEF JournalType
<1>3. run # NoRun /\ j.runs <= run BY <1>2 DEF Books, NoRun
<1>4. \A i \in j.interrupts : i.run \in 1..run /\ i.run # run
  BY <1>2, <1>3 DEF Books, Uninterrupted, NoRun
<1>5. Len(j.closed) = run - 1 BY <1>2 DEF Books
<1> HIDE DEF k
<1>6. QED BY <1>1, <1>3, <1>4, <1>5 DEF Books, Uninterrupted, k

\* run.closed settles the open run; a run with a recorded interrupt may only be
\* closed as interrupted.
LEMMA ClosedBooks ==
  ASSUME NEW j \in JournalType, Books(j), j.run # NoRun,
         NEW status \in {"Completed", "Failed", "Interrupted"},
         status = "Interrupted" \/ Uninterrupted(j)
  PROVE  /\ Books(RunClosed(j, status))
         /\ Uninterrupted(RunClosed(j, status))
         /\ RunClosed(j, status).run = NoRun
         /\ RunClosed(j, status).runs = j.runs
<1> DEFINE k == RunClosed(j, status)
           c == [run |-> j.run, status |-> status]
           Closing == [run : Nat, status : {"Completed", "Failed", "Interrupted"}]
<1>1. /\ k.run = NoRun /\ k.runs = j.runs /\ k.closed = Append(j.closed, c)
      /\ k.interrupts = j.interrupts
  BY DEF RunClosed, JournalType
<1>2. /\ j.runs \in Nat /\ j.run \in Nat /\ j.run = j.runs /\ Len(j.closed) = j.runs - 1
      /\ j.closed \in Seq(Closing) /\ c \in Closing
  BY DEF JournalType, Books
<1> HIDE DEF Closing
<1>3. /\ Len(k.closed) = j.runs
      /\ \A n \in DOMAIN k.closed : n \in DOMAIN j.closed \/ n = j.runs
      /\ \A n \in DOMAIN j.closed : k.closed[n] = j.closed[n]
      /\ k.closed[j.runs] = c
  BY <1>1, <1>2
<1>4. \A n \in DOMAIN k.closed : k.closed[n].run = n BY <1>2, <1>3 DEF Books
<1>5. ASSUME NEW i \in k.interrupts, NEW n \in DOMAIN k.closed, k.closed[n].run = i.run
      PROVE  k.closed[n].status = "Interrupted"
  <2>1. CASE n \in DOMAIN j.closed BY <1>1, <1>3, <1>5, <2>1 DEF Books
  <2>2. CASE n = j.runs BY <1>1, <1>2, <1>3, <1>5, <2>2 DEF Uninterrupted
  <2>3. QED BY <1>3, <2>1, <2>2
<1>6. \A i \in k.interrupts : i.run \in 1..k.runs /\ i.run # NoRun
  BY <1>1, <1>2 DEF Books, NoRun
<1> HIDE DEF k
<1>7. Books(k) /\ Uninterrupted(k) BY <1>1, <1>3, <1>4, <1>5, <1>6 DEF Books, Uninterrupted
<1>8. QED BY <1>1, <1>7 DEF k

\* An accepted interrupt is the open run's, and recovery will find it pending.
LEMMA InterruptBooks ==
  ASSUME NEW j \in JournalType, Books(j), j.run # NoRun, NEW target
  PROVE  /\ Books(InterruptAccepted(j, target))
         /\ InterruptAccepted(j, target).run = j.run
<1> DEFINE k == InterruptAccepted(j, target)
<1>1. /\ k.run = j.run /\ k.runs = j.runs /\ k.closed = j.closed
      /\ k.interrupts = j.interrupts \cup {[run |-> j.run, target |-> target]}
      /\ k.interruptRun = j.run
  BY DEF InterruptAccepted, JournalType
<1>2. j.runs \in Nat /\ j.run \in Nat /\ j.run \in 1..j.runs
      /\ Len(j.closed) = j.runs - 1 /\ DOMAIN j.closed = 1..Len(j.closed)
  BY DEF JournalType, Books, NoRun
<1>3. \A n \in DOMAIN j.closed : j.closed[n].run # j.run BY <1>2 DEF Books
<1>4. \A i \in k.interrupts : i \in j.interrupts \/ i.run = j.run BY <1>1
<1> HIDE DEF k
<1>5. Books(k) BY <1>1, <1>2, <1>3, <1>4 DEF Books
<1>6. QED BY <1>1, <1>5 DEF k

\* finishInterrupt's batch closes the open run as interrupted.
LEMMA InterruptBatchBooks ==
  ASSUME TypeInv, Books(journal), journal.run # NoRun, NEW m, MemOK(m), NEW used \in Nat,
         used >= m.last
  PROVE  /\ Books(InterruptBatch(m, used))
         /\ Uninterrupted(InterruptBatch(m, used))
         /\ InterruptBatch(m, used).run = NoRun
<1> DEFINE f == FrontierClosed(journal)
           c == Charged(f, m, used)
           q == QueueCancelled(c, RunScopedIds(m.queue))
<1>1. JournalOK(f)
  <2>1. f \in JournalType BY FrontierClosedType DEF TypeInv, JournalOK
  <2>2. f.run = journal.run /\ f.last = journal.last /\ f.usage = journal.usage
    BY DEF TypeInv, JournalOK, FrontierClosed, JournalType
  <2>3. QED BY <2>1, <2>2, CountersKept DEF TypeInv
<1>2. f \in JournalType /\ c \in JournalType BY <1>1, ChargedOK DEF JournalOK
<1>3. RunScopedIds(m.queue) \in SUBSET Inputs
  BY IdsAreInputs DEF RunScopedIds, OfKind, MemOK, MemType
<1>4. q \in JournalType BY <1>2, <1>3, QueueCancelledType
<1>5. SameBooks(journal, f) /\ SameBooks(f, c) /\ SameBooks(c, q)
  BY <1>2, RepairBooks, ChargedBooks, QueueBooks DEF TypeInv, JournalOK
<1> HIDE DEF f, c, q
<1>6. SameBooks(journal, q) BY <1>5, SameBooksTransitive
<1>7. Books(q) /\ q.run # NoRun BY <1>6, BooksKept DEF SameBooks
<1>8. /\ Books(RunClosed(q, "Interrupted"))
      /\ Uninterrupted(RunClosed(q, "Interrupted"))
      /\ RunClosed(q, "Interrupted").run = NoRun
  BY <1>4, <1>7, ClosedBooks
<1>9. QED BY <1>8 DEF InterruptBatch, q, c, f

-----------------------------------------------------------------------------
\* A handle that faults keeps the invariant when the books of the journal hold.
LEMMA FaultedCoherent ==
  ASSUME state' = "Faulted", Books(journal)'
  PROVE  Coherent'
BY DEF Coherent, GoneIsQuiet, ClosedIsUnlocked, LiveRun, Attached, Busy

\* So does a failed append: the batch may have landed.
LEMMA AppendErrorCoherent ==
  ASSUME Coherent, NEW j, lock => Books(j), AppendError(j)
  PROVE  Coherent'
<1>1. Books(journal)' BY DEF AppendError, Coherent, Books
<1>2. QED BY <1>1, FaultedCoherent DEF AppendError

\* A batch that settles the run leaves an idle handle.
LEMMA SettledCoherent ==
  ASSUME state' = "Idle", mem'.run = NoRun, Books(journal)', journal'.run = NoRun,
         Uninterrupted(journal)', drv'.pc = "none", ~settler'
  PROVE  Coherent'
BY DEF Coherent, GoneIsQuiet, ClosedIsUnlocked, LiveRun

\* A driver that is not gone and writes has a handle whose run is open, and no
\* goroutine settles that run beside it.
LEMMA DrivenRun ==
  ASSUME TypeInv, Coherent, ~At("none"), lock, state # "Faulted"
  PROVE  /\ state \in Busy /\ mem.run = journal.run /\ journal.run # NoRun /\ ~settler
         /\ state # "Interrupting" => Uninterrupted(journal)
BY DEF TypeInv, Coherent, GoneIsQuiet, ClosedIsUnlocked, LiveRun, Attached, Busy, States, At

\* A step of the driver that changes neither state nor journal keeps the
\* invariant: the driver was there before.
LEMMA LoopCoherent ==
  ASSUME Coherent, ~At("none"), UNCHANGED <<state, journal, settler, lock>>,
         mem'.run = mem.run
  PROVE  Coherent'
BY DEF Coherent, GoneIsQuiet, ClosedIsUnlocked, LiveRun, Books, Uninterrupted, At

\* An event that leaves the books alone keeps it.
LEMMA EmitCoherent ==
  ASSUME TypeInv, Coherent, ~At("none"), NEW j, SameBooks(journal, j), NEW m,
         m.run = mem.run, NEW d, Emit(j, m, d)
  PROVE  Coherent'
<1>1. Books(journal) BY DEF Coherent
<1>2. Books(j) /\ (Uninterrupted(journal) => Uninterrupted(j)) /\ j.run = journal.run
  BY <1>1, BooksKept DEF SameBooks
<1>3. CASE state = "Faulted" /\ Outcome("Failed") /\ UNCHANGED <<state, mem, journal>>
  BY <1>1, <1>3, FaultedCoherent DEF Books
<1>4. CASE state # "Faulted" /\ Commit(j, m, state) /\ drv' = d
  <2>1. /\ state \in Busy /\ mem.run = journal.run /\ journal.run # NoRun /\ ~settler
        /\ state # "Interrupting" => Uninterrupted(journal)
    BY <1>4, DrivenRun DEF Commit
  <2>2. journal' = j /\ mem' = m /\ state' = state /\ UNCHANGED <<settler, lock>>
    BY <1>4 DEF Commit, Emit, Undriven
  <2>3. Books(journal)' /\ (Uninterrupted(journal) => Uninterrupted(journal)')
    BY <1>2, <2>2 DEF Books, Uninterrupted
  <2>4. LiveRun' BY <1>2, <2>1, <2>2, <2>3 DEF LiveRun, Busy
  <2>5. QED BY <2>1, <2>2, <2>3, <2>4 DEF Coherent, GoneIsQuiet, ClosedIsUnlocked, Busy
<1>5. CASE AppendError(j) BY <1>2, <1>5, AppendErrorCoherent
<1>6. QED BY <1>3, <1>4, <1>5 DEF Emit

\* Steps of the loop and of the hook keep it.
LEMMA DriverCoherent ==
  ASSUME TypeInv, Coherent, Driver
  PROVE  Coherent'
<1>1. journal \in JournalType /\ mem \in MemType BY DEF TypeInv, JournalOK, MemOK
<1>2. CASE \/ Launch \/ ResumeFails \/ ResolveSuspended \/ StartFails \/ BeginTurn
           \/ ModelFails \/ CandidateValid \/ GateDefers \/ GateAdmits \/ GateFails
           \/ ToolsReturn \/ HandlerDefers \/ HookRefuses
  <2>1. ~At("none") /\ UNCHANGED <<state, mem, journal, settler, lock>> BY <1>2
    DEF Launch, ResumeFails, ResolveSuspended, StartFails, BeginTurn, ModelFails,
        CandidateValid, GateDefers, GateAdmits, GateFails, ToolsReturn, HandlerDefers,
        HookRefuses, Loop, Leave, Undriven, At
  <2>2. QED BY <2>1, LoopCoherent
<1>3. CASE StartRun
  <2>1. [mem EXCEPT !.seen = @ \/ mem.resuming].run = mem.run BY <1>1 DEF MemType
  <2>2. QED BY <1>1, <1>3, <2>1, EventBooks, EmitCoherent DEF StartRun, At
<1>4. ASSUME NEW n \in 0..Cardinality(Calls), ModelAnswers(n)
      PROVE  Coherent'
  <2> DEFINE calls == (journal.calls + 1)..(journal.calls + n)
  <2>1. [mem EXCEPT !.open = calls, !.tail = "assistant"].run = mem.run BY <1>1 DEF MemType
  <2>2. QED BY <1>1, <1>4, <2>1, EventBooks, EmitCoherent DEF ModelAnswers, At
<1>5. CASE CandidateInvalid
  <2>1. [mem EXCEPT !.tail = "user", !.inject = {}].run = mem.run BY <1>1 DEF MemType
  <2>2. QED BY <1>1, <1>5, <2>1, EventBooks, EmitCoherent DEF CandidateInvalid, At
<1>6. CASE StartTool
  <2>1. PICK c \in drv.todo :
          Emit(ToolStarted(journal, c), [mem EXCEPT !.started = @ \cup {c}],
               [drv EXCEPT !.todo = @ \ {c}])
    BY <1>6 DEF StartTool
  <2>2. [mem EXCEPT !.started = @ \cup {c}].run = mem.run BY <1>1 DEF MemType
  <2>3. QED BY <1>1, <1>6, <2>1, <2>2, EventBooks, EmitCoherent DEF StartTool, At
<1>7. CASE CommitResult
  <2>1. CASE Loop("ended") BY <1>7, <2>1, LoopCoherent DEF CommitResult, Loop, Undriven, At
  <2>2. ASSUME NEW c \in mem.open,
               Emit(ToolResult(journal, c),
                    [mem EXCEPT !.open = @ \ {c}, !.tail = "tool"], drv)
        PROVE  Coherent'
    <3>1. [mem EXCEPT !.open = @ \ {c}, !.tail = "tool"].run = mem.run BY <1>1 DEF MemType
    <3>2. QED BY <1>1, <1>7, <2>2, <3>1, EventBooks, EmitCoherent DEF CommitResult, At
  <2>3. QED BY <1>7, <2>1, <2>2 DEF CommitResult
<1>8. CASE EndTurn
  <2>1. [mem EXCEPT !.usage = @ + Delta, !.last = drv.used].run = mem.run
    BY <1>1 DEF MemType
  <2>2. QED BY <1>1, <1>8, <2>1, EventBooks, EmitCoherent DEF EndTurn, At
<1>9. CASE InjectMessages
  <2>1. [mem EXCEPT !.applied = Into(@, Ids(mem.inject), mem.run),
                    !.tail = "user", !.inject = {}].run = mem.run
    BY <1>1 DEF MemType
  <2>2. QED BY <1>1, <1>9, <2>1, QueueBooks, EmitCoherent DEF InjectMessages, At
<1>10. CASE CompleteRun BY <1>1, <1>10, EventBooks, EmitCoherent DEF CompleteRun, At
<1>11. CASE SuspendRun
  <2> DEFINE susp == [kind |-> drv.kind, id |-> journal.susps + 1, used |-> drv.used]
  <2>1. [mem EXCEPT !.susp = susp].run = mem.run BY <1>1 DEF MemType
  <2>2. QED BY <1>1, <1>11, <2>1, EventBooks, EmitCoherent DEF SuspendRun, At
<1>12. CASE HookEnds
  <2>1. /\ state \in {"Running"} /\ state' \in {"Running", "Closing"} /\ ~At("none")
        /\ UNCHANGED <<mem, journal, settler, lock>>
    BY <1>12 DEF HookEnds, Undriven, At
  <2>2. QED
    BY <2>1 DEF Coherent, GoneIsQuiet, ClosedIsUnlocked, LiveRun, Books, Uninterrupted,
                Attached, Busy
<1>13. CASE HookInjects
  <2> DEFINE j == QueueDrained(journal, Ids(Boundary))
             m == [mem EXCEPT !.queue = Without(@, Ids(Boundary)), !.inject = Boundary]
  <2>1. m.run = mem.run /\ SameBooks(journal, j) BY <1>1, QueueBooks DEF MemType
  <2>2. Books(j) /\ j.run = journal.run /\ (Uninterrupted(journal) => Uninterrupted(j))
    BY <2>1, BooksKept DEF Coherent, SameBooks
  <2>3. /\ \/ Commit(j, m, state)
           \/ AppendError(j)
        /\ ~At("none") /\ state = "Running" /\ UNCHANGED <<settler, lock>>
    BY <1>13 DEF HookInjects, Undriven, At
  <2> HIDE DEF j, m
  <2>4. CASE AppendError(j) BY <2>2, <2>4, AppendErrorCoherent
  <2>5. CASE Commit(j, m, state)
    <3>1. /\ journal' = j /\ mem' = m /\ state' = "Running" /\ ~settler
          /\ mem.run = journal.run /\ journal.run # NoRun /\ Uninterrupted(journal)
      BY <2>3, <2>5, DrivenRun DEF Commit
    <3>2. Books(journal)' /\ Uninterrupted(journal)' BY <2>2, <3>1 DEF Books, Uninterrupted
    <3>3. QED
      BY <2>1, <2>2, <2>3, <3>1, <3>2
      DEF Coherent, GoneIsQuiet, ClosedIsUnlocked, LiveRun
  <2>6. QED BY <2>3, <2>4, <2>5
<1>14. QED
  BY <1>2, <1>3, <1>4, <1>5, <1>6, <1>7, <1>8, <1>9, <1>10, <1>11, <1>12, <1>13 DEF Driver

\* finishInterrupt settles the run of a live handle.
LEMMA FinishInterruptCoherent ==
  ASSUME TypeInv, Coherent, NEW used \in Nat, used >= mem.last, FinishInterrupt(used),
         lock => journal.run # NoRun, drv'.pc = "none", ~settler'
  PROVE  Coherent'
<1> DEFINE j == InterruptBatch(mem, used)
           m == AfterInterrupt(mem, used)
<1>1. lock => Books(j) /\ Uninterrupted(j) /\ j.run = NoRun
  BY InterruptBatchBooks DEF Coherent, TypeInv
<1>2. m.run = NoRun
  <2>1. mem \in MemType BY DEF TypeInv, MemOK
  <2>2. Detached(mem) \in MemType /\ Detached(mem).run = NoRun
    <3>1. NewRun(mem, NoRun, 0) \in MemType /\ NewRun(mem, NoRun, 0).run = NoRun
      BY <2>1, NewRunType DEF NoRun, NewRun, MemType
    <3>2. Detached(mem).run = NewRun(mem, NoRun, 0).run BY <3>1 DEF Detached, MemType
    <3>3. QED BY <2>1, <3>1, <3>2, DetachedType
  <2>3. QED BY <2>2 DEF AfterInterrupt, MemType
<1>3. Commit(j, m, "Idle") \/ AppendError(j) BY DEF FinishInterrupt
<1> HIDE DEF j, m
<1>4. CASE AppendError(j) BY <1>1, <1>4, AppendErrorCoherent
<1>5. CASE Commit(j, m, "Idle")
  <2>1. /\ state' = "Idle" /\ mem'.run = NoRun /\ journal' = j
        /\ Books(j) /\ Uninterrupted(j) /\ j.run = NoRun
    BY <1>1, <1>2, <1>5 DEF Commit
  <2>2. Books(journal)' /\ journal'.run = NoRun /\ Uninterrupted(journal)'
    BY <2>1 DEF Books, Uninterrupted
  <2>3. QED BY <2>1, <2>2, SettledCoherent
<1>6. QED BY <1>3, <1>4, <1>5

\* Settling a drive keeps the invariant.
LEMMA FinishCoherent ==
  ASSUME TypeInv, Coherent, Finish
  PROVE  Coherent'
<1>1. /\ journal \in JournalType /\ JournalOK(journal) /\ mem \in MemType /\ MemOK(mem)
      /\ Books(journal) /\ state \in States
  BY DEF TypeInv, JournalOK, MemOK, Coherent
<1>2. ~At("none") /\ UNCHANGED <<settler, lock>>
  BY DEF Finish, FinishFaulted, FinishInterrupted, FinishBounced, FinishUnusable,
         FinishSuspended, FinishClosed, SettleInterrupt, Settling, Loop, Undriven, At
<1>3. /\ state # "Down"
      /\ lock /\ state # "Faulted" =>
           /\ state \in Busy /\ mem.run = journal.run /\ journal.run # NoRun /\ ~settler
           /\ state # "Interrupting" => Uninterrupted(journal)
  BY <1>2, DrivenRun DEF Coherent, GoneIsQuiet, At
<1>4. PersistFault => Coherent'
  <2>1. Books(FaultRecorded(journal)) BY <1>1, RepairBooks, BooksKept
  <2>2. ASSUME PersistFault PROVE Books(journal)' /\ state' = "Faulted"
    BY <1>1, <2>1, <2>2 DEF PersistFault, Books
  <2>3. QED BY <2>2, FaultedCoherent
<1>5. CASE FinishFaulted BY <1>1, <1>5, FaultedCoherent DEF FinishFaulted, Books
<1>6. CASE FinishInterrupted
  BY <1>2, <1>6, LoopCoherent DEF FinishInterrupted, Loop, Undriven
<1>7. CASE FinishBounced
  <2>1. [mem EXCEPT !.resuming = FALSE].run = mem.run BY <1>1 DEF MemType
  <2>2. /\ state' = "Suspended" /\ mem'.run = mem.run /\ drv'.pc = "none"
        /\ journal' = journal /\ state # "Faulted" /\ state # "Interrupting"
    BY <1>7, <2>1 DEF FinishBounced, Settling, Finished, NoDriver
  <2>3. Books(journal)' /\ (Uninterrupted(journal) => Uninterrupted(journal)')
    BY <1>1, <2>2 DEF Books, Uninterrupted
  <2>4. QED BY <1>2, <1>3, <2>2, <2>3
    DEF Coherent, GoneIsQuiet, ClosedIsUnlocked, LiveRun
<1>8. CASE FinishUnusable BY <1>4, <1>8 DEF FinishUnusable
<1>9. CASE FinishSuspended
  <2> DEFINE j == Charged(journal, mem, drv.used)
             m == [mem EXCEPT !.usage = @ + (drv.used - mem.last), !.last = drv.used,
                              !.resuming = FALSE]
  <2>1. m.run = mem.run /\ SameBooks(journal, j) BY <1>1, ChargedBooks DEF MemType
  <2>2. Books(j) /\ j.run = journal.run /\ (Uninterrupted(journal) => Uninterrupted(j))
    BY <1>1, <2>1, BooksKept DEF SameBooks
  <2>3. /\ \/ journal' \in {journal, j} /\ mem' = m /\ state' = "Suspended"
           \/ AppendError(j)
        /\ drv'.pc = "none" /\ state # "Faulted" /\ state # "Interrupting"
    BY <1>9 DEF FinishSuspended, Settling, Finished, NoDriver
  <2> HIDE DEF j, m
  <2>4. CASE AppendError(j) BY <2>2, <2>4, AppendErrorCoherent
  <2>5. CASE journal' \in {journal, j} /\ mem' = m /\ state' = "Suspended"
    <3>1. /\ Books(journal)' /\ (Uninterrupted(journal) => Uninterrupted(journal)')
          /\ journal'.run = journal.run
      BY <1>1, <2>2, <2>5 DEF Books, Uninterrupted
    <3>2. QED
      BY <1>2, <1>3, <2>1, <2>3, <2>5, <3>1
      DEF Coherent, GoneIsQuiet, ClosedIsUnlocked, LiveRun
  <2>6. QED BY <2>3, <2>4, <2>5
<1>10. CASE FinishClosed
  <2> DEFINE status  == IF drv.outcome = "Completed" THEN "Completed" ELSE "Failed"
             cancels == IF status = "Completed" THEN {} ELSE RunScopedIds(mem.queue)
             c == Charged(journal, mem, Used(mem))
             q == QueueCancelled(c, cancels)
             j == RunClosed(q, status)
             m == [Detached(mem) EXCEPT !.usage = @ + (Used(mem) - mem.last),
                                        !.queue = Without(@, cancels)]
  <2>1. c \in JournalType BY <1>1, <1>10, ChargedOK, UsedType DEF FinishClosed, JournalOK
  <2>2. cancels \in SUBSET Inputs BY <1>1, IdsAreInputs DEF RunScopedIds, OfKind, MemType
  <2>3. status \in {"Completed", "Failed", "Interrupted"}
    OBVIOUS
  <2>4. /\ Commit(j, m, "Idle") \/ AppendError(j)
        /\ drv'.pc = "none" /\ state # "Faulted" /\ state # "Interrupting"
    BY <1>10 DEF FinishClosed, Settling, Finished, NoDriver
  <2> HIDE DEF status, cancels
  <2>5. q \in JournalType /\ SameBooks(journal, c) /\ SameBooks(c, q)
    BY <1>1, <2>1, <2>2, QueueCancelledType, ChargedBooks, QueueBooks
  <2>6. m.run = NoRun
    <3>1. NewRun(mem, NoRun, 0) \in MemType /\ NewRun(mem, NoRun, 0).run = NoRun
      BY <1>1, NewRunType DEF NoRun, NewRun, MemType
    <3>2. Detached(mem) \in MemType /\ Detached(mem).run = NoRun
      BY <1>1, <3>1, DetachedType DEF Detached, MemType
    <3>3. QED BY <3>2 DEF MemType
  <2> HIDE DEF c, q
  <2>7. lock => Books(j) /\ Uninterrupted(j) /\ j.run = NoRun
    <3>1. SameBooks(journal, q) BY <2>5, SameBooksTransitive
    <3>2. /\ Books(q) /\ q.run = journal.run
          /\ (Uninterrupted(journal) => Uninterrupted(q))
      BY <1>1, <3>1, BooksKept DEF SameBooks
    <3>3. QED BY <1>3, <2>3, <2>4, <2>5, <3>2, ClosedBooks
  <2> HIDE DEF j, m
  <2>8. CASE AppendError(j) BY <2>7, <2>8, AppendErrorCoherent
  <2>9. CASE Commit(j, m, "Idle")
    <3>1. /\ state' = "Idle" /\ mem'.run = NoRun /\ journal' = j /\ ~settler'
          /\ Books(j) /\ Uninterrupted(j) /\ j.run = NoRun
      BY <1>2, <1>3, <2>4, <2>6, <2>7, <2>9 DEF Commit
    <3>2. Books(journal)' /\ journal'.run = NoRun /\ Uninterrupted(journal)'
      BY <3>1 DEF Books, Uninterrupted
    <3>3. QED BY <2>4, <3>1, <3>2, SettledCoherent
  <2>10. QED BY <2>4, <2>8, <2>9
<1>11. CASE SettleInterrupt
  <2>1. drv'.pc = "none" BY <1>11 DEF SettleInterrupt, Finished, NoDriver
  <2>2. CASE NothingToInterrupt
    <3>1. state = "Faulted" \/ ~lock BY <1>3, <2>2 DEF NothingToInterrupt
    <3>2. Books(journal)' BY <1>1, <2>2 DEF NothingToInterrupt, Books
    <3>3. QED
      BY <1>2, <1>3, <2>1, <2>2, <3>1, <3>2
      DEF NothingToInterrupt, Coherent, GoneIsQuiet, ClosedIsUnlocked, LiveRun, Attached, Busy
  <2>3. CASE Used(mem) >= mem.last /\ FinishInterrupt(Used(mem))
    <3>1. lock => ~settler' /\ journal.run # NoRun BY <1>2, <1>3, <2>3 DEF FinishInterrupt
    <3>2. CASE lock BY <2>1, <2>3, <3>1, <3>2, UsedType, FinishInterruptCoherent
    <3>3. CASE ~lock BY <2>3, <3>3, AppendErrorCoherent DEF FinishInterrupt, Commit
    <3>4. QED BY <3>2, <3>3
  <2>4. CASE PersistFault BY <1>4, <2>4
  <2>5. QED BY <1>11, <2>2, <2>3, <2>4 DEF SettleInterrupt
<1>12. QED BY <1>5, <1>6, <1>7, <1>8, <1>9, <1>10, <1>11 DEF Finish

\* So does the goroutine that settles an interrupted suspension.
LEMMA SettleSuspendedCoherent ==
  ASSUME TypeInv, Coherent, SettleSuspended
  PROVE  Coherent'
<1>1. /\ settler /\ ~settler' /\ UNCHANGED <<drv, lock>> /\ state # "Down"
      /\ mem.last \in Nat /\ Books(journal)
  BY DEF SettleSuspended, Coherent, GoneIsQuiet, TypeInv, MemOK, MemType
<1>2. lock /\ state \in Attached =>
        /\ state = "Interrupting" /\ drv.pc = "none"
        /\ mem.run = journal.run /\ journal.run # NoRun
  BY <1>1 DEF Coherent, LiveRun
<1>3. CASE NothingToInterrupt
  <2>1. ~(lock /\ state \in Attached) BY <1>2, <1>3 DEF NothingToInterrupt, Attached, Busy
  <2>2. Books(journal)' /\ state' = state BY <1>1, <1>3 DEF NothingToInterrupt, Books
  <2>3. QED BY <1>1, <2>1, <2>2 DEF Coherent, GoneIsQuiet, ClosedIsUnlocked, LiveRun
<1>4. CASE FinishInterrupt(mem.last)
  <2>1. CASE lock
    <3>1. state \in Attached
      BY <1>1, <1>4, <2>1
      DEF FinishInterrupt, Coherent, ClosedIsUnlocked, TypeInv, States, Attached, Busy
    <3>2. QED BY <1>1, <1>2, <1>4, <2>1, <3>1, FinishInterruptCoherent
  <2>2. CASE ~lock BY <1>4, <2>2, AppendErrorCoherent DEF FinishInterrupt, Commit
  <2>3. QED BY <2>1, <2>2
<1>5. QED BY <1>3, <1>4 DEF SettleSuspended

\* A batch that opens a run leaves a running handle.
LEMMA OpenedCoherent ==
  ASSUME state' = "Running", mem'.run = journal'.run, journal'.run # NoRun,
         Books(journal)', Uninterrupted(journal)', ~settler'
  PROVE  Coherent'
BY DEF Coherent, GoneIsQuiet, ClosedIsUnlocked, LiveRun

\* Client calls keep the invariant.
LEMMA ClientCoherent ==
  ASSUME TypeInv, Coherent, Client
  PROVE  Coherent'
<1>1. /\ mem \in MemType /\ mem.usage \in Nat /\ JournalOK(journal) /\ journal \in JournalType
      /\ journal.runs \in Nat /\ Books(journal)
  BY DEF TypeInv, MemOK, MemType, JournalOK, JournalType, Coherent
<1>2. lock /\ state \in Attached =>
        /\ mem.run = journal.run
        /\ state = "Idle" <=> journal.run = NoRun
        /\ state \in {"Idle", "Suspended"} => drv.pc = "none"
        /\ settler => drv.pc = "none"
        /\ state # "Interrupting" => Uninterrupted(journal) /\ ~settler
  BY DEF Coherent, LiveRun
<1>3. CASE Start
  <2> DEFINE run    == journal.runs + 1
             limit  == Remaining(mem.usage)
             next   == OfKind(mem.queue, {"next_turn"})
             opened == RunOpened(journal, run, limit)
             drains == QueueDrained(opened, Ids(next))
             got    == InputsApplied(drains, next)
             j      == UserMessage(got)
             n      == NewRun(mem, run, limit)
             m      == [n EXCEPT !.queue = Without(@, Ids(next)), !.tail = "user",
                                 !.applied = Into(@, Ids(next), run)]
  <2>1. limit \in Nat /\ run \in Nat \ {NoRun} /\ run \in Nat /\ state = "Idle"
    BY <1>1, <1>3, RemainingType DEF Start, NoRun
  <2>2. n \in MemType /\ n.run = run BY <1>1, <2>1, NewRunType DEF NewRun, MemType
  <2>3. /\ Commit(j, m, "Running") \/ AppendError(j)
        /\ UNCHANGED <<settler, lock>>
    BY <1>3 DEF Start, Unclient
  <2>4. SameBooks(opened, j)
    <3>1. opened \in JournalType /\ drains \in JournalType /\ got \in JournalType
      BY <1>1, <2>1, RunOpenedType, QueueDrainedType, InputsAppliedType
    <3> HIDE DEF opened, next
    <3>2. SameBooks(opened, drains) /\ SameBooks(drains, got) /\ SameBooks(got, j)
      BY <3>1, QueueBooks, EventBooks
    <3>3. QED BY <3>2, SameBooksTransitive
  <2>5. m.run = run BY <2>2 DEF MemType
  <2> HIDE DEF m, j
  <2>6. lock => Books(j) /\ Uninterrupted(j) /\ j.run = run
    <3>1. lock => Books(opened) /\ Uninterrupted(opened) /\ opened.run = run
      BY <1>1, <1>2, <2>1, OpenedBooks DEF Attached
    <3>2. QED BY <2>4, <3>1, BooksKept DEF SameBooks
  <2>7. CASE AppendError(j) BY <2>6, <2>7, AppendErrorCoherent
  <2>8. CASE Commit(j, m, "Running")
    <3>1. /\ state' = "Running" /\ mem'.run = run /\ journal' = j /\ ~settler'
          /\ Books(j) /\ Uninterrupted(j) /\ j.run = run
      BY <1>2, <2>1, <2>3, <2>5, <2>6, <2>8 DEF Commit, Attached
    <3>2. Books(journal)' /\ Uninterrupted(journal)' BY <3>1 DEF Books, Uninterrupted
    <3>3. QED BY <2>1, <3>1, <3>2, OpenedCoherent
  <2>9. QED BY <2>3, <2>7, <2>8
<1>4. ASSUME NEW id \in Inputs, NEW kind \in QueueKinds, NEW target \in 0..MaxRuns,
             Accept(id, kind, target)
      PROVE  Coherent'
  <2> DEFINE entry == [id |-> id, kind |-> kind, at |-> Len(journal.accepted) + 1]
             j == QueueAccepted(journal, entry, target)
             m == [mem EXCEPT !.queue = @ \cup {entry}]
  <2>1. /\ Commit(j, m, state) \/ AppendError(j)
        /\ state \in Attached /\ UNCHANGED <<drv, settler, lock>>
    BY <1>4 DEF Accept, Acceptable, Unclient
  <2>2. SameBooks(journal, j) /\ m.run = mem.run BY <1>1, QueueBooks DEF MemType
  <2> HIDE DEF j, m
  <2>3. Books(j) /\ j.run = journal.run /\ (Uninterrupted(journal) => Uninterrupted(j))
    BY <1>1, <2>2, BooksKept DEF SameBooks
  <2>4. CASE AppendError(j) BY <2>3, <2>4, AppendErrorCoherent
  <2>5. CASE Commit(j, m, state)
    <3>1. /\ Books(journal)' /\ (Uninterrupted(journal) => Uninterrupted(journal)')
          /\ journal'.run = journal.run /\ mem'.run = mem.run /\ state' = state /\ lock
      BY <2>2, <2>3, <2>5 DEF Commit, Books, Uninterrupted
    <3>2. QED
      BY <1>2, <2>1, <3>1
      DEF Coherent, GoneIsQuiet, ClosedIsUnlocked, LiveRun
  <2>6. QED BY <2>1, <2>4, <2>5
<1>5. ASSUME NEW target \in 0..MaxRuns, Interrupt(target)
      PROVE  Coherent'
  <2> DEFINE j == InterruptAccepted(journal, target)
  <2>1. /\ state \in Attached /\ state # "Idle" /\ state # "Faulted" /\ state # "Down"
        /\ UNCHANGED <<drv, lock>>
    BY <1>5 DEF Interrupt, Attached, Busy
  <2>2. lock => Books(j) /\ j.run = journal.run BY <1>1, <1>2, <2>1, InterruptBooks
  <2>3. \/ AppendError(j)
        \/ /\ \/ Commit(j, mem, "Interrupting")
              \/ state' = "Interrupting" /\ UNCHANGED <<mem, journal>>
           /\ settler' = (settler \/ state = "Suspended")
    BY <1>5 DEF Interrupt
  <2> HIDE DEF j
  <2>4. CASE AppendError(j) BY <2>2, <2>4, AppendErrorCoherent
  <2>5. ASSUME \/ Commit(j, mem, "Interrupting")
               \/ state' = "Interrupting" /\ UNCHANGED <<mem, journal>>,
               settler' = (settler \/ state = "Suspended")
        PROVE  Coherent'
    <3>1. /\ Books(journal)' /\ journal'.run = journal.run /\ mem'.run = mem.run
          /\ state' = "Interrupting"
      BY <1>1, <2>2, <2>5 DEF Commit, Books
    <3>2. QED
      BY <1>2, <2>1, <2>5, <3>1
      DEF Coherent, GoneIsQuiet, ClosedIsUnlocked, LiveRun
  <2>6. QED BY <2>3, <2>4, <2>5
<1>6. ASSUME NEW id, NEW approved, Resume(id, approved)
      PROVE  Coherent'
  <2> DEFINE m == [mem EXCEPT !.resuming = TRUE, !.seen = FALSE]
  <2>1. /\ Commit(journal, m, "Running") \/ AppendError(journal)
        /\ state = "Suspended" /\ UNCHANGED <<settler, lock>>
    BY <1>6 DEF Resume, Resumable, Unclient
  <2>2. m.run = mem.run BY <1>1 DEF MemType
  <2> HIDE DEF m
  <2>3. CASE AppendError(journal) BY <1>1, <2>3, AppendErrorCoherent
  <2>4. CASE Commit(journal, m, "Running")
    <3>1. /\ mem'.run = journal'.run /\ journal'.run # NoRun /\ state' = "Running"
          /\ ~settler' /\ Books(journal)' /\ Uninterrupted(journal)'
      BY <1>1, <1>2, <2>1, <2>2, <2>4 DEF Commit, Attached, Books, Uninterrupted
    <3>2. QED BY <3>1, OpenedCoherent
  <2>5. QED BY <2>1, <2>3, <2>4
<1>7. ASSUME NEW id, ResumeIndeterminate(id)
      PROVE  Coherent'
  <2> DEFINE run    == journal.runs + 1
             limit  == Remaining(mem.usage)
             closed == RunClosed(journal, "Interrupted")
             paired == FrontierClosed(closed)
             j      == RunOpened(paired, run, limit)
             n      == NewRun(mem, run, limit)
             m      == [n EXCEPT !.open = {}, !.tail = IF mem.open = {} THEN @ ELSE "tool",
                                 !.susp = NoSuspension]
  <2>1. limit \in Nat /\ run \in Nat \ {NoRun} /\ run \in Nat /\ state = "Suspended"
    BY <1>1, <1>7, RemainingType DEF ResumeIndeterminate, Resumable, NoRun
  <2>2. n \in MemType /\ n.run = run BY <1>1, <2>1, NewRunType DEF NewRun, MemType
  <2>3. /\ Commit(j, m, "Running") \/ AppendError(j)
        /\ UNCHANGED <<settler, lock>>
    BY <1>7 DEF ResumeIndeterminate, Unclient
  <2>4. m.run = run BY <2>2 DEF MemType
  <2>5. closed \in JournalType /\ paired \in JournalType
    BY <1>1, RunClosedType, FrontierClosedType
  <2>6. lock => /\ Books(closed) /\ closed.run = NoRun /\ closed.runs = journal.runs
    BY <1>1, <1>2, <2>1, ClosedBooks DEF Attached
  <2>7. SameBooks(closed, paired) BY <2>5, RepairBooks
  <2> HIDE DEF m, closed, paired
  <2>8. lock => Books(paired) /\ paired.run = NoRun /\ paired.runs = journal.runs
    BY <2>6, <2>7, BooksKept DEF SameBooks
  <2>9. lock => Books(j) /\ Uninterrupted(j) /\ j.run = run BY <2>1, <2>5, <2>8, OpenedBooks
  <2> HIDE DEF j
  <2>10. CASE AppendError(j) BY <2>9, <2>10, AppendErrorCoherent
  <2>11. CASE Commit(j, m, "Running")
    <3>1. /\ state' = "Running" /\ mem'.run = run /\ journal' = j /\ ~settler'
          /\ Books(j) /\ Uninterrupted(j) /\ j.run = run
      BY <1>2, <2>1, <2>3, <2>4, <2>9, <2>11 DEF Commit, Attached
    <3>2. Books(journal)' /\ Uninterrupted(journal)' BY <3>1 DEF Books, Uninterrupted
    <3>3. QED BY <2>1, <3>1, <3>2, OpenedCoherent
  <2>12. QED BY <2>3, <2>10, <2>11
<1>8. QED BY <1>3, <1>4, <1>5, <1>6, <1>7 DEF Client

\* Closing, abandoning or losing a handle keeps it.
LEMMA OwnerCoherent ==
  ASSUME Coherent, Owner
  PROVE  Coherent'
<1>1. Books(journal)' BY DEF Owner, Abandon, Close, Drop, Crash, NoHandle, Coherent, Books
<1>2. CASE Abandon BY <1>1, <1>2, FaultedCoherent DEF Abandon
<1>3. CASE Close BY <1>1, <1>3
  DEF Close, Coherent, GoneIsQuiet, ClosedIsUnlocked, LiveRun, Attached, Busy
<1>4. CASE Drop \/ Crash BY <1>1, <1>4
  DEF Drop, Crash, NoHandle, NoDriver, Coherent, GoneIsQuiet, ClosedIsUnlocked, LiveRun,
      Attached, Busy
<1>5. QED BY <1>2, <1>3, <1>4 DEF Owner

\* A recovered handle agrees with the journal it was folded from, and takes a run
\* with a recorded interrupt to its end.
LEMMA RecoverCoherent ==
  ASSUME TypeInv, Coherent, Recover
  PROVE  Coherent'
<1>1. /\ journal \in JournalType /\ JournalOK(journal) /\ journal.last \in Nat
      /\ journal.usage \in Nat /\ journal.run \in Nat /\ Books(journal)
      /\ Folded \in MemType /\ MemOK(Folded)
      /\ Folded.run = journal.run /\ Folded.last = journal.last
  BY LoadedOK DEF TypeInv, JournalOK, JournalType, Coherent, Folded, Loaded, MemOK
<1>2. state = "Down" /\ ~settler /\ drv.pc = "none" /\ ~lock
  BY DEF Recover, RecoverInterrupted, RecoverCompleted, RecoverIdle, RecoverSuspended,
         RecoverInject, RecoverIndeterminate, RecoverContinue, RecoverOpenRun, Recovering,
         Coherent, GoneIsQuiet
<1>3. journal.run # NoRun /\ ~InterruptPending => Uninterrupted(journal)
  BY <1>1 DEF InterruptPending, Books, Uninterrupted
<1>4. NoDriver.pc = "none" BY DEF NoDriver
<1>5. CASE RecoverInterrupted
  <2> DEFINE j == InterruptBatch(Folded, Folded.last)
             m == AfterInterrupt(Folded, Folded.last)
  <2>1. /\ state' = "Idle" /\ journal' = j /\ mem' = m /\ drv' = NoDriver /\ ~settler'
        /\ journal.run # NoRun
    BY <1>2, <1>5 DEF RecoverInterrupted, Reopen, InterruptPending
  <2>2. Books(j) /\ Uninterrupted(j) /\ j.run = NoRun BY <1>1, <2>1, InterruptBatchBooks
  <2>3. m.run = NoRun
    <3>1. NewRun(Folded, NoRun, 0) \in MemType /\ NewRun(Folded, NoRun, 0).run = NoRun
      BY <1>1, NewRunType DEF NoRun, NewRun, MemType
    <3>2. Detached(Folded) \in MemType /\ Detached(Folded).run = NoRun
      BY <1>1, <3>1, DetachedType DEF Detached, MemType
    <3>3. QED BY <3>2 DEF AfterInterrupt, MemType
  <2> HIDE DEF j, m
  <2>4. Books(journal)' /\ Uninterrupted(journal)' /\ journal'.run = NoRun
    BY <2>1, <2>2 DEF Books, Uninterrupted
  <2>5. QED BY <1>4, <2>1, <2>3, <2>4, SettledCoherent
<1>6. CASE RecoverCompleted
  <2> DEFINE j == RunClosed(journal, "Completed")
  <2>1. /\ state' = "Idle" /\ journal' = j /\ mem' = Detached(Folded) /\ drv' = NoDriver
        /\ ~settler' /\ journal.run # NoRun /\ ~InterruptPending
    BY <1>2, <1>6 DEF RecoverCompleted, Reopen
  <2>2. Books(j) /\ Uninterrupted(j) /\ j.run = NoRun BY <1>1, <1>3, <2>1, ClosedBooks
  <2>3. Detached(Folded).run = NoRun
    <3>1. NewRun(Folded, NoRun, 0) \in MemType /\ NewRun(Folded, NoRun, 0).run = NoRun
      BY <1>1, NewRunType DEF NoRun, NewRun, MemType
    <3>2. QED BY <1>1, <3>1 DEF Detached, MemType
  <2> HIDE DEF j
  <2>4. Books(journal)' /\ Uninterrupted(journal)' /\ journal'.run = NoRun
    BY <2>1, <2>2 DEF Books, Uninterrupted
  <2>5. QED BY <1>4, <2>1, <2>3, <2>4, SettledCoherent
<1>7. CASE RecoverIdle
  <2>1. /\ state' = "Idle" /\ journal' = journal /\ mem' = Folded /\ drv' = NoDriver
        /\ ~settler' /\ journal.run = NoRun
    BY <1>2, <1>7 DEF RecoverIdle, Reopen
  <2>2. Uninterrupted(journal) BY <1>1, <2>1 DEF Books, Uninterrupted, NoRun
  <2>3. Books(journal)' /\ Uninterrupted(journal)'
    BY <1>1, <2>1, <2>2 DEF Books, Uninterrupted
  <2>4. QED BY <1>1, <1>4, <2>1, <2>3, SettledCoherent
<1>8. CASE RecoverSuspended
  <2>1. /\ state' = "Suspended" /\ journal' = journal /\ mem' = Folded /\ drv' = NoDriver
        /\ ~settler' /\ journal.run # NoRun /\ ~InterruptPending
    BY <1>2, <1>8 DEF RecoverSuspended, Reopen
  <2>2. Books(journal)' /\ Uninterrupted(journal)'
    BY <1>1, <1>3, <2>1 DEF Books, Uninterrupted
  <2>3. QED BY <1>1, <1>4, <2>1, <2>2 DEF Coherent, GoneIsQuiet, ClosedIsUnlocked, LiveRun
<1>9. CASE RecoverInject
  <2>1. Books(InputsApplied(journal, journal.drained)) BY <1>1, QueueBooks, BooksKept
  <2>2. Books(journal)' /\ state' = "Down" /\ UNCHANGED <<lock, drv, settler>>
    BY <1>2, <1>9, <2>1 DEF RecoverInject, Books
  <2>3. QED BY <1>2, <2>2 DEF Coherent, GoneIsQuiet, ClosedIsUnlocked, LiveRun
<1>10. CASE RecoverIndeterminate
  <2> DEFINE susp == [kind |-> "indeterminate", id |-> journal.susps + 1, used |-> 0]
             j == RunSuspended(journal, susp)
             m == [Folded EXCEPT !.susp = susp]
  <2>1. /\ state' = "Suspended" /\ journal' = j /\ mem' = m /\ drv' = NoDriver
        /\ ~settler' /\ journal.run # NoRun /\ ~InterruptPending
    BY <1>2, <1>10 DEF RecoverIndeterminate, RecoverOpenRun, Reopen
  <2>2. SameBooks(journal, j) /\ m.run = journal.run BY <1>1, EventBooks DEF MemType
  <2> HIDE DEF j, m
  <2>3. Books(j) /\ Uninterrupted(j) /\ j.run = journal.run
    BY <1>1, <1>3, <2>1, <2>2, BooksKept DEF SameBooks
  <2>4. Books(journal)' /\ Uninterrupted(journal)' BY <2>1, <2>3 DEF Books, Uninterrupted
  <2>5. QED
    BY <1>4, <2>1, <2>2, <2>3, <2>4 DEF Coherent, GoneIsQuiet, ClosedIsUnlocked, LiveRun
<1>11. CASE RecoverContinue
  <2> DEFINE limit == Remaining(journal.usage)
             paired == FrontierAbandoned(journal)
             j == RunOpened(paired, journal.run, limit)
             n == NewRun(Folded, journal.run, limit)
             m == [n EXCEPT !.open = {}, !.tail = IF journal.open = {} THEN @ ELSE "tool",
                            !.susp = NoSuspension]
  <2>1. /\ state' = "Running" /\ journal' = j /\ mem' = m /\ ~settler'
        /\ journal.run # NoRun /\ ~InterruptPending /\ limit \in Nat
    BY <1>1, <1>2, <1>11, RemainingType DEF RecoverContinue, RecoverOpenRun, Reopen
  <2>2. n \in MemType /\ n.run = journal.run BY <1>1, <2>1, NewRunType DEF NewRun, MemType
  <2>3. m.run = journal.run BY <2>2 DEF MemType
  <2>4. paired \in JournalType /\ SameBooks(journal, paired)
    BY <1>1, FrontierAbandonedType, RepairBooks
  <2> HIDE DEF m, paired, limit
  <2>5. Books(paired) /\ Uninterrupted(paired) /\ paired.run = journal.run
    BY <1>1, <1>3, <2>1, <2>4, BooksKept DEF SameBooks
  <2>6. Books(j) /\ Uninterrupted(j) /\ j.run = journal.run
    BY <1>1, <2>1, <2>4, <2>5, OpenedBooks
  <2> HIDE DEF j
  <2>7. Books(journal)' /\ Uninterrupted(journal)' BY <2>1, <2>6 DEF Books, Uninterrupted
  <2>8. QED BY <2>1, <2>3, <2>6, <2>7, OpenedCoherent
<1>12. QED BY <1>5, <1>6, <1>7, <1>8, <1>9, <1>10, <1>11 DEF Recover

\* The invariant holds from the first handle on.
LEMMA CoherentInvariant == Spec => []Coherent
<1>1. ASSUME Init PROVE Coherent
  <2>1. Books(EmptyJournal) /\ Uninterrupted(EmptyJournal) /\ EmptyJournal.run = NoRun
    BY DEF EmptyJournal, Books, Uninterrupted, NoRun
  <2>2. /\ state = "Idle" /\ journal = EmptyJournal /\ mem.run = NoRun /\ drv.pc = "none"
        /\ ~settler
    BY <1>1 DEF Init, Loaded, EmptyJournal, NoDriver
  <2>3. QED BY <2>1, <2>2 DEF Coherent, GoneIsQuiet, ClosedIsUnlocked, LiveRun
<1>2. TypeInv /\ Coherent /\ [Next]_vars => Coherent'
  <2>1. Coherent /\ UNCHANGED vars => Coherent'
    BY DEF vars, Coherent, GoneIsQuiet, ClosedIsUnlocked, LiveRun, Books, Uninterrupted
  <2>2. QED
    BY <2>1, ClientCoherent, DriverCoherent, FinishCoherent, SettleSuspendedCoherent,
       OwnerCoherent, RecoverCoherent DEF Next
<1>3. QED BY <1>1, <1>2, TypeInvariant, PTL DEF Spec

\* Every run settles exactly once, in the order runs were opened, through every
\* interleaving of the drive, interrupts, failed appends, crashes and recoveries.
THEOREM RunsSettle == Spec => []RunsSettleOnce
<1>1. Coherent => RunsSettleOnce BY DEF Coherent, Books, RunsSettleOnce
<1>2. QED BY <1>1, CoherentInvariant, PTL

\* A run that accepted a durable interrupt is closed as interrupted and not
\* otherwise: no race with its completion, no crash and no recovery undoes it.
THEOREM InterruptWins == Spec => []AcceptedInterruptWins
<1>1. Coherent => AcceptedInterruptWins BY DEF Coherent, Books, AcceptedInterruptWins
<1>2. QED BY <1>1, CoherentInvariant, PTL

-----------------------------------------------------------------------------
(***************************************************************************)
(* What a session holds: its handle against its journal, the inputs that   *)
(* it accepted, and the ledger that it keeps of its runs.                  *)
(*                                                                         *)
(*   HandleMatches         a live handle believes what its journal folds   *)
(*                         to                                              *)
(*   Conserved             an accepted input is in exactly one place       *)
(*   ImplementsTheLedger   the session implements RunLedger                *)
(*                                                                         *)
(* The first two are invariants of batches: a batch that is appended and   *)
(* what the handle makes of it have to agree, and a batch moves an input   *)
(* from one place to another.  Faithful strengthens the first by the       *)
(* suspension, which an idle handle does not have, and by the entries that *)
(* the hook drained, which the journal holds as unapplied.  Placed says of *)
(* a journal that the four places of inputs are disjoint and make up what  *)
(* was accepted, and that each holds an input once.                        *)
(***************************************************************************)

AppliedIds(j) == {i \in Inputs : j.applied[i] # <<>>}
AcceptedIds(j) == {j.accepted[n].id : n \in DOMAIN j.accepted}

Placed(j) ==
  /\ \A e, f \in j.queue : e.id = f.id => e = f
  /\ \A e, f \in j.drained : e.id = f.id => e = f
  /\ \A m, n \in DOMAIN j.accepted : j.accepted[m].id = j.accepted[n].id => m = n
  /\ \A i \in Inputs : Len(j.applied[i]) <= 1
  /\ Ids(j.queue) \cap Ids(j.drained) = {}
  /\ Ids(j.queue) \cap AppliedIds(j) = {}
  /\ Ids(j.drained) \cap AppliedIds(j) = {}
  /\ j.cancelled \cap (Ids(j.queue) \cup Ids(j.drained) \cup AppliedIds(j)) = {}
  /\ AcceptedIds(j) = Ids(j.queue) \cup Ids(j.drained) \cup AppliedIds(j) \cup j.cancelled

Mirrors(m, j) ==
  /\ m.run = j.run /\ m.limit = j.limit /\ m.last = j.last /\ m.started = j.started
  /\ m.queue = j.queue /\ m.applied = j.applied /\ m.open = j.open /\ m.tail = j.tail
  /\ m.usage = j.usage
  /\ m.susp # NoSuspension => m.susp = j.susp
  /\ m.inject \subseteq j.drained

Settled(j) == j.run = NoRun => j.susp = NoSuspension

Live == lock /\ state \in Attached

Faithful ==
  /\ Placed(journal) /\ Settled(journal)
  /\ Live => Mirrors(mem, journal) /\ (state = "Idle" => mem.susp = NoSuspension)

-----------------------------------------------------------------------------
(***************************************************************************)
(* What an entry leaves alone.                                             *)
(***************************************************************************)
SamePlaces(j, k) ==
  /\ k.queue = j.queue /\ k.drained = j.drained /\ k.applied = j.applied
  /\ k.accepted = j.accepted /\ k.cancelled = j.cancelled
SameRun(j, k) ==
  /\ k.run = j.run /\ k.limit = j.limit /\ k.last = j.last /\ k.started = j.started
  /\ k.susp = j.susp /\ k.usage = j.usage /\ k.completed = j.completed
SameFrontier(j, k) ==
  /\ k.open = j.open /\ k.tail = j.tail /\ k.starts = j.starts
  /\ k.abandoned = j.abandoned /\ k.calls = j.calls

\* A run that closes moves no input and no call.
LEMMA RunClosedFields ==
  ASSUME NEW j \in JournalType, NEW status
  PROVE  LET k == RunClosed(j, status)
         IN /\ SamePlaces(j, k) /\ SameFrontier(j, k)
            /\ k.run = NoRun /\ k.limit = 0 /\ k.last = 0 /\ k.started = {}
            /\ k.completed = j.completed /\ k.susp = NoSuspension /\ k.usage = j.usage
BY DEF SamePlaces, SameFrontier, RunClosed, JournalType

\* Entries of the queue move no call and leave the run as it is.
LEMMA QueueFields ==
  ASSUME NEW j \in JournalType, NEW entry, NEW target, NEW ids, NEW entries
  PROVE  /\ SameRun(j, QueueAccepted(j, entry, target)) /\ SameRun(j, QueueDrained(j, ids))
         /\ SameRun(j, QueueCancelled(j, ids)) /\ SameRun(j, InputsApplied(j, entries))
         /\ SameFrontier(j, QueueAccepted(j, entry, target))
         /\ SameFrontier(j, QueueDrained(j, ids)) /\ SameFrontier(j, QueueCancelled(j, ids))
         /\ QueueAccepted(j, entry, target).queue = j.queue \cup {entry}
         /\ QueueAccepted(j, entry, target).drained = j.drained
         /\ QueueAccepted(j, entry, target).applied = j.applied
         /\ QueueAccepted(j, entry, target).cancelled = j.cancelled
         /\ QueueAccepted(j, entry, target).accepted
              = Append(j.accepted, [id |-> entry.id, kind |-> entry.kind, run |-> j.run,
                                    target |-> target])
         /\ QueueDrained(j, ids).queue = Without(j.queue, ids)
         /\ QueueDrained(j, ids).drained = j.drained \cup Only(j.queue, ids)
         /\ QueueDrained(j, ids).applied = j.applied
         /\ QueueDrained(j, ids).cancelled = j.cancelled
         /\ QueueDrained(j, ids).accepted = j.accepted
         /\ QueueCancelled(j, ids).queue = Without(j.queue, ids)
         /\ QueueCancelled(j, ids).drained = Without(j.drained, ids)
         /\ QueueCancelled(j, ids).applied = j.applied
         /\ QueueCancelled(j, ids).cancelled = j.cancelled \cup ids
         /\ QueueCancelled(j, ids).accepted = j.accepted
         /\ InputsApplied(j, entries).queue = j.queue
         /\ InputsApplied(j, entries).drained = Without(j.drained, Ids(entries))
         /\ InputsApplied(j, entries).applied = Into(j.applied, Ids(entries), j.run)
         /\ InputsApplied(j, entries).cancelled = j.cancelled
         /\ InputsApplied(j, entries).accepted = j.accepted
         /\ InputsApplied(j, entries).open = j.open
         /\ InputsApplied(j, entries).tail = "user"
         /\ InputsApplied(j, entries).starts = j.starts
         /\ InputsApplied(j, entries).abandoned = j.abandoned
         /\ InputsApplied(j, entries).calls = j.calls
<1> USE DEF SameRun, SameFrontier, JournalType
<1>1. /\ SameRun(j, QueueAccepted(j, entry, target))
      /\ SameFrontier(j, QueueAccepted(j, entry, target))
      /\ QueueAccepted(j, entry, target).queue = j.queue \cup {entry}
      /\ QueueAccepted(j, entry, target).drained = j.drained
      /\ QueueAccepted(j, entry, target).applied = j.applied
      /\ QueueAccepted(j, entry, target).cancelled = j.cancelled
      /\ QueueAccepted(j, entry, target).accepted
           = Append(j.accepted, [id |-> entry.id, kind |-> entry.kind, run |-> j.run,
                                 target |-> target])
  BY DEF QueueAccepted
<1>2. /\ SameRun(j, QueueDrained(j, ids)) /\ SameFrontier(j, QueueDrained(j, ids))
      /\ QueueDrained(j, ids).queue = Without(j.queue, ids)
      /\ QueueDrained(j, ids).drained = j.drained \cup Only(j.queue, ids)
      /\ QueueDrained(j, ids).applied = j.applied
      /\ QueueDrained(j, ids).cancelled = j.cancelled
      /\ QueueDrained(j, ids).accepted = j.accepted
  BY DEF QueueDrained
<1>3. /\ SameRun(j, QueueCancelled(j, ids)) /\ SameFrontier(j, QueueCancelled(j, ids))
      /\ QueueCancelled(j, ids).queue = Without(j.queue, ids)
      /\ QueueCancelled(j, ids).drained = Without(j.drained, ids)
      /\ QueueCancelled(j, ids).applied = j.applied
      /\ QueueCancelled(j, ids).cancelled = j.cancelled \cup ids
      /\ QueueCancelled(j, ids).accepted = j.accepted
  BY DEF QueueCancelled
<1>4. /\ SameRun(j, InputsApplied(j, entries))
      /\ InputsApplied(j, entries).queue = j.queue
      /\ InputsApplied(j, entries).drained = Without(j.drained, Ids(entries))
      /\ InputsApplied(j, entries).applied = Into(j.applied, Ids(entries), j.run)
      /\ InputsApplied(j, entries).cancelled = j.cancelled
      /\ InputsApplied(j, entries).accepted = j.accepted
      /\ InputsApplied(j, entries).open = j.open
      /\ InputsApplied(j, entries).tail = "user"
      /\ InputsApplied(j, entries).starts = j.starts
      /\ InputsApplied(j, entries).abandoned = j.abandoned
      /\ InputsApplied(j, entries).calls = j.calls
  BY DEF InputsApplied
<1>5. QED BY <1>1, <1>2, <1>3, <1>4

\* Messages and tool events move no input and leave the run as it is.
LEMMA EventFields ==
  ASSUME NEW j \in JournalType, NEW calls, NEW call
  PROVE  /\ SamePlaces(j, UserMessage(j)) /\ SamePlaces(j, AssistantCommitted(j, calls))
         /\ SamePlaces(j, ToolStarted(j, call)) /\ SamePlaces(j, ToolResult(j, call))
         /\ SameRun(j, UserMessage(j)) /\ SameRun(j, AssistantCommitted(j, calls))
         /\ SameRun(j, ToolResult(j, call))
         /\ UserMessage(j).tail = "user" /\ UserMessage(j).open = j.open
         /\ UserMessage(j).starts = j.starts /\ UserMessage(j).abandoned = j.abandoned
         /\ UserMessage(j).calls = j.calls
         /\ AssistantCommitted(j, calls).tail = "assistant"
         /\ AssistantCommitted(j, calls).open = calls
         /\ AssistantCommitted(j, calls).starts = j.starts
         /\ AssistantCommitted(j, calls).abandoned = j.abandoned
         /\ AssistantCommitted(j, calls).calls = j.calls + Cardinality(calls)
         /\ ToolResult(j, call).tail = "tool" /\ ToolResult(j, call).open = j.open \ {call}
         /\ ToolResult(j, call).starts = j.starts
         /\ ToolResult(j, call).abandoned = j.abandoned
         /\ ToolResult(j, call).calls = j.calls
<1> USE DEF SamePlaces, SameRun, JournalType
<1>1. /\ SamePlaces(j, UserMessage(j)) /\ SameRun(j, UserMessage(j))
      /\ UserMessage(j).tail = "user" /\ UserMessage(j).open = j.open
      /\ UserMessage(j).starts = j.starts /\ UserMessage(j).abandoned = j.abandoned
      /\ UserMessage(j).calls = j.calls
  BY DEF UserMessage
<1>2. /\ SamePlaces(j, AssistantCommitted(j, calls)) /\ SameRun(j, AssistantCommitted(j, calls))
      /\ AssistantCommitted(j, calls).tail = "assistant"
      /\ AssistantCommitted(j, calls).open = calls
      /\ AssistantCommitted(j, calls).starts = j.starts
      /\ AssistantCommitted(j, calls).abandoned = j.abandoned
      /\ AssistantCommitted(j, calls).calls = j.calls + Cardinality(calls)
  BY DEF AssistantCommitted
<1>3. SamePlaces(j, ToolStarted(j, call)) BY DEF ToolStarted
<1>4. /\ SamePlaces(j, ToolResult(j, call)) /\ SameRun(j, ToolResult(j, call))
      /\ ToolResult(j, call).tail = "tool" /\ ToolResult(j, call).open = j.open \ {call}
      /\ ToolResult(j, call).starts = j.starts
      /\ ToolResult(j, call).abandoned = j.abandoned
      /\ ToolResult(j, call).calls = j.calls
  BY DEF ToolResult
<1>5. QED BY <1>1, <1>2, <1>3, <1>4

\* A start of a tool is recorded of the open run.
LEMMA StartFields ==
  ASSUME NEW j \in JournalType, NEW call, j.run # NoRun
  PROVE  LET k == ToolStarted(j, call)
         IN /\ k.run = j.run /\ k.limit = j.limit /\ k.last = j.last /\ k.susp = j.susp
            /\ k.usage = j.usage /\ k.completed = j.completed
            /\ k.started = j.started \cup {call}
            /\ k.open = j.open /\ k.tail = j.tail /\ k.abandoned = j.abandoned
            /\ k.calls = j.calls /\ k.starts = [j.starts EXCEPT ![call] = @ + 1]
BY DEF ToolStarted, JournalType

\* Entries of the run's own progress move no input and no call.
LEMMA ProgressFields ==
  ASSUME NEW j \in JournalType, NEW used, NEW session, NEW suspension, NEW target
  PROVE  /\ SamePlaces(j, UsageRecorded(j, used, session)) /\ SamePlaces(j, RunStarted(j))
         /\ SamePlaces(j, RunCompleted(j)) /\ SamePlaces(j, RunSuspended(j, suspension))
         /\ SamePlaces(j, InterruptAccepted(j, target)) /\ SamePlaces(j, FaultRecorded(j))
         /\ SameFrontier(j, UsageRecorded(j, used, session)) /\ SameFrontier(j, RunStarted(j))
         /\ SameFrontier(j, RunCompleted(j)) /\ SameFrontier(j, RunSuspended(j, suspension))
         /\ SameFrontier(j, InterruptAccepted(j, target)) /\ SameFrontier(j, FaultRecorded(j))
         /\ SameRun(j, RunStarted(j)) /\ SameRun(j, InterruptAccepted(j, target))
         /\ SameRun(j, FaultRecorded(j))
<1> USE DEF SamePlaces, SameRun, SameFrontier, JournalType
<1>1. /\ SamePlaces(j, UsageRecorded(j, used, session))
      /\ SameFrontier(j, UsageRecorded(j, used, session))
  BY DEF UsageRecorded
<1>2. SamePlaces(j, RunStarted(j)) /\ SameFrontier(j, RunStarted(j)) /\ SameRun(j, RunStarted(j))
  BY DEF RunStarted
<1>3. SamePlaces(j, RunCompleted(j)) /\ SameFrontier(j, RunCompleted(j)) BY DEF RunCompleted
<1>4. SamePlaces(j, RunSuspended(j, suspension)) /\ SameFrontier(j, RunSuspended(j, suspension))
  BY DEF RunSuspended
<1>5. /\ SamePlaces(j, InterruptAccepted(j, target)) /\ SameFrontier(j, InterruptAccepted(j, target))
      /\ SameRun(j, InterruptAccepted(j, target))
  BY DEF InterruptAccepted
<1>6. SamePlaces(j, FaultRecorded(j)) /\ SameFrontier(j, FaultRecorded(j)) /\ SameRun(j, FaultRecorded(j))
  BY DEF FaultRecorded
<1>7. QED BY <1>1, <1>2, <1>3, <1>4, <1>5, <1>6

\* What those entries change of the open run.
LEMMA ProgressOfRun ==
  ASSUME NEW j \in JournalType, NEW used, NEW session, NEW suspension, j.run # NoRun
  PROVE  /\ LET k == UsageRecorded(j, used, session)
            IN /\ k.run = j.run /\ k.limit = j.limit /\ k.started = j.started
               /\ k.susp = j.susp /\ k.completed = j.completed
               /\ k.last = used /\ k.usage = session
         /\ LET k == RunCompleted(j)
            IN /\ k.run = j.run /\ k.limit = j.limit /\ k.last = j.last
               /\ k.started = j.started /\ k.susp = j.susp /\ k.usage = j.usage
               /\ k.completed
         /\ LET k == RunSuspended(j, suspension)
            IN /\ k.run = j.run /\ k.limit = j.limit /\ k.last = j.last
               /\ k.started = j.started /\ k.usage = j.usage
               /\ k.completed = j.completed /\ k.susp = suspension
<1>1. LET k == UsageRecorded(j, used, session)
      IN /\ k.run = j.run /\ k.limit = j.limit /\ k.started = j.started
         /\ k.susp = j.susp /\ k.completed = j.completed
         /\ k.last = used /\ k.usage = session
  BY DEF UsageRecorded, JournalType
<1>2. LET k == RunCompleted(j)
      IN /\ k.run = j.run /\ k.limit = j.limit /\ k.last = j.last
         /\ k.started = j.started /\ k.susp = j.susp /\ k.usage = j.usage /\ k.completed
  BY DEF RunCompleted, JournalType
<1>3. LET k == RunSuspended(j, suspension)
      IN /\ k.run = j.run /\ k.limit = j.limit /\ k.last = j.last
         /\ k.started = j.started /\ k.usage = j.usage
         /\ k.completed = j.completed /\ k.susp = suspension
  BY DEF RunSuspended, JournalType
<1>4. QED BY <1>1, <1>2, <1>3

\* A repair closes the frontier and nothing else.
LEMMA RepairFields ==
  ASSUME NEW j \in JournalType
  PROVE  /\ SamePlaces(j, FrontierClosed(j)) /\ SamePlaces(j, FrontierAbandoned(j))
         /\ SameRun(j, FrontierClosed(j)) /\ SameRun(j, FrontierAbandoned(j))
         /\ LET k == FrontierClosed(j)
            IN /\ k.open = {} /\ k.tail = (IF j.open = {} THEN j.tail ELSE "tool")
               /\ k.starts = j.starts /\ k.abandoned = j.abandoned /\ k.calls = j.calls
         /\ LET k == FrontierAbandoned(j)
            IN /\ k.open = {} /\ k.tail = (IF j.open = {} THEN j.tail ELSE "tool")
               /\ k.starts = j.starts /\ k.abandoned = j.abandoned \cup j.open
               /\ k.calls = j.calls
<1> DEFINE f == FrontierClosed(j)
<1>1. /\ SamePlaces(j, f) /\ SameRun(j, f)
      /\ f.open = {} /\ f.tail = (IF j.open = {} THEN j.tail ELSE "tool")
      /\ f.starts = j.starts /\ f.abandoned = j.abandoned /\ f.calls = j.calls
  BY DEF SamePlaces, SameRun, FrontierClosed, JournalType
<1>2. f \in JournalType BY FrontierClosedType
<1>3. FrontierAbandoned(j) = [f EXCEPT !.abandoned = @ \cup j.open] BY DEF FrontierAbandoned
<1> HIDE DEF f
<1>4. LET k == FrontierAbandoned(j)
      IN /\ SamePlaces(f, k) /\ SameRun(f, k)
         /\ k.open = f.open /\ k.tail = f.tail
         /\ k.starts = f.starts /\ k.abandoned = f.abandoned \cup j.open /\ k.calls = f.calls
  BY <1>2, <1>3 DEF SamePlaces, SameRun, JournalType
<1>5. SamePlaces(j, FrontierAbandoned(j)) /\ SameRun(j, FrontierAbandoned(j))
  BY <1>1, <1>4 DEF SamePlaces, SameRun
<1>6. QED BY <1>1, <1>4, <1>5 DEF f

-----------------------------------------------------------------------------
(***************************************************************************)
(* Inputs move between four places.                                        *)
(***************************************************************************)
\* An entry that moves no input keeps them placed.
LEMMA PlacesKept ==
  ASSUME NEW j, Placed(j), NEW k, SamePlaces(j, k)
  PROVE  Placed(k)
BY DEF Placed, SamePlaces, AppliedIds, AcceptedIds

\* A fresh input waits in the queue.
LEMMA AcceptedPlaced ==
  ASSUME NEW j \in JournalType, Placed(j), NEW entry \in QueueEntry, NEW target \in Nat,
         entry.id \notin AcceptedIds(j)
  PROVE  Placed(QueueAccepted(j, entry, target))
<1> DEFINE k == QueueAccepted(j, entry, target)
           a == [id |-> entry.id, kind |-> entry.kind, run |-> j.run, target |-> target]
           Acceptance == [id : Inputs, kind : QueueKinds, run : Nat, target : Nat]
<1>1. /\ k.queue = j.queue \cup {entry} /\ k.drained = j.drained /\ k.applied = j.applied
      /\ k.cancelled = j.cancelled /\ k.accepted = Append(j.accepted, a)
  BY DEF QueueAccepted, JournalType
<1>2. j.accepted \in Seq(Acceptance) /\ a \in Acceptance /\ a.id = entry.id
  BY DEF JournalType, QueueEntry
<1> HIDE DEF k, a, Acceptance
<1>3. /\ DOMAIN k.accepted = DOMAIN j.accepted \cup {Len(j.accepted) + 1}
      /\ \A n \in DOMAIN j.accepted : k.accepted[n] = j.accepted[n]
      /\ Len(j.accepted) + 1 \notin DOMAIN j.accepted
      /\ k.accepted[Len(j.accepted) + 1] = a
  BY <1>1, <1>2
<1>4. AcceptedIds(k) = AcceptedIds(j) \cup {entry.id} BY <1>2, <1>3 DEF AcceptedIds
<1>5. Ids(k.queue) = Ids(j.queue) \cup {entry.id} /\ AppliedIds(k) = AppliedIds(j)
      /\ Ids(k.drained) = Ids(j.drained)
  BY <1>1 DEF Ids, AppliedIds
<1>6. \A m, n \in DOMAIN k.accepted : k.accepted[m].id = k.accepted[n].id => m = n
  BY <1>2, <1>3 DEF Placed, AcceptedIds
<1>7. \A e, f \in k.queue : e.id = f.id => e = f BY <1>1 DEF Placed, Ids
<1>8. \A e, f \in k.drained : e.id = f.id => e = f BY <1>1 DEF Placed
<1>9. \A i \in Inputs : Len(k.applied[i]) <= 1 BY <1>1 DEF Placed
<1>10. /\ Ids(k.queue) \cap Ids(k.drained) = {} /\ Ids(k.queue) \cap AppliedIds(k) = {}
       /\ Ids(k.drained) \cap AppliedIds(k) = {}
  BY <1>5 DEF Placed
<1>11. k.cancelled \cap (Ids(k.queue) \cup Ids(k.drained) \cup AppliedIds(k)) = {}
  <2>1. /\ AcceptedIds(j) = Ids(j.queue) \cup Ids(j.drained) \cup AppliedIds(j) \cup j.cancelled
        /\ j.cancelled \cap (Ids(j.queue) \cup Ids(j.drained) \cup AppliedIds(j)) = {}
    BY DEF Placed
  <2>2. k.cancelled = j.cancelled /\ entry.id \notin j.cancelled BY <1>1, <2>1
  <2> QED BY <1>5, <2>1, <2>2
<1>12. AcceptedIds(k) = Ids(k.queue) \cup Ids(k.drained) \cup AppliedIds(k) \cup k.cancelled
  <2>1. AcceptedIds(j) = Ids(j.queue) \cup Ids(j.drained) \cup AppliedIds(j) \cup j.cancelled
    BY DEF Placed
  <2>2. k.cancelled = j.cancelled BY <1>1
  <2> QED BY <1>4, <1>5, <2>1, <2>2, Zenon
<1> QED
  BY <1>6, <1>7, <1>8, <1>9, <1>10, <1>11, <1>12 DEF Placed, k

\* A drain moves inputs from the queue to the drained entries.
LEMMA DrainedPlaced ==
  ASSUME NEW j \in JournalType, Placed(j), NEW ids
  PROVE  Placed(QueueDrained(j, ids))
<1> DEFINE k == QueueDrained(j, ids)
<1>1. /\ k.queue = Without(j.queue, ids) /\ k.drained = j.drained \cup Only(j.queue, ids)
      /\ k.applied = j.applied /\ k.cancelled = j.cancelled /\ k.accepted = j.accepted
  BY QueueFields, ZenonT(30)
<1> HIDE DEF k
<1>2. /\ Ids(k.queue) = Ids(j.queue) \ ids /\ Ids(k.drained) = Ids(j.drained) \cup (Ids(j.queue) \cap ids)
      /\ AppliedIds(k) = AppliedIds(j) /\ AcceptedIds(k) = AcceptedIds(j)
  BY <1>1 DEF Ids, Without, Only, AppliedIds, AcceptedIds
<1>3. \A e, f \in k.drained : e.id = f.id => e = f BY <1>1 DEF Placed, Ids, Only
<1>4. \A e, f \in k.queue : e.id = f.id => e = f BY <1>1 DEF Placed, Without
<1>5. \A m, n \in DOMAIN k.accepted : k.accepted[m].id = k.accepted[n].id => m = n
  BY <1>1 DEF Placed
<1>6. \A i \in Inputs : Len(k.applied[i]) <= 1 BY <1>1 DEF Placed
<1>7. /\ Ids(k.queue) \cap Ids(k.drained) = {} /\ Ids(k.queue) \cap AppliedIds(k) = {}
      /\ Ids(k.drained) \cap AppliedIds(k) = {}
  BY <1>2 DEF Placed
<1>8. /\ k.cancelled \cap (Ids(k.queue) \cup Ids(k.drained) \cup AppliedIds(k)) = {}
      /\ AcceptedIds(k) = Ids(k.queue) \cup Ids(k.drained) \cup AppliedIds(k) \cup k.cancelled
  BY <1>1, <1>2 DEF Placed
<1> QED
  BY <1>3, <1>4, <1>5, <1>6, <1>7, <1>8 DEF Placed, k

\* A cancellation of queued inputs takes them out of the queue.
LEMMA CancelledPlaced ==
  ASSUME NEW j \in JournalType, Placed(j), NEW ids, ids \subseteq Ids(j.queue)
  PROVE  Placed(QueueCancelled(j, ids))
<1> DEFINE k == QueueCancelled(j, ids)
<1>1. /\ k.queue = Without(j.queue, ids) /\ k.drained = Without(j.drained, ids)
      /\ k.applied = j.applied /\ k.cancelled = j.cancelled \cup ids /\ k.accepted = j.accepted
  BY QueueFields
<1> HIDE DEF k
<1>2. /\ Ids(k.queue) = Ids(j.queue) \ ids /\ Ids(k.drained) = Ids(j.drained) \ ids
      /\ AppliedIds(k) = AppliedIds(j) /\ AcceptedIds(k) = AcceptedIds(j)
  BY <1>1 DEF Ids, Without, AppliedIds, AcceptedIds
<1>3. \A e, f \in k.drained : e.id = f.id => e = f BY <1>1 DEF Placed, Without
<1>4. \A e, f \in k.queue : e.id = f.id => e = f BY <1>1 DEF Placed, Without
<1>5. \A m, n \in DOMAIN k.accepted : k.accepted[m].id = k.accepted[n].id => m = n
  BY <1>1 DEF Placed
<1>6. \A i \in Inputs : Len(k.applied[i]) <= 1 BY <1>1 DEF Placed
<1>7. /\ Ids(k.queue) \cap Ids(k.drained) = {} /\ Ids(k.queue) \cap AppliedIds(k) = {}
      /\ Ids(k.drained) \cap AppliedIds(k) = {}
  BY <1>2 DEF Placed
<1>8. /\ k.cancelled \cap (Ids(k.queue) \cup Ids(k.drained) \cup AppliedIds(k)) = {}
      /\ AcceptedIds(k) = Ids(k.queue) \cup Ids(k.drained) \cup AppliedIds(k) \cup k.cancelled
  BY <1>1, <1>2 DEF Placed
<1> QED
  BY <1>3, <1>4, <1>5, <1>6, <1>7, <1>8 DEF Placed, k

\* Drained inputs are written into the transcript of the open run.
LEMMA AppliedPlaced ==
  ASSUME NEW j \in JournalType, Placed(j), NEW entries, Ids(entries) \subseteq Ids(j.drained)
  PROVE  Placed(InputsApplied(j, entries))
<1> DEFINE k == InputsApplied(j, entries)
           ids == Ids(entries)
<1>1. /\ k.queue = j.queue /\ k.drained = Without(j.drained, ids)
      /\ k.applied = Into(j.applied, ids, j.run) /\ k.cancelled = j.cancelled
      /\ k.accepted = j.accepted
  BY QueueFields, ZenonT(30)
<1>2. /\ j.applied \in [Inputs -> Seq(Nat)] /\ j.run \in Nat /\ j.drained \subseteq QueueEntry
  BY DEF JournalType
<1>3. Ids(j.drained) \subseteq Inputs BY <1>2 DEF Ids, QueueEntry
<1> HIDE DEF k, ids
<1>4. \A i \in Inputs : k.applied[i] = IF i \in ids THEN Append(j.applied[i], j.run) ELSE j.applied[i]
  BY <1>1, <1>2 DEF Into
<1>5. \A i \in ids : i \in Inputs /\ i \in Ids(j.drained) /\ j.applied[i] = <<>>
  BY <1>3 DEF Placed, AppliedIds, ids
<1>6. \A i \in Inputs : Len(k.applied[i]) <= 1 /\ (i \in ids => k.applied[i] # <<>>)
  <2> SUFFICES ASSUME NEW i \in Inputs
               PROVE  Len(k.applied[i]) <= 1 /\ (i \in ids => k.applied[i] # <<>>)
    OBVIOUS
  <2>1. CASE i \in ids
    <3>1. k.applied[i] = Append(<<>>, j.run) BY <1>4, <1>5, <2>1
    <3>2. QED BY <1>2, <3>1
  <2>2. CASE i \notin ids BY <1>4, <2>2 DEF Placed
  <2> QED BY <2>1, <2>2
<1>7. AppliedIds(k) = AppliedIds(j) \cup ids BY <1>4, <1>5, <1>6 DEF AppliedIds
<1>8. /\ Ids(k.queue) = Ids(j.queue) /\ Ids(k.drained) = Ids(j.drained) \ ids
      /\ AcceptedIds(k) = AcceptedIds(j)
  BY <1>1 DEF Ids, Without, AcceptedIds
<1>9. ids \subseteq Ids(j.drained) BY DEF ids
<1>10. \A e, f \in k.drained : e.id = f.id => e = f BY <1>1 DEF Placed, Without
<1>11. \A e, f \in k.queue : e.id = f.id => e = f BY <1>1 DEF Placed
<1>12. \A m, n \in DOMAIN k.accepted : k.accepted[m].id = k.accepted[n].id => m = n
  BY <1>1 DEF Placed
<1>13. /\ Ids(k.queue) \cap Ids(k.drained) = {} /\ Ids(k.queue) \cap AppliedIds(k) = {}
       /\ Ids(k.drained) \cap AppliedIds(k) = {}
  BY <1>7, <1>8, <1>9 DEF Placed
<1>14. /\ k.cancelled \cap (Ids(k.queue) \cup Ids(k.drained) \cup AppliedIds(k)) = {}
       /\ AcceptedIds(k) = Ids(k.queue) \cup Ids(k.drained) \cup AppliedIds(k) \cup k.cancelled
  BY <1>1, <1>7, <1>8, <1>9 DEF Placed
<1> QED
  BY <1>6, <1>10, <1>11, <1>12, <1>13, <1>14 DEF Placed, k

\* In a journal that places its inputs every input is counted where it is: this
\* is what InputsConserved says.
LEMMA PlacedCounts ==
  ASSUME NEW j \in JournalType, Placed(j), NEW i \in Inputs
  PROVE  LET accepted == {j.accepted[n] : n \in DOMAIN j.accepted}
         IN Cardinality(Only(j.queue, {i})) + Cardinality(Only(j.drained, {i}))
            + Len(j.applied[i]) + Cardinality(j.cancelled \cap {i})
            = Cardinality({a \in accepted : a.id = i})
<1> DEFINE accepted == {j.accepted[n] : n \in DOMAIN j.accepted}
           One(s, b) == Cardinality(s) = IF b THEN 1 ELSE 0
<1>1. One(Only(j.queue, {i}), i \in Ids(j.queue))
  <2>1. CASE i \in Ids(j.queue)
    <3>1. PICK e \in j.queue : e.id = i BY <2>1 DEF Ids
    <3>2. Only(j.queue, {i}) = {e} BY <3>1 DEF Only, Placed
    <3>3. Cardinality({e}) = 1 BY FS_Singleton
    <3> QED BY <2>1, <3>2, <3>3
  <2>2. CASE i \notin Ids(j.queue)
    <3>1. Only(j.queue, {i}) = {} BY <2>2 DEF Only, Ids
    <3>2. Cardinality({}) = 0 BY FS_EmptySet
    <3> QED BY <2>2, <3>1, <3>2
  <2> QED BY <2>1, <2>2
<1>2. One(Only(j.drained, {i}), i \in Ids(j.drained))
  <2>1. CASE i \in Ids(j.drained)
    <3>1. PICK e \in j.drained : e.id = i BY <2>1 DEF Ids
    <3>2. Only(j.drained, {i}) = {e} BY <3>1 DEF Only, Placed
    <3>3. Cardinality({e}) = 1 BY FS_Singleton
    <3> QED BY <2>1, <3>2, <3>3
  <2>2. CASE i \notin Ids(j.drained)
    <3>1. Only(j.drained, {i}) = {} BY <2>2 DEF Only, Ids
    <3>2. Cardinality({}) = 0 BY FS_EmptySet
    <3> QED BY <2>2, <3>1, <3>2
  <2> QED BY <2>1, <2>2
<1>3. Len(j.applied[i]) = IF i \in AppliedIds(j) THEN 1 ELSE 0
  <2>1. j.applied[i] \in Seq(Nat) /\ Len(j.applied[i]) <= 1 BY DEF JournalType, Placed
  <2> QED BY <2>1 DEF AppliedIds
<1>4. One(j.cancelled \cap {i}, i \in j.cancelled)
  <2>1. CASE i \in j.cancelled
    <3>1. j.cancelled \cap {i} = {i} BY <2>1
    <3>2. Cardinality({i}) = 1 BY FS_Singleton
    <3> QED BY <2>1, <3>1, <3>2
  <2>2. CASE i \notin j.cancelled
    <3>1. j.cancelled \cap {i} = {} BY <2>2
    <3>2. Cardinality({}) = 0 BY FS_EmptySet
    <3> QED BY <2>2, <3>1, <3>2
  <2> QED BY <2>1, <2>2
<1>5. One({a \in accepted : a.id = i}, i \in AcceptedIds(j))
  <2>1. CASE i \in AcceptedIds(j)
    <3>1. PICK n \in DOMAIN j.accepted : j.accepted[n].id = i BY <2>1 DEF AcceptedIds
    <3>2. {a \in accepted : a.id = i} = {j.accepted[n]} BY <3>1 DEF Placed
    <3>3. Cardinality({j.accepted[n]}) = 1 BY FS_Singleton
    <3> QED BY <2>1, <3>2, <3>3
  <2>2. CASE i \notin AcceptedIds(j)
    <3>1. {a \in accepted : a.id = i} = {} BY <2>2 DEF AcceptedIds
    <3>2. Cardinality({}) = 0 BY FS_EmptySet
    <3> QED BY <2>2, <3>1, <3>2
  <2> QED BY <2>1, <2>2
<1>6. /\ i \in AcceptedIds(j) <=> \/ i \in Ids(j.queue) \/ i \in Ids(j.drained)
                                  \/ i \in AppliedIds(j) \/ i \in j.cancelled
      /\ ~(i \in Ids(j.queue) /\ i \in Ids(j.drained))
      /\ ~(i \in Ids(j.queue) /\ i \in AppliedIds(j))
      /\ ~(i \in Ids(j.drained) /\ i \in AppliedIds(j))
      /\ i \in j.cancelled => /\ i \notin Ids(j.queue) /\ i \notin Ids(j.drained)
                              /\ i \notin AppliedIds(j)
  BY DEF Placed
<1> HIDE DEF accepted
<1> QED
  BY <1>1, <1>2, <1>3, <1>4, <1>5, <1>6 DEF accepted

-----------------------------------------------------------------------------
(***************************************************************************)
(* Batches.                                                                *)
(***************************************************************************)
Good(m, j) == Placed(j) /\ Settled(j) /\ Mirrors(m, j)

\* A batch that is good keeps the invariant whether it lands or not.
LEMMA BatchFaithful ==
  ASSUME Faithful, NEW j, NEW m, NEW s, lock => Good(m, j),
         lock /\ s = "Idle" => m.susp = NoSuspension,
         Commit(j, m, s) \/ AppendError(j), UNCHANGED lock
  PROVE  Faithful'
<1>1. CASE Commit(j, m, s)
  BY <1>1 DEF Commit, Faithful, Good, Live, Placed, Settled, Mirrors, AppliedIds, AcceptedIds
<1>2. CASE AppendError(j)
  BY <1>2 DEF AppendError, Faithful, Good, Live, Placed, Settled, AppliedIds, AcceptedIds,
              Attached, Busy
<1> QED BY <1>1, <1>2

\* A step that appends nothing keeps it.
LEMMA QuietFaithful ==
  ASSUME Faithful, UNCHANGED journal,
         Live' => Mirrors(mem, journal) /\ mem' = mem /\ (state' = "Idle" => mem.susp = NoSuspension)
  PROVE  Faithful'
BY DEF Faithful, Placed, Settled, Mirrors, AppliedIds, AcceptedIds

\* A driver that is not gone and may write has a handle that mirrors its journal.
LEMMA DrivenMirrors ==
  ASSUME TypeInv, Coherent, Faithful, ~At("none"), lock, state # "Faulted"
  PROVE  /\ Live /\ state \in Busy /\ Mirrors(mem, journal) /\ Placed(journal)
         /\ journal.run # NoRun /\ journal \in JournalType /\ mem \in MemType
<1>1. state \in Busy /\ journal.run # NoRun BY DrivenRun
<1> QED
  BY <1>1 DEF Live, Attached, Faithful, TypeInv, JournalOK, MemOK

\* An event of the driver keeps it when the event is good.
LEMMA EmitFaithful ==
  ASSUME TypeInv, Coherent, Faithful, ~At("none"), NEW j, NEW m, NEW d,
         lock /\ state # "Faulted" => Good(m, j),
         Emit(j, m, d)
  PROVE  Faithful'
<1>1. CASE state = "Faulted"
  <2>1. UNCHANGED <<state, journal, lock>> BY <1>1 DEF Emit, Undriven
  <2> QED BY <1>1, <2>1, QuietFaithful DEF Live, Attached, Busy
<1>2. CASE state # "Faulted"
  <2>1. lock => state # "Idle" BY <1>2, DrivenMirrors DEF Busy
  <2>2. UNCHANGED lock /\ (Commit(j, m, state) \/ AppendError(j)) BY <1>2 DEF Emit, Undriven
  <2> QED BY <1>2, <2>1, <2>2, BatchFaithful
<1> QED BY <1>1, <1>2

\* A batch that moves no input and closes no run is good for the memory that
\* follows it.
LEMMA EventGood ==
  ASSUME NEW j, NEW k, NEW m, Placed(j), SamePlaces(j, k), k.run # NoRun, Mirrors(m, k)
  PROVE  Good(m, k)
BY PlacesKept DEF Good, Settled

\* The messages of a turn are mirrored.
LEMMA MessageMirrors ==
  ASSUME NEW m \in MemType, NEW j \in JournalType, Mirrors(m, j), NEW calls, NEW call
  PROVE  /\ Mirrors([m EXCEPT !.open = calls, !.tail = "assistant"], AssistantCommitted(j, calls))
         /\ Mirrors([m EXCEPT !.tail = "user", !.inject = {}], UserMessage(j))
         /\ Mirrors([m EXCEPT !.open = @ \ {call}, !.tail = "tool"], ToolResult(j, call))
<1>1. Mirrors([m EXCEPT !.open = calls, !.tail = "assistant"], AssistantCommitted(j, calls))
  <2> DEFINE k == AssistantCommitted(j, calls)
             n == [m EXCEPT !.open = calls, !.tail = "assistant"]
  <2>1. SameRun(j, k) /\ SamePlaces(j, k) /\ k.open = calls /\ k.tail = "assistant"
    BY EventFields
  <2>2. /\ n.run = m.run /\ n.limit = m.limit /\ n.last = m.last /\ n.started = m.started
        /\ n.queue = m.queue /\ n.applied = m.applied /\ n.open = calls /\ n.tail = "assistant"
        /\ n.usage = m.usage /\ n.susp = m.susp /\ n.inject = m.inject
    BY DEF MemType
  <2> HIDE DEF k, n
  <2>3. Mirrors(n, k) BY <2>1, <2>2 DEF Mirrors, SameRun, SamePlaces, SameFrontier
  <2> QED BY <2>3 DEF k, n
<1>2. Mirrors([m EXCEPT !.tail = "user", !.inject = {}], UserMessage(j))
  <2> DEFINE k == UserMessage(j)
             n == [m EXCEPT !.tail = "user", !.inject = {}]
  <2>1. SameRun(j, k) /\ SamePlaces(j, k) /\ k.open = j.open /\ k.tail = "user"
    BY EventFields
  <2>2. /\ n.run = m.run /\ n.limit = m.limit /\ n.last = m.last /\ n.started = m.started
        /\ n.queue = m.queue /\ n.applied = m.applied /\ n.open = m.open /\ n.tail = "user"
        /\ n.usage = m.usage /\ n.susp = m.susp /\ n.inject = {}
    BY DEF MemType
  <2> HIDE DEF k, n
  <2>3. Mirrors(n, k) BY <2>1, <2>2 DEF Mirrors, SameRun, SamePlaces, SameFrontier
  <2> QED BY <2>3 DEF k, n
<1>3. Mirrors([m EXCEPT !.open = @ \ {call}, !.tail = "tool"], ToolResult(j, call))
  <2> DEFINE k == ToolResult(j, call)
             n == [m EXCEPT !.open = @ \ {call}, !.tail = "tool"]
  <2>1. SameRun(j, k) /\ SamePlaces(j, k) /\ k.open = j.open \ {call} /\ k.tail = "tool"
    BY EventFields
  <2>2. /\ n.run = m.run /\ n.limit = m.limit /\ n.last = m.last /\ n.started = m.started
        /\ n.queue = m.queue /\ n.applied = m.applied /\ n.open = m.open \ {call}
        /\ n.tail = "tool" /\ n.usage = m.usage /\ n.susp = m.susp /\ n.inject = m.inject
    BY DEF MemType
  <2> HIDE DEF k, n
  <2>3. Mirrors(n, k) BY <2>1, <2>2 DEF Mirrors, SameRun, SamePlaces, SameFrontier
  <2> QED BY <2>3 DEF k, n
<1> QED BY <1>1, <1>2, <1>3

\* So are starts, usage, completion and suspension of the open run.
LEMMA ProgressMirrors ==
  ASSUME NEW m \in MemType, NEW j \in JournalType, Mirrors(m, j), j.run # NoRun,
         NEW call, NEW used, NEW session, NEW susp, NEW seen
  PROVE  /\ Mirrors([m EXCEPT !.started = @ \cup {call}], ToolStarted(j, call))
         /\ Mirrors([m EXCEPT !.usage = session, !.last = used], UsageRecorded(j, used, session))
         /\ Mirrors(m, RunCompleted(j))
         /\ Mirrors([m EXCEPT !.susp = susp], RunSuspended(j, susp))
         /\ Mirrors([m EXCEPT !.seen = seen], RunStarted(j))
<1>1. Mirrors([m EXCEPT !.started = @ \cup {call}], ToolStarted(j, call))
  <2> DEFINE k == ToolStarted(j, call)
             n == [m EXCEPT !.started = @ \cup {call}]
  <2>1. /\ SamePlaces(j, k) /\ k.run = j.run /\ k.limit = j.limit /\ k.last = j.last
        /\ k.susp = j.susp /\ k.usage = j.usage /\ k.started = j.started \cup {call}
        /\ k.open = j.open /\ k.tail = j.tail
    <3>1. SamePlaces(j, k) BY EventFields
    <3> QED BY <3>1, StartFields
  <2>2. /\ n.run = m.run /\ n.limit = m.limit /\ n.last = m.last
        /\ n.started = m.started \cup {call}
        /\ n.queue = m.queue /\ n.applied = m.applied /\ n.open = m.open /\ n.tail = m.tail
        /\ n.usage = m.usage /\ n.susp = m.susp /\ n.inject = m.inject
    BY DEF MemType
  <2> HIDE DEF k, n
  <2>3. Mirrors(n, k) BY <2>1, <2>2 DEF Mirrors, SameRun, SamePlaces, SameFrontier
  <2> QED BY <2>3 DEF k, n
<1>2. Mirrors([m EXCEPT !.usage = session, !.last = used], UsageRecorded(j, used, session))
  <2> DEFINE k == UsageRecorded(j, used, session)
             n == [m EXCEPT !.usage = session, !.last = used]
  <2>1. /\ SamePlaces(j, k) /\ SameFrontier(j, k) /\ k.run = j.run /\ k.limit = j.limit
        /\ k.last = used /\ k.susp = j.susp /\ k.usage = session /\ k.started = j.started
    BY ProgressFields, ProgressOfRun
  <2>2. /\ n.run = m.run /\ n.limit = m.limit /\ n.last = used /\ n.started = m.started
        /\ n.queue = m.queue /\ n.applied = m.applied /\ n.open = m.open /\ n.tail = m.tail
        /\ n.usage = session /\ n.susp = m.susp /\ n.inject = m.inject
    BY DEF MemType
  <2> HIDE DEF k, n
  <2>3. Mirrors(n, k) BY <2>1, <2>2 DEF Mirrors, SameRun, SamePlaces, SameFrontier
  <2> QED BY <2>3 DEF k, n
<1>3. Mirrors(m, RunCompleted(j))
  <2> DEFINE k == RunCompleted(j)
  <2>1. /\ SamePlaces(j, k) /\ SameFrontier(j, k) /\ k.run = j.run /\ k.limit = j.limit
        /\ k.last = j.last /\ k.susp = j.susp /\ k.usage = j.usage /\ k.started = j.started
    BY ProgressFields, ProgressOfRun
  <2> HIDE DEF k
  <2>2. Mirrors(m, k) BY <2>1 DEF Mirrors, SamePlaces, SameFrontier
  <2> QED BY <2>2 DEF k
<1>4. Mirrors([m EXCEPT !.susp = susp], RunSuspended(j, susp))
  <2> DEFINE k == RunSuspended(j, susp)
             n == [m EXCEPT !.susp = susp]
  <2>1. /\ SamePlaces(j, k) /\ SameFrontier(j, k) /\ k.run = j.run /\ k.limit = j.limit
        /\ k.last = j.last /\ k.susp = susp /\ k.usage = j.usage /\ k.started = j.started
    BY ProgressFields, ProgressOfRun
  <2>2. /\ n.run = m.run /\ n.limit = m.limit /\ n.last = m.last /\ n.started = m.started
        /\ n.queue = m.queue /\ n.applied = m.applied /\ n.open = m.open /\ n.tail = m.tail
        /\ n.usage = m.usage /\ n.susp = susp /\ n.inject = m.inject
    BY DEF MemType
  <2> HIDE DEF k, n
  <2>3. Mirrors(n, k) BY <2>1, <2>2 DEF Mirrors, SameRun, SamePlaces, SameFrontier
  <2> QED BY <2>3 DEF k, n
<1>5. Mirrors([m EXCEPT !.seen = seen], RunStarted(j))
  <2> DEFINE k == RunStarted(j)
             n == [m EXCEPT !.seen = seen]
  <2>1. SamePlaces(j, k) /\ SameFrontier(j, k) /\ SameRun(j, k) BY ProgressFields
  <2>2. /\ n.run = m.run /\ n.limit = m.limit /\ n.last = m.last /\ n.started = m.started
        /\ n.queue = m.queue /\ n.applied = m.applied /\ n.open = m.open /\ n.tail = m.tail
        /\ n.usage = m.usage /\ n.susp = m.susp /\ n.inject = m.inject
    BY DEF MemType
  <2> HIDE DEF k, n
  <2>3. Mirrors(n, k) BY <2>1, <2>2 DEF Mirrors, SameRun, SamePlaces, SameFrontier
  <2> QED BY <2>3 DEF k, n
<1> QED BY <1>1, <1>2, <1>3, <1>4, <1>5

\* The hook moves queued entries to the drained ones and remembers them.
LEMMA HookMirrors ==
  ASSUME NEW m \in MemType, NEW j \in JournalType, Mirrors(m, j), NEW entries,
         entries \subseteq j.queue
  PROVE  Mirrors([m EXCEPT !.queue = Without(@, Ids(entries)), !.inject = entries],
                 QueueDrained(j, Ids(entries)))
<1> DEFINE k == QueueDrained(j, Ids(entries))
           n == [m EXCEPT !.queue = Without(@, Ids(entries)), !.inject = entries]
<1>1. /\ SameRun(j, k) /\ SameFrontier(j, k) /\ k.queue = Without(j.queue, Ids(entries))
      /\ k.drained = j.drained \cup Only(j.queue, Ids(entries)) /\ k.applied = j.applied
  BY DEF QueueDrained, JournalType, SameRun, SameFrontier
<1>2. /\ n.run = m.run /\ n.limit = m.limit /\ n.last = m.last /\ n.started = m.started
      /\ n.queue = Without(m.queue, Ids(entries)) /\ n.applied = m.applied
      /\ n.open = m.open /\ n.tail = m.tail
      /\ n.usage = m.usage /\ n.susp = m.susp /\ n.inject = entries
  BY DEF MemType
<1>3. entries \subseteq k.drained BY <1>1 DEF Only, Ids
<1> HIDE DEF k, n
<1>4. Mirrors(n, k) BY <1>1, <1>2, <1>3 DEF Mirrors, SameRun, SameFrontier
<1> QED BY <1>4 DEF k, n

\* The injection writes the entries that the hook drained.
LEMMA InjectMirrors ==
  ASSUME NEW m \in MemType, NEW j \in JournalType, Mirrors(m, j), Placed(j), j.run # NoRun
  PROVE  Good([m EXCEPT !.applied = Into(@, Ids(m.inject), m.run), !.tail = "user",
                        !.inject = {}],
              InputsApplied(j, m.inject))
<1> DEFINE k == InputsApplied(j, m.inject)
           n == [m EXCEPT !.applied = Into(@, Ids(m.inject), m.run), !.tail = "user",
                          !.inject = {}]
<1>1. /\ SameRun(j, k) /\ k.queue = j.queue /\ k.applied = Into(j.applied, Ids(m.inject), j.run)
      /\ k.open = j.open /\ k.tail = "user"
  BY DEF InputsApplied, JournalType, SameRun
<1>2. /\ n.run = m.run /\ n.limit = m.limit /\ n.last = m.last /\ n.started = m.started
      /\ n.queue = m.queue /\ n.applied = Into(m.applied, Ids(m.inject), m.run)
      /\ n.open = m.open /\ n.tail = "user"
      /\ n.usage = m.usage /\ n.susp = m.susp /\ n.inject = {}
  BY DEF MemType
<1>3. Ids(m.inject) \subseteq Ids(j.drained) BY DEF Mirrors, Ids
<1>4. Placed(k) BY <1>3, AppliedPlaced
<1> HIDE DEF k, n
<1>5. Mirrors(n, k) /\ Settled(k) BY <1>1, <1>2 DEF Mirrors, SameRun, Settled
<1> QED BY <1>4, <1>5 DEF Good, k, n

\* Steps of the drive keep handle and journal together.
LEMMA DriverFaithful ==
  ASSUME TypeInv, Coherent, Faithful, Driver
  PROVE  Faithful'
<1>1. ~At("none") /\ lock /\ state # "Faulted" =>
        /\ Live /\ state \in Busy /\ Mirrors(mem, journal) /\ Placed(journal)
        /\ journal.run # NoRun /\ journal \in JournalType /\ mem \in MemType
  BY DrivenMirrors
<1>2. CASE \/ Launch \/ ResumeFails \/ ResolveSuspended \/ StartFails \/ BeginTurn
           \/ ModelFails \/ CandidateValid \/ GateDefers \/ GateAdmits \/ GateFails
           \/ ToolsReturn \/ HandlerDefers \/ HookRefuses
  <2>1. UNCHANGED <<state, mem, journal, lock>> BY <1>2
    DEF Launch, ResumeFails, ResolveSuspended, StartFails, BeginTurn, ModelFails,
        CandidateValid, GateDefers, GateAdmits, GateFails, ToolsReturn, HandlerDefers,
        HookRefuses, Loop, Leave, Undriven
  <2> QED BY <2>1, QuietFaithful DEF Faithful, Live
<1>3. CASE StartRun
  <2> DEFINE j == RunStarted(journal)
             m == [mem EXCEPT !.seen = @ \/ mem.resuming]
  <2>1. ~At("none") /\ Emit(j, m, [drv EXCEPT !.pc = drv.next]) BY <1>3 DEF StartRun, At
  <2>2. ASSUME lock, state # "Faulted" PROVE Good(m, j)
    <3>1. Mirrors([mem EXCEPT !.seen = mem.seen \/ mem.resuming], j)
      BY <1>1, <2>1, <2>2, ProgressMirrors
    <3>2. SamePlaces(journal, j) /\ j.run = journal.run
      BY <1>1, <2>1, <2>2, ProgressFields DEF SameRun
    <3> QED BY <1>1, <2>1, <2>2, <3>1, <3>2, EventGood
  <2> HIDE DEF j, m
  <2> QED BY <2>1, <2>2, EmitFaithful
<1>4. ASSUME NEW n \in 0..Cardinality(Calls), ModelAnswers(n)
      PROVE  Faithful'
  <2> DEFINE calls == (journal.calls + 1)..(journal.calls + n)
             j == AssistantCommitted(journal, calls)
             m == [mem EXCEPT !.open = calls, !.tail = "assistant"]
             d == [drv EXCEPT !.used = @ + 1, !.cand = FALSE, !.fatal = FALSE,
                              !.pc = IF n = 0 THEN "evaluate" ELSE "gate"]
  <2>1. ~At("none") /\ Emit(j, m, d) BY <1>4 DEF ModelAnswers, At
  <2>2. ASSUME lock, state # "Faulted" PROVE Good(m, j)
    <3>1. Mirrors(m, j) BY <1>1, <2>1, <2>2, MessageMirrors
    <3>2. SamePlaces(journal, j) /\ j.run = journal.run
      BY <1>1, <2>1, <2>2, EventFields DEF SameRun
    <3> QED BY <1>1, <2>1, <2>2, <3>1, <3>2, EventGood
  <2> HIDE DEF j, m, d
  <2> QED BY <2>1, <2>2, EmitFaithful
<1>5. CASE CandidateInvalid
  <2> DEFINE j == UserMessage(journal)
             m == [mem EXCEPT !.tail = "user", !.inject = {}]
  <2>1. PICK fatal \in BOOLEAN : Emit(j, m, [drv EXCEPT !.pc = "ended", !.fatal = fatal])
    BY <1>5 DEF CandidateInvalid
  <2>2. ~At("none") BY <1>5 DEF CandidateInvalid, At
  <2>3. ASSUME lock, state # "Faulted" PROVE Good(m, j)
    <3>1. Mirrors(m, j) BY <1>1, <2>2, <2>3, MessageMirrors
    <3>2. SamePlaces(journal, j) /\ j.run = journal.run
      BY <1>1, <2>2, <2>3, EventFields DEF SameRun
    <3> QED BY <1>1, <2>2, <2>3, <3>1, <3>2, EventGood
  <2> HIDE DEF j, m
  <2> QED BY <2>1, <2>2, <2>3, EmitFaithful
<1>6. CASE StartTool
  <2>1. PICK c \in drv.todo :
          Emit(ToolStarted(journal, c), [mem EXCEPT !.started = @ \cup {c}],
               [drv EXCEPT !.todo = @ \ {c}])
    BY <1>6 DEF StartTool
  <2> DEFINE j == ToolStarted(journal, c)
             m == [mem EXCEPT !.started = @ \cup {c}]
  <2>2. ~At("none") BY <1>6 DEF StartTool, At
  <2>3. ASSUME lock, state # "Faulted" PROVE Good(m, j)
    <3>1. Mirrors(m, j) BY <1>1, <2>2, <2>3, ProgressMirrors
    <3>2. SamePlaces(journal, j) BY <1>1, <2>2, <2>3, EventFields
    <3>3. j.run = journal.run BY <1>1, <2>2, <2>3, StartFields
    <3> QED BY <1>1, <2>2, <2>3, <3>1, <3>2, <3>3, EventGood
  <2> HIDE DEF j, m
  <2>4. Emit(j, m, [drv EXCEPT !.todo = @ \ {c}]) BY <2>1 DEF j, m
  <2> QED BY <2>2, <2>3, <2>4, EmitFaithful
<1>7. CASE CommitResult
  <2>1. CASE Loop("ended") BY <2>1, QuietFaithful DEF Faithful, Live, Loop, Undriven
  <2>2. ASSUME NEW c \in mem.open,
               Emit(ToolResult(journal, c),
                    [mem EXCEPT !.open = @ \ {c}, !.tail = "tool"], drv)
        PROVE  Faithful'
    <3> DEFINE j == ToolResult(journal, c)
               m == [mem EXCEPT !.open = @ \ {c}, !.tail = "tool"]
    <3>1. ~At("none") BY <1>7 DEF CommitResult, At
    <3>2. ASSUME lock, state # "Faulted" PROVE Good(m, j)
      <4>1. Mirrors(m, j) BY <1>1, <3>1, <3>2, MessageMirrors
      <4>2. SamePlaces(journal, j) /\ j.run = journal.run
        BY <1>1, <3>1, <3>2, EventFields, ZenonT(60) DEF SameRun
      <4> QED BY <1>1, <3>1, <3>2, <4>1, <4>2, EventGood
    <3> HIDE DEF j, m
    <3>3. Emit(j, m, drv) BY <2>2 DEF j, m
    <3> QED BY <3>1, <3>2, <3>3, EmitFaithful
  <2> QED BY <1>7, <2>1, <2>2 DEF CommitResult
<1>8. CASE EndTurn
  <2> DEFINE j == UsageRecorded(journal, drv.used, mem.usage + Delta)
             m == [mem EXCEPT !.usage = mem.usage + Delta, !.last = drv.used]
             d == IF drv.fatal THEN [drv EXCEPT !.pc = "return", !.outcome = "Failed"]
                               ELSE [drv EXCEPT !.pc = "hook"]
  <2>1. ~At("none") /\ Emit(j, m, d) BY <1>8 DEF EndTurn, At
  <2>2. ASSUME lock, state # "Faulted" PROVE Good(m, j)
    <3>1. Mirrors(m, j) BY <1>1, <2>1, <2>2, ProgressMirrors
    <3>2. SamePlaces(journal, j) BY <1>1, <2>1, <2>2, ProgressFields
    <3>3. j.run = journal.run BY <1>1, <2>1, <2>2, ProgressOfRun
    <3> QED BY <1>1, <2>1, <2>2, <3>1, <3>2, <3>3, EventGood
  <2> HIDE DEF j, m, d
  <2> QED BY <2>1, <2>2, EmitFaithful
<1>9. CASE InjectMessages
  <2> DEFINE j == InputsApplied(journal, mem.inject)
             m == [mem EXCEPT !.applied = Into(@, Ids(mem.inject), mem.run),
                              !.tail = "user", !.inject = {}]
  <2>1. ~At("none") /\ Emit(j, m, [drv EXCEPT !.pc = "turn"]) BY <1>9 DEF InjectMessages, At
  <2>2. ASSUME lock, state # "Faulted" PROVE Good(m, j) BY <1>1, <2>1, <2>2, InjectMirrors
  <2> HIDE DEF j, m
  <2> QED BY <2>1, <2>2, EmitFaithful
<1>10. CASE CompleteRun
  <2> DEFINE j == RunCompleted(journal)
  <2>1. ~At("none") /\ Emit(j, mem, [drv EXCEPT !.pc = "return", !.outcome = "Completed"])
    BY <1>10 DEF CompleteRun, At
  <2>2. ASSUME lock, state # "Faulted" PROVE Good(mem, j)
    <3>1. Mirrors(mem, j) BY <1>1, <2>1, <2>2, ProgressMirrors
    <3>2. SamePlaces(journal, j) BY <1>1, <2>1, <2>2, ProgressFields
    <3>3. j.run = journal.run BY <1>1, <2>1, <2>2, ProgressOfRun
    <3> QED BY <1>1, <2>1, <2>2, <3>1, <3>2, <3>3, EventGood
  <2> HIDE DEF j
  <2> QED BY <2>1, <2>2, EmitFaithful
<1>11. CASE SuspendRun
  <2> DEFINE susp == [kind |-> drv.kind, id |-> journal.susps + 1, used |-> drv.used]
             j == RunSuspended(journal, susp)
             m == [mem EXCEPT !.susp = susp]
  <2>1. ~At("none") /\ Emit(j, m, [drv EXCEPT !.pc = "return", !.outcome = "Suspended"])
    BY <1>11 DEF SuspendRun, At
  <2> HIDE DEF susp
  <2>2. ASSUME lock, state # "Faulted" PROVE Good(m, j)
    <3>1. Mirrors(m, j) BY <1>1, <2>1, <2>2, ProgressMirrors
    <3>2. SamePlaces(journal, j) BY <1>1, <2>1, <2>2, ProgressFields
    <3>3. j.run = journal.run BY <1>1, <2>1, <2>2, ProgressOfRun
    <3> QED BY <1>1, <2>1, <2>2, <3>1, <3>2, <3>3, EventGood
  <2> HIDE DEF j, m
  <2> QED BY <2>1, <2>2, EmitFaithful
<1>12. CASE HookEnds
  <2>1. state = "Running" /\ state' \in {"Running", "Closing"} /\ UNCHANGED <<mem, journal, lock>>
    BY <1>12 DEF HookEnds, Undriven
  <2> QED BY <2>1, QuietFaithful DEF Faithful, Live, Attached, Busy
<1>13. CASE HookInjects
  <2> DEFINE j == QueueDrained(journal, Ids(Boundary))
             m == [mem EXCEPT !.queue = Without(@, Ids(Boundary)), !.inject = Boundary]
  <2>1. /\ ~At("none") /\ state = "Running" /\ UNCHANGED lock
        /\ Commit(j, m, state) \/ AppendError(j)
    BY <1>13 DEF HookInjects, At, Undriven
  <2>2. ASSUME lock PROVE Good(m, j)
    <3>1. /\ Mirrors(mem, journal) /\ Placed(journal)
          /\ journal.run # NoRun /\ journal \in JournalType /\ mem \in MemType
      BY <1>1, <2>1, <2>2
    <3>2. Boundary \subseteq journal.queue BY <3>1 DEF Boundary, OfKind, Mirrors
    <3>3. Mirrors(m, j) BY <3>1, <3>2, HookMirrors
    <3>4. Placed(j) BY <3>1, DrainedPlaced
    <3>5. j.run = journal.run BY <3>1 DEF QueueDrained, JournalType
    <3> QED BY <3>1, <3>3, <3>4, <3>5 DEF Good, Settled
  <2> HIDE DEF j, m
  <2> QED BY <2>1, <2>2, BatchFaithful
<1>14. QED
  BY <1>2, <1>3, <1>4, <1>5, <1>6, <1>7, <1>8, <1>9, <1>10, <1>11, <1>12, <1>13 DEF Driver

-----------------------------------------------------------------------------
(***************************************************************************)
(* Batches that open and close a run.                                      *)
(***************************************************************************)
\* What a handle holds with a new run, and without a run.
LEMMA MemFields ==
  ASSUME NEW m \in MemType, NEW run, NEW limit
  PROVE  /\ LET n == NewRun(m, run, limit)
            IN /\ n.run = run /\ n.limit = limit /\ n.last = 0 /\ n.started = {}
               /\ n.queue = m.queue /\ n.applied = m.applied /\ n.open = m.open
               /\ n.tail = m.tail /\ n.usage = m.usage /\ n.susp = m.susp /\ n.inject = {}
         /\ LET n == Detached(m)
            IN /\ n.run = NoRun /\ n.limit = 0 /\ n.last = 0 /\ n.started = {}
               /\ n.queue = m.queue /\ n.applied = m.applied /\ n.open = m.open
               /\ n.tail = m.tail /\ n.usage = m.usage /\ n.susp = NoSuspension
               /\ n.inject = {}
<1>1. LET n == NewRun(m, run, limit)
      IN /\ n.run = run /\ n.limit = limit /\ n.last = 0 /\ n.started = {}
         /\ n.queue = m.queue /\ n.applied = m.applied /\ n.open = m.open
         /\ n.tail = m.tail /\ n.usage = m.usage /\ n.susp = m.susp /\ n.inject = {}
  BY DEF NewRun, MemType
<1>2. LET n == Detached(m)
      IN /\ n.run = NoRun /\ n.limit = 0 /\ n.last = 0 /\ n.started = {}
         /\ n.queue = m.queue /\ n.applied = m.applied /\ n.open = m.open
         /\ n.tail = m.tail /\ n.usage = m.usage /\ n.susp = NoSuspension
         /\ n.inject = {}
  BY DEF Detached, NewRun, MemType
<1>3. QED BY <1>1, <1>2

\* What a batch that settles a run leaves in the journal.
LEMMA ClosedFields ==
  ASSUME NEW j, JournalOK(j), NEW m, MemOK(m), NEW used \in Nat, used >= m.last,
         m.usage = j.usage, NEW cancels \in SUBSET Inputs, NEW status
  PROVE  LET k == RunClosed(QueueCancelled(Charged(j, m, used), cancels), status)
         IN /\ k.run = NoRun /\ k.limit = 0 /\ k.last = 0 /\ k.started = {}
            /\ k.susp = NoSuspension /\ k.usage = m.usage + (used - m.last)
            /\ k.queue = Without(j.queue, cancels) /\ k.drained = Without(j.drained, cancels)
            /\ k.applied = j.applied /\ k.completed = j.completed
            /\ SameFrontier(j, k)
            /\ Placed(j) /\ cancels \subseteq Ids(j.queue) => Placed(k)
<1> DEFINE c == Charged(j, m, used)
           q == QueueCancelled(c, cancels)
           k == RunClosed(q, status)
<1>1. c \in JournalType /\ j \in JournalType BY ChargedOK DEF JournalOK
<1>2. /\ SamePlaces(j, c) /\ SameFrontier(j, c) /\ c.completed = j.completed
      /\ c.usage = m.usage + (used - m.last)
  <2>1. CASE used = m.last
    <3>1. m.usage = m.usage + (used - m.last) BY <2>1 DEF MemOK, MemType
    <3> QED BY <2>1, <3>1 DEF Charged, SamePlaces, SameFrontier
  <2>2. CASE used # m.last
    <3>1. c = UsageRecorded(j, used, m.usage + (used - m.last)) BY <2>2 DEF Charged
    <3> HIDE DEF c
    <3>2. SamePlaces(j, c) /\ SameFrontier(j, c) BY <1>1, <3>1, ProgressFields
    <3>3. c.completed = j.completed /\ c.usage = m.usage + (used - m.last)
      BY <1>1, <3>1 DEF UsageRecorded, JournalType
    <3> QED BY <3>2, <3>3
  <2> QED BY <2>1, <2>2
<1> HIDE DEF c
<1>3. /\ SameRun(c, q) /\ SameFrontier(c, q) /\ q.queue = Without(c.queue, cancels)
      /\ q.drained = Without(c.drained, cancels) /\ q.applied = c.applied
  BY <1>1, QueueFields, ZenonT(30)
<1>4. q \in JournalType BY <1>1, QueueCancelledType
<1>5. Placed(j) /\ cancels \subseteq Ids(j.queue) => Placed(q)
  <2>1. Placed(j) => Placed(c) BY <1>2, PlacesKept
  <2>2. Ids(c.queue) = Ids(j.queue) BY <1>2 DEF SamePlaces
  <2> QED BY <1>1, <2>1, <2>2, CancelledPlaced
<1> HIDE DEF q
<1>6. /\ SamePlaces(q, k) /\ SameFrontier(q, k) /\ k.run = NoRun /\ k.limit = 0
      /\ k.last = 0 /\ k.started = {} /\ k.susp = NoSuspension /\ k.usage = q.usage
      /\ k.completed = q.completed
  BY <1>4, RunClosedFields
<1> HIDE DEF k
<1>7. Placed(q) => Placed(k) BY <1>6, PlacesKept
<1>8. SameFrontier(j, k) BY <1>2, <1>3, <1>6 DEF SameFrontier
<1>9. /\ k.usage = m.usage + (used - m.last) /\ k.completed = j.completed
      /\ k.queue = Without(j.queue, cancels) /\ k.drained = Without(j.drained, cancels)
      /\ k.applied = j.applied
  BY <1>2, <1>3, <1>6 DEF SameRun, SamePlaces
<1> QED
  BY <1>5, <1>6, <1>7, <1>8, <1>9 DEF k, q, c

\* A settled handle mirrors the batch that settled its run.
LEMMA ClosedGood ==
  ASSUME NEW j, JournalOK(j), NEW m, MemOK(m), NEW used \in Nat, used >= m.last,
         Placed(j), Mirrors(m, j), NEW cancels, cancels \subseteq Ids(m.queue), NEW status
  PROVE  LET n == [Detached(m) EXCEPT !.usage = @ + (used - m.last),
                                      !.queue = Without(@, cancels)]
         IN /\ Good(n, RunClosed(QueueCancelled(Charged(j, m, used), cancels), status))
            /\ n.susp = NoSuspension
<1> DEFINE k == RunClosed(QueueCancelled(Charged(j, m, used), cancels), status)
           n == [Detached(m) EXCEPT !.usage = @ + (used - m.last), !.queue = Without(@, cancels)]
<1>1. m \in MemType /\ m.usage = j.usage /\ m.queue = j.queue BY DEF MemOK, Mirrors
<1>2. cancels \in SUBSET Inputs BY <1>1, IdsAreInputs DEF MemType
<1>3. cancels \subseteq Ids(j.queue) BY <1>1
<1>4. /\ k.run = NoRun /\ k.limit = 0 /\ k.last = 0 /\ k.started = {}
      /\ k.susp = NoSuspension /\ k.usage = m.usage + (used - m.last)
      /\ k.queue = Without(j.queue, cancels) /\ k.applied = j.applied
      /\ SameFrontier(j, k) /\ Placed(k)
  BY <1>1, <1>2, <1>3, ClosedFields
<1>5. Detached(m) \in MemType BY <1>1, DetachedType
<1>6. /\ n.run = NoRun /\ n.limit = 0 /\ n.last = 0 /\ n.started = {}
      /\ n.queue = Without(m.queue, cancels) /\ n.applied = m.applied /\ n.open = m.open
      /\ n.tail = m.tail /\ n.usage = m.usage + (used - m.last) /\ n.susp = NoSuspension
      /\ n.inject = {}
  BY <1>1, <1>5, MemFields DEF MemType
<1> HIDE DEF k, n
<1>7. Mirrors(n, k) /\ Settled(k) BY <1>4, <1>6 DEF Mirrors, SameFrontier, Settled
<1> QED
  BY <1>4, <1>6, <1>7 DEF Good, k, n

\* So does the handle that finishInterrupt leaves, with the frontier repaired.
LEMMA InterruptedGood ==
  ASSUME NEW m, JournalOK(journal), MemOK(m), NEW used \in Nat, used >= m.last,
         Placed(journal), Mirrors(m, journal)
  PROVE  /\ Good(AfterInterrupt(m, used), InterruptBatch(m, used))
         /\ AfterInterrupt(m, used).susp = NoSuspension
<1> DEFINE f == FrontierClosed(journal)
           cancels == RunScopedIds(m.queue)
           k == RunClosed(QueueCancelled(Charged(f, m, used), cancels), "Interrupted")
           n == AfterInterrupt(m, used)
<1>1. m \in MemType /\ m.usage = journal.usage /\ m.queue = journal.queue
      /\ journal \in JournalType
  BY DEF MemOK, Mirrors, JournalOK
<1>2. cancels \in SUBSET Inputs /\ cancels \subseteq Ids(m.queue)
  BY <1>1, IdsAreInputs DEF MemType, RunScopedIds, OfKind, Ids
<1>3. /\ SamePlaces(journal, f) /\ SameRun(journal, f) /\ f.open = {}
      /\ f.tail = (IF journal.open = {} THEN journal.tail ELSE "tool")
  BY <1>1, RepairFields
<1>4. JournalOK(f)
  <2>1. f \in JournalType BY <1>1, FrontierClosedType
  <2>2. f.run = journal.run /\ f.last = journal.last /\ f.usage = journal.usage
    BY <1>3 DEF SameRun
  <2> QED BY <2>1, <2>2, CountersKept
<1>5. Placed(f) /\ m.usage = f.usage /\ cancels \subseteq Ids(f.queue)
  BY <1>1, <1>2, <1>3, PlacesKept DEF SameRun, SamePlaces
<1> HIDE DEF f, cancels
<1>6. /\ k.run = NoRun /\ k.limit = 0 /\ k.last = 0 /\ k.started = {}
      /\ k.susp = NoSuspension /\ k.usage = m.usage + (used - m.last)
      /\ k.queue = Without(f.queue, cancels) /\ k.applied = f.applied
      /\ SameFrontier(f, k) /\ Placed(k)
  BY <1>2, <1>4, <1>5, ClosedFields
<1>7. Detached(m) \in MemType BY <1>1, DetachedType
<1>8. /\ n.run = NoRun /\ n.limit = 0 /\ n.last = 0 /\ n.started = {}
      /\ n.queue = Without(m.queue, cancels) /\ n.applied = m.applied /\ n.open = {}
      /\ n.tail = (IF m.open = {} THEN m.tail ELSE "tool")
      /\ n.usage = m.usage + (used - m.last) /\ n.susp = NoSuspension /\ n.inject = {}
  BY <1>1, <1>7, MemFields DEF MemType, AfterInterrupt, cancels
<1>9. k = InterruptBatch(m, used) BY DEF InterruptBatch, f, cancels
<1> HIDE DEF k, n
<1>10. Mirrors(n, k) /\ Settled(k)
  BY <1>3, <1>6, <1>8 DEF Mirrors, SameFrontier, SamePlaces, Settled
<1> QED
  BY <1>6, <1>8, <1>9, <1>10 DEF Good, n

\* A handle loaded from its journal mirrors it.
LEMMA LoadedGood ==
  ASSUME NEW j \in JournalType, Placed(j), Settled(j)
  PROVE  Good(Loaded(j), j) /\ Loaded(j).susp = j.susp
BY DEF Good, Mirrors, Loaded

-----------------------------------------------------------------------------
(***************************************************************************)
(* Every step keeps the invariant.                                         *)
(***************************************************************************)
\* Settling a run keeps handle and journal together.
LEMMA FinishFaithful ==
  ASSUME TypeInv, Coherent, Faithful, Finish
  PROVE  Faithful'
<1>1. ~At("none") /\ UNCHANGED lock
  BY DEF Finish, FinishFaulted, FinishInterrupted, FinishBounced, FinishUnusable,
         FinishSuspended, FinishClosed, SettleInterrupt, Settling, Loop, Undriven, At
<1>2. lock /\ state # "Faulted" =>
        /\ Live /\ state \in Busy /\ Mirrors(mem, journal) /\ Placed(journal)
        /\ journal.run # NoRun /\ mem.run = journal.run
  BY <1>1, DrivenMirrors, DrivenRun
<1>3. /\ journal \in JournalType /\ JournalOK(journal) /\ mem \in MemType /\ MemOK(mem)
  BY DEF TypeInv, JournalOK, MemOK
<1>4. PersistFault => Faithful'
  <2>1. SamePlaces(journal, FaultRecorded(journal)) /\ SameRun(journal, FaultRecorded(journal))
    BY <1>3 DEF FaultRecorded, JournalType, SamePlaces, SameRun
  <2>2. Placed(FaultRecorded(journal)) /\ Settled(FaultRecorded(journal))
    BY <2>1, PlacesKept DEF Faithful, SameRun, Settled
  <2>3. ASSUME PersistFault PROVE Faithful'
    <3>1. journal' \in {journal, FaultRecorded(journal)} /\ ~Live'
      BY <2>3 DEF PersistFault, Live, Attached, Busy
    <3> QED BY <2>2, <3>1 DEF Faithful, Placed, Settled, AppliedIds, AcceptedIds
  <2> QED BY <2>3
<1>5. CASE FinishFaulted
  BY <1>5, QuietFaithful DEF FinishFaulted, Live, Attached, Busy, Undriven
<1>6. CASE FinishInterrupted
  BY <1>6, QuietFaithful DEF FinishInterrupted, Loop, Undriven, Faithful, Live
<1>7. CASE FinishBounced
  <2> DEFINE m == [mem EXCEPT !.resuming = FALSE]
  <2>1. /\ state' = "Suspended" /\ mem' = m /\ journal' = journal /\ state # "Faulted"
    BY <1>7 DEF FinishBounced, Settling
  <2>2. lock => Mirrors(m, journal) BY <1>2, <1>3, <2>1 DEF Mirrors, MemType
  <2> HIDE DEF m
  <2> QED BY <1>1, <2>1, <2>2
          DEF Faithful, Live, Placed, Settled, Mirrors, AppliedIds, AcceptedIds
<1>8. CASE FinishUnusable BY <1>4, <1>8 DEF FinishUnusable
<1>9. CASE FinishSuspended
  <2> DEFINE session == mem.usage + (drv.used - mem.last)
             j == UsageRecorded(journal, drv.used, session)
             m == [mem EXCEPT !.usage = session, !.last = drv.used, !.resuming = FALSE]
  <2>1. state # "Faulted" /\ drv.used >= mem.last BY <1>9 DEF FinishSuspended, Settling
  <2>2. CASE drv.used = mem.last
    <3>1. session = mem.usage BY <1>3, <2>2 DEF MemType
    <3>2. lock => Mirrors(m, journal) BY <1>2, <1>3, <2>1, <2>2, <3>1 DEF Mirrors, MemType
    <3>3. state' = "Suspended" /\ mem' = m /\ journal' = journal
      BY <1>9, <2>2 DEF FinishSuspended
    <3> HIDE DEF m
    <3> QED BY <1>1, <3>2, <3>3
            DEF Faithful, Live, Placed, Settled, Mirrors, AppliedIds, AcceptedIds
  <2>3. CASE drv.used # mem.last
    <3>1. Commit(j, m, "Suspended") \/ AppendError(j)
      BY <1>9, <2>3 DEF FinishSuspended, Charged, Commit
    <3>2. lock => Good(m, j)
      <4> SUFFICES ASSUME lock PROVE Good(m, j)
        OBVIOUS
      <4>1. SamePlaces(journal, j) BY <1>3, ProgressFields
      <4>2. /\ j.run = journal.run /\ j.limit = journal.limit /\ j.started = journal.started
            /\ j.susp = journal.susp /\ j.last = drv.used /\ j.usage = session
            /\ j.open = journal.open /\ j.tail = journal.tail
        BY <1>2, <1>3, <2>1 DEF UsageRecorded, JournalType
      <4>3. /\ m.run = mem.run /\ m.limit = mem.limit /\ m.last = drv.used
            /\ m.started = mem.started /\ m.queue = mem.queue /\ m.applied = mem.applied
            /\ m.open = mem.open /\ m.tail = mem.tail /\ m.usage = session
            /\ m.susp = mem.susp /\ m.inject = mem.inject
        BY <1>3 DEF MemType
      <4> HIDE DEF m, j
      <4>4. Mirrors(m, j) BY <1>2, <2>1, <4>1, <4>2, <4>3 DEF Mirrors, SamePlaces
      <4> QED BY <1>2, <2>1, <4>1, <4>2, <4>4, EventGood
    <3> HIDE DEF m, j
    <3> QED BY <1>1, <3>1, <3>2, BatchFaithful
  <2> QED BY <2>2, <2>3
<1>10. CASE FinishClosed
  <2> DEFINE status  == IF drv.outcome = "Completed" THEN "Completed" ELSE "Failed"
             cancels == IF status = "Completed" THEN {} ELSE RunScopedIds(mem.queue)
             j == RunClosed(QueueCancelled(Charged(journal, mem, Used(mem)), cancels), status)
             m == [Detached(mem) EXCEPT !.usage = @ + (Used(mem) - mem.last),
                                        !.queue = Without(@, cancels)]
  <2>1. /\ state # "Faulted" /\ Used(mem) >= mem.last /\ Used(mem) \in Nat
        /\ Commit(j, m, "Idle") \/ AppendError(j)
    BY <1>10, UsedType DEF FinishClosed, Settling
  <2>2. cancels \subseteq Ids(mem.queue) BY DEF RunScopedIds, OfKind, Ids
  <2> HIDE DEF status, cancels
  <2>3. lock => Good(m, j) /\ m.susp = NoSuspension BY <1>2, <1>3, <2>1, <2>2, ClosedGood
  <2> HIDE DEF m, j
  <2> QED BY <1>1, <2>1, <2>3, BatchFaithful
<1>11. CASE SettleInterrupt
  <2>1. CASE NothingToInterrupt
    BY <1>1, <2>1, QuietFaithful DEF NothingToInterrupt, Faithful, Live
  <2>2. CASE Used(mem) >= mem.last /\ FinishInterrupt(Used(mem))
    <3> DEFINE j == InterruptBatch(mem, Used(mem))
               m == AfterInterrupt(mem, Used(mem))
    <3>1. /\ state # "Faulted" /\ Used(mem) \in Nat
          /\ Commit(j, m, "Idle") \/ AppendError(j)
      BY <2>2, UsedType DEF FinishInterrupt
    <3>2. lock => Good(m, j) /\ m.susp = NoSuspension
      BY <1>2, <1>3, <2>2, <3>1, InterruptedGood
    <3> HIDE DEF m, j
    <3> QED BY <1>1, <3>1, <3>2, BatchFaithful
  <2>3. CASE PersistFault BY <1>4, <2>3
  <2> QED BY <1>11, <2>1, <2>2, <2>3 DEF SettleInterrupt
<1>12. QED BY <1>5, <1>6, <1>7, <1>8, <1>9, <1>10, <1>11 DEF Finish

\* So does settling an interrupted suspension.
LEMMA SettleSuspendedFaithful ==
  ASSUME TypeInv, Coherent, Faithful, SettleSuspended
  PROVE  Faithful'
<1>1. settler /\ UNCHANGED lock /\ state # "Down" /\ JournalOK(journal) /\ MemOK(mem)
      /\ mem.last \in Nat
  BY DEF SettleSuspended, Coherent, GoneIsQuiet, TypeInv, MemOK, MemType
<1>2. CASE NothingToInterrupt
  BY <1>1, <1>2, QuietFaithful DEF NothingToInterrupt, Faithful, Live
<1>3. CASE FinishInterrupt(mem.last)
  <2> DEFINE j == InterruptBatch(mem, mem.last)
             m == AfterInterrupt(mem, mem.last)
  <2>1. /\ Commit(j, m, "Idle") \/ AppendError(j)
        /\ state # "Faulted"
    BY <1>3 DEF FinishInterrupt
  <2>2. lock => Mirrors(mem, journal) /\ Placed(journal) BY <1>1, <2>1
    DEF Faithful, Live, Coherent, ClosedIsUnlocked, TypeInv, States, Attached, Busy
  <2>3. lock => Good(m, j) /\ m.susp = NoSuspension BY <1>1, <2>2, InterruptedGood
  <2> HIDE DEF m, j
  <2> QED BY <1>1, <2>1, <2>3, BatchFaithful
<1> QED BY <1>2, <1>3 DEF SettleSuspended

\* Closing, abandoning or losing a handle writes nothing.
LEMMA OwnerFaithful ==
  ASSUME Faithful, Owner
  PROVE  Faithful'
BY QuietFaithful DEF Owner, Abandon, Close, Drop, Crash, NoHandle, Live, Attached, Busy

\* A prompt opens a run with the queued next-turn inputs in its transcript.
LEMMA StartGood ==
  ASSUME NEW j \in JournalType, NEW m \in MemType, Placed(j), Mirrors(m, j),
         m.susp = NoSuspension, NEW run \in Nat \ {NoRun}, NEW limit \in Nat, NEW next,
         next \subseteq j.queue
  PROVE  Good([NewRun(m, run, limit) EXCEPT !.queue = Without(@, Ids(next)), !.tail = "user",
                                            !.applied = Into(@, Ids(next), run)],
              UserMessage(InputsApplied(QueueDrained(RunOpened(j, run, limit), Ids(next)), next)))
<1> DEFINE ids == Ids(next)
           o == RunOpened(j, run, limit)
           d == QueueDrained(o, ids)
           g == InputsApplied(d, next)
           k == UserMessage(g)
           r == NewRun(m, run, limit)
           n == [r EXCEPT !.queue = Without(@, ids), !.tail = "user",
                          !.applied = Into(@, ids, run)]
<1>1. o \in JournalType /\ d \in JournalType /\ g \in JournalType
  BY RunOpenedType, QueueDrainedType, InputsAppliedType
<1>2. /\ SamePlaces(j, o) /\ SameFrontier(j, o) /\ o.run = run /\ o.limit = limit
      /\ o.last = 0 /\ o.started = {} /\ o.usage = j.usage /\ o.susp = NoSuspension
  BY DEF RunOpened, JournalType, SamePlaces, SameFrontier
<1> HIDE DEF o
<1>3. /\ SameRun(o, d) /\ SameFrontier(o, d) /\ d.queue = Without(o.queue, ids)
      /\ d.drained = o.drained \cup Only(o.queue, ids) /\ d.applied = o.applied
  BY <1>1 DEF QueueDrained, JournalType, SameRun, SameFrontier
<1>4. Placed(d) BY <1>1, <1>2, PlacesKept, DrainedPlaced
<1>5. Ids(next) \subseteq Ids(d.drained) BY <1>2, <1>3 DEF Ids, Only, SamePlaces
<1> HIDE DEF d
<1>6. /\ SameRun(d, g) /\ g.queue = d.queue /\ g.applied = Into(d.applied, ids, d.run)
      /\ g.open = d.open
  BY <1>1 DEF InputsApplied, JournalType, SameRun
<1>7. Placed(g) BY <1>1, <1>4, <1>5, AppliedPlaced
<1> HIDE DEF g
<1>8. SamePlaces(g, k) /\ SameRun(g, k) /\ k.open = g.open /\ k.tail = "user"
  BY <1>1, EventFields
<1>9. Placed(k) BY <1>7, <1>8, PlacesKept
<1>10. /\ r \in MemType /\ r.run = run /\ r.limit = limit /\ r.last = 0 /\ r.started = {}
       /\ r.queue = m.queue /\ r.applied = m.applied /\ r.open = m.open
       /\ r.usage = m.usage /\ r.susp = NoSuspension /\ r.inject = {}
  BY MemFields, NewRunType
<1> HIDE DEF r
<1>11. /\ n.run = run /\ n.limit = limit /\ n.last = 0 /\ n.started = {}
       /\ n.queue = Without(m.queue, ids) /\ n.applied = Into(m.applied, ids, run)
       /\ n.open = m.open /\ n.tail = "user" /\ n.usage = m.usage
       /\ n.susp = NoSuspension /\ n.inject = {}
  BY <1>10 DEF MemType
<1> HIDE DEF k, n
<1>12. Mirrors(n, k)
  BY <1>2, <1>3, <1>6, <1>8, <1>11 DEF Mirrors, SameRun, SamePlaces, SameFrontier
<1>13. Settled(k) BY <1>2, <1>3, <1>6, <1>8 DEF Settled, SameRun
<1> QED BY <1>9, <1>12, <1>13 DEF Good, n, k, r, g, d, o

\* A run that is opened over a repaired frontier: by recovery, which keeps the
\* run, and by an operator's resolution, which closes it first.
LEMMA ReopenedGood ==
  ASSUME NEW j \in JournalType, Placed(j), j.open = {}, NEW m \in MemType,
         m.queue = j.queue, m.applied = j.applied, m.usage = j.usage,
         NEW run \in Nat \ {NoRun}, NEW limit \in Nat, NEW tail, tail = j.tail
  PROVE  Good([NewRun(m, run, limit) EXCEPT !.open = {}, !.tail = tail,
                                            !.susp = NoSuspension],
              RunOpened(j, run, limit))
<1> DEFINE k == RunOpened(j, run, limit)
           r == NewRun(m, run, limit)
           n == [r EXCEPT !.open = {}, !.tail = tail, !.susp = NoSuspension]
<1>1. /\ SamePlaces(j, k) /\ SameFrontier(j, k) /\ k.run = run /\ k.limit = limit
      /\ k.last = 0 /\ k.started = {} /\ k.usage = j.usage /\ k.susp = NoSuspension
  BY DEF RunOpened, JournalType, SamePlaces, SameFrontier
<1>2. /\ r \in MemType /\ r.run = run /\ r.limit = limit /\ r.last = 0 /\ r.started = {}
      /\ r.queue = m.queue /\ r.applied = m.applied /\ r.usage = m.usage /\ r.inject = {}
  BY MemFields, NewRunType
<1> HIDE DEF r
<1>3. /\ n.run = run /\ n.limit = limit /\ n.last = 0 /\ n.started = {}
      /\ n.queue = m.queue /\ n.applied = m.applied /\ n.open = {} /\ n.tail = tail
      /\ n.usage = m.usage /\ n.susp = NoSuspension /\ n.inject = {}
  BY <1>2 DEF MemType
<1> HIDE DEF k, n
<1>4. Mirrors(n, k) BY <1>1, <1>3 DEF Mirrors, SamePlaces, SameFrontier
<1>5. k.run # NoRun BY <1>1
<1> QED BY <1>1, <1>4, <1>5, EventGood DEF n, k, r

\* Client calls keep handle and journal together.
LEMMA ClientFaithful ==
  ASSUME TypeInv, Coherent, Faithful, Client
  PROVE  Faithful'
<1>1. /\ mem \in MemType /\ mem.usage \in Nat /\ JournalOK(journal) /\ journal \in JournalType
      /\ journal.runs \in Nat /\ Placed(journal) /\ Settled(journal)
  BY DEF TypeInv, MemOK, MemType, JournalOK, JournalType, Faithful
<1>2. lock /\ state \in Attached =>
        /\ Mirrors(mem, journal) /\ mem.run = journal.run
        /\ state = "Idle" => mem.susp = NoSuspension
        /\ state = "Idle" <=> journal.run = NoRun
  BY DEF Coherent, LiveRun, Faithful, Live
<1>3. CASE Start
  <2> DEFINE run    == journal.runs + 1
             limit  == Remaining(mem.usage)
             next   == OfKind(mem.queue, {"next_turn"})
             drains == QueueDrained(RunOpened(journal, run, limit), Ids(next))
             j      == UserMessage(InputsApplied(drains, next))
             m      == [NewRun(mem, run, limit) EXCEPT
                          !.queue = Without(@, Ids(next)), !.tail = "user",
                          !.applied = Into(@, Ids(next), run)]
  <2>1. limit \in Nat /\ run \in Nat \ {NoRun} /\ state = "Idle"
    BY <1>1, <1>3, RemainingType DEF Start, NoRun
  <2>2. /\ Commit(j, m, "Running") \/ AppendError(j)
        /\ UNCHANGED lock
    BY <1>3 DEF Start, Unclient
  <2>3. lock => next \subseteq journal.queue BY <1>2, <2>1 DEF OfKind, Mirrors, Attached
  <2> HIDE DEF run, limit, next
  <2>4. lock => Good(m, j) BY <1>1, <1>2, <2>1, <2>3, StartGood DEF Attached
  <2> HIDE DEF m, j
  <2> QED BY <2>2, <2>4, BatchFaithful
<1>4. ASSUME NEW id \in Inputs, NEW kind \in QueueKinds, NEW target \in 0..MaxRuns,
             Accept(id, kind, target)
      PROVE  Faithful'
  <2> DEFINE entry == [id |-> id, kind |-> kind, at |-> Len(journal.accepted) + 1]
             j == QueueAccepted(journal, entry, target)
             m == [mem EXCEPT !.queue = @ \cup {entry}]
  <2>1. /\ Commit(j, m, state) \/ AppendError(j)
        /\ state \in Attached /\ UNCHANGED lock
    BY <1>4 DEF Accept, Acceptable, Unclient
  <2>2. entry \in QueueEntry /\ entry.id \notin AcceptedIds(journal) /\ target \in Nat
    <3>1. Len(journal.accepted) \in Nat BY <1>1 DEF JournalType
    <3>2. \A n \in DOMAIN journal.accepted : journal.accepted[n].id # id BY <1>4 DEF Accept
    <3> QED BY <3>1, <3>2 DEF QueueEntry, AcceptedIds
  <2> HIDE DEF entry
  <2>3. Placed(j) BY <1>1, <2>2, AcceptedPlaced
  <2>4. /\ SameRun(journal, j) /\ SameFrontier(journal, j)
        /\ j.queue = journal.queue \cup {entry} /\ j.drained = journal.drained
        /\ j.applied = journal.applied
    BY <1>1 DEF QueueAccepted, JournalType, SameRun, SameFrontier
  <2>5. /\ m.run = mem.run /\ m.limit = mem.limit /\ m.last = mem.last
        /\ m.started = mem.started /\ m.queue = mem.queue \cup {entry}
        /\ m.applied = mem.applied /\ m.open = mem.open /\ m.tail = mem.tail
        /\ m.usage = mem.usage /\ m.susp = mem.susp /\ m.inject = mem.inject
    BY <1>1 DEF MemType
  <2> HIDE DEF m, j
  <2>6. lock => Mirrors(m, j) BY <1>2, <2>1, <2>4, <2>5 DEF Mirrors, SameRun, SameFrontier
  <2>7. Settled(j) BY <1>1, <2>4 DEF Settled, SameRun
  <2>8. lock => Good(m, j) /\ (state = "Idle" => m.susp = NoSuspension)
    BY <1>2, <2>1, <2>3, <2>5, <2>6, <2>7 DEF Good
  <2> QED BY <2>1, <2>8, BatchFaithful
<1>5. ASSUME NEW target \in 0..MaxRuns, Interrupt(target)
      PROVE  Faithful'
  <2> DEFINE j == InterruptAccepted(journal, target)
  <2>1. /\ state \in Attached /\ state # "Idle" /\ UNCHANGED lock
        /\ \/ AppendError(j)
           \/ Commit(j, mem, "Interrupting")
           \/ state' = "Interrupting" /\ UNCHANGED <<mem, journal>>
    BY <1>5 DEF Interrupt, Attached, Busy
  <2>2. SamePlaces(journal, j) /\ SameRun(journal, j) /\ SameFrontier(journal, j)
    BY <1>1 DEF InterruptAccepted, JournalType, SamePlaces, SameRun, SameFrontier
  <2> HIDE DEF j
  <2>3. Placed(j) /\ Settled(j) BY <1>1, <2>2, PlacesKept DEF Settled, SameRun
  <2>4. lock => Good(mem, j)
    BY <1>2, <2>1, <2>2, <2>3 DEF Good, Mirrors, SamePlaces, SameRun, SameFrontier
  <2>5. CASE AppendError(j) \/ Commit(j, mem, "Interrupting")
    BY <2>1, <2>4, <2>5, BatchFaithful
  <2>6. CASE state' = "Interrupting" /\ UNCHANGED <<mem, journal>>
    BY <2>1, <2>6, QuietFaithful DEF Faithful, Live
  <2> QED BY <2>1, <2>5, <2>6
<1>6. ASSUME NEW id, NEW approved, Resume(id, approved)
      PROVE  Faithful'
  <2> DEFINE m == [mem EXCEPT !.resuming = TRUE, !.seen = FALSE]
  <2>1. /\ Commit(journal, m, "Running") \/ AppendError(journal)
        /\ state = "Suspended" /\ UNCHANGED lock
    BY <1>6 DEF Resume, Resumable, Unclient
  <2>2. lock => Good(m, journal) BY <1>1, <1>2, <2>1 DEF Good, Mirrors, MemType, Attached
  <2> HIDE DEF m
  <2> QED BY <2>1, <2>2, BatchFaithful
<1>7. ASSUME NEW id, ResumeIndeterminate(id)
      PROVE  Faithful'
  <2> DEFINE run    == journal.runs + 1
             limit  == Remaining(mem.usage)
             closed == RunClosed(journal, "Interrupted")
             paired == FrontierClosed(closed)
             tail   == IF mem.open = {} THEN mem.tail ELSE "tool"
             j      == RunOpened(paired, run, limit)
             m      == [NewRun(mem, run, limit) EXCEPT !.open = {}, !.tail = tail,
                                                       !.susp = NoSuspension]
  <2>1. limit \in Nat /\ run \in Nat \ {NoRun} /\ run \in Nat /\ state = "Suspended"
    BY <1>1, <1>7, RemainingType DEF ResumeIndeterminate, Resumable, NoRun
  <2>2. m = [NewRun(mem, run, limit) EXCEPT
               !.open = {}, !.tail = IF mem.open = {} THEN @ ELSE "tool",
               !.susp = NoSuspension]
    <3> DEFINE r == NewRun(mem, run, limit)
    <3>1. r \in MemType /\ r.tail = mem.tail BY <1>1, <2>1, NewRunType
    <3> HIDE DEF r
    <3>2. [r EXCEPT !.open = {}, !.tail = tail, !.susp = NoSuspension]
            = [r EXCEPT !.open = {}, !.tail = IF mem.open = {} THEN @ ELSE "tool",
                        !.susp = NoSuspension]
      BY <3>1 DEF MemType
    <3> QED BY <3>2 DEF r
  <2>3. /\ Commit(j, m, "Running") \/ AppendError(j)
        /\ UNCHANGED lock
    BY <1>7, <2>2 DEF ResumeIndeterminate, Unclient
  <2>4. closed \in JournalType /\ paired \in JournalType
    BY <1>1, RunClosedType, FrontierClosedType
  <2>5. SamePlaces(journal, closed) /\ SameFrontier(journal, closed) /\ closed.usage = journal.usage
    BY <1>1, RunClosedFields
  <2>6. /\ SamePlaces(closed, paired) /\ SameRun(closed, paired) /\ paired.open = {}
        /\ paired.tail = (IF closed.open = {} THEN closed.tail ELSE "tool")
    BY <2>4, RepairFields
  <2> HIDE DEF closed, paired, run, limit
  <2>7. Placed(paired) BY <1>1, <2>5, <2>6, PlacesKept
  <2>8. lock => /\ mem.queue = paired.queue /\ mem.applied = paired.applied
                /\ mem.usage = paired.usage /\ tail = paired.tail
    BY <1>2, <2>1, <2>5, <2>6 DEF Mirrors, SamePlaces, SameRun, SameFrontier, Attached
  <2> HIDE DEF tail
  <2>9. lock => Good(m, j) BY <1>1, <2>1, <2>4, <2>6, <2>7, <2>8, ReopenedGood
  <2> HIDE DEF m, j
  <2> QED BY <2>3, <2>9, BatchFaithful
<1>8. QED BY <1>3, <1>4, <1>5, <1>6, <1>7 DEF Client

\* A recovered handle mirrors the journal that recovery leaves.
LEMMA ReopenFaithful ==
  ASSUME NEW m, NEW j, Good(m, j), NEW s, NEW d, Reopen(j, m, s, d),
         s = "Idle" => m.susp = NoSuspension
  PROVE  Faithful'
BY DEF Reopen, Good, Faithful, Live, Placed, Settled, Mirrors, AppliedIds, AcceptedIds

\* Recovery keeps handle and journal together.
LEMMA RecoverFaithful ==
  ASSUME TypeInv, Coherent, Faithful, Recover
  PROVE  Faithful'
<1>1. /\ journal \in JournalType /\ JournalOK(journal) /\ journal.last \in Nat
      /\ journal.usage \in Nat /\ journal.run \in Nat /\ Placed(journal) /\ Settled(journal)
      /\ Folded \in MemType /\ MemOK(Folded) /\ Folded.last = journal.last
      /\ Good(Folded, journal) /\ Folded.susp = journal.susp
  BY LoadedOK, LoadedGood DEF TypeInv, JournalOK, JournalType, Faithful, Folded, Loaded, MemOK
<1>2. /\ Folded.open = journal.open /\ Folded.tail = journal.tail
      /\ Folded.queue = journal.queue /\ Folded.applied = journal.applied
      /\ Folded.usage = journal.usage /\ Mirrors(Folded, journal)
  BY <1>1 DEF Good, Mirrors
<1>3. state = "Down" /\ ~lock
  BY DEF Recover, RecoverInterrupted, RecoverCompleted, RecoverIdle, RecoverSuspended,
         RecoverInject, RecoverIndeterminate, RecoverContinue, RecoverOpenRun, Recovering,
         Coherent, GoneIsQuiet
<1>4. CASE RecoverInterrupted
  <2>1. /\ Good(AfterInterrupt(Folded, Folded.last), InterruptBatch(Folded, Folded.last))
        /\ AfterInterrupt(Folded, Folded.last).susp = NoSuspension
    BY <1>1, <1>2, InterruptedGood
  <2> QED BY <1>4, <2>1, ReopenFaithful DEF RecoverInterrupted
<1>5. CASE RecoverCompleted
  <2> DEFINE j == RunClosed(journal, "Completed")
             m == Detached(Folded)
  <2>1. /\ SamePlaces(journal, j) /\ SameFrontier(journal, j) /\ j.run = NoRun
        /\ j.limit = 0 /\ j.last = 0 /\ j.started = {} /\ j.susp = NoSuspension
        /\ j.usage = journal.usage
    BY <1>1, RunClosedFields
  <2>2. /\ m.run = NoRun /\ m.limit = 0 /\ m.last = 0 /\ m.started = {}
        /\ m.queue = Folded.queue /\ m.applied = Folded.applied /\ m.open = Folded.open
        /\ m.tail = Folded.tail /\ m.usage = Folded.usage /\ m.susp = NoSuspension
        /\ m.inject = {}
    BY <1>1 DEF Detached, NewRun, MemType
  <2>3. Reopen(j, m, "Idle", NoDriver) BY <1>5 DEF RecoverCompleted
  <2> HIDE DEF m, j
  <2>4. Mirrors(m, j) /\ Settled(j)
    BY <1>2, <2>1, <2>2 DEF Mirrors, SamePlaces, SameFrontier, Settled
  <2>5. Placed(j) BY <1>1, <2>1, PlacesKept
  <2> QED BY <2>2, <2>3, <2>4, <2>5, ReopenFaithful DEF Good
<1>6. CASE RecoverIdle
  <2>1. Folded.susp = NoSuspension BY <1>1, <1>6 DEF RecoverIdle, Settled
  <2> QED BY <1>1, <1>6, <2>1, ReopenFaithful DEF RecoverIdle
<1>7. CASE RecoverSuspended BY <1>1, <1>7, ReopenFaithful DEF RecoverSuspended
<1>8. CASE RecoverInject
  <2> DEFINE j == InputsApplied(journal, journal.drained)
  <2>1. Placed(j) BY <1>1, AppliedPlaced
  <2>2. Settled(j) BY <1>1 DEF Settled, InputsApplied, JournalType
  <2>3. journal' = j /\ ~lock' BY <1>3, <1>8 DEF RecoverInject
  <2> HIDE DEF j
  <2> QED BY <2>1, <2>2, <2>3 DEF Faithful, Live, Placed, Settled, AppliedIds, AcceptedIds
<1>9. CASE RecoverIndeterminate
  <2> DEFINE susp == [kind |-> "indeterminate", id |-> journal.susps + 1, used |-> 0]
             j == RunSuspended(journal, susp)
             m == [Folded EXCEPT !.susp = susp]
  <2>1. journal.run # NoRun /\ Reopen(j, m, "Suspended", NoDriver)
    BY <1>9 DEF RecoverIndeterminate, RecoverOpenRun
  <2> HIDE DEF susp
  <2>2. Mirrors(m, j) BY <1>1, <1>2, <2>1, ProgressMirrors
  <2>3. SamePlaces(journal, j) BY <1>1, ProgressFields
  <2>4. j.run # NoRun BY <1>1, <2>1 DEF RunSuspended, JournalType
  <2>5. Good(m, j) BY <1>1, <2>2, <2>3, <2>4, EventGood
  <2> HIDE DEF m, j
  <2> QED BY <2>1, <2>5, ReopenFaithful
<1>10. CASE RecoverContinue
  <2> DEFINE limit  == Remaining(journal.usage)
             paired == FrontierAbandoned(journal)
             tail   == IF journal.open = {} THEN Folded.tail ELSE "tool"
             j      == RunOpened(paired, journal.run, limit)
             r      == NewRun(Folded, journal.run, limit)
             m      == [r EXCEPT !.open = {}, !.tail = tail, !.susp = NoSuspension]
  <2>1. journal.run \in Nat \ {NoRun} /\ limit \in Nat
    BY <1>1, <1>10, RemainingType DEF RecoverContinue, RecoverOpenRun
  <2>2. m = [r EXCEPT !.open = {}, !.tail = IF journal.open = {} THEN @ ELSE "tool",
                      !.susp = NoSuspension]
    <3>1. r \in MemType /\ r.tail = Folded.tail BY <1>1, <2>1, NewRunType
    <3> HIDE DEF r
    <3> QED BY <3>1 DEF MemType
  <2>3. PICK d : Reopen(j, m, "Running", d) BY <1>10, <2>2 DEF RecoverContinue
  <2>4. paired \in JournalType BY <1>1, FrontierAbandonedType
  <2>5. /\ SamePlaces(journal, paired) /\ SameRun(journal, paired) /\ paired.open = {}
        /\ paired.tail = (IF journal.open = {} THEN journal.tail ELSE "tool")
    BY <1>1, RepairFields
  <2> HIDE DEF paired, limit
  <2>6. Placed(paired) BY <1>1, <2>5, PlacesKept
  <2>7. /\ Folded.queue = paired.queue /\ Folded.applied = paired.applied
        /\ Folded.usage = paired.usage /\ tail = paired.tail
    BY <1>2, <2>5 DEF SamePlaces, SameRun
  <2> HIDE DEF tail
  <2>8. Good(m, j) BY <1>1, <2>1, <2>4, <2>5, <2>6, <2>7, ReopenedGood
  <2> HIDE DEF m, j
  <2> QED BY <2>3, <2>8, ReopenFaithful
<1>11. QED BY <1>4, <1>5, <1>6, <1>7, <1>8, <1>9, <1>10 DEF Recover

\* The invariant holds from the first handle on.
LEMMA FaithfulInvariant == Spec => []Faithful
<1>1. ASSUME Init PROVE Faithful
  <2>1. Placed(EmptyJournal) /\ Settled(EmptyJournal) /\ EmptyJournal \in JournalType
    BY EmptyJournalType
    DEF EmptyJournal, Placed, Settled, AppliedIds, AcceptedIds, Ids
  <2>2. Good(Loaded(EmptyJournal), EmptyJournal)
        /\ Loaded(EmptyJournal).susp = EmptyJournal.susp
    BY <2>1, LoadedGood
  <2>3. EmptyJournal.susp = NoSuspension BY DEF EmptyJournal
  <2> QED BY <1>1, <2>2, <2>3 DEF Init, Good, Faithful
<1>2. TypeInv /\ Coherent /\ Faithful /\ [Next]_vars => Faithful'
  <2>1. Faithful /\ UNCHANGED vars => Faithful' BY QuietFaithful DEF vars, Faithful, Live
  <2> QED BY <2>1, ClientFaithful, DriverFaithful, FinishFaithful, SettleSuspendedFaithful,
             OwnerFaithful, RecoverFaithful DEF Next
<1>3. QED BY <1>1, <1>2, TypeInvariant, CoherentInvariant, PTL DEF Spec

-----------------------------------------------------------------------------
\* What a live handle believes is what its journal folds to, at every moment:
\* reopening it would find the same run, queue, frontier, transcript and usage.
THEOREM HandleMatches == Spec => []LiveMatchesJournal
<1>1. Coherent /\ Faithful => LiveMatchesJournal
  <2> SUFFICES ASSUME Coherent, Faithful, state \in Attached, lock
               PROVE  /\ \A field \in Mirrored : mem[field] = journal[field]
                      /\ mem.susp # NoSuspension => mem.susp = journal.susp
                      /\ state = "Idle" <=> mem.run = NoRun
    BY DEF LiveMatchesJournal
  <2>1. Mirrors(mem, journal) BY DEF Faithful, Live
  <2>2. state = "Idle" <=> mem.run = NoRun BY DEF Coherent, LiveRun
  <2> QED BY <2>1, <2>2 DEF Mirrors, Mirrored
<1>2. QED BY <1>1, CoherentInvariant, FaithfulInvariant, PTL

\* An accepted input waits, is drained, is in a transcript or is cancelled: in
\* one of them and once, through turn boundaries, interrupts, failed appends,
\* crashes and recoveries.
THEOREM Conserved == Spec => []InputsConserved
<1>1. TypeInv /\ Faithful => InputsConserved
  <2> SUFFICES ASSUME TypeInv, Faithful, NEW i \in Inputs
               PROVE  Occurrences(i) = Cardinality({a \in Accepted : a.id = i})
    BY DEF InputsConserved
  <2>1. journal \in JournalType /\ Placed(journal) BY DEF TypeInv, JournalOK, Faithful
  <2> QED BY <2>1, PlacedCounts DEF Occurrences, Accepted
<1>2. QED BY <1>1, TypeInvariant, FaithfulInvariant, PTL

-----------------------------------------------------------------------------
(***************************************************************************)
(* The ledger.  What RunLedger sees of a journal is its books and three of *)
(* the four places of inputs; every batch is one step of RunLedger or none *)
(* at all.  Writes says that of two journals, the one before a batch and   *)
(* the one after it.                                                       *)
(***************************************************************************)
Waiting(j) == Ids(j.queue) \cup Ids(j.drained)
Statuses(j) == [n \in DOMAIN j.closed |-> j.closed[n].status]
Interrupted(j) == {i.run : i \in j.interrupts}

SameRuns(j, k) ==
  k.run = j.run /\ k.runs = j.runs /\ k.closed = j.closed /\ k.interrupts = j.interrupts
SameInputs(j, k) ==
  Waiting(k) = Waiting(j) /\ k.applied = j.applied /\ k.cancelled = j.cancelled

Gives(j, k, ids) ==
  /\ ids \subseteq Waiting(j) /\ Waiting(k) = Waiting(j) \ ids
  /\ k.applied = [i \in Inputs |-> IF i \in ids THEN <<k.run>> ELSE j.applied[i]]
  /\ k.cancelled = j.cancelled
Cancels(j, k, ids) ==
  /\ ids \subseteq Waiting(j) /\ Waiting(k) = Waiting(j) \ ids
  /\ k.applied = j.applied /\ k.cancelled = j.cancelled \cup ids

Opens(j, k) ==
  /\ j.run = NoRun /\ k.run = j.runs + 1 /\ k.runs = j.runs + 1
  /\ k.closed = j.closed /\ k.interrupts = j.interrupts
  /\ \E ids \in SUBSET Inputs : Gives(j, k, ids)
Delivers(j, k) ==
  j.run # NoRun /\ SameRuns(j, k) /\ \E ids \in SUBSET Inputs : Gives(j, k, ids)
Settles(j, k) ==
  /\ j.run # NoRun /\ k.run = NoRun /\ k.runs = j.runs /\ k.interrupts = j.interrupts
  /\ \E status \in {"Completed", "Failed", "Interrupted"} :
       /\ j.run \in Interrupted(j) => status = "Interrupted"
       /\ Statuses(k) = Append(Statuses(j), status)
  /\ \E ids \in SUBSET Inputs : Cancels(j, k, ids)
Interrupts(j, k) ==
  /\ j.run # NoRun /\ k.run = j.run /\ k.runs = j.runs /\ k.closed = j.closed
  /\ Interrupted(k) = Interrupted(j) \cup {j.run}
  /\ SameInputs(j, k)
Replaces(j, k) ==
  /\ j.run # NoRun /\ k.run = j.runs + 1 /\ k.runs = j.runs + 1
  /\ k.interrupts = j.interrupts /\ Statuses(k) = Append(Statuses(j), "Interrupted")
  /\ SameInputs(j, k)
Accepts(j, k) ==
  /\ SameRuns(j, k) /\ k.applied = j.applied /\ k.cancelled = j.cancelled
  /\ \E i \in Inputs :
       /\ i \notin Waiting(j) \cup j.cancelled /\ j.applied[i] = <<>>
       /\ Waiting(k) = Waiting(j) \cup {i}

Writes(j, k) ==
  \/ SameRuns(j, k) /\ SameInputs(j, k)
  \/ Opens(j, k) \/ Delivers(j, k) \/ Settles(j, k)
  \/ Interrupts(j, k) \/ Replaces(j, k) \/ Accepts(j, k)

\* A written batch is a step of the ledger.
LEMMA WritesImplements ==
  Writes(journal, journal') => [Ledger!Next]_<<Ledger!book, Ledger!inputs>>
<1> USE DEF Waiting, Statuses, Interrupted, SameRuns, SameInputs, NoRun, Ledger!None
<1>1. CASE SameRuns(journal, journal') /\ SameInputs(journal, journal')
  BY <1>1 DEF Ledger!book, Ledger!inputs
<1>2. CASE Opens(journal, journal')
  BY <1>2 DEF Opens, Gives, Ledger!Next, Ledger!Open, Ledger!Give
<1>3. CASE Delivers(journal, journal')
  BY <1>3 DEF Delivers, Gives, Ledger!Next, Ledger!Deliver, Ledger!Give, Ledger!book
<1>4. CASE Settles(journal, journal')
  BY <1>4 DEF Settles, Cancels, Ledger!Next, Ledger!Settle, Ledger!Cancel
<1>5. CASE Interrupts(journal, journal')
  BY <1>5 DEF Interrupts, Ledger!Next, Ledger!Interrupt, Ledger!inputs
<1>6. CASE Replaces(journal, journal')
  BY <1>6 DEF Replaces, Ledger!Next, Ledger!Replace, Ledger!inputs
<1>7. CASE Accepts(journal, journal')
  BY <1>7 DEF Accepts, Ledger!Next, Ledger!Accept, Ledger!book
<1>8. QED BY <1>1, <1>2, <1>3, <1>4, <1>5, <1>6, <1>7 DEF Writes

\* An entry that leaves the books and the places alone writes nothing there.
LEMMA SameWrites ==
  ASSUME NEW j, NEW k, SameBooks(j, k), SamePlaces(j, k)
  PROVE  Writes(j, k)
BY DEF SameBooks, SamePlaces, Writes, SameRuns, SameInputs, Waiting

\* A batch that lands, fails, or fails after it landed writes what it says.
LEMMA BatchWrites ==
  ASSUME NEW j, lock => Writes(journal, j), NEW m, NEW s, Commit(j, m, s) \/ AppendError(j)
  PROVE  Writes(journal, journal')
<1>1. Writes(journal, journal) BY DEF Writes, SameRuns, SameInputs
<1> HIDE DEF Writes
<1> QED BY <1>1 DEF Commit, AppendError

\* So does an event of the driver.
LEMMA EmitWrites ==
  ASSUME NEW j, lock /\ state # "Faulted" => Writes(journal, j), NEW m, NEW d, Emit(j, m, d)
  PROVE  Writes(journal, journal')
<1>1. CASE state = "Faulted" BY <1>1 DEF Emit, Writes, SameRuns, SameInputs
<1>2. CASE state # "Faulted" BY <1>2, BatchWrites DEF Emit
<1> QED BY <1>1, <1>2

\* A drain of the hook moves inputs that wait.
LEMMA DrainWaits ==
  ASSUME NEW j \in JournalType, NEW ids
  PROVE  SameInputs(j, QueueDrained(j, ids))
<1> DEFINE k == QueueDrained(j, ids)
<1>1. /\ k.queue = Without(j.queue, ids) /\ k.drained = j.drained \cup Only(j.queue, ids)
      /\ k.applied = j.applied /\ k.cancelled = j.cancelled
  BY QueueFields
<1> HIDE DEF k
<1>2. Waiting(k) = Waiting(j) BY <1>1 DEF Waiting, Ids, Without, Only
<1> QED BY <1>1, <1>2 DEF SameInputs, k

\* Inputs that were drained are given to the open run.
LEMMA AppliedGives ==
  ASSUME NEW j \in JournalType, Placed(j), NEW entries, Ids(entries) \subseteq Ids(j.drained)
  PROVE  Gives(j, InputsApplied(j, entries), Ids(entries)) /\ Ids(entries) \in SUBSET Inputs
<1> DEFINE k == InputsApplied(j, entries)
           ids == Ids(entries)
<1>1. /\ k.queue = j.queue /\ k.drained = Without(j.drained, ids)
      /\ k.applied = Into(j.applied, ids, j.run) /\ k.cancelled = j.cancelled /\ k.run = j.run
  BY QueueFields, ZenonT(30) DEF SameRun
<1>2. j.applied \in [Inputs -> Seq(Nat)] /\ j.drained \subseteq QueueEntry
  BY DEF JournalType
<1>3. Ids(j.drained) \subseteq Inputs BY <1>2 DEF Ids, QueueEntry
<1> HIDE DEF k, ids
<1>4. ids \subseteq Ids(j.drained) BY DEF ids
<1>5. \A i \in ids : j.applied[i] = <<>> /\ i \notin Ids(j.queue)
  BY <1>3, <1>4 DEF Placed, AppliedIds
<1>6. Append(<<>>, j.run) = <<j.run>>
  OBVIOUS
<1>7. k.applied = [i \in Inputs |-> IF i \in ids THEN <<k.run>> ELSE j.applied[i]]
  <2>1. \A i \in Inputs : (IF i \in ids THEN Append(j.applied[i], j.run) ELSE j.applied[i])
                          = (IF i \in ids THEN <<k.run>> ELSE j.applied[i])
    BY <1>1, <1>5, <1>6
  <2>2. DOMAIN j.applied = Inputs BY <1>2
  <2> QED BY <1>1, <2>1, <2>2 DEF Into
<1>8. Waiting(k) = Waiting(j) \ ids
  <2>1. Ids(k.drained) = Ids(j.drained) \ ids BY <1>1 DEF Ids, Without
  <2> QED BY <1>1, <1>5, <2>1 DEF Waiting
<1>9. ids \subseteq Waiting(j) BY <1>4 DEF Waiting
<1> QED BY <1>1, <1>3, <1>4, <1>7, <1>8, <1>9 DEF Gives, k, ids

\* A message of the loop or of recovery that carries drained inputs delivers them.
LEMMA AppliedWrites ==
  ASSUME NEW j \in JournalType, Placed(j), j.run # NoRun,
         NEW entries, Ids(entries) \subseteq Ids(j.drained)
  PROVE  Writes(j, InputsApplied(j, entries))
BY AppliedGives, QueueBooks DEF Writes, Delivers, SameRuns, SameBooks

\* A fresh input waits.
LEMMA AcceptedWrites ==
  ASSUME NEW j \in JournalType, Placed(j), NEW entry \in QueueEntry, NEW target,
         \A n \in DOMAIN j.accepted : j.accepted[n].id # entry.id
  PROVE  Writes(j, QueueAccepted(j, entry, target))
<1> DEFINE k == QueueAccepted(j, entry, target)
<1>1. /\ k.queue = j.queue \cup {entry} /\ k.drained = j.drained /\ k.applied = j.applied
      /\ k.cancelled = j.cancelled /\ SameBooks(j, k)
  BY DEF QueueAccepted, JournalType, SameBooks
<1> HIDE DEF k
<1>2. entry.id \in Inputs /\ entry.id \notin AcceptedIds(j) BY DEF QueueEntry, AcceptedIds
<1>3. entry.id \notin Waiting(j) \cup j.cancelled /\ j.applied[entry.id] = <<>>
  BY <1>2 DEF Placed, Waiting, AppliedIds
<1>4. Waiting(k) = Waiting(j) \cup {entry.id} BY <1>1 DEF Waiting, Ids
<1> QED BY <1>1, <1>2, <1>3, <1>4 DEF Writes, Accepts, SameRuns, SameBooks, k

\* An interrupt is of the open run.
LEMMA InterruptWrites ==
  ASSUME NEW j \in JournalType, j.run # NoRun, NEW target
  PROVE  Writes(j, InterruptAccepted(j, target))
<1> DEFINE k == InterruptAccepted(j, target)
           i == [run |-> j.run, target |-> target]
<1>1. /\ k.run = j.run /\ k.runs = j.runs /\ k.closed = j.closed
      /\ k.interrupts = j.interrupts \cup {i} /\ SamePlaces(j, k) /\ i.run = j.run
  BY ProgressFields DEF InterruptAccepted, JournalType
<1> HIDE DEF k, i
<1>2. Interrupted(k) = Interrupted(j) \cup {j.run} BY <1>1 DEF Interrupted
<1> QED BY <1>1, <1>2 DEF Writes, Interrupts, SameInputs, SamePlaces, Waiting, k

\* The statuses of a journal in which one more run is closed.
LEMMA StatusesGrow ==
  ASSUME NEW j \in JournalType, NEW k, NEW run \in Nat,
         NEW status \in {"Completed", "Failed", "Interrupted"},
         k.closed = Append(j.closed, [run |-> run, status |-> status])
  PROVE  Statuses(k) = Append(Statuses(j), status)
<1> DEFINE c == [run |-> run, status |-> status]
           Closing == [run : Nat, status : {"Completed", "Failed", "Interrupted"}]
           s == Statuses(j)
           n == Len(j.closed)
<1>1. j.closed \in Seq(Closing) /\ c \in Closing BY DEF JournalType
<1> HIDE DEF Closing
<1>2. n \in Nat /\ DOMAIN j.closed = 1..n BY <1>1
<1>3. /\ DOMAIN k.closed = 1..(n + 1) /\ k.closed[n + 1] = c
      /\ \A i \in 1..n : k.closed[i] = j.closed[i]
  BY <1>1
<1>4. s \in Seq({"Completed", "Failed", "Interrupted"}) /\ Len(s) = n /\ DOMAIN s = 1..n
  <2>1. \A i \in 1..n : j.closed[i].status \in {"Completed", "Failed", "Interrupted"}
    <3>1. \A i \in 1..n : j.closed[i] \in Closing BY <1>1, <1>2
    <3> QED BY <3>1 DEF Closing
  <2>2. s = [i \in 1..n |-> j.closed[i].status] BY <1>2 DEF Statuses
  <2> HIDE DEF s, n
  <2>3. s \in [1..n -> {"Completed", "Failed", "Interrupted"}] BY <2>1, <2>2
  <2> QED BY <1>2, <2>3 DEF n
<1>5. \A i \in 1..n : s[i] = j.closed[i].status BY <1>2 DEF Statuses
<1> HIDE DEF s
<1>6. /\ DOMAIN Append(s, status) = 1..(n + 1) /\ Append(s, status)[n + 1] = status
      /\ \A i \in 1..n : Append(s, status)[i] = s[i]
  BY <1>2, <1>4
<1>7. Append(s, status) = [i \in 1..(n + 1) |-> Append(s, status)[i]]
  <2> DEFINE a == Append(s, status)
  <2>1. a \in Seq({"Completed", "Failed", "Interrupted"}) BY <1>4
  <2> HIDE DEF a
  <2>2. a \in [1..Len(a) -> {"Completed", "Failed", "Interrupted"}] /\ DOMAIN a = 1..Len(a)
    BY <2>1
  <2>3. a = [i \in DOMAIN a |-> a[i]] BY <2>2
  <2> QED BY <1>6, <2>3 DEF a
<1>8. \A i \in 1..(n + 1) : k.closed[i].status = Append(s, status)[i]
  BY <1>2, <1>3, <1>5, <1>6
<1>9. Statuses(k) = [i \in 1..(n + 1) |-> k.closed[i].status] BY <1>3 DEF Statuses
<1> HIDE DEF n
<1> QED BY <1>7, <1>8, <1>9 DEF s

\* A charge moves no input, and the cancellation of queued inputs after it takes
\* those out of the inputs that wait.
LEMMA ChargedCancels ==
  ASSUME NEW j \in JournalType, NEW m, NEW used, Charged(j, m, used) \in JournalType,
         NEW ids, ids \subseteq Ids(j.queue)
  PROVE  /\ SameBooks(j, QueueCancelled(Charged(j, m, used), ids))
         /\ Cancels(j, QueueCancelled(Charged(j, m, used), ids), ids)
<1> DEFINE c == Charged(j, m, used)
           q == QueueCancelled(c, ids)
<1>1. SamePlaces(j, c)
  <2>1. CASE used = m.last BY <2>1 DEF Charged, SamePlaces
  <2>2. CASE used # m.last BY <2>2, ProgressFields DEF Charged
  <2> QED BY <2>1, <2>2
<1>2. SameBooks(j, c) /\ c \in JournalType BY ChargedBooks
<1> HIDE DEF c
<1>3. /\ q.queue = Without(c.queue, ids) /\ q.drained = Without(c.drained, ids)
      /\ q.applied = c.applied /\ q.cancelled = c.cancelled \cup ids
  BY <1>2, QueueFields, ZenonT(60)
<1>4. SameBooks(c, q) BY <1>2, QueueBooks
<1> HIDE DEF q
<1>5. Waiting(q) = Waiting(c) \ ids BY <1>3 DEF Waiting, Ids, Without
<1>6. Waiting(c) = Waiting(j) /\ ids \subseteq Waiting(j) BY <1>1 DEF SamePlaces, Waiting
<1>7. Cancels(j, q, ids) BY <1>1, <1>3, <1>5, <1>6 DEF Cancels, SamePlaces
<1>8. SameBooks(j, q) BY <1>2, <1>4, SameBooksTransitive
<1> QED BY <1>7, <1>8 DEF q, c

\* The end of the open run settles it; one that was interrupted, as that.
LEMMA ClosedWrites ==
  ASSUME NEW j \in JournalType, j.run # NoRun, NEW q \in JournalType, SameBooks(j, q),
         NEW ids \in SUBSET Inputs, Cancels(j, q, ids),
         NEW status \in {"Completed", "Failed", "Interrupted"},
         status = "Interrupted" \/ Uninterrupted(j)
  PROVE  Writes(j, RunClosed(q, status))
<1> DEFINE k == RunClosed(q, status)
<1>1. /\ k.run = NoRun /\ k.runs = j.runs /\ k.interrupts = j.interrupts
      /\ k.closed = Append(j.closed, [run |-> j.run, status |-> status])
  BY DEF RunClosed, JournalType, SameBooks
<1>2. SamePlaces(q, k) BY RunClosedFields
<1> HIDE DEF k
<1>3. j.run \in Nat BY DEF JournalType
<1>4. Statuses(k) = Append(Statuses(j), status) BY <1>1, <1>3, StatusesGrow
<1>5. j.run \in Interrupted(j) => status = "Interrupted" BY DEF Uninterrupted, Interrupted
<1>6. Cancels(j, k, ids) BY <1>2 DEF Cancels, SamePlaces, Waiting
<1>7. Settles(j, k) BY <1>1, <1>4, <1>5, <1>6 DEF Settles
<1> QED BY <1>7 DEF Writes, k

\* finishInterrupt's batch settles the open run as interrupted.
LEMMA InterruptBatchWrites ==
  ASSUME JournalOK(journal), journal.run # NoRun, NEW m, MemOK(m), m.queue = journal.queue,
         NEW used \in Nat, used >= m.last
  PROVE  Writes(journal, InterruptBatch(m, used))
<1> DEFINE f == FrontierClosed(journal)
           c == Charged(f, m, used)
           ids == RunScopedIds(m.queue)
           q == QueueCancelled(c, ids)
<1>1. journal \in JournalType /\ f \in JournalType BY FrontierClosedType DEF JournalOK
<1>2. SameBooks(journal, f) /\ SamePlaces(journal, f) BY <1>1, RepairBooks, RepairFields
<1>3. JournalOK(f)
  <2>1. f.run = journal.run /\ f.last = journal.last /\ f.usage = journal.usage
    BY <1>1, RepairFields DEF SameRun
  <2> QED BY <1>1, <2>1, CountersKept
<1>4. c \in JournalType BY <1>3, ChargedOK DEF JournalOK
<1>5. ids \subseteq Ids(f.queue) /\ ids \in SUBSET Inputs
  BY <1>2, IdsAreInputs DEF RunScopedIds, OfKind, Ids, SamePlaces, MemOK, MemType
<1> HIDE DEF f, ids
<1>6. SameBooks(f, q) /\ Cancels(f, q, ids) BY <1>1, <1>4, <1>5, ChargedCancels
<1>7. q \in JournalType BY <1>4, <1>5, QueueCancelledType
<1> HIDE DEF c, q
<1>8. SameBooks(journal, q) /\ Cancels(journal, q, ids)
  BY <1>2, <1>6, SameBooksTransitive DEF Cancels, SamePlaces, Waiting
<1>9. Writes(journal, RunClosed(q, "Interrupted")) BY <1>1, <1>5, <1>7, <1>8, ClosedWrites
<1> QED BY <1>9 DEF InterruptBatch, q, c, ids, f

\* A prompt opens a run with the next-turn inputs that waited.
LEMMA StartWrites ==
  ASSUME NEW j \in JournalType, Placed(j), j.run = NoRun, NEW limit \in Nat,
         NEW next, next \subseteq j.queue
  PROVE  Writes(j, UserMessage(InputsApplied(
                     QueueDrained(RunOpened(j, j.runs + 1, limit), Ids(next)), next)))
<1> DEFINE ids == Ids(next)
           run == j.runs + 1
           o == RunOpened(j, run, limit)
           d == QueueDrained(o, ids)
           g == InputsApplied(d, next)
           k == UserMessage(g)
<1>1. run \in Nat BY DEF JournalType
<1>2. o \in JournalType /\ d \in JournalType /\ g \in JournalType
  BY <1>1, RunOpenedType, QueueDrainedType, InputsAppliedType
<1>3. /\ SamePlaces(j, o) /\ o.run = run /\ o.runs = run /\ o.closed = j.closed
      /\ o.interrupts = j.interrupts
  BY DEF RunOpened, JournalType, SamePlaces
<1> HIDE DEF o
<1>4. /\ SameBooks(o, d) /\ SameInputs(o, d) /\ d.drained = o.drained \cup Only(o.queue, ids)
  BY <1>2, QueueBooks, DrainWaits, QueueFields
<1>5. Placed(d) BY <1>2, <1>3, PlacesKept, DrainedPlaced
<1>6. Ids(next) \subseteq Ids(d.drained) BY <1>3, <1>4 DEF Ids, Only, SamePlaces
<1> HIDE DEF d
<1>7. Gives(d, g, ids) /\ ids \in SUBSET Inputs /\ SameBooks(d, g)
  BY <1>2, <1>5, <1>6, AppliedGives, QueueBooks
<1> HIDE DEF g
<1>8. SameBooks(g, k) /\ SamePlaces(g, k) BY <1>2, EventBooks, EventFields
<1> HIDE DEF k, ids
<1>9. Gives(j, k, ids)
  <2>1. Waiting(d) = Waiting(j) /\ d.applied = j.applied /\ d.cancelled = j.cancelled
    BY <1>3, <1>4 DEF SameInputs, SamePlaces, Waiting
  <2>2. /\ Waiting(k) = Waiting(g) /\ k.applied = g.applied /\ k.cancelled = g.cancelled
        /\ k.run = g.run
    BY <1>8 DEF SamePlaces, SameBooks, Waiting
  <2> QED BY <1>7, <2>1, <2>2 DEF Gives
<1>10. Opens(j, k) BY <1>3, <1>4, <1>7, <1>8, <1>9 DEF Opens, SameBooks
<1> QED BY <1>10 DEF Writes, k, g, d, o, ids

\* An operator's results replace a run that cannot go on.
LEMMA ReplacedWrites ==
  ASSUME NEW j \in JournalType, j.run # NoRun, NEW limit \in Nat
  PROVE  Writes(j, RunOpened(FrontierClosed(RunClosed(j, "Interrupted")), j.runs + 1, limit))
<1> DEFINE c == RunClosed(j, "Interrupted")
           f == FrontierClosed(c)
           k == RunOpened(f, j.runs + 1, limit)
<1>1. /\ c.runs = j.runs /\ c.interrupts = j.interrupts
      /\ c.closed = Append(j.closed, [run |-> j.run, status |-> "Interrupted"])
  BY DEF RunClosed, JournalType
<1>2. SamePlaces(j, c) /\ c \in JournalType BY RunClosedFields, RunClosedType
<1> HIDE DEF c
<1>3. SameBooks(c, f) /\ SamePlaces(c, f) /\ f \in JournalType
  BY <1>2, RepairBooks, RepairFields, FrontierClosedType
<1> HIDE DEF f
<1>4. /\ SamePlaces(f, k) /\ k.run = j.runs + 1 /\ k.runs = j.runs + 1
      /\ k.closed = f.closed /\ k.interrupts = f.interrupts
  BY <1>3 DEF RunOpened, JournalType, SamePlaces
<1> HIDE DEF k
<1>5. j.run \in Nat BY DEF JournalType
<1>6. Statuses(k) = Append(Statuses(j), "Interrupted")
  BY <1>1, <1>3, <1>4, <1>5, StatusesGrow DEF SameBooks
<1>7. SameInputs(j, k) BY <1>2, <1>3, <1>4 DEF SamePlaces, SameInputs, Waiting
<1>8. Replaces(j, k) BY <1>1, <1>3, <1>4, <1>6, <1>7 DEF Replaces, SameBooks
<1> QED BY <1>8 DEF Writes, k, f, c

\* Recovery goes on with the run that it found open.
LEMMA ContinuedWrites ==
  ASSUME NEW j \in JournalType, Books(j), j.run # NoRun, NEW limit
  PROVE  Writes(j, RunOpened(FrontierAbandoned(j), j.run, limit))
<1> DEFINE f == FrontierAbandoned(j)
           k == RunOpened(f, j.run, limit)
<1>1. SameBooks(j, f) /\ SamePlaces(j, f) /\ f \in JournalType
  BY RepairBooks, RepairFields, FrontierAbandonedType
<1> HIDE DEF f
<1>2. /\ SamePlaces(f, k) /\ k.run = j.run /\ k.runs = j.run
      /\ k.closed = f.closed /\ k.interrupts = f.interrupts
  BY <1>1 DEF RunOpened, JournalType, SamePlaces
<1> HIDE DEF k
<1>3. k.runs = j.runs BY <1>2 DEF Books
<1> QED BY <1>1, <1>2, <1>3 DEF Writes, SameRuns, SameInputs, SameBooks, SamePlaces, Waiting, k, f

\* A step that appends nothing writes nothing.
LEMMA QuietWrites ==
  ASSUME UNCHANGED journal
  PROVE  Writes(journal, journal')
BY DEF Writes, SameRuns, SameInputs

\* Neither do the events of the agent loop; what was drained they deliver.
LEMMA DriverWrites ==
  ASSUME TypeInv, Coherent, Faithful, Driver
  PROVE  Writes(journal, journal')
<1>1. journal \in JournalType BY DEF TypeInv, JournalOK
<1>2. CASE \/ Launch \/ ResumeFails \/ ResolveSuspended \/ StartFails \/ BeginTurn
           \/ ModelFails \/ CandidateValid \/ GateDefers \/ GateAdmits \/ GateFails
           \/ ToolsReturn \/ HandlerDefers \/ HookRefuses \/ HookEnds
  <2>1. UNCHANGED journal BY <1>2
    DEF Launch, ResumeFails, ResolveSuspended, StartFails, BeginTurn, ModelFails,
        CandidateValid, GateDefers, GateAdmits, GateFails, ToolsReturn, HandlerDefers,
        HookRefuses, HookEnds, Loop, Leave
  <2> QED BY <2>1, QuietWrites
<1>3. ASSUME NEW j, SameBooks(journal, j), SamePlaces(journal, j), NEW m, NEW d, Emit(j, m, d)
      PROVE  Writes(journal, journal')
  BY <1>3, SameWrites, EmitWrites
<1>4. CASE StartRun
  <2>1. SameBooks(journal, RunStarted(journal)) /\ SamePlaces(journal, RunStarted(journal))
    BY <1>1, EventBooks, ProgressFields
  <2> QED BY <1>3, <1>4, <2>1 DEF StartRun
<1>5. ASSUME NEW n \in 0..Cardinality(Calls), ModelAnswers(n)
      PROVE  Writes(journal, journal')
  <2> DEFINE calls == (journal.calls + 1)..(journal.calls + n)
  <2>1. /\ SameBooks(journal, AssistantCommitted(journal, calls))
        /\ SamePlaces(journal, AssistantCommitted(journal, calls))
    BY <1>1, EventBooks, EventFields
  <2> QED BY <1>3, <1>5, <2>1 DEF ModelAnswers
<1>6. CASE CandidateInvalid
  <2>1. SameBooks(journal, UserMessage(journal)) /\ SamePlaces(journal, UserMessage(journal))
    BY <1>1, EventBooks, EventFields
  <2> QED BY <1>3, <1>6, <2>1 DEF CandidateInvalid
<1>7. CASE StartTool
  <2>1. PICK c \in drv.todo :
          Emit(ToolStarted(journal, c), [mem EXCEPT !.started = @ \cup {c}],
               [drv EXCEPT !.todo = @ \ {c}])
    BY <1>7 DEF StartTool
  <2>2. SameBooks(journal, ToolStarted(journal, c)) /\ SamePlaces(journal, ToolStarted(journal, c))
    BY <1>1, EventBooks, EventFields
  <2> QED BY <1>3, <2>1, <2>2
<1>8. CASE CommitResult
  <2>1. CASE Loop("ended") BY <2>1, QuietWrites DEF Loop
  <2>2. ASSUME NEW c \in mem.open,
               Emit(ToolResult(journal, c),
                    [mem EXCEPT !.open = @ \ {c}, !.tail = "tool"], drv)
        PROVE  Writes(journal, journal')
    <3>1. SameBooks(journal, ToolResult(journal, c)) /\ SamePlaces(journal, ToolResult(journal, c))
      BY <1>1, EventBooks, EventFields
    <3> QED BY <1>3, <2>2, <3>1
  <2> QED BY <1>8, <2>1, <2>2 DEF CommitResult
<1>9. CASE EndTurn
  <2> DEFINE j == UsageRecorded(journal, drv.used, mem.usage + Delta)
  <2>1. SameBooks(journal, j) /\ SamePlaces(journal, j) BY <1>1, EventBooks, ProgressFields
  <2> QED BY <1>3, <1>9, <2>1 DEF EndTurn
<1>10. CASE HookInjects
  <2> DEFINE j == QueueDrained(journal, Ids(Boundary))
             m == [mem EXCEPT !.queue = Without(@, Ids(Boundary)), !.inject = Boundary]
  <2>1. Writes(journal, j) BY <1>1, DrainWaits, QueueBooks DEF Writes, SameRuns, SameBooks
  <2>2. Commit(j, m, state) \/ AppendError(j) BY <1>10 DEF HookInjects
  <2> HIDE DEF j, m
  <2> QED BY <2>1, <2>2, BatchWrites
<1>11. CASE InjectMessages
  <2> DEFINE j == InputsApplied(journal, mem.inject)
             m == [mem EXCEPT !.applied = Into(@, Ids(mem.inject), mem.run),
                              !.tail = "user", !.inject = {}]
  <2>1. ~At("none") /\ Emit(j, m, [drv EXCEPT !.pc = "turn"])
    BY <1>11 DEF InjectMessages, At
  <2>2. ASSUME lock, state # "Faulted" PROVE Writes(journal, j)
    <3>1. Placed(journal) /\ journal.run # NoRun /\ mem.inject \subseteq journal.drained
      BY <2>1, <2>2, DrivenMirrors DEF Mirrors
    <3>2. Ids(mem.inject) \subseteq Ids(journal.drained) BY <3>1 DEF Ids
    <3> QED BY <1>1, <3>1, <3>2, AppliedWrites
  <2> HIDE DEF j, m
  <2> QED BY <2>1, <2>2, EmitWrites
<1>12. CASE CompleteRun
  <2>1. SameBooks(journal, RunCompleted(journal)) /\ SamePlaces(journal, RunCompleted(journal))
    BY <1>1, EventBooks, ProgressFields
  <2> QED BY <1>3, <1>12, <2>1 DEF CompleteRun
<1>13. CASE SuspendRun
  <2> DEFINE susp == [kind |-> drv.kind, id |-> journal.susps + 1, used |-> drv.used]
             j == RunSuspended(journal, susp)
  <2>1. SameBooks(journal, j) /\ SamePlaces(journal, j) BY <1>1, EventBooks, ProgressFields
  <2> QED BY <1>3, <1>13, <2>1 DEF SuspendRun
<1> QED
  BY <1>2, <1>4, <1>5, <1>6, <1>7, <1>8, <1>9, <1>10, <1>11, <1>12, <1>13 DEF Driver

\* finishInterrupt settles the run that it finds open.
LEMMA FinishInterruptWrites ==
  ASSUME TypeInv, NEW used \in Nat, used >= mem.last, FinishInterrupt(used),
         lock => journal.run # NoRun /\ Mirrors(mem, journal)
  PROVE  Writes(journal, journal')
<1> DEFINE j == InterruptBatch(mem, used)
           m == AfterInterrupt(mem, used)
<1>1. lock => Writes(journal, j) BY InterruptBatchWrites DEF TypeInv, Mirrors
<1>2. Commit(j, m, "Idle") \/ AppendError(j) BY DEF FinishInterrupt
<1> HIDE DEF j, m
<1> QED BY <1>1, <1>2, BatchWrites

\* The end of a drive settles its run, or leaves it as it is.
LEMMA FinishWrites ==
  ASSUME TypeInv, Coherent, Faithful, Finish
  PROVE  Writes(journal, journal')
<1>1. ~At("none")
  BY DEF Finish, FinishFaulted, FinishInterrupted, FinishBounced, FinishUnusable,
         FinishSuspended, FinishClosed, SettleInterrupt, Settling, At
<1>2. lock /\ state # "Faulted" =>
        /\ Mirrors(mem, journal) /\ journal.run # NoRun
        /\ state # "Interrupting" => Uninterrupted(journal)
  BY <1>1, DrivenMirrors, DrivenRun
<1>3. /\ journal \in JournalType /\ JournalOK(journal) /\ mem \in MemType /\ MemOK(mem)
  BY DEF TypeInv, JournalOK, MemOK
<1>4. Writes(journal, journal) BY DEF Writes, SameRuns, SameInputs
<1>5. PersistFault => Writes(journal, journal')
  <2>1. Writes(journal, FaultRecorded(journal))
    BY <1>3, RepairBooks, ProgressFields, SameWrites
  <2> QED BY <1>4, <2>1 DEF PersistFault
<1>6. CASE FinishFaulted \/ FinishInterrupted \/ FinishBounced
  BY <1>6, QuietWrites DEF FinishFaulted, FinishInterrupted, FinishBounced, Loop
<1>7. CASE FinishUnusable BY <1>5, <1>7 DEF FinishUnusable
<1>8. CASE FinishSuspended
  <2> DEFINE j == Charged(journal, mem, drv.used)
  <2>1. Writes(journal, j)
    <3>1. CASE drv.used = mem.last BY <1>4, <3>1 DEF Charged
    <3>2. CASE drv.used # mem.last
      BY <1>3, <3>2, EventBooks, ProgressFields, SameWrites DEF Charged
    <3> QED BY <3>1, <3>2
  <2>2. journal' \in {journal, j} BY <1>8 DEF FinishSuspended, AppendError
  <2> QED BY <1>4, <2>1, <2>2
<1>9. CASE FinishClosed
  <2> DEFINE status  == IF drv.outcome = "Completed" THEN "Completed" ELSE "Failed"
             cancels == IF status = "Completed" THEN {} ELSE RunScopedIds(mem.queue)
             q == QueueCancelled(Charged(journal, mem, Used(mem)), cancels)
             j == RunClosed(q, status)
             m == [Detached(mem) EXCEPT !.usage = @ + (Used(mem) - mem.last),
                                        !.queue = Without(@, cancels)]
  <2>1. /\ state # "Faulted" /\ state # "Interrupting" /\ Used(mem) >= mem.last
        /\ Used(mem) \in Nat
        /\ Commit(j, m, "Idle") \/ AppendError(j)
    BY <1>9, UsedType DEF FinishClosed, Settling
  <2>2. cancels \subseteq Ids(mem.queue) /\ cancels \in SUBSET Inputs
    BY <1>3, IdsAreInputs DEF RunScopedIds, OfKind, Ids, MemType
  <2>3. status \in {"Completed", "Failed", "Interrupted"}
    OBVIOUS
  <2> HIDE DEF status, cancels
  <2>4. lock => Writes(journal, j)
    <3> SUFFICES ASSUME lock PROVE Writes(journal, j)
      OBVIOUS
    <3>1. Mirrors(mem, journal) /\ journal.run # NoRun /\ Uninterrupted(journal)
      BY <1>2, <2>1
    <3>2. Charged(journal, mem, Used(mem)) \in JournalType
      BY <1>3, <2>1, ChargedOK DEF JournalOK
    <3>3. cancels \subseteq Ids(journal.queue) BY <2>2, <3>1 DEF Mirrors
    <3>4. SameBooks(journal, q) /\ Cancels(journal, q, cancels) /\ q \in JournalType
      BY <1>3, <2>2, <3>2, <3>3, ChargedCancels, QueueCancelledType
    <3> HIDE DEF q
    <3> QED BY <1>3, <2>2, <2>3, <3>1, <3>4, ClosedWrites
  <2> HIDE DEF j, m
  <2> QED BY <2>1, <2>4, BatchWrites
<1>10. CASE SettleInterrupt
  <2>1. CASE NothingToInterrupt BY <2>1, QuietWrites DEF NothingToInterrupt
  <2>2. CASE Used(mem) >= mem.last /\ FinishInterrupt(Used(mem))
    <3>1. lock => journal.run # NoRun /\ Mirrors(mem, journal)
      BY <1>2, <2>2 DEF FinishInterrupt
    <3> QED BY <2>2, <3>1, UsedType, FinishInterruptWrites
  <2>3. CASE PersistFault BY <1>5, <2>3
  <2> QED BY <1>10, <2>1, <2>2, <2>3 DEF SettleInterrupt
<1> QED
  BY <1>6, <1>7, <1>8, <1>9, <1>10 DEF Finish

\* So does the goroutine that settles an interrupted suspension.
LEMMA SettleSuspendedWrites ==
  ASSUME TypeInv, Coherent, Faithful, SettleSuspended
  PROVE  Writes(journal, journal')
<1>1. state # "Down" /\ mem.last \in Nat /\ state \in States
  BY DEF SettleSuspended, Coherent, GoneIsQuiet, TypeInv, MemOK, MemType
<1>2. CASE NothingToInterrupt BY <1>2, QuietWrites DEF NothingToInterrupt
<1>3. CASE FinishInterrupt(mem.last)
  <2>1. lock => Mirrors(mem, journal) BY <1>1, <1>3
    DEF FinishInterrupt, Faithful, Live, Coherent, ClosedIsUnlocked, States, Attached, Busy
  <2>2. lock => journal.run # NoRun BY <1>3, <2>1 DEF FinishInterrupt, Mirrors
  <2> QED BY <1>1, <1>3, <2>1, <2>2, FinishInterruptWrites
<1> QED BY <1>2, <1>3 DEF SettleSuspended

\* A client's call opens, replaces or interrupts a run, or has an input wait.
LEMMA ClientWrites ==
  ASSUME TypeInv, Coherent, Faithful, Client
  PROVE  Writes(journal, journal')
<1>1. /\ journal \in JournalType /\ mem \in MemType /\ mem.usage \in Nat
      /\ Placed(journal) /\ journal.accepted \in Seq([id : Inputs, kind : QueueKinds,
                                                       run : Nat, target : Nat])
  BY DEF TypeInv, JournalOK, MemOK, MemType, Faithful, JournalType
<1>2. lock /\ state \in Attached =>
        Mirrors(mem, journal) /\ (state = "Idle" <=> journal.run = NoRun)
  BY DEF Faithful, Live, Mirrors, Coherent, LiveRun
<1>3. CASE Start
  <2> DEFINE run   == journal.runs + 1
             limit == Remaining(mem.usage)
             next  == OfKind(mem.queue, {"next_turn"})
             j     == UserMessage(InputsApplied(
                        QueueDrained(RunOpened(journal, run, limit), Ids(next)), next))
             m     == [NewRun(mem, run, limit) EXCEPT
                         !.queue = Without(@, Ids(next)), !.tail = "user",
                         !.applied = Into(@, Ids(next), run)]
  <2>1. limit \in Nat /\ state = "Idle" /\ (Commit(j, m, "Running") \/ AppendError(j))
    BY <1>1, <1>3, RemainingType DEF Start
  <2>2. lock => journal.run = NoRun /\ next \subseteq journal.queue
    BY <1>2, <2>1 DEF Attached, Mirrors, OfKind
  <2> HIDE DEF limit, next
  <2>3. lock => Writes(journal, j) BY <1>1, <2>1, <2>2, StartWrites
  <2> HIDE DEF j, m
  <2> QED BY <2>1, <2>3, BatchWrites
<1>4. ASSUME NEW id \in Inputs, NEW kind \in QueueKinds, NEW target \in 0..MaxRuns,
             Accept(id, kind, target)
      PROVE  Writes(journal, journal')
  <2> DEFINE entry == [id |-> id, kind |-> kind, at |-> Len(journal.accepted) + 1]
             j == QueueAccepted(journal, entry, target)
             m == [mem EXCEPT !.queue = @ \cup {entry}]
  <2>1. /\ Commit(j, m, state) \/ AppendError(j)
        /\ \A n \in DOMAIN journal.accepted : journal.accepted[n].id # id
    BY <1>4 DEF Accept
  <2>2. entry \in QueueEntry /\ entry.id = id BY <1>1 DEF QueueEntry
  <2> HIDE DEF entry, m
  <2>3. Writes(journal, j) BY <1>1, <2>1, <2>2, AcceptedWrites
  <2> HIDE DEF j
  <2> QED BY <2>1, <2>3, BatchWrites
<1>5. ASSUME NEW target \in 0..MaxRuns, Interrupt(target)
      PROVE  Writes(journal, journal')
  <2> DEFINE j == InterruptAccepted(journal, target)
  <2>1. /\ state \in Attached /\ state # "Idle"
        /\ \/ Commit(j, mem, "Interrupting") \/ AppendError(j)
           \/ UNCHANGED journal
    BY <1>5 DEF Interrupt, Attached, Busy
  <2>2. lock => Writes(journal, j) BY <1>1, <1>2, <2>1, InterruptWrites
  <2> HIDE DEF j
  <2> QED BY <2>1, <2>2, BatchWrites, QuietWrites
<1>6. ASSUME NEW id, NEW approved, Resume(id, approved)
      PROVE  Writes(journal, journal')
  <2>1. UNCHANGED journal BY <1>6 DEF Resume, Commit, AppendError
  <2> QED BY <2>1, QuietWrites
<1>7. ASSUME NEW id, ResumeIndeterminate(id)
      PROVE  Writes(journal, journal')
  <2> DEFINE run   == journal.runs + 1
             limit == Remaining(mem.usage)
             j     == RunOpened(FrontierClosed(RunClosed(journal, "Interrupted")), run, limit)
             m     == [NewRun(mem, run, limit) EXCEPT
                         !.open = {}, !.tail = IF mem.open = {} THEN @ ELSE "tool",
                         !.susp = NoSuspension]
  <2>1. /\ limit \in Nat /\ state = "Suspended"
        /\ Commit(j, m, "Running") \/ AppendError(j)
    BY <1>1, <1>7, RemainingType DEF ResumeIndeterminate, Resumable
  <2>2. lock => journal.run # NoRun BY <1>2, <2>1 DEF Attached
  <2> HIDE DEF limit, m
  <2>3. lock => Writes(journal, j) BY <1>1, <2>1, <2>2, ReplacedWrites
  <2> HIDE DEF j
  <2> QED BY <2>1, <2>3, BatchWrites
<1> QED
  BY <1>3, <1>4, <1>5, <1>6, <1>7 DEF Client

\* Recovery settles the run that it finds open, or leaves it open, and delivers
\* what had been drained for it.
LEMMA RecoverWrites ==
  ASSUME TypeInv, Coherent, Faithful, Recover
  PROVE  Writes(journal, journal')
<1>1. /\ journal \in JournalType /\ JournalOK(journal) /\ Placed(journal) /\ Books(journal)
      /\ journal.last \in Nat
  BY DEF TypeInv, JournalOK, JournalType, Coherent, Faithful
<1>2. journal.run # NoRun /\ ~InterruptPending => Uninterrupted(journal)
  BY <1>1 DEF InterruptPending, Books, Uninterrupted
<1>3. CASE RecoverInterrupted
  <2>1. journal.run # NoRun /\ journal' = InterruptBatch(Folded, Folded.last)
    BY <1>3 DEF RecoverInterrupted, Reopen, InterruptPending
  <2>2. MemOK(Folded) BY <1>1, LoadedOK DEF Folded
  <2>3. Folded.queue = journal.queue /\ Folded.last \in Nat /\ Folded.last >= Folded.last
    BY <1>1 DEF Folded, Loaded
  <2> QED BY <1>1, <2>1, <2>2, <2>3, InterruptBatchWrites
<1>4. CASE RecoverCompleted
  <2>1. /\ journal.run # NoRun /\ Uninterrupted(journal)
        /\ journal' = RunClosed(journal, "Completed")
    BY <1>2, <1>4 DEF RecoverCompleted, Reopen
  <2>2. Cancels(journal, journal, {}) /\ SameBooks(journal, journal)
    BY DEF Cancels, SameBooks
  <2> QED BY <1>1, <2>1, <2>2, ClosedWrites
<1>5. CASE RecoverIdle \/ RecoverSuspended
  <2>1. UNCHANGED journal BY <1>5 DEF RecoverIdle, RecoverSuspended, Reopen
  <2> QED BY <2>1, QuietWrites
<1>6. CASE RecoverInject
  <2>1. journal.run # NoRun /\ journal' = InputsApplied(journal, journal.drained)
    BY <1>6 DEF RecoverInject, RecoverOpenRun
  <2> QED BY <1>1, <2>1, AppliedWrites
<1>7. CASE RecoverIndeterminate
  <2> DEFINE susp == [kind |-> "indeterminate", id |-> journal.susps + 1, used |-> 0]
  <2>1. journal' = RunSuspended(journal, susp) BY <1>7 DEF RecoverIndeterminate, Reopen
  <2> QED BY <1>1, <2>1, EventBooks, ProgressFields, SameWrites
<1>8. CASE RecoverContinue
  <2> DEFINE limit == Remaining(journal.usage)
  <2>1. /\ journal.run # NoRun
        /\ journal' = RunOpened(FrontierAbandoned(journal), journal.run, limit)
    BY <1>8 DEF RecoverContinue, RecoverOpenRun, Reopen
  <2> QED BY <1>1, <2>1, ContinuedWrites
<1> QED
  BY <1>3, <1>4, <1>5, <1>6, <1>7, <1>8 DEF Recover

\* Every step of the session writes one of those batches.
LEMMA StepWrites ==
  ASSUME TypeInv, Coherent, Faithful, [Next]_vars
  PROVE  Writes(journal, journal')
<1>1. CASE Owner \/ UNCHANGED vars
  BY <1>1, QuietWrites DEF Owner, Abandon, Close, Drop, Crash, NoHandle, vars
<1> QED
  BY <1>1, ClientWrites, DriverWrites, FinishWrites, SettleSuspendedWrites, RecoverWrites
  DEF Next

\* The session implements the laws of its ledger: through calls, drives, failed
\* appends, crashes and recoveries one run is open at a time, settles once and as
\* it was interrupted, and an accepted input is given to one open run or cancelled.
THEOREM ImplementsTheLedger == Spec => ImplementsLedger
<1>1. Init => Ledger!Init BY DEF Init, EmptyJournal, Ids, NoRun, Ledger!Init, Ledger!None
<1>2. TypeInv /\ Coherent /\ Faithful /\ [Next]_vars
        => [Ledger!Next]_<<Ledger!book, Ledger!inputs>>
  <2> SUFFICES ASSUME TypeInv, Coherent, Faithful, [Next]_vars
               PROVE  Writes(journal, journal')
    BY WritesImplements
  <2> QED BY StepWrites
<1>3. QED BY <1>1, <1>2, TypeInvariant, CoherentInvariant, FaithfulInvariant, PTL
  DEF Spec, ImplementsLedger, Ledger!Spec
=============================================================================

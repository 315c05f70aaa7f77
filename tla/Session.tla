------------------------------- MODULE Session -------------------------------
(***************************************************************************)
(* The durable session of harness/session: one live handle over one        *)
(* journal.  Every append happens under the handle's mutex (s.mu), so an   *)
(* action is one critical section; the code that unlocks, works and locks  *)
(* again is two actions.                                                   *)
(*                                                                         *)
(*   state    the handle's lifecycle state, "Down" when there is no handle *)
(*   mem      what the handle keeps in memory about its run and queue      *)
(*   drv      the goroutine that drives the run (Prompt, Resume or         *)
(*            continueRecovered): the agent loop and finishExecution       *)
(*   settler  the goroutine an interrupt of a suspended session starts     *)
(*   lock     the handle still owns its open journal                       *)
(*   journal  the durable state (SessionJournal)                           *)
(*   spent    model responses received; opens: handles constructed         *)
(*                                                                         *)
(* Entries that fold to nothing (turn_started, output_validated,           *)
(* run_error, run_ended, resolution.accepted, session.recovered, markers)  *)
(* change no state; the step that writes one is merged with the step it    *)
(* precedes.                                                               *)
(***************************************************************************)
EXTENDS SessionJournal

CONSTANTS
  Budget,             \* the session's request budget
  DrainAll,           \* the DrainAll session option
  DurableInterrupts,  \* interrupts come as SessionLoop commands
  Mismatch,           \* a driver may return a result that differs from its events
  ResumesFail,        \* a valid resume may hit a tool limit or fail to start
  MaxRuns, MaxTurns, MaxSuspensions, MaxOpens   \* bounds of a checked instance

ASSUME SessionAssumption ==
  /\ {Budget, MaxRuns, MaxTurns, MaxSuspensions, MaxOpens} \subseteq Nat \ {0}
  /\ {DrainAll, DurableInterrupts, Mismatch, ResumesFail} \subseteq BOOLEAN

VARIABLES state, mem, drv, settler, lock, journal, spent, opens
vars == <<state, mem, drv, settler, lock, journal, spent, opens>>

States == {"Down", "Idle", "Running", "Closing", "Suspended",
           "Interrupting", "Faulted", "Closed"}
Busy == {"Running", "Closing", "Interrupting"}
\* the handle answers for the journal: neither gone, faulted nor closed
Attached == Busy \cup {"Idle", "Suspended"}

\* the part of the folded state that a handle mirrors in memory
Mirrored == {"run", "limit", "last", "started", "queue", "applied", "open",
             "tail", "usage"}

Loaded(j) ==
  [ run |-> j.run, limit |-> j.limit, last |-> j.last, started |-> j.started,
    queue |-> j.queue, applied |-> j.applied, open |-> j.open, tail |-> j.tail,
    susp |-> j.susp, usage |-> j.usage,
    inject |-> {}, resuming |-> FALSE, seen |-> FALSE ]

\* next says where the loop goes once RunStarted is committed; todo are the
\* admitted calls that have not started; used is the driver's totalUsage
NoDriver == [pc |-> "none", next |-> "turn", used |-> 0, todo |-> {},
             cand |-> FALSE, fatal |-> FALSE, resumed |-> FALSE,
             kind |-> "none", outcome |-> "none"]

Init ==
  /\ state = "Idle" /\ lock = TRUE /\ journal = EmptyJournal
  /\ mem = Loaded(EmptyJournal) /\ drv = NoDriver /\ settler = FALSE
  /\ spent = 0 /\ opens = 1

\* a user message follows calls that have no result: the driver, the repair and
\* recovery all reject such a transcript
Buried(t) == t.open # {} /\ t.tail \notin {"assistant", "tool"}

BudgetExhausted(usage) == usage >= Budget
Remaining(usage) == Budget - usage

\* activeRun as a start, a recovery or an operator's resolution creates it
NewRun(m, run, limit) ==
  [m EXCEPT !.run = run, !.limit = limit, !.last = 0, !.started = {},
            !.inject = {}, !.resuming = FALSE, !.seen = FALSE]

Detached(m) == [NewRun(m, NoRun, 0) EXCEPT !.susp = NoSuspension]

(***************************************************************************)
(* Journal appends.  An error does not say whether the batch is durable,   *)
(* and faults the handle either way.  A closed journal refuses the append. *)
(* MayReopen bounds the faults, crashes and closes of an instance.         *)
(***************************************************************************)
MayReopen == opens < MaxOpens

Commit(j, m, s) == lock /\ journal' = j /\ mem' = m /\ state' = s

AppendError(j) ==
  /\ lock => MayReopen
  /\ journal' \in IF lock THEN {journal, j} ELSE {journal}
  /\ state' = "Faulted"
  /\ UNCHANGED mem

(***************************************************************************)
(* Client calls, from any number of clients.  A call checks the state      *)
(* under the mutex, releases it to prepare its entries, and takes it again *)
(* to repeat the checks and append: all that survives the gap is what the  *)
(* request names, a run or a suspension that may be over by then.  An      *)
(* action is the second critical section; a call that is refused there     *)
(* changes nothing.                                                        *)
(***************************************************************************)
Unclient == <<settler, lock, spent, opens>>

\* prepareStartWithCommand
Start ==
  /\ state = "Idle" /\ ~BudgetExhausted(mem.usage) /\ journal.runs < MaxRuns
  /\ LET run    == journal.runs + 1
         limit  == Remaining(mem.usage)
         next   == OfKind(mem.queue, {"next_turn"})
         drains == QueueDrained(RunOpened(journal, run, limit), Ids(next))
         j      == UserMessage(InputsApplied(drains, next))
         m      == [NewRun(mem, run, limit) EXCEPT
                      !.queue = Without(@, Ids(next)), !.tail = "user",
                      !.applied = Into(@, Ids(next), run)]
     IN \/ Commit(j, m, "Running") /\ drv' = [NoDriver EXCEPT !.pc = "start"]
        \/ AppendError(j) /\ UNCHANGED drv
  /\ UNCHANGED Unclient

\* fault: the run named by a command is not compared with the active one
AcceptableAnyRun(kind, target) ==
  state \in Attached /\ (kind \in RunScoped => state = "Running")

\* acceptanceErrorLocked and staleTargetLocked
Acceptable(kind, target) ==
  /\ state \in Attached
  /\ kind \in RunScoped => state = "Running"
  /\ target # NoRun => mem.run = target

\* acceptWithCursorCommand; the entry gets a fresh identity
Accept(id, kind, target) ==
  /\ \A n \in DOMAIN journal.accepted : journal.accepted[n].id # id
  /\ kind = "next_turn" => target = NoRun
  /\ Acceptable(kind, target)
  /\ LET entry == [id |-> id, kind |-> kind, at |-> Len(journal.accepted) + 1]
         j     == QueueAccepted(journal, entry, target)
     IN \/ Commit(j, [mem EXCEPT !.queue = @ \cup {entry}], state)
        \/ AppendError(j)
  /\ UNCHANGED drv /\ UNCHANGED Unclient

\* requestInterruptCommand; the legacy Interrupt names no run and writes nothing
Interrupt(target) ==
  /\ state \in Busy \cup {"Suspended"}
  /\ target # NoRun <=> DurableInterrupts
  /\ target # NoRun => mem.run = target
  /\ LET j == InterruptAccepted(journal, target)
     IN \/ /\ IF DurableInterrupts THEN Commit(j, mem, "Interrupting")
              ELSE state' = "Interrupting" /\ UNCHANGED <<mem, journal>>
           /\ settler' = (settler \/ state = "Suspended")
        \/ DurableInterrupts /\ AppendError(j) /\ UNCHANGED settler
  /\ UNCHANGED <<drv, lock, spent, opens>>

\* resumeErrorLocked: the suspension the client answers is the current one
Resumable(id) == state = "Suspended" /\ mem.run # NoRun /\ mem.susp.id = id

\* prepareResumeWithCommand; approved are the calls the decisions execute, the
\* others get the result or the denial they carry
Resume(id, approved) ==
  /\ Resumable(id) /\ mem.susp.kind \in {"gate", "handler"} /\ approved \subseteq mem.open
  /\ \/ /\ Commit(journal, [mem EXCEPT !.resuming = TRUE, !.seen = FALSE], "Running")
        /\ drv' = [NoDriver EXCEPT !.pc = "resolve", !.todo = approved,
                     !.used = mem.susp.used, !.resumed = TRUE, !.kind = mem.susp.kind]
     \/ AppendError(journal) /\ UNCHANGED drv
  /\ UNCHANGED Unclient

\* prepareResumeIndeterminateWithCommand: the old run closes, the operator's
\* results close its frontier, and a new run continues
ResumeIndeterminate(id) ==
  /\ Resumable(id) /\ mem.susp.kind = "indeterminate"
  /\ ~BudgetExhausted(mem.usage) /\ journal.runs < MaxRuns
  /\ LET run   == journal.runs + 1
         limit == Remaining(mem.usage)
         j     == RunOpened(FrontierClosed(RunClosed(journal, "Interrupted")), run, limit)
         m     == [NewRun(mem, run, limit) EXCEPT
                     !.open = {}, !.tail = IF mem.open = {} THEN @ ELSE "tool",
                     !.susp = NoSuspension]
     IN \/ Commit(j, m, "Running") /\ drv' = [NoDriver EXCEPT !.pc = "start"]
        \/ AppendError(j) /\ UNCHANGED drv
  /\ UNCHANGED Unclient

(***************************************************************************)
(* The drive: agent loop steps and the session's sink, hook and finish.    *)
(***************************************************************************)
Undriven == <<settler, lock, opens>>
\* requestInterruptCommand and faultLocked cancel the run context
Cancelled == state \in {"Interrupting", "Faulted", "Closed"}

At(pc) == drv.pc = pc
Goto(pc) == drv' = [drv EXCEPT !.pc = pc]
Outcome(o) == drv' = [drv EXCEPT !.pc = "return", !.outcome = o]
Loop(pc) == Goto(pc) /\ UNCHANGED <<state, mem, journal, spent, Undriven>>
Leave(o) == Outcome(o) /\ UNCHANGED <<state, mem, journal, spent, Undriven>>

\* fault: a sink that does not look at the fault
EmitUnchecked(j, m, d) ==
  /\ \/ Commit(j, m, state) /\ drv' = d
     \/ AppendError(j) /\ Outcome("Failed")
  /\ UNCHANGED Undriven

\* Emit: a durable event is appended and applied, or the driver gets an error
Emit(j, m, d) ==
  /\ \/ state = "Faulted" /\ Outcome("Failed") /\ UNCHANGED <<state, mem, journal>>
     \/ state # "Faulted" /\ Commit(j, m, state) /\ drv' = d
     \/ state # "Faulted" /\ AppendError(j) /\ Outcome("Failed")
  /\ UNCHANGED Undriven

\* fault: an interrupt that wins before the goroutine starts is left to it
LaunchLeaves ==
  /\ At("launch")
  /\ Loop(IF state = "Running" THEN "start" ELSE "none")

\* continueRecovered, once the goroutine of a recovered run is scheduled
Launch ==
  /\ At("launch")
  /\ \/ state = "Interrupting" /\ Loop("settle")
     \/ state \notin {"Interrupting", "Running"} /\ Loop("none")
     \/ state = "Running" /\ Loop("start")

\* driver.Resume fails before it runs a call.  Rejected is a validation error:
\* with no result (the usage stays as recorded), before the suspension's usage is
\* restored (a configuration or frontier that differs: zero) or after (a decision
\* that is wrong).  A tool limit fails it, and an agent that cannot start refuses.
ResumeFails ==
  /\ At("resolve")
  /\ \/ \E used \in {0, mem.last, drv.used} :
          drv' = [drv EXCEPT !.pc = "return", !.outcome = "Rejected", !.used = used]
     \/ ResumesFail /\ (Outcome("Failed") \/ Outcome("Refused"))
  /\ UNCHANGED <<state, mem, journal, spent, Undriven>>

\* resolveSuspendedTools: the approved calls run before the loop starts
ResolveSuspended == At("resolve") /\ Loop("exec")

\* a transcript with an open frontier cannot be driven
StartRun ==
  /\ At("start") /\ ~Buried(mem)
  /\ Emit(RunStarted(journal), [mem EXCEPT !.seen = @ \/ mem.resuming],
          [drv EXCEPT !.pc = drv.next])
  /\ UNCHANGED spent

\* the driver refuses the input and returns no execution
StartFails == At("start") /\ ~drv.resumed /\ Leave("Refused")

\* the loop head: cancellation, iteration and request limits
BeginTurn ==
  /\ At("turn")
  /\ \/ Cancelled /\ Leave("Interrupted")
     \/ ~Cancelled /\ (drv.used >= mem.limit \/ spent = MaxTurns) /\ Leave("Failed")
     \/ ~Cancelled /\ drv.used < mem.limit /\ spent < MaxTurns /\ Loop("model")

\* the model answers, with n calls or with a completion candidate
ModelAnswers(n) ==
  /\ At("model") /\ (journal.calls + n) \in Calls \cup {0}
  /\ LET calls == (journal.calls + 1)..(journal.calls + n)
     IN Emit(AssistantCommitted(journal, calls),
             [mem EXCEPT !.open = calls, !.tail = "assistant"],
             [drv EXCEPT !.used = @ + 1, !.cand = FALSE, !.fatal = FALSE,
                         !.pc = IF n = 0 THEN "evaluate" ELSE "gate"])
  /\ spent' = spent + 1

\* the request fails, the response breaks a limit, or the context is cancelled
ModelFails ==
  /\ At("model")
  /\ \E paid \in {0, 1}, o \in {"Failed", "Interrupted"} :
        /\ drv' = [drv EXCEPT !.pc = "return", !.outcome = o, !.used = @ + paid]
        /\ spent' = spent + paid
  /\ UNCHANGED <<state, mem, journal, Undriven>>

CandidateValid ==
  /\ At("evaluate")
  /\ drv' = [drv EXCEPT !.pc = "ended", !.cand = TRUE]
  /\ UNCHANGED <<state, mem, journal, spent, Undriven>>

\* the feedback is an injected message; it carries pendingInjectionIDs
CandidateInvalid ==
  /\ At("evaluate")
  /\ \E fatal \in BOOLEAN :
        Emit(UserMessage(journal), [mem EXCEPT !.tail = "user", !.inject = {}],
             [drv EXCEPT !.pc = "ended", !.fatal = fatal])
  /\ UNCHANGED spent

\* the tool gate defers the batch, admits a part of it, or fails
GateDefers ==
  /\ At("gate") /\ journal.susps < MaxSuspensions
  /\ drv' = [drv EXCEPT !.pc = "suspend", !.kind = "gate"]
  /\ UNCHANGED <<state, mem, journal, spent, Undriven>>

GateAdmits ==
  /\ At("gate")
  /\ \E calls \in SUBSET mem.open :
        drv' = [drv EXCEPT !.pc = "exec", !.todo = calls]
  /\ UNCHANGED <<state, mem, journal, spent, Undriven>>

GateFails ==
  /\ At("gate")
  /\ drv' = [drv EXCEPT !.pc = "results", !.fatal = TRUE]
  /\ UNCHANGED <<state, mem, journal, spent, Undriven>>

StartTool ==
  /\ At("exec")
  /\ \E c \in drv.todo :
        /\ \A other \in drv.todo : c <= other
        /\ Emit(ToolStarted(journal, c), [mem EXCEPT !.started = @ \cup {c}],
                [drv EXCEPT !.todo = @ \ {c}])
  /\ UNCHANGED spent

AfterTools(pc) == IF drv.resumed /\ ~mem.seen THEN [drv EXCEPT !.pc = "start", !.next = pc]
                                              ELSE [drv EXCEPT !.pc = pc]

\* every admitted handler returned, was cancelled or outlived its grace
ToolsReturn ==
  /\ At("exec") /\ drv.todo = {}
  /\ \E fatal \in BOOLEAN : drv' = [AfterTools("results") EXCEPT !.fatal = fatal]
  /\ UNCHANGED <<state, mem, journal, spent, Undriven>>

\* a suspendable handler, the only call of its batch, defers
HandlerDefers ==
  /\ At("exec") /\ drv.todo = {} /\ journal.susps < MaxSuspensions
  /\ \E c \in mem.started : mem.open = {c}
  /\ drv' = [AfterTools("suspend") EXCEPT !.kind = "handler"]
  /\ UNCHANGED <<state, mem, journal, spent, Undriven>>

\* commitToolResults
CommitResult ==
  /\ At("results")
  /\ \/ mem.open = {} /\ Loop("ended")
     \/ /\ \E c \in mem.open :
              /\ \A other \in mem.open : c <= other
              /\ Emit(ToolResult(journal, c),
                      [mem EXCEPT !.open = @ \ {c}, !.tail = "tool"], drv)
        /\ UNCHANGED spent

\* fault: the operands of usageDelta in the wrong order
DeltaReversed == mem.last - drv.used

Delta == drv.used - mem.last

EndTurn ==
  /\ At("ended")
  /\ Emit(UsageRecorded(journal, drv.used, mem.usage + Delta),
          [mem EXCEPT !.usage = @ + Delta, !.last = drv.used],
          IF drv.fatal THEN [drv EXCEPT !.pc = "return", !.outcome = "Failed"]
                       ELSE [drv EXCEPT !.pc = "hook"])
  /\ UNCHANGED spent

\* the entries turnHook drains: steers first, follow-ups at a candidate
Boundary ==
  LET steers  == OfKind(mem.queue, {"steer"})
      waiting == IF steers = {} /\ drv.cand
                 THEN OfKind(mem.queue, {"follow_up"}) ELSE steers
  IN IF DrainAll THEN waiting
     ELSE {e \in waiting : \A other \in waiting : e.at <= other.at}

\* fault: only Closing refuses the boundary
HookRefusesClosing == At("hook") /\ state = "Closing" /\ Leave("Failed")

\* turnHook, not yet or no longer running
HookRefuses == At("hook") /\ state # "Running" /\ Leave("Failed")

\* fault: a candidate with nothing queued does not close the run to input
HookEndsRunning ==
  /\ At("hook") /\ state = "Running" /\ Boundary = {}
  /\ Loop(IF drv.cand THEN "complete" ELSE "turn")

\* turnHook finds nothing to inject
HookEnds ==
  /\ At("hook") /\ state = "Running" /\ Boundary = {}
  /\ state' = IF drv.cand THEN "Closing" ELSE state
  /\ Goto(IF drv.cand THEN "complete" ELSE "turn")
  /\ UNCHANGED <<mem, journal, spent, Undriven>>

\* turnHook drains entries into the run
HookInjects ==
  /\ At("hook") /\ state = "Running" /\ Boundary # {}
  /\ LET ids == Ids(Boundary)
         j   == QueueDrained(journal, ids)
     IN \/ /\ Commit(j, [mem EXCEPT !.queue = Without(@, ids), !.inject = Boundary],
                     state)
           /\ Goto("inject")
        \/ AppendError(j) /\ Outcome("Failed")
  /\ UNCHANGED <<spent, Undriven>>

\* fault: cancellation is looked at between the drain and the injection
InjectMessagesUnlessCancelled ==
  /\ At("inject")
  /\ IF Cancelled THEN Leave("Interrupted")
     ELSE Emit(InputsApplied(journal, mem.inject),
               [mem EXCEPT !.applied = Into(@, Ids(mem.inject), mem.run),
                           !.tail = "user", !.inject = {}],
               [drv EXCEPT !.pc = "turn"]) /\ UNCHANGED spent

InjectMessages ==
  /\ At("inject")
  /\ Emit(InputsApplied(journal, mem.inject),
          [mem EXCEPT !.applied = Into(@, Ids(mem.inject), mem.run),
                      !.tail = "user", !.inject = {}],
          [drv EXCEPT !.pc = "turn"])
  /\ UNCHANGED spent

CompleteRun ==
  /\ At("complete")
  /\ Emit(RunCompleted(journal), mem,
          [drv EXCEPT !.pc = "return", !.outcome = "Completed"])
  /\ UNCHANGED spent

\* suspendedExecution
SuspendRun ==
  /\ At("suspend")
  /\ LET susp == [kind |-> drv.kind, id |-> journal.susps + 1, used |-> drv.used]
     IN Emit(RunSuspended(journal, susp), [mem EXCEPT !.susp = susp],
             [drv EXCEPT !.pc = "return", !.outcome = "Suspended"])
  /\ UNCHANGED spent

(***************************************************************************)
(* finishExecution and finishInterrupt.  A result whose usage is below the *)
(* run's recorded usage, and a result that differs from the committed      *)
(* events, fault the session; persistFaultLocked records that if it can.   *)
(***************************************************************************)
NoResult == drv.outcome \in {"none", "Refused"}

Used(m) == IF NoResult THEN m.last ELSE drv.used

RunScopedIds(queue) == Ids(OfKind(queue, RunScoped))

\* fault: a result is charged from zero, not from the recorded usage
ChargedFromZero(j, m, used) == UsageRecorded(j, used, m.usage + used)

\* usage.committed, when the result carries usage the run has not recorded
Charged(j, m, used) ==
  IF used = m.last THEN j ELSE UsageRecorded(j, used, m.usage + (used - m.last))

Finished == drv' = NoDriver

PersistFault ==
  /\ journal' \in (IF lock THEN {FaultRecorded(journal)} ELSE {})
                    \cup (IF lock => MayReopen THEN {journal} ELSE {})
  /\ state' = "Faulted"
  /\ UNCHANGED mem

ResultUnusable == ~NoResult /\ (drv.used < mem.last \/ (Mismatch /\ MayReopen))

FinishFaulted ==
  /\ At("return") /\ state = "Faulted" /\ Finished
  /\ UNCHANGED <<state, mem, journal, spent, Undriven>>

\* the mutex is released before finishInterrupt takes it again
FinishInterrupted ==
  /\ At("return") /\ state # "Faulted"
  /\ state = "Interrupting" \/ drv.outcome = "Interrupted"
  /\ Loop("settle")

Settling ==
  /\ At("return") /\ state \notin {"Faulted", "Interrupting"}
  /\ drv.outcome # "Interrupted"

\* a rejected resume leaves the suspension to be answered again
Bounced == drv.outcome = "Rejected" /\ mem.resuming /\ ~mem.seen

FinishBounced ==
  /\ Settling /\ Bounced
  /\ state' = "Suspended" /\ mem' = [mem EXCEPT !.resuming = FALSE] /\ Finished
  /\ UNCHANGED <<journal, spent, Undriven>>

FinishUnusable ==
  /\ Settling /\ ~Bounced /\ ResultUnusable /\ PersistFault /\ Finished
  /\ UNCHANGED <<spent, Undriven>>

FinishSuspended ==
  /\ Settling /\ drv.outcome = "Suspended" /\ drv.used >= mem.last
  /\ LET j == Charged(journal, mem, drv.used)
         m == [mem EXCEPT !.usage = @ + (drv.used - mem.last), !.last = drv.used,
                          !.resuming = FALSE]
     IN \/ /\ IF drv.used = mem.last THEN UNCHANGED journal ELSE lock /\ journal' = j
           /\ mem' = m /\ state' = "Suspended"
        \/ drv.used # mem.last /\ AppendError(j)
  /\ Finished
  /\ UNCHANGED <<spent, Undriven>>

FinishClosed ==
  /\ Settling /\ ~Bounced /\ drv.outcome # "Suspended" /\ Used(mem) >= mem.last
  /\ LET status  == IF drv.outcome = "Completed" THEN "Completed" ELSE "Failed"
         cancels == IF status = "Completed" THEN {} ELSE RunScopedIds(mem.queue)
         j == RunClosed(QueueCancelled(Charged(journal, mem, Used(mem)), cancels), status)
         m == [Detached(mem) EXCEPT !.usage = @ + (Used(mem) - mem.last),
                                    !.queue = Without(@, cancels)]
     IN Commit(j, m, "Idle") \/ AppendError(j)
  /\ Finished
  /\ UNCHANGED <<spent, Undriven>>

\* fault: the frontier is not repaired
InterruptBatchUnrepaired(m, used) ==
  RunClosed(QueueCancelled(Charged(journal, m, used), RunScopedIds(m.queue)), "Interrupted")

\* finishInterrupt's batch: repair the frontier, record the usage, cancel what
\* the run still queued, close the run
InterruptBatch(m, used) ==
  RunClosed(QueueCancelled(Charged(FrontierClosed(journal), m, used),
                           RunScopedIds(m.queue)), "Interrupted")

\* fault: the cancelled entries stay in the handle's queue
AfterInterruptKeepsQueue(m, used) ==
  [Detached(m) EXCEPT !.open = {}, !.tail = IF m.open = {} THEN @ ELSE "tool",
                      !.usage = @ + (used - m.last)]

AfterInterrupt(m, used) ==
  [Detached(m) EXCEPT !.open = {}, !.tail = IF m.open = {} THEN @ ELSE "tool",
                      !.usage = @ + (used - m.last),
                      !.queue = Without(@, RunScopedIds(m.queue))]

FinishInterrupt(used) ==
  /\ state # "Faulted" /\ mem.run # NoRun /\ ~Buried(mem)
  /\ LET j == InterruptBatch(mem, used)
     IN Commit(j, AfterInterrupt(mem, used), "Idle") \/ AppendError(j)

NothingToInterrupt ==
  (state = "Faulted" \/ mem.run = NoRun) /\ UNCHANGED <<state, mem, journal>>

\* the driver's goroutine inside finishInterrupt
SettleInterrupt ==
  /\ At("settle")
  /\ \/ NothingToInterrupt
     \/ Used(mem) >= mem.last /\ FinishInterrupt(Used(mem))
     \/ /\ state # "Faulted" /\ mem.run # NoRun /\ (ResultUnusable \/ Buried(mem))
        /\ PersistFault
  /\ Finished
  /\ UNCHANGED <<spent, Undriven>>

\* the goroutine that an interrupt of a suspended session started
SettleSuspended ==
  /\ settler /\ settler' = FALSE
  /\ NothingToInterrupt \/ FinishInterrupt(mem.last)
  /\ UNCHANGED <<drv, lock, spent, opens>>

(***************************************************************************)
(* Abandon, Close, process loss, and Recover.                              *)
(***************************************************************************)
\* abandonRun
Abandon ==
  /\ state \notin {"Down", "Faulted", "Closed"} /\ MayReopen
  /\ state' = "Faulted"
  /\ UNCHANGED <<mem, drv, settler, lock, journal, spent, opens>>

Joined == At("none") /\ ~settler

\* Session.Close marks the handle closed, releases the mutex, runs hooks, closes the
\* bus and only then the journal.  It does not wait for the handle's goroutines: the
\* owner does, and nothing moves between the two halves ("a drive settling a fault
\* must never race the closing journal", LoopView.close).  UnjoinedSpec below is an
\* owner that does not wait.
Close ==
  /\ state \in {"Idle", "Suspended", "Faulted"} /\ lock /\ Joined
  /\ state # "Faulted" => MayReopen
  /\ state' = "Closed" /\ lock' = FALSE
  /\ UNCHANGED <<mem, drv, settler, journal, spent, opens>>

NoHandle ==
  /\ state' = "Down" /\ lock' = FALSE /\ mem' = Loaded(EmptyJournal)
  /\ drv' = NoDriver /\ settler' = FALSE
  /\ UNCHANGED <<journal, spent, opens>>

\* a handle without its journal is forgotten
Drop == state # "Down" /\ ~lock /\ NoHandle

Crash == state # "Down" /\ lock /\ MayReopen /\ NoHandle

\* Recover returns a handle: what the journal folds to, after batch j
Reopen(j, m, s, d) ==
  /\ journal' = j /\ mem' = m /\ state' = s /\ drv' = d
  /\ lock' = TRUE /\ opens' = opens + 1
  /\ UNCHANGED <<settler, spent>>

Recovering == state = "Down" /\ opens < MaxOpens
\* fault: a completion is looked at before the interrupt
InterruptPendingUnlessCompleted ==
  journal.run # NoRun /\ journal.interruptRun = journal.run /\ ~journal.completed

InterruptPending == journal.run # NoRun /\ journal.interruptRun = journal.run

Folded == Loaded(journal)

RecoverInterrupted ==
  /\ Recovering /\ InterruptPending /\ ~Buried(journal)
  /\ Reopen(InterruptBatch(Folded, Folded.last), AfterInterrupt(Folded, Folded.last),
            "Idle", NoDriver)

RecoverCompleted ==
  /\ Recovering /\ journal.run # NoRun /\ ~InterruptPending /\ journal.completed
  /\ Reopen(RunClosed(journal, "Completed"), Detached(Folded), "Idle", NoDriver)

RecoverIdle ==
  /\ Recovering /\ journal.run = NoRun
  /\ Reopen(journal, Folded, "Idle", NoDriver)

RecoverSuspended ==
  /\ Recovering /\ journal.run # NoRun /\ ~InterruptPending /\ ~journal.completed
  /\ journal.state = "Suspended" /\ journal.susp # NoSuspension
  /\ Reopen(journal, Folded, "Suspended", NoDriver)

\* fault: a recorded fault is not turned back into a running session
RecoverOpenRunRunning ==
  /\ Recovering /\ journal.run # NoRun /\ ~InterruptPending /\ ~journal.completed
  /\ journal.state = "Running"

RecoverOpenRun ==
  /\ Recovering /\ journal.run # NoRun /\ ~InterruptPending /\ ~journal.completed
  /\ journal.state # "Suspended" \/ journal.susp = NoSuspension

\* recoverOpenRun's first append: inputs drained and not applied are injected.
\* The handle is not exposed yet, so a crash here and going on are the same.
RecoverInject ==
  /\ RecoverOpenRun /\ journal.drained # {}
  /\ journal' = InputsApplied(journal, journal.drained)
  /\ UNCHANGED <<state, mem, drv, settler, lock, spent, opens>>

Indeterminate == journal.open \cap journal.started

RecoverIndeterminate ==
  /\ RecoverOpenRun /\ journal.drained = {} /\ Indeterminate # {} /\ ~Buried(journal)
  /\ LET susp == [kind |-> "indeterminate", id |-> journal.susps + 1, used |-> 0]
     IN Reopen(RunSuspended(journal, susp), [Folded EXCEPT !.susp = susp],
               "Suspended", NoDriver)

\* the run goes on under its own identity; where its budget is spent or its
\* frontier is buried Recover returns the error, and there is no handle
RecoverContinue ==
  /\ RecoverOpenRun /\ journal.drained = {} /\ Indeterminate = {} /\ ~Buried(journal)
  /\ ~BudgetExhausted(journal.usage)
  /\ LET limit == Remaining(journal.usage)
         m == [NewRun(Folded, journal.run, limit) EXCEPT
                 !.open = {}, !.tail = IF journal.open = {} THEN @ ELSE "tool",
                 !.susp = NoSuspension]
     IN Reopen(RunOpened(FrontierAbandoned(journal), journal.run, limit), m, "Running",
               [NoDriver EXCEPT !.pc = "launch",
                  !.next = IF m.tail = "assistant" THEN "evaluate" ELSE "turn"])

-----------------------------------------------------------------------------
Client ==
  \/ Start
  \/ \E id \in Inputs, kind \in QueueKinds, target \in 0..MaxRuns : Accept(id, kind, target)
  \/ \E target \in 0..MaxRuns : Interrupt(target)
  \/ \E id \in 1..journal.susps, calls \in SUBSET Calls : Resume(id, calls)
  \/ \E id \in 1..journal.susps : ResumeIndeterminate(id)

Driver ==
  \/ Launch \/ ResumeFails \/ ResolveSuspended \/ StartRun \/ StartFails
  \/ BeginTurn \/ (\E n \in 0..Cardinality(Calls) : ModelAnswers(n)) \/ ModelFails
  \/ CandidateValid \/ CandidateInvalid
  \/ GateDefers \/ GateAdmits \/ GateFails \/ StartTool \/ ToolsReturn
  \/ HandlerDefers \/ CommitResult \/ EndTurn
  \/ HookRefuses \/ HookEnds \/ HookInjects \/ InjectMessages
  \/ CompleteRun \/ SuspendRun

Finish ==
  \/ FinishFaulted \/ FinishInterrupted \/ FinishBounced \/ FinishUnusable
  \/ FinishSuspended \/ FinishClosed \/ SettleInterrupt

Recover ==
  \/ RecoverInterrupted \/ RecoverCompleted \/ RecoverIdle \/ RecoverSuspended
  \/ RecoverInject \/ RecoverIndeterminate \/ RecoverContinue

Owner == Abandon \/ Close \/ Drop \/ Crash

Next == Client \/ Driver \/ Finish \/ SettleSuspended \/ Owner \/ Recover

Spec == Init /\ [][Next]_vars

(***************************************************************************)
(* The runtime schedules goroutines, a model call and a tool call return,  *)
(* and the owner joins and closes a faulted handle, forgets one without a  *)
(* journal and recovers the session.  Nothing obliges a client to call, or *)
(* the owner to close a healthy handle.                                    *)
(***************************************************************************)
Fairness ==
  /\ WF_vars(Driver \/ Finish)
  /\ WF_vars(SettleSuspended)
  /\ WF_vars(state = "Faulted" /\ Close)
  /\ WF_vars(Drop)
  /\ WF_vars(Recover)

FairSpec == Spec /\ Fairness

(***************************************************************************)
(* An owner that closes the handle under its goroutines, as ResumeSession  *)
(* does with a faulted one (harness/harness.go) and any owner with the     *)
(* goroutine of Interrupt: between the halves of Close the fault is        *)
(* forgotten and the journal is open.  Only a handle whose cursor is still *)
(* the journal's can append; the store refuses the others.                 *)
(***************************************************************************)
InStep == \A field \in Mirrored : mem[field] = journal[field]

CloseBegins ==
  /\ state \in {"Idle", "Suspended", "Faulted"} /\ lock /\ ~Joined /\ InStep
  /\ state # "Faulted" => MayReopen
  /\ state' = "Closed" /\ UNCHANGED <<mem, drv, settler, lock, journal, spent, opens>>

CloseEnds ==
  /\ state = "Closed" /\ lock /\ lock' = FALSE
  /\ UNCHANGED <<state, mem, drv, settler, journal, spent, opens>>

UnjoinedSpec == Init /\ [][Next \/ CloseBegins \/ CloseEnds]_vars

(***************************************************************************)
(* Types.                                                                  *)
(***************************************************************************)
DriverSteps == {"none", "launch", "resolve", "start", "turn", "model", "evaluate",
                "gate", "exec", "results", "ended", "hook", "inject", "complete",
                "suspend", "return", "settle"}
Outcomes == {"none", "Rejected", "Refused", "Failed", "Interrupted", "Completed",
             "Suspended"}

MemType ==
  [ run : Nat, limit : Nat, last : Nat, started : SUBSET Calls,
    queue : SUBSET QueueEntry, applied : [Inputs -> Seq(Nat)],
    open : SUBSET Calls, tail : Roles, susp : Suspension, usage : Nat,
    inject : SUBSET QueueEntry, resuming : BOOLEAN, seen : BOOLEAN ]

DriverType ==
  [ pc : DriverSteps, next : {"turn", "evaluate", "results", "suspend"}, used : Nat,
    todo : SUBSET Calls, cand : BOOLEAN, fatal : BOOLEAN, resumed : BOOLEAN,
    kind : {"none", "gate", "handler", "indeterminate"}, outcome : Outcomes ]

TypeOK ==
  /\ state \in States
  /\ mem \in MemType
  /\ drv \in DriverType
  /\ settler \in BOOLEAN
  /\ lock \in BOOLEAN
  /\ journal \in JournalType
  /\ spent \in Nat /\ opens \in Nat

(***************************************************************************)
(* Safety.                                                                 *)
(***************************************************************************)
\* What a live handle believes is what its journal folds to: reopening it at
\* any moment would find the same run, queue, frontier and usage.  (Emit,
\* turnHook and the finish paths against recovery.go's fold.)
LiveMatchesJournal ==
  state \in Attached /\ lock =>
    /\ \A field \in Mirrored : mem[field] = journal[field]
    /\ mem.susp # NoSuspension => mem.susp = journal.susp
    /\ state = "Idle" <=> mem.run = NoRun

Accepted == {journal.accepted[n] : n \in DOMAIN journal.accepted}
\* how often an input occurs among those waiting, drained, written into a
\* transcript and cancelled
Occurrences(i) ==
  Cardinality(Only(journal.queue, {i})) + Cardinality(Only(journal.drained, {i}))
  + Len(journal.applied[i]) + Cardinality(journal.cancelled \cap {i})

\* An accepted steer, follow-up or next-turn input is in exactly one place,
\* whatever fails: never consumed twice, never dropped.
InputsConserved ==
  \A i \in Inputs : Occurrences(i) = Cardinality({a \in Accepted : a.id = i})

\* A settled session holds no input of a run that is over: the Closing state
\* and the cancellations leave no steer or follow-up behind.
NoStrandedInput == journal.run = NoRun => OfKind(journal.queue, RunScoped) = {}

\* Input that turnHook drained is about to be injected by the live handle, and
\* it reaches the transcript before its run closes, across interrupts, failed
\* appends and crashes.
DrainedReachesRun ==
  /\ state \in Attached /\ lock => mem.inject = journal.drained
  /\ journal.run = NoRun => journal.drained = {}

\* Law L8: a steer or follow-up reaches the run that accepted it and no other,
\* and a command aimed at a run is accepted by that run only. The code breaks it
\* in two ways: a run that fails over drained input (MCSession_leaked_input) and
\* an operator's resolution of a suspension (MCSession_crossed_input).
TargetedInputStaysInRun ==
  /\ \A a \in Accepted :
        /\ a.target # NoRun => a.run = a.target
        /\ a.kind \in RunScoped =>
             \A n \in DOMAIN journal.applied[a.id] : journal.applied[a.id][n] = a.run
  /\ DurableInterrupts => \A i \in journal.interrupts : i.run = i.target

\* A run that accepted a durable interrupt settles as interrupted: no crash,
\* race with completion or recovery turns it into another outcome.
AcceptedInterruptWins ==
  \A i \in journal.interrupts, n \in DOMAIN journal.closed :
    journal.closed[n].run = i.run => journal.closed[n].status = "Interrupted"

\* Every run settles once, in the order runs were opened.
RunsSettleOnce ==
  /\ \A n \in DOMAIN journal.closed : journal.closed[n].run = n
  /\ Len(journal.closed) = IF journal.run = NoRun THEN journal.runs ELSE journal.runs - 1

\* Recovery never tells the model that a call was abandoned before it started
\* when a start of it is durable.
StartedNeverAbandoned == \A c \in journal.abandoned : journal.starts[c] = 0

\* Session usage counts no model response twice and stays in the budget, over
\* turns, suspensions, resumptions, failures and reopenings.
UsageNeverOvercharged == journal.usage <= spent /\ journal.usage <= Budget

\* Without a lost handle every response is charged once its run has settled.
UsageFullyCharged == (opens = 1 /\ state = "Idle") => journal.usage = spent

\* A handle that faulted writes nothing more, whatever its goroutines still do:
\* every append repeats the fault check in its own critical section (Emit,
\* finishExecution, finishInterrupt), an unlock after the check that let them in.
FaultedWritesNothing ==
  [][state = "Faulted" => journal' = journal]_vars

\* The same of a closed handle, whose journal Close closes last: it needs an owner
\* that joins the goroutines first, and TLC refutes it under UnjoinedSpec.
ClosedWritesNothing ==
  [][state = "Closed" => journal' = journal]_vars

\* A call that started and has no result is only ever answered by an operator
\* as indeterminate: it is not part of a gate suspension, whose approval would
\* run it again.
StartedOpenIsIndeterminate ==
  state = "Suspended" /\ mem.susp.kind = "gate" => mem.open \cap mem.started = {}

\* Every call of a run that is over has its result, so that the transcript can
\* start the next run.
SettledIsPaired == journal.run = NoRun => journal.open = {}

\* What a run accepted reaches it: no steer or follow-up stays behind when the
\* run is over (the Closing state, the cancellations of a boundary), and what
\* turnHook drained is injected before the run closes.
InputsArrive == NoStrandedInput /\ DrainedReachesRun

\* A settled session is ready for the next run: every call of the transcript is
\* answered, and the session usage holds every response once and no other
\* (usageDelta, interruptBatch).
SettledIsWhole == SettledIsPaired /\ UsageNeverOvercharged /\ UsageFullyCharged

\* The laws of the loop, whoever drives and whatever is lost: one run at a time,
\* settled once and as it was interrupted, and each input given to one open run
\* or cancelled (L1, L2 and L10 of the protocol).
Ledger == INSTANCE RunLedger WITH
  run         <- journal.run,
  runs        <- journal.runs,
  settled     <- [n \in DOMAIN journal.closed |-> journal.closed[n].status],
  interrupted <- {i.run : i \in journal.interrupts},
  waiting     <- Ids(journal.queue) \cup Ids(journal.drained),
  given       <- journal.applied,
  cancelled   <- journal.cancelled
ImplementsLedger == Ledger!Spec

(***************************************************************************)
(* Liveness, under FairSpec.  Exhausted: the bound on handles is reached,  *)
(* so that this instance has none to recover the session with.             *)
(***************************************************************************)
Exhausted == opens = MaxOpens /\ state \notin Attached

\* A durable interrupt that was accepted ends its run, whatever crashes or
\* faults before its batch is durable.
AcceptedInterruptSettles ==
  \A run \in 1..MaxRuns :
    (\E i \in journal.interrupts : i.run = run)
      ~> (\/ \E n \in DOMAIN journal.closed : journal.closed[n].run = run
          \/ Exhausted)

\* An open run settles or waits for an operator: no step of the drive, of a
\* finish or of a recovery leaves it running with nobody to go on.
OpenRunSettles ==
  \A run \in 1..MaxRuns :
    journal.run = run ~> journal.run # run \/ state = "Suspended" \/ Exhausted

\* Every prefix of a journal has a recovery that returns a handle.
Reopens == (state = "Down" /\ opens < MaxOpens) ~> (state # "Down")

\* An interrupt brings the session back to idle (where nothing is lost).
InterruptReachesIdle == state = "Interrupting" ~> state = "Idle"
=============================================================================

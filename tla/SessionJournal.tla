--------------------------- MODULE SessionJournal ---------------------------
(***************************************************************************)
(* What a session journal says: harness/session/recovery.go's fold, one    *)
(* operator per entry kind.  A journal is a sequence of entries and fold   *)
(* reads them in order, so the state it returns is kept here as a record   *)
(* that each appended entry updates; a batch (one atomic Journal.Append)   *)
(* is a composition of these operators.                                    *)
(*                                                                         *)
(* The transcript is abstracted to what recovery reads of it: the open     *)
(* tool frontier (calls of the last assistant message that have no result) *)
(* the role of the last message, and which queued inputs were written into *)
(* which run.  Usage is counted in model requests.  Context markers,       *)
(* compaction, scope and instructions are left out: no decision of the     *)
(* state machine reads them.                                               *)
(*                                                                         *)
(* The fields after "accepted" are not part of fold's result.  They are    *)
(* facts about the entries written so far, for the properties.             *)
(***************************************************************************)
EXTENDS Naturals, Sequences, FiniteSets

CONSTANTS
  Calls,            \* identities of tool calls (an initial segment of 1, 2, ...)
  Inputs            \* identities of queued inputs

ASSUME CallsAssumption == IsFiniteSet(Calls) /\ Calls = 1..Cardinality(Calls)

NoRun == 0
NoSuspension == [kind |-> "none", id |-> 0, used |-> 0]
QueueKinds == {"steer", "follow_up", "next_turn"}
RunScoped == {"steer", "follow_up"}

\* A queue entry keeps its place in the order of acceptance, so that a queue
\* is a set of entries and its order is the order of their places.
QueueEntry == [id : Inputs, kind : QueueKinds, at : Nat]
Suspension == [kind : {"none", "gate", "handler", "indeterminate"}, id : Nat, used : Nat]
Roles == {"none", "user", "assistant", "tool"}

JournalType ==
  [ run : Nat, limit : Nat, last : Nat, started : SUBSET Calls,
    queue : SUBSET QueueEntry, applied : [Inputs -> Seq(Nat)],
    open : SUBSET Calls, tail : Roles, susp : Suspension, usage : Nat,
    state : {"Idle", "Running", "Suspended", "Faulted"}, completed : BOOLEAN,
    interruptRun : Nat, drained : SUBSET QueueEntry,
    accepted : Seq([id : Inputs, kind : QueueKinds, run : Nat, target : Nat]),
    cancelled : SUBSET Inputs,
    closed : Seq([run : Nat, status : {"Completed", "Failed", "Interrupted"}]),
    interrupts : SUBSET [run : Nat, target : Nat],
    starts : [Calls -> Nat], abandoned : SUBSET Calls,
    runs : Nat, calls : Nat, susps : Nat ]

EmptyJournal ==
  [ run          |-> NoRun,        \* state.run.id, NoRun when state.run is nil
    limit        |-> 0,            \* run.limits: requests this run may still make
    last         |-> 0,            \* run.lastUsage
    started      |-> {},           \* run.started
    queue        |-> {},           \* accepted and not drained
    applied      |-> [i \in Inputs |-> <<>>],   \* runs whose transcript got input i
    open         |-> {},           \* unresolved calls of the final frontier
    tail         |-> "none",       \* role of the last message
    susp         |-> NoSuspension,
    usage        |-> 0,
    state        |-> "Idle",
    completed    |-> FALSE,
    interruptRun |-> NoRun,        \* pendingInterruptRunID
    drained      |-> {},           \* drained and not applied (unapplied)
    accepted     |-> <<>>,
    cancelled    |-> {},
    closed       |-> <<>>,
    interrupts   |-> {},
    starts       |-> [c \in Calls |-> 0],
    abandoned    |-> {},           \* calls recovery reported as never started
    runs         |-> 0,
    calls        |-> 0,
    susps        |-> 0 ]

Ids(entries) == {e.id : e \in entries}
OfKind(entries, kinds) == {e \in entries : e.kind \in kinds}
Only(entries, ids) == {e \in entries : e.id \in ids}
Without(entries, ids) == {e \in entries : e.id \notin ids}
\* the transcript of a run gets some inputs
Into(applied, ids, run) ==
  [i \in DOMAIN applied |-> IF i \in ids THEN Append(applied[i], run) ELSE applied[i]]

\* run.opened, and run.recovered, which keeps the run's identity
RunOpened(j, run, limit) ==
  [j EXCEPT !.run = run, !.limit = limit, !.last = 0, !.started = {},
            !.completed = FALSE, !.state = "Running", !.susp = NoSuspension,
            !.runs = run]

\* fault: the fold leaves the closed run open
RunClosedKeepsRun(j, status) ==
  [j EXCEPT !.state = "Idle", !.susp = NoSuspension,
            !.closed = Append(@, [run |-> j.run, status |-> status])]

RunClosed(j, status) ==
  [j EXCEPT !.interruptRun = IF j.run # NoRun /\ @ = j.run THEN NoRun ELSE @,
            !.run = NoRun, !.limit = 0, !.last = 0, !.started = {},
            !.state = "Idle", !.susp = NoSuspension,
            !.closed = Append(@, [run |-> j.run, status |-> status])]

QueueAccepted(j, entry, target) ==
  [j EXCEPT !.queue = @ \cup {entry},
            !.accepted = Append(@, [id |-> entry.id, kind |-> entry.kind,
                                    run |-> j.run, target |-> target])]

QueueDrained(j, ids) ==
  [j EXCEPT !.drained = @ \cup Only(j.queue, ids), !.queue = Without(@, ids)]

QueueCancelled(j, ids) ==
  [j EXCEPT !.queue = Without(@, ids), !.drained = Without(@, ids),
            !.cancelled = @ \cup ids]

\* fault: an injected entry is still taken for unapplied
InputsAppliedKeepsDrained(j, entries) ==
  [j EXCEPT !.applied = Into(@, Ids(entries), j.run), !.tail = "user"]

\* a message entry with a queue ID, or messages_injected with its queue IDs
InputsApplied(j, entries) ==
  [j EXCEPT !.applied = Into(@, Ids(entries), j.run), !.tail = "user",
            !.drained = Without(@, Ids(entries))]

\* a prompt, or validation feedback
UserMessage(j) == [j EXCEPT !.tail = "user"]

AssistantCommitted(j, calls) ==
  [j EXCEPT !.open = calls, !.tail = "assistant", !.calls = @ + Cardinality(calls)]

\* fault: the fold does not read the start of a tool
ToolStartedUnrecorded(j, call) == [j EXCEPT !.starts[call] = @ + 1]

ToolStarted(j, call) ==
  [j EXCEPT !.started = IF j.run = NoRun THEN @ ELSE @ \cup {call},
            !.starts[call] = @ + 1]

\* a tool result, or a message that resolves a call
ToolResult(j, call) == [j EXCEPT !.open = @ \ {call}, !.tail = "tool"]

\* transcript.repair entries, or the results an operator supplied: every call
\* of the frontier gets one
FrontierClosed(j) ==
  [j EXCEPT !.open = {}, !.tail = IF j.open = {} THEN @ ELSE "tool"]

\* the same repair, written by recovery: open calls are closed as never started
FrontierAbandoned(j) ==
  [FrontierClosed(j) EXCEPT !.abandoned = @ \cup j.open]

\* usage.committed, and the usage that agentic.turn_ended carries
UsageRecorded(j, runUsage, sessionUsage) ==
  [j EXCEPT !.usage = sessionUsage, !.last = IF j.run = NoRun THEN @ ELSE runUsage]

RunStarted(j) ==
  [j EXCEPT !.state = IF j.run # NoRun /\ @ = "Suspended" THEN "Running" ELSE @]

RunCompleted(j) == [j EXCEPT !.completed = (j.run # NoRun)]

\* agentic.run_suspended, or recovery.suspension
RunSuspended(j, suspension) ==
  [j EXCEPT !.susp = suspension, !.state = "Suspended", !.susps = @ + 1]

\* command.accepted of kind interrupt
InterruptAccepted(j, target) ==
  [j EXCEPT !.interruptRun = j.run,
            !.interrupts = @ \cup {[run |-> j.run, target |-> target]}]

FaultRecorded(j) == [j EXCEPT !.state = "Faulted"]
=============================================================================

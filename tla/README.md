# agentic: a TLA+ verification project

This directory models `agentic`, a Go framework for LLM agents: a
durable *session* that drives an agent loop over an append-only journal, takes
input while a run is going, can be interrupted, suspended for an operator and
resumed, and is recovered from its journal after a crash. Around the session are
the view and the event hub its clients use, the actor that moves it between
workers, the stores, and the providers, tools and interfaces at its edges. TLC
checks the models on small instances, and TLAPS proves theorems about the
session, its view, its actor, the agent loop, the hub, child sessions, the
permission gate and the journal file for all instances.

Paths below are relative to `src/`.

## 1. The system

| Component | State it keeps | Operations | What makes it hard |
|---|---|---|---|
| **Session journal** `harness/session/recovery.go`, `entries.go` | append-only entries; `fold` computes run, queue, frontier, usage, suspension | one atomic append per batch, `fold` | an error of an append says nothing about durability; every prefix must be recoverable |
| **Durable session** `harness/session` | `state`, `run`, `queue`, `messages`, `usage`, `suspension` under one mutex | Prompt, Steer/FollowUp/NextTurn, Interrupt, Resume, turn hook, event sink, finish, Close, Abandon, Recover | clients, driver, interrupt goroutine and owner interleave; work is done between two critical sections |
| **Agent loop** `execution_loop.go`, `turn.go`, `stream.go` | `loopState`: messages, usage, retries, iteration | request, commit assistant message, run tools, evaluate candidate, end turn, suspend | emits its events through a sink that may fail; suspends in the middle of a turn |
| **Tool scheduler** `tool_scheduler.go`, `tool_control.go` | the batch in flight | start, collect, grace period, deferral | concurrent handlers, cancellation, late answers |
| **SessionLoop view** `harness/session/loop_view.go` and `loop_*.go` | idempotency claims and receipts, streams, closed flag | Dispatch, Snapshot, Subscribe, Close, Abandon | retries of accepted commands; snapshot position against handle state |
| **Event hub** `harness/event/inproc` | history, subscribers, cursors | publish, subscribe, lag | publication happens after the session's mutex is released |
| **Session actor** `harness/sessionloop/actor` | lease, waiting runs | receive, acquire, renew, deliver, observe, release | two workers after a lease expires; wake-ups; stale events |
| **Mailbox store and host** `actor/localchannel`, `hosts/localchannel` | commands, leases, fences, host snapshots | submit, pending, acknowledge, recover | fencing of a former owner |
| **Journal stores** `harness/store` | files, leases, fences | create, open, append, load | torn writes, ownership |
| **Repair and transcript rules** `harness/repair`, `transcript.go` | none | close or inspect a tool frontier | message sequences that a crash leaves |
| **Resume planning, permissions** `harness/runtime`, `harness/permission` | routes, rules | plan decisions, match segments | decisions of the wrong suspension |
| **Child sessions** `capture.go`, `harness/subagent` | budget lease, router | acquire, commit, close | a budget shared by siblings |
| **Context policy** `harness/contextpolicy`, `session/context.go` | markers, a compaction recipe | project, compact, mark | two histories, the driver's and the session's, must stay one; a recipe must keep applying |
| **Voice bridge** `realtime/bridge.go` | runs awaited, responding flag | delegate, watch, respond | a goroutine for each call and a provider that rejects a second response |
| **Code mode** `harness/codemode`, `session/operation.go` | a program's checkpoint, its records | step, plan, perform, suspend, resume | a program goes on in another process |
| **Long-term memory** `harness/memory` | an append-only log in a file | read, write, append, inject | several processes, torn lines, retried mutations |
| **Providers** `provider/*` | the fold of a stream | convert a transcript, fold a reply | interleaved deltas, replies that break off, signatures of other models |
| **HTTP client** `internal/providerhttp` and its copies | none | post with retries | retry and deadline, widths of a wait |
| **Retrieval** `internal/retrieval`, `provider/*` embedders | none | validate, chunk, fan out, merge, rerank | a service that changes between two chunks |
| **Terminal interface** `tui/app`, `tui/adapter` | snapshot, previews, optimistic entries, operations | reduce events, answers and snapshots | three kinds of goroutines answer in any order |
| Tool registry, MCP, environments, artifacts, skills, telemetry, evaluation | little or none of their own | conversions and I/O | not a matter of shared state |

How they interact. A client, the SessionLoop view or an actor's worker calls the
session. The session calls the driver in the caller's goroutine (Prompt, Resume)
or in one of its own (a recovered run), with itself as event sink and turn hook:
the loop calls back `Emit` for each event, which appends to the journal under
the mutex, and `turnHook` at each turn boundary, which drains queued input. An
interrupt cancels the run's context and returns; whoever drives settles the run.
The journal is the only thing that survives; `Recover` folds it and goes on.

What makes each correct: accepted input is consumed once, in the run that
accepted it, or cancelled; runs settle once, with the outcome that was decided
first; the handle believes what its journal says; a call that may have had its
effect is run again only on a new answer of its operator or a new resumption, and
never reported as not run; usage is charged once
and bounds the next request; a handle that faulted writes nothing; every
open run comes to an end or to an operator. The same for the parts around it: a
key is accepted once (view), a subscriber gets every authoritative event in order
or an error (hub), what a stream shows is what the journal says (projection, host,
terminal), one owner per actor and no command lost (actor), what was committed
stays (stores), children of one parent do not spend the same remainder of its
budget, a call that needs an operator waits for one.

`PROJECT.json` lists the components with what is left out of each, and under
`hazards` the places where this code can go wrong in ways a test hardly reaches.

## 2. Modules

| Module | Stands for | Checked in |
|---|---|---|
| `SessionJournal` | the journal's fold, one operator per entry kind | with `Session` |
| `Session` | the session, its driver, its owner and recovery, over one `SessionJournal` | `MCSession` |
| `RunLedger` | abstract: what a session promises about its runs and inputs | `MCSession` |
| `SessionProofs`, `SessionRunProofs` | theorems about `Session`: the session as a whole; its runs, over the first | section 5 |
| `ToolScheduler` | one batch of tool calls and its handlers | with `AgentLoop` |
| `AgentLoop` | the agent loop over `ToolScheduler` | `MCAgentLoop` |
| `AgentLoopProofs`, `LoopViewProofs`, `ActorWorkerProofs` | theorems about the module each is named for | section 5 |
| `FeedProofs` | theorems about `EventHub`, `LocalHost` and `LoopProjection` | section 5 |
| `GrantProofs` | theorems about `ChildSessions` and `PermissionGate` | section 5 |
| `EdgeProofs` | theorems about `JournalStore`, `CodeMode`, `VoiceBridge` and `HttpRetry` | section 5 |
| `LoopView` | the SessionLoop view: commands, keys, receipts, close, reopening | `MCLoopView` |
| `Mailbox` | the store behind an actor: commands and the lease | with `ActorWorker` |
| `ActorWorker` | workers that take turns at a session, over `Mailbox` | `MCActorWorker` |
| `EventFeed` | abstract: what a subscription promises its reader | `MCDurable` |
| `EventHub` | the event hub, those who publish to it, the readers of its streams | `MCDurable`, `MCEventHub` |
| `LoopProjection` | a session's records as a stream of protocol events | `MCDurable` |
| `LocalHost` | the local channel host and its projection | `MCDurable` |
| `JournalStore` | the JSONL journal and its authority | `MCDurable` |
| `ChildSessions` | delegated children and the parent's budget | `MCDurable` |
| `MemoryStore` | long-term memory in a JSONL log | `MCDurable` |
| `ContextPolicy` | what the model is shown of a session: markers and compaction | `MCDurable` |
| `PermissionGate` | policy, suspension, planning and carrying out of decisions | `MCDurable` |
| `ProviderStreams`, `ProviderRequests` | a streamed reply; a transcript on the wire | `MCEdges` |
| `HttpRetry` | one post with its retries, five clients | `MCEdges` |
| `Retrieval` | one embedding or encoding call, and rerankers | `MCEdges` |
| `VoiceBridge` | a voice call bridged to a session | `MCEdges` |
| `TerminalView` | the terminal's reducer and what feeds it | `MCEdges` |
| `CodeMode` | a generated program and its tool calls | `MCEdges` |

The `MC` modules give the constants of an instance and, where several invariants
belong to one question, name their conjunction. `MCDurable` and `MCEdges` hold
several machines that do not interact in this model: the variable `part` picks
one for the whole behaviour and the others rest. Machines that are proved about
are extended by them, so that a run checks the very property that a theorem
states; they have variables of their own, which keep their initial values while
they rest. The others share the variables `v1`, `v2`, ..., their constants stand in
their INSTANCE, and a property of one reads `part = "context" => ...`. The states of such a run are the sum, and not the
product, of the states of its machines.

Operators marked `fault:` are no part of the model. Each is a definition as a
plausible bug would have it; put in place of the right one it makes TLC find a
property violated. There is at least one for each property, and for a property
that is a conjunction one for each conjunct.

### SessionJournal

`fold` (recovery.go:234-472) reads entries in order into a `foldedState`. The
module keeps that state as a record, and each operator is the effect of one kind
of entry: `RunOpened`, `RunClosed`, `QueueAccepted`, `QueueDrained`,
`ToolStarted`, `UsageRecorded` and so on. A batch, one `Journal.Append`, is a
composition of operators. The transcript is reduced to what recovery reads: the
unanswered calls of the last assistant message (`open`), the role of the last
message (`tail`), and which runs got each input (`applied`). `accepted`,
`cancelled`, `closed`, `interrupts`, `starts` and `abandoned` are history for the
properties and steer no action, except that `accepted` gives an input its place
in the queue. The counters `runs`, `calls` and `susps` name fresh identities.

### Session

Every append of the code happens under `s.mu`, so one action is one critical
section, and code that unlocks, works and locks again is two actions.

| Variable | Code |
|---|---|
| `state` | `s.state`; `"Down"` when there is no handle |
| `mem` | `s.run`, `s.queue`, `s.messages`, `s.usage`, `s.suspension`; `inject` is `run.pendingInjectionIDs`, `resuming` and `seen` are `resumeInProgress` and `resumeEventSeen` |
| `drv` | the goroutine of the drive: `pc` is where the agent loop or `finishExecution` is, `used` is `loopState.totalUsage`, `todo` the admitted calls |
| `settler` | the goroutine of interrupt.go:107 |
| `lock` | the handle owns its open journal |
| `journal` | the durable state |
| `spent`, `opens` | model responses received; handles constructed |

*Clients* (`Start`, `Accept`, `Interrupt`, `Resume`, `ResumeIndeterminate`) act
at any moment and in any number. A client checks, unlocks to prepare its entries
and checks again under the mutex; the action is the second section, and what
survives the gap, the run or suspension a command names, is its parameter, which
may be stale. *The drive* goes from `StartRun` through the turns; `Emit` is the
event sink, with its three outcomes: refused because the handle faulted,
committed, failed. `turnHook` is `HookRefuses`, `HookEnds`, `HookInjects`.
*Finishing* is one action per path of `finishExecution` and `finishInterrupt`;
`FinishInterrupted` and `SettleInterrupt` are two because the mutex is released
between them. *The owner* abandons, forgets or loses the handle at any
moment (`Crash`); it closes the handle when its goroutines are through (`Joined`), as
`LoopView.close` sees to (loop_view.go:1041-1052), so that `Close` is one step. `UnjoinedSpec`
has the owner that does not wait, and `CloseBegins` and `CloseEnds` apart: ResumeSession
(harness.go:262-275) closes a handle that faulted, and any owner may close beside the
goroutine of interrupt.go:107. Last, *recovery* is one action per path of `Recover`.

`AppendError` is every failed append: the batch is durable or it is not, and the
handle faults. On a closed journal nothing is written.

Abstractions. A prompt, an answer and a result are not represented. Model,
validator, tool gate, tool handlers and their failures are nondeterministic. Usage
counts model requests; the budget is `MaxRequests`. A completion by an output
tool is a completion candidate. A prompt given along with a resume is left
out, and so are child usage (capture.go), context markers, compaction, lifecycle
hooks, previews, and the publication of events after an append. Entries that fold to nothing
(turn_started, run_ended, markers) are merged with the step they precede. A
resume that changes only limits or configuration is a `Rejected` one.

`RunLedger` is the promise of a session with handles, drives, budgets, tool calls
and losses of the process taken away: runs are opened one at a time, one that is
open may be interrupted, and settles once, as interrupted if it was; an accepted
input waits until it is given to a run that is open, or is cancelled. These are the
laws L1, L2 and L10 of harness/sessionloop/README.md, and nothing that is
entered there is taken back. `Session` implements it with its durable books as the
ledger's: `journal.run`, `journal.runs`, the statuses of `journal.closed`, the runs of
`journal.interrupts`; the queue and the drained inputs together are what waits,
`journal.applied` is what was given. A crash, a turn, a suspension and a tool call
are no steps of the ledger; a recovery is one if it settles the run or gives it
its input, and the ledger cannot tell it from a drive that does.

### EventHub

`Session` ends each action with the append; what follows in the code, after the
mutex is released, is the publication of the new entries, and that is this module.
Any goroutine that appends is a *writer*: `Commit` is its critical section, which
leaves the batch in `unsent`, and `Publish` is one `PublishDurable`, under the
hub's own mutex. Between the two anything may happen, in particular another
writer's `Commit` and `Publish`. `sub` is the hub's `subscriber`, with `last` for
`lastCursor`, `on` for membership in `h.subscribers` and `err` for what closes
its error channel; `reader` is the stream at the other end (`loopStream`).
`Delivered` is `deliverLocked`: a stale durable record is skipped, one that does
not fit disconnects the subscriber, a preview that does not fit is counted and
the count travels with the next record that does. `Subscribe` replays the
history under the mutex it registers under. A record is its cursor; payload,
attribution and projection are not represented, nor is a `Session` action: the
two modules share the journal's length only.

`EventFeed` is the promise of a subscription with everything about hubs taken
away: a log, and readers that get its entries one by one, in order, without a
gap, until the feed ends. `EventHub` implements it with the journal's length as
the log and the last record read as the reader's place, for as long as the hub gets
the records in the order of the journal (`InSequence`): `ImplementsFeed` asks of
every step after which it still did that it is a step of the feed or a stutter. One
writer publishes in that order; with two, one may overtake the other, and from
then on the hub is no such feed (run `hub_gap`). Both are stated of one
subscriber, what its reader got and the records published (`Ascending`, `Fed`),
so that they can be proved of a subscriber apart from the rest (section 5).

### AgentLoop and ToolScheduler

`AgentLoop` is `executionLoop` and `turn.go` statement by statement as far as they
read or write the loop's state. A message is its role, the tools it calls and
the call it answers; a call is its place in its message, and a batch, the calls a
suspension waits with and the results of a turn are sets of such places and
functions on them. `Inspect` is the validation of a transcript, message by
message. `messages` is the
transcript, `sunk` what the event sink was told of it: the loop emits one event
at a time, and any of them may be refused (`sent` is FALSE), which ends the run.
`Drive` is `Start`, `Continue` and `Recover`; `Resume` carries decisions for a
gate or handler suspension; `GateSuspends`, `GateDecides`, `GateFails` are the
tool gate; `ToolsReturn` appends results, `Accepts` and `Rejects` validate output,
`EndTools` ends a turn without a candidate; `HookInjects`, `HookStops` and
`HookDefault` are the turn hook's decisions. Retries, tool calls, requests and
iterations are counted against the limits of the configuration. Token limits
behave like the limit of requests. `stream` holds the terminal events of the older
streaming API, whose buffer may or may not take them (`Took`).

`ToolScheduler` is `executeAdmittedTools`: each call is announced, runs in a
goroutine of its own and sends its completion to a channel. After a cancellation
the loop drains the channel for a grace period (`BeginGrace`, `Expired`) and then
answers for the calls that have not come back. A handler may end long afterwards,
and may never end.

### LoopView

A caller claims its idempotency key under `mu`, calls the session, remembers
the receipt and gives the claim back; others with that key wait, and may give up.
Everything after the claim is several steps, because the session's append, the
read of the cursor for the receipt and the entry in `idem` are under different
locks. `AcceptanceFails` is an append with an unknown outcome. `BeginClose`,
`Locked`, `Settled` and `CloseRoot` are `Close` and `Abandon`, which take the write
side of `lifecycleMu`, settle the session's run, join the drives and close the
root; a Close whose context ends gives the lock up and may be called again.
`Reopen` rebuilds the receipts from the journal (`restoreCommandAcceptances`). The
session behind the view is reduced to idle, running, suspended and interrupting.

### Mailbox and ActorWorker

`Mailbox` is the local store, in which a command is its sequence number and a page
a set of them: `Submit`, `Acquire`, `PendingPage`, `Acknowledge`,
`Release` and the expiry of the lease, each under one mutex. `ActorWorker` is
`runActor` and `drive` with the program counter in `worker.pc`: open, load a
snapshot's position (`Load`), look at the state (`Look`; Snapshot takes two
locks), read a page, deliver, acknowledge, wait, retire. `Satisfies` is the
condition under which `observe` stops waiting for a run. A worker whose lease was
taken over (`Overtaken`) is followed up to its next durable operation, which the
fence refuses. The session of `ActorWorker` has one run at a time, which may
settle, suspend, bounce (a resolve that turns out invalid: the streams are told
and the journal is not), or break. One actor is enough: workers share nothing
between actors but their store.

### LoopProjection and LocalHost

`LoopProjection` writes the records a session writes, in the order in which a run
makes them, with the run each was written *for*. The payload of most kinds does
not name that run, so the stream has to attribute them: it seeds a fold with the
records before its position (`Seeded`) and advances it (`Advance`). `Take` and
`TakeNext` are `loopStream.Next`, which waits for a run's drive before it shows
that the run settled. Previews are published beside the journal and may be
dropped with a count. The property compares with `Truth`, what a record shows by the
run it was written for and without any fold: `History` puts that together for the records
after the stream's position, `Committed` is what a reader has been shown.

`LocalHost` follows the host's `state`: an owner opens the session, takes a
snapshot, replays and streams to `Observe`, retires or is lost; clients have the
owner refresh the projection before they submit, and read it through streams that
lag. `facts` is the journal, of which one kind projects to two events at one
position. A refresh is three steps, as in the code, with the session at work between
them: the journal is loaded (`ReadSnapshot`), the session's state is read
(`ReadState`), and both are stored under the host's mutex with the events replayed up
to the position (`StoreSnapshot`); only the owner's mutex is held throughout. `view` is
what the host keeps, `owner.reading` a refresh under way, `accepted` the receipt of a
Start, which a successor finds in the journal when the one who wrote it was lost.
`SubmitStart` decides on what the last refresh left, and that may be old by then;
`startID` is there to make up for it.

### JournalStore and MemoryStore

`JournalStore` is the file line by line: a batch is written in one write, of
which any number of lines and part of one may arrive when it fails. `Open` cuts
off a torn tail (`RecoverPartial`) under the file lock; the handle checks the
cursor, and the authority's grant, before it appends. `PowerLoss` takes the lines
that were not synced. Every other batch asks for sync (`Syncs`). `Holds` looks for a
batch in the file entry by entry.

`MemoryStore` is one scope: under the file lock, a tool call reads the log,
repairs its tail, checks version and idempotency key, and appends a line; each of
these is a step at which the process may die or the write fail. Content is its
length. The directory entry of the log always survives. Reads that inject the
main file are the same machine (`MainPath`).

### ContextPolicy

Two transcripts are kept in the code: the driver's own and the session's, from
which a projection must be able to find the driver's again (`Project` compares
them). The module writes both (`run.root`, `messages`), the markers between
messages, and the recipe that replaces a prefix, through runs, failures,
deferrals, interrupts and crashes. A message counts one token and hashes are the
messages themselves. What recovery does to calls that had started, a suspension
for an operator, is in `Session`; only planned calls are closed here.

### PermissionGate

`Judge` is the policy: the matching rules, of which the most specific decides,
over patterns of up to two segments with the classes a segment can have.
`EvaluateBatch` denies the whole batch, suspends it or lets it go. Operators
check, plan and accept in steps of their own (`Checks`, `Plans`, `Accepts`), so
that two may hold plans for one suspension. The driver that goes on runs the
approved calls first (`Starts`, `HandlerReturns`), is announced by `RunStarted` only then
(`Announces`), and commits the results after that. A crash before the announcement
folds back to the suspension that was answered, which can be answered again: an
answer is an `attempt`, and the starts, approvals and announcements in `log` carry its
number. A crash after it leaves calls whose effect is unknown, which need an answer
of another kind (`AcceptsIndeterminate`). `log` is of one batch, since what the
properties compare is of one batch.

### ChildSessions

A delegation call takes a slot, leases what its parent has not been charged yet (one
call at a time holds the lease: `parent.token`), builds the child, routes its events,
prompts it, reads what it used, closes it and charges the parent. The child runs
beside it and may go on after its call gave up. `Close` of a child may fail, and
refuses one that is still busy: the call then returns and charges nothing. The parent
makes a request (`ParentStarts`, `ParentAsks`) and owes it (`parent.owed`) until its turn ends
(`ParentTurnEnds`), which is after the children that the answer asked for: no lease
knows of that request. It settles, is cancelled, goes on without the calls, starts
again, or faults.

### The edges

`ProviderStreams` has one record per provider that says what its goroutine reads
from the wire and how it folds it; `Converted`, what the provider makes of the
same reply without a stream, is defined apart from it, from the other function,
and the property compares the two. `ProviderRequests` has one conversion per
family of providers and the rules for thinking budgets. Both enumerate replies
and transcripts up to a bound, not steps of a long execution.

`HttpRetry` keeps the width of a wait: `Wrapped` is the product in a word of `Bits` bits,
in units of which `Second` make a second. A wait is any number that the jitter may
add up to a quarter to (`retryWait`), after the backoff or `Retry-After` was capped. The
five clients differ in what they bound, heed and spread, and share the rest.

`Retrieval` follows one request through validation, chunks, groups, one text at a
time with concurrent goroutines, merging and the final validation, while the
service may be replaced between two chunks. A number is there, absent or not
finite.

`VoiceBridge` has a goroutine for each tool call of the voice model, the watcher of
the session's events and the receive loop. `respond` and `responseDone` are the
two ends of the flag that keeps a second response from being asked for. The end
of the whole call is not modelled.

`TerminalView` has the reducer's state and the three that feed it: operations, the
bridge of a session's events, and the opening of another session. A snapshot
carries the cursor it was taken at; a bridged update is a batch of events or a
snapshot after a loss. A record of the session can be several events of one cursor
(`Events`): steers that a boundary injects together, and the end of a failed run.
`applyBridge` has both tests of the code, the stale prefix and, event by event, whether the
cursor is covered, which the second event of such a record does not pass.

`CodeMode` has the handler's state machine over two executors, of which the
subprocess may answer anything and the interpreter holds a native frontier that
has to be released. The run around the call is announced once the handler has
returned, and then the result or the next suspension is committed; a crash of a
resumption before that folds back to its suspension (`FoldsBack`), from which the program
may be resumed again, and any other crash leaves the call's outcome unknown. `log` is
what the session recorded and the effects that were had, each with the number of the
resumption (`attempt`).

### Switches and bounds

`Budget`, `DrainAll` and `DurableInterrupts` of `Session` are configurations of the
code: the request budget, the `DrainAll` option, and whether interrupts come as
journalled SessionLoop commands or through the older `Interrupt`. `Mismatch` lets a
driver return a result that differs from the events it committed
(`ErrCommitProjectionMismatch`); `ResumesFail` lets a valid resume fail on a tool
limit or in a refused start. Both are possible in the code, and are off in the
runs whose question they do not touch: they multiply the states, and
`ResumesFail`, which `mixed` has, leads to a divergence (`SettledIsPaired`, below), so
that `live` checks that property without it. `SystemVaries` of `ContextPolicy` and `FailOpen` of
`MemoryStore` are configurations too; the first leads to a divergence.

| Bound | Cuts off |
|---|---|
| `MaxRuns`, `MaxTurns`, `MaxSuspensions` (`Session`) | runs, model requests in all runs together, deferrals |
| `MaxOpens` (`Session`), `MaxReopens` (`LoopView`), `MaxOwners` (`LocalHost`) | handles: guards crashes, abandons, closes and failed appends, so that there is always a handle left to recover with |
| `Calls`, `Inputs`, `Commands`, `StartIds`, `Keys`, `ToolCalls`, `NestedCalls` | fresh identities |
| `MaxEntries`, `MaxFacts`, `MaxRecords`, `MaxMessages`, `MaxLines`, `MaxBatches`, `MaxAppends` | the length of a journal, a transcript or a file |
| `MaxBatch`, `MaxPreviews`, `MaxDeltas` (`LoopProjection`), `Buffer`, `Capacity`, `BatchSize` | entries of a batch, previews, the capacity of a channel or a page |
| `MaxGenerations`, `MaxFaults`, `MaxParks` (`ActorWorker`) | leases granted, failures and lost leases, suspensions |
| `MaxFailures`, `MaxMishaps` | failed writes, crashes, losses of power; interruptions of a run |
| `MaxResumes` (`AgentLoop`) | resumptions |
| `MaxAttempts` (`PermissionGate`, `CodeMode`) | answers given to one suspension; resumptions of a program |
| `Bits`, `Second` (`HttpRetry`) | 6 and 2 for the 64 bits and 10^9 nanoseconds of the code: wide enough for the waits of two retries |
| `MaxBlocks`, `MaxDeltas` (`ProviderStreams`), `MaxTokens`, `MaxInputs` | the size of a reply, a request, an embedding call |
| `MaxOps`, `MaxSessions`, `MaxTurns` (`VoiceBridge`), `MaxExtras`, `MaxEvents`, `MaxRules` | what a user, a voice model, a policy or a child adds |

`MaxIterations`, `MaxRequests`, `MaxToolCalls`, `MaxRetries` and
`MaxValidationRetries` of `AgentLoop`, `MaxRetries` of `HttpRetry`, `MaxConcurrent` of
`ChildSessions`, `MaxSteps`, `MaxStdout` and `MaxCallsPerStep` of `CodeMode` are
limits of the code.

No bound disables a step that the code would have to take: where the bound on
handles or leases is reached nothing more fails, which the liveness properties
name (`Exhausted`, `generation = MaxGenerations`).

## 3. Runs

All configurations say `CHECK_DEADLOCK FALSE`, because the bounded systems do
stop: a session that is closed and not reopened, a call that returned, a reader
that has read everything has nothing to do.

| Run | Instance | Checks |
|---|---|---|
| `inputs` | 2 inputs (symmetric), no calls, 2 handles | `LiveMatchesJournal` `InputsConserved` `InputsArrive` `TargetedInputStaysInRun` |
| `mixed` | 2 calls, 1 input, `DrainAll`, budget 2, failing resumes and mismatching drivers, durable interrupts | `TypeOK` `AcceptedInterruptWins` `RunsSettleOnce` `StartedNeverAbandoned` `FaultedWritesNothing` `ImplementsLedger` |
| `live` | `FairSpec`, 1 call, 2 handles | `RunsEnd` `Reopens` `SettledIsWhole` |
| `agent` | `FairSpec`, messages of up to three calls, limits of 2, one retry, one resumption | `TranscriptIsWhole` `OutcomeIsTold` `AnswerIsFinal` `CancelledReturns` |
| `view` | `FairSpec`, 2 callers, 5 commands under 2 keys, one reopening | `AcceptedForItsRun` `ReceiptsAreKept` `RootIsQuiet` `CallersReturn` |
| `actor` | `FairSpec`, 2 workers, a start, a steer and a resolve, pages of 1, 2 leases, 1 failure | `ResolvesOnce` `OneWriter` `WorkIsFound` `WorkEnds` |
| `durable` | hub, stream, host, store, children, memory, context, gate | one property per machine, below; memory and context share one |
| `edges` | streams, requests, retry, vectors, voice, screen, code | one property per machine, below |

They have 0.04 to 5 million distinct states.

What the conjunctions hold:

| Property | Parts |
|---|---|
| `InputsArrive` | `NoStrandedInput`, `DrainedReachesRun` |
| `SettledIsWhole` | `SettledIsPaired`, `UsageNeverOvercharged`, `UsageFullyCharged` |
| `RunsEnd` | `AcceptedInterruptSettles`, `OpenRunSettles` |
| `TranscriptIsWhole` | `LoopType`, `SinkHasTranscript`, `RequestsArePaired` |
| `OutcomeIsTold` | `StreamTellsOutcome`, `NothingLeftRunning`, `RequestsBounded` |
| `AcceptedForItsRun`, `ReceiptsAreKept`, `CallersReturn` | `AcceptedOnce`, `TargetIsOpen`; `ReceiptIsDurable`, `ReceiptsSurvive`; `ClaimsReleased`, `CloseEnds` |
| `ResolvesOnce`, `WorkIsFound`, `WorkEnds` | `ResolvedOnce`, `AcknowledgedIsResolved`; `UnfinishedIsDiscoverable`, `RetiredHasSeenEnds`; `SubmittedIsDelivered`, `UnfinishedEnds` |
| `HubServesSubscribers` (2 writers) | `FeedInOrder`, `MissedOnlyOvertaken`, `PreviewLossReported`, types |
| `ImplementsFeed` (2 writers) | `EventHub` implements `EventFeed` as long as the records reach it in their order |
| `StreamIsFaithful` | `StreamShowsHistory`, `LossIsReported` |
| `HostIsFaithful` | `ProjectionFollowsJournal`, `RetiredIsObserved`, `StartsAreSerialised` |
| `ChildrenAreAccounted` | `BudgetIsShared`, `ChildUsageIsCharged`, `EventsFollowRoute` |
| `CommittedIsKept` | what was committed and synced is in the journal file, whole; batches are in order |
| `PastIsKept` | `HistoryIsAppendOnly`, `ViewKeepsFrontiers` of `ContextPolicy`; `LogStaysReadable`, `WrittenIsKept` of `MemoryStore` |
| `OperatorsDecide` | `NothingRunsUnapproved`, `EveryCallIsSettledOnce`, `NarrowerRuleWins` |
| `StreamsFold` | `StreamedIsTheResponse`, `BrokenOffIsNoAnswer` |
| `RequestsAreValid` | `SignaturesGoHome`, `ReasoningIsReceivable`, `CallsAreAnswered`, `RequestIsAcceptable` |
| `RetriesAreBounded` | `RetriesOnlyTransient`, `WaitsAreSane` |
| `VectorsAreWhole` | `ResponseIsOneSpace`, `RankingIsOrdered` |
| `VoiceIsCoherent` | `OutputIsOfItsRun`, `ResultsAreSpoken` |
| `ScreenIsCoherent` | `AnswersShownOnce`, `ViewIsCurrent` |
| `ProgramsAreAccountable` | `EffectsAreWrittenAhead`, `ProgramIsBounded`, `FrontiersAreReleased` |

Why the bounds are enough. *Session*: the hazards need at most two runs (an input
or an interrupt for one that is over), two inputs (to tell the order, and the
drained one from the queued one), two calls (one started, one not), and one loss
of the handle between any two steps; a second loss is only needed by
`leaked_input`, which has three handles. `inputs` uses the older interrupts, since
with durable ones `DrainedReachesRun` does not hold (the first half of
`leaked_input`), and has no call, since with one `TargetedInputStaysInRun` does not
hold (`crossed_input`). `mixed` leaves out `SettledIsWhole`, which does not hold where
a resume fails (below); `live` checks it. Symmetry is on inputs in a safety run, and on the Starts, calls and children of
`durable`, which checks safety only; no property distinguishes them. *Agent loop*: two calls of one batch race, a third mixes
output and regular calls, and with limits of two every limit is reached in a
second turn. *View*: two callers for one key, a command that repeats, one that
conflicts, one for a run that is over, an interrupt. *Actor*: a second worker suffices to
overtake the first, and pages of one make the sweep of the mailbox take turns.
*Durable*: the hub's and the host's journals are longer than their channels, so
that a reader lags, and two batches of two can overtake each other in part; two
processes with two failures tear a line twice; two siblings compete for one
budget; transcripts of seven messages are compacted more than once; two rules
and two operators are the least that compete, and with two answers to a suspension
one is lost before it was announced and the other repeats its calls. *Edges*: two calls with three
deltas interleave, transcripts of five messages change providers between a call
and its result, three texts make two chunks, two tool calls answer while a
response is in progress, two sessions allow a switch during an operation, and a
program is resumed twice from one suspension.

### Divergences

Four runs check a statement of the repository's documentation or comments and
find a behaviour of the code that contradicts it.

| Run | Property | What happens |
|---|---|---|
| `leaked_input` | `TargetedInputStaysInRun` | `turnHook` drains a steer; an interrupt is accepted; the process is lost before the injection. `Recover` takes the interrupt's path (recovery.go:158) and never looks at `recoveryInputs`: the run closes with the input in no transcript and not cancelled. It stays drained and unapplied, and a crash in the *next* run has recoverOpenRun (recovery.go:561) inject it there |
| `crossed_input` | `TargetedInputStaysInRun` | an operator's results for a call whose effect is unknown close the suspended run and open a new one in one batch, with the queue as it is (resume.go:353): a steer that the closed run had accepted is drained into the new run. The comment of acceptWithCursor says that such input fails instead of leaking into a successor run, and docs/design/harness-sessionloop-plan.md:294 that an implementation may not apply a targeted command to the new run |
| `hub_gap` | `NoneMissed` | two goroutines append entries 1 and 2 and publish 2 and 1 (execution.go:465, after the unlock); the hub skips 1 for a subscriber that has seen 2, without an error, and replays its history in the order of publication. Whoever waits for the event in entry 1, such as the end of a run, waits for ever |
| `resumed` | `ResumedIsSeen` | the worker reads a snapshot, the run suspends, its operator's resolve is delivered; the wait's position is that of the old snapshot, so the suspension, still in the stream, satisfies the wait for the resumed run (worker.go:262, 396). The worker may retire before it has observed the run settle |

More that TLC finds when the property named is put into a configuration:

| Property | Where | What happens |
|---|---|---|
| `ClosedWritesNothing`, `AcceptedInterruptWins`, `ImplementsLedger` | `Session!UnjoinedSpec`, `mixed` | `Close` marks the handle closed and unlocks (close.go:66-68), runs hooks, closes the bus, and then the journal (86); `Emit` and `finishExecution` ask for a fault only, so a goroutine of the handle appends in between, or settles with the fault forgotten. `LoopView.close` joins its drives first for that reason (loop_view.go:1045); ResumeSession (harness.go:262) and an owner beside the goroutine of interrupt.go:107 do not |
| `StartedOpenIsIndeterminate` | `Session`, `mixed` | a resume executes approved calls before the loop emits `RunStarted` (execution_loop.go:139); a crash in between folds to the gate suspension, and approving it again executes the call again |
| `Reopens` | `Session`, `live` with `Budget` 1 | a run that used its last request and crashed is unrecoverable: remainingLimits fails each `Recover` (recovery.go:672) |
| `InterruptReachesIdle` | `Session`, `live` with `ResumesFail` | a rejected resume reports zero usage; an interrupt that arrives before `finishExecution` sends it to `finishInterrupt`, whose `usageDelta` refuses, and the session faults instead of becoming idle |
| `SettledIsPaired` | `Session`, `mixed` | a resume that fails on a tool limit closes the run as failed with its calls unanswered; every later Prompt is refused |
| `InterruptReceiptsSurvive` | `LoopView` | dispatchInterrupt reads the cursor for the receipt after the mutex was released (loop_view.go:669); another append moves it, and the view's receipt is not the one a restart gives |
| `StreamShowsHistory` | `LoopProjection!CancellingSpec` | a `Next` whose context ends while it waits for a drive has already taken the record from the hub, which is then never shown; stream.go says Next uses its context only for that wait |
| `BatchesAreWhole` | `JournalStore` | a write that fails after a whole line leaves a prefix of its batch, which the next opening takes for committed (jsonl.go:254); store.go says a batch is appended whole or not at all |
| `HistoryIsAppendOnly` | `ContextPolicy` with `SystemVaries` | a run with an empty system prompt after one that had it: the driver's history and the session's no longer match, and the projection refuses the run |
| `CanBeCompacted` | `ContextPolicy` | a run that failed leaves its call open, the next run opens another, and compaction refuses the overlap for good (contextpolicy.go:444) |
| `ToldIsKept` | `MemoryStore` | a mutation repeated with its key is told it is done when its line was read but never synced (memory/jsonl/jsonl.go:168); a loss of power takes it |
| `InjectionGoesThrough` | `MemoryStore` | one write may be 64 KiB and the injected file at most 16 KiB, so a write that succeeds makes every later request fail, unless the capability fails open |
| `MostSpecificRuleWins` | `PermissionGate` | specificity counts the characters that are not wildcards, those within a class among them, so `[ab]` counts more than `a`, and among equals the later rule decides, broader or not; policy.go says the most specific one does |
| `NoRepetition` | `CodeMode` | a resumed handler runs its batch before `RunStarted`; a crash in between folds back to the suspension (recovery.go:200, 543), and resuming it has the effects again. docs/design/harness-phase5.md:122 says that a checkpoint may be resumed without starting a nested call twice |
| `CapIsTheLongestWait` | `HttpRetry` | jitter is added after the cap (providerhttp.go:268-274, 313), so that a server can make a request wait for 37.5 s; providerhttp.go:26 says that 30 s cap it, and so do the clients of Voyage, DeepInfra and Pinecone |
| `ReasoningGoesHome` | `ProviderRequests` | reasoning that names no provider, such as Bedrock's, is replayed to Responses as its own, unsigned (responses.go:427); the comment above says only its own is |
| `ReasoningCanBeReplayed` | `ProviderStreams` | of several reasoning items of a streamed Responses reply one signature reaches the message, where responses.go:168 says a streamed reasoning turn can be replayed |
| `EveryTextIsEmbedded` | `Retrieval` | a context that ends while texts wait for a slot leaves their vectors empty, with no error (embedbatch.go:64, Titan's embedder); an index that Voyage's service repeats leaves that of another text empty |
| `RankingIsAsDocumented` | `Retrieval` | reranking.go:67 says a ranking has one entry per document, or at most `TopN`; Voyage's reranker without `TopN` accepts fewer than there are (reranker.go:163), and Cohere's checks neither |
| `NoOrphanedPreview` | `TerminalView` | a snapshot replaces what is shown, and a delta of the answer it holds arrives afterwards in an update without a durable event (model.go:747-778): the answer is shown twice, once as a preview |
| `InjectionsAreShown` | `TerminalView` | steers that one boundary injects are events of one cursor, and the second and later are dropped (model.go:772) until a snapshot brings them |
| `EndsAreShown` | `TerminalView` | the end of a failed run is two events of one cursor (events.go:255); the second, which makes the screen idle, is dropped, and it stays faulted |
| `ShowsAttached` | `TerminalView` | the answer of an operation on the session left behind replaces what the new one shows (model.go:272) |

Smaller things met while reading. A session may exceed its budget by one request: the
request of a turn is charged at its end (execution.go:425), and the children that its
answer asked for lease the budget without it (capture.go:110). harness/README.md:243
speaks of "committing each child's usage exactly once": a child that cannot be closed, among
them one that is busy when its call gives up on it, is charged nothing (run.go:113), and one
that faulted is charged nothing where its snapshot fails, whose error is dropped (run.go:108).
A child whose call gives up waiting is otherwise charged what was read before it
ended. Gemini is sent reasoning that is foreign or not signed as a thought of its own
(gemini.go:408), where others are sent text or nothing. A `Retry-After` of zero, or of a date
that has passed, is heeded as no wait at all. A response asked for between the provider's own
start of one and its event is rejected and not asked for again (bridge.go:297),
and the bridge's map of runs is never pruned. `1 << attempt` seconds exceed a
Duration from 34 retries on. A provider's goroutine whose reader left blocks
after 64 buffered events until its context ends. Two providers send only the
first result of a message with several. One does not raise the token limit above
the thinking budget. The Cohere reranker does not enforce `TopN`, and the Voyage
embedder accepts an index twice.

## 4. Fairness

`Session.FairSpec` is weak fairness of

- the driving goroutine (`Driver \/ Finish`) and the interrupt goroutine
  (`SettleSuspended`): the Go scheduler runs them, a model request and a tool
  handler return (the context or the grace period ends them);
- `Close` of a faulted handle whose goroutines are through, `Drop` and `Recover`: the owner,
  an actor's worker or a host, reopens a session it lost. The properties that need this say what
  the session offers an owner who does so.

No client call is fair, nor is `Close` of a healthy handle, and a suspended run
may wait for its operator for ever: `OpenRunSettles` allows it. There is no strong
fairness. Each of the goroutines has, at any time, one thing to do, and another
actor's step can disable it only by replacing it.

`AgentLoop.FairSpec` is weak fairness of the loop's own goroutine with its timer.
Handlers have none: `CancelledReturns` must hold when they never come back.

`LoopView.FairSpec` is weak fairness of each caller inside a call, of a Close that
began, of the interrupted run that it waits for, and of the drives it joins: they
are goroutines that do one thing at a time. `CloseRoot` has strong fairness,
because a Close may give up and be called again while what it waits for is
already done. No caller has to call, and nobody has to close.

`ActorWorker.FairSpec` is weak fairness of each worker's loop, of an unheld or
expired lease being acquired (workers poll), of its expiry (a clock), and of a
running run settling, resuming or faulting. `Observe` has strong fairness: it is
one case of a select next to a ticker, and Go's select picks among the ready
cases at random, so a buffered event is not passed over for ever. Failures have
no fairness, and a run may suspend instead of settling.

## 5. Proofs

The theorems hold for every value of the constants that the named assumptions
allow, and no bound of a configuration is used in them, nor is any fairness. The
assumptions are: `Calls` is a finite initial segment of the naturals
(`CallsAssumption`); the budget and the bounds of `Session` are positive and its
switches Boolean (`SessionAssumption`); commands of a view have one of the kinds
there are, and "free" is no caller (`ViewAssumption`); workers and commands are
not `Nobody`, and the mailbox has finitely many commands (`MailboxAssumption`,
`WorkerAssumption`); limits of the agent loop are naturals, answers and histories are made of
messages, and the output tool is no regular one (`LoopAssumption`); the size of a batch of the
journal file is a natural (`StoreAssumption`), and so are the limits of generated programs
(`CodeAssumption`); the tool calls of a voice call are finitely many (`BridgeAssumption`);
no Start has the name that stands for none (`HostAssumption`); the retries of a post are a
natural, and a second and the bits of a Duration positive ones (`RetryAssumption`). The theorems of `EventHub`,
`ChildSessions` and `PermissionGate` say in their statements what they need: the size of a
batch and of a channel is a natural, the budget is one, the calls of a batch are finitely many.

| Theorem | Says |
|---|---|
| `TypeCorrect` | `TypeOK` |
| `FaultedIsSilent` | `FaultedWritesNothing`: no step of a faulted handle changes the journal |
| `RunsSettle`, `InterruptWins` | `RunsSettleOnce`, `AcceptedInterruptWins` |
| `HandleMatches`, `Conserved` | `LiveMatchesJournal`, `InputsConserved` |
| `ImplementsTheLedger` | `ImplementsLedger`: `Session` implements `RunLedger` |
| `NeverOvercharged`, `FullyCharged` | the two parts of `SettledIsWhole` about usage |
| `NeverAbandonedStarted` | `StartedNeverAbandoned` |
| `NothingStranded` | a part of `InputsArrive` |
| `Arrives` | `InputsArrive`, where interrupts are not durable |
| `SettledWhole` | `SettledIsWhole`, where no valid resume fails |
| `CommandsHitTheirRun` | the part of `TargetedInputStaysInRun` about acceptance: a command is accepted by the run it names |
| `InputsStay`, `InputsStayUnresolved` | `TargetedInputStaysInRun` of the behaviours that do neither of the two things that break it; of those without an operator's resolution, where interrupts are not durable |
| `InputsFollow` | what is left of it with such resolutions: an input crosses only to the successor of a run that closed as interrupted |
| `Accepted`, `ReceiptsKept`, `ClosedRootIsQuiet` | `AcceptedForItsRun`, `ReceiptsAreKept`, `RootIsQuiet` of the view |
| `OneWriterAtATime`, `ResolvedByOne`, `WorkStaysFound` | `OneWriter`, `ResolvesOnce`, `WorkIsFound` of the actor |
| `TranscriptWhole`, `OutcomeTold`, `AnswersAreFinal` | `TranscriptIsWhole`, `OutcomeIsTold`, `AnswerIsFinal` of the agent loop |
| `InOrder`, `OnlyOvertakenAreMissed`, `NeverBlocks` | `FeedInOrder`, `MissedOnlyOvertaken`, `TypeOK` of the hub |
| `ServesSubscribers` | `HubServesSubscribers`: the three, and `PreviewLossReported` |
| `ImplementsTheFeed`, `OneWriterFeeds` | `ImplementsFeed`: `EventHub` implements `EventFeed` as long as the records reach it in their order; it implements it without a condition where one goroutine writes |
| `HostKeepsFaith` | `HostIsFaithful` of the local channel host |
| `StreamKeepsFaith` | `StreamIsFaithful` of the streams of a session |
| `ChildrenAccounted` | `ChildrenAreAccounted`: one child at a time spends what is not charged yet, and the budget is exceeded by one request at most while the parent waits; a child that could be closed is charged |
| `OperatorsHaveTheWord` | `OperatorsDecide` of the permission gate: a call runs on an approval given for that very resumption, once for each, and none after an answer that was announced |
| `CommittedStays` | `CommittedIsKept` of the journal file |
| `ProgramsAccount` | `ProgramsAreAccountable` of generated programs: an effect is had again only where its resumption was lost before it was announced |
| `VoiceCoheres` | `VoiceIsCoherent` of voice calls |
| `RetriesBounded` | `RetriesAreBounded` of an HTTP post, where the seconds that the retries double to fit a Duration (`DurationsFit`) |
| `RetriesTransient` | its part about attempts and results, for any number of retries |

Some theorems of `Session` have a hypothesis. With durable interrupts an input that was drained and not
injected is lost in a recovery (`leaked_input`), so `Arrives` assumes
`~DurableInterrupts`; a resume that is admitted and then fails closes its run with
calls unanswered, so `SettledWhole` assumes `~ResumesFail`. Both are
configurations and drivers that the code has, and the runs `inputs` and `live` check
the two properties under the same hypotheses. `TargetedInputStaysInRun` has two
counterexamples, `leaked_input` and `crossed_input`, and `InputsStay` proves that there is no
third: its hypotheses exclude a run that closes over drained input, and the
step of an operator that resolves an indeterminate suspension, and nothing else.

### Session

Each proof module adds an inductive invariant to those of the module it extends.
A step is proved in three layers: what one kind of entry does to a journal (a
lemma for each operator of `SessionJournal`), what a batch does, and what the action makes of
the handle, with one lemma for a group of actions and one step for each.

- **`TypeInv`** (`SessionProofs`). `TypeOK` is not inductive, because usage is updated by
  differences of counters that must not become negative. `TypeInv` adds that what a
  run has recorded is part of what its session has, in the handle
  (`mem.last <= mem.usage`) and in the journal, where nothing is recorded without
  a run. `FaultedIsSilent` needs no invariant: each append asks for a fault in the critical
  section that makes it, and the lemma goes through the actions.
- **`Coherent`** (`SessionProofs`), for `RunsSettle` and `InterruptWins`: four facts of
  which none is inductive alone. `Books` is about the journal: the closed runs are
  1, 2, ... up to the open one, which is the last one opened; an interrupt of the
  open run is the one recovery would find pending; closed runs with an interrupt
  are closed as interrupted. `LiveRun` relates the handle to it: they agree on the open
  run, an idle or suspended session has no driver, the goroutine of an
  interrupted suspension has no rival, and where an interrupt of the run is
  durable the handle is `Interrupting`. `GoneIsQuiet` and `ClosedIsUnlocked` say that a
  handle that is gone or closed has nothing left to act with. The journal alone
  does not stop `FinishClosed` from closing an interrupted run under another status: the
  handle's state does, and after a crash the order of the tests in `Recover` does.
- **`Faithful`** (`SessionProofs`), for `HandleMatches` and `Conserved`. `Mirrors` strengthens
  the first by what an idle handle does not show: the suspension, and that what
  waits for injection is drained in the journal. `Placed` says that waiting,
  drained, applied and cancelled inputs are disjoint and make up what was
  accepted, each once; a batch of one entry moves an input from one to another.
- **`ImplementsTheLedger`** (`SessionProofs`) needs no invariant of its own: what a
  command checks is in `Faithful`, and that an interrupted run settles as nothing
  else is `Coherent`. `Writes` says of two journals, the one before a batch and the one
  after it, that the second is one step of the ledger from the first or looks
  the same. That is proved for each batch, then for each group of actions,
  whose handle and goroutines the ledger does not see; a failed append is a batch
  or none. A batch that closes a run and cancels what was for it is one step, and so is
  the one in which an operator's results replace a suspended run by the next.
- **`Accounts`** (`SessionRunProofs`), for the bill. `Within` bounds the journal, a suspension
  that may be resumed included: the usage before the run and the limit of the run
  fit into the budget. `Paying` follows the drive's counter against that limit. `Exact` is
  the equation between what was received and what was charged, which holds for
  the first handle only: a crash forgets responses (a hazard of the list). `Shaped`
  says which outcome a drive at each place can have.
- **`Frontiers`** (`SessionRunProofs`), for `NeverAbandonedStarted`. A call that has not
  been answered and was started is known as started, unless its frontier was
  buried: recovery closed it with results and the suspension that named it is
  still in the journal. `Front` says where in the drive a frontier may be open at all.
- **`Endings`** and **`Leftovers`** (`SessionRunProofs`), for what a run leaves behind. A property
  of the moment a run closes depends on how the drive came there: `Endings` follows
  the queue of the run from the hook's closing to input to the recorded completion,
  `Leftovers` the drained inputs, which exist between the hook and the injection
  only, and the open calls, which exist where the drive answers them or suspends.
- **`Owned`** (`SessionRunProofs`), for `InputsStay` and `InputsFollow`. Every accepted input
  that waits or was injected is related to the run it was accepted for: by equality
  in the one theorem, by `Reached` (all runs in between are closed as interrupted) in the
  other. A batch keeps the relation if the open run is the same after it, if it
  only closes it, or if it carries the relation on (`Onward`); what it does to the
  books of inputs (`Keeps`, `Admits`, `Aims`) is shown once for every batch of the session.

### View and actor

- **`LoopViewProofs`.** A key is accepted once because its acceptor holds its claim
  (`ClaimsHeld`), and because whoever looks a key up finds the acceptance that the
  journal has or waits for its acceptor (`AcceptancesKnown`); a failed append breaks the
  second, which is why the code makes the view unavailable then.
  `ReceiptsBacked` says that a receipt stands for an entry, at its position or, for an
  interrupt, after it: the cursor is read late. `TargetsOpen` needs that runs are
  numbered as they are opened and that a session that is not idle has its run
  open. `ClosedIsQuiet` is the write lock of `Close`.
- **`ActorWorkerProofs`.** Fences of the journal are ordered, and the worker in charge has
  the highest (`LeaseInv`); an entry in the journal resolves a command that left
  the mailbox (`PagesInv`, `AcknowledgedInv`). For `WorkIsFound` the invariant follows the
  owner: its handle is what the journal folds to (`Matches`), it does not retire from a
  run that goes on (`Retiring`), its snapshot is not ahead of the journal
  (`ViewInv`), and a run that it set going is waited for until its end was seen
  (`WaitInv`). Ends are unique only while no run was resumed, hence `NoResolve`: for a
  resumed run the last fact is false (run `resumed`).

### Agent loop

`Inv` of `AgentLoopProofs` is a conjunction of eight. `Batch` and `Types` are the types of
scheduler and loop, and that a completion in the channel is of a handler that
ended. `Transcripts` says where the transcript ends in an open frontier and where every
call is answered, `Batches` that a batch is a part of that frontier within the limit
of tool calls. `Told` and `Sunk` are about the stream and the sink: one outcome, and a
sink that is behind only in a turn that failed for it. `Counted` compares the
requests of the transcript since the drive began with the counter, over
suspensions; `Limited` has the other counters.

`Scanned` is a recursive function over the messages. Its lemmas (`ScanPrefix`,
`InspectAppend`, `InspectAnswers`) are by the least message for which they fail, whose
predecessor does not: well-foundedness of the naturals as a fact about sets takes
the place of an induction over data.

The proof found that `RequestsBounded` did not hold as first written: counted from
the beginning, a drive with a long history exceeds any limit before it asks for
anything. Requests are those after the transcript that the drive began with.

### Event hub

A subscriber is looked at together with what its reader got and with the records
published so far. `Sound` says of the three that the records got and those in the
channel ascend from the position asked for, that `last` is the highest of them, and
that a published record that is neither got nor in the channel was overtaken, if the
subscriber is connected. Why `last` matters is the overtaken record: it is skipped because of
a record that has `last`'s cursor, and that one was published before. A lemma for each thing that is
done to a subscriber (a preview, a record, a disconnection, a read) keeps `Sound`; a
replay is the same lemma for each prefix of the history (`ReplaySound`), by the least
prefix for which it fails.

`PreviewLossReported` is about a sum over a channel: `Balanced` says that the previews lost
are those counted in the subscriber, in its channel and in what the reader was told,
which each of the same four steps keeps.

For the refinement `Tight` says, as long as the hub has the records 1, 2, ...
(`InSequence`), that a subscriber's channel has every record between the last one read
and `last`, which is the last one published, or the position asked for where the hub
has not come so far. Hence the next record read is the next entry of the journal, which
is what `EventFeed` allows a reader to take. Without `Upto` this is not inductive: a
position is checked against the journal, which may be ahead of the hub. Once a
record overtook another `InSequence` is false for good, so that an invariant under
that condition suffices. `OneWriterFeeds` needs in addition that what one writer has
not published yet follows what it has (`Alone`).

### Local host

`HostInv` (`FeedProofs`) has two halves that hardly touch.

- **`Shown`** says how much of the journal is shown. `Shows` and `Reached` relate the
  projection to the sources that feed it: it is the events of some first
  records, possibly cut between the two of one record; it reaches at least as far as the
  refreshes covered and as the stream has come; and what may be published
  next overlaps it or follows it, without a gap. Publishing such a part leaves a
  longer prefix whatever the overlap is, because an event that was published is
  known by its key and every event has a key of its own (the host's `eventKey` names the
  entry as well as the position; by position alone the second event of a record would be
  dropped, which is the mutant). A client's stream has the events after its position of
  what is shown, and each publication adds to both the same ones.
- **`Serial`** says whose turn it is. A Start in the mailbox is the one `startID` names, and
  stays named after its acceptance until a snapshot covers it; when nothing is named,
  every run that is open was started at a position the stored snapshot covers. `Tells` says
  of a snapshot, stored or on its way, that if it reports an idle session then no
  run started at a position it covers is open. The position is read before
  the state, so the state may tell of what is later than the position and never of less:
  the order of the two reads is what makes the decision of `SubmitStart` safe. Together: a
  host that names no Start and was told of an idle session has no open run, hence
  the submission is alone.

The projection, the publication and the catching up of a stream are recursive functions of
a position, and each lemma about one is proved by the least position at which it fails.

### Streams of a session

The invariant of `LoopProjection` (`FeedProofs`) is a fact about the session and one about
its subscriber, because attribution needs both. `JournalInv` says that every record suits those before
it (`Suits`): the fold of the records before it has the run it was written for, knows
the queues it names, and holds as pending the commands of the resumption it opens. Each
kind of batch is proved to keep that, record by record (`ToldMore`); it is why a resolution
is written before the run is closed, and why a prompt follows its opening. It is
an invariant of what the session writes, and no reader occurs in it. `StreamInv` then says that
what the hub has yet to hand out is each of the records after the one last read, once and in
order (`Following`), that the stream's fold is the fold of what lies before it in the three
fields that attribute (`Agrees`, since losses and ordinals are the stream's own), and that
what was shown is the history up to there. Seeding establishes the second
for whatever position a stream begins at, and `ProjectParts` shows that a
record which suits the fold is projected to what it truly shows. The previews are an
equation of sums (`Accounted`): an item taken moves its losses from the source to the event it
shows, or to the fold when it shows none (`StampParts`). Folds and sums are
recursive functions of a position, which exist because each value follows from the one
before (`Recursion`), and are compared by the least position at which they differ (`Climb`).

### Children and permissions

- **`ChildrenInv`** (`GrantProofs`). `Good` says of one call what its place in its code
  allows: whether it holds the lease, how far its child is, what was read of the
  child's usage, where its events are. Each step of a call is a lemma about one
  record, and `CallGoes`, `CallEnds` put it among the others: one call at a time holds the
  lease, its limit and what was charged are within the budget (`LeaseFits`), and a parent
  that is idle has no call it still waits for. What is charged and the request that is
  owed are at most one more than the budget: a request is made only below it, and a turn that
  ends charges what its lease did not know. `LeaseFits` holds only while the parent waits
  for all its calls: one that a cancelled parent left behind may spend beside its next run,
  which is why `BudgetIsShared` says whom it is about. `DoneIsCharged` has the exceptions of
  the code: a call whose child could not be closed.
- **`GateInv`** (`GrantProofs`). A start has an approval in its own attempt because
  what an operator holds is a plan for the suspension of its number (`Numbered`), numbers
  are not used twice, and a plan that is valid has a decision for each required call
  (`Covers`), so that what may still start was allowed or approved (`Cleared`). `Frontier`
  says what a crash folds back to: while an attempt is not announced, the suspension is
  still the question that was asked, no call has a result and nothing was announced before.
  `StartsAreCleared` counts: starts are of this attempt or of earlier ones, a call that is
  planned has none of this attempt, and none is of a later attempt than one that was
  announced. The code only counts decisions and refuses a second one for a call; that none
  is missing then is a matter of cardinality (`EachIsResolved`). `ResultsAreWhole` gives each
  call of a batch that is over one result. Of rules without a class, the one that matches
  fewer requests weighs more (`NarrowerWeighsMore`), by cases over the patterns, and
  the rule that decides exists and is one (`BestExists`, `BestIsOne`) for a policy of
  any length.

### Journal file

`Durable` (`EdgeProofs`) says that only the last line of the file can be torn, that the
others are in the order of batches and parts, and that a batch which was reported
and asked for sync is among the synced lines, none of which is torn. The last is
what makes loading safe: `RecoverPartial` cuts a torn line off before anyone can tell
whether it was of a committed batch, and `SyncedIsWhole` shows that it was not. Neither
the lock, nor the cursor, nor the grant occurs in the argument: an append loads the
file and writes in one step of the model, because the code holds the file's lock from
opening to closing and a mutex during each call, and then several processes can do
no more harm than one that fails.

### Generated programs

`CodeInv` (`EdgeProofs`). That an effect has no second of its name, unless the first was
of a resumption that was lost, is the part that needs an invariant: an entry of the log is a
step and a call, so two effects are the same when a step is repeated or a call is. `Owned`
says it of the effects that count, those of resumptions that were announced and of the one
at hand (`Trusted`): each is of a step before the one at hand, or of a call of its batch that
was reached; the calls of a batch have names of their own (`validateStep`), so the next one
is new (`ExecuteKeepsCodeInv`). While a program is suspended its step, calls and output are in
the deferral, and the handler's are reset: `Held` picks the one or the other, and everything
is said of what it picks. As long as a resumption is not announced a crash may fold back,
so that the deferral has to stay one from which to go on (`Resumable`): its step is after
every effect that counts, and a later resumption has a greater number than all entries
(`Dated`). That the start is the record right before the effect is `StartIsLast`, and holds
because a call runs in a phase of its own. After a result was committed or the program
lost, nothing more is recorded.

### Voice calls

`VoiceInv` (`EdgeProofs`) has one part for each half of `VoiceIsCoherent`, and what they
rest on. `Spoken` is about responses: while results are not yet heard, a response is
about to be asked for, or owed, or deferred, and where one is deferred or marked as under way
its end is still to come, because the provider is speaking, has the end in its queue, or
somebody is about to ask. The exception is a request that the provider rejected. `Historic`
and `Waited` are about runs: what the watcher has folded of a run, with the events that
it has not read, is what the run told, so that the call which takes the entry of its run
takes a report of that run (`Outputted`). Two facts about the stream had to be added because
the rest is not inductive without them: an older answer in it is followed by the newest one
(`Unwatched`), and nothing of a run follows its end. Else a watcher that is behind could report
what the run has since replaced, or reopen an entry that was taken. `CallsAskedOnce` says
that the receive loop hands each call over once, hence (`Counted`) as many runs as there are
calls are enough, and no bound is left in the theorem.

### HTTP posts

`RetryInv` (`EdgeProofs`) counts: at each step of a post the answers are at most one more than
the attempts that are over, and a wait follows each attempt but the last. `WaitsFit` says of
the n-th wait that it is what was asked for, by the server or by the backoff of the n-th
attempt, and at most a quarter more, with no more at all where the client does not spread
its waits. The rest is arithmetic. That the backoff is between one second and four and
grows is a fact about `1 << attempt` seconds in a Duration: `Power` is a recursive function,
about which the lemmas go by the least number that is wrong, and a product below the sign
bit is what it is in a Duration (`DelayGrows`). Of two waits of the backoff the later is then
at least four fifths of the earlier (`QuarterIsBounded`). For 34 retries or more a Duration
overflows, and `DurationsFit` says so; nobody asks for so many.

### What is only model-checked

- *Liveness and `ENABLED`*: `RunsEnd`, `Reopens`, `CancelledReturns`, `CallersReturn`,
  `WorkEnds`. The prover has no rules for fairness.
- *Folds and recursion over data*: `ContextPolicy`, `MemoryStore` and the modules of `edges`
  but `CodeMode`, `HttpRetry` and `VoiceBridge` compute with folds of sequences, whose induction theorems
  take an operator as a parameter, or enumerate inputs up to a bound. `PastIsKept` and the
  other properties of `edges` are checked only.
- What `CancellingSpec` of `LoopProjection` adds: a `Next` that is cancelled loses its record, and
  `StreamKeepsFaith` is about readers that wait.
- `TargetedInputStaysInRun` is false of the whole system (`leaked_input`, `crossed_input`). It
  is checked in the instance of `inputs` and proved of the behaviours without the two causes.

## 6. Plan

All modules of the plan are written and checked, and the session, the view, the
actor, the agent loop, the event hub, the local host, streams, child sessions, the permission
gate, the journal file, generated programs, voice calls and HTTP posts are proved about. What is left is
`Session` composed with `LoopView`, in place of the abstract session there, and
with `EventHub` and `LoopProjection` for what a subscriber sees of a crash.

### Not modelled

- *Tool registry, toolsets, MCP*: reflection, schemas and protocol clients.
  Registration happens once before a run; a call of a tool is a handler.
- *Environments, artifacts, skills*: each operation is one call on the operating
  system, with nothing kept between calls that another actor shares.
- *Telemetry, evaluation, examples*: observers; they decide nothing.
- Of the parts that are modelled: context markers as journal entries of `Session`
  (they are in `ContextPolicy`); nested delegation and the resumption of suspended
  children; `Recover` of the mailbox; steers and resolutions in `LocalHost`; the
  in-memory stores, which are a variable under a mutex; reads and searches of
  memory that change nothing; the end of a voice call; rendering and keys of the
  terminal; images, schemas, structured output and the wording of errors of
  providers; wire encodings; tokenisation and model files of local encoders.

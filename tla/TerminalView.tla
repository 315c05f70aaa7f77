------------------------------ MODULE TerminalView ------------------------------
(***************************************************************************)
(* The terminal client (tui/app, tui/adapter/sessionloop): a reducer whose *)
(* state is fed by three kinds of goroutines that answer in any order, the *)
(* operations it started, the bridge that forwards a session's events in   *)
(* batches, and the opening of another session.                            *)
(*                                                                         *)
(*   journal   what the sessions recorded, entries and lifecycle           *)
(*   queued    per session: steers accepted and not yet injected           *)
(*   closed    sessions whose handle was closed                            *)
(*   bridge    per session: its position, the events of the record there   *)
(*             still to come, the batch, the updates sent                  *)
(*   ops       operations in the order they were started                   *)
(*   view      the reducer's state                                         *)
(***************************************************************************)
EXTENDS Naturals, Sequences, FiniteSets, SequencesExt

CONSTANTS
  MaxSessions,    \* bound on sessions opened
  Texts,          \* what the user types
  MaxRecords,     \* bound on records of a session
  MaxOps,         \* bound on operations
  Buffer          \* updates the bridge has room for

VARIABLES journal, queued, closed, bridge, ops, view
viewVars == <<journal, queued, closed, bridge, ops, view>>

(***************************************************************************)
(* Sessions as the adapter presents them.                                  *)
(***************************************************************************)
User(t) == <<"user", t>>
Answer(n) == <<"assistant", n>>
\* a prompt and the opening of its run are one; what accepts a steer shows nothing
\* and is left out
Record(kind, entries) == [kind |-> kind, entries |-> entries]
Cursor(s) == Len(journal[s])
NewSnapshot(s) == [session |-> s, cursor |-> 0, transcript |-> <<>>, state |-> "idle", suspension |-> 0]

Folded(snapshot, r) ==
  LET next == [snapshot EXCEPT !.cursor = @ + 1,
                 !.transcript = @ \o r.entries]
  IN CASE r.kind = "started" -> [next EXCEPT !.state = "running", !.suspension = 0]
       [] r.kind = "suspended" -> [next EXCEPT !.state = "suspended", !.suspension = next.cursor]
       [] r.kind \in {"completed", "failed"} -> [next EXCEPT !.state = "idle", !.suspension = 0]
       [] OTHER -> next
Snapshot(s) == FoldLeft(Folded, NewSnapshot(s), journal[s])
Answers(transcript) == SelectSeq(transcript, LAMBDA e : e[1] = "assistant")

HasRoom(s, n) == s \notin closed /\ Cursor(s) + n <= MaxRecords
Commits(s, records) == journal' = [journal EXCEPT ![s] = @ \o records]
\* steers of one boundary are one record, and no run completes before them
RunProceeds(s) ==
  /\ HasRoom(s, 1) /\ Snapshot(s).state = "running"
  /\ \/ /\ Commits(s, <<Record("assistant", <<Answer(Len(Answers(Snapshot(s).transcript)) + 1)>>)>>)
        /\ UNCHANGED queued
     \/ Commits(s, <<Record("suspended", <<>>)>>) /\ UNCHANGED queued
     \/ /\ queued[s] # <<>> /\ Commits(s, <<Record("injected", queued[s])>>)
        /\ queued' = [queued EXCEPT ![s] = <<>>]
     \/ queued[s] = <<>> /\ Commits(s, <<Record("completed", <<>>)>>) /\ UNCHANGED queued
     \/ Commits(s, <<Record("failed", <<>>)>>) /\ queued' = [queued EXCEPT ![s] = <<>>]
  /\ UNCHANGED <<closed, bridge, ops, view>>

(***************************************************************************)
(* The reducer.                                                            *)
(***************************************************************************)
NoAnswer == [session |-> 0]
Bridge(step, after) == [step |-> step, after |-> after, rest |-> <<>>, batch |-> <<>>, updates |-> <<>>]
\* a new session is attached, or one that another host is driving
TerminalInit ==
  /\ \E records \in {<<>>} \cup {<<Record("started", <<User(t)>>)>> : t \in Texts} :
       journal = [s \in 1..MaxSessions |-> IF s = 1 THEN records ELSE <<>>]
  /\ queued = [s \in 1..MaxSessions |-> <<>>] /\ closed = {}
  /\ bridge = [s \in 1..MaxSessions |-> Bridge(IF s = 1 THEN "reads" ELSE "off", Cursor(s))]
  /\ ops = <<>>
  /\ view = [attached |-> 1, shown |-> Snapshot(1), optimistic |-> <<>>, issued |-> 0,
             preview |-> {}, resolving |-> 0, decided |-> FALSE, overtaken |-> FALSE]

Reset(v) == [v EXCEPT !.decided = FALSE]
At(v, p) == p.index < Len(v.shown.transcript) /\ v.shown.transcript[p.index + 1] = p.entry

\* a snapshot replaces what is shown; submissions it does not hold are shown after it
reconcileOptimistic(v) ==
  LET Keep(acc, p) ==
        LET from == IF p.index < Len(acc.shown.transcript) THEN p.index ELSE Len(acc.shown.transcript)
            rest == SubSeq(acc.shown.transcript, from + 1, Len(acc.shown.transcript))
        IN IF p.entry \in Range(rest) THEN acc
           ELSE [acc EXCEPT !.optimistic = Append(@, [p EXCEPT !.index = Len(acc.shown.transcript)]),
                            !.shown.transcript = Append(@, p.entry)]
  IN FoldLeft(Keep, [v EXCEPT !.optimistic = <<>>], v.optimistic)
Replaced(v, snapshot) == [reconcileOptimistic([v EXCEPT !.shown = snapshot]) EXCEPT !.preview = {}]

appendOptimistic(v, entry) ==
  [v EXCEPT !.issued = @ + 1, !.shown.transcript = Append(@, entry),
            !.optimistic = Append(@, [id |-> v.issued + 1, index |-> Len(v.shown.transcript), entry |-> entry])]

confirmed(v, entry) == {i \in DOMAIN v.optimistic : v.optimistic[i].entry = entry /\ At(v, v.optimistic[i])}
rollbackOptimistic(v, id) ==
  IF \A i \in DOMAIN v.optimistic : v.optimistic[i].id # id THEN v
  ELSE LET i == CHOOSE i \in DOMAIN v.optimistic : v.optimistic[i].id = id
           p == v.optimistic[i]
           moved(q) == IF At(v, p) /\ q.index > p.index THEN [q EXCEPT !.index = @ - 1] ELSE q
           left == RemoveAt(v.optimistic, i)
       IN [v EXCEPT !.shown.transcript = IF At(v, p) THEN RemoveAt(@, p.index + 1) ELSE @,
                    !.optimistic = [j \in DOMAIN left |-> moved(left[j])]]

\* events of another session move the cursor and nothing else
applyEvent(v0, event) ==
  LET v == [v0 EXCEPT !.shown.cursor = IF event.cursor > @ THEN event.cursor ELSE @]
      Settled(state) == Reset([v EXCEPT !.shown.state = state, !.shown.suspension = 0, !.resolving = 0])
  IN IF event.session # v.shown.session THEN v
     ELSE CASE event.kind = "delta" -> [v EXCEPT !.preview = @ \cup {event.entry}]
       [] event.kind = "assistant" -> [v EXCEPT !.preview = {}, !.shown.transcript = Append(@, event.entry)]
       [] event.kind = "injected" ->
            IF confirmed(v, event.entry) = {} THEN [v EXCEPT !.shown.transcript = Append(@, event.entry)]
            ELSE [v EXCEPT !.optimistic =
                    RemoveAt(@, CHOOSE i \in confirmed(v, event.entry) : \A j \in confirmed(v, event.entry) : i <= j)]
       [] event.kind = "started" ->
            IF v.resolving = 0 THEN [v EXCEPT !.shown.state = "running"]
            ELSE Reset([v EXCEPT !.shown.state = "running", !.shown.suspension = 0, !.resolving = 0])
       [] event.kind = "suspended" /\ event.suspension # 0 ->
            LET w == [v EXCEPT !.shown.suspension = event.suspension, !.shown.state = "suspended"]
            IN IF event.suspension = v.resolving THEN w ELSE Reset(w)
       [] event.kind \in {"completed", "ended"} -> [Settled("idle") EXCEPT !.preview = {}]
       [] event.kind = "failed" -> [v EXCEPT !.shown.state = "faulted", !.shown.suspension = 0, !.resolving = 0]
       [] OTHER -> v

\* fault: what came with the snapshot itself is shown again
CoveredBefore(v, event) == event.durable /\ event.cursor < v.shown.cursor

\* an update's events up to the last one the shown snapshot covers are stale, and
\* so is an event of the record that the event before it has brought
Covered(v, event) == event.durable /\ event.cursor <= v.shown.cursor
Stale(v, events) == {i \in DOMAIN events : Covered(v, events[i])}

StaleThrough(v, events) ==
  IF Stale(v, events) = {} THEN 0 ELSE CHOOSE i \in Stale(v, events) : \A j \in Stale(v, events) : j <= i

applyBridge(v, update) ==
  IF update.snapshot # NoAnswer
  THEN LET w == Replaced(v, update.snapshot)
       IN IF update.snapshot.suspension # 0 /\ update.snapshot.suspension = v.resolving THEN w
          ELSE Reset([w EXCEPT !.resolving = 0])
  ELSE FoldLeft(LAMBDA w, event : IF Covered(w, event) THEN w ELSE applyEvent(w, event), v,
                SubSeq(update.events, StaleThrough(v, update.events) + 1, Len(update.events)))

(***************************************************************************)
(* The bridge.                                                             *)
(***************************************************************************)
\* what a record is mapped to: an event for each entry, and the end of a run is two
Events(s, i) ==
  LET r == journal[s][i]
      Event(kind, entry) ==
        [session |-> s, durable |-> TRUE, cursor |-> i, kind |-> kind, entry |-> entry,
         suspension |-> IF kind = "suspended" THEN Snapshot(s).suspension ELSE 0]
  IN IF r.kind \in {"completed", "failed"} THEN <<Event(r.kind, <<>>), Event("ended", <<>>)>>
     ELSE IF r.entries = <<>> THEN <<Event(r.kind, <<>>)>>
     ELSE [k \in DOMAIN r.entries |-> Event(r.kind, r.entries[k])]
Delta(s) == [session |-> s, durable |-> FALSE, cursor |-> 0, kind |-> "delta", suspension |-> 0,
             entry |-> Answer(Len(Answers(Snapshot(s).transcript)) + 1)]
Reading(s) == bridge[s].step = "reads" /\ s \notin closed
UpdatesFull(s) == Len(bridge[s].updates) = Buffer
Batch(s, events) ==
  bridge' = [bridge EXCEPT ![s].batch = Append(@, Head(events)), ![s].rest = Tail(events),
                           ![s].after = IF Head(events).durable THEN Head(events).cursor ELSE @]
Update(events, snapshot) == [events |-> events, snapshot |-> snapshot]

ReadsEvent(s) ==
  /\ Reading(s) /\ Len(bridge[s].batch) < 2
  /\ \/ bridge[s].rest # <<>> /\ Batch(s, bridge[s].rest)
     \/ /\ bridge[s].rest = <<>> /\ bridge[s].after < Cursor(s)
        /\ Batch(s, Events(s, bridge[s].after + 1))
  /\ UNCHANGED <<journal, queued, closed, ops, view>>
ReadsDelta(s) ==
  /\ Reading(s) /\ bridge[s].after = Cursor(s) /\ bridge[s].rest = <<>>
  /\ Snapshot(s).state = "running"
  /\ bridge[s].batch = <<>> /\ Batch(s, <<Delta(s)>>)
  /\ UNCHANGED <<journal, queued, closed, ops, view>>

Flushed(b) == [b EXCEPT !.updates = IF b.batch = <<>> THEN @ ELSE Append(@, Update(b.batch, NoAnswer)),
                        !.batch = <<>>]
Ticks(s) ==
  /\ Reading(s) /\ bridge[s].batch # <<>> /\ ~UpdatesFull(s)
  /\ bridge' = [bridge EXCEPT ![s] = Flushed(@)]
  /\ UNCHANGED <<journal, queued, closed, ops, view>>

\* fault: the bridge goes on without a snapshot
Resubscribes(b) == [Flushed(b) EXCEPT !.step = "reads"]

\* the subscriber lagged or lost a preview: what it has is sent, then a snapshot
Resyncs(b) == [Flushed(b) EXCEPT !.step = "resyncs"]

LosesEvents(s) ==
  /\ Reading(s) /\ bridge[s].after < Cursor(s) /\ ~UpdatesFull(s)
  /\ bridge' = [bridge EXCEPT ![s] = [Resyncs(@) EXCEPT !.after = Cursor(s), !.rest = <<>>]]
  /\ UNCHANGED <<journal, queued, closed, ops, view>>
SendsSnapshot(s) ==
  /\ bridge[s].step = "resyncs" /\ s \notin closed /\ ~UpdatesFull(s)
  /\ bridge' = [bridge EXCEPT ![s].updates = Append(@, Update(<<>>, Snapshot(s))),
                              ![s].after = Cursor(s), ![s].step = "reads"]
  /\ UNCHANGED <<journal, queued, closed, ops, view>>
ReceivesUpdate(s) ==
  /\ view.attached = s /\ bridge[s].updates # <<>>
  /\ view' = applyBridge(view, Head(bridge[s].updates))
  /\ bridge' = [bridge EXCEPT ![s].updates = Tail(@)]
  /\ UNCHANGED <<journal, queued, closed, ops>>

(***************************************************************************)
(* Operations: what a key starts, what its goroutine does, what its answer *)
(* changes.                                                                *)
(***************************************************************************)
Op(kind, entry, id) ==
  [kind |-> kind, session |-> view.attached, entry |-> entry, id |-> id, step |-> "dispatches",
   from |-> 0, failed |-> FALSE, applied |-> TRUE, answer |-> NoAnswer]
Starts(op) == Len(ops) < MaxOps /\ ops' = Append(ops, op)
Composing == view.shown.suspension = 0 /\ view.resolving = 0

Submits(t) ==
  /\ Composing /\ Starts(Op("submit", User(t), view.issued + 1))
  /\ view' = appendOptimistic(view, User(t))
  /\ UNCHANGED <<journal, queued, closed, bridge>>
Steers(t) == Composing /\ Starts(Op("steer", User(t), 0)) /\ UNCHANGED <<journal, queued, closed, bridge, view>>
Interrupts ==
  /\ Composing \/ view.resolving # 0
  /\ Starts(Op("interrupt", <<>>, 0)) /\ UNCHANGED <<journal, queued, closed, bridge, view>>
Decides ==
  /\ view.shown.suspension # 0 /\ view.resolving = 0 /\ ~view.decided
  /\ view' = [view EXCEPT !.decided = TRUE] /\ UNCHANGED <<journal, queued, closed, bridge, ops>>
Resolves ==
  /\ view.shown.suspension # 0 /\ view.resolving = 0 /\ view.decided
  /\ Starts(Op("resolve", <<>>, view.shown.suspension))
  /\ view' = [view EXCEPT !.resolving = view.shown.suspension]
  /\ UNCHANGED <<journal, queued, closed, bridge>>
Switches == Composing /\ Starts(Op("switch", <<>>, 0)) /\ UNCHANGED <<journal, queued, closed, bridge, view>>

Goes(i, op) == ops' = [ops EXCEPT ![i] = op]
Refused(op) == [op EXCEPT !.failed = TRUE, !.step = IF op.kind = "resolve" THEN "answers" ELSE "reads"]
\* the records a command commits
Accepted(op) ==
  LET s == Snapshot(op.session)
  IN IF op.session \in closed THEN <<>>
     ELSE CASE op.kind = "submit" /\ s.state = "idle" -> <<Record("started", <<op.entry>>)>>
            [] op.kind = "resolve" /\ s.suspension = op.id -> <<Record("started", <<>>)>>
            [] op.kind = "interrupt" /\ s.state # "idle" -> <<Record("completed", <<>>)>>
            [] OTHER -> <<>>
Queues(op) ==
  op.kind = "steer" /\ op.session \notin closed /\ Snapshot(op.session).state = "running"
Dispatches(i) ==
  LET op == ops[i] records == Accepted(op)
  IN /\ op.step = "dispatches" /\ op.kind # "switch"
     /\ IF Queues(op)
        THEN /\ Goes(i, [op EXCEPT !.step = "reads"])
             /\ queued' = [queued EXCEPT ![op.session] = Append(@, op.entry)] /\ UNCHANGED journal
        ELSE IF records = <<>> THEN Goes(i, Refused(op)) /\ UNCHANGED <<journal, queued>>
        ELSE /\ HasRoom(op.session, Len(records)) /\ Commits(op.session, records)
             /\ queued' = [queued EXCEPT ![op.session] = IF op.kind = "interrupt" THEN <<>> ELSE @]
             /\ Goes(i, [op EXCEPT !.from = Cursor(op.session) + Len(records),
                           !.step = IF op.kind \in {"submit", "resolve"} THEN "waits" ELSE "reads"])
     /\ UNCHANGED <<closed, bridge, view>>

\* the run paused or settled, or the handle was closed
Boundary(op) == \E k \in (op.from + 1)..Cursor(op.session) :
                  journal[op.session][k].kind \in {"suspended", "completed", "failed"}
RunReturns(i) ==
  /\ ops[i].step = "waits"
  /\ \/ Boundary(ops[i]) /\ Goes(i, [ops[i] EXCEPT !.step = "reads"])
     \/ ops[i].session \in closed /\ Goes(i, Refused(ops[i]))
  /\ UNCHANGED <<journal, queued, closed, bridge, view>>
ReadsSnapshot(i) ==
  LET op == ops[i] snapshot == Snapshot(op.session)
  IN /\ op.step = "reads"
     /\ Goes(i, IF op.session \in closed
                THEN [op EXCEPT !.step = "answers", !.failed = TRUE, !.applied = FALSE]
                ELSE [op EXCEPT !.step = "answers", !.answer = snapshot,
                        !.applied = op.kind # "submit" \/ op.entry \in Range(snapshot.transcript)])
     /\ UNCHANGED <<journal, queued, closed, bridge, view>>

\* another session is opened and bridged before the one left is closed
Opens(i) ==
  LET op == ops[i]
      s == CHOOSE s \in 1..MaxSessions : bridge[s].step = "off" /\ \A t \in 1..s - 1 : bridge[t].step # "off"
  IN /\ op.step = "dispatches" /\ op.kind = "switch" /\ \E t \in 1..MaxSessions : bridge[t].step = "off"
     /\ bridge' = [bridge EXCEPT ![s].step = "reads"]
     /\ Goes(i, [op EXCEPT !.step = "closes", !.answer = Snapshot(s)])
     /\ UNCHANGED <<journal, queued, closed, view>>
ClosesOld(i) ==
  /\ ops[i].step = "closes"
  /\ closed' = closed \cup {ops[i].session}
  /\ bridge' = [bridge EXCEPT ![ops[i].session].step = "cancelled"]
  /\ Goes(i, [ops[i] EXCEPT !.step = "answers"])
  /\ UNCHANGED <<journal, queued, view>>

replaceSession(v, snapshot) ==
  Reset([v EXCEPT !.attached = snapshot.session, !.shown = snapshot, !.optimistic = <<>>,
                  !.preview = {}, !.resolving = 0])
\* whether an answer was overtaken by what the bridge showed since, or by a switch
Late(v, answer) == answer.session # v.attached \/ answer.cursor < v.shown.cursor
operationDone(v, op) ==
  LET resolved == [v EXCEPT !.resolving = IF op.kind = "resolve" THEN 0 ELSE @]
      w == IF op.answer = NoAnswer THEN resolved ELSE Reset(Replaced(resolved, op.answer))
  IN [(IF op.failed /\ op.kind = "submit" /\ (op.answer = NoAnswer \/ ~op.applied)
       THEN rollbackOptimistic(w, op.id) ELSE w)
      EXCEPT !.overtaken = @ \/ (op.answer # NoAnswer /\ Late(v, op.answer))]
\* of an operation that is over, and of the bridge of a session left, nothing is kept
\* that nothing reads
ReceivesAnswer(i) ==
  /\ ops[i].step = "answers"
  /\ view' = IF ops[i].kind = "switch" THEN replaceSession(view, ops[i].answer)
             ELSE operationDone(view, ops[i])
  /\ bridge' = IF ops[i].kind = "switch" /\ view.attached # ops[i].answer.session
               THEN [bridge EXCEPT ![view.attached] = Bridge("cancelled", 0)] ELSE bridge
  /\ Goes(i, [ops[i] EXCEPT !.step = "done", !.answer = NoAnswer, !.from = 0, !.applied = TRUE])
  /\ UNCHANGED <<journal, queued, closed>>

TerminalNext ==
  \/ \E s \in 1..MaxSessions :
       \/ RunProceeds(s) \/ ReadsEvent(s) \/ ReadsDelta(s) \/ Ticks(s)
       \/ LosesEvents(s) \/ SendsSnapshot(s) \/ ReceivesUpdate(s)
  \/ \E t \in Texts : Submits(t) \/ Steers(t)
  \/ Interrupts \/ Decides \/ Resolves \/ Switches
  \/ \E i \in DOMAIN ops : \/ Dispatches(i) \/ RunReturns(i) \/ ReadsSnapshot(i)
                           \/ Opens(i) \/ ClosesOld(i) \/ ReceivesAnswer(i)
TerminalSpec == TerminalInit /\ [][TerminalNext]_viewVars

(***************************************************************************)
(* Properties.                                                             *)
(***************************************************************************)
\* "This prevents duplicate transcript entries": an answer of the model is in the
\* transcript once and in order, whichever of a snapshot and the bridge brings it
\* first (applyBridge). It says nothing of the preview beside the transcript.
AnswersShownOnce ==
  LET answers == Answers(view.shown.transcript)
  IN \A i, j \in DOMAIN answers : i < j => answers[i][2] < answers[j][2]

\* "... and an orphaned old preview": what is previewed is not in the transcript.
NoOrphanedPreview == \A e \in view.preview : e \notin Range(view.shown.transcript)

\* What is shown is of the session attached.
ShowsAttached == view.shown.session = view.attached

\* Nothing is under way, no answer came later than what it answers
\* (operationDoneMsg carries no cursor) and no submission was refused (its text may
\* stay: transcriptContains asks the whole transcript, reconcileOptimistic only
\* what follows an index).
AtRest ==
  /\ \A i \in DOMAIN ops : ops[i].step = "done" /\ (ops[i].kind = "submit" => ~ops[i].failed)
  /\ LET b == bridge[view.attached] IN b.step = "reads" /\ b.batch = <<>> /\ b.updates = <<>>
                                       /\ b.after = Cursor(view.attached) /\ b.rest = <<>>
  /\ ~view.overtaken

\* Then the screen shows what the session holds, unless steers were injected
\* together, and a session whose run failed may be shown as one that is faulted.
Failing(s) == IF Cursor(s) > 0 /\ Last(journal[s]).kind = "failed" THEN {"faulted"} ELSE {}
InjectedTogether(s) == \E i \in DOMAIN journal[s] : Len(journal[s][i].entries) > 1
ViewIsCurrent ==
  AtRest =>
    /\ ~InjectedTogether(view.attached) => view.shown.transcript = Snapshot(view.attached).transcript
    /\ view.shown.state \in {Snapshot(view.attached).state} \cup Failing(view.attached)
    /\ view.shown.suspension = Snapshot(view.attached).suspension
    /\ view.shown.cursor = Cursor(view.attached)

\* Steers that one boundary injects are one record, all of whose events have its
\* cursor, and each is shown.
InjectionsAreShown == AtRest => view.shown.transcript = Snapshot(view.attached).transcript

\* The end of a failed run is two events, and the second leaves the screen idle as
\* the session is (settledEvents, applyEvent).
EndsAreShown == AtRest => view.shown.state = Snapshot(view.attached).state
=============================================================================

---------------------------- MODULE LoopProjection ----------------------------
(***************************************************************************)
(* The projection of a session's records to protocol events                *)
(* (harness/session/loop_projection.go, loop_fold.go and the streams of    *)
(* loop_view.go). The session writes records; a subscriber opens a stream  *)
(* after a position of the history, seeds a fold with what lies before it  *)
(* and projects the records that follow, previews among them.              *)
(*                                                                         *)
(*   journal  records [kind, run, queues]: run is the run the record was   *)
(*            written for, which the payload of most kinds does not say    *)
(*   drive    the state of the run at hand, runs the last one opened       *)
(*   source   the hub's subscription: what it has yet to hand out          *)
(*   deltas   previews published, lost those dropped and not yet reported  *)
(*   stream   [open, after, read, fold, seen]                              *)
(***************************************************************************)
EXTENDS Naturals, Sequences, FiniteSets, SequencesExt

CONSTANTS
  MaxRecords,   \* bound on the journal
  MaxTurns,     \* bound on assistant, child and silent records
  MaxDeltas     \* bound on published previews

VARIABLES journal, drive, runs, deltas, lost, source, stream
projectionVars == <<journal, drive, runs, deltas, lost, source, stream>>

Written(kind, of, queues) == [kind |-> kind, run |-> of, queues |-> queues]
Plain(kind) == Written(kind, runs, <<>>)
\* what the hub hands out: record n of the journal, or a preview (0)
Item(n, dropped) == [n |-> n, dropped |-> dropped]

NoFold == [run |-> 0, pending |-> <<>>, known |-> {}, last |-> 0,
           ordinal |-> 0, dropped |-> 0]
NoStream == [open |-> FALSE, after |-> 0, read |-> 0, fold |-> NoFold, seen |-> <<>>]

ProjectionInit ==
  /\ journal = <<>> /\ drive = "idle" /\ runs = 0
  /\ deltas = 0 /\ lost = 0 /\ source = <<>> /\ stream = NoStream

(***************************************************************************)
(* The session: batches reach the journal and the hub whole.               *)
(***************************************************************************)
\* a subscriber's dropped previews are reported with the record that follows
Hands(from, count) ==
  IF ~stream.open THEN lost' = lost /\ source' = source
  ELSE /\ lost' = 0
       /\ source' = source \o [i \in 1..count |-> Item(from + i, IF i = 1 THEN lost ELSE 0)]

Write(records) ==
  /\ Len(journal) + Len(records) <= MaxRecords
  /\ journal' = journal \o records
  /\ Hands(Len(journal), Len(records))
  /\ UNCHANGED <<deltas, stream>>

Positions(kind) == {n \in DOMAIN journal : journal[n].kind = kind}
QueuesOf(kind) == UNION {Range(journal[n].queues) : n \in Positions(kind)}
Waiting == QueuesOf("accepted") \ QueuesOf("drained")

\* the positions of a set up to the last one, ascending
Sorted(positions, last) ==
  LET upTo[n \in 0..last] ==
        IF n = 0 THEN <<>> ELSE IF n \in positions THEN Append(upTo[n - 1], n) ELSE upTo[n - 1]
  IN upTo[last]

WriteHistory == journal = <<>> /\ Write(<<Plain("history")>>) /\ UNCHANGED <<drive, runs>>

WriteStart ==
  /\ drive = "idle" /\ runs' = runs + 1 /\ drive' = "running"
  /\ Write(<<Written("opened", runs + 1, <<>>), Written("prompt", runs + 1, <<>>)>>)

\* a queue is known by the position of its acceptance
WriteAccepted ==
  /\ drive \in {"idle", "running"}
  /\ Write(<<Written("accepted", IF drive = "idle" THEN 0 ELSE runs, <<Len(journal) + 1>>)>>)
  /\ UNCHANGED <<drive, runs>>

WriteInjected ==
  /\ drive = "running" /\ Waiting # {}
  /\ LET due == Sorted(Waiting, Len(journal))
     IN Write([i \in DOMAIN due |-> Written("drained", runs, <<due[i]>>)]
              \o <<Written("injected", runs, due)>>)
  /\ UNCHANGED <<drive, runs>>

TurnKinds == {"assistant", "child", "silent"}
WriteTurn ==
  /\ drive = "running"
  /\ Cardinality(UNION {Positions(kind) : kind \in TurnKinds}) < MaxTurns
  /\ \E kind \in TurnKinds : Write(<<Plain(kind)>>)
  /\ UNCHANGED <<drive, runs>>

\* the record is durable before the drive returns
WriteSuspended ==
  /\ drive = "running" /\ Write(<<Plain("suspended")>>)
  /\ drive' = "suspending" /\ UNCHANGED runs

Finalize ==
  /\ drive = "suspending" /\ drive' = "suspended"
  /\ UNCHANGED <<journal, runs, deltas, lost, source, stream>>

\* an indeterminate frontier is resolved under a new run, in one batch
WriteResumed ==
  /\ drive = "suspended" /\ runs' = runs + 1 /\ drive' = "running"
  /\ Write(<<Plain("resolution"), Plain("closed"),
             Written("resume", runs + 1, <<>>), Written("opened", runs + 1, <<>>)>>)

WriteClosed ==
  /\ drive \in {"running", "suspended"} /\ Write(<<Plain("closed")>>)
  /\ drive' = "idle" /\ UNCHANGED runs

Preview ==
  /\ drive = "running" /\ deltas < MaxDeltas /\ stream.open
  /\ deltas' = deltas + 1
  /\ \/ source' = Append(source, Item(0, lost)) /\ lost' = 0
     \/ source' = source /\ lost' = lost + 1
  /\ UNCHANGED <<journal, drive, runs, stream>>

(***************************************************************************)
(* The fold and what one record projects to.                               *)
(***************************************************************************)
Event(at, part, kind, of) ==
  [at |-> at, part |-> part, kind |-> kind, run |-> of, dropped |-> 0, ordinal |-> 0]

EntryKinds == {"prompt", "assistant"}
QueueKinds == {"accepted", "drained"}

Advance(fold, n, record) ==
  LET seenFold == [fold EXCEPT !.last = n]
  IN CASE record.kind = "opened" -> [seenFold EXCEPT !.run = record.run, !.pending = <<>>]
       [] record.kind = "closed" -> [seenFold EXCEPT !.run = 0]
       [] record.kind = "resume" -> [seenFold EXCEPT !.pending = Append(@, n)]
       [] record.kind = "accepted" -> [seenFold EXCEPT !.known = @ \union Range(record.queues)]
       [] OTHER -> seenFold

Project(fold, n, record) ==
  CASE record.kind = "history" -> <<Event(n, 0, "entry", 0)>>
    [] record.kind \in EntryKinds -> <<Event(n, 0, "entry", fold.run)>>
    [] record.kind = "injected" ->
         [i \in DOMAIN record.queues |->
            Event(n, i - 1, IF record.queues[i] \in fold.known THEN "entry" ELSE "unknown", fold.run)]
    [] record.kind \in QueueKinds ->
         <<Event(n, 0, IF \A q \in Range(record.queues) :
                            record.kind = "accepted" \/ q \in fold.known
                       THEN "queue" ELSE "unknown", fold.run)>>
    [] record.kind = "opened" ->
         [i \in DOMAIN fold.pending |-> Event(fold.pending[i], 0, "entry", record.run)]
         \o <<Event(n, 0, "started", record.run)>>
    [] record.kind \in {"closed", "suspended", "resolution"} ->
         <<Event(n, 0, record.kind, IF record.kind = "closed" THEN record.run ELSE fold.run)>>
    [] record.kind = "child" -> <<Event(n, 0, "child", 0)>>
    [] OTHER -> <<>>   \* kinds the table of loop_projection.go ignores, and "resume"

ProjectPreview(fold) ==
  <<[Event(fold.last, 0, "preview", fold.run) EXCEPT !.ordinal = fold.ordinal + 1]>>

\* fault: losses before an event are forgotten
StampNothing(events, dropped) == events

\* deliver: the first event carries the losses of what projected to nothing
Stamp(events, dropped) ==
  IF events = <<>> THEN <<>> ELSE [events EXCEPT ![1].dropped = dropped]

Apply(fold, item) ==
  LET events == IF item.n = 0 THEN ProjectPreview(fold) ELSE Project(fold, item.n, journal[item.n])
      dropped == fold.dropped + item.dropped
      next == IF item.n = 0 THEN [fold EXCEPT !.ordinal = @ + 1] ELSE Advance(fold, item.n, journal[item.n])
  IN [fold |-> [next EXCEPT !.dropped = IF events = <<>> THEN dropped ELSE 0],
      events |-> Stamp(events, dropped)]

\* the fold of the first n records
Folded(records) ==
  LET upTo[n \in 0..Len(records)] == IF n = 0 THEN NoFold ELSE Advance(upTo[n - 1], n, records[n])
  IN upTo

\* fault: a stream begins with an empty fold
Unseeded(after) == NoFold

Seeded(after) == Folded(journal)[after]

(***************************************************************************)
(* The subscriber.                                                         *)
(***************************************************************************)
OpenStream ==
  /\ ~stream.open
  /\ \E after \in 0..Len(journal) :
       /\ drive = "suspending" => after < Len(journal)   \* seeding waits for the drive
       /\ stream' = [open |-> TRUE, after |-> after, read |-> after,
                     fold |-> Seeded(after), seen |-> <<>>]
       /\ source' = [i \in 1..(Len(journal) - after) |-> Item(after + i, 0)]
  /\ UNCHANGED <<journal, drive, runs, deltas, lost>>

\* a suspension is not shown before the session is suspended
Settled(item) ==
  item.n # 0 /\ journal[item.n].kind = "suspended" /\ item.n = Len(journal)
    => drive # "suspending"

Take ==
  LET item == Head(source)
      step == Apply(stream.fold, item)
  IN /\ stream' = [stream EXCEPT !.read = IF item.n = 0 THEN @ ELSE item.n,
                                 !.fold = step.fold, !.seen = @ \o step.events]
     /\ source' = Tail(source)

TakeNext ==
  /\ stream.open /\ source # <<>> /\ Settled(Head(source))
  /\ Take
  /\ UNCHANGED <<journal, drive, runs, deltas, lost>>

\* the context of a Next that waits for the drive ends: the record is gone
TakeCancelled ==
  /\ stream.open /\ source # <<>> /\ ~Settled(Head(source))
  /\ LET item == Head(source)
     IN stream' = [stream EXCEPT !.read = item.n,
                                 !.fold = [Advance(@, item.n, journal[item.n]) EXCEPT !.dropped = @ + item.dropped]]
  /\ source' = Tail(source)
  /\ UNCHANGED <<journal, drive, runs, deltas, lost>>

ProjectionNext ==
  \/ WriteHistory \/ WriteStart \/ WriteAccepted \/ WriteInjected \/ WriteTurn
  \/ WriteSuspended \/ Finalize \/ WriteResumed \/ WriteClosed \/ Preview
  \/ OpenStream \/ TakeNext

ProjectionSpec == ProjectionInit /\ [][ProjectionNext]_projectionVars

\* the same with readers that give up while they wait
CancellingSpec == ProjectionInit /\ [][ProjectionNext \/ TakeCancelled]_projectionVars

(***************************************************************************)
(* Properties.                                                             *)
(***************************************************************************)
\* what record n shows, from the run it was written for and no fold
Buffered(records, n) ==
  Sorted({i \in 1..(n - 1) : records[i].kind = "resume" /\ records[i].run = records[n].run}, n - 1)
Truth(records, n) ==
  LET record == records[n]
      buffered == Buffered(records, n)
  IN CASE record.kind \in {"resume", "silent"} -> <<>>
       [] record.kind = "opened" -> [i \in DOMAIN buffered |-> <<buffered[i], "entry", record.run>>]
                                    \o <<<<n, "started", record.run>>>>
       [] record.kind = "injected" -> [i \in DOMAIN record.queues |-> <<n, "entry", record.run>>]
       [] record.kind \in {"closed", "suspended", "resolution"} -> <<<<n, record.kind, record.run>>>>
       [] record.kind \in QueueKinds -> <<<<n, "queue", record.run>>>>
       [] record.kind = "child" -> <<<<n, "child", 0>>>>
       [] OTHER -> <<<<n, "entry", record.run>>>>

\* what the records after a position show, up to each later one
History(records, after) ==
  LET upTo[n \in 0..Len(records)] == IF n <= after THEN <<>> ELSE upTo[n - 1] \o Truth(records, n)
  IN upTo

\* what is left of events without the previews and the wording
Committed(events) ==
  LET upTo[n \in 0..Len(events)] ==
        IF n = 0 THEN <<>>
        ELSE IF events[n].kind = "preview" THEN upTo[n - 1]
        ELSE Append(upTo[n - 1], <<events[n].at, events[n].kind, events[n].run>>)
  IN upTo

\* Whatever position a stream starts after, it shows every record that follows,
\* in order, under the run it belongs to and with its queue known: what seeding
\* the fold is for. A Next that was cancelled must not change that: Next "uses
\* its context only for that wait" (harness/sessionloop/stream.go).
StreamShowsHistory ==
  stream.open => Committed(stream.seen)[Len(stream.seen)] = History(journal, stream.after)[stream.read]

SumOf(numbers) ==
  LET upTo[n \in 0..Len(numbers)] == IF n = 0 THEN 0 ELSE upTo[n - 1] + numbers[n]
  IN upTo
\* the previews that the items, or the events, are or report as dropped
PreviewsDue(items) ==
  [i \in DOMAIN items |-> items[i].dropped + (IF items[i].n = 0 THEN 1 ELSE 0)]
PreviewsTold(events) ==
  [i \in DOMAIN events |-> events[i].dropped + (IF events[i].kind = "preview" THEN 1 ELSE 0)]

\* Every preview the hub dropped is counted once on the stream, on an event or
\* in the fold that waits for one, however many records project to nothing.
LossIsReported ==
  stream.open =>
    SumOf(PreviewsDue(source))[Len(source)] + SumOf(PreviewsTold(stream.seen))[Len(stream.seen)]
      + lost + stream.fold.dropped = deltas

\* A subscriber sees the session's records whole, in order, under the run each
\* belongs to, and is told of the previews it lost.
StreamIsFaithful == StreamShowsHistory /\ LossIsReported
=============================================================================

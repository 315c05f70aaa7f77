------------------------------- MODULE EventHub -------------------------------
(***************************************************************************)
(* The session's event hub (harness/event/inproc) and those who publish to *)
(* it.  A goroutine appends a batch to the journal under the session's     *)
(* mutex, releases the mutex, and publishes the records of the batch one   *)
(* by one under the hub's.  The goroutines that do so are the driver       *)
(* (Emit, turnHook, finishExecution), the clients (queue, start, resume    *)
(* and interrupt commands) and tools of child sessions.                    *)
(*                                                                         *)
(*   top      the last entry of the journal (s.cursor)                     *)
(*   unsent   entries each writer has appended and not yet published       *)
(*   history  durable records in the order the hub got them                *)
(*   cursor   the highest of them                                          *)
(*   open     the hub is not closed                                        *)
(*   sub      subscribers                                                  *)
(*   reader   what the reader at the other end of the channel got          *)
(*                                                                         *)
(* A record is its cursor: payloads decide nothing here.                   *)
(***************************************************************************)
EXTENDS Naturals, Sequences, FiniteSets, SequencesExt

CONSTANTS
  Writers, Subs,
  Buffer,                          \* capacity of a subscriber's channel
  MaxBatch, MaxEntries, MaxPreviews  \* bounds of a checked instance

VARIABLES top, unsent, history, cursor, open, sub, reader, previews
vars == <<top, unsent, history, cursor, open, sub, reader, previews>>

Record == [cursor : Nat, preview : BOOLEAN, dropped : Nat]
Durable(c) == [cursor |-> c, preview |-> FALSE, dropped |-> 0]

Fresh == [on |-> FALSE, after |-> 0, last |-> 0, preview |-> FALSE,
          channel |-> <<>>, dropped |-> 0, err |-> "none"]

\* lost counts previews that did not fit; it is for the properties
NoReader == [status |-> "fresh", got |-> <<>>, told |-> 0, lost |-> 0]

\* a hub opens over the records of a journal (New)
Init ==
  /\ top \in 0..1
  /\ history = [n \in 1..top |-> n] /\ cursor = top
  /\ unsent = [w \in Writers |-> <<>>]
  /\ open = TRUE /\ previews = 0
  /\ sub = [s \in Subs |-> Fresh] /\ reader = [s \in Subs |-> NoReader]

(***************************************************************************)
(* The hub.                                                                *)
(***************************************************************************)
Disconnected(s, err) == [s EXCEPT !.on = FALSE, !.err = err]

\* fault: one record more than the channel holds
FitsOneMore(s) == Len(s.channel) <= Buffer

Fits(s) == Len(s.channel) < Buffer

Stale(s, r) == ~r.preview /\ r.cursor <= s.last

\* fault: a record is delivered whatever the subscriber has seen
WantedAgain(s, r) == s.on /\ (r.preview => s.preview)

Wanted(s, r) == s.on /\ ~Stale(s, r) /\ (r.preview => s.preview)

\* fault: the count of dropped previews is reset and not reported
EnqueuedSilently(s, r) ==
  [s EXCEPT !.channel = Append(@, r), !.dropped = 0,
            !.last = IF r.preview THEN @ ELSE r.cursor]

Enqueued(s, r) ==
  [s EXCEPT !.channel = Append(@, [r EXCEPT !.dropped = s.dropped]), !.dropped = 0,
            !.last = IF r.preview THEN @ ELSE r.cursor]

\* fault: any record that does not fit is dropped
OverflowedDropping(s, r) == [s EXCEPT !.dropped = @ + 1]

\* the channel is full: a preview is dropped, a durable record disconnects
Overflowed(s, r) ==
  IF r.preview THEN [s EXCEPT !.dropped = @ + 1] ELSE Disconnected(s, "lagged")

\* deliverLocked
Delivered(s, r) ==
  IF ~Wanted(s, r) THEN s ELSE IF Fits(s) THEN Enqueued(s, r) ELSE Overflowed(s, r)

\* the mutex of the session: a batch is appended
Commit(w, n) ==
  /\ unsent[w] = <<>> /\ top + n <= MaxEntries
  /\ top' = top + n
  /\ unsent' = [unsent EXCEPT ![w] = [i \in 1..n |-> top + i]]
  /\ UNCHANGED <<history, cursor, open, sub, reader, previews>>

\* PublishDurable of the next record of a batch; a closed hub takes nothing
Publish(w) ==
  /\ unsent[w] # <<>>
  /\ unsent' = [unsent EXCEPT ![w] = Tail(@)]
  /\ LET c == Head(unsent[w])
     IN IF open
        THEN /\ history' = Append(history, c)
             /\ cursor' = IF c > cursor THEN c ELSE cursor
             /\ sub' = [s \in Subs |-> Delivered(sub[s], Durable(c))]
        ELSE UNCHANGED <<history, cursor, sub>>
  /\ UNCHANGED <<top, open, reader, previews>>

\* PublishPreview; a preview carries the cursor of the hub
PublishPreview ==
  /\ open /\ previews < MaxPreviews
  /\ previews' = previews + 1
  /\ LET r == [cursor |-> cursor, preview |-> TRUE, dropped |-> 0]
     IN /\ sub' = [s \in Subs |-> Delivered(sub[s], r)]
        /\ reader' = [s \in Subs |->
             IF Wanted(sub[s], r) /\ ~Fits(sub[s])
             THEN [reader[s] EXCEPT !.lost = @ + 1] ELSE reader[s]]
  /\ UNCHANGED <<top, unsent, history, cursor, open>>

\* the records kept are delivered in the order they were published: a
\* subscriber after the first n of them, for each n
Replay(s, records) ==
  LET upTo[n \in 0..Len(records)] ==
        IF n = 0 THEN s ELSE Delivered(upTo[n - 1], Durable(records[n]))
  IN upTo
Replayed(s) == Replay(s, history)[Len(history)]

\* Subscribe: registration and replay under one mutex.  The view accepts no
\* position after the journal's.
Subscribe(s, after, preview) ==
  /\ reader[s].status = "fresh"
  /\ LET asked == [Fresh EXCEPT !.after = after, !.last = after, !.preview = preview]
     IN sub' = [sub EXCEPT ![s] =
          IF open THEN Replayed([asked EXCEPT !.on = TRUE]) ELSE Disconnected(asked, "end")]
  /\ reader' = [reader EXCEPT ![s].status = "open"]
  /\ UNCHANGED <<top, unsent, history, cursor, open, previews>>

\* Close of a stream or a subscription, by the reader
Unsubscribe(s) ==
  /\ reader[s].status = "open" /\ sub[s].err # "closed"
  /\ sub' = [sub EXCEPT ![s] = Disconnected(@, "closed")]
  /\ UNCHANGED <<top, unsent, history, cursor, open, reader, previews>>

\* Hub.Close
Close ==
  /\ open /\ open' = FALSE
  /\ sub' = [s \in Subs |-> IF sub[s].on THEN Disconnected(sub[s], "end") ELSE sub[s]]
  /\ UNCHANGED <<top, unsent, history, cursor, reader, previews>>

(***************************************************************************)
(* The reader (loopStream.Next): what is in the channel stays readable     *)
(* after the hub closed it, then the reader learns why.  A stream that the *)
(* reader itself closed may end with records left in the channel.          *)
(***************************************************************************)
Receive(s) ==
  /\ reader[s].status = "open" /\ sub[s].channel # <<>>
  /\ LET r == Head(sub[s].channel)
     IN reader' = [reader EXCEPT ![s].told = @ + r.dropped,
                                 ![s].got = IF r.preview THEN @ ELSE Append(@, r.cursor)]
  /\ sub' = [sub EXCEPT ![s].channel = Tail(@)]
  /\ UNCHANGED <<top, unsent, history, cursor, open, previews>>

Settle(s) ==
  /\ reader[s].status = "open"
  /\ \/ sub[s].err \in {"lagged", "end"} /\ sub[s].channel = <<>>
     \/ sub[s].err = "closed"
  /\ reader' = [reader EXCEPT ![s].status = "ended"]
  /\ UNCHANGED <<top, unsent, history, cursor, open, sub, previews>>

-----------------------------------------------------------------------------
Writer == \E w \in Writers : Publish(w) \/ (\E n \in 1..MaxBatch : Commit(w, n))
Reader == \E s \in Subs : Receive(s) \/ Settle(s)
Subscriber ==
  \E s \in Subs :
    Unsubscribe(s) \/ (\E after \in 0..top, p \in BOOLEAN : Subscribe(s, after, p))

Next == Writer \/ Reader \/ Subscriber \/ PublishPreview \/ Close

Spec == Init /\ [][Next]_vars

(***************************************************************************)
(* Properties.                                                             *)
(***************************************************************************)
\* Types; a channel holds what it was made for, so the hub never blocks on it.
TypeOK ==
  /\ top \in Nat /\ cursor \in Nat /\ previews \in Nat /\ open \in BOOLEAN
  /\ unsent \in [Writers -> Seq(Nat)] /\ history \in Seq(Nat)
  /\ sub \in [Subs -> [on : BOOLEAN, after : Nat, last : Nat, preview : BOOLEAN,
                       channel : Seq(Record), dropped : Nat,
                       err : {"none", "lagged", "end", "closed"}]]
  /\ \A s \in Subs : Len(sub[s].channel) <= Buffer
  /\ reader \in [Subs -> [status : {"fresh", "open", "ended"}, got : Seq(Nat),
                          told : Nat, lost : Nat]]

\* durable records in the channel, by their place; the last one that was read,
\* or the position the reader asked for; and the records it got or will find
Pending(channel) == {n \in DOMAIN channel : ~channel[n].preview}
LastRead(r, got) == IF got = <<>> THEN r.after ELSE got[Len(got)]
Fed(r, got) == Range(got) \cup {r.channel[n].cursor : n \in Pending(r.channel)}

\* The authoritative records a subscriber gets come after the position it asked
\* for and in the order of the journal, none of them twice: those read, and then
\* those in the channel.
Ascending(r, got) ==
  /\ \A n \in DOMAIN got : got[n] > IF n = 1 THEN r.after ELSE got[n - 1]
  /\ \A n \in Pending(r.channel) : r.channel[n].cursor > LastRead(r, got)
  /\ \A m, n \in Pending(r.channel) : m < n => r.channel[m].cursor < r.channel[n].cursor
FeedInOrder == \A s \in Subs : Ascending(sub[s], reader[s].got)

\* A subscriber is disconnected before it misses a record, except one that the
\* hub got after a record that follows it in the journal.
MissedOnlyOvertaken ==
  \A s \in Subs : \A n \in DOMAIN history :
    sub[s].on /\ history[n] > sub[s].after =>
      \/ history[n] \in Fed(sub[s], reader[s].got)
      \/ \E m \in 1..(n - 1) : history[m] > history[n]

\* "Losing authoritative events is terminal": a subscriber that is connected
\* misses none of the records that were published.
NoneMissed ==
  \A s \in Subs : \A n \in DOMAIN history :
    sub[s].on /\ history[n] > sub[s].after => history[n] \in Fed(sub[s], reader[s].got)

\* Every preview that did not fit is reported by a later record: those told,
\* those in the channel and those still to be reported add up.
Reported(channel) ==
  LET upTo[n \in 0..Len(channel)] == IF n = 0 THEN 0 ELSE upTo[n - 1] + channel[n].dropped
  IN upTo[Len(channel)]
PreviewLossReported ==
  \A s \in Subs : reader[s].lost = reader[s].told + sub[s].dropped + Reported(sub[s].channel)

\* What the hub owes a subscriber, whoever publishes first: a channel that does not
\* block it, the records in order, all but the overtaken, and word of what was lost
\* (Hub.PublishDurable, Hub.PublishPreview, Subscribe, deliverLocked).
HubServesSubscribers ==
  /\ TypeOK
  /\ FeedInOrder
  /\ MissedOnlyOvertaken
  /\ PreviewLossReported

\* The hub implements the feed as long as the records of the journal reach it in
\* their order: every step is one of the feed or changes nothing of it.
Promise == INSTANCE EventFeed WITH
  log    <- top,
  status <- [s \in Subs |-> reader[s].status],
  at     <- [s \in Subs |-> LastRead(sub[s], reader[s].got)]
InSequence == \A n \in DOMAIN history : history[n] = n
ImplementsFeed ==
  Promise!Init /\ [][InSequence' => [Promise!Next]_(Promise!feed)]_vars
=============================================================================

------------------------------- MODULE LocalHost -------------------------------
(***************************************************************************)
(* The local channel host (harness/hosts/localchannel): clients submit     *)
(* commands to a mailbox and read a projection of the journal, which an    *)
(* actor worker's successive owners of the session feed from a live stream *)
(* and repair by replay when they open and retire.                         *)
(*                                                                         *)
(*   facts     the journal: the kind of each position; an "injected" one   *)
(*             projects to two events, every other to one                  *)
(*   owner     the observed session: live, whether it streams, the events  *)
(*             its stream has handed to Observe, and the snapshot that a   *)
(*             refresh under its mutex has read and not yet stored         *)
(*   view      the state the host keeps for the session                    *)
(*   mailbox   commands submitted and not acknowledged                     *)
(*   asked     where each Start of a client is                             *)
(*   accepted  the position of its receipt, which a later owner finds too  *)
(*   listener  a client's stream                                           *)
(***************************************************************************)
EXTENDS Naturals, Sequences, FiniteSets

CONSTANTS
  StartIds,   \* identities of the Starts clients dispatch
  Capacity,   \* the buffer a client asks for
  MaxFacts,   \* bound on the journal
  MaxOwners   \* bound on owners

\* no identity
NoStart == "none"
ASSUME HostAssumption == NoStart \notin StartIds

VARIABLES facts, owner, owners, view, mailbox, asked, accepted, listener
hostVars == <<facts, owner, owners, view, mailbox, asked, accepted, listener>>

NoSnapshot == [worker |-> FALSE, position |-> 0, state |-> "idle", reconcile |-> FALSE]
NoOwner == [live |-> FALSE, since |-> 0, streaming |-> FALSE, at |-> 0, lost |-> FALSE,
            reading |-> NoSnapshot]
NoListener == [on |-> FALSE, after |-> 0, taken |-> <<>>, replay |-> <<>>, pending |-> <<>>,
               ended |-> FALSE]

HostInit ==
  /\ facts = <<"created">> /\ owner = NoOwner /\ owners = 0
  /\ view = [position |-> 0, state |-> "idle", ready |-> FALSE, covered |-> 0,
             published |-> {}, history |-> <<>>, startID |-> NoStart,
             receipts |-> [id \in StartIds |-> 0]]
  /\ mailbox = {} /\ asked = [id \in StartIds |-> "new"] /\ listener = NoListener
  /\ accepted = [id \in StartIds |-> 0]

EventsAt(kind, n) == IF kind = "injected" THEN <<<<n, 1>>, <<n, 2>>>> ELSE <<<<n, 1>>>>
\* the events of the first n records
EventsOf(records) ==
  LET upTo[n \in 0..Len(records)] ==
        IF n = 0 THEN <<>> ELSE upTo[n - 1] \o EventsAt(records[n], n)
  IN upTo
CountOf(n) == Len(EventsOf(facts)[n])
All == EventsOf(facts)[Len(facts)]
EventsBetween(after, through) == SubSeq(All, CountOf(after) + 1, CountOf(through))

\* a run that record n started and nothing settled up to a position
Unsettled(n, position) ==
  facts[n] = "started" /\ \A m \in n..position : facts[m] # "settled"
Running == \E n \in DOMAIN facts : Unsettled(n, Len(facts))
State == IF Running THEN "running" ELSE "idle"

(***************************************************************************)
(* What the host publishes.                                                *)
(***************************************************************************)
\* one event to the client's stream: beyond its capacity it is ended, lagging
Deliver(stream, event) ==
  IF ~stream.on \/ stream.ended \/ event[1] <= stream.after THEN stream
  ELSE IF Len(stream.pending) >= Capacity THEN [stream EXCEPT !.ended = TRUE]
  ELSE [stream EXCEPT !.pending = Append(@, event)]

\* fault: events are told apart by position alone
KeyOfPosition(event) == event[1]

\* an event is known by its position AND its entry
Key(event) == event

PublishOne(host, event) ==
  IF Key(event) \in host.view.published THEN host
  ELSE [view |-> [host.view EXCEPT !.published = @ \union {Key(event)},
                                   !.history = Append(@, event)],
        listener |-> Deliver(host.listener, event)]

Publishing(host, events) ==
  LET upTo[n \in 0..Len(events)] ==
        IF n = 0 THEN host ELSE PublishOne(upTo[n - 1], events[n])
  IN upTo

\* the host with `seen` for its view, after it published the events
Publishes(seen, events) ==
  LET done == Publishing([view |-> seen, listener |-> listener], events)[Len(events)]
  IN view' = done.view /\ listener' = done.listener

(***************************************************************************)
(* The owner.                                                              *)
(***************************************************************************)
Grow(kind) == /\ Len(facts) + (IF kind = "settled" THEN 0 ELSE 1) < MaxFacts
              /\ facts' = Append(facts, kind)

OpenOwned ==
  /\ ~owner.live /\ owners < MaxOwners
  /\ owners' = owners + 1 /\ owner' = [NoOwner EXCEPT !.live = TRUE]
  /\ UNCHANGED <<facts, view, mailbox, asked, accepted, listener>>

\* fault: a start that has its receipt is over for any snapshot
CoveredAtOnce(id, position) == view.receipts[id] > 0

\* startID is free again once a snapshot covers its acceptance
Covered(id, position) == view.receipts[id] > 0 /\ position >= view.receipts[id]

\* refresh stores a snapshot and publishes the events that it covers, when
\* nothing streams them
Refresh(snapshot) ==
  Publishes([view EXCEPT !.position = snapshot.position, !.state = snapshot.state, !.ready = TRUE,
                         !.covered = IF snapshot.reconcile THEN snapshot.position ELSE @,
                         !.startID = IF @ # NoStart /\ Covered(@, snapshot.position) THEN NoStart ELSE @],
            IF snapshot.reconcile THEN EventsBetween(view.covered, snapshot.position) ELSE <<>>)

\* refresh reads the snapshot under the owner's mutex, and not the host's: the
\* journal first and the session's state after it, while both go on
ReadSnapshot(worker) ==
  /\ owner.live /\ owner.reading = NoSnapshot
  /\ owner' = [owner EXCEPT !.reading = [worker |-> worker, position |-> Len(facts), state |-> "unread",
                                         reconcile |-> ~owner.streaming]]

ReadState ==
  /\ owner.reading.state = "unread"
  /\ owner' = [owner EXCEPT !.reading = [@ EXCEPT !.state = State]]
  /\ UNCHANGED <<facts, owners, view, mailbox, asked, accepted, listener>>

\* the worker reads a snapshot and subscribes after its position; a client may
\* have the owner reconcile in between
WorkerSnapshot ==
  /\ ~owner.lost /\ ReadSnapshot(TRUE)
  /\ UNCHANGED <<facts, owners, view, mailbox, asked, accepted, listener>>

StoreSnapshot ==
  LET snapshot == owner.reading IN
  /\ snapshot # NoSnapshot /\ snapshot.state # "unread"
  /\ owner' = [owner EXCEPT !.reading = NoSnapshot,
                            !.since = IF snapshot.worker /\ @ = 0 THEN snapshot.position ELSE @]
  /\ asked' = [id \in StartIds |-> IF asked[id] = "refreshing" THEN "refreshed" ELSE asked[id]]
  /\ Refresh(snapshot)
  /\ UNCHANGED <<facts, owners, mailbox, accepted>>

OwnerSubscribe ==
  /\ owner.live /\ ~owner.lost /\ ~owner.streaming /\ owner.since > 0 /\ owner.reading = NoSnapshot
  /\ owner' = [owner EXCEPT !.streaming = TRUE, !.at = CountOf(owner.since)]
  /\ UNCHANGED <<facts, owners, view, mailbox, asked, accepted, listener>>

Observe ==
  /\ owner.live /\ ~owner.lost /\ owner.streaming /\ owner.at < Len(All)
  /\ owner' = [owner EXCEPT !.at = @ + 1]
  /\ Publishes(view, <<All[owner.at + 1]>>)
  /\ UNCHANGED <<facts, owners, mailbox, asked, accepted>>

\* the session accepts a Start when it is idle; the receipt comes separately
Accept(id) ==
  /\ owner.live /\ ~owner.lost /\ owner.streaming /\ id \in mailbox
  /\ ~Running /\ asked[id] = "waiting"
  /\ Grow("started") /\ asked' = [asked EXCEPT ![id] = "accepted"]
  /\ accepted' = [accepted EXCEPT ![id] = Len(facts) + 1]
  /\ UNCHANGED <<owner, owners, view, mailbox, listener>>

\* fault: a run is free again when its worker is, not when it was observed
FreesAtOnce(id, position) == view.startID = id

Frees(id, position) == view.startID = id /\ view.position >= position

Acknowledge(id) ==
  /\ owner.live /\ ~owner.lost /\ asked[id] = "accepted" /\ id \in mailbox
  /\ mailbox' = mailbox \ {id}
  /\ view' = [view EXCEPT !.receipts[id] = accepted[id],
                          !.startID = IF Frees(id, accepted[id]) THEN NoStart ELSE @]
  /\ UNCHANGED <<facts, owner, owners, asked, accepted, listener>>

\* the run works, and settles
Work ==
  /\ owner.live /\ ~owner.lost /\ Running
  /\ \E kind \in {"injected", "settled"} : Grow(kind)
  /\ UNCHANGED <<owner, owners, view, mailbox, asked, accepted, listener>>

\* a lease that is lost leaves the observation as it is
LoseLease ==
  /\ owner.live /\ ~owner.lost /\ owners < MaxOwners
  /\ owner' = [owner EXCEPT !.lost = TRUE]
  /\ UNCHANGED <<facts, owners, view, mailbox, asked, accepted, listener>>
OwnerAbandon ==
  /\ owner.live /\ owner.lost /\ owner.reading = NoSnapshot
  /\ owner' = [NoOwner EXCEPT !.lost = TRUE]
  /\ UNCHANGED <<facts, owners, view, mailbox, asked, accepted, listener>>

\* fault: what retiring appended is not replayed
StreamsUntilRetired == ~owner.streaming

ReplaysToRetire == TRUE

\* a worker retires when nothing runs and nothing it looked at is left; a Start
\* may have been submitted since
OwnerClose ==
  /\ owner.live /\ ~owner.lost /\ ~Running /\ view.ready /\ owner.reading = NoSnapshot
  /\ \A id \in mailbox : asked[id] = "waiting"
  /\ owner' = NoOwner
  /\ Refresh([worker |-> TRUE, position |-> Len(facts), state |-> State,
              reconcile |-> ReplaysToRetire])
  /\ UNCHANGED <<facts, owners, mailbox, asked, accepted>>

(***************************************************************************)
(* Clients.                                                                *)
(***************************************************************************)
\* Dispatch of a Start refreshes first, outside the lock under which it decides
RefreshForStart(id) ==
  /\ view.ready /\ asked[id] = "new"
  /\ \/ ReadSnapshot(FALSE) /\ asked' = [asked EXCEPT ![id] = "refreshing"]
     \/ ~owner.live /\ asked' = [asked EXCEPT ![id] = "refreshed"] /\ UNCHANGED owner
  /\ UNCHANGED <<facts, owners, view, mailbox, accepted, listener>>

Busy == view.startID # NoStart \/ view.state # "idle"
SubmitStart(id) ==
  /\ asked[id] = "refreshed"
  /\ IF Busy
     THEN asked' = [asked EXCEPT ![id] = "new"] /\ UNCHANGED <<mailbox, view>>
     ELSE /\ asked' = [asked EXCEPT ![id] = "waiting"]
          /\ mailbox' = mailbox \union {id} /\ view' = [view EXCEPT !.startID = id]
  /\ UNCHANGED <<facts, owner, owners, accepted, listener>>

\* what lies beyond a position
Beyond(events, after) ==
  LET upTo[n \in 0..Len(events)] ==
        IF n = 0 THEN <<>>
        ELSE IF events[n][1] > after THEN Append(upTo[n - 1], events[n]) ELSE upTo[n - 1]
  IN upTo

SubscribeListener ==
  /\ view.ready /\ ~listener.on
  /\ \E after \in 0..view.position :
       listener' = [NoListener EXCEPT !.on = TRUE, !.after = after,
                                      !.replay = Beyond(view.history, after)[Len(view.history)]]
  /\ UNCHANGED <<facts, owner, owners, view, mailbox, asked, accepted>>

ListenerNext ==
  /\ listener.on /\ ~listener.ended
  /\ \/ /\ listener.replay # <<>>
        /\ listener' = [listener EXCEPT !.taken = Append(@, Head(listener.replay)), !.replay = Tail(@)]
     \/ /\ listener.replay = <<>> /\ listener.pending # <<>>
        /\ listener' = [listener EXCEPT !.taken = Append(@, Head(listener.pending)), !.pending = Tail(@)]
  /\ UNCHANGED <<facts, owner, owners, view, mailbox, asked, accepted>>

HostNext ==
  \/ OpenOwned \/ WorkerSnapshot \/ ReadState \/ StoreSnapshot \/ OwnerSubscribe
  \/ Observe \/ Work \/ LoseLease \/ OwnerAbandon \/ OwnerClose
  \/ \E id \in StartIds : \/ Accept(id) \/ Acknowledge(id)
                          \/ RefreshForStart(id) \/ SubmitStart(id)
  \/ SubscribeListener \/ ListenerNext

HostSpec == HostInit /\ [][HostNext]_hostVars

(***************************************************************************)
(* Properties.                                                             *)
(***************************************************************************)
\* However live observation, client snapshots, retirement and a lost owner
\* interleave, the projection is a prefix of the journal's events, and a stream
\* that has not lagged holds those of them that follow its position, each once
\* and in order (state.publish, deliverLocked, refresh).
ProjectionFollowsJournal ==
  /\ view.history = SubSeq(All, 1, Len(view.history))
  /\ listener.on /\ ~listener.ended =>
       listener.taken \o listener.replay \o listener.pending
         = Beyond(view.history, listener.after)[Len(view.history)]

\* An owner that retires leaves nothing of its journal unobserved, for no later
\* event would repair it: Close replays what the stream did not reach. Only a
\* lost owner may leave a gap, which its successor repairs.
RetiredIsObserved == ~owner.live /\ ~owner.lost /\ owners > 0 => view.history = All

\* A Start is submitted only when the session can take it: no other Start waits
\* in the mailbox and no run is active, though the client decides on a snapshot
\* that may be older than the journal (startID).
StartsAreSerialised ==
  /\ Cardinality(mailbox) <= 1
  /\ \A id \in mailbox : asked[id] = "waiting" => ~Running

\* A host's projection keeps to the journal across owners, refreshes and resumed
\* reads, an end of ownership reaches the subscribers, and starts do not overlap.
HostIsFaithful == ProjectionFollowsJournal /\ RetiredIsObserved /\ StartsAreSerialised
=============================================================================

------------------------------ MODULE ActorWorker ------------------------------
(***************************************************************************)
(* Workers that take turns at one session (sessionloop/actor/worker.go):   *)
(* each acquires the lease, opens the session from its journal, delivers   *)
(* the pending commands, watches the runs it started, and releases the     *)
(* lease when the mailbox is empty and the session quiet. A lease may      *)
(* expire under a worker, and a worker may fail anywhere.                  *)
(*                                                                         *)
(*   journal  facts with the fence under which each was committed          *)
(*   worker   pc, fence and the variables of runActor and drive            *)
(*   handle   the state of the session a worker has open                   *)
(*   stream   the next entry a worker's stream gives, and the command of a *)
(*            resumption that the session announced as bounced             *)
(***************************************************************************)
EXTENDS Mailbox

CONSTANTS
  Kind,        \* kind of each command: start, steer or resolve
  Target,      \* the start whose run a steer or a resolve is for
  BatchSize,   \* page of the mailbox
  MaxFaults,   \* bound on failures of workers and on leases that they lose
  MaxParks     \* bound on suspensions

ASSUME WorkerAssumption ==
  /\ Kind \in [Commands -> {"start", "steer", "resolve"}]
  /\ Target \in [Commands -> Commands] /\ Nobody \notin Commands
  /\ BatchSize \in Nat \ {0} /\ {MaxFaults, MaxParks} \subseteq Nat

VARIABLES journal, worker, handle, stream, faults
session == <<journal, handle, stream>>
vars == <<mailbox, journal, worker, handle, stream, faults>>

Runs == {c \in Commands : Kind[c] = "start"}
NoWait == [run |-> Nobody, after |-> 0, command |-> Nobody]
NoView == [position |-> 0, state |-> "none", run |-> Nobody]
Idle == [pc |-> "receive", fence |-> 0, then |-> "none", view |-> NoView, page |-> {},
         after |-> 0, full |-> FALSE, sweep |-> FALSE, found |-> FALSE, wait |-> NoWait]
NoHandle == [state |-> "none", run |-> Nobody, by |-> Nobody]
NoStream == [next |-> 0, bounced |-> Nobody]

Init ==
  /\ MailboxInit /\ journal = <<>> /\ faults = 0
  /\ worker = [w \in Workers |-> Idle] /\ handle = [w \in Workers |-> NoHandle]
  /\ stream = [w \in Workers |-> NoStream]

At(w, pc) == worker[w].pc = pc
Owns(w) == Owned(w, worker[w].fence)
Goes(w, pc) == worker' = [worker EXCEPT ![w].pc = pc]
\* a snapshot is taken for one of three purposes
Snapshots(w, then) == worker' = [worker EXCEPT ![w].pc = "load", ![w].then = then]

(***************************************************************************)
(* The session that a worker has open.                                     *)
(***************************************************************************)
Fact(kind, run, command, w) ==
  [kind |-> kind, run |-> run, command |-> command, fence |-> worker[w].fence]

\* fault: the receipts of the journal are not looked up
ResolvedNever(command) == FALSE

Resolved(command) ==
  \E n \in DOMAIN journal : journal[n].kind \in {"accepted", "rejected"} /\ journal[n].command = command

OpenRun ==
  LET at == SelectLastInSeq(journal, LAMBDA f :
               f.kind = "settled" \/ (f.kind = "accepted" /\ f.command \in Runs))
  IN IF at = 0 \/ journal[at].kind = "settled" THEN Nobody ELSE journal[at].run
Parked ==
  LET at == SelectLastInSeq(journal, LAMBDA f :
               f.kind \in {"suspended", "resumed"} \/ (f.kind = "accepted" /\ f.command \in Runs))
  IN at # 0 /\ journal[at].kind = "suspended"
DurableState == IF OpenRun = Nobody THEN "idle" ELSE IF Parked THEN "suspended" ELSE "running"

\* fault: the grant is not looked at when the journal is written
WritesAlways(w) == TRUE

\* store.Authority: the grant is checked in the step that writes
Writes(w) == Owns(w)

Commits(w, kind, run, command) ==
  /\ Writes(w) /\ journal' = Append(journal, Fact(kind, run, command, w))

RunSuspends(w) ==
  /\ handle[w].state = "running" /\ handle[w].by = Nobody
  /\ Cardinality({n \in DOMAIN journal : journal[n].kind = "suspended"}) < MaxParks
  /\ Commits(w, "suspended", handle[w].run, Nobody)
  /\ handle' = [handle EXCEPT ![w].state = "suspended"]
  /\ UNCHANGED <<mailbox, worker, stream, faults>>

RunSettles(w) ==
  /\ handle[w].state = "running" /\ handle[w].by = Nobody
  /\ Commits(w, "settled", handle[w].run, Nobody)
  /\ handle' = [handle EXCEPT ![w] = [NoHandle EXCEPT !.state = "idle"]]
  /\ UNCHANGED <<mailbox, worker, stream, faults>>

\* a resumed run takes up its work, or its resolution turns out invalid and
\* the streams are told, without an entry
RunResumes(w) ==
  /\ handle[w].state = "running" /\ handle[w].by # Nobody
  /\ Commits(w, "resumed", handle[w].run, Nobody)
  /\ handle' = [handle EXCEPT ![w].by = Nobody]
  /\ UNCHANGED <<mailbox, worker, stream, faults>>

RunBounces(w) ==
  /\ handle[w].state = "running" /\ handle[w].by # Nobody
  /\ handle' = [handle EXCEPT ![w].state = "suspended", ![w].by = Nobody]
  /\ stream' = [stream EXCEPT ![w].bounced = handle[w].by]
  /\ UNCHANGED <<mailbox, journal, worker, faults>>

Faulted(w) == handle' = [handle EXCEPT ![w].state = "faulted"]

\* a write without the grant, or one that the store fails, faults the session
RunFaults(w) ==
  /\ handle[w].state = "running" /\ ~Owns(w) /\ Faulted(w)
  /\ UNCHANGED <<mailbox, journal, worker, stream, faults>>
RunBreaks(w) ==
  /\ handle[w].state = "running" /\ Owns(w) /\ Faulted(w)
  /\ faults < MaxFaults /\ faults' = faults + 1
  /\ UNCHANGED <<mailbox, journal, worker, stream>>

(***************************************************************************)
(* runActor: acquire, open, drive, close, release.                         *)
(***************************************************************************)
Acquire(w) ==
  /\ At(w, "receive") /\ Grant(w)
  /\ worker' = [worker EXCEPT ![w] = [Idle EXCEPT !.pc = "open", !.fence = generation']]
  /\ UNCHANGED <<session, faults>>

Open(w) ==
  /\ At(w, "open")
  /\ handle' = [handle EXCEPT ![w] =
       [state |-> DurableState, run |-> OpenRun, by |-> Nobody]]
  /\ Snapshots(w, "subscribe")
  /\ UNCHANGED <<mailbox, journal, stream, faults>>

\* fault: a failed worker releases its lease
FailsReleasing(w) ==
  /\ worker' = [worker EXCEPT ![w] = Idle] /\ handle' = [handle EXCEPT ![w] = NoHandle]
  /\ stream' = [stream EXCEPT ![w] = NoStream]
  /\ IF Owns(w) THEN Release(w, worker[w].fence) ELSE UNCHANGED mailbox

\* Whatever fails, the session is abandoned and the lease left to expire.
Fails(w) ==
  /\ worker' = [worker EXCEPT ![w] = Idle] /\ handle' = [handle EXCEPT ![w] = NoHandle]
  /\ stream' = [stream EXCEPT ![w] = NoStream]
  /\ UNCHANGED mailbox

\* a store, an opener, a sink or the process of the worker fails
Breaks(w) ==
  /\ ~At(w, "receive") /\ faults < MaxFaults /\ faults' = faults + 1
  /\ Fails(w)
  /\ UNCHANGED journal

\* renew: the context of a worker that lost its lease is cancelled
Cancelled(w) ==
  /\ ~At(w, "receive") /\ ~Owns(w)
  /\ Fails(w)
  /\ UNCHANGED <<journal, faults>>

\* A worker that lost its lease is followed at its next write and no further:
\* what it reads until it is cancelled is seen by nobody.
Overtaken(self) ==
  [Idle EXCEPT !.pc = IF self.pc \in {"pending", "deliver", "ack", "close"} THEN self.pc ELSE "stale",
               !.fence = self.fence,
               !.page = IF self.pc \in {"deliver", "ack"} THEN {Min(self.page)} ELSE {}]

\* A lease expires when its worker is gone, or in time if it does not renew it.
LeaseExpires ==
  /\ Expire
  /\ IF \E w \in Workers : ~At(w, "receive") /\ Owns(w)
     THEN /\ faults < MaxFaults /\ faults' = faults + 1
          /\ worker' = [worker EXCEPT ![lease.owner] = Overtaken(@)]
          /\ stream' = [stream EXCEPT ![lease.owner] = NoStream]
     ELSE UNCHANGED <<faults, worker, stream>>
  /\ UNCHANGED <<journal, handle>>

Quiescent(view) == view.state \in {"idle", "suspended"}

CloseAndRelease(w) ==
  /\ At(w, "close")
  /\ IF handle[w].state # "closed"
     THEN /\ handle' = [handle EXCEPT ![w].state = "closed"]
          /\ UNCHANGED <<mailbox, worker, stream>>
     ELSE /\ Release(w, worker[w].fence)
          /\ worker' = [worker EXCEPT ![w] = Idle] /\ handle' = [handle EXCEPT ![w] = NoHandle]
          /\ stream' = [stream EXCEPT ![w] = NoStream]
  /\ UNCHANGED <<journal, faults>>

(***************************************************************************)
(* drive.                                                                  *)
(***************************************************************************)
\* Snapshot reads the journal and then, under another lock, the state
Load(w) ==
  /\ At(w, "load")
  /\ worker' = [worker EXCEPT ![w].pc = "look", ![w].view.position = Len(journal)]
  /\ UNCHANGED <<mailbox, session, faults>>

\* fault: runs that the worker waits for do not keep it
RetiresUnwatched(self) == ~self.sweep /\ Quiescent(self.view)

Retires(self) == ~self.sweep /\ Quiescent(self.view) /\ self.wait = NoWait

\* A page is done. After the last of a sweep the worker retires or begins the
\* next one; it looks at its events in between, without waiting if pages remain.
Swept(self) ==
  IF self.full THEN [self EXCEPT !.pc = "select", !.view = NoView]
  ELSE IF Retires(self) THEN [self EXCEPT !.pc = "close", !.view = NoView]
  ELSE [self EXCEPT !.pc = "select", !.view = NoView, !.after = 0, !.sweep = FALSE]

PageOrSwept(self) == IF self.page = {} THEN Swept(self) ELSE [self EXCEPT !.pc = "deliver"]

Look(w) ==
  /\ At(w, "look")
  /\ LET view == [worker[w].view EXCEPT !.state = handle[w].state, !.run = handle[w].run]
         next == [worker[w] EXCEPT !.view = view]
     IN CASE worker[w].then = "subscribe" ->
               /\ worker' = [worker EXCEPT ![w] = [next EXCEPT !.pc = "load", !.then = "sweep",
                    !.view = NoView,
                    !.wait = IF view.run # Nobody /\ ~Quiescent(view)
                             THEN [run |-> view.run, after |-> view.position, command |-> Nobody]
                             ELSE NoWait]]
               /\ stream' = [stream EXCEPT ![w].next = view.position + 1]
               /\ UNCHANGED <<mailbox, handle>>
          [] worker[w].then = "sweep" ->
               IF view.state \in {"faulted", "closed"} THEN Fails(w)
               ELSE /\ worker' = [worker EXCEPT ![w] = [next EXCEPT !.pc = "pending"]]
                    /\ UNCHANGED <<mailbox, handle, stream>>
          [] worker[w].then = "page" ->
               /\ worker' = [worker EXCEPT ![w] = PageOrSwept(next)]
               /\ UNCHANGED <<mailbox, handle, stream>>
  /\ UNCHANGED <<journal, faults>>

Pending(w) ==
  /\ At(w, "pending")
  /\ IF ~Owns(w) THEN Fails(w)
     ELSE LET page == Page(worker[w].after, BatchSize) IN
          /\ worker' = [worker EXCEPT ![w] =
               PageOrSwept([worker[w] EXCEPT !.page = page, !.full = Cardinality(page) = BatchSize,
                                             !.sweep = @ \/ page # {}])]
          /\ UNCHANGED <<mailbox, handle, stream>>
  /\ UNCHANGED <<journal, faults>>

\* the page is taken in the order of its sequence numbers
First(w) == Min(worker[w].page)
Item(w) == history[First(w)]
Taken(w) == [worker[w] EXCEPT !.page = @ \ {First(w)}, !.after = First(w)]

\* an input that cannot be accepted now stays in the mailbox
Deferred(w) ==
  /\ worker' = [worker EXCEPT ![w] = [Taken(w) EXCEPT !.pc = "load", !.then = "page"]]
  /\ UNCHANGED <<mailbox, session>>

\* what the session says of a command
Accepting(w, command) ==
  CASE Kind[command] = "start" -> handle[w].state = "idle"
    [] Kind[command] = "steer" -> handle[w].state = "running" /\ handle[w].run = Target[command]
    [] OTHER -> handle[w].state = "suspended" /\ handle[w].run = Target[command]
Refusing(w, command) ==
  CASE Kind[command] = "start" -> FALSE
    [] Kind[command] = "steer" -> handle[w].state = "idle" \/ handle[w].run # Target[command]
    [] OTHER -> handle[w].state # "suspended" \/ handle[w].run # Target[command]

AcceptedHandle(w, command) ==
  CASE Kind[command] = "start" -> [state |-> "running", run |-> command, by |-> Nobody]
    [] Kind[command] = "steer" -> handle[w]
    [] OTHER -> [state |-> "running", run |-> handle[w].run, by |-> command]
RunOf(w, command) == IF command \in Runs THEN command ELSE handle[w].run

\* deliver: the receipt of an earlier delivery, or a dispatch; a start is not
\* even dispatched to a session that is not idle
Deliver(w) ==
  /\ At(w, "deliver")
  /\ LET command == Item(w)
         busy == command \in Runs /\ worker[w].view.state # "idle"
         known == Resolved(command)
         acks(found) == worker' = [worker EXCEPT ![w].pc = "ack", ![w].found = found]
     IN \/ /\ known /\ acks(TRUE) /\ UNCHANGED <<mailbox, session>>
        \/ /\ ~known /\ (busy \/ ~(Accepting(w, command) \/ Refusing(w, command)))
           /\ handle[w].state # "faulted"
           /\ Deferred(w)
        \/ /\ ~known /\ ~busy /\ Accepting(w, command)
           /\ Commits(w, "accepted", RunOf(w, command), command)
           /\ handle' = [handle EXCEPT ![w] = AcceptedHandle(w, command)]
           /\ acks(FALSE) /\ UNCHANGED <<mailbox, stream>>
        \/ /\ ~known /\ ~busy /\ Refusing(w, command)
           /\ Commits(w, "rejected", Nobody, command)
           /\ acks(FALSE) /\ UNCHANGED <<mailbox, handle, stream>>
        \/ /\ ~known /\ (~Owns(w) \/ handle[w].state = "faulted")
           /\ Fails(w) /\ UNCHANGED journal
  /\ UNCHANGED <<faults>>

\* the acceptance is durable and its reply is lost
ReplyLost(w) ==
  /\ At(w, "deliver") /\ faults < MaxFaults /\ faults' = faults + 1
  /\ ~Resolved(Item(w)) /\ Accepting(w, Item(w))
  /\ Commits(w, "accepted", RunOf(w, Item(w)), Item(w))
  /\ Fails(w)

\* a run is waited for if this worker set it going or it is the run at hand
Awaits(w, command) ==
  /\ Kind[command] \in {"start", "resolve"}
  /\ \E n \in DOMAIN journal : journal[n].kind = "accepted" /\ journal[n].command = command
  /\ \/ ~worker[w].found
     \/ ~Quiescent(worker[w].view) /\ worker[w].view.run =
          (IF command \in Runs THEN command ELSE Target[command])

Ack(w) ==
  /\ At(w, "ack")
  /\ LET command == Item(w) IN
     IF ~Owns(w) THEN Fails(w)
     ELSE /\ Acknowledge(command)
          /\ worker' = [worker EXCEPT ![w] = [Taken(w) EXCEPT !.pc = "load", !.then = "page",
               !.wait = IF Awaits(w, command)
                        THEN [run |-> IF command \in Runs THEN command ELSE Target[command],
                              after |-> worker[w].view.position, command |-> command]
                        ELSE @]]
          /\ UNCHANGED <<handle, stream>>
  /\ UNCHANGED <<journal, faults>>

\* the ticker, or a page that was full and no event at hand
Tick(w) ==
  /\ At(w, "select")
  /\ Snapshots(w, "sweep")
  /\ UNCHANGED <<mailbox, session, faults>>

\* observe: what ends the wait for a run
Satisfies(event, wait) ==
  /\ event.run = wait.run
  /\ \/ event.position = 0 /\ event.command = wait.command
     \/ event.position > wait.after

\* the events that end waits; the stream passes over the other entries
Ends == {n \in DOMAIN journal : journal[n].kind \in {"settled", "suspended"}}
Buffered(w) == {n \in Ends : n >= stream[w].next}

Sees(w, event) ==
  worker' = [worker EXCEPT ![w].pc = "load", ![w].then = "sweep",
               ![w].wait = IF Satisfies(event, @) THEN NoWait ELSE @]

\* an entry, or an announcement, which has no position
Observe(w) ==
  /\ At(w, "select")
  /\ \/ \E n \in Buffered(w) :
          /\ \A m \in Buffered(w) : n <= m
          /\ Sees(w, [run |-> journal[n].run, position |-> n, command |-> Nobody])
          /\ stream' = [stream EXCEPT ![w].next = n + 1]
     \/ /\ stream[w].bounced # Nobody
        /\ Sees(w, [run |-> Target[stream[w].bounced], position |-> 0, command |-> stream[w].bounced])
        /\ stream' = [stream EXCEPT ![w].bounced = Nobody]
  /\ UNCHANGED <<mailbox, journal, handle, faults>>

\* Clients submit: a steer once they have the receipt of its run, a resolve in
\* answer to a suspension that they see in a snapshot.
Submits(command) ==
  /\ Kind[command] = "steer" =>
       \E n \in DOMAIN journal : journal[n].kind = "accepted" /\ journal[n].run = Target[command]
  /\ Kind[command] = "resolve" =>
       \E w \in Workers : handle[w].state = "suspended" /\ handle[w].run = Target[command]
  /\ Submit(command)
  /\ UNCHANGED <<session, worker, faults>>

-----------------------------------------------------------------------------
Drives(w) ==
  \/ Open(w) \/ Load(w) \/ Look(w) \/ Pending(w) \/ Deliver(w) \/ Ack(w)
  \/ Tick(w) \/ Observe(w) \/ CloseAndRelease(w) \/ Cancelled(w)
Session(w) == RunSettles(w) \/ RunResumes(w) \/ RunFaults(w)
Next ==
  \/ \E w \in Workers : \/ Acquire(w) \/ Drives(w) \/ Session(w) \/ RunSuspends(w)
                        \/ RunBounces(w) \/ RunBreaks(w) \/ Breaks(w) \/ ReplyLost(w)
  \/ LeaseExpires \/ \E command \in Commands : Submits(command)

Spec == Init /\ [][Next]_vars

\* Goroutines and timers take their turns; a run that goes on settles; the
\* select of a worker does not starve its events.
FairSpec ==
  /\ Spec
  /\ WF_vars(LeaseExpires) /\ WF_vars(\E w \in Workers : Acquire(w))
  /\ \A w \in Workers :
       /\ WF_vars(Drives(w)) /\ WF_vars(RunFaults(w))
       /\ WF_vars(RunResumes(w)) /\ WF_vars(RunSettles(w))
       /\ SF_vars(Observe(w))

(***************************************************************************)
(* Properties.                                                             *)
(***************************************************************************)
Resolutions(command) ==
  {n \in DOMAIN journal : journal[n].kind \in {"accepted", "rejected"} /\ journal[n].command = command}

\* A command is accepted or rejected once, though its delivery is retried
\* after failures, lost replies and changes of owner.
ResolvedOnce == \A c \in Commands : Cardinality(Resolutions(c)) <= 1

\* A command leaves the mailbox only when the journal says what became of it.
AcknowledgedIsResolved ==
  \A c \in Submitted : c \notin pending => Resolutions(c) # {}

\* A command is resolved once, and one that left the mailbox was resolved
\* (the outcome is durable before Release acknowledges it).
ResolvesOnce == ResolvedOnce /\ AcknowledgedIsResolved

\* Writers follow each other: once a successor has written, a worker whose
\* lease it took over writes nothing more.
OneWriter ==
  \A m, n \in DOMAIN journal : m < n => journal[m].fence <= journal[n].fence

\* A run that is open and not parked can be found without another submission.
UnfinishedIsDiscoverable == DurableState = "running" => needs

\* A worker that retires has seen the end of every run that it set going, if
\* nobody resumed it: its terminal events were observed before the release.
Unseen(w, n) == n >= stream[w].next
SetGoing(w, n) ==
  \E m \in 1..(n - 1) : /\ journal[m].fence = worker[w].fence /\ journal[m].kind = "accepted"
                        /\ journal[m].command = journal[n].run
RetiredHasSeenEnds ==
  \A w \in Workers, n \in Ends : At(w, "close") /\ Owns(w) /\ SetGoing(w, n)
    /\ (\A m \in DOMAIN journal : journal[m].kind = "accepted" => Kind[journal[m].command] # "resolve")
    => ~Unseen(w, n)

\* Work that is not finished can be found by another worker, and a worker retires
\* only from an actor that has none (worker.run, Mailbox.Release).
WorkIsFound == UnfinishedIsDiscoverable /\ RetiredHasSeenEnds

\* The same of runs that were resumed: an older suspension that is still in the
\* stream does not end the wait for them.
ResumedIsSeen ==
  \A w \in Workers, n \in Ends : At(w, "close") /\ journal[n].kind = "settled" /\ Owns(w) /\ SetGoing(w, n) => ~Unseen(w, n)

\* A submitted command is resolved, or the session waits for an operator.
SubmittedIsDelivered ==
  \A c \in Commands : c \in pending ~>
    (c \notin pending \/ DurableState = "suspended" \/ generation = MaxGenerations)

\* An unfinished run is taken up again whoever failed, and ends or parks.
UnfinishedEnds == DurableState = "running" ~> (DurableState # "running" \/ generation = MaxGenerations)
=============================================================================

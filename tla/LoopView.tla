------------------------------- MODULE LoopView -------------------------------
(***************************************************************************)
(* The SessionLoop view of one durable session (harness/session/           *)
(* loop_view.go, loop_acceptance.go): callers dispatch, look up and reject *)
(* commands under idempotency keys while runs settle, the view is closed   *)
(* or abandoned, and the session is opened again from its journal.         *)
(*                                                                         *)
(*   journal  durable entries: acceptances of commands, ends of runs and   *)
(*            entries of no interest here                                  *)
(*   state    of the inner session, run the run at hand (0: none)          *)
(*   drives   runs whose drive goroutine the view has yet to join          *)
(*   idem     receipts by key; claims who may accept a key                 *)
(*   caller   each caller: where it is, what it asks, what it was told     *)
(*   closer   where Close or Abandon is                                    *)
(*                                                                         *)
(* A caller holds the read side of lifecycleMu wherever it is not idle.    *)
(***************************************************************************)
EXTENDS Naturals, Sequences, FiniteSets, SequencesExt

CONSTANTS
  Callers,      \* goroutines that use the view
  Commands,     \* [kind, key, digest, target]: target is a run, 0 for none
  MaxEntries,   \* bound on the journal, the ends of its runs apart
  MaxReopens    \* bound on views

ASSUME ViewAssumption ==
  /\ Commands \subseteq [kind : {"start", "steer", "next_turn", "resolve", "interrupt"},
                         key : Nat, digest : Nat, target : Nat]
  /\ {MaxEntries, MaxReopens} \subseteq Nat
  /\ "free" \notin Callers

VARIABLES journal, state, run, drives, idem, claims, caller, closer, reopens
vars == <<journal, state, run, drives, idem, claims, caller, closer, reopens>>
inner == <<journal, state, run, drives>>

Keys == {command.key : command \in Commands}
Targeted == {"steer", "resolve", "interrupt"}
Active == {"running", "interrupting"}
Free == "free"

Entry(kind, command, of) == [kind |-> kind, command |-> command, run |-> of]
NoCommand == [kind |-> "none", key |-> 0, digest |-> 0, target |-> 0]
NoReceipt == [outcome |-> "none", position |-> 0, run |-> 0]
NoIdem == [digest |-> 0, receipt |-> NoReceipt]
IdleCaller == [pc |-> "idle", mode |-> "none", command |-> NoCommand, receipt |-> NoReceipt]

Init ==
  /\ journal = <<>> /\ state = "idle" /\ run = 0 /\ drives = {}
  /\ idem = [k \in Keys |-> NoIdem] /\ claims = [k \in Keys |-> Free]
  /\ caller = [c \in Callers |-> IdleCaller] /\ closer = "open" /\ reopens = 0

At(c, pc) == caller[c].pc = pc
Goes(c, pc) == caller' = [caller EXCEPT ![c].pc = pc]
\* an answer without a receipt
Refused(c) == caller' = [caller EXCEPT ![c] = IdleCaller]
Room == Cardinality({n \in DOMAIN journal : journal[n].kind # "settled"}) < MaxEntries
Commits == Room /\ state \notin {"closed", "faulted"}

(***************************************************************************)
(* Dispatch, Acceptance and Reject.                                        *)
(***************************************************************************)
\* A closer that waits for the lock keeps new callers out; a view that is
\* closed or whose acceptance failed turns them away.
Enter(c, mode, command) ==
  /\ At(c, "idle") /\ closer = "open" /\ state # "faulted"
  /\ caller' = [caller EXCEPT ![c] = [IdleCaller EXCEPT !.pc = "claim", !.mode = mode,
                                                        !.command = command]]
  /\ UNCHANGED <<inner, idem, claims, closer, reopens>>

\* What a caller is told of a key that is taken, by a dispatch or by Acceptance
Known(command) == idem[command.key] # NoIdem
\* fault: the digest of the command is not compared
ReplayedToAnyone(c, command) ==
  caller' = [caller EXCEPT ![c] =
    [IdleCaller EXCEPT !.command = command, !.receipt = idem[command.key].receipt]]

Replayed(c, command) ==
  caller' = [caller EXCEPT ![c] =
    IF idem[command.key].digest # command.digest THEN IdleCaller
    ELSE [IdleCaller EXCEPT !.command = command, !.receipt = idem[command.key].receipt]]

Lookup(c, command) ==
  /\ At(c, "idle") /\ closer = "open" /\ state # "faulted"
  /\ IF Known(command) THEN Replayed(c, command) ELSE Refused(c)
  /\ UNCHANGED <<inner, idem, claims, closer, reopens>>

\* fault: whoever finds the key unknown may accept it
ClaimableByAll(c) == TRUE

Claimable(c) == claims[caller[c].command.key] = Free

\* claimIdempotencyKey; an unavailable view refuses the caller on every turn
\* of its loop
Claim(c) ==
  /\ At(c, "claim")
  /\ IF state = "faulted" THEN Refused(c) /\ UNCHANGED claims
     ELSE IF Known(caller[c].command)
     THEN Replayed(c, caller[c].command) /\ UNCHANGED claims
     ELSE /\ Claimable(c)
          /\ claims' = [claims EXCEPT ![caller[c].command.key] = c]
          /\ Goes(c, "accept")
  /\ UNCHANGED <<inner, idem, closer, reopens>>

\* The context of a caller that waits for another's claim ends.
GivesUp(c) ==
  /\ At(c, "claim") /\ ~Known(caller[c].command) /\ ~Claimable(c)
  /\ Refused(c)
  /\ UNCHANGED <<inner, idem, claims, closer, reopens>>

\* What the session says of a command under its mutex, and what it becomes.
\* fault: the target is not looked at again under the mutex
AcceptableAnyTarget(command) ==
  CASE command.kind = "start" -> state = "idle"
    [] command.kind = "steer" -> state = "running"
    [] command.kind = "next_turn" -> TRUE
    [] command.kind = "resolve" -> state = "suspended"
    [] command.kind = "interrupt" -> state \in Active \cup {"suspended"}

Acceptable(command) ==
  /\ command.kind \in Targeted => command.target = run
  /\ CASE command.kind = "start" -> state = "idle"
       [] command.kind = "steer" -> state = "running"
       [] command.kind = "next_turn" -> TRUE
       [] command.kind = "resolve" -> state = "suspended"
       [] command.kind = "interrupt" -> state \in Active \cup {"suspended"}

RunsOpened == Cardinality({n \in DOMAIN journal : journal[n].kind = "start"})
RunOf(command) == IF command.kind = "start" THEN RunsOpened + 1 ELSE run

Unclaim(c) == claims' = [claims EXCEPT ![caller[c].command.key] = Free]

\* fault: the claim is only given back with a receipt
RefusesKeepingClaim(c) ==
  /\ At(c, "accept") /\ Refused(c)
  /\ UNCHANGED <<inner, idem, claims, closer, reopens>>

\* the context of the dispatch is done, or the command is not acceptable now
Refuses(c) ==
  /\ At(c, "accept")
  /\ Refused(c) /\ Unclaim(c)
  /\ UNCHANGED <<inner, idem, closer, reopens>>

\* fault: every receipt has the position of the session's cursor when it is made
ReadsCursorAlways(command) == TRUE

\* dispatchInterrupt takes the position of its receipt from the session's
\* cursor, after the mutex; the others from the append
ReadsCursor(command) == command.kind = "interrupt"

\* appendAcceptanceLocked; the drive of a started or resumed run is
\* registered while the lifecycle lock is held
Accepts(c) ==
  /\ At(c, "accept") /\ Commits
  /\ LET command == caller[c].command
         rejects == caller[c].mode = "reject"
         of == IF rejects THEN 0 ELSE RunOf(command)
     IN /\ rejects \/ Acceptable(command)
        /\ journal' = Append(journal, Entry(IF rejects THEN "rejected" ELSE command.kind,
                                            command, of))
        /\ IF rejects THEN UNCHANGED <<state, run, drives>>
           ELSE /\ run' = of
                /\ state' = CASE command.kind \in {"start", "resolve"} -> "running"
                              [] command.kind = "interrupt" -> "interrupting"
                              [] OTHER -> state
                /\ drives' = IF command.kind \in {"start", "resolve"} THEN drives \cup {of}
                             ELSE drives
        /\ caller' = [caller EXCEPT
             ![c].pc = IF ~rejects /\ ReadsCursor(command) THEN "cursor" ELSE "remember",
             ![c].receipt = [outcome |-> IF rejects THEN "rejected" ELSE "accepted",
                             position |-> Len(journal'), run |-> of]]
  /\ UNCHANGED <<idem, claims, closer, reopens>>

\* The append reports an error, and the entry may be durable all the same.
AcceptanceFails(c) ==
  /\ At(c, "accept") /\ Commits
  /\ LET command == caller[c].command
         rejects == caller[c].mode = "reject"
     IN /\ rejects \/ Acceptable(command)
        /\ \/ journal' = journal
           \/ journal' = Append(journal,
                Entry(IF rejects THEN "rejected" ELSE command.kind, command,
                      IF rejects THEN 0 ELSE RunOf(command)))
  /\ state' = "faulted" /\ Refused(c) /\ Unclaim(c)
  /\ UNCHANGED <<run, drives, idem, closer, reopens>>

ReadCursor(c) ==
  /\ At(c, "cursor")
  /\ caller' = [caller EXCEPT ![c].pc = "remember", ![c].receipt.position = Len(journal)]
  /\ UNCHANGED <<inner, idem, claims, closer, reopens>>

\* rememberCommandAcceptance, then releaseIdempotencyClaim
Remember(c) ==
  /\ At(c, "remember") /\ Goes(c, "idle") /\ Unclaim(c)
  /\ idem' = [idem EXCEPT ![caller[c].command.key] =
       [digest |-> caller[c].command.digest, receipt |-> caller[c].receipt]]
  /\ UNCHANGED <<inner, closer, reopens>>

(***************************************************************************)
(* The session: its run suspends or settles, and its drive returns.        *)
(***************************************************************************)
RunEnds(how) ==
  /\ state \in Active
  /\ how = "suspended" => state = "running" /\ Room
  /\ journal' = Append(journal, Entry(how, NoCommand, run))
  /\ state' = IF how = "suspended" THEN "suspended" ELSE "idle"
  /\ run' = IF how = "suspended" THEN run ELSE 0
  /\ UNCHANGED <<drives, idem, claims, caller, closer, reopens>>

\* driveAccepted returns once the run is no longer its own to settle
DriveReturns(r) ==
  /\ r \in drives /\ ~(state \in Active /\ r = run)
  /\ drives' = drives \ {r}
  /\ UNCHANGED <<journal, state, run, idem, claims, caller, closer, reopens>>

(***************************************************************************)
(* Close and Abandon.                                                      *)
(***************************************************************************)
BeginClose == closer = "open" /\ closer' = "locking" /\ UNCHANGED <<inner, idem, claims, caller, reopens>>

Excluded == \A c \in Callers : At(c, "idle")

\* under the exclusive lock: abandon faults the session, close interrupts it
Locked(abandon) ==
  /\ closer = "locking" /\ Excluded
  /\ closer' = "settling"
  /\ state' = IF abandon THEN "faulted"
              ELSE IF state \in Active THEN "interrupting" ELSE state
  /\ UNCHANGED <<journal, run, drives, idem, claims, caller, reopens>>

\* WaitForIdle, then the join of the drives
Settled ==
  /\ closer = "settling" /\ state \notin Active /\ closer' = "joining"
  /\ UNCHANGED <<inner, idem, claims, caller, reopens>>

\* fault: the drives are not joined
JoinedNobody == TRUE

Joined == drives = {}

CloseRoot ==
  /\ closer = "joining" /\ Joined
  /\ closer' = "closed" /\ state' = "closed"
  /\ UNCHANGED <<journal, run, drives, idem, claims, caller, reopens>>

\* the context of Close ends while it waits: the lock is released and Close may
\* be called again
CloseGivesUp ==
  /\ closer \in {"settling", "joining"} /\ closer' = "given_up"
  /\ UNCHANGED <<inner, idem, claims, caller, reopens>>
CloseRetried ==
  /\ closer = "given_up" /\ closer' = "locking"
  /\ UNCHANGED <<inner, idem, claims, caller, reopens>>

(***************************************************************************)
(* A new view of the journal: NewLoopView with restoreCommandAcceptances.  *)
(***************************************************************************)
AcceptanceOf(k) == {n \in DOMAIN journal : journal[n].command # NoCommand /\ journal[n].command.key = k}
RestoredReceipt(n) ==
  [outcome |-> IF journal[n].kind = "rejected" THEN "rejected" ELSE "accepted",
   position |-> n, run |-> journal[n].run]

OpenRun ==
  LET at == SelectLastInSeq(journal, LAMBDA e : e.kind \in {"start", "settled"})
  IN IF at # 0 /\ journal[at].kind = "start" THEN journal[at].run ELSE 0
Parked ==
  LET at == SelectLastInSeq(journal, LAMBDA e : e.kind \in {"start", "resolve", "interrupt", "suspended"})
  IN at # 0 /\ journal[at].kind = "suspended"

Restored == [k \in Keys |->
  IF AcceptanceOf(k) = {} THEN NoIdem
  ELSE LET n == CHOOSE m \in AcceptanceOf(k) : TRUE
       IN [digest |-> journal[n].command.digest, receipt |-> RestoredReceipt(n)]]

\* A recovered run is driven by the session's own goroutine, not the view's.
Reopen ==
  /\ closer = "closed" /\ reopens < MaxReopens /\ Excluded
  /\ reopens' = reopens + 1 /\ closer' = "open"
  /\ idem' = Restored /\ claims' = [k \in Keys |-> Free]
  /\ caller' = [c \in Callers |-> IdleCaller]
  /\ run' = OpenRun /\ state' = IF OpenRun = 0 THEN "idle"
                                ELSE IF Parked THEN "suspended" ELSE "running"
  /\ drives' = {} /\ UNCHANGED journal

-----------------------------------------------------------------------------
Callings(c) ==
  \/ Claim(c) \/ Refuses(c) \/ Accepts(c) \/ AcceptanceFails(c)
  \/ ReadCursor(c) \/ Remember(c)
Calls == \E c \in Callers : Callings(c)
Runs == (\E how \in {"suspended", "settled"} : RunEnds(how)) \/ \E r \in drives : DriveReturns(r)
Closing == BeginClose \/ (\E abandon \in BOOLEAN : Locked(abandon)) \/ Settled \/ CloseRoot
           \/ CloseGivesUp \/ CloseRetried
Next ==
  \/ Calls \/ Runs \/ Closing \/ Reopen
  \/ \E c \in Callers : GivesUp(c)
  \/ \E c \in Callers, command \in Commands :
       Lookup(c, command) \/ Enter(c, "dispatch", command) \/ Enter(c, "reject", command)

Spec == Init /\ [][Next]_vars

\* Callers, drives and a Close that was begun take their steps; a run that was
\* interrupted ends; an owner repeats a Close that gave up.
FairSpec ==
  /\ Spec
  /\ \A c \in Callers : WF_vars(Callings(c))
  /\ WF_vars(Settled) /\ SF_vars(CloseRoot) /\ WF_vars(CloseRetried)
  /\ \A abandon \in BOOLEAN : WF_vars(Locked(abandon))
  /\ WF_vars(state = "interrupting" /\ RunEnds("settled"))
  /\ WF_vars(\E r \in drives : DriveReturns(r))

(***************************************************************************)
(* Properties.                                                             *)
(***************************************************************************)
\* A key is accepted or rejected once, whatever callers, lost replies and
\* reopened views do with it: claims close the window between the look at the
\* receipts and the append.
AcceptedOnce == \A k \in Keys : Cardinality(AcceptanceOf(k)) <= 1

\* A caller that is told of an acceptance, by its own append or another's, is
\* told of one that the journal holds, of its own command, at or before the
\* position of the receipt.
ReceiptIsDurable ==
  \A c \in Callers :
    LET told == caller[c] IN
    told.pc = "idle" /\ told.receipt.outcome \in {"accepted", "rejected"} =>
      \E n \in AcceptanceOf(told.command.key) :
        /\ journal[n].command.digest = told.command.digest
        /\ RestoredReceipt(n).outcome = told.receipt.outcome
        /\ journal[n].run = told.receipt.run /\ n <= told.receipt.position

\* The receipts a view answers with are those that the next view restores, the
\* position of an interrupt's excepted, which is read later (dispatchInterrupt).
ReceiptsSurvive ==
  \A k \in Keys : idem[k] # NoIdem =>
    \E n \in AcceptanceOf(k) :
      /\ [idem[k].receipt EXCEPT !.position = n] = RestoredReceipt(n)
      /\ journal[n].kind # "interrupt" => idem[k].receipt.position = n

\* The same of an interrupt's receipt.
InterruptReceiptsSurvive ==
  \A k \in Keys : idem[k] # NoIdem =>
    \E n \in AcceptanceOf(k) : idem[k].receipt = RestoredReceipt(n)

\* A command for a run is accepted while that run is open, and in no other.
TargetIsOpen ==
  \A n \in DOMAIN journal : journal[n].kind \in Targeted =>
    /\ journal[n].run = journal[n].command.target
    /\ \E m \in 1..(n - 1) : journal[m].kind = "start" /\ journal[m].run = journal[n].run
    /\ \A m \in 1..(n - 1) : ~(journal[m].kind = "settled" /\ journal[m].run = journal[n].run)

\* A command is accepted once for its key, and only for the run that is open
\* (dispatch).
AcceptedForItsRun == AcceptedOnce /\ TargetIsOpen

\* A receipt names a durable acceptance, and repeating the identity returns it
\* again, also from a handle that was opened later (acceptedReceipt).
ReceiptsAreKept == ReceiptIsDurable /\ ReceiptsSurvive

\* Once the root is closed no goroutine of the view is left and nobody is
\* between an acceptance and its receipt.
RootIsQuiet ==
  closer = "closed" /\ state = "closed" =>
    drives = {} /\ \A c \in Callers : caller[c].pc \notin {"accept", "cursor", "remember"}

\* A claim is given back, whatever becomes of the dispatch that took it.
ClaimsReleased == \A k \in Keys : claims[k] # Free ~> claims[k] = Free

\* A view that is being closed gets closed or its Close gives up.
CloseEnds == closer = "locking" ~> closer \in {"closed", "given_up"}
=============================================================================

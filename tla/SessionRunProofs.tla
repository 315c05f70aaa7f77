--------------------------- MODULE SessionRunProofs ---------------------------
(***************************************************************************)
(* What a run is charged, what became of its calls, what it leaves behind, *)
(* and whose its inputs are.                                               *)
(*                                                                         *)
(*   NeverOvercharged      the session usage holds no response twice and   *)
(*                         stays in the budget                             *)
(*   FullyCharged          without a lost handle it holds every response   *)
(*   NeverAbandonedStarted a call reported as never started did not start  *)
(*   NothingStranded, Arrives, SettledWhole                                *)
(*                         no input and no call is left of a settled run   *)
(*   CommandsHitTheirRun   a command that names a run is accepted by it    *)
(*   InputsStay, InputsStayUnresolved, InputsFollow                        *)
(*                         an input reaches the run that accepted it       *)
(*                                                                         *)
(* None is inductive.  A usage entry is computed from what the drive has   *)
(* used and what the run has recorded, so that Within bounds, of a         *)
(* journal, what the open run and a suspension may still charge, Paying    *)
(* bounds what the drive will, and Exact says for the first handle what    *)
(* the drive has used at each of its steps, up to the result that a        *)
(* rejected resume returns; Accounts is the three.  A call is abandoned    *)
(* where the frontier is open and the run has no start of it, so that      *)
(* Frontiers says of every step which calls may be open and which of them  *)
(* may have started.                                                       *)
(***************************************************************************)
EXTENDS SessionProofs, WellFoundedInduction

Over == {"return", "settle"}

\* a drive has an outcome when it is over
Shaped ==
  /\ drv.pc \notin Over => drv.outcome = "none"
  /\ drv.pc = "return" => drv.outcome # "none"

\* Steps of the drive that go on or end it.
LEMMA DriverShaped ==
  ASSUME TypeInv, Shaped, Driver
  PROVE  Shaped'
<1>1. drv \in DriverType BY DEF TypeInv
<1>2. ASSUME NEW pc \in DriverSteps \ {"return"}, drv' = [drv EXCEPT !.pc = pc], drv.pc \notin Over
      PROVE  Shaped'
  BY <1>1, <1>2 DEF Shaped, DriverType, Over
<1>3. ASSUME NEW o \in Outcomes \ {"none"}, drv' = [drv EXCEPT !.pc = "return", !.outcome = o]
      PROVE  Shaped'
  BY <1>1, <1>3 DEF Shaped, DriverType, Over
<1>4. CASE Launch \/ ResolveSuspended \/ StartFails \/ BeginTurn BY <1>1, <1>2, <1>3, <1>4
  DEF Launch, ResolveSuspended, StartFails, BeginTurn, Loop, Leave, Goto, Outcome, At, Over,
      Outcomes, DriverSteps
<1>5. CASE ResumeFails BY <1>1, <1>5 DEF ResumeFails, Outcome, Shaped, DriverType, Over
<1>8. CASE StartRun \/ InjectMessages \/ CompleteRun \/ SuspendRun BY <1>1, <1>3, <1>8
  DEF StartRun, InjectMessages, CompleteRun, SuspendRun, Emit, Outcome, Shaped, DriverType, Over,
      At, Outcomes
<1>9. CASE \E n \in 0..Cardinality(Calls) : ModelAnswers(n) BY <1>1, <1>3, <1>9
  DEF ModelAnswers, Emit, Outcome, Shaped, DriverType, Over, At, Outcomes
<1>10. CASE ModelFails \/ CandidateValid \/ GateDefers \/ GateAdmits \/ GateFails
  BY <1>1, <1>10
  DEF ModelFails, CandidateValid, GateDefers, GateAdmits, GateFails, Shaped, DriverType, Over, At
<1>11. CASE CandidateInvalid \/ StartTool \/ EndTurn BY <1>1, <1>3, <1>11
  DEF CandidateInvalid, StartTool, EndTurn, Emit, Outcome, Shaped, DriverType, Over, At, Outcomes
<1>12. CASE ToolsReturn \/ HandlerDefers
  BY <1>1, <1>12 DEF ToolsReturn, HandlerDefers, AfterTools, Shaped, DriverType, Over, At
<1>13. CASE CommitResult BY <1>1, <1>3, <1>13
  DEF CommitResult, Emit, Outcome, Loop, Goto, Shaped, DriverType, Over, At, Outcomes
<1>14. CASE HookRefuses \/ HookEnds \/ HookInjects BY <1>1, <1>3, <1>14
  DEF HookRefuses, HookEnds, HookInjects, Leave, Goto, Outcome, Shaped, DriverType, Over, At,
      Outcomes
<1>15. QED BY <1>4, <1>5, <1>8, <1>9, <1>10, <1>11, <1>12, <1>13, <1>14 DEF Driver

\* A drive has an outcome exactly when it is over.
LEMMA ShapedInvariant == Spec => []Shaped
<1>1. Init => Shaped BY DEF Init, NoDriver, Shaped, Over
<1>2. NoDriver.pc = "none" /\ NoDriver.outcome = "none" BY DEF NoDriver
<1>3. drv' = NoDriver \/ UNCHANGED drv => (Shaped => Shaped') BY <1>2 DEF Shaped, Over
<1>5. TypeInv /\ Shaped /\ Client => Shaped'
  <2> SUFFICES ASSUME TypeInv, Shaped, Client PROVE Shaped'
    OBVIOUS
  <2>1. CASE Start \/ \E id \in 1..journal.susps : ResumeIndeterminate(id)
    BY <1>3, <2>1 DEF Start, ResumeIndeterminate, NoDriver, Shaped, Over
  <2>2. CASE \E id \in 1..journal.susps, calls \in SUBSET Calls : Resume(id, calls)
    BY <1>3, <2>2 DEF Resume, NoDriver, Shaped, Over
  <2>3. CASE \/ \E id \in Inputs, kind \in QueueKinds, target \in 0..MaxRuns : Accept(id, kind, target)
             \/ \E target \in 0..MaxRuns : Interrupt(target)
    BY <1>3, <2>3 DEF Accept, Interrupt
  <2> QED BY <2>1, <2>2, <2>3 DEF Client
<1>6. TypeInv /\ Shaped /\ Finish => Shaped'
  <2> SUFFICES ASSUME TypeInv, Shaped, Finish PROVE Shaped'
    OBVIOUS
  <2>1. CASE FinishInterrupted
    BY <2>1 DEF TypeInv, FinishInterrupted, Loop, Goto, At, Shaped, DriverType, Over
  <2>2. CASE ~FinishInterrupted
    BY <1>3, <2>2 DEF Finish, FinishFaulted, FinishBounced, FinishUnusable, FinishSuspended,
                      FinishClosed, SettleInterrupt, Finished
  <2> QED BY <2>1, <2>2
<1>7. Shaped /\ (SettleSuspended \/ Owner) => Shaped'
  BY <1>3 DEF SettleSuspended, Owner, Abandon, Close, Drop, Crash, NoHandle
<1>8. Shaped /\ Recover => Shaped'
  <2> SUFFICES ASSUME Shaped, Recover PROVE Shaped'
    OBVIOUS
  <2>1. CASE RecoverContinue BY <2>1 DEF RecoverContinue, Reopen, NoDriver, Shaped, Over
  <2>2. CASE ~RecoverContinue
    BY <1>3, <2>2 DEF Recover, RecoverInterrupted, RecoverCompleted, RecoverIdle,
                      RecoverSuspended, RecoverInject, RecoverIndeterminate, Reopen
  <2> QED BY <2>1, <2>2
<1>9. TypeInv /\ Shaped /\ [Next]_vars => Shaped'
  BY <1>3, <1>5, <1>6, <1>7, <1>8, DriverShaped DEF Next, vars
<1>10. QED BY <1>1, <1>9, TypeInvariant, PTL DEF Spec

-----------------------------------------------------------------------------
(***************************************************************************)
(* The bill.  Base is what the session had been charged before the run; s  *)
(* stands for the responses received.                                      *)
(***************************************************************************)
Base(j) == j.usage - j.last
Consumers == {"gate", "handler"}

Within(j, s) ==
  /\ j.usage <= s /\ j.usage <= Budget
  /\ j.run # NoRun => Base(j) + j.limit <= Budget /\ j.last <= j.limit
  /\ j.susp.kind \in Consumers => Base(j) + j.susp.used <= s /\ j.susp.used <= j.limit

Paying(j, d, s) ==
  /\ Base(j) + d.used <= s /\ d.used <= j.limit
  /\ d.pc = "model" => d.used < j.limit

\* st is the state of the handle
Exact(j, d, st, s) ==
  /\ d.pc = "none" \/ d.outcome = "Rejected" => j.usage = s
  /\ d.pc # "none" /\ d.outcome # "Rejected" => Base(j) + d.used = s
  /\ d.outcome = "Rejected" => d.used \in {0, j.last}
  /\ d.pc = "start" /\ ~d.resumed => d.used = j.last
  /\ d.pc \in Over /\ d.outcome \in {"none", "Refused"} => d.used = j.last
  /\ d.pc = "resolve" => d.used = j.last
  /\ st = "Suspended" \/ d.pc = "resolve" \/ d.outcome = "Rejected" => j.susp.used = j.last
  /\ d.outcome = "Suspended" => j.susp.used = d.used
  /\ d.pc # "launch"

Pays(j, d, st, s, first) ==
  (d.pc # "none" => Paying(j, d, s)) /\ (first => Exact(j, d, st, s))

Accounts ==
  /\ opens >= 1 /\ Within(journal, spent)
  /\ Live => Pays(journal, drv, state, spent, opens = 1)

\* What the counters of a journal and a drive range over.
LEMMA CounterTypes ==
  ASSUME TypeInv
  PROVE  /\ journal.usage \in Nat /\ journal.last \in Nat /\ journal.limit \in Nat
         /\ journal.run \in Nat /\ journal.last <= journal.usage
         /\ mem.usage \in Nat /\ mem.last \in Nat /\ mem.limit \in Nat
         /\ journal.susp.used \in Nat /\ drv.used \in Nat /\ spent \in Nat /\ opens \in Nat
         /\ journal \in JournalType /\ mem \in MemType /\ drv \in DriverType
         /\ JournalOK(journal) /\ MemOK(mem)
BY DEF TypeInv, JournalOK, MemOK, JournalType, MemType, DriverType, Suspension

\* The counters of a live handle are those of its journal.
LEMMA LiveCounters ==
  ASSUME TypeInv, Coherent, Faithful, Accounts, Live
  PROVE  /\ mem.last = journal.last /\ mem.limit = journal.limit /\ mem.usage = journal.usage
         /\ mem.run = journal.run /\ (~At("none") => journal.run # NoRun)
         /\ mem.susp # NoSuspension => mem.susp = journal.susp
         /\ Pays(journal, drv, state, spent, opens = 1)
<1>1. ~At("none") => journal.run # NoRun BY DrivenRun DEF Live, Attached, Busy
<1> QED BY <1>1 DEF Faithful, Mirrors, Accounts

\* The bill looks at four fields of a drive.
SameDrive(d, e) ==
  e.pc = d.pc /\ e.outcome = d.outcome /\ e.used = d.used /\ e.resumed = d.resumed

\* A step whose batch and drive are within the bill keeps it.
LEMMA AccountsFrom ==
  ASSUME NEW j, NEW s, NEW d, NEW st, NEW n, opens' = n, n >= 1, spent' = s,
         Within(journal, s), journal' = journal \/ (journal' = j /\ Within(j, s)),
         Live' => /\ journal' = j /\ SameDrive(d, drv') /\ state' = st
                  /\ Pays(j, d, st, s, n = 1)
  PROVE  Accounts'
BY DEF Accounts, Within, Pays, Paying, Exact, Base, SameDrive

\* More responses leave a journal within the bill.
LEMMA WithinMore ==
  ASSUME TypeInv, Within(journal, spent), NEW s \in Nat, s >= spent
  PROVE  Within(journal, s)
BY CounterTypes DEF Within, Base

\* An entry that leaves the counters alone keeps what is to be paid.
SameBill(j, k) ==
  k.run = j.run /\ k.limit = j.limit /\ k.last = j.last /\ k.usage = j.usage /\ k.susp = j.susp

LEMMA SameBillPays ==
  ASSUME NEW j, NEW k, SameBill(j, k), NEW s
  PROVE  /\ Within(j, s) => Within(k, s)
         /\ \A d, st, first : Pays(j, d, st, s, first) => Pays(k, d, st, s, first)
<1> USE DEF SameBill
<1>1. Within(j, s) => Within(k, s) BY DEF Within, Base
<1>2. ASSUME NEW d, NEW st, NEW first, Pays(j, d, st, s, first)
      PROVE  Pays(k, d, st, s, first)
  BY <1>2 DEF Pays, Paying, Exact, Base
<1> QED BY <1>1, <1>2

\* A step of the drive that appends nothing.
LEMMA QuietAccounts ==
  ASSUME TypeInv, Accounts, NEW d, NEW s \in Nat, s >= spent, NEW st,
         UNCHANGED <<journal, lock, opens>>, SameDrive(d, drv'), spent' = s, state' = st,
         Live' => Live /\ Pays(journal, d, st, s, opens = 1)
  PROVE  Accounts'
<1>1. Within(journal, s) BY WithinMore DEF Accounts
<1> QED BY <1>1, AccountsFrom DEF Accounts

\* An event of the drive.
LEMMA EmitAccounts ==
  ASSUME TypeInv, Accounts, NEW j, NEW m, NEW d, Emit(j, m, d), NEW s \in Nat, s >= spent,
         spent' = s,
         lock /\ state # "Faulted" => Within(j, s),
         Live => Pays(j, d, state, s, opens = 1)
  PROVE  Accounts'
<1>1. Within(journal, s) /\ opens' = opens /\ opens >= 1
  BY WithinMore DEF Accounts, Emit, Undriven
<1>2. journal' = journal \/ (journal' = j /\ Within(j, s)) BY DEF Emit, Commit, AppendError
<1>3. Live' => /\ journal' = j /\ SameDrive(d, drv') /\ state' = state
                /\ Pays(j, d, state, s, opens = 1)
  BY DEF SameDrive, Emit, Commit, AppendError, Live, Attached, Busy, Undriven
<1> QED BY <1>1, <1>2, <1>3, AccountsFrom

\* A batch of a client or of a finish.
LEMMA BatchAccounts ==
  ASSUME TypeInv, Accounts, NEW j, NEW m, NEW st, NEW d,
         Commit(j, m, st) \/ AppendError(j), UNCHANGED <<lock, spent, opens>>,
         lock => Within(j, spent) /\ Pays(j, d, st, spent, opens = 1),
         state' = st => drv' = d, st # "Faulted"
  PROVE  Accounts'
<1>1. Within(journal, spent) /\ opens' = opens /\ opens >= 1 /\ spent' = spent
  BY DEF Accounts
<1>2. journal' = journal \/ (journal' = j /\ Within(j, spent)) BY DEF Commit, AppendError
<1>3. Live' => /\ journal' = j /\ SameDrive(d, drv') /\ state' = st
                /\ Pays(j, d, st, spent, opens = 1)
  BY DEF SameDrive, Commit, AppendError, Live, Attached, Busy
<1> QED BY <1>1, <1>2, <1>3, AccountsFrom

\* Steps of the drive that change neither handle nor journal.
LEMMA QuietStepsAccounts ==
  ASSUME TypeInv, Coherent, Faithful, Shaped, Accounts,
         \/ Launch \/ ResumeFails \/ ResolveSuspended \/ StartFails \/ BeginTurn \/ ModelFails
         \/ CandidateValid \/ GateDefers \/ GateAdmits \/ GateFails \/ ToolsReturn
         \/ HandlerDefers \/ HookRefuses \/ HookEnds
  PROVE  Accounts'
<1> DEFINE D(pc, o, used) == [pc |-> pc, outcome |-> o, used |-> used, resumed |-> drv.resumed]
           Owed(d, s) == Pays(journal, d, state, s, opens = 1)
           Goes(pc, o, used) == /\ drv'.pc = pc /\ drv'.outcome = o /\ drv'.used = used
                                /\ drv'.resumed = drv.resumed
           Same == UNCHANGED <<state, journal, lock, opens>>
<1>1. /\ journal.usage \in Nat /\ journal.last \in Nat /\ journal.limit \in Nat
      /\ journal.last <= journal.usage /\ drv.used \in Nat /\ spent \in Nat
      /\ drv \in DriverType
  BY CounterTypes
<1>2. Live => /\ mem.last = journal.last /\ mem.limit = journal.limit
              /\ Owed(drv, spent) /\ journal.usage <= spent
              /\ ~At("none") => journal.run # NoRun /\ journal.last <= journal.limit
  BY LiveCounters DEF Accounts, Within
<1>3. ASSUME NEW pc, NEW o, NEW used \in Nat, Goes(pc, o, used), NEW s \in Nat, s >= spent,
             spent' = s, Same, Live => Owed(D(pc, o, used), s)
      PROVE  Accounts'
  <2> DEFINE d == D(pc, o, used)
  <2>1. SameDrive(d, drv') BY <1>3 DEF SameDrive
  <2> HIDE DEF d
  <2> QED BY <1>3, <2>1, QuietAccounts DEF Live, d
\* the drive goes on
<1>4. ASSUME NEW pc, ~At("none"), drv.pc \notin Over, Goes(pc, drv.outcome, drv.used),
             pc \notin {"none", "resolve", "launch"} \cup Over,
             pc = "start" => drv.resumed, Live /\ pc = "model" => drv.used < mem.limit,
             Same, UNCHANGED spent
      PROVE  Accounts'
  <2>1. Live => Owed(D(pc, drv.outcome, drv.used), spent)
    BY <1>1, <1>2, <1>4 DEF Pays, Paying, Exact, At, Base, Over
  <2> QED BY <1>1, <1>3, <1>4, <2>1
\* it ends with what it has used
<1>5. ASSUME NEW o \in {"Failed", "Interrupted", "Refused"}, ~At("none"), drv.pc \notin Over,
             Goes("return", o, drv.used),
             o = "Refused" => At("resolve") \/ (At("start") /\ ~drv.resumed),
             Same, UNCHANGED spent
      PROVE  Accounts'
  <2>1. drv.outcome = "none" BY <1>5 DEF Shaped
  <2>2. Live => Owed(D("return", o, drv.used), spent)
    BY <1>1, <1>2, <1>5, <2>1 DEF Pays, Paying, Exact, At, Base, Over
  <2> QED BY <1>1, <1>3, <1>5, <2>2
<1>6. CASE Launch
  <2>1. PICK pc \in {"start", "settle", "none"} : Goes(pc, drv.outcome, drv.used)
    BY <1>1, <1>6 DEF Launch, Loop, Goto, DriverType
  <2>2. At("launch") /\ Same /\ UNCHANGED spent BY <1>6 DEF Launch, Loop, Undriven
  <2>3. Live => Owed(D(pc, drv.outcome, drv.used), spent)
    BY <1>1, <1>2, <2>1, <2>2 DEF Pays, Paying, Exact, At, Base
  <2> QED BY <1>1, <1>3, <2>1, <2>2, <2>3
<1>7. CASE ResumeFails
  <2>1. At("resolve") /\ Same /\ UNCHANGED spent BY <1>7 DEF ResumeFails, Undriven
  <2>2. drv.outcome = "none" BY <2>1 DEF Shaped, Over, At
  <2>3. ASSUME NEW used \in {0, mem.last, drv.used},
               drv' = [drv EXCEPT !.pc = "return", !.outcome = "Rejected", !.used = used]
        PROVE  Accounts'
    <3>1. Goes("return", "Rejected", used) /\ used \in Nat
      BY <1>1, <2>3, CounterTypes DEF DriverType
    <3>2. Live => Owed(D("return", "Rejected", used), spent)
      BY <1>1, <1>2, <2>1, <2>2, <2>3, <3>1 DEF Pays, Paying, Exact, At, Base, Over
    <3> QED BY <1>1, <1>3, <2>1, <3>1, <3>2
  <2>4. ASSUME NEW o \in {"Failed", "Refused"}, Outcome(o)
        PROVE  Accounts'
    <3>1. Goes("return", o, drv.used) BY <1>1, <2>4 DEF Outcome, DriverType
    <3> QED BY <1>5, <2>1, <2>4, <3>1 DEF At, Over
  <2> QED BY <1>7, <2>3, <2>4 DEF ResumeFails
<1>8. CASE ResolveSuspended
  <2>1. At("resolve") /\ Goes("exec", drv.outcome, drv.used) /\ Same /\ UNCHANGED spent
    BY <1>1, <1>8 DEF ResolveSuspended, Loop, Goto, DriverType, Undriven
  <2> QED BY <1>4, <2>1 DEF At, Over
<1>9. CASE StartFails
  <2>1. /\ At("start") /\ ~drv.resumed /\ Goes("return", "Refused", drv.used)
        /\ Same /\ UNCHANGED spent
    BY <1>1, <1>9 DEF StartFails, Leave, Outcome, DriverType, Undriven
  <2> QED BY <1>5, <2>1 DEF At, Over
<1>10. CASE BeginTurn
  <2>1. At("turn") /\ Same /\ UNCHANGED spent BY <1>10 DEF BeginTurn, Leave, Loop, Undriven
  <2>2. \/ \E o \in {"Failed", "Interrupted"} : Goes("return", o, drv.used)
        \/ Goes("model", drv.outcome, drv.used) /\ drv.used < mem.limit
    BY <1>1, <1>10 DEF BeginTurn, Leave, Loop, Goto, Outcome, DriverType
  <2> QED BY <1>4, <1>5, <2>1, <2>2 DEF At, Over
<1>11. CASE ModelFails
  <2>1. PICK paid \in {0, 1}, o \in {"Failed", "Interrupted"} :
          /\ drv' = [drv EXCEPT !.pc = "return", !.outcome = o, !.used = @ + paid]
          /\ spent' = spent + paid
    BY <1>11 DEF ModelFails
  <2>2. At("model") /\ Same /\ Goes("return", o, drv.used + paid) /\ drv.outcome = "none"
    BY <1>1, <1>11, <2>1 DEF ModelFails, DriverType, Undriven, Shaped, Over, At
  <2>3. ASSUME Live PROVE Owed(D("return", o, drv.used + paid), spent + paid)
    <3> DEFINE d == D("return", o, drv.used + paid)
    <3>1. d.pc = "return" /\ d.outcome = o /\ d.used = drv.used + paid
      OBVIOUS
    <3>2. /\ Base(journal) + drv.used <= spent /\ drv.used < journal.limit
          /\ Base(journal) \in Nat /\ paid \in Nat /\ paid <= 1
          /\ opens = 1 => Base(journal) + drv.used = spent
          /\ opens = 1 /\ state = "Suspended" => journal.susp.used = journal.last
      BY <1>1, <1>2, <2>2, <2>3 DEF Pays, Paying, Exact, At, Base
    <3> HIDE DEF d
    <3>3. /\ Base(journal) + d.used <= spent + paid /\ d.used <= journal.limit
          /\ opens = 1 => Base(journal) + d.used = spent + paid
      BY <1>1, <3>1, <3>2
    <3>4. Owed(d, spent + paid) BY <3>1, <3>2, <3>3 DEF Pays, Paying, Exact, Over
    <3> QED BY <3>4 DEF d
  <2> QED BY <1>1, <1>3, <2>1, <2>2, <2>3
<1>12. CASE CandidateValid \/ GateDefers \/ GateAdmits \/ GateFails
  <2>1. /\ \E pc \in {"ended", "suspend", "exec", "results"} : Goes(pc, drv.outcome, drv.used)
        /\ At("evaluate") \/ At("gate")
        /\ Same /\ UNCHANGED spent
    BY <1>1, <1>12
    DEF CandidateValid, GateDefers, GateAdmits, GateFails, DriverType, Undriven
  <2> QED BY <1>4, <2>1 DEF At, Over
<1>13. CASE ToolsReturn \/ HandlerDefers
  <2>1. At("exec") /\ Same /\ UNCHANGED spent
    BY <1>13 DEF ToolsReturn, HandlerDefers, Undriven
  <2>2. \/ Goes("start", drv.outcome, drv.used) /\ drv.resumed
        \/ \E pc \in {"results", "suspend"} : Goes(pc, drv.outcome, drv.used)
    BY <1>1, <1>13 DEF ToolsReturn, HandlerDefers, AfterTools, DriverType
  <2> QED BY <1>4, <2>1, <2>2 DEF At, Over
<1>14. CASE HookRefuses
  <2>1. At("hook") /\ Goes("return", "Failed", drv.used) /\ Same /\ UNCHANGED spent
    BY <1>1, <1>14 DEF HookRefuses, Leave, Outcome, DriverType, Undriven
  <2> QED BY <1>5, <2>1 DEF At, Over
<1>15. CASE HookEnds
  <2>1. /\ At("hook") /\ state = "Running" /\ UNCHANGED <<journal, lock, opens, spent>>
        /\ \E pc \in {"complete", "turn"} : Goes(pc, drv.outcome, drv.used)
        /\ state' = IF drv.cand THEN "Closing" ELSE "Running"
    BY <1>1, <1>15 DEF HookEnds, Goto, DriverType, Undriven
  <2>2. PICK pc \in {"complete", "turn"} : Goes(pc, drv.outcome, drv.used) BY <2>1
  <2> DEFINE d == D(pc, drv.outcome, drv.used)
             st == IF drv.cand THEN "Closing" ELSE "Running"
  <2>3. Live => Pays(journal, d, st, spent, opens = 1)
    BY <1>1, <1>2, <2>1, <2>2 DEF Pays, Paying, Exact, At, Base, Over
  <2>4. SameDrive(d, drv') BY <2>2 DEF SameDrive
  <2>5. Live' => Live BY <2>1 DEF Live, Attached, Busy
  <2> HIDE DEF d
  <2> QED BY <1>1, <2>1, <2>3, <2>4, <2>5, QuietAccounts
<1> QED
  BY <1>6, <1>7, <1>8, <1>9, <1>10, <1>11, <1>12, <1>13, <1>14, <1>15

\* An event that charges nothing.
LEMMA SameBillAccounts ==
  ASSUME TypeInv, Coherent, Faithful, Accounts, ~At("none"), drv.pc \notin Over,
         drv.outcome = "none", NEW j, NEW m, NEW d, Emit(j, m, d), UNCHANGED spent,
         lock /\ state # "Faulted" => SameBill(journal, j),
         d.used = drv.used, d.resumed = drv.resumed, d.outcome \in {"none", "Completed", "Failed"},
         d.pc \notin {"none", "start", "resolve", "launch", "model", "settle"},
         d.pc = "return" => d.outcome # "none"
  PROVE  Accounts'
<1>1. drv.used \in Nat /\ spent \in Nat BY CounterTypes
<1>2. lock /\ state # "Faulted" => Live /\ Within(j, spent)
  BY DrivenRun, SameBillPays DEF Live, Attached, Accounts
<1>3. ASSUME Live PROVE Pays(j, d, state, spent, opens = 1)
  <2>1. Pays(journal, drv, state, spent, opens = 1) /\ lock /\ state # "Faulted"
    BY <1>3 DEF Accounts, Live, Attached, Busy
  <2>2. Pays(journal, d, state, spent, opens = 1) BY <2>1 DEF Pays, Paying, Exact, At, Over
  <2> QED BY <2>1, <2>2, SameBillPays
<1> QED BY <1>1, <1>2, <1>3, EmitAccounts

\* Events of the drive keep the bill.
LEMMA EventStepsAccounts ==
  ASSUME TypeInv, Coherent, Faithful, Shaped, Accounts,
         \/ StartRun \/ (\E n \in 0..Cardinality(Calls) : ModelAnswers(n)) \/ CandidateInvalid
         \/ StartTool \/ CommitResult \/ EndTurn \/ HookInjects \/ InjectMessages
         \/ CompleteRun \/ SuspendRun
  PROVE  Accounts'
<1>1. /\ journal.usage \in Nat /\ journal.last \in Nat /\ journal.limit \in Nat
      /\ journal.last <= journal.usage /\ drv.used \in Nat /\ spent \in Nat
      /\ drv \in DriverType /\ journal \in JournalType
  BY CounterTypes
<1>2. lock /\ state # "Faulted" => Live \/ At("none") BY DrivenRun DEF Live, Attached
<1>3. Live => /\ mem.last = journal.last /\ mem.limit = journal.limit
              /\ mem.usage = journal.usage
              /\ Pays(journal, drv, state, spent, opens = 1)
              /\ Within(journal, spent)
              /\ ~At("none") => journal.run # NoRun
  BY LiveCounters DEF Accounts
<1>4. CASE StartRun
  <2> DEFINE d == [drv EXCEPT !.pc = drv.next]
             j == RunStarted(journal)
  <2>1. /\ At("start") /\ UNCHANGED spent
        /\ Emit(j, [mem EXCEPT !.seen = @ \/ mem.resuming], d)
    BY <1>4 DEF StartRun
  <2>2. /\ d.pc \in {"turn", "evaluate", "results", "suspend"} /\ d.used = drv.used
        /\ d.outcome = drv.outcome /\ d.resumed = drv.resumed
    BY <1>1 DEF DriverType
  <2>3. SameBill(journal, j) BY <1>1 DEF RunStarted, JournalType, SameBill
  <2>4. drv.outcome = "none" /\ ~At("none") /\ drv.pc \notin Over
    BY <2>1 DEF Shaped, At, Over
  <2> HIDE DEF d, j
  <2> QED BY <2>1, <2>2, <2>3, <2>4, SameBillAccounts
<1>5. ASSUME NEW n \in 0..Cardinality(Calls), ModelAnswers(n)
      PROVE  Accounts'
  <2> DEFINE calls == (journal.calls + 1)..(journal.calls + n)
             j == AssistantCommitted(journal, calls)
             m == [mem EXCEPT !.open = calls, !.tail = "assistant"]
             d == [drv EXCEPT !.used = @ + 1, !.cand = FALSE, !.fatal = FALSE,
                              !.pc = IF n = 0 THEN "evaluate" ELSE "gate"]
  <2>1. At("model") /\ Emit(j, m, d) /\ spent' = spent + 1 BY <1>5 DEF ModelAnswers
  <2>2. /\ d.pc \in {"evaluate", "gate"} /\ d.used = drv.used + 1
        /\ d.outcome = drv.outcome /\ d.resumed = drv.resumed
    BY <1>1 DEF DriverType
  <2>3. SameBill(journal, j) BY <1>1 DEF AssistantCommitted, JournalType, SameBill
  <2>4. drv.outcome = "none" BY <2>1 DEF Shaped, At, Over
  <2> HIDE DEF d, j, m
  <2>5. ASSUME Live PROVE Pays(journal, d, state, spent + 1, opens = 1)
    <3>1. /\ Base(journal) + drv.used <= spent /\ drv.used < journal.limit
          /\ Base(journal) \in Nat
          /\ opens = 1 => Base(journal) + drv.used = spent
          /\ opens = 1 /\ state = "Suspended" => journal.susp.used = journal.last
      BY <1>1, <1>3, <2>1, <2>4, <2>5 DEF Pays, Paying, Exact, At, Base
    <3>2. /\ Base(journal) + d.used <= spent + 1 /\ d.used <= journal.limit
          /\ opens = 1 => Base(journal) + d.used = spent + 1
      BY <1>1, <2>2, <3>1
    <3> QED BY <2>2, <2>4, <3>1, <3>2 DEF Pays, Paying, Exact, Over
  <2>6. Live => Pays(j, d, state, spent + 1, opens = 1) BY <2>3, <2>5, SameBillPays
  <2>7. Within(journal, spent + 1) BY <1>1, WithinMore DEF Accounts
  <2>8. Within(j, spent + 1) BY <2>3, <2>7, SameBillPays
  <2> QED BY <1>1, <2>1, <2>6, <2>8, EmitAccounts
<1>6. CASE CandidateInvalid
  <2> DEFINE j == UserMessage(journal)
  <2>1. PICK fatal \in BOOLEAN :
          Emit(j, [mem EXCEPT !.tail = "user", !.inject = {}],
               [drv EXCEPT !.pc = "ended", !.fatal = fatal])
    BY <1>6 DEF CandidateInvalid
  <2> DEFINE d == [drv EXCEPT !.pc = "ended", !.fatal = fatal]
  <2>2. /\ d.pc = "ended" /\ d.used = drv.used /\ d.outcome = drv.outcome
        /\ d.resumed = drv.resumed
    BY <1>1 DEF DriverType
  <2>3. SameBill(journal, j) BY <1>1 DEF UserMessage, JournalType, SameBill
  <2>4. drv.outcome = "none" /\ ~At("none") /\ drv.pc \notin Over /\ UNCHANGED spent
    BY <1>6 DEF CandidateInvalid, Shaped, At, Over
  <2> HIDE DEF d, j
  <2>5. Emit(j, [mem EXCEPT !.tail = "user", !.inject = {}], d) BY <2>1 DEF d
  <2> QED BY <2>2, <2>3, <2>4, <2>5, SameBillAccounts
<1>7. CASE StartTool
  <2>1. PICK c \in drv.todo :
          Emit(ToolStarted(journal, c), [mem EXCEPT !.started = @ \cup {c}],
               [drv EXCEPT !.todo = @ \ {c}])
    BY <1>7 DEF StartTool
  <2> DEFINE j == ToolStarted(journal, c)
             m == [mem EXCEPT !.started = @ \cup {c}]
             d == [drv EXCEPT !.todo = @ \ {c}]
  <2>2. d.pc = drv.pc /\ d.used = drv.used /\ d.outcome = drv.outcome /\ d.resumed = drv.resumed
    BY <1>1 DEF DriverType
  <2>3. SameBill(journal, j) BY <1>1 DEF ToolStarted, JournalType, SameBill
  <2>4. drv.outcome = "none" /\ drv.pc = "exec" /\ ~At("none") /\ drv.pc \notin Over /\ UNCHANGED spent
    BY <1>7 DEF StartTool, Shaped, At, Over
  <2> HIDE DEF d, j, m
  <2>5. Emit(j, m, d) BY <2>1 DEF d, j, m
  <2> QED BY <2>2, <2>3, <2>4, <2>5, SameBillAccounts
<1>8. CASE CommitResult
  <2>1. drv.outcome = "none" /\ drv.pc = "results" /\ ~At("none") /\ drv.pc \notin Over /\ UNCHANGED spent
    BY <1>8 DEF CommitResult, Shaped, At, Over, Loop
  <2>2. CASE Loop("ended")
    <3> DEFINE d == [drv EXCEPT !.pc = "ended"]
    <3>1. /\ d.pc = "ended" /\ d.used = drv.used /\ d.outcome = drv.outcome
          /\ d.resumed = drv.resumed
      BY <1>1 DEF DriverType
    <3>2. drv' = d /\ UNCHANGED <<state, journal, lock, opens>>
      BY <2>2 DEF Loop, Goto, Undriven
    <3> HIDE DEF d
    <3>3. Live => Pays(journal, d, state, spent, opens = 1)
      BY <1>1, <1>3, <2>1, <3>1 DEF Pays, Paying, Exact, At, Over
    <3> QED BY <1>1, <2>1, <3>2, <3>3, QuietAccounts DEF SameDrive, Live
  <2>3. ASSUME NEW c \in mem.open,
               Emit(ToolResult(journal, c),
                    [mem EXCEPT !.open = @ \ {c}, !.tail = "tool"], drv)
        PROVE  Accounts'
    <3>1. SameBill(journal, ToolResult(journal, c))
      BY <1>1 DEF ToolResult, JournalType, SameBill
    <3> QED BY <2>1, <2>3, <3>1, SameBillAccounts
  <2> QED BY <1>8, <2>2, <2>3 DEF CommitResult
<1>9. CASE EndTurn
  <2> DEFINE j == UsageRecorded(journal, drv.used, mem.usage + Delta)
             m == [mem EXCEPT !.usage = mem.usage + Delta, !.last = drv.used]
             d == IF drv.fatal THEN [drv EXCEPT !.pc = "return", !.outcome = "Failed"]
                               ELSE [drv EXCEPT !.pc = "hook"]
  <2>1. At("ended") /\ Emit(j, m, d) /\ UNCHANGED spent BY <1>9 DEF EndTurn
  <2>2. /\ d.used = drv.used /\ d.resumed = drv.resumed
        /\ \/ d.pc = "return" /\ d.outcome = "Failed"
           \/ d.pc = "hook" /\ d.outcome = drv.outcome
    BY <1>1 DEF DriverType
  <2>3. drv.outcome = "none" BY <2>1 DEF Shaped, At, Over
  <2> HIDE DEF d, m
  <2>4. ASSUME Live PROVE Within(j, spent) /\ Pays(j, d, state, spent, opens = 1)
    <3>1. /\ j.run = journal.run /\ j.limit = journal.limit /\ j.susp = journal.susp
          /\ j.last = drv.used /\ j.usage = journal.usage + (drv.used - journal.last)
          /\ journal.run # NoRun
      BY <1>1, <1>3, <2>1, <2>4 DEF UsageRecorded, JournalType, Delta, At
    <3>2. /\ Base(journal) + drv.used <= spent /\ drv.used <= journal.limit
          /\ Base(journal) + journal.limit <= Budget
          /\ opens = 1 => Base(journal) + drv.used = spent /\ state # "Suspended"
          /\ journal.susp.kind \in Consumers =>
               Base(journal) + journal.susp.used <= spent /\ journal.susp.used <= journal.limit
      BY <1>1, <1>3, <2>1, <2>3, <2>4, <3>1, DrivenRun
      DEF Pays, Paying, Exact, Within, At, Live, Attached, Busy
    <3> HIDE DEF j
    <3>3. /\ Base(j) = Base(journal) /\ j.usage = Base(journal) + drv.used
          /\ Base(journal) \in Int /\ Budget \in Nat
      BY <1>1, <3>1, SessionAssumption DEF Base
    <3>4. Within(j, spent) BY <1>1, <3>1, <3>2, <3>3 DEF Within
    <3>5. Pays(j, d, state, spent, opens = 1)
      BY <2>2, <2>3, <3>1, <3>2, <3>3 DEF Pays, Paying, Exact, Over
    <3> QED BY <3>4, <3>5
  <2>5. lock /\ state # "Faulted" => Live BY <1>2, <2>1 DEF At
  <2> HIDE DEF j
  <2> QED BY <1>1, <2>1, <2>4, <2>5, EmitAccounts
<1>10. CASE HookInjects
  <2> DEFINE j == QueueDrained(journal, Ids(Boundary))
             m == [mem EXCEPT !.queue = Without(@, Ids(Boundary)), !.inject = Boundary]
             d == [drv EXCEPT !.pc = "inject"]
  <2>1. /\ At("hook") /\ state = "Running" /\ UNCHANGED <<spent, lock, opens>>
        /\ \/ Commit(j, m, state) /\ drv' = d
           \/ AppendError(j)
    BY <1>10 DEF HookInjects, Undriven, Goto
  <2>2. d.pc = "inject" /\ d.used = drv.used /\ d.outcome = drv.outcome /\ d.resumed = drv.resumed
    BY <1>1 DEF DriverType
  <2>3. SameBill(journal, j) BY <1>1 DEF QueueDrained, JournalType, SameBill
  <2> HIDE DEF d, j, m
  <2>4. Live => Pays(journal, d, state, spent, opens = 1)
    BY <1>1, <1>3, <2>1, <2>2 DEF Pays, Paying, Exact, At, Over
  <2>5. lock => Within(j, spent) /\ Pays(j, d, state, spent, opens = 1)
    BY <2>1, <2>3, <2>4, SameBillPays DEF Live, Attached, Busy, Accounts
  <2>6. Commit(j, m, "Running") \/ AppendError(j) BY <2>1
  <2>7. state' = "Running" => drv' = d BY <2>1 DEF AppendError
  <2> QED BY <2>1, <2>5, <2>6, <2>7, BatchAccounts
<1>11. CASE InjectMessages
  <2> DEFINE j == InputsApplied(journal, mem.inject)
             m == [mem EXCEPT !.applied = Into(@, Ids(mem.inject), mem.run),
                              !.tail = "user", !.inject = {}]
             d == [drv EXCEPT !.pc = "turn"]
  <2>1. At("inject") /\ Emit(j, m, d) /\ UNCHANGED spent BY <1>11 DEF InjectMessages
  <2>2. d.pc = "turn" /\ d.used = drv.used /\ d.outcome = drv.outcome /\ d.resumed = drv.resumed
    BY <1>1 DEF DriverType
  <2>3. SameBill(journal, j) BY <1>1 DEF InputsApplied, JournalType, SameBill
  <2>4. drv.outcome = "none" /\ ~At("none") /\ drv.pc \notin Over
    BY <2>1 DEF Shaped, At, Over
  <2> HIDE DEF d, j, m
  <2> QED BY <2>1, <2>2, <2>3, <2>4, SameBillAccounts
<1>12. CASE CompleteRun
  <2> DEFINE j == RunCompleted(journal)
             d == [drv EXCEPT !.pc = "return", !.outcome = "Completed"]
  <2>1. At("complete") /\ Emit(j, mem, d) /\ UNCHANGED spent BY <1>12 DEF CompleteRun
  <2>2. d.pc = "return" /\ d.used = drv.used /\ d.outcome = "Completed" /\ d.resumed = drv.resumed
    BY <1>1 DEF DriverType
  <2>3. SameBill(journal, j) BY <1>1 DEF RunCompleted, JournalType, SameBill
  <2>4. drv.outcome = "none" /\ ~At("none") /\ drv.pc \notin Over
    BY <2>1 DEF Shaped, At, Over
  <2> HIDE DEF d, j
  <2> QED BY <2>1, <2>2, <2>3, <2>4, SameBillAccounts
<1>13. CASE SuspendRun
  <2> DEFINE susp == [kind |-> drv.kind, id |-> journal.susps + 1, used |-> drv.used]
             j == RunSuspended(journal, susp)
             m == [mem EXCEPT !.susp = susp]
             d == [drv EXCEPT !.pc = "return", !.outcome = "Suspended"]
  <2>1. At("suspend") /\ Emit(j, m, d) /\ UNCHANGED spent BY <1>13 DEF SuspendRun
  <2>2. d.pc = "return" /\ d.used = drv.used /\ d.outcome = "Suspended" /\ d.resumed = drv.resumed
    BY <1>1 DEF DriverType
  <2>3. /\ j.run = journal.run /\ j.limit = journal.limit /\ j.last = journal.last
        /\ j.usage = journal.usage /\ j.susp.used = drv.used
    BY <1>1 DEF RunSuspended, JournalType
  <2>4. drv.outcome = "none" BY <2>1 DEF Shaped, At, Over
  <2>5. lock /\ state # "Faulted" => Live BY <1>2, <2>1 DEF At
  <2>6. Live => state # "Suspended" BY <2>1, DrivenRun DEF Live, Attached, Busy, At
  <2> HIDE DEF d, j, m, susp
  <2>7. Live => Within(j, spent)
    BY <1>1, <1>3, <2>1, <2>3 DEF Within, Pays, Paying, Base, At
  <2>8. Live => Pays(j, d, state, spent, opens = 1)
    BY <1>1, <1>3, <2>1, <2>2, <2>3, <2>4, <2>6 DEF Pays, Paying, Exact, Base, At, Over
  <2> QED BY <1>1, <2>1, <2>5, <2>7, <2>8, EmitAccounts
<1> QED
  BY <1>4, <1>5, <1>6, <1>7, <1>8, <1>9, <1>10, <1>11, <1>12, <1>13

\* Steps of the drive keep the bill.
LEMMA DriverAccounts ==
  ASSUME TypeInv, Coherent, Faithful, Shaped, Accounts, Driver
  PROVE  Accounts'
BY QuietStepsAccounts, EventStepsAccounts DEF Driver

\* What the batch of finishInterrupt leaves in the journal.
LEMMA InterruptedFields ==
  ASSUME NEW m, JournalOK(journal), MemOK(m), NEW used \in Nat, used >= m.last,
         m.usage = journal.usage
  PROVE  LET k == InterruptBatch(m, used)
         IN /\ k.run = NoRun /\ k.susp = NoSuspension /\ k.completed = journal.completed
            /\ k.usage = journal.usage + (used - m.last)
            /\ k.queue = Without(journal.queue, RunScopedIds(m.queue))
            /\ k.drained = Without(journal.drained, RunScopedIds(m.queue))
            /\ k.open = {} /\ k.starts = journal.starts /\ k.abandoned = journal.abandoned
            /\ k.calls = journal.calls
<1> DEFINE f == FrontierClosed(journal)
           cancels == RunScopedIds(m.queue)
<1>1. m \in MemType /\ journal \in JournalType BY DEF MemOK, JournalOK
<1>2. cancels \in SUBSET Inputs BY <1>1, IdsAreInputs DEF MemType, RunScopedIds, OfKind, Ids
<1>3. /\ SamePlaces(journal, f) /\ SameRun(journal, f) /\ f.open = {}
      /\ f.starts = journal.starts /\ f.abandoned = journal.abandoned
      /\ f.calls = journal.calls
  BY <1>1, RepairFields
<1>4. JournalOK(f)
  <2>1. f \in JournalType BY <1>1, FrontierClosedType
  <2>2. f.run = journal.run /\ f.last = journal.last /\ f.usage = journal.usage
    BY <1>3 DEF SameRun
  <2> QED BY <2>1, <2>2, CountersKept
<1>5. m.usage = f.usage BY <1>3 DEF SameRun
<1> HIDE DEF f, cancels
<1> DEFINE k == RunClosed(QueueCancelled(Charged(f, m, used), cancels), "Interrupted")
<1>6. /\ k.run = NoRun /\ k.susp = NoSuspension /\ k.usage = m.usage + (used - m.last)
      /\ k.queue = Without(f.queue, cancels) /\ k.drained = Without(f.drained, cancels)
      /\ k.completed = f.completed /\ SameFrontier(f, k)
  BY <1>2, <1>4, <1>5, ClosedFields
<1>7. k = InterruptBatch(m, used) BY DEF InterruptBatch, f, cancels
<1> HIDE DEF k
<1> QED BY <1>3, <1>6, <1>7 DEF SamePlaces, SameRun, SameFrontier, cancels

\* A finish leaves no driver, and a session that is charged what it received.
LEMMA EndAccounts ==
  ASSUME TypeInv, Accounts, NEW j, NEW m, NEW st \in {"Idle", "Suspended"}, NEW d,
         Commit(j, m, st) \/ AppendError(j), UNCHANGED <<lock, spent, opens>>, drv' = d,
         lock => /\ d.pc = "none" /\ d.outcome = "none" /\ Within(j, spent)
                 /\ opens = 1 => /\ j.usage = spent
                                 /\ st = "Suspended" => j.susp.used = j.last
  PROVE  Accounts'
<1>1. lock => Pays(j, d, st, spent, opens = 1) BY DEF Pays, Exact, Over
<1> QED BY <1>1, BatchAccounts

\* A settled run stays within its budget.
LEMMA ClosedWithin ==
  ASSUME TypeInv, Within(journal, spent), journal.run # NoRun, NEW used \in Nat,
         used <= journal.limit, Base(journal) + used <= spent,
         NEW k, k.run = NoRun, k.susp = NoSuspension,
         k.usage = journal.usage + (used - journal.last)
  PROVE  Within(k, spent) /\ k.usage = Base(journal) + used
<1>1. /\ journal.usage \in Nat /\ journal.last \in Nat /\ journal.limit \in Nat
      /\ spent \in Nat /\ Budget \in Nat
  BY CounterTypes, SessionAssumption
<1>2. k.usage = Base(journal) + used /\ k.usage <= Budget BY <1>1 DEF Within, Base
<1> QED BY <1>2 DEF Within, NoSuspension, Consumers

\* A run that settles with the usage of its result is charged what it received.
LEMMA SettledBill ==
  ASSUME TypeInv, Coherent, Faithful, Shaped, Accounts, Live, drv.pc \in Over,
         Used(mem) >= mem.last, NEW k, k.run = NoRun, k.susp = NoSuspension,
         k.usage = journal.usage + (Used(mem) - mem.last)
  PROVE  Within(k, spent) /\ (opens = 1 => k.usage = spent)
<1>1. /\ journal.usage \in Nat /\ journal.last \in Nat /\ journal.limit \in Nat
      /\ spent \in Nat /\ drv.used \in Nat /\ Used(mem) \in Nat
  BY CounterTypes, UsedType
<1>2. /\ mem.last = journal.last /\ journal.run # NoRun /\ Within(journal, spent)
      /\ Pays(journal, drv, state, spent, opens = 1) /\ drv.pc # "none"
  BY LiveCounters DEF Accounts, At, Over
<1>3. Used(mem) = journal.last \/ Used(mem) = drv.used BY <1>2 DEF Used
<1>4. Used(mem) <= journal.limit /\ Base(journal) + Used(mem) <= spent
  BY <1>1, <1>2, <1>3 DEF Within, Base, Pays, Paying
<1>5. Within(k, spent) /\ k.usage = Base(journal) + Used(mem)
  BY <1>1, <1>2, <1>4, ClosedWithin
<1>6. opens = 1 => Base(journal) + Used(mem) = spent
  BY <1>1, <1>2 DEF Pays, Exact, Base, Used, NoResult
<1> QED BY <1>5, <1>6

\* Settling a run keeps the bill.
LEMMA FinishAccounts ==
  ASSUME TypeInv, Coherent, Faithful, Shaped, Accounts, Finish
  PROVE  Accounts'
<1>1. ~At("none") /\ drv.pc \in Over /\ UNCHANGED <<lock, spent, opens>>
  BY DEF Finish, FinishFaulted, FinishInterrupted, FinishBounced, FinishUnusable,
         FinishSuspended, FinishClosed, SettleInterrupt, Settling, Loop, Undriven, At, Over
<1>2. /\ journal.usage \in Nat /\ journal.last \in Nat /\ journal.limit \in Nat
      /\ drv.used \in Nat /\ spent \in Nat /\ opens \in Nat /\ JournalOK(journal) /\ MemOK(mem)
      /\ journal \in JournalType /\ mem \in MemType /\ drv \in DriverType
  BY CounterTypes
<1>3. lock /\ state # "Faulted" => Live BY <1>1, DrivenRun DEF Live, Attached
<1>4. Live => /\ mem.last = journal.last /\ mem.usage = journal.usage /\ journal.run # NoRun
              /\ Within(journal, spent) /\ Pays(journal, drv, state, spent, opens = 1)
  BY <1>1, LiveCounters DEF Accounts
<1>5. NoDriver.pc = "none" /\ NoDriver.outcome = "none" BY DEF NoDriver
<1>6. PersistFault => Accounts'
  <2>1. Within(FaultRecorded(journal), spent)
    <3>1. SameBill(journal, FaultRecorded(journal))
      BY <1>2 DEF FaultRecorded, JournalType, SameBill
    <3> QED BY <3>1, SameBillPays DEF Accounts
  <2>2. ASSUME PersistFault PROVE Accounts'
    <3>1. journal' \in {journal, FaultRecorded(journal)} /\ ~Live'
      BY <2>2 DEF PersistFault, Live, Attached, Busy
    <3> QED BY <1>1, <2>1, <3>1 DEF Accounts, Within, Base
  <2> QED BY <2>2
<1>7. NothingToInterrupt /\ Finished => Accounts'
  <2> SUFFICES ASSUME NothingToInterrupt PROVE Accounts'
    OBVIOUS
  <2>1. UNCHANGED <<state, journal>> /\ ~Live
    BY <1>4, LiveCounters DEF NothingToInterrupt, Live, Attached, Busy
  <2> QED BY <1>1, <2>1 DEF Accounts, Within, Base, Live
<1>8. CASE FinishFaulted
  BY <1>1, <1>8 DEF FinishFaulted, Accounts, Within, Base, Live, Attached, Busy
<1>9. CASE FinishInterrupted
  <2>1. /\ drv'.pc = "settle" /\ drv'.used = drv.used /\ drv'.outcome = drv.outcome
        /\ drv'.resumed = drv.resumed /\ At("return") /\ UNCHANGED <<state, journal>>
    BY <1>2, <1>9 DEF FinishInterrupted, Loop, Goto, DriverType
  <2>2. ASSUME Live PROVE Pays(journal, drv', state, spent, opens = 1)
    BY <1>4, <2>1, <2>2 DEF Pays, Paying, Exact, At, Over
  <2> QED BY <1>1, <2>1, <2>2 DEF Accounts, Within, Base, Live, Pays, Paying, Exact
<1>10. CASE FinishBounced
  <2>1. /\ state' = "Suspended" /\ drv' = NoDriver /\ UNCHANGED journal
        /\ drv.outcome = "Rejected" /\ state # "Faulted"
    BY <1>10 DEF FinishBounced, Settling, Bounced, Finished
  <2>2. lock => Pays(journal, NoDriver, "Suspended", spent, opens = 1)
    BY <1>3, <1>4, <1>5, <2>1 DEF Pays, Exact, Over
  <2>3. Pays(journal, NoDriver, "Suspended", spent, opens = 1)'
          <=> Pays(journal, NoDriver, "Suspended", spent, opens = 1)
    BY <1>1, <2>1 DEF Pays, Paying, Exact, Base
  <2> QED BY <1>1, <2>1, <2>2, <2>3 DEF Accounts, Within, Base, Live, Attached
<1>11. CASE FinishUnusable BY <1>6, <1>11 DEF FinishUnusable
<1>12. CASE FinishSuspended
  <2> DEFINE session == mem.usage + (drv.used - mem.last)
             j == UsageRecorded(journal, drv.used, session)
             m == [mem EXCEPT !.usage = session, !.last = drv.used, !.resuming = FALSE]
  <2>1. /\ state # "Faulted" /\ drv.used >= mem.last /\ drv.outcome = "Suspended"
        /\ drv' = NoDriver
    BY <1>12 DEF FinishSuspended, Settling, Finished
  <2>2. CASE drv.used = mem.last
    <3>1. state' = "Suspended" /\ UNCHANGED journal BY <1>12, <2>2 DEF FinishSuspended
    <3>2. lock => Pays(journal, NoDriver, "Suspended", spent, opens = 1)
      BY <1>1, <1>2, <1>3, <1>4, <1>5, <2>1, <2>2 DEF Pays, Exact, Over, Base, At
    <3>3. Pays(journal, NoDriver, "Suspended", spent, opens = 1)'
            <=> Pays(journal, NoDriver, "Suspended", spent, opens = 1)
      BY <1>1, <3>1 DEF Pays, Paying, Exact, Base
    <3> QED BY <1>1, <2>1, <3>1, <3>2, <3>3 DEF Accounts, Within, Base, Live, Attached
  <2>3. CASE drv.used # mem.last
    <3>1. Commit(j, m, "Suspended") \/ AppendError(j)
      BY <1>12, <2>3 DEF FinishSuspended, Charged, Commit
    <3>2. lock => /\ j.run = journal.run /\ j.limit = journal.limit /\ j.susp = journal.susp
                  /\ j.last = drv.used /\ j.usage = journal.usage + (drv.used - journal.last)
      BY <1>2, <1>3, <1>4, <2>1 DEF UsageRecorded, JournalType
    <3> HIDE DEF j, m
    <3>3. lock => Within(j, spent)
      BY <1>1, <1>2, <1>3, <1>4, <2>1, <3>2, SessionAssumption
      DEF Within, Base, Pays, Paying, At
    <3>4. lock => (opens = 1 => j.usage = spent /\ j.susp.used = j.last)
      BY <1>1, <1>2, <1>3, <1>4, <2>1, <3>2 DEF Pays, Exact, Base, At
    <3> QED BY <1>1, <1>5, <2>1, <3>1, <3>3, <3>4, EndAccounts
  <2> QED BY <2>2, <2>3
<1>13. CASE FinishClosed
  <2> DEFINE status  == IF drv.outcome = "Completed" THEN "Completed" ELSE "Failed"
             cancels == IF status = "Completed" THEN {} ELSE RunScopedIds(mem.queue)
             j == RunClosed(QueueCancelled(Charged(journal, mem, Used(mem)), cancels), status)
             m == [Detached(mem) EXCEPT !.usage = @ + (Used(mem) - mem.last),
                                        !.queue = Without(@, cancels)]
  <2>1. /\ state # "Faulted" /\ Used(mem) >= mem.last /\ Used(mem) \in Nat
        /\ Commit(j, m, "Idle") \/ AppendError(j)
        /\ drv' = NoDriver
    BY <1>13, UsedType DEF FinishClosed, Settling, Finished
  <2>2. cancels \in SUBSET Inputs
    BY <1>2, IdsAreInputs DEF MemType, RunScopedIds, OfKind, Ids
  <2> HIDE DEF status, cancels, m
  <2>3. lock => /\ j.run = NoRun /\ j.susp = NoSuspension
                /\ j.usage = journal.usage + (Used(mem) - mem.last)
    BY <1>2, <1>3, <1>4, <2>1, <2>2, ClosedFields
  <2> HIDE DEF j
  <2>4. lock => Within(j, spent) /\ (opens = 1 => j.usage = spent)
    BY <1>1, <1>3, <2>1, <2>3, SettledBill
  <2> QED BY <1>1, <1>5, <2>1, <2>4, EndAccounts
<1>14. CASE SettleInterrupt
  <2>0. drv' = NoDriver BY <1>14 DEF SettleInterrupt, Finished
  <2>1. CASE NothingToInterrupt BY <1>7, <2>0, <2>1 DEF Finished
  <2>2. CASE Used(mem) >= mem.last /\ FinishInterrupt(Used(mem))
    <3> DEFINE j == InterruptBatch(mem, Used(mem))
               m == AfterInterrupt(mem, Used(mem))
    <3>1. /\ state # "Faulted" /\ Used(mem) \in Nat
          /\ Commit(j, m, "Idle") \/ AppendError(j)
      BY <2>2, UsedType DEF FinishInterrupt
    <3>2. lock => /\ j.run = NoRun /\ j.susp = NoSuspension
                  /\ j.usage = journal.usage + (Used(mem) - mem.last)
      BY <1>2, <1>3, <1>4, <2>2, <3>1, InterruptedFields
    <3> HIDE DEF m, j
    <3>3. lock => Within(j, spent) /\ (opens = 1 => j.usage = spent)
      BY <1>1, <1>3, <2>2, <3>1, <3>2, SettledBill
    <3> QED BY <1>1, <1>5, <2>0, <3>1, <3>3, EndAccounts
  <2>3. CASE PersistFault BY <1>6, <2>3
  <2> QED BY <1>14, <2>1, <2>2, <2>3 DEF SettleInterrupt
<1>15. QED BY <1>8, <1>9, <1>10, <1>11, <1>12, <1>13, <1>14 DEF Finish

\* So does settling an interrupted suspension.
LEMMA SettleSuspendedAccounts ==
  ASSUME TypeInv, Coherent, Faithful, Shaped, Accounts, SettleSuspended
  PROVE  Accounts'
<1>1. /\ settler /\ UNCHANGED <<drv, lock, spent, opens>> /\ state # "Down"
      /\ JournalOK(journal) /\ MemOK(mem) /\ mem.last \in Nat /\ journal.usage \in Nat
  BY CounterTypes DEF SettleSuspended, Coherent, GoneIsQuiet
<1>2. CASE NothingToInterrupt
  BY <1>1, <1>2 DEF NothingToInterrupt, Accounts, Within, Base, Live, Pays, Paying, Exact
<1>3. CASE FinishInterrupt(mem.last)
  <2> DEFINE j == InterruptBatch(mem, mem.last)
             m == AfterInterrupt(mem, mem.last)
  <2>1. /\ Commit(j, m, "Idle") \/ AppendError(j)
        /\ state # "Faulted"
    BY <1>3 DEF FinishInterrupt
  <2>2. lock => Live
    BY <1>1, <2>1 DEF Live, Coherent, ClosedIsUnlocked, TypeInv, States, Attached, Busy
  <2>3. Live => drv.pc = "none" /\ drv.outcome = "none"
    BY <1>1 DEF Live, Coherent, LiveRun, Shaped, Over
  <2>4. Live => mem.usage = journal.usage BY LiveCounters
  <2>5. lock => j.run = NoRun /\ j.susp = NoSuspension /\ j.usage = journal.usage
    BY <1>1, <2>2, <2>4, InterruptedFields
  <2>6. lock => (opens = 1 => journal.usage = spent)
    BY <2>2, <2>3, LiveCounters DEF Pays, Exact
  <2> HIDE DEF m, j
  <2>7. lock => Within(j, spent) BY <2>5 DEF Accounts, Within, NoSuspension, Consumers
  <2> QED BY <1>1, <2>1, <2>2, <2>3, <2>5, <2>6, <2>7, EndAccounts
<1> QED BY <1>2, <1>3 DEF SettleSuspended

\* A run that opens is given what is left of the budget.
LEMMA OpenedPays ==
  ASSUME TypeInv, Within(journal, spent), ~BudgetExhausted(journal.usage),
         NEW k, k.usage = journal.usage, k.last = 0, k.limit = Remaining(journal.usage),
         k.susp = NoSuspension, NEW d, d.used = 0, d.outcome = "none", NEW first,
         first => d.pc = "start" /\ journal.usage = spent, d.pc \in {"start", "launch"}
  PROVE  Within(k, spent) /\ Pays(k, d, "Running", spent, first)
<1>1. journal.usage \in Nat /\ spent \in Nat /\ Budget \in Nat /\ k.limit \in Nat
  BY CounterTypes, SessionAssumption, RemainingType
<1>2. Base(k) = journal.usage /\ Base(k) + k.limit = Budget BY <1>1 DEF Base, Remaining
<1>3. Within(k, spent) BY <1>1, <1>2 DEF Within, NoSuspension, Consumers
<1>4. Paying(k, d, spent) BY <1>1, <1>2 DEF Paying, Within
<1>5. first => Exact(k, d, "Running", spent) BY <1>1, <1>2 DEF Exact, Over
<1> QED BY <1>3, <1>4, <1>5 DEF Pays

\* Client calls keep the bill.
LEMMA ClientAccounts ==
  ASSUME TypeInv, Coherent, Faithful, Shaped, Accounts, Client
  PROVE  Accounts'
<1>1. /\ journal.usage \in Nat /\ journal.last \in Nat /\ journal.limit \in Nat
      /\ spent \in Nat /\ opens \in Nat /\ JournalOK(journal) /\ MemOK(mem)
      /\ journal \in JournalType /\ mem \in MemType /\ drv \in DriverType
  BY CounterTypes
<1>2. Live => /\ mem.usage = journal.usage /\ mem.run = journal.run /\ Within(journal, spent)
              /\ mem.susp # NoSuspension => mem.susp = journal.susp
              /\ Pays(journal, drv, state, spent, opens = 1)
              /\ state \in {"Idle", "Suspended"} => drv.pc = "none"
  BY LiveCounters DEF Accounts, Coherent, LiveRun, Live
<1>3. /\ NoDriver.used = 0 /\ NoDriver.outcome = "none" /\ ~NoDriver.resumed
      /\ [NoDriver EXCEPT !.pc = "start"].pc = "start"
      /\ [NoDriver EXCEPT !.pc = "start"].used = 0
      /\ [NoDriver EXCEPT !.pc = "start"].outcome = "none"
  BY DEF NoDriver
<1>4. CASE Start
  <2> DEFINE run    == journal.runs + 1
             limit  == Remaining(mem.usage)
             next   == OfKind(mem.queue, {"next_turn"})
             j      == UserMessage(InputsApplied(QueueDrained(RunOpened(journal, run, limit),
                                                              Ids(next)), next))
             m      == [NewRun(mem, run, limit) EXCEPT
                          !.queue = Without(@, Ids(next)), !.tail = "user",
                          !.applied = Into(@, Ids(next), run)]
             d      == [NoDriver EXCEPT !.pc = "start"]
  <2>1. /\ state = "Idle" /\ ~BudgetExhausted(mem.usage) /\ UNCHANGED <<lock, spent, opens>>
        /\ \/ Commit(j, m, "Running") /\ drv' = d
           \/ AppendError(j)
    BY <1>4 DEF Start, Unclient
  <2>2. /\ j.usage = journal.usage /\ j.last = 0 /\ j.limit = Remaining(mem.usage)
        /\ j.susp = NoSuspension
    BY <1>1 DEF UserMessage, InputsApplied, QueueDrained, RunOpened, JournalType
  <2> HIDE DEF j, m, d
  <2>3. lock => Within(j, spent) /\ Pays(j, d, "Running", spent, opens = 1)
    <3>1. lock => Live /\ journal.usage = mem.usage /\ (opens = 1 => journal.usage = spent)
      BY <1>2, <2>1 DEF Live, Attached, Pays, Exact
    <3>2. d.pc = "start" /\ d.used = 0 /\ d.outcome = "none" BY <1>3 DEF d
    <3> SUFFICES ASSUME lock PROVE Within(j, spent) /\ Pays(j, d, "Running", spent, opens = 1)
      OBVIOUS
    <3>3. /\ Within(journal, spent) /\ ~BudgetExhausted(journal.usage)
          /\ j.limit = Remaining(journal.usage) /\ d.pc \in {"start", "launch"}
      BY <1>2, <2>1, <2>2, <3>1, <3>2
    <3> QED BY <2>2, <3>1, <3>2, <3>3, OpenedPays
  <2>4. state' = "Running" => drv' = d BY <2>1 DEF AppendError
  <2> QED BY <2>1, <2>3, <2>4, BatchAccounts
<1>5. ASSUME NEW id \in Inputs, NEW kind \in QueueKinds, NEW target \in 0..MaxRuns,
             Accept(id, kind, target)
      PROVE  Accounts'
  <2> DEFINE entry == [id |-> id, kind |-> kind, at |-> Len(journal.accepted) + 1]
             j == QueueAccepted(journal, entry, target)
             m == [mem EXCEPT !.queue = @ \cup {entry}]
  <2>1. /\ Commit(j, m, state) \/ AppendError(j)
        /\ state \in Attached /\ UNCHANGED <<lock, spent, opens, drv>>
    BY <1>5 DEF Accept, Acceptable, Unclient
  <2>2. SameBill(journal, j) BY <1>1 DEF QueueAccepted, JournalType, SameBill
  <2> HIDE DEF j, m
  <2>3. lock => Within(j, spent) /\ Pays(j, drv, state, spent, opens = 1)
    BY <1>2, <2>1, <2>2, SameBillPays DEF Live
  <2>4. state # "Faulted" BY <2>1 DEF Attached, Busy
  <2> QED BY <2>1, <2>3, <2>4, BatchAccounts
<1>6. ASSUME NEW target \in 0..MaxRuns, Interrupt(target)
      PROVE  Accounts'
  <2> DEFINE j == InterruptAccepted(journal, target)
  <2>1. /\ state \in Attached /\ UNCHANGED <<lock, spent, opens, drv>>
        /\ \/ AppendError(j)
           \/ Commit(j, mem, "Interrupting")
           \/ state' = "Interrupting" /\ UNCHANGED <<mem, journal>>
    BY <1>6 DEF Interrupt, Attached, Busy
  <2>2. SameBill(journal, j) BY <1>1 DEF InterruptAccepted, JournalType, SameBill
  <2> HIDE DEF j
  <2>3. Live => Pays(journal, drv, "Interrupting", spent, opens = 1) BY <1>2 DEF Pays, Exact
  <2>4. lock => Within(j, spent) /\ Pays(j, drv, "Interrupting", spent, opens = 1)
    BY <1>2, <2>1, <2>2, <2>3, SameBillPays DEF Live
  <2>5. CASE AppendError(j) \/ Commit(j, mem, "Interrupting")
    BY <2>1, <2>4, <2>5, BatchAccounts
  <2>6. CASE state' = "Interrupting" /\ UNCHANGED <<mem, journal>>
    BY <1>1, <2>1, <2>3, <2>6, QuietAccounts DEF SameDrive, Live, Attached, Busy
  <2> QED BY <2>1, <2>5, <2>6
<1>7. ASSUME NEW id, NEW approved, Resume(id, approved)
      PROVE  Accounts'
  <2> DEFINE m == [mem EXCEPT !.resuming = TRUE, !.seen = FALSE]
             d == [NoDriver EXCEPT !.pc = "resolve", !.todo = approved,
                     !.used = mem.susp.used, !.resumed = TRUE, !.kind = mem.susp.kind]
  <2>1. /\ state = "Suspended" /\ mem.run # NoRun /\ mem.susp.kind \in Consumers
        /\ UNCHANGED <<lock, spent, opens>>
        /\ \/ Commit(journal, m, "Running") /\ drv' = d
           \/ AppendError(journal)
    BY <1>7 DEF Resume, Resumable, Unclient, Consumers
  <2>2. d.pc = "resolve" /\ d.used = mem.susp.used /\ d.outcome = "none" /\ d.resumed
    BY DEF NoDriver
  <2>3. Live => mem.susp = journal.susp BY <1>2, <2>1 DEF NoSuspension, Consumers
  <2> HIDE DEF m, d
  <2>4. lock => Within(journal, spent) /\ Pays(journal, d, "Running", spent, opens = 1)
    BY <1>1, <1>2, <2>1, <2>2, <2>3
    DEF Live, Attached, Pays, Paying, Exact, Within, Base, Over
  <2>5. state' = "Running" => drv' = d BY <2>1 DEF AppendError
  <2> QED BY <2>1, <2>4, <2>5, BatchAccounts
<1>8. ASSUME NEW id, ResumeIndeterminate(id)
      PROVE  Accounts'
  <2> DEFINE run    == journal.runs + 1
             limit  == Remaining(mem.usage)
             closed == RunClosed(journal, "Interrupted")
             paired == FrontierClosed(closed)
             j      == RunOpened(paired, run, limit)
             m      == [NewRun(mem, run, limit) EXCEPT
                          !.open = {}, !.tail = IF mem.open = {} THEN @ ELSE "tool",
                          !.susp = NoSuspension]
             d      == [NoDriver EXCEPT !.pc = "start"]
  <2>1. /\ state = "Suspended" /\ ~BudgetExhausted(mem.usage)
        /\ UNCHANGED <<lock, spent, opens>>
        /\ \/ Commit(j, m, "Running") /\ drv' = d
           \/ AppendError(j)
    BY <1>8 DEF ResumeIndeterminate, Resumable, Unclient
  <2>2. closed \in JournalType /\ paired \in JournalType
    BY <1>1, RunClosedType, FrontierClosedType
  <2>3. closed.usage = journal.usage BY <1>1, RunClosedFields
  <2>4. paired.usage = closed.usage BY <2>2, RepairFields DEF SameRun
  <2> HIDE DEF closed, paired, m, d, run
  <2>5. /\ j.usage = journal.usage /\ j.last = 0 /\ j.limit = Remaining(mem.usage)
        /\ j.susp = NoSuspension
    BY <2>2, <2>3, <2>4 DEF RunOpened, JournalType
  <2> HIDE DEF j
  <2>6. lock => Within(j, spent) /\ Pays(j, d, "Running", spent, opens = 1)
    <3>1. lock => Live /\ journal.usage = mem.usage /\ (opens = 1 => journal.usage = spent)
      BY <1>2, <2>1 DEF Live, Attached, Pays, Exact
    <3>2. d.pc = "start" /\ d.used = 0 /\ d.outcome = "none" BY <1>3 DEF d
    <3> SUFFICES ASSUME lock PROVE Within(j, spent) /\ Pays(j, d, "Running", spent, opens = 1)
      OBVIOUS
    <3>3. /\ Within(journal, spent) /\ ~BudgetExhausted(journal.usage)
          /\ j.limit = Remaining(journal.usage) /\ d.pc \in {"start", "launch"}
      BY <1>2, <2>1, <2>5, <3>1, <3>2
    <3> QED BY <2>5, <3>1, <3>2, <3>3, OpenedPays
  <2>7. state' = "Running" => drv' = d BY <2>1 DEF AppendError
  <2> QED BY <2>1, <2>6, <2>7, BatchAccounts
<1>9. QED BY <1>4, <1>5, <1>6, <1>7, <1>8 DEF Client

\* A recovered handle is charged what the journal was.
LEMMA ReopenAccounts ==
  ASSUME TypeInv, Accounts, NEW j, NEW m, NEW s, NEW d, Reopen(j, m, s, d),
         Within(j, spent), d.pc # "none" => Paying(j, d, spent)
  PROVE  Accounts'
<1>1. journal' = j /\ drv' = d /\ spent' = spent /\ opens' = opens + 1 /\ opens \in Nat
  BY CounterTypes DEF Reopen
<1>2. opens' >= 1 /\ ~(opens' = 1) BY <1>1 DEF Accounts
<1>3. Within(journal, spent)' BY <1>1 DEF Within, Base
<1>4. (drv.pc # "none" => Paying(journal, drv, spent))' BY <1>1 DEF Paying, Base
<1> QED BY <1>2, <1>3, <1>4 DEF Accounts, Pays

\* Recovery keeps the bill.
LEMMA RecoverAccounts ==
  ASSUME TypeInv, Coherent, Accounts, Recover
  PROVE  Accounts'
<1>1. /\ journal.usage \in Nat /\ journal.last \in Nat /\ JournalOK(journal)
      /\ journal \in JournalType /\ Within(journal, spent)
      /\ MemOK(Folded) /\ Folded.last = journal.last /\ Folded.usage = journal.usage
      /\ Folded \in MemType
  BY CounterTypes, LoadedOK DEF Accounts, Folded, Loaded, MemOK
<1>2. NoDriver.pc = "none" BY DEF NoDriver
<1>3. ASSUME NEW j, j.usage = journal.usage, j.run = NoRun, j.susp = NoSuspension
      PROVE  Within(j, spent)
  BY <1>1, <1>3 DEF Within, NoSuspension, Consumers
<1>4. CASE RecoverInterrupted
  <2> DEFINE j == InterruptBatch(Folded, Folded.last)
  <2>1. /\ j.run = NoRun /\ j.susp = NoSuspension
        /\ j.usage = journal.usage + (Folded.last - Folded.last)
    BY <1>1, InterruptedFields
  <2>2. Reopen(j, AfterInterrupt(Folded, Folded.last), "Idle", NoDriver)
    BY <1>4 DEF RecoverInterrupted
  <2> HIDE DEF j
  <2>3. Within(j, spent) BY <1>1, <1>3, <2>1
  <2> QED BY <1>2, <2>2, <2>3, ReopenAccounts
<1>5. CASE RecoverCompleted
  <2> DEFINE j == RunClosed(journal, "Completed")
  <2>1. j.usage = journal.usage /\ j.run = NoRun /\ j.susp = NoSuspension
    BY <1>1, RunClosedFields
  <2>2. Reopen(j, Detached(Folded), "Idle", NoDriver) BY <1>5 DEF RecoverCompleted
  <2> HIDE DEF j
  <2> QED BY <1>2, <1>3, <2>1, <2>2, ReopenAccounts
<1>6. CASE RecoverIdle BY <1>1, <1>2, <1>6, ReopenAccounts DEF RecoverIdle
<1>7. CASE RecoverSuspended BY <1>1, <1>2, <1>7, ReopenAccounts DEF RecoverSuspended
<1>8. CASE RecoverInject
  <2> DEFINE j == InputsApplied(journal, journal.drained)
  <2>1. SameBill(journal, j) BY <1>1 DEF InputsApplied, JournalType, SameBill
  <2>2. journal' = j /\ UNCHANGED <<lock, spent, opens>> /\ ~lock
    BY <1>8 DEF RecoverInject, RecoverOpenRun, Recovering, Coherent, GoneIsQuiet
  <2> HIDE DEF j
  <2>3. Within(j, spent) BY <1>1, <2>1, SameBillPays
  <2> QED BY <2>2, <2>3 DEF Accounts, Within, Base, Live
<1>9. CASE RecoverIndeterminate
  <2> DEFINE susp == [kind |-> "indeterminate", id |-> journal.susps + 1, used |-> 0]
             j == RunSuspended(journal, susp)
             m == [Folded EXCEPT !.susp = susp]
  <2>1. Reopen(j, m, "Suspended", NoDriver) BY <1>9 DEF RecoverIndeterminate
  <2>2. /\ j.run = journal.run /\ j.limit = journal.limit /\ j.last = journal.last
        /\ j.usage = journal.usage /\ j.susp.kind = "indeterminate"
    BY <1>1 DEF RunSuspended, JournalType
  <2> HIDE DEF j, m, susp
  <2>3. Within(j, spent) BY <1>1, <2>2 DEF Within, Base, Consumers
  <2> QED BY <1>2, <2>1, <2>3, ReopenAccounts
<1>10. CASE RecoverContinue
  <2> DEFINE limit  == Remaining(journal.usage)
             paired == FrontierAbandoned(journal)
             j      == RunOpened(paired, journal.run, limit)
             m      == [NewRun(Folded, journal.run, limit) EXCEPT
                          !.open = {}, !.tail = IF journal.open = {} THEN @ ELSE "tool",
                          !.susp = NoSuspension]
             d      == [NoDriver EXCEPT !.pc = "launch",
                          !.next = IF m.tail = "assistant" THEN "evaluate" ELSE "turn"]
  <2>1. Reopen(j, m, "Running", d) /\ ~BudgetExhausted(journal.usage)
    BY <1>10 DEF RecoverContinue
  <2>2. paired \in JournalType BY <1>1, FrontierAbandonedType
  <2>3. paired.usage = journal.usage BY <1>1, RepairFields DEF SameRun
  <2>4. d.pc = "launch" /\ d.used = 0 /\ d.outcome = "none" BY DEF NoDriver
  <2> HIDE DEF paired, m, d
  <2>5. /\ j.usage = journal.usage /\ j.last = 0 /\ j.limit = Remaining(journal.usage)
        /\ j.susp = NoSuspension
    BY <2>2, <2>3 DEF RunOpened, JournalType
  <2> HIDE DEF j
  <2>6. Within(j, spent) /\ Pays(j, d, "Running", spent, FALSE)
    BY <1>1, <2>1, <2>4, <2>5, OpenedPays
  <2> QED BY <2>1, <2>6, ReopenAccounts DEF Pays
<1>11. QED BY <1>4, <1>5, <1>6, <1>7, <1>8, <1>9, <1>10 DEF Recover

\* Losing a handle charges nothing.
LEMMA OwnerAccounts ==
  ASSUME Accounts, Owner
  PROVE  Accounts'
BY DEF Owner, Abandon, Close, Drop, Crash, NoHandle, Accounts, Within, Base, Live, Attached, Busy

\* The session's bill adds up at every moment.
LEMMA AccountsInvariant == Spec => []Accounts
<1>1. Init => Accounts BY SessionAssumption
  DEF Init, EmptyJournal, NoDriver, Accounts, Within, Base, Pays, Exact, Over, Consumers,
      NoSuspension, NoRun
<1>2. TypeInv /\ Coherent /\ Faithful /\ Shaped /\ Accounts /\ [Next]_vars => Accounts'
  <2> SUFFICES ASSUME TypeInv, Coherent, Faithful, Shaped, Accounts, [Next]_vars
               PROVE  Accounts'
    OBVIOUS
  <2>1. CASE UNCHANGED vars
    BY <2>1 DEF vars, Accounts, Within, Base, Pays, Paying, Exact, Live
  <2>2. CASE Next
    BY <2>2, ClientAccounts, DriverAccounts, FinishAccounts, SettleSuspendedAccounts,
       OwnerAccounts, RecoverAccounts DEF Next
  <2> QED BY <2>1, <2>2
<1> QED
  BY <1>1, <1>2, TypeInvariant, CoherentInvariant, FaithfulInvariant, ShapedInvariant, PTL
  DEF Spec

\* A handle is idle only while it owns its journal.
LEMMA IdleOwns == Spec => [](state = "Idle" => lock)
<1>1. Init => (state = "Idle" => lock) BY DEF Init
<1>2. (state = "Idle" => lock) /\ [Next]_vars => (state = "Idle" => lock)'
  <2> SUFFICES ASSUME state = "Idle" => lock, [Next]_vars, state' = "Idle" PROVE lock'
    OBVIOUS
  <2>1. CASE UNCHANGED vars BY <2>1 DEF vars
  <2>2. CASE Client
    BY <2>2 DEF Client, Start, Accept, Interrupt, Resume, ResumeIndeterminate, Commit,
                AppendError, Unclient
  <2>3. CASE Driver
    BY <2>3 DEF Driver, Launch, ResumeFails, ResolveSuspended, StartRun, StartFails, BeginTurn,
                ModelAnswers, ModelFails, CandidateValid, CandidateInvalid, GateDefers,
                GateAdmits, GateFails, StartTool, ToolsReturn, HandlerDefers, CommitResult,
                EndTurn, HookRefuses, HookEnds, HookInjects, InjectMessages, CompleteRun,
                SuspendRun, Loop, Leave, Emit, Commit, AppendError, Undriven
  <2>4. CASE Finish \/ SettleSuspended
    BY <2>4 DEF Finish, FinishFaulted, FinishInterrupted, FinishBounced, FinishUnusable,
                FinishSuspended, FinishClosed, SettleInterrupt, SettleSuspended,
                NothingToInterrupt, FinishInterrupt, PersistFault, Loop, Commit, AppendError,
                Undriven
  <2>5. CASE Owner \/ Recover
    BY <2>5 DEF Owner, Abandon, Close, Drop, Crash, NoHandle, Recover, RecoverInterrupted,
                RecoverCompleted, RecoverIdle, RecoverSuspended, RecoverInject,
                RecoverIndeterminate, RecoverContinue, Reopen
  <2> QED BY <2>1, <2>2, <2>3, <2>4, <2>5 DEF Next
<1> QED BY <1>1, <1>2, PTL DEF Spec

\* Session usage counts no model response twice and stays in the budget: over
\* turns, suspensions, rejected and repeated resumptions, failures, interrupts
\* and recoveries, for any budget (UsageRecorded, chargeable deltas, Remaining).
THEOREM NeverOvercharged == Spec => []UsageNeverOvercharged
<1>1. Accounts => UsageNeverOvercharged BY DEF Accounts, Within, UsageNeverOvercharged
<1> QED BY <1>1, AccountsInvariant, PTL

\* As long as no handle was lost, every response received is charged once the
\* run that received it has settled.
THEOREM FullyCharged == Spec => []UsageFullyCharged
<1>1. Accounts /\ Coherent /\ (state = "Idle" => lock) => UsageFullyCharged
  BY DEF Accounts, Pays, Exact, Coherent, LiveRun, Live, Attached, UsageFullyCharged
<1> QED BY <1>1, AccountsInvariant, CoherentInvariant, IdleOwns, PTL

-----------------------------------------------------------------------------
(***************************************************************************)
(* The frontier.  Fresh says of a journal which calls may have started: a  *)
(* call of a frontier that can be driven or repaired is in the run's       *)
(* started set when a start of it was written.  Front says at which steps  *)
(* of the drive the frontier is empty, and at which a user message cannot  *)
(* have buried it.                                                         *)
(***************************************************************************)
Unopened == {"turn", "model", "evaluate", "ended", "hook", "inject", "complete"}

Fresh(j) ==
  /\ \A c \in Calls : j.starts[c] > 0 \/ c \in j.abandoned \/ c \in j.open => c <= j.calls
  /\ \A c \in j.abandoned : c \notin j.open /\ j.starts[c] = 0
  /\ j.run # NoRun /\ ~Buried(j) => \A c \in j.open : j.starts[c] > 0 => c \in j.started
  /\ j.state = "Suspended" /\ j.susp # NoSuspension => ~Buried(j)

Front(j, d, st) ==
  /\ d.pc \in Unopened => j.open = {}
  /\ d.pc \in {"start", "launch"} /\ d.next \in {"turn", "evaluate"} => j.open = {} \/ Buried(j)
  /\ d.pc \in {"gate", "exec", "results", "suspend", "resolve"} => ~Buried(j)
  /\ d.outcome \in {"Suspended", "Rejected"} \/ st = "Suspended" => ~Buried(j)
  /\ d.pc \in {"resolve", "exec"} => d.todo \subseteq j.open

Frontiers == Fresh(journal) /\ (Live => Front(journal, drv, state))

\* An entry that leaves the frontier alone keeps it fresh, unless it suspends a
\* run whose frontier is buried.
LEMMA FreshKept ==
  ASSUME NEW j, Fresh(j), NEW k, SameFrontier(j, k),
         k.run = NoRun \/ (k.run = j.run /\ k.started = j.started),
         \/ ~Buried(j) \/ k.state # "Suspended" \/ k.susp = NoSuspension
         \/ k.state = j.state /\ k.susp = j.susp
  PROVE  Fresh(k)
BY DEF Fresh, SameFrontier, Buried

\* What is to be driven depends on the frontier only.
LEMMA FrontKept ==
  ASSUME NEW j, NEW k, SameFrontier(j, k), NEW d, NEW st, Front(j, d, st)
  PROVE  Front(k, d, st)
BY DEF Front, SameFrontier, Buried

\* A step that appends nothing.
LEMMA QuietFrontiers ==
  ASSUME Frontiers, UNCHANGED journal, NEW d, NEW st, drv' = d, state' = st,
         Live' => Front(journal, d, st)
  PROVE  Frontiers'
BY DEF Frontiers, Fresh, Front, Buried

\* A batch of a client or of a finish.
LEMMA BatchFrontiers ==
  ASSUME Frontiers, NEW j, NEW m, NEW st, NEW d, Commit(j, m, st) \/ AppendError(j),
         UNCHANGED lock, lock => Fresh(j) /\ Front(j, d, st),
         state' = st => drv' = d, st # "Faulted"
  PROVE  Frontiers'
<1>1. Fresh(journal)' BY DEF Frontiers, Commit, AppendError, Fresh, Buried
<1>2. Live' => journal' = j /\ drv' = d /\ state' = st /\ Front(j, d, st)
  BY DEF Commit, AppendError, Live, Attached, Busy
<1>3. Live' => Front(journal, drv, state)' BY <1>2 DEF Front, Buried
<1> QED BY <1>1, <1>3 DEF Frontiers

\* An event of the drive.
LEMMA EmitFrontiers ==
  ASSUME TypeInv, Coherent, Frontiers, ~At("none"), NEW j, NEW m, NEW d, Emit(j, m, d),
         Live => Fresh(j) /\ Front(j, d, state)
  PROVE  Frontiers'
<1>1. lock /\ state # "Faulted" => Live BY DrivenRun DEF Live, Attached
<1>2. Fresh(journal)' BY <1>1 DEF Frontiers, Emit, Commit, AppendError, Fresh, Buried
<1>3. Live' => /\ journal' = j /\ drv' = d /\ state' = state
                /\ Front(j, d, state)
  BY <1>1 DEF Emit, Commit, AppendError, Live, Attached, Busy, Undriven
<1>4. Live' => Front(journal, drv, state)' BY <1>3 DEF Front, Buried
<1> QED BY <1>2, <1>4 DEF Frontiers

\* Steps of the drive that change neither handle nor journal.
LEMMA QuietStepsFrontiers ==
  ASSUME TypeInv, Coherent, Faithful, Shaped, Frontiers,
         \/ Launch \/ ResumeFails \/ ResolveSuspended \/ StartFails \/ BeginTurn \/ ModelFails
         \/ CandidateValid \/ GateDefers \/ GateAdmits \/ GateFails \/ ToolsReturn
         \/ HandlerDefers \/ HookRefuses \/ HookEnds
  PROVE  Frontiers'
<1>1. drv \in DriverType BY DEF TypeInv
<1>2. Live => mem.open = journal.open /\ Front(journal, drv, state)
  BY DEF Faithful, Mirrors, Frontiers
<1>3. /\ UNCHANGED <<journal, lock>> /\ ~At("none")
      /\ state' = state \/ (state = "Running" /\ state' = "Closing")
  BY DEF Launch, ResumeFails, ResolveSuspended, StartFails, BeginTurn, ModelFails,
         CandidateValid, GateDefers, GateAdmits, GateFails, ToolsReturn, HandlerDefers,
         HookRefuses, HookEnds, Loop, Leave, Undriven, At
<1>4. ASSUME Live => Front(journal, drv', state)
      PROVE  Frontiers'
  <2>1. Live' => Live /\ Front(journal, drv', state')
    BY <1>3, <1>4 DEF Live, Attached, Busy, Front
  <2> QED BY <1>3, <2>1, QuietFrontiers
<1>5. drv.pc \notin Over => drv.outcome = "none" BY DEF Shaped
<1>6. CASE Launch \/ ResolveSuspended \/ StartFails \/ BeginTurn
  <2>1. /\ drv'.next = drv.next /\ drv'.todo = drv.todo
        /\ \/ drv'.outcome = drv.outcome
              /\ \/ At("launch") /\ drv'.pc \in {"start", "settle", "none"}
                 \/ At("resolve") /\ drv'.pc = "exec"
                 \/ At("turn") /\ drv'.pc = "model"
           \/ drv'.pc = "return" /\ drv'.outcome \in {"Refused", "Interrupted", "Failed"}
    BY <1>1, <1>6
    DEF Launch, ResolveSuspended, StartFails, BeginTurn, Loop, Leave, Goto, Outcome, DriverType,
        At
  <2> QED BY <1>2, <1>4, <2>1 DEF Front, Unopened, At
<1>7. CASE ResumeFails
  <2>1. /\ At("resolve") /\ drv'.pc = "return"
        /\ drv'.outcome \in {"Rejected", "Failed", "Refused"}
    BY <1>1, <1>7 DEF ResumeFails, Outcome, DriverType
  <2> QED BY <1>2, <1>4, <2>1 DEF Front, Unopened, At
<1>8. CASE ModelFails \/ HookRefuses
  <2>1. drv'.pc = "return" /\ drv'.outcome \in {"Failed", "Interrupted"}
    BY <1>1, <1>8 DEF ModelFails, HookRefuses, Leave, Outcome, DriverType
  <2> QED BY <1>2, <1>4, <2>1 DEF Front, Unopened
<1>9. CASE CandidateValid \/ HookEnds
  <2>1. /\ drv'.pc \in {"ended", "complete", "turn"} /\ drv'.outcome = "none"
        /\ drv.pc \in {"evaluate", "hook"}
    BY <1>1, <1>5, <1>9 DEF CandidateValid, HookEnds, Goto, DriverType, At, Over
  <2> QED BY <1>2, <1>4, <2>1 DEF Front, Unopened
<1>10. CASE GateDefers \/ GateAdmits \/ GateFails
  <2>1. /\ drv'.pc \in {"suspend", "exec", "results"} /\ drv'.outcome = "none" /\ At("gate")
        /\ drv'.pc = "exec" => drv'.todo \subseteq mem.open
    BY <1>1, <1>5, <1>10 DEF GateDefers, GateAdmits, GateFails, DriverType, At, Over
  <2> QED BY <1>2, <1>4, <2>1 DEF Front, Unopened, At
<1>11. CASE ToolsReturn \/ HandlerDefers
  <2>1. /\ drv'.outcome = "none" /\ At("exec")
        /\ \/ drv'.pc = "start" /\ drv'.next \in {"results", "suspend"}
           \/ drv'.pc \in {"results", "suspend"}
    BY <1>1, <1>5, <1>11 DEF ToolsReturn, HandlerDefers, AfterTools, DriverType, At, Over
  <2> QED BY <1>2, <1>4, <2>1 DEF Front, Unopened, At
<1> QED
  BY <1>6, <1>7, <1>8, <1>9, <1>10, <1>11

\* The calls that a response adds are new.
LEMMA NewCalls ==
  ASSUME NEW a \in Nat, NEW n \in 0..Cardinality(Calls), (a + n) \in Calls \cup {0}
  PROVE  /\ Cardinality((a + 1)..(a + n)) = n /\ n \in Nat /\ (n = 0 => (a + 1)..(a + n) = {})
         /\ \A c \in (a + 1)..(a + n) : c \in Calls /\ c > a /\ c <= a + n
<1> DEFINE size == Cardinality(Calls)
<1>1. size \in Nat /\ Calls = 1..size BY CallsAssumption, FS_CardinalityType
<1> HIDE DEF size
<1>2. n \in Nat /\ a + 1 \in Int /\ a + n \in Int BY <1>1 DEF size
<1>3. Cardinality((a + 1)..(a + n)) = IF a + 1 > a + n THEN 0 ELSE a + n - (a + 1) + 1
  BY <1>2, FS_Interval
<1>4. Cardinality((a + 1)..(a + n)) = n BY <1>2, <1>3
<1>5. ASSUME NEW c \in (a + 1)..(a + n) PROVE c \in Calls /\ c > a /\ c <= a + n
  BY <1>1, <1>2, <1>5
<1> QED BY <1>2, <1>4, <1>5

\* Events of the drive keep the frontier.
LEMMA EventStepsFrontiers ==
  ASSUME TypeInv, Coherent, Faithful, Shaped, Frontiers,
         \/ StartRun \/ (\E n \in 0..Cardinality(Calls) : ModelAnswers(n)) \/ CandidateInvalid
         \/ StartTool \/ CommitResult \/ EndTurn \/ HookInjects \/ InjectMessages
         \/ CompleteRun \/ SuspendRun
  PROVE  Frontiers'
<1>1. drv \in DriverType /\ journal \in JournalType /\ mem \in MemType BY CounterTypes
<1>2. ~At("none") => (Live => mem.open = journal.open /\ mem.tail = journal.tail
                              /\ journal.run # NoRun
                              /\ Fresh(journal) /\ Front(journal, drv, state))
  BY DrivenMirrors DEF Live, Attached, Busy, Mirrors, Frontiers
<1>3. drv.pc \notin Over => drv.outcome = "none" BY DEF Shaped
\* events that leave the frontier alone, on the way to a step that asks no more
<1>4. ASSUME ~At("none"), NEW j, NEW m, NEW d, Emit(j, m, d), SameFrontier(journal, j),
             Live => /\ j.run = journal.run /\ j.started = journal.started
                     /\ \/ ~Buried(journal) \/ j.state # "Suspended"
                        \/ j.state = journal.state /\ j.susp = journal.susp
                     /\ Front(journal, d, state)
      PROVE  Frontiers'
  <2>1. Live => Fresh(j) /\ Front(j, d, state) BY <1>2, <1>4, FreshKept, FrontKept
  <2> QED BY <1>4, <2>1, EmitFrontiers
<1>5. CASE StartRun
  <2> DEFINE j == RunStarted(journal)
             d == [drv EXCEPT !.pc = drv.next]
  <2>1. At("start") /\ ~Buried(mem)
        /\ Emit(j, [mem EXCEPT !.seen = @ \/ mem.resuming], d)
    BY <1>5 DEF StartRun
  <2>2. d.pc = drv.next /\ d.outcome = "none" /\ d.pc \in {"turn", "evaluate", "results", "suspend"}
    BY <1>1, <1>3, <2>1 DEF DriverType, At, Over
  <2>3. /\ SameFrontier(journal, j) /\ j.run = journal.run /\ j.started = journal.started
        /\ j.susp = journal.susp
    BY <1>1 DEF RunStarted, JournalType, SameFrontier
  <2> HIDE DEF d, j
  <2>4. Live => ~Buried(journal) /\ Front(journal, d, state)
    BY <1>2, <2>1, <2>2 DEF Front, Unopened, Buried, At
  <2> QED BY <1>4, <2>1, <2>3, <2>4 DEF At
<1>6. ASSUME NEW n \in 0..Cardinality(Calls), ModelAnswers(n)
      PROVE  Frontiers'
  <2> DEFINE calls == (journal.calls + 1)..(journal.calls + n)
             j == AssistantCommitted(journal, calls)
             m == [mem EXCEPT !.open = calls, !.tail = "assistant"]
             d == [drv EXCEPT !.used = @ + 1, !.cand = FALSE, !.fatal = FALSE,
                              !.pc = IF n = 0 THEN "evaluate" ELSE "gate"]
  <2>1. /\ At("model") /\ Emit(j, m, d) /\ journal.calls \in Nat
        /\ (journal.calls + n) \in Calls \cup {0}
    <3>1. journal.calls \in Nat BY <1>1 DEF JournalType
    <3> QED BY <1>6, <3>1 DEF ModelAnswers
  <2>2. d.outcome = "none" /\ d.pc = (IF n = 0 THEN "evaluate" ELSE "gate")
    BY <1>1, <1>3, <2>1 DEF DriverType, At, Over
  <2>3. /\ Cardinality(calls) = n /\ n \in Nat /\ (n = 0 => calls = {})
        /\ \A c \in calls : c \in Calls /\ c > journal.calls /\ c <= journal.calls + n
    BY <2>1, NewCalls
  <2>4. /\ j.open = calls /\ j.tail = "assistant" /\ j.calls = journal.calls + n
        /\ j.starts = journal.starts /\ j.abandoned = journal.abandoned
        /\ j.run = journal.run /\ j.started = journal.started
    BY <1>1, <2>3 DEF AssistantCommitted, JournalType
  <2>5. ~Buried(j) /\ (n = 0 => j.open = {}) BY <2>3, <2>4 DEF Buried
  <2>6. \A c \in Calls : c \in Nat /\ journal.starts[c] \in Nat
    <3>1. journal.starts \in [Calls -> Nat] BY <1>1 DEF JournalType
    <3>2. Calls \subseteq Nat BY CallsAssumption, FS_CardinalityType
    <3> QED BY <3>1, <3>2
  <2>7. journal.abandoned \subseteq Calls BY <1>1 DEF JournalType
  <2> HIDE DEF calls, j, m, d
  <2>8. Live => Fresh(j)
    <3> SUFFICES ASSUME Live PROVE Fresh(j)
      OBVIOUS
    <3>1. ASSUME NEW c \in Calls, j.starts[c] > 0 \/ c \in j.abandoned
          PROVE  c <= journal.calls
      BY <1>2, <2>1, <2>4, <3>1 DEF Fresh, At
    <3>2. \A c \in Calls : j.starts[c] > 0 \/ c \in j.abandoned \/ c \in j.open => c <= j.calls
      BY <2>1, <2>3, <2>4, <2>6, <3>1
    <3>3. \A c \in j.open : ~(j.starts[c] > 0) /\ c \notin j.abandoned
      BY <2>1, <2>3, <2>4, <2>6, <3>1
    <3>4. \A c \in j.abandoned : c \notin j.open /\ j.starts[c] = 0
      BY <1>2, <2>1, <2>4, <2>7, <3>3 DEF Fresh, At
    <3> QED BY <2>5, <3>2, <3>3, <3>4 DEF Fresh
  <2>9. Live => Front(j, d, state) BY <2>2, <2>5 DEF Front, Unopened
  <2> QED BY <2>1, <2>8, <2>9, EmitFrontiers DEF At

<1>7. CASE CandidateInvalid
  <2>1. PICK fatal \in BOOLEAN :
          Emit(UserMessage(journal), [mem EXCEPT !.tail = "user", !.inject = {}],
               [drv EXCEPT !.pc = "ended", !.fatal = fatal])
    BY <1>7 DEF CandidateInvalid
  <2> DEFINE j == UserMessage(journal)
             d == [drv EXCEPT !.pc = "ended", !.fatal = fatal]
  <2>2. At("evaluate") /\ d.pc = "ended" /\ d.outcome = "none"
    BY <1>1, <1>3, <1>7 DEF CandidateInvalid, DriverType, At, Over
  <2>3. /\ j.open = journal.open /\ j.starts = journal.starts /\ j.calls = journal.calls
        /\ j.abandoned = journal.abandoned
    BY <1>1 DEF UserMessage, JournalType
  <2> HIDE DEF d, j
  <2>4. Live => j.open = {} BY <1>2, <2>2, <2>3 DEF Front, Unopened, At
  <2>5. Live => Fresh(j) /\ Front(j, d, state)
    BY <1>2, <2>2, <2>3, <2>4 DEF Fresh, Front, Buried, At
  <2> QED BY <2>1, <2>2, <2>5, EmitFrontiers DEF j, d, At
<1>8. CASE StartTool
  <2>1. PICK c \in drv.todo :
          Emit(ToolStarted(journal, c), [mem EXCEPT !.started = @ \cup {c}],
               [drv EXCEPT !.todo = @ \ {c}])
    BY <1>8 DEF StartTool
  <2> DEFINE j == ToolStarted(journal, c)
             m == [mem EXCEPT !.started = @ \cup {c}]
             d == [drv EXCEPT !.todo = @ \ {c}]
  <2>2. At("exec") /\ d.pc = "exec" /\ d.outcome = "none" /\ d.todo = drv.todo \ {c}
    BY <1>1, <1>3, <1>8 DEF StartTool, DriverType, At, Over
  <2>3. /\ j.open = journal.open /\ j.tail = journal.tail /\ j.calls = journal.calls
        /\ j.abandoned = journal.abandoned /\ j.run = journal.run /\ j.state = journal.state
        /\ j.susp = journal.susp /\ j.starts = [journal.starts EXCEPT ![c] = @ + 1]
        /\ journal.run # NoRun => j.started = journal.started \cup {c}
    BY <1>1 DEF ToolStarted, JournalType
  <2>4. c \in Calls /\ journal.starts \in [Calls -> Nat] /\ journal.abandoned \subseteq Calls
        /\ journal.open \subseteq Calls
    BY <1>1 DEF DriverType, JournalType
  <2> HIDE DEF d, j, m
  <2>5. Live => Fresh(j)
    <3> SUFFICES ASSUME Live PROVE Fresh(j)
      OBVIOUS
    <3>1. c \in journal.open /\ journal.run # NoRun /\ Fresh(journal) /\ ~Buried(j)
      BY <1>2, <2>2, <2>3 DEF Front, Buried, At
    <3>2. \A e \in Calls : e # c => j.starts[e] = journal.starts[e] BY <2>3, <2>4
    <3>3. \A e \in Calls : j.starts[e] > 0 \/ e \in j.abandoned \/ e \in j.open => e <= j.calls
      BY <2>3, <2>4, <3>1, <3>2 DEF Fresh
    <3>4. \A e \in j.abandoned : e \notin j.open /\ j.starts[e] = 0
      BY <2>3, <2>4, <3>1, <3>2 DEF Fresh
    <3>5. \A e \in j.open : j.starts[e] > 0 => e \in j.started
      BY <2>3, <2>4, <3>1, <3>2 DEF Fresh, Buried
    <3> QED BY <3>1, <3>3, <3>4, <3>5 DEF Fresh
  <2>6. Live => Front(j, d, state) BY <1>2, <2>2, <2>3 DEF Front, Buried, Unopened, At
  <2> QED BY <2>1, <2>2, <2>5, <2>6, EmitFrontiers DEF j, m, d, At
<1>9. CASE CommitResult
  <2>1. At("results") /\ drv.outcome = "none" BY <1>3, <1>9 DEF CommitResult, At, Over
  <2>2. CASE mem.open = {} /\ Loop("ended")
    <3>1. /\ drv'.pc = "ended" /\ drv'.outcome = "none" /\ UNCHANGED <<state, journal, lock>>
      BY <1>1, <2>1, <2>2 DEF Loop, Goto, Undriven, DriverType
    <3>2. Live' => Front(journal, drv', state')
      BY <1>2, <2>1, <2>2, <3>1 DEF Front, Unopened, Live, At
    <3> QED BY <3>1, <3>2, QuietFrontiers
  <2>3. ASSUME NEW c \in mem.open,
               Emit(ToolResult(journal, c),
                    [mem EXCEPT !.open = @ \ {c}, !.tail = "tool"], drv)
        PROVE  Frontiers'
    <3> DEFINE j == ToolResult(journal, c)
    <3>1. /\ j.open = journal.open \ {c} /\ j.tail = "tool" /\ j.calls = journal.calls
          /\ j.abandoned = journal.abandoned /\ j.run = journal.run
          /\ j.started = journal.started /\ j.starts = journal.starts
      BY <1>1 DEF ToolResult, JournalType
    <3> HIDE DEF j
    <3>2. Live => Fresh(j) /\ Front(j, drv, state)
      BY <1>2, <2>1, <3>1 DEF Fresh, Front, Buried, Unopened, At
    <3> QED BY <2>1, <2>3, <3>2, EmitFrontiers DEF j, At
  <2> QED BY <1>9, <2>2, <2>3 DEF CommitResult
<1>10. CASE EndTurn
  <2> DEFINE j == UsageRecorded(journal, drv.used, mem.usage + Delta)
             m == [mem EXCEPT !.usage = mem.usage + Delta, !.last = drv.used]
             d == IF drv.fatal THEN [drv EXCEPT !.pc = "return", !.outcome = "Failed"]
                               ELSE [drv EXCEPT !.pc = "hook"]
  <2>1. At("ended") /\ Emit(j, m, d) /\ drv.outcome = "none"
    BY <1>3, <1>10 DEF EndTurn, At, Over
  <2>2. \/ d.pc = "return" /\ d.outcome = "Failed"
        \/ d.pc = "hook" /\ d.outcome = "none"
    BY <1>1, <2>1 DEF DriverType
  <2>3. /\ SameFrontier(journal, j) /\ j.run = journal.run /\ j.started = journal.started
        /\ j.state = journal.state /\ j.susp = journal.susp
    BY <1>1 DEF UsageRecorded, JournalType, SameFrontier
  <2> HIDE DEF d, j, m
  <2>4. Live => Front(journal, d, state) BY <1>2, <2>1, <2>2 DEF Front, Unopened, At
  <2> QED BY <1>4, <2>1, <2>3, <2>4 DEF At
<1>11. CASE HookInjects
  <2> DEFINE j == QueueDrained(journal, Ids(Boundary))
             m == [mem EXCEPT !.queue = Without(@, Ids(Boundary)), !.inject = Boundary]
             d == [drv EXCEPT !.pc = "inject"]
  <2>1. /\ At("hook") /\ state = "Running" /\ UNCHANGED lock
        /\ \/ Commit(j, m, "Running") /\ drv' = d
           \/ AppendError(j)
    BY <1>11 DEF HookInjects, Undriven, Goto
  <2>2. d.pc = "inject" /\ d.outcome = "none" BY <1>1, <1>3, <2>1 DEF DriverType, At, Over
  <2>3. /\ SameFrontier(journal, j) /\ j.run = journal.run /\ j.started = journal.started
        /\ j.state = journal.state /\ j.susp = journal.susp
    BY <1>1 DEF QueueDrained, JournalType, SameFrontier
  <2> HIDE DEF d, j, m
  <2>4. Live => Front(journal, d, "Running") BY <1>2, <2>1, <2>2 DEF Front, Unopened, At
  <2>5. lock => Fresh(j) /\ Front(j, d, "Running")
    BY <1>2, <2>1, <2>3, <2>4, FreshKept, FrontKept DEF Live, Attached, Busy, At
  <2>6. state' = "Running" => drv' = d BY <2>1 DEF AppendError
  <2> QED BY <2>1, <2>5, <2>6, BatchFrontiers
<1>12. CASE InjectMessages
  <2> DEFINE j == InputsApplied(journal, mem.inject)
             m == [mem EXCEPT !.applied = Into(@, Ids(mem.inject), mem.run),
                              !.tail = "user", !.inject = {}]
             d == [drv EXCEPT !.pc = "turn"]
  <2>1. At("inject") /\ Emit(j, m, d) BY <1>12 DEF InjectMessages
  <2>2. d.pc = "turn" /\ d.outcome = "none" BY <1>1, <1>3, <2>1 DEF DriverType, At, Over
  <2>3. /\ j.open = journal.open /\ j.starts = journal.starts /\ j.calls = journal.calls
        /\ j.abandoned = journal.abandoned
    BY <1>1 DEF InputsApplied, JournalType
  <2> HIDE DEF d, j, m
  <2>4. Live => j.open = {} BY <1>2, <2>1, <2>3 DEF Front, Unopened, At
  <2>5. Live => Fresh(j) /\ Front(j, d, state)
    BY <1>2, <2>1, <2>2, <2>3, <2>4 DEF Fresh, Front, Buried, At
  <2> QED BY <2>1, <2>5, EmitFrontiers DEF At
<1>13. CASE CompleteRun
  <2> DEFINE j == RunCompleted(journal)
             d == [drv EXCEPT !.pc = "return", !.outcome = "Completed"]
  <2>1. At("complete") /\ Emit(j, mem, d) BY <1>13 DEF CompleteRun
  <2>2. d.pc = "return" /\ d.outcome = "Completed" BY <1>1 DEF DriverType
  <2>3. /\ SameFrontier(journal, j) /\ j.run = journal.run /\ j.started = journal.started
        /\ j.state = journal.state /\ j.susp = journal.susp
    BY <1>1 DEF RunCompleted, JournalType, SameFrontier
  <2> HIDE DEF d, j
  <2>4. Live => Front(journal, d, state) BY <1>2, <2>1, <2>2 DEF Front, Unopened, At
  <2> QED BY <1>4, <2>1, <2>3, <2>4 DEF At
<1>14. CASE SuspendRun
  <2> DEFINE susp == [kind |-> drv.kind, id |-> journal.susps + 1, used |-> drv.used]
             j == RunSuspended(journal, susp)
             m == [mem EXCEPT !.susp = susp]
             d == [drv EXCEPT !.pc = "return", !.outcome = "Suspended"]
  <2>1. At("suspend") /\ Emit(j, m, d) BY <1>14 DEF SuspendRun
  <2>2. d.pc = "return" /\ d.outcome = "Suspended" BY <1>1 DEF DriverType
  <2> HIDE DEF susp
  <2>3. /\ SameFrontier(journal, j) /\ j.run = journal.run /\ j.started = journal.started
    BY <1>1 DEF RunSuspended, JournalType, SameFrontier
  <2> HIDE DEF d, j, m
  <2>4. Live => ~Buried(journal) /\ Front(journal, d, state)
    BY <1>2, <2>1, <2>2 DEF Front, Unopened, At
  <2> QED BY <1>4, <2>1, <2>3, <2>4 DEF At
<1> QED
  BY <1>5, <1>6, <1>7, <1>8, <1>9, <1>10, <1>11, <1>12, <1>13, <1>14

\* A batch that settles a run and opens no call keeps the frontier fresh.
LEMMA SettledFresh ==
  ASSUME NEW j, Fresh(j), NEW k, k.run = NoRun, k.susp = NoSuspension, k.starts = j.starts,
         k.abandoned = j.abandoned, k.calls = j.calls, k.open \subseteq j.open
  PROVE  Fresh(k)
BY DEF Fresh

\* Without a driver nothing is asked of an idle session's frontier.
LEMMA IdleFront ==
  ASSUME NEW j, NEW d, d.pc = "none", d.outcome = "none"
  PROVE  Front(j, d, "Idle")
BY DEF Front, Unopened

\* Settling a run keeps the frontier.
LEMMA FinishFrontiers ==
  ASSUME TypeInv, Coherent, Faithful, Shaped, Frontiers, Finish
  PROVE  Frontiers'
<1>1. ~At("none") /\ drv.pc \in Over /\ UNCHANGED lock
  BY DEF Finish, FinishFaulted, FinishInterrupted, FinishBounced, FinishUnusable,
         FinishSuspended, FinishClosed, SettleInterrupt, Settling, Loop, Undriven, At, Over
<1>2. /\ JournalOK(journal) /\ MemOK(mem) /\ journal \in JournalType /\ mem \in MemType
      /\ drv \in DriverType /\ Used(mem) \in Nat
  BY CounterTypes, UsedType
<1>3. lock /\ state # "Faulted" => Live /\ mem.usage = journal.usage /\ journal.run # NoRun
                                   /\ Front(journal, drv, state)
  BY <1>1, DrivenMirrors DEF Mirrors, Frontiers
<1>4. Fresh(journal) /\ NoDriver.pc = "none" /\ NoDriver.outcome = "none"
  BY DEF Frontiers, NoDriver
<1>5. PersistFault => Frontiers'
  <2> DEFINE j == FaultRecorded(journal)
  <2>1. /\ SameFrontier(journal, j) /\ j.run = journal.run /\ j.started = journal.started
        /\ j.state = "Faulted"
    BY <1>2 DEF FaultRecorded, JournalType, SameFrontier
  <2> HIDE DEF j
  <2>2. Fresh(j) BY <1>4, <2>1, FreshKept
  <2>3. PersistFault => journal' \in {journal, j} /\ ~Live'
    BY DEF PersistFault, Live, Attached, Busy, j
  <2> QED BY <1>4, <2>2, <2>3 DEF Frontiers, Fresh, Buried
<1>6. ASSUME NothingToInterrupt PROVE Frontiers'
  <2>1. UNCHANGED <<state, journal>> /\ ~Live
    BY <1>1, <1>3, <1>6, DrivenRun DEF NothingToInterrupt, Live, Attached, Busy
  <2> QED BY <1>1, <2>1 DEF Frontiers, Fresh, Buried, Live
\* the driver is gone, and the session is idle
<1>7. ASSUME NEW j, NEW m, Commit(j, m, "Idle") \/ AppendError(j), lock => Fresh(j),
             drv' = NoDriver
      PROVE  Frontiers'
  BY <1>1, <1>4, <1>7, IdleFront, BatchFrontiers
<1>8. CASE FinishFaulted
  BY <1>8 DEF FinishFaulted, Frontiers, Fresh, Buried, Live, Attached, Busy
<1>9. CASE FinishInterrupted
  <2>1. /\ drv'.pc = "settle" /\ drv'.outcome = drv.outcome /\ UNCHANGED <<state, journal>>
        /\ state # "Faulted"
    BY <1>2, <1>9 DEF FinishInterrupted, Loop, Goto, DriverType
  <2>2. Live' => Front(journal, drv', state') BY <1>1, <1>3, <2>1 DEF Front, Unopened, Live
  <2> QED BY <2>1, <2>2, QuietFrontiers
<1>10. CASE FinishBounced
  <2>1. /\ state' = "Suspended" /\ drv' = NoDriver /\ UNCHANGED journal
        /\ drv.outcome = "Rejected" /\ state # "Faulted"
    BY <1>10 DEF FinishBounced, Settling, Bounced, Finished
  <2>2. Live' => Front(journal, NoDriver, "Suspended")
    BY <1>1, <1>3, <1>4, <2>1 DEF Front, Unopened, Live
  <2> QED BY <2>1, <2>2, QuietFrontiers
<1>11. CASE FinishUnusable BY <1>5, <1>11 DEF FinishUnusable
<1>12. CASE FinishSuspended
  <2> DEFINE session == mem.usage + (drv.used - mem.last)
             j == UsageRecorded(journal, drv.used, session)
             m == [mem EXCEPT !.usage = session, !.last = drv.used, !.resuming = FALSE]
  <2>1. drv.outcome = "Suspended" /\ drv' = NoDriver /\ state # "Faulted"
    BY <1>12 DEF FinishSuspended, Settling, Finished
  <2>2. lock => Front(journal, NoDriver, "Suspended")
    BY <1>3, <1>4, <2>1 DEF Front, Unopened
  <2>3. CASE drv.used = mem.last
    <3>1. state' = "Suspended" /\ UNCHANGED journal BY <1>12, <2>3 DEF FinishSuspended
    <3> QED BY <1>1, <2>1, <2>2, <3>1, QuietFrontiers DEF Live
  <2>4. CASE drv.used # mem.last
    <3>1. Commit(j, m, "Suspended") \/ AppendError(j)
      BY <1>12, <2>4 DEF FinishSuspended, Charged, Commit
    <3>2. /\ SameFrontier(journal, j) /\ j.run = journal.run /\ j.started = journal.started
          /\ j.state = journal.state /\ j.susp = journal.susp
      BY <1>2 DEF UsageRecorded, JournalType, SameFrontier
    <3> HIDE DEF j, m
    <3>3. lock => Fresh(j) /\ Front(j, NoDriver, "Suspended")
      BY <1>4, <2>2, <3>2, FreshKept, FrontKept
    <3> QED BY <1>1, <2>1, <3>1, <3>3, BatchFrontiers
  <2> QED BY <2>3, <2>4
<1>13. CASE FinishClosed
  <2> DEFINE status  == IF drv.outcome = "Completed" THEN "Completed" ELSE "Failed"
             cancels == IF status = "Completed" THEN {} ELSE RunScopedIds(mem.queue)
             j == RunClosed(QueueCancelled(Charged(journal, mem, Used(mem)), cancels), status)
             m == [Detached(mem) EXCEPT !.usage = @ + (Used(mem) - mem.last),
                                        !.queue = Without(@, cancels)]
  <2>1. /\ state # "Faulted" /\ Used(mem) >= mem.last
        /\ Commit(j, m, "Idle") \/ AppendError(j)
        /\ drv' = NoDriver
    BY <1>13 DEF FinishClosed, Settling, Finished
  <2>2. cancels \in SUBSET Inputs
    BY <1>2, IdsAreInputs DEF MemType, RunScopedIds, OfKind, Ids
  <2> HIDE DEF status, cancels, m
  <2>3. lock => j.run = NoRun /\ j.susp = NoSuspension /\ SameFrontier(journal, j)
    BY <1>2, <1>3, <2>1, <2>2, ClosedFields
  <2> HIDE DEF j
  <2>4. lock => Fresh(j) BY <1>4, <2>3, SettledFresh DEF SameFrontier
  <2> QED BY <1>7, <2>1, <2>4
<1>14. CASE SettleInterrupt
  <2>1. CASE NothingToInterrupt BY <1>6, <2>1
  <2>2. CASE Used(mem) >= mem.last /\ FinishInterrupt(Used(mem))
    <3> DEFINE j == InterruptBatch(mem, Used(mem))
               m == AfterInterrupt(mem, Used(mem))
    <3>1. /\ state # "Faulted" /\ drv' = NoDriver
          /\ Commit(j, m, "Idle") \/ AppendError(j)
      BY <1>14, <2>2 DEF FinishInterrupt, SettleInterrupt, Finished
    <3>2. lock => /\ j.run = NoRun /\ j.susp = NoSuspension /\ j.open = {}
                  /\ j.starts = journal.starts /\ j.abandoned = journal.abandoned
                  /\ j.calls = journal.calls
      BY <1>2, <1>3, <2>2, <3>1, InterruptedFields
    <3> HIDE DEF m, j
    <3>3. lock => Fresh(j) BY <1>4, <3>2, SettledFresh
    <3> QED BY <1>7, <3>1, <3>3
  <2>3. CASE PersistFault BY <1>5, <2>3
  <2> QED BY <1>14, <2>1, <2>2, <2>3 DEF SettleInterrupt
<1>15. QED BY <1>8, <1>9, <1>10, <1>11, <1>12, <1>13, <1>14 DEF Finish

\* So does settling an interrupted suspension.
LEMMA SettleSuspendedFrontiers ==
  ASSUME TypeInv, Coherent, Faithful, Shaped, Frontiers, SettleSuspended
  PROVE  Frontiers'
<1>1. /\ settler /\ UNCHANGED <<drv, lock>> /\ state # "Down" /\ Fresh(journal)
      /\ JournalOK(journal) /\ MemOK(mem) /\ mem.last \in Nat
  BY CounterTypes DEF SettleSuspended, Coherent, GoneIsQuiet, Frontiers
<1>2. CASE NothingToInterrupt
  BY <1>1, <1>2 DEF NothingToInterrupt, Frontiers, Fresh, Front, Buried, Live
<1>3. CASE FinishInterrupt(mem.last)
  <2> DEFINE j == InterruptBatch(mem, mem.last)
             m == AfterInterrupt(mem, mem.last)
  <2>1. /\ Commit(j, m, "Idle") \/ AppendError(j)
        /\ state # "Faulted"
    BY <1>3 DEF FinishInterrupt
  <2>2. lock => Live
    BY <1>1, <2>1 DEF Live, Coherent, ClosedIsUnlocked, TypeInv, States, Attached, Busy
  <2>3. lock => drv.pc = "none" /\ drv.outcome = "none" /\ mem.usage = journal.usage
    BY <1>1, <2>2 DEF Live, Coherent, LiveRun, Shaped, Over, Faithful, Mirrors
  <2>4. lock => /\ j.run = NoRun /\ j.susp = NoSuspension /\ j.open = {}
                /\ j.starts = journal.starts /\ j.abandoned = journal.abandoned
                /\ j.calls = journal.calls
    BY <1>1, <2>3, InterruptedFields
  <2> HIDE DEF m, j
  <2>5. lock => Fresh(j) /\ Front(j, drv, "Idle")
    BY <1>1, <2>3, <2>4, SettledFresh, IdleFront
  <2> QED BY <1>1, <2>1, <2>5, BatchFrontiers
<1> QED BY <1>2, <1>3 DEF SettleSuspended

\* Client calls keep the frontier: a prompt that follows open calls buries them.
LEMMA ClientFrontiers ==
  ASSUME TypeInv, Coherent, Faithful, Shaped, Frontiers, Client
  PROVE  Frontiers'
<1>1. /\ journal \in JournalType /\ mem \in MemType /\ Fresh(journal)
  BY CounterTypes DEF Frontiers
<1>2. Live => /\ mem.open = journal.open /\ Front(journal, drv, state)
              /\ state \in {"Idle", "Suspended"} => drv.pc = "none"
  BY DEF Faithful, Mirrors, Frontiers, Coherent, LiveRun, Live
<1>3. CASE Start
  <2> DEFINE run    == journal.runs + 1
             limit  == Remaining(mem.usage)
             next   == OfKind(mem.queue, {"next_turn"})
             j      == UserMessage(InputsApplied(QueueDrained(RunOpened(journal, run, limit),
                                                              Ids(next)), next))
             m      == [NewRun(mem, run, limit) EXCEPT
                          !.queue = Without(@, Ids(next)), !.tail = "user",
                          !.applied = Into(@, Ids(next), run)]
             d      == [NoDriver EXCEPT !.pc = "start"]
  <2>1. /\ UNCHANGED lock
        /\ \/ Commit(j, m, "Running") /\ drv' = d
           \/ AppendError(j)
    BY <1>3 DEF Start, Unclient
  <2>2. /\ j.tail = "user" /\ j.open = journal.open /\ j.starts = journal.starts
        /\ j.calls = journal.calls /\ j.abandoned = journal.abandoned /\ j.state = "Running"
    BY <1>1 DEF UserMessage, InputsApplied, QueueDrained, RunOpened, JournalType
  <2>3. d.pc = "start" /\ d.outcome = "none" BY DEF NoDriver
  <2> HIDE DEF j, m, d
  <2>4. Fresh(j) /\ Front(j, d, "Running")
    BY <1>1, <2>2, <2>3 DEF Fresh, Front, Buried, Unopened
  <2>5. state' = "Running" => drv' = d BY <2>1 DEF AppendError
  <2> QED BY <2>1, <2>4, <2>5, BatchFrontiers
<1>4. ASSUME NEW id \in Inputs, NEW kind \in QueueKinds, NEW target \in 0..MaxRuns,
             Accept(id, kind, target)
      PROVE  Frontiers'
  <2> DEFINE entry == [id |-> id, kind |-> kind, at |-> Len(journal.accepted) + 1]
             j == QueueAccepted(journal, entry, target)
             m == [mem EXCEPT !.queue = @ \cup {entry}]
  <2>1. /\ Commit(j, m, state) \/ AppendError(j)
        /\ state \in Attached /\ state # "Faulted" /\ UNCHANGED <<lock, drv>>
    BY <1>4 DEF Accept, Acceptable, Unclient, Attached, Busy
  <2>2. /\ SameFrontier(journal, j) /\ j.run = journal.run /\ j.started = journal.started
        /\ j.state = journal.state /\ j.susp = journal.susp
    BY <1>1 DEF QueueAccepted, JournalType, SameFrontier
  <2> HIDE DEF j, m
  <2>3. lock => Fresh(j) /\ Front(j, drv, state)
    BY <1>1, <1>2, <2>1, <2>2, FreshKept, FrontKept DEF Live
  <2> QED BY <2>1, <2>3, BatchFrontiers
<1>5. ASSUME NEW target \in 0..MaxRuns, Interrupt(target)
      PROVE  Frontiers'
  <2> DEFINE j == InterruptAccepted(journal, target)
  <2>1. /\ state \in Attached /\ UNCHANGED <<lock, drv>>
        /\ \/ AppendError(j)
           \/ Commit(j, mem, "Interrupting")
           \/ state' = "Interrupting" /\ UNCHANGED <<mem, journal>>
    BY <1>5 DEF Interrupt, Attached, Busy
  <2>2. /\ SameFrontier(journal, j) /\ j.run = journal.run /\ j.started = journal.started
        /\ j.state = journal.state /\ j.susp = journal.susp
    BY <1>1 DEF InterruptAccepted, JournalType, SameFrontier
  <2> HIDE DEF j
  <2>3. lock => Front(journal, drv, "Interrupting") BY <1>2, <2>1 DEF Front, Live
  <2>4. lock => Fresh(j) /\ Front(j, drv, "Interrupting")
    BY <1>1, <2>2, <2>3, FreshKept, FrontKept
  <2>5. CASE AppendError(j) \/ Commit(j, mem, "Interrupting")
    BY <2>1, <2>4, <2>5, BatchFrontiers
  <2>6. CASE state' = "Interrupting" /\ UNCHANGED <<mem, journal>>
    BY <2>1, <2>3, <2>6, QuietFrontiers DEF Live
  <2> QED BY <2>1, <2>5, <2>6
<1>6. ASSUME NEW id, NEW approved, Resume(id, approved)
      PROVE  Frontiers'
  <2> DEFINE m == [mem EXCEPT !.resuming = TRUE, !.seen = FALSE]
             d == [NoDriver EXCEPT !.pc = "resolve", !.todo = approved,
                     !.used = mem.susp.used, !.resumed = TRUE, !.kind = mem.susp.kind]
  <2>1. /\ state = "Suspended" /\ approved \subseteq mem.open /\ UNCHANGED lock
        /\ \/ Commit(journal, m, "Running") /\ drv' = d
           \/ AppendError(journal)
    BY <1>6 DEF Resume, Resumable, Unclient
  <2>2. d.pc = "resolve" /\ d.todo = approved /\ d.outcome = "none" BY DEF NoDriver
  <2> HIDE DEF m, d
  <2>3. lock => Front(journal, d, "Running")
    BY <1>2, <2>1, <2>2 DEF Live, Attached, Front, Unopened
  <2>4. state' = "Running" => drv' = d BY <2>1 DEF AppendError
  <2> QED BY <1>1, <2>1, <2>3, <2>4, BatchFrontiers
<1>7. ASSUME NEW id, ResumeIndeterminate(id)
      PROVE  Frontiers'
  <2> DEFINE run    == journal.runs + 1
             limit  == Remaining(mem.usage)
             closed == RunClosed(journal, "Interrupted")
             paired == FrontierClosed(closed)
             j      == RunOpened(paired, run, limit)
             m      == [NewRun(mem, run, limit) EXCEPT
                          !.open = {}, !.tail = IF mem.open = {} THEN @ ELSE "tool",
                          !.susp = NoSuspension]
             d      == [NoDriver EXCEPT !.pc = "start"]
  <2>1. /\ UNCHANGED lock
        /\ \/ Commit(j, m, "Running") /\ drv' = d
           \/ AppendError(j)
    BY <1>7 DEF ResumeIndeterminate, Unclient
  <2>2. closed \in JournalType /\ paired \in JournalType
    BY <1>1, RunClosedType, FrontierClosedType
  <2>3. /\ closed.starts = journal.starts /\ closed.abandoned = journal.abandoned
        /\ closed.calls = journal.calls
    BY <1>1, RunClosedFields DEF SameFrontier
  <2>4. /\ paired.starts = closed.starts /\ paired.abandoned = closed.abandoned
        /\ paired.calls = closed.calls /\ paired.open = {}
    BY <2>2, RepairFields
  <2>5. d.pc = "start" /\ d.outcome = "none" BY DEF NoDriver
  <2> HIDE DEF closed, paired, m, d, run, limit
  <2>6. /\ j.open = {} /\ j.starts = journal.starts /\ j.calls = journal.calls
        /\ j.abandoned = journal.abandoned /\ j.state = "Running"
    BY <2>2, <2>3, <2>4 DEF RunOpened, JournalType
  <2> HIDE DEF j
  <2>7. Fresh(j) /\ Front(j, d, "Running")
    BY <1>1, <2>5, <2>6 DEF Fresh, Front, Buried, Unopened
  <2>8. state' = "Running" => drv' = d BY <2>1 DEF AppendError
  <2> QED BY <2>1, <2>7, <2>8, BatchFrontiers
<1>8. QED BY <1>3, <1>4, <1>5, <1>6, <1>7 DEF Client

\* A recovered handle starts from the frontier that recovery leaves.
LEMMA ReopenFrontiers ==
  ASSUME NEW j, NEW m, NEW s, NEW d, Reopen(j, m, s, d), Fresh(j), Front(j, d, s)
  PROVE  Frontiers'
BY DEF Reopen, Frontiers, Fresh, Front, Buried

\* Recovery keeps the frontier: it closes calls as never started only when no
\* start of them was written (planRecovery against the run's started set).
LEMMA RecoverFrontiers ==
  ASSUME TypeInv, Coherent, Frontiers, Recover
  PROVE  Frontiers'
<1>1. /\ JournalOK(journal) /\ journal \in JournalType /\ Fresh(journal)
      /\ MemOK(Folded) /\ Folded.last = journal.last /\ Folded.last \in Nat
      /\ Folded.usage = journal.usage
  BY CounterTypes, LoadedOK DEF Frontiers, Folded, Loaded, MemOK
<1>2. NoDriver.pc = "none" /\ NoDriver.outcome = "none" BY DEF NoDriver
<1>3. CASE RecoverInterrupted
  <2> DEFINE j == InterruptBatch(Folded, Folded.last)
  <2>1. /\ j.run = NoRun /\ j.susp = NoSuspension /\ j.open = {}
        /\ j.starts = journal.starts /\ j.abandoned = journal.abandoned
        /\ j.calls = journal.calls
    BY <1>1, InterruptedFields
  <2>2. Reopen(j, AfterInterrupt(Folded, Folded.last), "Idle", NoDriver)
    BY <1>3 DEF RecoverInterrupted
  <2> HIDE DEF j
  <2>3. Fresh(j) BY <1>1, <2>1, SettledFresh
  <2> QED BY <1>2, <2>2, <2>3, IdleFront, ReopenFrontiers
<1>4. CASE RecoverCompleted
  <2> DEFINE j == RunClosed(journal, "Completed")
  <2>1. SameFrontier(journal, j) /\ j.run = NoRun /\ j.susp = NoSuspension
    BY <1>1, RunClosedFields
  <2>2. Reopen(j, Detached(Folded), "Idle", NoDriver) BY <1>4 DEF RecoverCompleted
  <2> HIDE DEF j
  <2>3. Fresh(j) BY <1>1, <2>1, SettledFresh DEF SameFrontier
  <2> QED BY <1>2, <2>2, <2>3, IdleFront, ReopenFrontiers
<1>5. CASE RecoverIdle BY <1>1, <1>2, <1>5, IdleFront, ReopenFrontiers DEF RecoverIdle
<1>6. CASE RecoverSuspended
  <2>1. Front(journal, NoDriver, "Suspended")
    BY <1>1, <1>2, <1>6 DEF RecoverSuspended, Fresh, Front, Unopened
  <2> QED BY <1>1, <1>6, <2>1, ReopenFrontiers DEF RecoverSuspended
<1>7. CASE RecoverInject
  <2> DEFINE j == InputsApplied(journal, journal.drained)
  <2>1. /\ journal' = j /\ UNCHANGED lock /\ ~lock
        /\ journal.state # "Suspended" \/ journal.susp = NoSuspension
    BY <1>7 DEF RecoverInject, RecoverOpenRun, Recovering, Coherent, GoneIsQuiet
  <2>2. /\ j.open = journal.open /\ j.tail = "user" /\ j.starts = journal.starts
        /\ j.abandoned = journal.abandoned /\ j.calls = journal.calls
        /\ j.state = journal.state /\ j.susp = journal.susp
    BY <1>1 DEF InputsApplied, JournalType
  <2> HIDE DEF j
  <2>3. Fresh(j) BY <1>1, <2>1, <2>2 DEF Fresh, Buried
  <2> QED BY <2>1, <2>3 DEF Frontiers, Fresh, Buried, Live
<1>8. CASE RecoverIndeterminate
  <2> DEFINE susp == [kind |-> "indeterminate", id |-> journal.susps + 1, used |-> 0]
             j == RunSuspended(journal, susp)
             m == [Folded EXCEPT !.susp = susp]
  <2>1. Reopen(j, m, "Suspended", NoDriver) /\ ~Buried(journal)
    BY <1>8 DEF RecoverIndeterminate
  <2>2. /\ SameFrontier(journal, j) /\ j.run = journal.run /\ j.started = journal.started
    BY <1>1 DEF RunSuspended, JournalType, SameFrontier
  <2> HIDE DEF j, m, susp
  <2>3. Fresh(j) BY <1>1, <2>1, <2>2, FreshKept
  <2>4. Front(j, NoDriver, "Suspended")
    BY <1>2, <2>1, <2>2 DEF Front, Unopened, SameFrontier, Buried
  <2> QED BY <2>1, <2>3, <2>4, ReopenFrontiers
<1>9. CASE RecoverContinue
  <2> DEFINE limit  == Remaining(journal.usage)
             paired == FrontierAbandoned(journal)
             j      == RunOpened(paired, journal.run, limit)
             m      == [NewRun(Folded, journal.run, limit) EXCEPT
                          !.open = {}, !.tail = IF journal.open = {} THEN @ ELSE "tool",
                          !.susp = NoSuspension]
             d      == [NoDriver EXCEPT !.pc = "launch",
                          !.next = IF m.tail = "assistant" THEN "evaluate" ELSE "turn"]
  <2>1. /\ Reopen(j, m, "Running", d) /\ journal.run # NoRun /\ ~Buried(journal)
        /\ \A c \in journal.open : c \notin journal.started
    BY <1>9 DEF RecoverContinue, RecoverOpenRun, Indeterminate
  <2>2. paired \in JournalType BY <1>1, FrontierAbandonedType
  <2>3. /\ paired.starts = journal.starts /\ paired.abandoned = journal.abandoned \cup journal.open
        /\ paired.calls = journal.calls /\ paired.open = {}
    BY <1>1, RepairFields
  <2>4. d.pc = "launch" /\ d.outcome = "none" BY DEF NoDriver
  <2> HIDE DEF paired, m, d, limit
  <2>5. /\ j.open = {} /\ j.starts = journal.starts /\ j.calls = journal.calls
        /\ j.abandoned = journal.abandoned \cup journal.open /\ j.state = "Running"
    BY <2>2, <2>3 DEF RunOpened, JournalType
  <2>6. journal.starts \in [Calls -> Nat] /\ journal.open \subseteq Calls
    BY <1>1 DEF JournalType
  <2> HIDE DEF j
  <2>7. \A c \in journal.open : journal.starts[c] = 0 BY <1>1, <2>1, <2>6 DEF Fresh
  <2>8. Fresh(j) BY <1>1, <2>5, <2>7 DEF Fresh, Buried
  <2>9. Front(j, d, "Running") BY <2>4, <2>5 DEF Front, Unopened
  <2> QED BY <2>1, <2>8, <2>9, ReopenFrontiers
<1>10. QED BY <1>3, <1>4, <1>5, <1>6, <1>7, <1>8, <1>9 DEF Recover

\* Losing a handle writes nothing.
LEMMA OwnerFrontiers ==
  ASSUME Frontiers, Owner
  PROVE  Frontiers'
BY DEF Owner, Abandon, Close, Drop, Crash, NoHandle, Frontiers, Fresh, Buried, Live, Attached, Busy

\* The frontier is known at every moment.
LEMMA FrontiersInvariant == Spec => []Frontiers
<1>1. Init => Frontiers
  BY DEF Init, EmptyJournal, NoDriver, Frontiers, Fresh, Front, Unopened, Buried, NoSuspension,
         NoRun
<1>2. TypeInv /\ Coherent /\ Faithful /\ Shaped /\ Frontiers /\ [Next]_vars => Frontiers'
  <2> SUFFICES ASSUME TypeInv, Coherent, Faithful, Shaped, Frontiers, [Next]_vars
               PROVE  Frontiers'
    OBVIOUS
  <2>1. CASE UNCHANGED vars BY <2>1 DEF vars, Frontiers, Fresh, Front, Buried, Live
  <2>2. CASE Next
    BY <2>2, ClientFrontiers, QuietStepsFrontiers, EventStepsFrontiers, FinishFrontiers,
       SettleSuspendedFrontiers, OwnerFrontiers, RecoverFrontiers DEF Next, Driver
  <2> QED BY <2>1, <2>2
<1> QED
  BY <1>1, <1>2, TypeInvariant, CoherentInvariant, FaithfulInvariant, ShapedInvariant, PTL
  DEF Spec

\* A call that recovery reported as never started has no durable start, nor
\* will it get one (planRecovery, executeToolCalls).
THEOREM NeverAbandonedStarted == Spec => []StartedNeverAbandoned
<1>1. Frontiers => StartedNeverAbandoned BY DEF Frontiers, Fresh, StartedNeverAbandoned
<1> QED BY <1>1, FrontiersInvariant, PTL

-----------------------------------------------------------------------------
(***************************************************************************)
(* What a run leaves behind when it is over.                               *)
(*                                                                         *)
(*   NothingStranded       no steer and no follow-up is still queued       *)
(*   Arrives               nor is one drained and not injected             *)
(*   SettledWhole          no call is without a result, and the bill is    *)
(*                         right                                           *)
(*                                                                         *)
(* A property of the moment a run closes depends on how the drive came     *)
(* there, so that the invariants follow the drive: Endings says where the  *)
(* queue of the run is empty, Leftovers where it may hold drained inputs   *)
(* and open calls.                                                         *)
(***************************************************************************)

-----------------------------------------------------------------------------
(***************************************************************************)
(* The end of a run.  A run whose completion is recorded has nothing left  *)
(* to steer or follow up, because the hook closed the run to input before  *)
(* the completion was committed; the other ways to settle cancel what is   *)
(* left.                                                                   *)
(***************************************************************************)
Quiet(j) == OfKind(j.queue, RunScoped) = {}

Still(j) == j.run = NoRun \/ j.completed => Quiet(j)

Ending(j, d, st) ==
  /\ st = "Closing" \/ d.pc = "complete" => Quiet(j)
  /\ d.pc = "complete" \/ d.outcome = "Completed" => st \in {"Closing", "Interrupting"}
  /\ j.run # NoRun => (j.completed <=> d.outcome = "Completed")

Endings == Still(journal) /\ (Live => Ending(journal, drv, state))

\* What has no entry of its own keeps what is queued of the run.
LEMMA QuietKept ==
  ASSUME NEW j, Quiet(j), NEW k, k.queue \subseteq j.queue
  PROVE  Quiet(k)
BY DEF Quiet, OfKind

\* A batch that cancels what the run queued leaves nothing of it.
LEMMA QuietCancelled ==
  ASSUME NEW j, NEW k, k.queue = Without(j.queue, RunScopedIds(j.queue))
  PROVE  Quiet(k)
BY DEF Quiet, OfKind, Without, RunScopedIds, Ids

\* The first of some queued entries exists.
LEMMA LeastPlace ==
  ASSUME NEW I \in SUBSET Nat, I # {}
  PROVE  \E n \in I : \A m \in I : n <= m
<1> DEFINE R == OpToRel(<, Nat)
<1>1. IsWellFoundedOn(R, Nat) BY NatLessThanWellFounded
<1>2. PICK n \in I : \A m \in I : ~(<<m, n>> \in R)
  <2> HIDE DEF R
  <2> QED BY <1>1, WFMin
<1>3. \A m \in I : n <= m
  <2> SUFFICES ASSUME NEW m \in I PROVE ~(m < n)
    OBVIOUS
  <2>1. n \in Nat /\ m \in Nat /\ ~(<<m, n>> \in R) BY <1>2
  <2> QED BY <2>1 DEF OpToRel
<1> QED BY <1>3

LEMMA FirstWaits ==
  ASSUME NEW waiting \in SUBSET QueueEntry, waiting # {}
  PROVE  \E e \in waiting : \A other \in waiting : e.at <= other.at
<1> DEFINE places == {e.at : e \in waiting}
<1>1. places \in SUBSET Nat /\ places # {} BY DEF QueueEntry
<1>2. PICK n \in places : \A m \in places : n <= m
  <2> HIDE DEF places
  <2> QED BY <1>1, LeastPlace
<1> QED BY <1>2

\* The hook that finds nothing to inject at a candidate finds nothing queued for
\* the run.
LEMMA HookFindsNothing ==
  ASSUME mem \in MemType, Boundary = {}, drv.cand
  PROVE  OfKind(mem.queue, RunScoped) = {}
<1> DEFINE steers == OfKind(mem.queue, {"steer"})
           waiting == IF steers = {} /\ drv.cand
                      THEN OfKind(mem.queue, {"follow_up"}) ELSE steers
<1>1. waiting \in SUBSET QueueEntry BY DEF MemType, OfKind
<1>2. Boundary = IF DrainAll THEN waiting
                 ELSE {e \in waiting : \A other \in waiting : e.at <= other.at}
  BY DEF Boundary
<1>3. waiting = {}
  <2> HIDE DEF waiting
  <2> QED BY <1>1, <1>2, FirstWaits
<1> QED BY <1>3 DEF OfKind, RunScoped

\* What is asked at the end depends on the queue and the completion only.
LEMMA EndingKept ==
  ASSUME NEW j, NEW k, k.run = j.run, k.completed = j.completed, k.queue \subseteq j.queue
  PROVE  /\ Still(j) => Still(k)
         /\ \A d, st : Ending(j, d, st) => Ending(k, d, st)
BY QuietKept DEF Still, Ending

\* A step that appends nothing.
LEMMA QuietEndings ==
  ASSUME Endings, UNCHANGED journal, NEW d, NEW st, drv' = d, state' = st,
         Live' => Ending(journal, d, st)
  PROVE  Endings'
BY DEF Endings, Still, Ending, Quiet

\* A batch of a client or of a finish.
LEMMA BatchEndings ==
  ASSUME Endings, NEW j, NEW m, NEW st, NEW d, Commit(j, m, st) \/ AppendError(j),
         UNCHANGED lock, lock => Still(j) /\ Ending(j, d, st),
         state' = st => drv' = d, st # "Faulted"
  PROVE  Endings'
<1>1. Still(journal)' BY DEF Endings, Commit, AppendError, Still, Quiet
<1>2. Live' => journal' = j /\ drv' = d /\ state' = st /\ Ending(j, d, st)
  BY DEF Commit, AppendError, Live, Attached, Busy
<1>3. Live' => Ending(journal, drv, state)' BY <1>2 DEF Ending, Quiet
<1> QED BY <1>1, <1>3 DEF Endings

\* An event of the drive.
LEMMA EmitEndings ==
  ASSUME TypeInv, Coherent, Endings, ~At("none"), NEW j, NEW m, NEW d, Emit(j, m, d),
         Live => Still(j) /\ Ending(j, d, state)
  PROVE  Endings'
<1>1. lock /\ state # "Faulted" => Live BY DrivenRun DEF Live, Attached
<1>2. Still(journal)' BY <1>1 DEF Endings, Emit, Commit, AppendError, Still, Quiet
<1>3. Live' => /\ journal' = j /\ drv' = d /\ state' = state
                /\ Ending(j, d, state)
  BY <1>1 DEF Emit, Commit, AppendError, Live, Attached, Busy, Undriven
<1>4. Live' => Ending(journal, drv, state)' BY <1>3 DEF Ending, Quiet
<1> QED BY <1>2, <1>4 DEF Endings

\* A drive that goes on has not completed its run.
LEMMA GoingOn ==
  ASSUME TypeInv, Coherent, Endings, Shaped, Live, ~At("none"), drv.outcome # "Completed"
  PROVE  journal.run # NoRun /\ ~journal.completed
<1>1. journal.run # NoRun /\ Ending(journal, drv, state)
  BY DrivenRun DEF Live, Attached, Busy, Endings
<1>2. journal.completed \in BOOLEAN BY CounterTypes DEF JournalType
<1> QED BY <1>1, <1>2 DEF Ending

\* What is asked at the end when a step leaves the run open.
LEMMA OpenEnding ==
  ASSUME NEW j, ~j.completed, NEW d, d.pc # "complete", d.outcome # "Completed",
         NEW st, st = "Closing" => Quiet(j)
  PROVE  Ending(j, d, st)
BY DEF Ending

\* Steps of the drive keep the endings.
LEMMA DriverEndings ==
  ASSUME TypeInv, Coherent, Faithful, Shaped, Endings, Driver
  PROVE  Endings'
<1>1. drv \in DriverType /\ journal \in JournalType /\ mem \in MemType BY CounterTypes
<1>2. ~At("none")
  BY DEF Driver, Launch, ResumeFails, ResolveSuspended, StartRun, StartFails, BeginTurn,
         ModelAnswers, ModelFails, CandidateValid, CandidateInvalid, GateDefers, GateAdmits,
         GateFails, StartTool, ToolsReturn, HandlerDefers, CommitResult, EndTurn, HookRefuses,
         HookEnds, HookInjects, InjectMessages, CompleteRun, SuspendRun, At
<1>3. drv.outcome = "none"
  BY DEF Driver, Launch, ResumeFails, ResolveSuspended, StartRun, StartFails, BeginTurn,
         ModelAnswers, ModelFails, CandidateValid, CandidateInvalid, GateDefers, GateAdmits,
         GateFails, StartTool, ToolsReturn, HandlerDefers, CommitResult, EndTurn, HookRefuses,
         HookEnds, HookInjects, InjectMessages, CompleteRun, SuspendRun, At, Shaped, Over
<1>4. Live => /\ Still(journal) /\ Ending(journal, drv, state) /\ mem.queue = journal.queue
              /\ journal.run # NoRun /\ ~journal.completed
  BY <1>2, <1>3, GoingOn DEF Endings, Faithful, Mirrors
\* nothing is appended
<1>5. ASSUME UNCHANGED <<state, journal, lock>>,
             drv'.pc # "complete", drv'.outcome # "Completed"
      PROVE  Endings'
  <2>1. Live' => Ending(journal, drv', state') BY <1>4, <1>5, OpenEnding DEF Ending, Live
  <2> QED BY <1>5, <2>1, QuietEndings
\* an event that does not complete the run
<1>6. ASSUME NEW j, NEW m, NEW d, Emit(j, m, d), d.pc # "complete", d.outcome # "Completed",
             Live => /\ j.run = journal.run /\ j.completed = journal.completed
                     /\ j.queue \subseteq journal.queue
      PROVE  Endings'
  <2>1. Live => Still(j) /\ Ending(j, d, state)
    <3> SUFFICES ASSUME Live PROVE Still(j) /\ Ending(j, d, state)
      OBVIOUS
    <3>1. state = "Closing" => Quiet(j) BY <1>4, <1>6, QuietKept DEF Ending
    <3>2. Still(j) BY <1>4, <1>6, EndingKept
    <3>3. ~j.completed BY <1>4, <1>6
    <3> QED BY <1>6, <3>1, <3>2, <3>3, OpenEnding
  <2> QED BY <1>2, <1>6, <2>1, EmitEndings
<1>7. CASE \/ Launch \/ ResumeFails \/ ResolveSuspended \/ StartFails \/ BeginTurn \/ ModelFails
           \/ CandidateValid \/ GateDefers \/ GateAdmits \/ GateFails \/ ToolsReturn
           \/ HandlerDefers \/ HookRefuses
  <2>1. UNCHANGED <<state, journal, lock>>
    BY <1>7 DEF Launch, ResumeFails, ResolveSuspended, StartFails, BeginTurn, ModelFails,
                CandidateValid, GateDefers, GateAdmits, GateFails, ToolsReturn, HandlerDefers,
                HookRefuses, Loop, Leave, Undriven
  <2>2. drv'.pc # "complete" /\ drv'.outcome # "Completed" BY <1>1, <1>3, <1>7
    DEF Launch, ResumeFails, ResolveSuspended, StartFails, BeginTurn, ModelFails,
        CandidateValid, GateDefers, GateAdmits, GateFails, ToolsReturn, HandlerDefers,
        HookRefuses, Loop, Leave, Goto, Outcome, AfterTools, DriverType
  <2> QED BY <1>5, <2>1, <2>2
<1>8. CASE StartRun
  <2> DEFINE j == RunStarted(journal)
             d == [drv EXCEPT !.pc = drv.next]
  <2>1. Emit(j, [mem EXCEPT !.seen = @ \/ mem.resuming], d) BY <1>8 DEF StartRun
  <2>2. d.pc # "complete" /\ d.outcome # "Completed" BY <1>1, <1>3 DEF DriverType
  <2>3. j.run = journal.run /\ j.completed = journal.completed /\ j.queue = journal.queue
    BY <1>1 DEF RunStarted, JournalType
  <2> HIDE DEF d, j
  <2> QED BY <1>6, <2>1, <2>2, <2>3
<1>9. ASSUME NEW n \in 0..Cardinality(Calls), ModelAnswers(n)
      PROVE  Endings'
  <2> DEFINE calls == (journal.calls + 1)..(journal.calls + n)
             j == AssistantCommitted(journal, calls)
             m == [mem EXCEPT !.open = calls, !.tail = "assistant"]
             d == [drv EXCEPT !.used = @ + 1, !.cand = FALSE, !.fatal = FALSE,
                              !.pc = IF n = 0 THEN "evaluate" ELSE "gate"]
  <2>1. Emit(j, m, d) BY <1>9 DEF ModelAnswers
  <2>2. d.pc # "complete" /\ d.outcome # "Completed" BY <1>1, <1>3 DEF DriverType
  <2> HIDE DEF calls
  <2>3. j.run = journal.run /\ j.completed = journal.completed /\ j.queue = journal.queue
    BY <1>1 DEF AssistantCommitted, JournalType
  <2> HIDE DEF d, j, m
  <2> QED BY <1>6, <2>1, <2>2, <2>3
<1>10. CASE CandidateInvalid
  <2>1. PICK fatal \in BOOLEAN :
          Emit(UserMessage(journal), [mem EXCEPT !.tail = "user", !.inject = {}],
               [drv EXCEPT !.pc = "ended", !.fatal = fatal])
    BY <1>10 DEF CandidateInvalid
  <2> DEFINE j == UserMessage(journal)
             d == [drv EXCEPT !.pc = "ended", !.fatal = fatal]
  <2>2. d.pc # "complete" /\ d.outcome # "Completed" BY <1>1, <1>3 DEF DriverType
  <2>3. j.run = journal.run /\ j.completed = journal.completed /\ j.queue = journal.queue
    BY <1>1 DEF UserMessage, JournalType
  <2>4. Emit(j, [mem EXCEPT !.tail = "user", !.inject = {}], d) BY <2>1
  <2> HIDE DEF d, j
  <2> QED BY <1>6, <2>2, <2>3, <2>4
<1>11. CASE StartTool
  <2>1. PICK c \in drv.todo :
          Emit(ToolStarted(journal, c), [mem EXCEPT !.started = @ \cup {c}],
               [drv EXCEPT !.todo = @ \ {c}])
    BY <1>11 DEF StartTool
  <2> DEFINE j == ToolStarted(journal, c)
             m == [mem EXCEPT !.started = @ \cup {c}]
             d == [drv EXCEPT !.todo = @ \ {c}]
  <2>2. d.pc = "exec" /\ d.outcome # "Completed"
    BY <1>1, <1>3, <1>11 DEF StartTool, At, DriverType
  <2>3. j.run = journal.run /\ j.completed = journal.completed /\ j.queue = journal.queue
    BY <1>1 DEF ToolStarted, JournalType
  <2>4. Emit(j, m, d) BY <2>1
  <2> HIDE DEF d, j, m
  <2> QED BY <1>6, <2>2, <2>3, <2>4
<1>12. CASE CommitResult
  <2>1. At("results") BY <1>12 DEF CommitResult
  <2>2. CASE Loop("ended")
    <3>1. UNCHANGED <<state, journal, lock>> /\ drv'.pc = "ended" /\ drv'.outcome = "none"
      BY <1>1, <1>3, <2>2 DEF Loop, Goto, Undriven, DriverType
    <3> QED BY <1>5, <3>1
  <2>3. ASSUME NEW c \in mem.open,
               Emit(ToolResult(journal, c),
                    [mem EXCEPT !.open = @ \ {c}, !.tail = "tool"], drv)
        PROVE  Endings'
    <3>1. /\ ToolResult(journal, c).run = journal.run
          /\ ToolResult(journal, c).completed = journal.completed
          /\ ToolResult(journal, c).queue = journal.queue
      BY <1>1 DEF ToolResult, JournalType
    <3>2. drv.pc # "complete" /\ drv.outcome # "Completed" BY <1>3, <2>1 DEF At
    <3> QED BY <1>6, <2>3, <3>1, <3>2
  <2> QED BY <1>12, <2>2, <2>3 DEF CommitResult
<1>13. CASE EndTurn
  <2> DEFINE j == UsageRecorded(journal, drv.used, mem.usage + Delta)
             m == [mem EXCEPT !.usage = mem.usage + Delta, !.last = drv.used]
             d == IF drv.fatal THEN [drv EXCEPT !.pc = "return", !.outcome = "Failed"]
                               ELSE [drv EXCEPT !.pc = "hook"]
  <2>1. Emit(j, m, d) BY <1>13 DEF EndTurn
  <2>2. d.pc # "complete" /\ d.outcome # "Completed" BY <1>1, <1>3 DEF DriverType
  <2>3. j.run = journal.run /\ j.completed = journal.completed /\ j.queue = journal.queue
    BY <1>1 DEF UsageRecorded, JournalType
  <2> HIDE DEF d, j, m
  <2> QED BY <1>6, <2>1, <2>2, <2>3

<1>14. CASE HookEnds
  <2>1. /\ UNCHANGED <<mem, journal, lock>> /\ state = "Running" /\ Boundary = {}
        /\ drv' = [drv EXCEPT !.pc = IF drv.cand THEN "complete" ELSE "turn"]
        /\ state' = IF drv.cand THEN "Closing" ELSE state
    BY <1>14 DEF HookEnds, Goto, Undriven
  <2>2. drv'.pc = (IF drv.cand THEN "complete" ELSE "turn") /\ drv'.outcome = "none"
    BY <1>1, <1>3, <2>1 DEF DriverType
  <2>3. lock /\ drv.cand => Quiet(journal)
    BY <1>1, <1>4, <2>1, HookFindsNothing DEF Quiet, Live, Attached, Busy
  <2>4. Live' => Ending(journal, drv', state')
    BY <1>4, <2>1, <2>2, <2>3 DEF Ending, Live, Attached, Busy
  <2> QED BY <2>1, <2>4, QuietEndings
<1>15. CASE HookInjects
  <2> DEFINE j == QueueDrained(journal, Ids(Boundary))
             m == [mem EXCEPT !.queue = Without(@, Ids(Boundary)), !.inject = Boundary]
             d == [drv EXCEPT !.pc = "inject"]
  <2>1. /\ state = "Running" /\ UNCHANGED lock
        /\ \/ Commit(j, m, "Running") /\ drv' = d
           \/ AppendError(j)
    BY <1>15 DEF HookInjects, Undriven, Goto
  <2>2. d.pc = "inject" /\ d.outcome = "none" BY <1>1, <1>3 DEF DriverType
  <2>3. j.run = journal.run /\ j.completed = journal.completed /\ j.queue \subseteq journal.queue
    BY <1>1 DEF QueueDrained, JournalType, Without
  <2> HIDE DEF d, j, m
  <2>4. lock => ~j.completed BY <1>4, <2>1, <2>3 DEF Live, Attached, Busy
  <2>5. lock => Still(j) /\ Ending(j, d, "Running")
    BY <1>4, <2>1, <2>2, <2>3, <2>4, EndingKept, OpenEnding DEF Live, Attached, Busy
  <2>6. state' = "Running" => drv' = d BY <2>1 DEF AppendError
  <2> QED BY <2>1, <2>5, <2>6, BatchEndings
<1>16. CASE InjectMessages
  <2> DEFINE j == InputsApplied(journal, mem.inject)
             m == [mem EXCEPT !.applied = Into(@, Ids(mem.inject), mem.run),
                              !.tail = "user", !.inject = {}]
             d == [drv EXCEPT !.pc = "turn"]
  <2>1. Emit(j, m, d) BY <1>16 DEF InjectMessages
  <2>2. d.pc # "complete" /\ d.outcome # "Completed" BY <1>1, <1>3 DEF DriverType
  <2>3. j.run = journal.run /\ j.completed = journal.completed /\ j.queue = journal.queue
    BY <1>1 DEF InputsApplied, JournalType
  <2> HIDE DEF d, j, m
  <2> QED BY <1>6, <2>1, <2>2, <2>3
<1>17. CASE CompleteRun
  <2> DEFINE j == RunCompleted(journal)
             d == [drv EXCEPT !.pc = "return", !.outcome = "Completed"]
  <2>1. At("complete") /\ Emit(j, mem, d) BY <1>17 DEF CompleteRun
  <2>2. d.pc = "return" /\ d.outcome = "Completed" BY <1>1 DEF DriverType
  <2>3. /\ j.run = journal.run /\ j.queue = journal.queue
        /\ j.completed = (journal.run # NoRun)
    BY <1>1 DEF RunCompleted, JournalType
  <2> HIDE DEF d, j
  <2>4. Live => Still(j) /\ Ending(j, d, state)
    BY <1>4, <2>1, <2>2, <2>3 DEF Still, Ending, Quiet, At
  <2> QED BY <1>2, <2>1, <2>4, EmitEndings
<1>18. CASE SuspendRun
  <2> DEFINE susp == [kind |-> drv.kind, id |-> journal.susps + 1, used |-> drv.used]
             j == RunSuspended(journal, susp)
             m == [mem EXCEPT !.susp = susp]
             d == [drv EXCEPT !.pc = "return", !.outcome = "Suspended"]
  <2>1. Emit(j, m, d) BY <1>18 DEF SuspendRun
  <2>2. d.pc = "return" /\ d.outcome = "Suspended" BY <1>1 DEF DriverType
  <2> HIDE DEF susp
  <2>3. j.run = journal.run /\ j.completed = journal.completed /\ j.queue = journal.queue
    BY <1>1 DEF RunSuspended, JournalType
  <2> HIDE DEF d, j, m
  <2> QED BY <1>6, <2>1, <2>2, <2>3
<1>19. QED
  BY <1>7, <1>8, <1>9, <1>10, <1>11, <1>12, <1>13, <1>14, <1>15, <1>16, <1>17, <1>18 DEF Driver

\* An idle session has no run whose end is near.
LEMMA IdleEnding ==
  ASSUME NEW j, j.run = NoRun, NEW d, d.pc = "none", d.outcome = "none"
  PROVE  Ending(j, d, "Idle")
BY DEF Ending

\* Settling a run keeps the endings: what is still queued for a run that did not
\* complete is cancelled with it.
LEMMA FinishEndings ==
  ASSUME TypeInv, Coherent, Faithful, Shaped, Endings, Finish
  PROVE  Endings'
<1>1. ~At("none") /\ drv.pc \in Over /\ UNCHANGED lock
  BY DEF Finish, FinishFaulted, FinishInterrupted, FinishBounced, FinishUnusable,
         FinishSuspended, FinishClosed, SettleInterrupt, Settling, Loop, Undriven, At, Over
<1>2. /\ JournalOK(journal) /\ MemOK(mem) /\ journal \in JournalType /\ mem \in MemType
      /\ drv \in DriverType /\ Used(mem) \in Nat
  BY CounterTypes, UsedType
<1>3. lock /\ state # "Faulted" =>
         /\ Live /\ mem.usage = journal.usage /\ mem.queue = journal.queue
         /\ journal.run # NoRun /\ Ending(journal, drv, state)
  BY <1>1, DrivenMirrors DEF Mirrors, Endings
<1>4. Still(journal) /\ NoDriver.pc = "none" /\ NoDriver.outcome = "none"
  BY DEF Endings, NoDriver
<1>5. PersistFault => Endings'
  <2> DEFINE j == FaultRecorded(journal)
  <2>1. j.run = journal.run /\ j.queue = journal.queue /\ j.completed = journal.completed
    BY <1>2 DEF FaultRecorded, JournalType
  <2> HIDE DEF j
  <2>2. PersistFault => journal' \in {journal, j} /\ ~Live'
    BY DEF PersistFault, Live, Attached, Busy, j
  <2>3. Still(j) BY <1>4, <2>1, EndingKept
  <2> QED BY <1>4, <2>2, <2>3 DEF Endings, Still, Quiet
<1>6. ASSUME NothingToInterrupt PROVE Endings'
  <2>1. UNCHANGED <<state, journal>> /\ ~Live
    BY <1>1, <1>3, <1>6, DrivenRun DEF NothingToInterrupt, Live, Attached, Busy
  <2> QED BY <1>1, <2>1 DEF Endings, Still, Quiet, Live
\* the driver is gone, and the session is idle
<1>7. ASSUME NEW j, NEW m, Commit(j, m, "Idle") \/ AppendError(j),
             lock => j.run = NoRun /\ Quiet(j), drv' = NoDriver
      PROVE  Endings'
  <2>1. lock => Still(j) /\ Ending(j, NoDriver, "Idle") BY <1>4, <1>7, IdleEnding DEF Still
  <2> QED BY <1>1, <1>7, <2>1, BatchEndings
<1>8. CASE FinishFaulted
  BY <1>8 DEF FinishFaulted, Endings, Still, Quiet, Live, Attached, Busy
<1>9. CASE FinishInterrupted
  <2>1. /\ drv'.pc = "settle" /\ drv'.outcome = drv.outcome /\ UNCHANGED <<state, journal>>
        /\ state # "Faulted"
    BY <1>2, <1>9 DEF FinishInterrupted, Loop, Goto, DriverType
  <2>2. Live' => Ending(journal, drv', state') BY <1>1, <1>3, <2>1 DEF Ending, Live
  <2> QED BY <2>1, <2>2, QuietEndings
<1>10. CASE FinishBounced
  <2>1. /\ state' = "Suspended" /\ drv' = NoDriver /\ UNCHANGED journal
        /\ drv.outcome = "Rejected" /\ state # "Faulted"
    BY <1>10 DEF FinishBounced, Settling, Bounced, Finished
  <2>2. Live' => ~journal.completed BY <1>1, <1>2, <1>3, <2>1 DEF Ending, Live, JournalType
  <2>3. Live' => Ending(journal, NoDriver, "Suspended") BY <1>4, <2>2, OpenEnding
  <2> QED BY <2>1, <2>3, QuietEndings
<1>11. CASE FinishUnusable BY <1>5, <1>11 DEF FinishUnusable
<1>12. CASE FinishSuspended
  <2> DEFINE session == mem.usage + (drv.used - mem.last)
             j == UsageRecorded(journal, drv.used, session)
             m == [mem EXCEPT !.usage = session, !.last = drv.used, !.resuming = FALSE]
  <2>1. drv.outcome = "Suspended" /\ drv' = NoDriver /\ state # "Faulted"
    BY <1>12 DEF FinishSuspended, Settling, Finished
  <2>2. lock => Ending(journal, NoDriver, "Suspended")
    BY <1>2, <1>3, <1>4, <2>1, OpenEnding DEF Ending, JournalType
  <2>3. CASE drv.used = mem.last
    <3>1. state' = "Suspended" /\ UNCHANGED journal BY <1>12, <2>3 DEF FinishSuspended
    <3> QED BY <1>1, <2>1, <2>2, <3>1, QuietEndings DEF Live
  <2>4. CASE drv.used # mem.last
    <3>1. Commit(j, m, "Suspended") \/ AppendError(j)
      BY <1>12, <2>4 DEF FinishSuspended, Charged, Commit
    <3>2. j.run = journal.run /\ j.queue = journal.queue /\ j.completed = journal.completed
      BY <1>2 DEF UsageRecorded, JournalType
    <3> HIDE DEF j, m
    <3>3. lock => Still(j) /\ Ending(j, NoDriver, "Suspended")
      BY <1>4, <2>2, <3>2, EndingKept
    <3> QED BY <1>1, <2>1, <3>1, <3>3, BatchEndings
  <2> QED BY <2>3, <2>4
<1>13. CASE FinishClosed
  <2> DEFINE status  == IF drv.outcome = "Completed" THEN "Completed" ELSE "Failed"
             cancels == IF status = "Completed" THEN {} ELSE RunScopedIds(mem.queue)
             j == RunClosed(QueueCancelled(Charged(journal, mem, Used(mem)), cancels), status)
             m == [Detached(mem) EXCEPT !.usage = @ + (Used(mem) - mem.last),
                                        !.queue = Without(@, cancels)]
  <2>1. /\ state # "Faulted" /\ Used(mem) >= mem.last
        /\ Commit(j, m, "Idle") \/ AppendError(j)
        /\ drv' = NoDriver
    BY <1>13 DEF FinishClosed, Settling, Finished
  <2>2. cancels \in SUBSET Inputs
    BY <1>2, IdsAreInputs DEF MemType, RunScopedIds, OfKind, Ids
  <2>3. drv.outcome # "Completed" => cancels = RunScopedIds(mem.queue)
    OBVIOUS
  <2> HIDE DEF status, cancels, m
  <2>4. lock => j.run = NoRun /\ j.queue = Without(journal.queue, cancels)
    BY <1>2, <1>3, <2>1, <2>2, ClosedFields
  <2> HIDE DEF j
  <2>5. lock /\ drv.outcome = "Completed" => Quiet(journal)
    BY <1>3, <1>4, <2>1 DEF Ending, Still
  <2>6. lock => Quiet(j)
    BY <1>3, <2>1, <2>3, <2>4, <2>5, QuietKept, QuietCancelled DEF Without
  <2> QED BY <1>7, <2>1, <2>4, <2>6
<1>14. CASE SettleInterrupt
  <2>1. CASE NothingToInterrupt BY <1>6, <2>1
  <2>2. CASE Used(mem) >= mem.last /\ FinishInterrupt(Used(mem))
    <3> DEFINE j == InterruptBatch(mem, Used(mem))
               m == AfterInterrupt(mem, Used(mem))
    <3>1. /\ state # "Faulted" /\ drv' = NoDriver
          /\ Commit(j, m, "Idle") \/ AppendError(j)
      BY <1>14, <2>2 DEF FinishInterrupt, SettleInterrupt, Finished
    <3>2. lock => /\ j.run = NoRun
                  /\ j.queue = Without(journal.queue, RunScopedIds(mem.queue))
      BY <1>2, <1>3, <2>2, <3>1, InterruptedFields
    <3> HIDE DEF m, j
    <3>3. lock => Quiet(j) BY <1>3, <3>1, <3>2, QuietCancelled
    <3> QED BY <1>7, <3>1, <3>2, <3>3
  <2>3. CASE PersistFault BY <1>5, <2>3
  <2> QED BY <1>14, <2>1, <2>2, <2>3 DEF SettleInterrupt
<1>15. QED BY <1>8, <1>9, <1>10, <1>11, <1>12, <1>13, <1>14 DEF Finish

\* So does settling an interrupted suspension.
LEMMA SettleSuspendedEndings ==
  ASSUME TypeInv, Coherent, Faithful, Shaped, Endings, SettleSuspended
  PROVE  Endings'
<1>1. /\ settler /\ UNCHANGED <<drv, lock>> /\ state # "Down" /\ Still(journal)
      /\ JournalOK(journal) /\ MemOK(mem) /\ mem.last \in Nat
  BY CounterTypes DEF SettleSuspended, Coherent, GoneIsQuiet, Endings
<1>2. CASE NothingToInterrupt
  BY <1>1, <1>2 DEF NothingToInterrupt, Endings, Still, Ending, Quiet, Live
<1>3. CASE FinishInterrupt(mem.last)
  <2> DEFINE j == InterruptBatch(mem, mem.last)
             m == AfterInterrupt(mem, mem.last)
  <2>1. /\ Commit(j, m, "Idle") \/ AppendError(j)
        /\ state # "Faulted"
    BY <1>3 DEF FinishInterrupt
  <2>2. lock => Live
    BY <1>1, <2>1 DEF Live, Coherent, ClosedIsUnlocked, TypeInv, States, Attached, Busy
  <2>3. lock => /\ drv.pc = "none" /\ drv.outcome = "none"
                /\ mem.usage = journal.usage /\ mem.queue = journal.queue
    BY <1>1, <2>2 DEF Live, Coherent, LiveRun, Shaped, Over, Faithful, Mirrors
  <2>4. lock => /\ j.run = NoRun
                /\ j.queue = Without(journal.queue, RunScopedIds(mem.queue))
    BY <1>1, <2>3, InterruptedFields
  <2> HIDE DEF m, j
  <2>5. lock => Quiet(j) BY <2>3, <2>4, QuietCancelled
  <2>6. lock => Still(j) /\ Ending(j, drv, "Idle") BY <2>3, <2>4, <2>5, IdleEnding DEF Still
  <2> QED BY <1>1, <2>1, <2>6, BatchEndings
<1> QED BY <1>2, <1>3 DEF SettleSuspended

\* Client calls keep the endings: steers and follow-ups are accepted while the
\* session is running, and so before the hook has closed the run to input.
LEMMA ClientEndings ==
  ASSUME TypeInv, Coherent, Faithful, Shaped, Endings, Client
  PROVE  Endings'
<1>1. /\ journal \in JournalType /\ mem \in MemType /\ Still(journal)
      /\ journal.completed \in BOOLEAN
  BY CounterTypes DEF Endings, JournalType
<1>2. Live => /\ mem.queue = journal.queue /\ Ending(journal, drv, state)
              /\ state \in {"Idle", "Suspended"} => drv.pc = "none"
  BY DEF Faithful, Mirrors, Endings, Coherent, LiveRun, Live
\* a run opens
<1>3. ASSUME NEW j, NEW m, NEW limit, NEW k \in JournalType,
             j.run = k.runs + 1, ~j.completed, UNCHANGED lock,
             \/ Commit(j, m, "Running") /\ drv' = [NoDriver EXCEPT !.pc = "start"]
             \/ AppendError(j)
      PROVE  Endings'
  <2> DEFINE d == [NoDriver EXCEPT !.pc = "start"]
  <2>1. d.pc = "start" /\ d.outcome = "none" BY DEF NoDriver
  <2>2. j.run # NoRun BY <1>3 DEF JournalType, NoRun
  <2> HIDE DEF d
  <2>3. Still(j) /\ Ending(j, d, "Running") BY <1>3, <2>1, <2>2, OpenEnding DEF Still
  <2>4. state' = "Running" => drv' = d BY <1>3 DEF AppendError, d
  <2> QED BY <1>3, <2>3, <2>4, BatchEndings
<1>4. CASE Start
  <2> DEFINE run    == journal.runs + 1
             limit  == Remaining(mem.usage)
             next   == OfKind(mem.queue, {"next_turn"})
             j      == UserMessage(InputsApplied(QueueDrained(RunOpened(journal, run, limit),
                                                              Ids(next)), next))
             m      == [NewRun(mem, run, limit) EXCEPT
                          !.queue = Without(@, Ids(next)), !.tail = "user",
                          !.applied = Into(@, Ids(next), run)]
  <2>1. /\ UNCHANGED lock
        /\ \/ Commit(j, m, "Running") /\ drv' = [NoDriver EXCEPT !.pc = "start"]
           \/ AppendError(j)
    BY <1>4 DEF Start, Unclient
  <2>2. j.run = journal.runs + 1 /\ ~j.completed
    BY <1>1 DEF UserMessage, InputsApplied, QueueDrained, RunOpened, JournalType
  <2> HIDE DEF j, m
  <2> QED BY <1>1, <1>3, <2>1, <2>2
<1>5. ASSUME NEW id \in Inputs, NEW kind \in QueueKinds, NEW target \in 0..MaxRuns,
             Accept(id, kind, target)
      PROVE  Endings'
  <2> DEFINE entry == [id |-> id, kind |-> kind, at |-> Len(journal.accepted) + 1]
             j == QueueAccepted(journal, entry, target)
             m == [mem EXCEPT !.queue = @ \cup {entry}]
  <2>1. /\ Commit(j, m, state) \/ AppendError(j)
        /\ state \in Attached /\ state # "Faulted" /\ UNCHANGED <<lock, drv>>
        /\ kind \in RunScoped => state = "Running"
    BY <1>5 DEF Accept, Acceptable, Unclient, Attached, Busy
  <2>2. /\ j.queue = journal.queue \cup {entry} /\ j.run = journal.run
        /\ j.completed = journal.completed
    BY <1>1 DEF QueueAccepted, JournalType
  <2>3. entry.kind = kind
    OBVIOUS
  <2> HIDE DEF j, m, entry
  <2>4. kind \notin RunScoped /\ Quiet(journal) => Quiet(j) BY <2>2, <2>3 DEF Quiet, OfKind
  <2>5. lock => Still(j) /\ Ending(j, drv, state)
    <3> SUFFICES ASSUME lock PROVE Still(j) /\ Ending(j, drv, state)
      OBVIOUS
    <3>1. Live /\ Ending(journal, drv, state) BY <1>2, <2>1 DEF Live
    <3>2. CASE kind \notin RunScoped BY <1>1, <2>2, <2>4, <3>1, <3>2 DEF Still, Ending
    <3>3. CASE state = "Running"
      <4>1. journal.run # NoRun BY <3>1, <3>3 DEF Live, Coherent, LiveRun, Busy
      <4>2. ~j.completed /\ drv.pc # "complete" /\ drv.outcome # "Completed"
        BY <1>1, <2>2, <3>1, <3>3, <4>1 DEF Ending
      <4> QED BY <2>2, <3>3, <4>1, <4>2, OpenEnding DEF Still
    <3> QED BY <2>1, <3>2, <3>3
  <2> QED BY <2>1, <2>5, BatchEndings
<1>6. ASSUME NEW target \in 0..MaxRuns, Interrupt(target)
      PROVE  Endings'
  <2> DEFINE j == InterruptAccepted(journal, target)
  <2>1. /\ state \in Attached /\ UNCHANGED <<lock, drv>>
        /\ \/ AppendError(j)
           \/ Commit(j, mem, "Interrupting")
           \/ state' = "Interrupting" /\ UNCHANGED <<mem, journal>>
    BY <1>6 DEF Interrupt, Attached, Busy
  <2>2. j.run = journal.run /\ j.queue = journal.queue /\ j.completed = journal.completed
    BY <1>1 DEF InterruptAccepted, JournalType
  <2> HIDE DEF j
  <2>3. lock => Ending(journal, drv, "Interrupting") BY <1>2, <2>1 DEF Ending, Live
  <2>4. lock => Still(j) /\ Ending(j, drv, "Interrupting") BY <1>1, <2>2, <2>3, EndingKept
  <2>5. CASE AppendError(j) \/ Commit(j, mem, "Interrupting")
    BY <2>1, <2>4, <2>5, BatchEndings
  <2>6. CASE state' = "Interrupting" /\ UNCHANGED <<mem, journal>>
    BY <2>1, <2>3, <2>6, QuietEndings DEF Live
  <2> QED BY <2>1, <2>5, <2>6
<1>7. ASSUME NEW id, NEW approved, Resume(id, approved)
      PROVE  Endings'
  <2> DEFINE m == [mem EXCEPT !.resuming = TRUE, !.seen = FALSE]
             d == [NoDriver EXCEPT !.pc = "resolve", !.todo = approved,
                     !.used = mem.susp.used, !.resumed = TRUE, !.kind = mem.susp.kind]
  <2>1. /\ state = "Suspended" /\ UNCHANGED lock
        /\ \/ Commit(journal, m, "Running") /\ drv' = d
           \/ AppendError(journal)
    BY <1>7 DEF Resume, Resumable, Unclient
  <2>2. d.pc = "resolve" /\ d.outcome = "none" BY DEF NoDriver
  <2> HIDE DEF m, d
  <2>3. lock => ~journal.completed
    BY <1>1, <1>2, <2>1 DEF Live, Attached, Ending, Coherent, LiveRun, Shaped, Over
  <2>4. lock => Ending(journal, d, "Running") BY <2>2, <2>3, OpenEnding
  <2>5. state' = "Running" => drv' = d BY <2>1 DEF AppendError
  <2> QED BY <1>1, <2>1, <2>4, <2>5, BatchEndings
<1>8. ASSUME NEW id, ResumeIndeterminate(id)
      PROVE  Endings'
  <2> DEFINE run    == journal.runs + 1
             limit  == Remaining(mem.usage)
             closed == RunClosed(journal, "Interrupted")
             paired == FrontierClosed(closed)
             j      == RunOpened(paired, run, limit)
             m      == [NewRun(mem, run, limit) EXCEPT
                          !.open = {}, !.tail = IF mem.open = {} THEN @ ELSE "tool",
                          !.susp = NoSuspension]
  <2>1. /\ UNCHANGED lock
        /\ \/ Commit(j, m, "Running") /\ drv' = [NoDriver EXCEPT !.pc = "start"]
           \/ AppendError(j)
    BY <1>8 DEF ResumeIndeterminate, Unclient
  <2>2. closed \in JournalType /\ paired \in JournalType
    BY <1>1, RunClosedType, FrontierClosedType
  <2> HIDE DEF closed, paired, m, limit
  <2>3. j.run = journal.runs + 1 /\ ~j.completed BY <2>2 DEF RunOpened, JournalType
  <2> HIDE DEF j
  <2> QED BY <1>1, <1>3, <2>1, <2>3
<1>9. QED BY <1>4, <1>5, <1>6, <1>7, <1>8 DEF Client

\* A recovered handle has no run whose end is near.
LEMMA ReopenEndings ==
  ASSUME NEW j, NEW m, NEW s, NEW d, Reopen(j, m, s, d), Still(j), Ending(j, d, s)
  PROVE  Endings'
BY DEF Reopen, Endings, Still, Ending, Quiet

\* Recovery keeps the endings: it closes a run whose completion is recorded as
\* completed, without a look at its queue.
LEMMA RecoverEndings ==
  ASSUME TypeInv, Coherent, Endings, Recover
  PROVE  Endings'
<1>1. /\ JournalOK(journal) /\ journal \in JournalType /\ Still(journal)
      /\ MemOK(Folded) /\ Folded.last = journal.last /\ Folded.last \in Nat
      /\ Folded.usage = journal.usage /\ Folded.queue = journal.queue
  BY CounterTypes, LoadedOK DEF Endings, Folded, Loaded, MemOK
<1>2. NoDriver.pc = "none" /\ NoDriver.outcome = "none" BY DEF NoDriver
<1>3. CASE RecoverInterrupted
  <2> DEFINE j == InterruptBatch(Folded, Folded.last)
  <2>1. j.run = NoRun /\ j.queue = Without(journal.queue, RunScopedIds(Folded.queue))
    BY <1>1, InterruptedFields
  <2>2. Reopen(j, AfterInterrupt(Folded, Folded.last), "Idle", NoDriver)
    BY <1>3 DEF RecoverInterrupted
  <2> HIDE DEF j
  <2>3. Quiet(j) BY <1>1, <2>1, QuietCancelled
  <2> QED BY <1>2, <2>1, <2>2, <2>3, IdleEnding, ReopenEndings DEF Still
<1>4. CASE RecoverCompleted
  <2> DEFINE j == RunClosed(journal, "Completed")
  <2>1. j.queue = journal.queue /\ j.run = NoRun BY <1>1, RunClosedFields DEF SamePlaces
  <2>2. Reopen(j, Detached(Folded), "Idle", NoDriver) /\ journal.completed
    BY <1>4 DEF RecoverCompleted
  <2> HIDE DEF j
  <2>3. Quiet(j) BY <1>1, <2>1, <2>2, QuietKept DEF Still
  <2> QED BY <1>2, <2>1, <2>2, <2>3, IdleEnding, ReopenEndings DEF Still
<1>5. CASE RecoverIdle BY <1>1, <1>2, <1>5, IdleEnding, ReopenEndings DEF RecoverIdle
<1>6. CASE RecoverSuspended
  <2>1. Ending(journal, NoDriver, "Suspended")
    BY <1>2, <1>6, OpenEnding DEF RecoverSuspended
  <2> QED BY <1>1, <1>6, <2>1, ReopenEndings DEF RecoverSuspended
<1>7. CASE RecoverInject
  <2> DEFINE j == InputsApplied(journal, journal.drained)
  <2>1. journal' = j /\ UNCHANGED lock /\ ~lock
    BY <1>7 DEF RecoverInject, RecoverOpenRun, Recovering, Coherent, GoneIsQuiet
  <2>2. j.run = journal.run /\ j.queue = journal.queue /\ j.completed = journal.completed
    BY <1>1 DEF InputsApplied, JournalType
  <2> HIDE DEF j
  <2>3. Still(j) BY <1>1, <2>2, EndingKept
  <2> QED BY <2>1, <2>3 DEF Endings, Still, Quiet, Live
<1>8. CASE RecoverIndeterminate
  <2> DEFINE susp == [kind |-> "indeterminate", id |-> journal.susps + 1, used |-> 0]
             j == RunSuspended(journal, susp)
             m == [Folded EXCEPT !.susp = susp]
  <2>1. Reopen(j, m, "Suspended", NoDriver) /\ ~journal.completed
    BY <1>8 DEF RecoverIndeterminate, RecoverOpenRun
  <2>2. j.run = journal.run /\ j.queue = journal.queue /\ j.completed = journal.completed
    BY <1>1 DEF RunSuspended, JournalType
  <2> HIDE DEF j, m, susp
  <2>3. Still(j) BY <1>1, <2>2, EndingKept
  <2>4. Ending(j, NoDriver, "Suspended") BY <1>2, <2>1, <2>2, OpenEnding
  <2> QED BY <2>1, <2>3, <2>4, ReopenEndings
<1>9. CASE RecoverContinue
  <2> DEFINE limit  == Remaining(journal.usage)
             paired == FrontierAbandoned(journal)
             j      == RunOpened(paired, journal.run, limit)
             m      == [NewRun(Folded, journal.run, limit) EXCEPT
                          !.open = {}, !.tail = IF journal.open = {} THEN @ ELSE "tool",
                          !.susp = NoSuspension]
             d      == [NoDriver EXCEPT !.pc = "launch",
                          !.next = IF m.tail = "assistant" THEN "evaluate" ELSE "turn"]
  <2>1. Reopen(j, m, "Running", d) /\ journal.run # NoRun
    BY <1>9 DEF RecoverContinue, RecoverOpenRun
  <2>2. paired \in JournalType BY <1>1, FrontierAbandonedType
  <2>3. d.pc = "launch" /\ d.outcome = "none" BY DEF NoDriver
  <2> HIDE DEF paired, m, d, limit
  <2>4. j.run = journal.run /\ ~j.completed BY <2>2 DEF RunOpened, JournalType
  <2> HIDE DEF j
  <2>5. Still(j) /\ Ending(j, d, "Running") BY <2>1, <2>3, <2>4, OpenEnding DEF Still
  <2> QED BY <2>1, <2>5, ReopenEndings
<1>10. QED BY <1>3, <1>4, <1>5, <1>6, <1>7, <1>8, <1>9 DEF Recover

\* Losing a handle writes nothing.
LEMMA OwnerEndings ==
  ASSUME Endings, Owner
  PROVE  Endings'
BY DEF Owner, Abandon, Close, Drop, Crash, NoHandle, Endings, Still, Quiet, Live, Attached, Busy

\* What is queued for a run is known at every moment of its end.
LEMMA EndingsInvariant == Spec => []Endings
<1>1. Init => Endings
  BY DEF Init, EmptyJournal, NoDriver, Endings, Still, Ending, Quiet, OfKind, NoRun
<1>2. TypeInv /\ Coherent /\ Faithful /\ Shaped /\ Endings /\ [Next]_vars => Endings'
  <2> SUFFICES ASSUME TypeInv, Coherent, Faithful, Shaped, Endings, [Next]_vars
               PROVE  Endings'
    OBVIOUS
  <2>1. CASE UNCHANGED vars BY <2>1 DEF vars, Endings, Still, Ending, Quiet, Live
  <2>2. CASE Next
    BY <2>2, ClientEndings, DriverEndings, FinishEndings, SettleSuspendedEndings,
       OwnerEndings, RecoverEndings DEF Next
  <2> QED BY <2>1, <2>2
<1> QED
  BY <1>1, <1>2, TypeInvariant, CoherentInvariant, FaithfulInvariant, ShapedInvariant, PTL
  DEF Spec

\* A session without a run holds no steer and no follow-up: a run that completed
\* was closed to input first, and every other end cancels what is left
\* (turnHook, finishExecution, finishInterrupt, Recover).
THEOREM NothingStranded == Spec => []NoStrandedInput
<1>1. Endings => NoStrandedInput BY DEF Endings, Still, Quiet, NoStrandedInput
<1> QED BY <1>1, EndingsInvariant, PTL

-----------------------------------------------------------------------------
(***************************************************************************)
(* What a run leaves behind.  Clean says of a journal that a run is not    *)
(* closed over drained inputs or open calls, and not suspended over        *)
(* drained inputs.  Carries says which of the two a drive may still hold:  *)
(* drained inputs between the hook and the injection only, open calls only *)
(* where it gives results or suspends.  A resumed drive that has not yet   *)
(* announced itself runs over a journal that still says suspended.         *)
(*                                                                         *)
(* The inputs are lost when a durable interrupt is recovered between the   *)
(* hook and the injection, and the calls when a valid resume fails: the    *)
(* invariant speaks of each where its switch is off.                       *)
(***************************************************************************)
Clean(j) ==
  /\ ~DurableInterrupts => j.interruptRun = NoRun
  /\ ~DurableInterrupts =>
       (j.run = NoRun \/ j.completed \/ j.state = "Suspended" => j.drained = {})
  /\ ~ResumesFail => (j.run = NoRun \/ j.completed => j.open = {})

Announced == Unopened \cup {"gate", "results", "suspend"}

Carries(j, m, d) ==
  /\ ~DurableInterrupts => m.inject = j.drained
  /\ d.pc # "inject" => m.inject = {}
  /\ d.pc \in Announced => j.state # "Suspended"
  /\ d.pc = "exec" /\ j.state = "Suspended" => d.resumed /\ ~m.seen
  /\ d.pc = "resolve" => d.resumed
  /\ d.pc = "resolve" \/ d.outcome = "Rejected" => m.resuming /\ ~m.seen
  /\ d.next \in {"results", "suspend"} => d.resumed
  /\ ~ResumesFail /\ d.pc \in {"start", "launch"} /\ d.next \in {"turn", "evaluate"}
       => j.open = {}
  /\ ~ResumesFail /\ d.outcome \in {"Failed", "Refused", "Completed"} => j.open = {}

Leftovers == Clean(journal) /\ (Live => Carries(journal, mem, drv))

\* Entries that neither open, close, suspend or complete a run nor drain an input
\* nor answer a call.
SameRest(j, k) ==
  /\ k.run = j.run /\ k.completed = j.completed /\ k.state = j.state
  /\ k.interruptRun = j.interruptRun /\ k.drained = j.drained /\ k.open = j.open

LEMMA RestKept ==
  ASSUME NEW j, NEW k, SameRest(j, k), NEW m, NEW d
  PROVE  (Clean(j) => Clean(k)) /\ (Carries(j, m, d) => Carries(k, m, d))
BY DEF SameRest, Clean, Carries

\* A step that appends nothing.
LEMMA QuietLeftovers ==
  ASSUME Leftovers, UNCHANGED journal, NEW m, NEW d, mem' = m, drv' = d,
         Live' => Carries(journal, m, d)
  PROVE  Leftovers'
BY DEF Leftovers, Clean, Carries

\* A batch of a client or of a finish.
LEMMA BatchLeftovers ==
  ASSUME Leftovers, NEW j, NEW m, NEW st, NEW d, Commit(j, m, st) \/ AppendError(j),
         UNCHANGED lock, lock => Clean(j) /\ Carries(j, m, d),
         state' = st => drv' = d, st # "Faulted"
  PROVE  Leftovers'
<1>1. Clean(journal)' BY DEF Leftovers, Commit, AppendError, Clean
<1>2. Live' => journal' = j /\ drv' = d /\ mem' = m /\ Carries(j, m, d)
  BY DEF Commit, AppendError, Live, Attached, Busy
<1>3. Live' => Carries(journal, mem, drv)' BY <1>2 DEF Carries
<1> QED BY <1>1, <1>3 DEF Leftovers

\* An event of the drive.
LEMMA EmitLeftovers ==
  ASSUME TypeInv, Coherent, Leftovers, ~At("none"), NEW j, NEW m, NEW d, Emit(j, m, d),
         Live => Clean(j) /\ Carries(j, m, d)
  PROVE  Leftovers'
<1>1. lock /\ state # "Faulted" => Live BY DrivenRun DEF Live, Attached
<1>2. Clean(journal)' BY <1>1 DEF Leftovers, Emit, Commit, AppendError, Clean
<1>3. Live' => journal' = j /\ drv' = d /\ mem' = m /\ Carries(j, m, d)
  BY <1>1 DEF Emit, Commit, AppendError, Live, Attached, Busy, Undriven
<1>4. Live' => Carries(journal, mem, drv)' BY <1>3 DEF Carries
<1> QED BY <1>2, <1>4 DEF Leftovers

\* Steps of the drive that change neither handle nor journal.
LEMMA QuietStepsLeftovers ==
  ASSUME TypeInv, Coherent, Faithful, Shaped, Frontiers, Leftovers,
         \/ Launch \/ ResumeFails \/ ResolveSuspended \/ StartFails \/ BeginTurn \/ ModelFails
         \/ CandidateValid \/ GateDefers \/ GateAdmits \/ GateFails \/ ToolsReturn
         \/ HandlerDefers \/ HookRefuses \/ HookEnds
  PROVE  Leftovers'
<1>1. drv \in DriverType BY DEF TypeInv
<1>2. Live => Carries(journal, mem, drv) /\ Front(journal, drv, state)
  BY DEF Leftovers, Frontiers
<1>3. /\ UNCHANGED <<journal, mem, lock>>
      /\ state' = state \/ (state = "Running" /\ state' = "Closing")
  BY DEF Launch, ResumeFails, ResolveSuspended, StartFails, BeginTurn, ModelFails,
         CandidateValid, GateDefers, GateAdmits, GateFails, ToolsReturn, HandlerDefers,
         HookRefuses, HookEnds, Loop, Leave, Undriven
<1>4. ASSUME Live => Carries(journal, mem, drv')
      PROVE  Leftovers'
  <2>1. Live' => Live BY <1>3 DEF Live, Attached, Busy
  <2> QED BY <1>3, <1>4, <2>1, QuietLeftovers
<1>5. drv.pc \notin Over => drv.outcome = "none" BY DEF Shaped
<1>6. CASE Launch \/ ResolveSuspended \/ StartFails \/ BeginTurn
  <2>1. /\ drv'.next = drv.next /\ drv'.resumed = drv.resumed
        /\ \/ /\ drv'.outcome = "none"
              /\ \/ At("launch") /\ drv'.pc \in {"start", "settle", "none"}
                 \/ At("resolve") /\ drv'.pc = "exec"
                 \/ At("turn") /\ drv'.pc = "model"
           \/ /\ drv'.pc = "return" /\ drv'.outcome \in {"Refused", "Interrupted", "Failed"}
              /\ At("turn") \/ (At("start") /\ ~drv.resumed)
    BY <1>1, <1>5, <1>6
    DEF Launch, ResolveSuspended, StartFails, BeginTurn, Loop, Leave, Goto, Outcome, DriverType,
        At, Over
  <2>2. drv.next \in {"turn", "evaluate", "results", "suspend"} BY <1>1 DEF DriverType
  <2> QED BY <1>2, <1>4, <2>1, <2>2 DEF Carries, Front, Unopened, Announced, At
<1>7. CASE ResumeFails
  <2>1. /\ At("resolve") /\ drv'.pc = "return" /\ drv'.next = drv.next
        /\ drv'.resumed = drv.resumed
        /\ drv'.outcome = "Rejected" \/ (ResumesFail /\ drv'.outcome \in {"Failed", "Refused"})
    BY <1>1, <1>7 DEF ResumeFails, Outcome, DriverType
  <2> QED BY <1>2, <1>4, <2>1 DEF Carries, Unopened, Announced, At
<1>8. CASE ModelFails \/ HookRefuses
  <2>1. /\ drv'.pc = "return" /\ drv'.next = drv.next /\ drv'.resumed = drv.resumed
        /\ drv'.outcome \in {"Failed", "Interrupted"} /\ drv.pc \in {"model", "hook"}
    BY <1>1, <1>8 DEF ModelFails, HookRefuses, Leave, Outcome, DriverType, At
  <2> QED BY <1>2, <1>4, <2>1 DEF Carries, Front, Unopened, Announced
<1>9. CASE CandidateValid \/ HookEnds
  <2>1. /\ drv'.pc \in {"ended", "complete", "turn"} /\ drv'.outcome = "none"
        /\ drv.pc \in {"evaluate", "hook"}
        /\ drv'.next = drv.next /\ drv'.resumed = drv.resumed
    BY <1>1, <1>5, <1>9 DEF CandidateValid, HookEnds, Goto, DriverType, At, Over
  <2> QED BY <1>2, <1>4, <2>1 DEF Carries, Unopened, Announced
<1>10. CASE GateDefers \/ GateAdmits \/ GateFails
  <2>1. /\ drv'.pc \in {"suspend", "exec", "results"} /\ drv'.outcome = "none" /\ At("gate")
        /\ drv'.next = drv.next /\ drv'.resumed = drv.resumed
    BY <1>1, <1>5, <1>10 DEF GateDefers, GateAdmits, GateFails, DriverType, At, Over
  <2> QED BY <1>2, <1>4, <2>1 DEF Carries, Unopened, Announced, At
<1>11. CASE ToolsReturn \/ HandlerDefers
  <2>1. /\ drv'.outcome = "none" /\ At("exec") /\ drv'.resumed = drv.resumed
        /\ \/ /\ drv'.pc = "start" /\ drv'.next \in {"results", "suspend"}
              /\ drv.resumed /\ ~mem.seen
           \/ /\ drv'.pc \in {"results", "suspend"} /\ drv'.next = drv.next
              /\ ~(drv.resumed /\ ~mem.seen)
    BY <1>1, <1>5, <1>11 DEF ToolsReturn, HandlerDefers, AfterTools, DriverType, At, Over
  <2> QED BY <1>2, <1>4, <2>1 DEF Carries, Unopened, Announced, At
<1> QED
  BY <1>6, <1>7, <1>8, <1>9, <1>10, <1>11

\* Inputs that the hook takes from a queue without drained inputs are the ones
\* that the journal drains.
LEMMA DrainedAreInjected ==
  ASSUME NEW j, Placed(j), NEW entries, entries \subseteq j.queue
  PROVE  Only(j.queue, Ids(entries)) = entries
BY DEF Placed, Only, Ids

\* Events of the drive.
LEMMA EventStepsLeftovers ==
  ASSUME TypeInv, Coherent, Faithful, Shaped, Frontiers, Endings, Leftovers,
         \/ StartRun \/ (\E n \in 0..Cardinality(Calls) : ModelAnswers(n)) \/ CandidateInvalid
         \/ StartTool \/ CommitResult \/ EndTurn \/ HookInjects \/ InjectMessages
         \/ CompleteRun \/ SuspendRun
  PROVE  Leftovers'
<1>1. drv \in DriverType /\ journal \in JournalType /\ mem \in MemType BY CounterTypes
<1>2. ~At("none") /\ drv.outcome = "none"
  BY DEF StartRun, ModelAnswers, CandidateInvalid, StartTool, CommitResult, EndTurn,
         HookInjects, InjectMessages, CompleteRun, SuspendRun, At, Shaped, Over
<1>3. Live => /\ Clean(journal) /\ Carries(journal, mem, drv) /\ Front(journal, drv, state)
              /\ mem.queue = journal.queue /\ Placed(journal)
              /\ journal.run # NoRun /\ ~journal.completed
  BY <1>2, GoingOn DEF Leftovers, Frontiers, Faithful, Mirrors
<1>4. CASE StartRun
  <2> DEFINE j == RunStarted(journal)
             m == [mem EXCEPT !.seen = @ \/ mem.resuming]
             d == [drv EXCEPT !.pc = drv.next]
  <2>1. Emit(j, m, d) /\ At("start") BY <1>4 DEF StartRun
  <2>2. /\ d.pc \in {"turn", "evaluate", "results", "suspend"} /\ d.outcome = "none"
        /\ d.next = drv.next /\ d.resumed = drv.resumed
    BY <1>1, <1>2 DEF DriverType
  <2>3. /\ j.run = journal.run /\ j.completed = journal.completed
        /\ j.interruptRun = journal.interruptRun /\ j.drained = journal.drained
        /\ j.open = journal.open /\ (journal.run # NoRun => j.state # "Suspended")
    BY <1>1 DEF RunStarted, JournalType
  <2>4. m.inject = mem.inject BY <1>1 DEF MemType
  <2> HIDE DEF d, j, m
  <2>5. Live => Clean(j) /\ Carries(j, m, d)
    BY <1>3, <2>1, <2>2, <2>3, <2>4 DEF Clean, Carries, At
  <2> QED BY <1>2, <2>1, <2>5, EmitLeftovers
<1>5. ASSUME NEW n \in 0..Cardinality(Calls), ModelAnswers(n)
      PROVE  Leftovers'
  <2> DEFINE calls == (journal.calls + 1)..(journal.calls + n)
             j == AssistantCommitted(journal, calls)
             m == [mem EXCEPT !.open = calls, !.tail = "assistant"]
             d == [drv EXCEPT !.used = @ + 1, !.cand = FALSE, !.fatal = FALSE,
                              !.pc = IF n = 0 THEN "evaluate" ELSE "gate"]
  <2>1. Emit(j, m, d) /\ At("model") BY <1>5 DEF ModelAnswers
  <2>2. /\ d.pc \in {"evaluate", "gate"} /\ d.outcome = "none"
        /\ d.next = drv.next /\ d.resumed = drv.resumed
    BY <1>1, <1>2 DEF DriverType
  <2> HIDE DEF calls
  <2>3. /\ j.run = journal.run /\ j.completed = journal.completed
        /\ j.interruptRun = journal.interruptRun /\ j.drained = journal.drained
        /\ j.state = journal.state
    BY <1>1 DEF AssistantCommitted, JournalType
  <2>4. m.inject = mem.inject BY <1>1 DEF MemType
  <2> HIDE DEF d, j, m
  <2>5. Live => Clean(j) /\ Carries(j, m, d)
    BY <1>3, <2>1, <2>2, <2>3, <2>4 DEF Clean, Carries, At, Announced, Unopened
  <2> QED BY <1>2, <2>1, <2>5, EmitLeftovers
<1>6. CASE CandidateInvalid
  <2>1. PICK fatal \in BOOLEAN :
          Emit(UserMessage(journal), [mem EXCEPT !.tail = "user", !.inject = {}],
               [drv EXCEPT !.pc = "ended", !.fatal = fatal])
    BY <1>6 DEF CandidateInvalid
  <2> DEFINE j == UserMessage(journal)
             m == [mem EXCEPT !.tail = "user", !.inject = {}]
             d == [drv EXCEPT !.pc = "ended", !.fatal = fatal]
  <2>2. Emit(j, m, d) /\ At("evaluate") BY <1>6, <2>1 DEF CandidateInvalid
  <2>3. /\ d.pc = "ended" /\ d.outcome = "none"
        /\ d.next = drv.next /\ d.resumed = drv.resumed
    BY <1>1, <1>2 DEF DriverType
  <2>4. SameRest(journal, j) BY <1>1 DEF UserMessage, JournalType, SameRest
  <2>5. m.inject = {} BY <1>1 DEF MemType
  <2> HIDE DEF d, j, m
  <2>6. Live => Carries(journal, m, d)
    BY <1>3, <2>2, <2>3, <2>5 DEF Carries, At, Announced, Unopened
  <2>7. Live => Clean(j) /\ Carries(j, m, d) BY <1>3, <2>4, <2>6, RestKept
  <2> QED BY <1>2, <2>2, <2>7, EmitLeftovers
<1>7. CASE StartTool
  <2>1. PICK c \in drv.todo :
          Emit(ToolStarted(journal, c), [mem EXCEPT !.started = @ \cup {c}],
               [drv EXCEPT !.todo = @ \ {c}])
    BY <1>7 DEF StartTool
  <2> DEFINE j == ToolStarted(journal, c)
             m == [mem EXCEPT !.started = @ \cup {c}]
             d == [drv EXCEPT !.todo = @ \ {c}]
  <2>2. Emit(j, m, d) /\ At("exec") BY <1>7, <2>1 DEF StartTool
  <2>3. /\ d.pc = "exec" /\ d.outcome = "none"
        /\ d.next = drv.next /\ d.resumed = drv.resumed
    BY <1>1, <1>2, <2>2 DEF DriverType, At
  <2>4. SameRest(journal, j) BY <1>1 DEF ToolStarted, JournalType, SameRest
  <2>5. m.inject = mem.inject /\ m.seen = mem.seen BY <1>1 DEF MemType
  <2> HIDE DEF d, j, m
  <2>6. Live => Carries(journal, m, d)
    BY <1>3, <2>2, <2>3, <2>5 DEF Carries, At, Announced, Unopened
  <2>7. Live => Clean(j) /\ Carries(j, m, d) BY <1>3, <2>4, <2>6, RestKept
  <2> QED BY <1>2, <2>2, <2>7, EmitLeftovers
<1>8. CASE CommitResult
  <2>1. At("results") BY <1>8 DEF CommitResult
  <2>2. CASE Loop("ended")
    <3>1. /\ UNCHANGED <<journal, mem, lock, state>> /\ drv'.pc = "ended"
          /\ drv'.outcome = "none" /\ drv'.next = drv.next /\ drv'.resumed = drv.resumed
      BY <1>1, <1>2, <2>2 DEF Loop, Goto, Undriven, DriverType
    <3>2. Live' => Carries(journal, mem, drv')
      BY <1>3, <2>1, <3>1 DEF Carries, At, Announced, Unopened, Live
    <3> QED BY <3>1, <3>2, QuietLeftovers
  <2>3. ASSUME NEW c \in mem.open,
               Emit(ToolResult(journal, c),
                    [mem EXCEPT !.open = @ \ {c}, !.tail = "tool"], drv)
        PROVE  Leftovers'
    <3> DEFINE j == ToolResult(journal, c)
               m == [mem EXCEPT !.open = @ \ {c}, !.tail = "tool"]
    <3>1. /\ j.run = journal.run /\ j.completed = journal.completed
          /\ j.interruptRun = journal.interruptRun /\ j.drained = journal.drained
          /\ j.state = journal.state
      BY <1>1 DEF ToolResult, JournalType
    <3>2. m.inject = mem.inject BY <1>1 DEF MemType
    <3>3. Emit(j, m, drv) BY <2>3
    <3> HIDE DEF j, m
    <3>4. Live => Clean(j) /\ Carries(j, m, drv)
      BY <1>2, <1>3, <2>1, <3>1, <3>2 DEF Clean, Carries, At, Announced, Unopened
    <3> QED BY <1>2, <3>3, <3>4, EmitLeftovers
  <2> QED BY <1>8, <2>2, <2>3 DEF CommitResult
<1>9. CASE EndTurn
  <2> DEFINE j == UsageRecorded(journal, drv.used, mem.usage + Delta)
             m == [mem EXCEPT !.usage = mem.usage + Delta, !.last = drv.used]
             d == IF drv.fatal THEN [drv EXCEPT !.pc = "return", !.outcome = "Failed"]
                               ELSE [drv EXCEPT !.pc = "hook"]
  <2>1. Emit(j, m, d) /\ At("ended") BY <1>9 DEF EndTurn
  <2>2. /\ \/ d.pc = "return" /\ d.outcome = "Failed"
           \/ d.pc = "hook" /\ d.outcome = "none"
        /\ d.next = drv.next /\ d.resumed = drv.resumed
    BY <1>1, <1>2 DEF DriverType
  <2>3. SameRest(journal, j) BY <1>1 DEF UsageRecorded, JournalType, SameRest
  <2>4. m.inject = mem.inject BY <1>1 DEF MemType
  <2> HIDE DEF d, j, m
  <2>5. Live => Carries(journal, m, d)
    BY <1>3, <2>1, <2>2, <2>4 DEF Carries, Front, At, Announced, Unopened
  <2>6. Live => Clean(j) /\ Carries(j, m, d) BY <1>3, <2>3, <2>5, RestKept
  <2> QED BY <1>2, <2>1, <2>6, EmitLeftovers
<1>10. CASE HookInjects
  <2> DEFINE j == QueueDrained(journal, Ids(Boundary))
             m == [mem EXCEPT !.queue = Without(@, Ids(Boundary)), !.inject = Boundary]
             d == [drv EXCEPT !.pc = "inject"]
  <2>1. /\ state = "Running" /\ UNCHANGED lock /\ At("hook")
        /\ \/ Commit(j, m, "Running") /\ drv' = d
           \/ AppendError(j)
    BY <1>10 DEF HookInjects, Undriven, Goto
  <2>2. /\ d.pc = "inject" /\ d.outcome = "none"
        /\ d.next = drv.next /\ d.resumed = drv.resumed
    BY <1>1, <1>2 DEF DriverType
  <2>3. /\ j.run = journal.run /\ j.completed = journal.completed
        /\ j.interruptRun = journal.interruptRun /\ j.state = journal.state
        /\ j.drained = journal.drained \cup Only(journal.queue, Ids(Boundary))
        /\ j.open = journal.open
    BY <1>1 DEF QueueDrained, JournalType
  <2>4. m.inject = Boundary BY <1>1 DEF MemType
  <2>5. Boundary \subseteq mem.queue BY DEF Boundary, OfKind
  <2>6. lock => j.drained = journal.drained \cup Boundary
    BY <1>3, <2>1, <2>3, <2>5, DrainedAreInjected DEF Live, Attached, Busy
  <2> HIDE DEF d, j, m
  <2>7. lock => Clean(j) /\ Carries(j, m, d) BY <1>3, <2>1, <2>2, <2>3, <2>4, <2>6
    DEF Live, Attached, Busy, Clean, Carries, At, Announced, Unopened
  <2>8. state' = "Running" => drv' = d BY <2>1 DEF AppendError
  <2>9. Commit(j, m, "Running") \/ AppendError(j) BY <2>1
  <2>10. UNCHANGED lock /\ "Running" # "Faulted" BY <2>1
  <2> QED BY <2>7, <2>8, <2>9, <2>10, BatchLeftovers
<1>11. CASE InjectMessages
  <2> DEFINE j == InputsApplied(journal, mem.inject)
             m == [mem EXCEPT !.applied = Into(@, Ids(mem.inject), mem.run),
                              !.tail = "user", !.inject = {}]
             d == [drv EXCEPT !.pc = "turn"]
  <2>1. Emit(j, m, d) /\ At("inject") BY <1>11 DEF InjectMessages
  <2>2. /\ d.pc = "turn" /\ d.outcome = "none"
        /\ d.next = drv.next /\ d.resumed = drv.resumed
    BY <1>1, <1>2 DEF DriverType
  <2>3. /\ j.run = journal.run /\ j.completed = journal.completed
        /\ j.interruptRun = journal.interruptRun /\ j.state = journal.state
        /\ j.drained = Without(journal.drained, Ids(mem.inject)) /\ j.open = journal.open
    BY <1>1 DEF InputsApplied, JournalType
  <2>4. m.inject = {} BY <1>1 DEF MemType
  <2>5. Without(mem.inject, Ids(mem.inject)) = {} BY DEF Without, Ids
  <2> HIDE DEF d, j, m
  <2>6. Live => Clean(j) /\ Carries(j, m, d)
    BY <1>3, <2>1, <2>2, <2>3, <2>4, <2>5 DEF Clean, Carries, At, Announced, Unopened
  <2> QED BY <1>2, <2>1, <2>6, EmitLeftovers
<1>12. CASE CompleteRun
  <2> DEFINE j == RunCompleted(journal)
             d == [drv EXCEPT !.pc = "return", !.outcome = "Completed"]
  <2>1. At("complete") /\ Emit(j, mem, d) BY <1>12 DEF CompleteRun
  <2>2. /\ d.pc = "return" /\ d.outcome = "Completed"
        /\ d.next = drv.next /\ d.resumed = drv.resumed
    BY <1>1 DEF DriverType
  <2>3. /\ j.run = journal.run /\ j.state = journal.state
        /\ j.interruptRun = journal.interruptRun
        /\ j.drained = journal.drained /\ j.open = journal.open
    BY <1>1 DEF RunCompleted, JournalType
  <2> HIDE DEF d, j
  <2>4. Live => Clean(j) /\ Carries(j, mem, d)
    BY <1>3, <2>1, <2>2, <2>3 DEF Clean, Carries, Front, At, Announced, Unopened
  <2> QED BY <1>2, <2>1, <2>4, EmitLeftovers
<1>13. CASE SuspendRun
  <2> DEFINE susp == [kind |-> drv.kind, id |-> journal.susps + 1, used |-> drv.used]
             j == RunSuspended(journal, susp)
             m == [mem EXCEPT !.susp = susp]
             d == [drv EXCEPT !.pc = "return", !.outcome = "Suspended"]
  <2>1. Emit(j, m, d) /\ At("suspend") BY <1>13 DEF SuspendRun
  <2>2. /\ d.pc = "return" /\ d.outcome = "Suspended"
        /\ d.next = drv.next /\ d.resumed = drv.resumed
    BY <1>1 DEF DriverType
  <2> HIDE DEF susp
  <2>3. /\ j.run = journal.run /\ j.completed = journal.completed
        /\ j.interruptRun = journal.interruptRun
        /\ j.drained = journal.drained /\ j.open = journal.open
    BY <1>1 DEF RunSuspended, JournalType
  <2>4. m.inject = mem.inject BY <1>1 DEF MemType
  <2> HIDE DEF d, j, m
  <2>5. Live => Clean(j) /\ Carries(j, m, d)
    BY <1>3, <2>1, <2>2, <2>3, <2>4 DEF Clean, Carries, At, Announced, Unopened
  <2> QED BY <1>2, <2>1, <2>5, EmitLeftovers
<1>14. QED BY <1>4, <1>5, <1>6, <1>7, <1>8, <1>9, <1>10, <1>11, <1>12, <1>13

\* Closing a run leaves no interrupt pending that was not.
LEMMA ClosedInterrupt ==
  ASSUME NEW j, JournalOK(j), NEW m, MemOK(m), NEW used \in Nat, used >= m.last,
         NEW cancels \in SUBSET Inputs, NEW status
  PROVE  RunClosed(QueueCancelled(Charged(j, m, used), cancels), status).interruptRun
           \in {NoRun, j.interruptRun}
<1> DEFINE c == Charged(j, m, used)
           q == QueueCancelled(c, cancels)
           k == RunClosed(q, status)
<1>1. c \in JournalType /\ j \in JournalType BY ChargedOK DEF JournalOK
<1>2. c.interruptRun = j.interruptRun BY <1>1 DEF Charged, UsageRecorded, JournalType
<1> HIDE DEF c
<1>3. q.interruptRun = c.interruptRun /\ q \in JournalType
  BY <1>1, QueueCancelledType DEF QueueCancelled, JournalType
<1> HIDE DEF q
<1>4. k.interruptRun \in {NoRun, q.interruptRun} BY <1>3 DEF RunClosed, JournalType
<1> QED BY <1>2, <1>3, <1>4 DEF q, c

LEMMA InterruptedInterrupt ==
  ASSUME NEW m, JournalOK(journal), MemOK(m), NEW used \in Nat, used >= m.last,
         m.usage = journal.usage
  PROVE  InterruptBatch(m, used).interruptRun \in {NoRun, journal.interruptRun}
<1> DEFINE f == FrontierClosed(journal)
           cancels == RunScopedIds(m.queue)
<1>1. m \in MemType /\ journal \in JournalType BY DEF MemOK, JournalOK
<1>2. cancels \in SUBSET Inputs BY <1>1, IdsAreInputs DEF MemType, RunScopedIds, OfKind, Ids
<1>3. JournalOK(f) /\ f.interruptRun = journal.interruptRun
  BY <1>1, FrontierClosedType, ZenonT(30) DEF JournalOK, FrontierClosed, JournalType
<1> HIDE DEF f, cancels
<1>4. RunClosed(QueueCancelled(Charged(f, m, used), cancels), "Interrupted").interruptRun
        \in {NoRun, f.interruptRun}
  BY <1>2, <1>3, ClosedInterrupt
<1> QED BY <1>3, <1>4 DEF InterruptBatch, f, cancels

\* A run that is over left nothing behind.
LEMMA SettledClean ==
  ASSUME NEW j, Clean(j), NEW k, k.run = NoRun, k.interruptRun \in {NoRun, j.interruptRun},
         ~DurableInterrupts => k.drained = {}, ~ResumesFail => k.open = {}
  PROVE  Clean(k)
BY DEF Clean

\* A handle without a driver carries nothing.
LEMMA RestCarries ==
  ASSUME NEW j, NEW m, m.inject = {}, ~DurableInterrupts => j.drained = {},
         NEW d, d.pc = "none", d.outcome = "none",
         d.next \in {"results", "suspend"} => d.resumed
  PROVE  Carries(j, m, d)
BY DEF Carries, Announced, Unopened

\* A settled handle injects nothing.
LEMMA DetachedInjects ==
  ASSUME NEW m \in MemType, NEW usage, NEW queue, NEW used
  PROVE  /\ [Detached(m) EXCEPT !.usage = usage, !.queue = queue].inject = {}
         /\ AfterInterrupt(m, used).inject = {}
<1> DEFINE n == Detached(m)
<1>1. n \in MemType /\ n.inject = {} BY MemFields, DetachedType
<1> HIDE DEF n
<1>2. [n EXCEPT !.usage = usage, !.queue = queue].inject = {} BY <1>1 DEF MemType
<1>3. \A open, tail, u, q :
        [n EXCEPT !.open = open, !.tail = tail, !.usage = u, !.queue = q].inject = {}
  BY <1>1 DEF MemType
<1> QED BY <1>2, <1>3 DEF AfterInterrupt, n

\* What is drained and not cancelled is nothing where nothing is drained.
LEMMA NoneWithout ==
  ASSUME NEW entries, NEW ids, entries = {}
  PROVE  Without(entries, ids) = {}
BY DEF Without

\* Settling a run leaves nothing behind: the drive has injected what it drained,
\* and has given every call a result or is repaired.
LEMMA FinishLeftovers ==
  ASSUME TypeInv, Coherent, Faithful, Shaped, Leftovers, Finish
  PROVE  Leftovers'
<1>1. ~At("none") /\ drv.pc \in Over /\ UNCHANGED lock
  BY DEF Finish, FinishFaulted, FinishInterrupted, FinishBounced, FinishUnusable,
         FinishSuspended, FinishClosed, SettleInterrupt, Settling, Loop, Undriven, At, Over
<1>2. /\ JournalOK(journal) /\ MemOK(mem) /\ journal \in JournalType /\ mem \in MemType
      /\ drv \in DriverType /\ Used(mem) \in Nat
  BY CounterTypes, UsedType
<1>3. lock /\ state # "Faulted" =>
         /\ Live /\ mem.usage = journal.usage /\ Carries(journal, mem, drv)
         /\ mem.inject = {} /\ (~DurableInterrupts => journal.drained = {})
  BY <1>1, DrivenMirrors DEF Mirrors, Leftovers, Carries, Over
<1>4. /\ Clean(journal) /\ NoDriver.pc = "none" /\ NoDriver.outcome = "none"
      /\ NoDriver.next = "turn"
  BY DEF Leftovers, NoDriver
<1>5. PersistFault => Leftovers'
  <2> DEFINE j == FaultRecorded(journal)
  <2>1. /\ j.run = journal.run /\ j.completed = journal.completed /\ j.state = "Faulted"
        /\ j.interruptRun = journal.interruptRun
        /\ j.drained = journal.drained /\ j.open = journal.open
    BY <1>2 DEF FaultRecorded, JournalType
  <2>2. PersistFault => journal' \in {journal, j} /\ ~Live'
    BY DEF PersistFault, Live, Attached, Busy
  <2> HIDE DEF j
  <2>3. Clean(j) BY <1>4, <2>1 DEF Clean
  <2> QED BY <1>4, <2>2, <2>3 DEF Leftovers, Clean
<1>6. ASSUME NothingToInterrupt PROVE Leftovers'
  <2>1. UNCHANGED <<state, journal>> /\ ~Live
    BY <1>1, <1>3, <1>6, DrivenRun DEF NothingToInterrupt, Live, Attached, Busy
  <2> QED BY <1>1, <2>1 DEF Leftovers, Clean, Live
<1>7. ASSUME NEW j, NEW m, Commit(j, m, "Idle") \/ AppendError(j), m.inject = {},
             lock => /\ j.run = NoRun /\ j.interruptRun \in {NoRun, journal.interruptRun}
                     /\ ~DurableInterrupts => j.drained = {}
                     /\ ~ResumesFail => j.open = {},
             drv' = NoDriver
      PROVE  Leftovers'
  <2>1. lock => Clean(j) /\ Carries(j, m, NoDriver) BY <1>4, <1>7, SettledClean, RestCarries
  <2> QED BY <1>1, <1>7, <2>1, BatchLeftovers
<1>8. CASE FinishFaulted BY <1>8 DEF FinishFaulted, Leftovers, Clean, Live, Attached, Busy
<1>9. CASE FinishInterrupted
  <2>1. /\ drv'.pc = "settle" /\ drv'.outcome = drv.outcome /\ drv'.next = drv.next
        /\ drv'.resumed = drv.resumed /\ UNCHANGED <<state, journal, mem>>
        /\ state # "Faulted" /\ At("return")
    BY <1>2, <1>9 DEF FinishInterrupted, Loop, Goto, DriverType
  <2>2. Live' => Carries(journal, mem, drv')
    BY <1>1, <1>3, <2>1 DEF Carries, Live, Announced, Unopened, At
  <2> QED BY <2>1, <2>2, QuietLeftovers
<1>10. CASE FinishBounced
  <2> DEFINE m == [mem EXCEPT !.resuming = FALSE]
  <2>1. /\ mem' = m /\ drv' = NoDriver /\ UNCHANGED journal /\ state # "Faulted"
    BY <1>10 DEF FinishBounced, Settling, Bounced, Finished
  <2>2. m.inject = mem.inject BY <1>2 DEF MemType
  <2> HIDE DEF m
  <2>3. Live' => Carries(journal, m, NoDriver)
    BY <1>1, <1>3, <1>4, <2>1, <2>2, RestCarries DEF Live
  <2> QED BY <2>1, <2>3, QuietLeftovers
<1>11. CASE FinishUnusable BY <1>5, <1>11 DEF FinishUnusable
<1>12. CASE FinishSuspended
  <2> DEFINE session == mem.usage + (drv.used - mem.last)
             j == UsageRecorded(journal, drv.used, session)
             m == [mem EXCEPT !.usage = session, !.last = drv.used, !.resuming = FALSE]
  <2>1. drv.outcome = "Suspended" /\ drv' = NoDriver /\ state # "Faulted"
    BY <1>12 DEF FinishSuspended, Settling, Finished
  <2>2. m.inject = mem.inject BY <1>2 DEF MemType
  <2>3. CASE drv.used = mem.last
    <3>1. mem' = m /\ UNCHANGED journal BY <1>12, <2>3 DEF FinishSuspended
    <3> HIDE DEF m
    <3>2. Live' => Carries(journal, m, NoDriver)
      BY <1>1, <1>3, <1>4, <2>1, <2>2, RestCarries DEF Live
    <3> QED BY <2>1, <3>1, <3>2, QuietLeftovers
  <2>4. CASE drv.used # mem.last
    <3>1. Commit(j, m, "Suspended") \/ AppendError(j)
      BY <1>12, <2>4 DEF FinishSuspended, Charged, Commit
    <3>2. SameRest(journal, j) BY <1>2 DEF UsageRecorded, JournalType, SameRest
    <3> HIDE DEF j, m
    <3>3. lock => Carries(j, m, NoDriver)
      BY <1>3, <1>4, <2>1, <2>2, <3>2, RestCarries DEF SameRest
    <3>4. Clean(j) BY <1>4, <3>2, RestKept
    <3> QED BY <1>1, <2>1, <3>1, <3>3, <3>4, BatchLeftovers
  <2> QED BY <2>3, <2>4
<1>13. CASE FinishClosed
  <2> DEFINE status  == IF drv.outcome = "Completed" THEN "Completed" ELSE "Failed"
             cancels == IF status = "Completed" THEN {} ELSE RunScopedIds(mem.queue)
             j == RunClosed(QueueCancelled(Charged(journal, mem, Used(mem)), cancels), status)
             m == [Detached(mem) EXCEPT !.usage = @ + (Used(mem) - mem.last),
                                        !.queue = Without(@, cancels)]
  <2>1. /\ state # "Faulted" /\ Used(mem) >= mem.last
        /\ Commit(j, m, "Idle") \/ AppendError(j)
        /\ drv' = NoDriver /\ At("return") /\ ~Bounced
        /\ drv.outcome \notin {"Suspended", "Interrupted"}
    BY <1>13 DEF FinishClosed, Settling, Finished
  <2>2. cancels \in SUBSET Inputs
    BY <1>2, IdsAreInputs DEF MemType, RunScopedIds, OfKind, Ids
  <2>3. m.inject = {}
    <3>1. m = [Detached(mem) EXCEPT !.usage = Detached(mem).usage + (Used(mem) - mem.last),
                                    !.queue = Without(Detached(mem).queue, cancels)]
      OBVIOUS
    <3> QED BY <1>2, <3>1, DetachedInjects
  <2> HIDE DEF status, cancels, m
  <2>4. lock => /\ j.run = NoRun /\ j.drained = Without(journal.drained, cancels)
                /\ j.open = journal.open
    BY <1>2, <1>3, <2>1, <2>2, ClosedFields DEF SameFrontier
  <2>5. j.interruptRun \in {NoRun, journal.interruptRun}
    BY <1>2, <2>1, <2>2, ClosedInterrupt
  <2> HIDE DEF j
  <2>6. lock => drv.outcome \in {"Failed", "Refused", "Completed"}
    <3>1. drv.outcome \in Outcomes \ {"none"} BY <1>2, <2>1 DEF Shaped, At, DriverType
    <3> QED BY <1>3, <2>1, <3>1 DEF Outcomes, Bounced, Carries
  <2>7. lock => (~ResumesFail => j.open = {}) BY <1>3, <2>1, <2>4, <2>6 DEF Carries
  <2>8. lock => (~DurableInterrupts => j.drained = {}) BY <1>3, <2>1, <2>4, NoneWithout
  <2> QED BY <1>7, <2>1, <2>3, <2>4, <2>5, <2>7, <2>8
<1>14. CASE SettleInterrupt
  <2>1. CASE NothingToInterrupt BY <1>6, <2>1
  <2>2. CASE Used(mem) >= mem.last /\ FinishInterrupt(Used(mem))
    <3> DEFINE j == InterruptBatch(mem, Used(mem))
               m == AfterInterrupt(mem, Used(mem))
    <3>1. /\ state # "Faulted" /\ drv' = NoDriver
          /\ Commit(j, m, "Idle") \/ AppendError(j)
      BY <1>14, <2>2 DEF FinishInterrupt, SettleInterrupt, Finished
    <3>2. lock => /\ j.run = NoRun /\ j.open = {}
                  /\ j.drained = Without(journal.drained, RunScopedIds(mem.queue))
                  /\ j.interruptRun \in {NoRun, journal.interruptRun}
      BY <1>2, <1>3, <2>2, <3>1, InterruptedFields, InterruptedInterrupt
    <3>3. m.inject = {} BY <1>2, DetachedInjects
    <3> HIDE DEF m, j
    <3>4. lock => (~DurableInterrupts => j.drained = {}) BY <1>3, <3>1, <3>2, NoneWithout
    <3> QED BY <1>7, <3>1, <3>2, <3>3, <3>4
  <2>3. CASE PersistFault BY <1>5, <2>3
  <2> QED BY <1>14, <2>1, <2>2, <2>3 DEF SettleInterrupt
<1>15. QED BY <1>8, <1>9, <1>10, <1>11, <1>12, <1>13, <1>14 DEF Finish

\* So does settling an interrupted suspension.
LEMMA SettleSuspendedLeftovers ==
  ASSUME TypeInv, Coherent, Faithful, Shaped, Leftovers, SettleSuspended
  PROVE  Leftovers'
<1>1. /\ settler /\ UNCHANGED <<drv, lock>> /\ state # "Down" /\ Clean(journal)
      /\ JournalOK(journal) /\ MemOK(mem) /\ mem.last \in Nat /\ mem \in MemType
  BY CounterTypes DEF SettleSuspended, Coherent, GoneIsQuiet, Leftovers
<1>2. CASE NothingToInterrupt
  BY <1>1, <1>2 DEF NothingToInterrupt, Leftovers, Clean, Carries, Live
<1>3. CASE FinishInterrupt(mem.last)
  <2> DEFINE j == InterruptBatch(mem, mem.last)
             m == AfterInterrupt(mem, mem.last)
  <2>1. /\ Commit(j, m, "Idle") \/ AppendError(j)
        /\ state # "Faulted"
    BY <1>3 DEF FinishInterrupt
  <2>2. lock => Live
    BY <1>1, <2>1 DEF Live, Coherent, ClosedIsUnlocked, TypeInv, States, Attached, Busy
  <2>3. lock => /\ drv.pc = "none" /\ drv.outcome = "none"
                /\ mem.usage = journal.usage /\ Carries(journal, mem, drv)
    BY <1>1, <2>2 DEF Live, Coherent, LiveRun, Shaped, Over, Faithful, Mirrors, Leftovers
  <2>4. lock => (~DurableInterrupts => journal.drained = {}) BY <2>3 DEF Carries
  <2>5. lock => /\ j.run = NoRun /\ j.open = {}
                /\ j.drained = Without(journal.drained, RunScopedIds(mem.queue))
                /\ j.interruptRun \in {NoRun, journal.interruptRun}
    BY <1>1, <2>3, InterruptedFields, InterruptedInterrupt
  <2>6. m.inject = {} BY <1>1, DetachedInjects
  <2> HIDE DEF m, j
  <2>7. lock => (~DurableInterrupts => j.drained = {}) BY <2>4, <2>5, NoneWithout
  <2>8. lock => Clean(j) BY <1>1, <2>5, <2>7, SettledClean
  <2>9. lock => Carries(j, m, drv) BY <2>3, <2>6, <2>7, RestCarries DEF Carries
  <2> QED BY <1>1, <2>1, <2>8, <2>9, BatchLeftovers
<1> QED BY <1>2, <1>3 DEF SettleSuspended

\* A drive that starts carries nothing.
LEMMA OpenedCarries ==
  ASSUME NEW j, j.run # NoRun, ~j.completed, j.state = "Running",
         ~DurableInterrupts => j.interruptRun = NoRun /\ j.drained = {},
         ~ResumesFail => j.open = {},
         NEW m, m.inject = {}, NEW d, d.pc \in {"start", "launch"}, d.outcome = "none",
         d.next \in {"turn", "evaluate"}
  PROVE  Clean(j) /\ Carries(j, m, d)
BY DEF Clean, Carries, Announced, Unopened

\* Client calls leave nothing behind: a run starts after a clean one.
LEMMA ClientLeftovers ==
  ASSUME TypeInv, Coherent, Faithful, Shaped, Leftovers, Client
  PROVE  Leftovers'
<1>1. /\ journal \in JournalType /\ mem \in MemType /\ Clean(journal)
  BY CounterTypes DEF Leftovers
<1>2. Live => /\ Carries(journal, mem, drv) /\ mem.run = journal.run
              /\ state = "Idle" <=> mem.run = NoRun
              /\ state \in {"Idle", "Suspended"} => drv.pc = "none"
  BY DEF Leftovers, Coherent, LiveRun, Live
\* a run opens
<1>3. ASSUME NEW j, NEW m, m.inject = {}, UNCHANGED lock,
             lock => /\ j.run = journal.runs + 1 /\ ~j.completed /\ j.state = "Running"
                     /\ ~DurableInterrupts => j.interruptRun = NoRun /\ j.drained = {}
                     /\ ~ResumesFail => j.open = {},
             \/ Commit(j, m, "Running") /\ drv' = [NoDriver EXCEPT !.pc = "start"]
             \/ AppendError(j)
      PROVE  Leftovers'
  <2> DEFINE d == [NoDriver EXCEPT !.pc = "start"]
  <2>1. d.pc = "start" /\ d.outcome = "none" /\ d.next = "turn" BY DEF NoDriver
  <2>2. journal.runs + 1 # NoRun BY <1>1 DEF JournalType, NoRun
  <2> HIDE DEF d
  <2>3. lock => Clean(j) /\ Carries(j, m, d) BY <1>3, <2>1, <2>2, OpenedCarries
  <2>4. state' = "Running" => drv' = d BY <1>3 DEF AppendError, d
  <2> QED BY <1>3, <2>3, <2>4, BatchLeftovers
<1>4. CASE Start
  <2> DEFINE run    == journal.runs + 1
             limit  == Remaining(mem.usage)
             next   == OfKind(mem.queue, {"next_turn"})
             ids    == Ids(next)
             o      == RunOpened(journal, run, limit)
             j      == UserMessage(InputsApplied(QueueDrained(o, ids), next))
             r      == NewRun(mem, run, limit)
             m      == [r EXCEPT !.queue = Without(@, ids), !.tail = "user",
                                 !.applied = Into(@, ids, run)]
  <2>1. /\ state = "Idle" /\ UNCHANGED lock
        /\ \/ Commit(j, m, "Running") /\ drv' = [NoDriver EXCEPT !.pc = "start"]
           \/ AppendError(j)
    BY <1>4 DEF Start, Unclient
  <2>2. lock => journal.run = NoRun BY <1>2, <2>1 DEF Live, Attached
  <2>3. /\ j.run = journal.runs + 1 /\ ~j.completed /\ j.state = "Running"
        /\ j.interruptRun = journal.interruptRun /\ j.open = journal.open
        /\ j.drained = Without(journal.drained \cup Only(journal.queue, ids), ids)
    BY <1>1 DEF UserMessage, InputsApplied, QueueDrained, RunOpened, JournalType
  <2>4. m.inject = {} BY <1>1 DEF NewRun, MemType
  <2> HIDE DEF j, m, ids, next
  <2>5. journal.drained = {} => j.drained = {} BY <2>3 DEF Without, Only
  <2>6. lock => /\ ~DurableInterrupts => j.interruptRun = NoRun /\ j.drained = {}
                /\ ~ResumesFail => j.open = {}
    BY <1>1, <2>2, <2>3, <2>5 DEF Clean
  <2> QED BY <1>3, <2>1, <2>3, <2>4, <2>6
<1>5. ASSUME NEW id \in Inputs, NEW kind \in QueueKinds, NEW target \in 0..MaxRuns,
             Accept(id, kind, target)
      PROVE  Leftovers'
  <2> DEFINE entry == [id |-> id, kind |-> kind, at |-> Len(journal.accepted) + 1]
             j == QueueAccepted(journal, entry, target)
             m == [mem EXCEPT !.queue = @ \cup {entry}]
  <2>1. /\ Commit(j, m, state) \/ AppendError(j)
        /\ state \in Attached /\ state # "Faulted" /\ UNCHANGED <<lock, drv>>
    BY <1>5 DEF Accept, Acceptable, Unclient, Attached, Busy
  <2>2. SameRest(journal, j) BY <1>1 DEF QueueAccepted, JournalType, SameRest
  <2>3. m.inject = mem.inject /\ m.seen = mem.seen /\ m.resuming = mem.resuming
    BY <1>1 DEF MemType
  <2> HIDE DEF j, m, entry
  <2>4. lock => Carries(journal, m, drv) BY <1>2, <2>1, <2>3 DEF Carries, Live
  <2>5. Clean(j) /\ (lock => Carries(j, m, drv)) BY <1>1, <2>2, <2>4, RestKept
  <2> QED BY <2>1, <2>5, BatchLeftovers
<1>6. ASSUME NEW target \in 0..MaxRuns, Interrupt(target)
      PROVE  Leftovers'
  <2> DEFINE j == InterruptAccepted(journal, target)
  <2>1. /\ state \in Attached /\ UNCHANGED <<lock, drv>>
        /\ \/ DurableInterrupts /\ AppendError(j)
           \/ DurableInterrupts /\ Commit(j, mem, "Interrupting")
           \/ state' = "Interrupting" /\ UNCHANGED <<mem, journal>>
    BY <1>6 DEF Interrupt, Attached, Busy
  <2>2. /\ j.run = journal.run /\ j.completed = journal.completed /\ j.state = journal.state
        /\ j.drained = journal.drained /\ j.open = journal.open
    BY <1>1 DEF InterruptAccepted, JournalType
  <2> HIDE DEF j
  <2>3. lock => Carries(journal, mem, drv) BY <1>2, <2>1 DEF Live
  <2>4. DurableInterrupts => Clean(j) /\ (lock => Carries(j, mem, drv))
    BY <1>1, <2>2, <2>3 DEF Clean, Carries
  <2>5. CASE DurableInterrupts /\ (AppendError(j) \/ Commit(j, mem, "Interrupting"))
    BY <2>1, <2>4, <2>5, BatchLeftovers
  <2>6. CASE state' = "Interrupting" /\ UNCHANGED <<mem, journal>>
    BY <2>1, <2>3, <2>6, QuietLeftovers DEF Live
  <2> QED BY <2>1, <2>5, <2>6
<1>7. ASSUME NEW id, NEW approved, Resume(id, approved)
      PROVE  Leftovers'
  <2> DEFINE m == [mem EXCEPT !.resuming = TRUE, !.seen = FALSE]
             d == [NoDriver EXCEPT !.pc = "resolve", !.todo = approved,
                     !.used = mem.susp.used, !.resumed = TRUE, !.kind = mem.susp.kind]
  <2>1. /\ state = "Suspended" /\ UNCHANGED lock
        /\ \/ Commit(journal, m, "Running") /\ drv' = d
           \/ AppendError(journal)
    BY <1>7 DEF Resume, Resumable, Unclient
  <2>2. d.pc = "resolve" /\ d.outcome = "none" /\ d.next = "turn" /\ d.resumed
    BY DEF NoDriver
  <2>3. m.inject = mem.inject /\ m.resuming /\ ~m.seen BY <1>1 DEF MemType
  <2> HIDE DEF m, d
  <2>4. lock => Carries(journal, m, d)
    BY <1>2, <2>1, <2>2, <2>3 DEF Carries, Announced, Unopened, Live, Attached
  <2>5. state' = "Running" => drv' = d BY <2>1 DEF AppendError
  <2> QED BY <1>1, <2>1, <2>4, <2>5, BatchLeftovers
<1>8. ASSUME NEW id, ResumeIndeterminate(id)
      PROVE  Leftovers'
  <2> DEFINE run    == journal.runs + 1
             limit  == Remaining(mem.usage)
             closed == RunClosed(journal, "Interrupted")
             paired == FrontierClosed(closed)
             j      == RunOpened(paired, run, limit)
             r      == NewRun(mem, run, limit)
             m      == [r EXCEPT !.open = {}, !.tail = IF mem.open = {} THEN @ ELSE "tool",
                                 !.susp = NoSuspension]
  <2>1. /\ state = "Suspended" /\ UNCHANGED lock
        /\ \/ Commit(j, m, "Running") /\ drv' = [NoDriver EXCEPT !.pc = "start"]
           \/ AppendError(j)
    BY <1>8 DEF ResumeIndeterminate, Resumable, Unclient, NewRun
  <2>2. /\ closed \in JournalType /\ closed.drained = journal.drained
        /\ closed.interruptRun \in {NoRun, journal.interruptRun}
    <3>1. closed \in JournalType BY <1>1, RunClosedType
    <3>2. /\ closed.drained = journal.drained
          /\ closed.interruptRun \in {NoRun, journal.interruptRun}
      BY <1>1 DEF RunClosed, JournalType
    <3> QED BY <3>1, <3>2
  <2> HIDE DEF closed
  <2>3. /\ paired \in JournalType /\ paired.open = {} /\ paired.drained = closed.drained
        /\ paired.interruptRun = closed.interruptRun
    BY <2>2, FrontierClosedType, ZenonT(30) DEF FrontierClosed, JournalType
  <2> HIDE DEF paired
  <2>4. /\ j.run = journal.runs + 1 /\ ~j.completed /\ j.state = "Running" /\ j.open = {}
        /\ j.drained = journal.drained /\ j.interruptRun \in {NoRun, journal.interruptRun}
    BY <2>2, <2>3 DEF RunOpened, JournalType
  <2>5. m.inject = {} BY <1>1 DEF NewRun, MemType
  <2> HIDE DEF j, m
  <2>6. lock => (~DurableInterrupts => j.interruptRun = NoRun /\ j.drained = {})
    BY <1>1, <1>2, <2>1, <2>4 DEF Clean, Carries, Live, Attached
  <2> QED BY <1>3, <2>1, <2>4, <2>5, <2>6
<1>9. QED BY <1>4, <1>5, <1>6, <1>7, <1>8 DEF Client

\* A recovered handle.
LEMMA ReopenLeftovers ==
  ASSUME NEW j, NEW m, NEW s, NEW d, Reopen(j, m, s, d), Clean(j), Carries(j, m, d)
  PROVE  Leftovers'
BY DEF Reopen, Leftovers, Clean, Carries

\* Recovery leaves nothing behind: it injects what was drained before it goes on,
\* and abandons or repairs what was open.
LEMMA RecoverLeftovers ==
  ASSUME TypeInv, Coherent, Leftovers, Recover
  PROVE  Leftovers'
<1>1. /\ JournalOK(journal) /\ journal \in JournalType /\ Clean(journal)
      /\ MemOK(Folded) /\ Folded \in MemType /\ Folded.last \in Nat
      /\ Folded.usage = journal.usage /\ Folded.inject = {}
  BY CounterTypes, LoadedOK DEF Leftovers, Folded, Loaded, MemOK
<1>2. /\ NoDriver.pc = "none" /\ NoDriver.outcome = "none" /\ NoDriver.next = "turn"
  BY DEF NoDriver
<1>3. CASE RecoverInterrupted
  <2> DEFINE j == InterruptBatch(Folded, Folded.last)
             m == AfterInterrupt(Folded, Folded.last)
  <2>1. Reopen(j, m, "Idle", NoDriver) /\ InterruptPending BY <1>3 DEF RecoverInterrupted
  <2>2. /\ j.run = NoRun /\ j.open = {}
        /\ j.interruptRun \in {NoRun, journal.interruptRun}
    BY <1>1, InterruptedFields, InterruptedInterrupt
  <2>3. m.inject = {} BY <1>1, DetachedInjects
  <2> HIDE DEF j, m
  <2>4. DurableInterrupts BY <1>1, <2>1 DEF Clean, InterruptPending
  <2>5. Clean(j) /\ Carries(j, m, NoDriver)
    BY <1>1, <1>2, <2>2, <2>3, <2>4, SettledClean, RestCarries
  <2> QED BY <2>1, <2>5, ReopenLeftovers
<1>4. CASE RecoverCompleted
  <2> DEFINE j == RunClosed(journal, "Completed")
             m == Detached(Folded)
  <2>1. Reopen(j, m, "Idle", NoDriver) /\ journal.completed BY <1>4 DEF RecoverCompleted
  <2>2. /\ j.run = NoRun /\ j.open = journal.open /\ j.drained = journal.drained
        /\ j.interruptRun \in {NoRun, journal.interruptRun}
    BY <1>1 DEF RunClosed, JournalType
  <2>3. m.inject = {} BY <1>1, MemFields
  <2> HIDE DEF j, m
  <2>4. (~DurableInterrupts => j.drained = {}) /\ (~ResumesFail => j.open = {})
    BY <1>1, <2>1, <2>2 DEF Clean
  <2>5. Clean(j) /\ Carries(j, m, NoDriver)
    BY <1>1, <1>2, <2>2, <2>3, <2>4, SettledClean, RestCarries
  <2> QED BY <2>1, <2>5, ReopenLeftovers
<1>5. CASE RecoverIdle
  <2>1. ~DurableInterrupts => journal.drained = {} BY <1>1, <1>5 DEF RecoverIdle, Clean
  <2>2. Carries(journal, Folded, NoDriver) BY <1>1, <1>2, <2>1, RestCarries
  <2> QED BY <1>1, <1>5, <2>2, ReopenLeftovers DEF RecoverIdle
<1>6. CASE RecoverSuspended
  <2>1. ~DurableInterrupts => journal.drained = {} BY <1>1, <1>6 DEF RecoverSuspended, Clean
  <2>2. Carries(journal, Folded, NoDriver) BY <1>1, <1>2, <2>1, RestCarries
  <2> QED BY <1>1, <1>6, <2>2, ReopenLeftovers DEF RecoverSuspended
<1>7. CASE RecoverInject
  <2> DEFINE j == InputsApplied(journal, journal.drained)
  <2>1. journal' = j /\ UNCHANGED lock /\ ~lock
    BY <1>7 DEF RecoverInject, RecoverOpenRun, Recovering, Coherent, GoneIsQuiet
  <2>2. /\ j.run = journal.run /\ j.completed = journal.completed
        /\ j.interruptRun = journal.interruptRun /\ j.state = journal.state
        /\ j.drained = Without(journal.drained, Ids(journal.drained)) /\ j.open = journal.open
    BY <1>1 DEF InputsApplied, JournalType
  <2>3. Without(journal.drained, Ids(journal.drained)) = {} BY DEF Without, Ids
  <2> HIDE DEF j
  <2>4. Clean(j) BY <1>1, <2>2, <2>3 DEF Clean
  <2> QED BY <2>1, <2>4 DEF Leftovers, Clean, Live
<1>8. CASE RecoverIndeterminate
  <2> DEFINE susp == [kind |-> "indeterminate", id |-> journal.susps + 1, used |-> 0]
             j == RunSuspended(journal, susp)
             m == [Folded EXCEPT !.susp = susp]
  <2>1. /\ Reopen(j, m, "Suspended", NoDriver) /\ ~journal.completed
        /\ journal.run # NoRun /\ journal.drained = {}
    BY <1>8 DEF RecoverIndeterminate, RecoverOpenRun
  <2>2. /\ j.run = journal.run /\ j.drained = journal.drained
        /\ j.completed = journal.completed /\ j.interruptRun = journal.interruptRun
    BY <1>1 DEF RunSuspended, JournalType
  <2>3. m.inject = {} BY <1>1 DEF MemType
  <2> HIDE DEF j, m, susp
  <2>4. Clean(j) BY <1>1, <2>1, <2>2 DEF Clean
  <2>5. Carries(j, m, NoDriver) BY <1>2, <2>1, <2>2, <2>3, RestCarries
  <2> QED BY <2>1, <2>4, <2>5, ReopenLeftovers
<1>9. CASE RecoverContinue
  <2> DEFINE limit  == Remaining(journal.usage)
             paired == FrontierAbandoned(journal)
             j      == RunOpened(paired, journal.run, limit)
             r      == NewRun(Folded, journal.run, limit)
             m      == [r EXCEPT !.open = {}, !.tail = IF journal.open = {} THEN @ ELSE "tool",
                                 !.susp = NoSuspension]
             d      == [NoDriver EXCEPT !.pc = "launch",
                          !.next = IF m.tail = "assistant" THEN "evaluate" ELSE "turn"]
  <2>1. Reopen(j, m, "Running", d) /\ journal.run # NoRun /\ journal.drained = {}
    BY <1>9 DEF RecoverContinue, RecoverOpenRun
  <2>2. /\ paired \in JournalType /\ paired.open = {} /\ paired.drained = journal.drained
        /\ paired.interruptRun = journal.interruptRun
    BY <1>1, FrontierAbandonedType, ZenonT(30) DEF FrontierAbandoned, FrontierClosed, JournalType
  <2>3. d.pc = "launch" /\ d.outcome = "none" /\ d.next \in {"turn", "evaluate"}
    BY DEF NoDriver
  <2> HIDE DEF paired
  <2>4. /\ j.run = journal.run /\ ~j.completed /\ j.state = "Running" /\ j.open = {}
        /\ j.drained = journal.drained /\ j.interruptRun = journal.interruptRun
    BY <2>2 DEF RunOpened, JournalType
  <2>5. m.inject = {} BY <1>1 DEF NewRun, MemType
  <2> HIDE DEF m, d, limit, j
  <2>6. Clean(j) /\ Carries(j, m, d)
    BY <1>1, <2>1, <2>3, <2>4, <2>5, OpenedCarries DEF Clean
  <2> QED BY <2>1, <2>6, ReopenLeftovers
<1>10. QED BY <1>3, <1>4, <1>5, <1>6, <1>7, <1>8, <1>9 DEF Recover

\* Losing a handle writes nothing.
LEMMA OwnerLeftovers ==
  ASSUME Leftovers, Owner
  PROVE  Leftovers'
BY DEF Owner, Abandon, Close, Drop, Crash, NoHandle, Leftovers, Clean, Live, Attached, Busy

\* What a drive carries and a run leaves is known at every moment.
LEMMA LeftoversInvariant == Spec => []Leftovers
<1>1. Init => Leftovers
  BY DEF Init, EmptyJournal, Loaded, NoDriver, Leftovers, Clean, Carries, Announced, Unopened,
         NoRun
<1>2. /\ TypeInv /\ Coherent /\ Faithful /\ Shaped /\ Frontiers /\ Endings /\ Leftovers
      /\ [Next]_vars
      => Leftovers'
  <2> SUFFICES ASSUME TypeInv, Coherent, Faithful, Shaped, Frontiers, Endings, Leftovers,
                      [Next]_vars
               PROVE  Leftovers'
    OBVIOUS
  <2>1. CASE UNCHANGED vars BY <2>1 DEF vars, Leftovers, Clean, Carries, Live
  <2>2. Driver => Leftovers' BY QuietStepsLeftovers, EventStepsLeftovers DEF Driver
  <2>3. CASE Next
    BY <2>2, <2>3, ClientLeftovers, FinishLeftovers, SettleSuspendedLeftovers, OwnerLeftovers,
       RecoverLeftovers DEF Next
  <2> QED BY <2>1, <2>3
<1> QED
  BY <1>1, <1>2, TypeInvariant, CoherentInvariant, FaithfulInvariant, ShapedInvariant,
     FrontiersInvariant, EndingsInvariant, PTL DEF Spec

\* Where interrupts are not durable commands, what a run accepted reaches it: the
\* live handle is about to inject what was drained, and a run that is over left
\* neither queued nor drained input (turnHook, injectMessages, recoverOpenRun).
THEOREM Arrives ==
  ASSUME ~DurableInterrupts
  PROVE  Spec => []InputsArrive
<1>1. Leftovers => DrainedReachesRun
  BY DEF Leftovers, Clean, Carries, Live, DrainedReachesRun
<1> QED BY <1>1, NothingStranded, LeftoversInvariant, PTL DEF InputsArrive

\* Where no valid resume fails, a settled session is ready for the next run: every
\* call is answered, and the usage holds every response once and no other
\* (finishExecution, finishInterrupt, recoverOpenRun).
THEOREM SettledWhole ==
  ASSUME ~ResumesFail
  PROVE  Spec => []SettledIsWhole
<1>1. Leftovers => SettledIsPaired BY DEF Leftovers, Clean, SettledIsPaired
<1> QED BY <1>1, NeverOvercharged, FullyCharged, LeftoversInvariant, PTL DEF SettledIsWhole

-----------------------------------------------------------------------------
(***************************************************************************)
(* Whose input it is.  A steer or follow-up waits for the open run that    *)
(* accepted it, so that it is injected there: Owned says so of a journal,  *)
(* for a relation between the run that accepted an input and the run that  *)
(* is to get it.  With Same it is the run itself.  With Reached(journal)   *)
(* it may be a later one, if every run between was closed as interrupted.  *)
(*                                                                         *)
(* Two ways out of a run are known (leaked_input, crossed_input): a run    *)
(* that settles over drained inputs, and an operator's resolution, which   *)
(* closes the run and leaves its queue to the next.  The theorems say that *)
(* there is no third.                                                      *)
(***************************************************************************)
Entries(j) == j.queue \cup j.drained

\* Nothing of a run is left when it is over.
Released(j) == j.run = NoRun => OfKind(Entries(j), RunScoped) = {}

Own(a, j, S) ==
  /\ \A e \in Entries(j) : e.id = a.id => e.kind = a.kind
  /\ a.kind \in RunScoped =>
       /\ a.id \in Waiting(j) => j.run # NoRun /\ <<a.run, j.run>> \in S
       /\ \A n \in DOMAIN j.applied[a.id] : <<a.run, j.applied[a.id][n]>> \in S

Owned(j, S) == \A n \in DOMAIN j.accepted : Own(j.accepted[n], j, S)

Same == {<<p, p>> : p \in Nat}

Reached(j) ==
  {pair \in Nat \X Nat :
     /\ pair[1] <= pair[2]
     /\ \A r \in pair[1]..(pair[2] - 1) :
          r \in DOMAIN Statuses(j) /\ Statuses(j)[r] = "Interrupted"}

-----------------------------------------------------------------------------
(***************************************************************************)
(* What a batch does to the accepted inputs.                               *)
(***************************************************************************)
Keeps(j, k) ==
  k.accepted = j.accepted /\ k.interrupts = j.interrupts /\ Entries(k) \subseteq Entries(j)

Stays(j, k) == Keeps(j, k) /\ k.run \in {j.run, NoRun}

Admits(j, k) ==
  /\ k.run = j.run /\ k.interrupts = j.interrupts /\ k.applied = j.applied
  /\ \E e \in QueueEntry, target \in Nat :
       /\ \A n \in DOMAIN j.accepted : j.accepted[n].id # e.id
       /\ Entries(k) = Entries(j) \cup {e}
       /\ k.accepted = Append(j.accepted, [id |-> e.id, kind |-> e.kind, run |-> j.run,
                                           target |-> target])
       /\ e.kind \in RunScoped => j.run # NoRun
       /\ target # NoRun => j.run = target

Aims(j, k) ==
  /\ k.run = j.run /\ k.accepted = j.accepted /\ Entries(k) = Entries(j)
  /\ \E target \in Nat :
       /\ DurableInterrupts => j.run = target
       /\ k.interrupts = j.interrupts \cup {[run |-> j.run, target |-> target]}

\* Staying is transitive: a batch of entries that stay does.
LEMMA StaysTransitive ==
  ASSUME NEW i, NEW j, NEW k, Stays(i, j), Stays(j, k)
  PROVE  Stays(i, k)
BY DEF Stays, Keeps

\* No entry but an acceptance, an interrupt or an opening does more.
LEMMA EntriesStay ==
  ASSUME NEW j \in JournalType, NEW ids, NEW entries, NEW calls, NEW call, NEW run,
         NEW session, NEW suspension, NEW status
  PROVE  /\ Stays(j, QueueDrained(j, ids)) /\ Stays(j, QueueCancelled(j, ids))
         /\ Stays(j, InputsApplied(j, entries)) /\ Stays(j, UserMessage(j))
         /\ Stays(j, AssistantCommitted(j, calls)) /\ Stays(j, ToolStarted(j, call))
         /\ Stays(j, ToolResult(j, call)) /\ Stays(j, UsageRecorded(j, run, session))
         /\ Stays(j, RunStarted(j)) /\ Stays(j, RunCompleted(j))
         /\ Stays(j, RunSuspended(j, suspension)) /\ Stays(j, FrontierClosed(j))
         /\ Stays(j, FrontierAbandoned(j)) /\ Stays(j, FaultRecorded(j))
         /\ Stays(j, RunClosed(j, status))
<1>1. ASSUME NEW k, SameBooks(j, k), k.accepted = j.accepted, Entries(k) \subseteq Entries(j)
      PROVE  Stays(j, k)
  BY <1>1 DEF Stays, Keeps, SameBooks
<1>2. ASSUME NEW k, SameBooks(j, k), SamePlaces(j, k)
      PROVE  Stays(j, k)
  BY <1>2 DEF Stays, Keeps, SameBooks, SamePlaces, Entries
<1>3. Stays(j, QueueDrained(j, ids))
  <2> DEFINE k == QueueDrained(j, ids)
  <2>1. /\ k.queue = Without(j.queue, ids) /\ k.drained = j.drained \cup Only(j.queue, ids)
        /\ k.accepted = j.accepted /\ SameBooks(j, k)
    BY QueueFields, QueueBooks
  <2> HIDE DEF k
  <2>2. Entries(k) \subseteq Entries(j) BY <2>1 DEF Entries, Without, Only
  <2>3. Stays(j, k) BY <1>1, <2>1, <2>2
  <2> QED BY <2>3 DEF k
<1>4. Stays(j, QueueCancelled(j, ids))
  <2> DEFINE k == QueueCancelled(j, ids)
  <2>1. /\ k.queue = Without(j.queue, ids) /\ k.drained = Without(j.drained, ids)
        /\ k.accepted = j.accepted /\ SameBooks(j, k)
    BY QueueFields, QueueBooks
  <2> HIDE DEF k
  <2>2. Entries(k) \subseteq Entries(j) BY <2>1 DEF Entries, Without
  <2>3. Stays(j, k) BY <1>1, <2>1, <2>2
  <2> QED BY <2>3 DEF k
<1>5. Stays(j, InputsApplied(j, entries))
  <2> DEFINE k == InputsApplied(j, entries)
  <2>1. /\ k.queue = j.queue /\ k.drained = Without(j.drained, Ids(entries))
        /\ k.accepted = j.accepted /\ SameBooks(j, k)
    BY QueueFields, QueueBooks
  <2> HIDE DEF k
  <2>2. Entries(k) \subseteq Entries(j) BY <2>1 DEF Entries, Without
  <2>3. Stays(j, k) BY <1>1, <2>1, <2>2
  <2> QED BY <2>3 DEF k
<1>6. /\ Stays(j, UserMessage(j)) /\ Stays(j, AssistantCommitted(j, calls))
      /\ Stays(j, ToolStarted(j, call)) /\ Stays(j, ToolResult(j, call))
  BY <1>2, EventBooks, EventFields
<1>7. /\ Stays(j, UsageRecorded(j, run, session)) /\ Stays(j, RunStarted(j))
      /\ Stays(j, RunCompleted(j)) /\ Stays(j, RunSuspended(j, suspension))
  BY <1>2, EventBooks, ProgressFields
<1>8. /\ Stays(j, FrontierClosed(j)) /\ Stays(j, FrontierAbandoned(j))
      /\ Stays(j, FaultRecorded(j))
  BY <1>2, RepairBooks, RepairFields, ProgressFields
<1>9. Stays(j, RunClosed(j, status))
  <2> DEFINE k == RunClosed(j, status)
  <2>1. SamePlaces(j, k) /\ k.run = NoRun /\ k.interrupts = j.interrupts
    BY RunClosedFields DEF RunClosed, JournalType
  <2> HIDE DEF k
  <2>2. Stays(j, k) BY <2>1 DEF Stays, Keeps, SamePlaces, Entries
  <2> QED BY <2>2 DEF k
<1> QED BY <1>3, <1>4, <1>5, <1>6, <1>7, <1>8, <1>9

\* Neither does the charge of a run.
LEMMA ChargedStays ==
  ASSUME NEW j \in JournalType, NEW m, NEW used
  PROVE  Stays(j, Charged(j, m, used))
<1>1. Stays(j, j) BY DEF Stays, Keeps
<1> QED BY <1>1, EntriesStay DEF Charged

\* A batch that lands, fails, or fails after it landed.
LEMMA BatchStays ==
  ASSUME NEW j, Stays(journal, j), NEW m, NEW s, Commit(j, m, s) \/ AppendError(j)
  PROVE  Stays(journal, journal')
<1>1. Stays(journal, journal) BY DEF Stays, Keeps
<1> HIDE DEF Stays
<1> QED BY <1>1 DEF Commit, AppendError

\* An event of the drive.
LEMMA EmitStays ==
  ASSUME NEW j, Stays(journal, j), NEW m, NEW d, Emit(j, m, d)
  PROVE  Stays(journal, journal')
<1>1. CASE state = "Faulted" BY <1>1 DEF Emit, Stays, Keeps
<1>2. CASE state # "Faulted" BY <1>2, BatchStays DEF Emit
<1> QED BY <1>1, <1>2

\* A step that appends nothing.
LEMMA QuietStays ==
  ASSUME UNCHANGED journal
  PROVE  Stays(journal, journal')
BY DEF Stays, Keeps

\* finishInterrupt's batch.
LEMMA InterruptBatchStays ==
  ASSUME JournalOK(journal), NEW m, MemOK(m), NEW used \in Nat, used >= m.last
  PROVE  Stays(journal, InterruptBatch(m, used))
<1> DEFINE f == FrontierClosed(journal)
           c == Charged(f, m, used)
           ids == RunScopedIds(m.queue)
           q == QueueCancelled(c, ids)
<1>1. journal \in JournalType /\ f \in JournalType BY FrontierClosedType DEF JournalOK
<1>2. JournalOK(f)
  <2>1. f.run = journal.run /\ f.last = journal.last /\ f.usage = journal.usage
    BY <1>1, RepairFields DEF SameRun
  <2> QED BY <1>1, <2>1, CountersKept DEF JournalOK
<1>3. ids \in SUBSET Inputs BY IdsAreInputs DEF RunScopedIds, OfKind, Ids, MemOK, MemType
<1>4. Stays(journal, f) BY <1>1, EntriesStay
<1> HIDE DEF f, ids
<1>5. c \in JournalType /\ Stays(f, c) BY <1>1, <1>2, ChargedOK, ChargedStays DEF JournalOK
<1> HIDE DEF c
<1>6. q \in JournalType /\ Stays(c, q) BY <1>3, <1>5, QueueCancelledType, EntriesStay
<1> HIDE DEF q
<1>7. Stays(q, RunClosed(q, "Interrupted")) BY <1>6, EntriesStay
<1>8. Stays(journal, RunClosed(q, "Interrupted")) BY <1>4, <1>5, <1>6, <1>7, StaysTransitive
<1> QED BY <1>8 DEF InterruptBatch, q, c, ids, f

\* The drive moves inputs from the queue into the transcript and no further.
LEMMA DriverStays ==
  ASSUME TypeInv, Driver
  PROVE  Stays(journal, journal')
<1>1. journal \in JournalType BY DEF TypeInv, JournalOK
<1>2. CASE \/ Launch \/ ResumeFails \/ ResolveSuspended \/ StartFails \/ BeginTurn
           \/ ModelFails \/ CandidateValid \/ GateDefers \/ GateAdmits \/ GateFails
           \/ ToolsReturn \/ HandlerDefers \/ HookRefuses \/ HookEnds
  <2>1. UNCHANGED journal BY <1>2
    DEF Launch, ResumeFails, ResolveSuspended, StartFails, BeginTurn, ModelFails,
        CandidateValid, GateDefers, GateAdmits, GateFails, ToolsReturn, HandlerDefers,
        HookRefuses, HookEnds, Loop, Leave
  <2> QED BY <2>1, QuietStays
<1>3. CASE StartRun BY <1>1, <1>3, EntriesStay, EmitStays DEF StartRun
<1>4. ASSUME NEW n \in 0..Cardinality(Calls), ModelAnswers(n)
      PROVE  Stays(journal, journal')
  <2> DEFINE j == AssistantCommitted(journal, (journal.calls + 1)..(journal.calls + n))
  <2>1. Stays(journal, j) BY <1>1, EntriesStay
  <2>2. PICK m, d : Emit(j, m, d) BY <1>4 DEF ModelAnswers
  <2> HIDE DEF j
  <2> QED BY <2>1, <2>2, EmitStays
<1>5. CASE CandidateInvalid BY <1>1, <1>5, EntriesStay, EmitStays DEF CandidateInvalid
<1>6. CASE StartTool BY <1>1, <1>6, EntriesStay, EmitStays DEF StartTool
<1>7. CASE CommitResult
  BY <1>1, <1>7, EntriesStay, EmitStays, QuietStays DEF CommitResult, Loop
<1>8. CASE EndTurn
  <2> DEFINE j == UsageRecorded(journal, drv.used, mem.usage + Delta)
  <2>1. Stays(journal, j) BY <1>1, EntriesStay
  <2>2. PICK m, d : Emit(j, m, d) BY <1>8 DEF EndTurn
  <2> HIDE DEF j
  <2> QED BY <2>1, <2>2, EmitStays
<1>9. CASE HookInjects
  <2> DEFINE j == QueueDrained(journal, Ids(Boundary))
  <2>1. Stays(journal, j) BY <1>1, EntriesStay
  <2>2. PICK m : Commit(j, m, state) \/ AppendError(j) BY <1>9 DEF HookInjects
  <2> HIDE DEF j
  <2> QED BY <2>1, <2>2, BatchStays
<1>10. CASE InjectMessages
  <2> DEFINE j == InputsApplied(journal, mem.inject)
  <2>1. Stays(journal, j) BY <1>1, EntriesStay
  <2>2. PICK m, d : Emit(j, m, d) BY <1>10 DEF InjectMessages
  <2> HIDE DEF j
  <2> QED BY <2>1, <2>2, EmitStays
<1>11. CASE CompleteRun BY <1>1, <1>11, EntriesStay, EmitStays DEF CompleteRun
<1>12. CASE SuspendRun
  <2>1. PICK susp, m, d : Emit(RunSuspended(journal, susp), m, d) BY <1>12 DEF SuspendRun
  <2> QED BY <1>1, <2>1, EntriesStay, EmitStays
<1> QED
  BY <1>2, <1>3, <1>4, <1>5, <1>6, <1>7, <1>8, <1>9, <1>10, <1>11, <1>12 DEF Driver

\* What finishInterrupt settles, it settles.
LEMMA FinishInterruptStays ==
  ASSUME TypeInv, NEW used \in Nat, used >= mem.last, FinishInterrupt(used)
  PROVE  Stays(journal, journal')
<1> DEFINE j == InterruptBatch(mem, used)
<1>1. Stays(journal, j) BY InterruptBatchStays DEF TypeInv
<1>2. PICK m : Commit(j, m, "Idle") \/ AppendError(j) BY DEF FinishInterrupt
<1> HIDE DEF j
<1> QED BY <1>1, <1>2, BatchStays

\* The end of a drive cancels inputs and closes its run.
LEMMA FinishStays ==
  ASSUME TypeInv, Finish
  PROVE  Stays(journal, journal')
<1>1. journal \in JournalType /\ JournalOK(journal) /\ mem \in MemType /\ MemOK(mem)
  BY DEF TypeInv, JournalOK, MemOK
<1>2. Stays(journal, journal) BY DEF Stays, Keeps
<1>3. PersistFault => Stays(journal, journal')
  <2>1. Stays(journal, FaultRecorded(journal)) BY <1>1, EntriesStay
  <2> QED BY <1>2, <2>1 DEF PersistFault
<1>4. CASE FinishFaulted \/ FinishInterrupted \/ FinishBounced
  BY <1>4, QuietStays DEF FinishFaulted, FinishInterrupted, FinishBounced, Loop
<1>5. CASE FinishUnusable BY <1>3, <1>5 DEF FinishUnusable
<1>6. CASE FinishSuspended
  <2> DEFINE j == Charged(journal, mem, drv.used)
  <2>1. Stays(journal, j) BY <1>1, ChargedStays
  <2>2. journal' \in {journal, j} BY <1>6 DEF FinishSuspended, AppendError
  <2> QED BY <1>2, <2>1, <2>2
<1>7. CASE FinishClosed
  <2> DEFINE status  == IF drv.outcome = "Completed" THEN "Completed" ELSE "Failed"
             cancels == IF status = "Completed" THEN {} ELSE RunScopedIds(mem.queue)
             c == Charged(journal, mem, Used(mem))
             q == QueueCancelled(c, cancels)
             j == RunClosed(q, status)
             m == [Detached(mem) EXCEPT !.usage = @ + (Used(mem) - mem.last),
                                        !.queue = Without(@, cancels)]
  <2>1. Used(mem) >= mem.last /\ Used(mem) \in Nat /\ (Commit(j, m, "Idle") \/ AppendError(j))
    BY <1>7, UsedType DEF FinishClosed, Settling
  <2>2. cancels \in SUBSET Inputs
    BY <1>1, IdsAreInputs DEF RunScopedIds, OfKind, Ids, MemType
  <2> HIDE DEF status, cancels
  <2>3. c \in JournalType /\ Stays(journal, c)
    BY <1>1, <2>1, ChargedOK, ChargedStays DEF JournalOK
  <2> HIDE DEF c
  <2>4. q \in JournalType /\ Stays(c, q) BY <2>2, <2>3, QueueCancelledType, EntriesStay
  <2> HIDE DEF q
  <2>5. Stays(q, j) BY <2>4, EntriesStay
  <2> HIDE DEF j, m
  <2>6. Stays(journal, j) BY <2>3, <2>4, <2>5, StaysTransitive
  <2> QED BY <2>1, <2>6, BatchStays
<1>8. CASE SettleInterrupt
  <2>1. CASE NothingToInterrupt BY <2>1, QuietStays DEF NothingToInterrupt
  <2>2. CASE Used(mem) >= mem.last /\ FinishInterrupt(Used(mem))
    BY <2>2, UsedType, FinishInterruptStays
  <2> QED BY <1>3, <1>8, <2>1, <2>2 DEF SettleInterrupt
<1> QED
  BY <1>4, <1>5, <1>6, <1>7, <1>8 DEF Finish

\* So does the goroutine that settles an interrupted suspension.
LEMMA SettleSuspendedStays ==
  ASSUME TypeInv, SettleSuspended
  PROVE  Stays(journal, journal')
<1>1. mem.last \in Nat BY CounterTypes
<1>2. CASE NothingToInterrupt BY <1>2, QuietStays DEF NothingToInterrupt
<1>3. CASE FinishInterrupt(mem.last) BY <1>1, <1>3, FinishInterruptStays
<1> QED BY <1>2, <1>3 DEF SettleSuspended

\* A run that opens takes in inputs that waited for it.
LEMMA StartKeeps ==
  ASSUME NEW j \in JournalType, NEW run \in Nat, NEW limit \in Nat, NEW ids, NEW next
  PROVE  Keeps(j, UserMessage(InputsApplied(QueueDrained(RunOpened(j, run, limit), ids), next)))
<1> DEFINE o == RunOpened(j, run, limit)
           d == QueueDrained(o, ids)
           g == InputsApplied(d, next)
<1>1. o \in JournalType /\ d \in JournalType /\ g \in JournalType
  BY RunOpenedType, QueueDrainedType, InputsAppliedType
<1>2. Keeps(j, o) BY DEF RunOpened, JournalType, Keeps, Entries
<1> HIDE DEF o
<1>3. Stays(o, d) BY <1>1, EntriesStay
<1> HIDE DEF d
<1>4. Stays(d, g) BY <1>1, EntriesStay
<1> HIDE DEF g
<1>5. Stays(g, UserMessage(g)) BY <1>1, EntriesStay
<1>6. Keeps(j, UserMessage(g)) BY <1>2, <1>3, <1>4, <1>5, StaysTransitive DEF Stays, Keeps
<1> QED BY <1>6 DEF g, d, o

\* So does one that replaces a run.
LEMMA ReplacedKeeps ==
  ASSUME NEW j \in JournalType, NEW run \in Nat, NEW limit \in Nat
  PROVE  Keeps(j, RunOpened(FrontierClosed(RunClosed(j, "Interrupted")), run, limit))
<1> DEFINE c == RunClosed(j, "Interrupted")
           f == FrontierClosed(c)
<1>1. c \in JournalType /\ f \in JournalType BY RunClosedType, FrontierClosedType
<1>2. Stays(j, c) BY EntriesStay
<1> HIDE DEF c
<1>3. Stays(c, f) BY <1>1, EntriesStay
<1> HIDE DEF f
<1>4. Keeps(f, RunOpened(f, run, limit)) BY <1>1 DEF RunOpened, JournalType, Keeps, Entries
<1>5. Keeps(j, RunOpened(f, run, limit)) BY <1>2, <1>3, <1>4 DEF Stays, Keeps
<1> QED BY <1>5 DEF f, c

\* A client's call admits an input to the open run, aims an interrupt at it, or
\* leaves the inputs with the runs that have them.
LEMMA ClientMoves ==
  ASSUME TypeInv, Coherent, Faithful, Client
  PROVE  /\ \/ Keeps(journal, journal') \/ Admits(journal, journal')
            \/ Aims(journal, journal')
         /\ journal.run # NoRun /\ ~(\E id \in 1..journal.susps : ResumeIndeterminate(id))
              => journal'.run \in {journal.run, NoRun}
<1> DEFINE Moves == Keeps(journal, journal') \/ Admits(journal, journal')
                    \/ Aims(journal, journal')
<1>1. /\ journal \in JournalType /\ mem \in MemType /\ mem.usage \in Nat
      /\ journal.accepted \in Seq([id : Inputs, kind : QueueKinds, run : Nat, target : Nat])
  BY DEF TypeInv, JournalOK, MemOK, MemType, JournalType
<1>2. lock /\ state \in Attached =>
        mem.run = journal.run /\ (state = "Idle" <=> journal.run = NoRun)
  BY DEF Faithful, Live, Mirrors, Coherent, LiveRun
<1>3. Stays(journal, journal') => Moves /\ journal'.run \in {journal.run, NoRun}
  BY DEF Stays
<1>4. journal' = journal => Moves /\ journal'.run \in {journal.run, NoRun}
  BY <1>3, QuietStays
<1>5. CASE Start
  <2> DEFINE run   == journal.runs + 1
             limit == Remaining(mem.usage)
             next  == OfKind(mem.queue, {"next_turn"})
             j     == UserMessage(InputsApplied(
                        QueueDrained(RunOpened(journal, run, limit), Ids(next)), next))
  <2>1. limit \in Nat /\ run \in Nat /\ state = "Idle"
    BY <1>1, <1>5, RemainingType DEF Start, JournalType
  <2>2. PICK m : Commit(j, m, "Running") \/ AppendError(j) BY <1>5 DEF Start
  <2> HIDE DEF limit, next, run
  <2>3. Keeps(journal, j) BY <1>1, <2>1, StartKeeps
  <2> HIDE DEF j
  <2>4. journal' = journal \/ (lock /\ journal' = j) BY <2>2 DEF Commit, AppendError
  <2>5. lock => journal.run = NoRun BY <1>2, <2>1 DEF Attached
  <2> QED BY <1>4, <2>3, <2>4, <2>5
<1>6. ASSUME NEW id \in Inputs, NEW kind \in QueueKinds, NEW target \in 0..MaxRuns,
             Accept(id, kind, target)
      PROVE  Moves /\ journal'.run \in {journal.run, NoRun}
  <2> DEFINE entry == [id |-> id, kind |-> kind, at |-> Len(journal.accepted) + 1]
             j == QueueAccepted(journal, entry, target)
             m == [mem EXCEPT !.queue = @ \cup {entry}]
  <2>1. /\ Commit(j, m, state) \/ AppendError(j)
        /\ \A n \in DOMAIN journal.accepted : journal.accepted[n].id # id
        /\ state \in Attached /\ (kind \in RunScoped => state = "Running")
        /\ target # NoRun => mem.run = target
    BY <1>6 DEF Accept, Acceptable
  <2>2. entry \in QueueEntry /\ entry.id = id /\ entry.kind = kind /\ target \in Nat
    BY <1>1, SessionAssumption DEF QueueEntry
  <2>3. journal' = journal \/ (lock /\ journal' = j) BY <2>1 DEF Commit, AppendError
  <2> HIDE DEF entry, m
  <2>4. /\ j.run = journal.run /\ j.interrupts = journal.interrupts
        /\ j.applied = journal.applied /\ j.drained = journal.drained
        /\ j.queue = journal.queue \cup {entry}
        /\ j.accepted = Append(journal.accepted,
                          [id |-> entry.id, kind |-> entry.kind, run |-> journal.run,
                           target |-> target])
    <3>1. journal \in JournalType BY <1>1
    <3>2. SameBooks(journal, j) BY <3>1, QueueBooks
    <3>3. /\ j.applied = journal.applied /\ j.drained = journal.drained
          /\ j.queue = journal.queue \cup {entry}
          /\ j.accepted = Append(journal.accepted,
                            [id |-> entry.id, kind |-> entry.kind, run |-> journal.run,
                             target |-> target])
      BY <3>1 DEF QueueAccepted, JournalType
    <3> QED BY <3>2, <3>3 DEF SameBooks
  <2> HIDE DEF j
  <2>5. ASSUME lock PROVE Admits(journal, j)
    <3>1. /\ entry.kind \in RunScoped => journal.run # NoRun
          /\ target # NoRun => journal.run = target
      BY <1>2, <2>1, <2>2, <2>5
    <3>2. Entries(j) = Entries(journal) \cup {entry} BY <2>4 DEF Entries
    <3> QED BY <2>1, <2>2, <2>4, <3>1, <3>2 DEF Admits
  <2> QED BY <1>4, <2>3, <2>4, <2>5
<1>7. ASSUME NEW target \in 0..MaxRuns, Interrupt(target)
      PROVE  Moves /\ journal'.run \in {journal.run, NoRun}
  <2> DEFINE j == InterruptAccepted(journal, target)
  <2>1. /\ journal' = journal \/ (lock /\ journal' = j)
        /\ state \in Attached /\ (target # NoRun <=> DurableInterrupts)
        /\ target # NoRun => mem.run = target
    BY <1>7 DEF Interrupt, Attached, Busy, Commit, AppendError
  <2>2. /\ j.run = journal.run /\ SamePlaces(journal, j)
        /\ j.interrupts = journal.interrupts \cup {[run |-> journal.run, target |-> target]}
    BY <1>1, ProgressFields DEF InterruptAccepted, JournalType
  <2> HIDE DEF j
  <2>3. target \in Nat BY SessionAssumption
  <2>4. lock => Aims(journal, j) BY <1>2, <2>1, <2>2, <2>3 DEF Aims, SamePlaces, Entries
  <2> QED BY <1>4, <2>1, <2>2, <2>4
<1>8. ASSUME NEW id, NEW approved, Resume(id, approved)
      PROVE  Moves /\ journal'.run \in {journal.run, NoRun}
  <2>1. UNCHANGED journal BY <1>8 DEF Resume, Commit, AppendError
  <2> QED BY <1>4, <2>1
<1>9. ASSUME NEW id \in 1..journal.susps, ResumeIndeterminate(id)
      PROVE  Moves
  <2> DEFINE run   == journal.runs + 1
             limit == Remaining(mem.usage)
             j     == RunOpened(FrontierClosed(RunClosed(journal, "Interrupted")), run, limit)
  <2>1. limit \in Nat /\ run \in Nat
    BY <1>1, <1>9, RemainingType DEF ResumeIndeterminate, Resumable, JournalType
  <2>2. PICK m : Commit(j, m, "Running") \/ AppendError(j) BY <1>9 DEF ResumeIndeterminate
  <2> HIDE DEF limit, run
  <2>3. Keeps(journal, j) BY <1>1, <2>1, ReplacedKeeps
  <2> HIDE DEF j
  <2>4. journal' = journal \/ journal' = j BY <2>2 DEF Commit, AppendError
  <2> QED BY <1>4, <2>3, <2>4
<1> QED
  BY <1>5, <1>6, <1>7, <1>8, <1>9 DEF Client

\* Recovery goes on with the run it finds, or settles it.
LEMMA RecoverStays ==
  ASSUME TypeInv, Recover
  PROVE  Stays(journal, journal')
<1>1. journal \in JournalType /\ JournalOK(journal) /\ journal.last \in Nat
  BY DEF TypeInv, JournalOK, JournalType
<1>2. CASE RecoverInterrupted
  <2>1. journal' = InterruptBatch(Folded, Folded.last)
    BY <1>2 DEF RecoverInterrupted, Reopen
  <2>2. MemOK(Folded) /\ Folded.last = journal.last BY <1>1, LoadedOK DEF Folded, Loaded
  <2> QED BY <1>1, <2>1, <2>2, InterruptBatchStays
<1>3. CASE RecoverCompleted BY <1>1, <1>3, EntriesStay DEF RecoverCompleted, Reopen
<1>4. CASE RecoverIdle \/ RecoverSuspended
  BY <1>4, QuietStays DEF RecoverIdle, RecoverSuspended, Reopen
<1>5. CASE RecoverInject BY <1>1, <1>5, EntriesStay DEF RecoverInject
<1>6. CASE RecoverIndeterminate
  <2>1. PICK susp : journal' = RunSuspended(journal, susp)
    BY <1>6 DEF RecoverIndeterminate, Reopen
  <2> QED BY <1>1, <2>1, EntriesStay
<1>7. CASE RecoverContinue
  <2> DEFINE f == FrontierAbandoned(journal)
  <2>1. PICK limit : journal' = RunOpened(f, journal.run, limit)
    BY <1>7 DEF RecoverContinue, Reopen
  <2>2. Stays(journal, f) /\ f \in JournalType BY <1>1, EntriesStay, FrontierAbandonedType
  <2> HIDE DEF f
  <2>3. Keeps(f, RunOpened(f, journal.run, limit))
        /\ RunOpened(f, journal.run, limit).run = journal.run
    BY <2>2 DEF RunOpened, JournalType, Keeps, Entries
  <2> QED BY <2>1, <2>2, <2>3 DEF Stays, Keeps
<1> QED
  BY <1>2, <1>3, <1>4, <1>5, <1>6, <1>7 DEF Recover

\* Every step.
LEMMA StepMoves ==
  ASSUME TypeInv, Coherent, Faithful, [Next]_vars
  PROVE  /\ \/ Keeps(journal, journal') \/ Admits(journal, journal')
            \/ Aims(journal, journal')
         /\ journal.run # NoRun /\ ~(\E id \in 1..journal.susps : ResumeIndeterminate(id))
              => journal'.run \in {journal.run, NoRun}
<1>1. CASE Owner \/ UNCHANGED vars
  BY <1>1, QuietStays DEF Owner, Abandon, Close, Drop, Crash, NoHandle, vars, Stays
<1>2. CASE Client BY <1>2, ClientMoves
<1>3. CASE Driver \/ Finish \/ SettleSuspended \/ Recover
  BY <1>3, DriverStays, FinishStays, SettleSuspendedStays, RecoverStays DEF Stays
<1> QED BY <1>1, <1>2, <1>3 DEF Next

-----------------------------------------------------------------------------
(***************************************************************************)
(* An input that is owned stays owned.  Onward says what a step has to do  *)
(* to the relation: keep what is in it, and carry it on from the run that  *)
(* is open to the one that is open next.                                   *)
(***************************************************************************)
Onward(j, k, S, T) ==
  /\ S \subseteq T
  /\ j.run # NoRun /\ k.run # NoRun => \A p : <<p, j.run>> \in S => <<p, k.run>> \in T

\* An input that is there before the batch.
LEMMA OwnKept ==
  ASSUME NEW j, NEW k, NEW S, NEW T, Writes(j, k), Entries(k) \subseteq Entries(j),
         Released(k), Onward(j, k, S, T), NEW a, a.id \in Inputs, Own(a, j, S)
  PROVE  Own(a, k, T)
<1>1. \A i : i \in Waiting(j) <=> \E e \in Entries(j) : e.id = i
  BY DEF Waiting, Ids, Entries
<1>2. \A i : i \in Waiting(k) <=> \E e \in Entries(k) : e.id = i
  BY DEF Waiting, Ids, Entries
<1>3. \A e \in Entries(k) : e.id = a.id => e.kind = a.kind BY DEF Own
<1>4. ASSUME a.kind \in RunScoped, a.id \in Waiting(k)
      PROVE  k.run # NoRun /\ <<a.run, k.run>> \in T
  <2>1. PICK e \in Entries(k) : e.id = a.id BY <1>2, <1>4
  <2>2. k.run # NoRun BY <1>3, <1>4, <2>1 DEF Released, OfKind
  <2>3. j.run # NoRun /\ <<a.run, j.run>> \in S BY <1>1, <1>4, <2>1 DEF Own
  <2> QED BY <2>2, <2>3 DEF Onward
<1>5. ASSUME a.kind \in RunScoped, NEW n \in DOMAIN k.applied[a.id]
      PROVE  <<a.run, k.applied[a.id][n]>> \in T
  <2>1. ASSUME k.applied[a.id] = j.applied[a.id]
        PROVE  <<a.run, k.applied[a.id][n]>> \in T
    BY <1>5, <2>1 DEF Own, Onward
  <2>2. ASSUME NEW ids, Gives(j, k, ids), j.run # NoRun => k.run = j.run
        PROVE  <<a.run, k.applied[a.id][n]>> \in T
    <3>1. k.applied[a.id] = IF a.id \in ids THEN <<k.run>> ELSE j.applied[a.id]
      BY <2>2 DEF Gives
    <3>2. CASE a.id \in ids
      <4>1. j.run # NoRun /\ <<a.run, j.run>> \in S BY <1>5, <2>2, <3>2 DEF Gives, Own
      <4>2. k.applied[a.id][n] = k.run BY <1>5, <3>1, <3>2
      <4> QED BY <2>2, <4>1, <4>2 DEF Onward
    <3>3. CASE a.id \notin ids BY <2>1, <3>1, <3>3
    <3> QED BY <3>2, <3>3
  <2>3. k.applied = j.applied \/ (\E ids : Gives(j, k, ids) /\ (j.run # NoRun => k.run = j.run))
    BY DEF Writes, SameInputs, Opens, Delivers, Settles, Interrupts, Replaces, Accepts,
           Cancels, SameRuns
  <2> QED BY <2>1, <2>2, <2>3
<1> QED BY <1>3, <1>4, <1>5 DEF Own

\* A batch that admits none.
LEMMA OwnedKept ==
  ASSUME NEW j \in JournalType, NEW k, NEW S, NEW T, Writes(j, k),
         k.accepted = j.accepted, Entries(k) \subseteq Entries(j),
         Released(k), Onward(j, k, S, T), Owned(j, S)
  PROVE  Owned(k, T)
<1> SUFFICES ASSUME NEW n \in DOMAIN j.accepted PROVE Own(j.accepted[n], k, T)
  BY DEF Owned
<1>1. j.accepted[n].id \in Inputs
  <2> DEFINE Acceptance == [id : Inputs, kind : QueueKinds, run : Nat, target : Nat]
  <2>1. j.accepted \in Seq(Acceptance) BY DEF JournalType
  <2> HIDE DEF Acceptance
  <2>2. j.accepted[n] \in Acceptance BY <2>1
  <2> QED BY <2>2 DEF Acceptance
<1>2. Own(j.accepted[n], j, S) BY DEF Owned
<1> QED BY <1>1, <1>2, OwnKept

\* One that admits an input makes it the open run's.
LEMMA OwnedAdmits ==
  ASSUME NEW j \in JournalType, NEW k, NEW S, NEW T, Placed(j), Admits(j, k),
         Onward(j, k, S, T), Owned(j, S), <<j.run, j.run>> \in S
  PROVE  Owned(k, T)
<1>1. PICK e \in QueueEntry, target \in Nat :
        /\ \A n \in DOMAIN j.accepted : j.accepted[n].id # e.id
        /\ Entries(k) = Entries(j) \cup {e}
        /\ k.accepted = Append(j.accepted, [id |-> e.id, kind |-> e.kind, run |-> j.run,
                                            target |-> target])
        /\ e.kind \in RunScoped => j.run # NoRun
  BY DEF Admits
<1> DEFINE b == [id |-> e.id, kind |-> e.kind, run |-> j.run, target |-> target]
<1>2. k.run = j.run /\ k.applied = j.applied BY DEF Admits
<1>3. \A i : (i \in Waiting(j) <=> \E f \in Entries(j) : f.id = i)
             /\ (i \in Waiting(k) <=> \E f \in Entries(k) : f.id = i)
  BY DEF Waiting, Ids, Entries
<1>4. e.id \in Inputs /\ e.id \notin Waiting(j) /\ j.applied[e.id] = <<>>
  <2>1. e.id \in Inputs /\ e.id \notin AcceptedIds(j) BY <1>1 DEF QueueEntry, AcceptedIds
  <2> QED BY <2>1 DEF Placed, Waiting, AppliedIds
<1>5. /\ DOMAIN k.accepted = DOMAIN j.accepted \cup {Len(j.accepted) + 1}
      /\ \A n \in DOMAIN j.accepted : k.accepted[n] = j.accepted[n]
      /\ k.accepted[Len(j.accepted) + 1] = b
  <2>1. /\ j.accepted \in Seq([id : Inputs, kind : QueueKinds, run : Nat, target : Nat])
        /\ b \in [id : Inputs, kind : QueueKinds, run : Nat, target : Nat]
    BY DEF JournalType, QueueEntry
  <2> HIDE DEF b
  <2>2. k.accepted = Append(j.accepted, b) BY <1>1 DEF b
  <2> QED BY <2>1, <2>2
<1>6. ASSUME NEW n \in DOMAIN j.accepted PROVE Own(j.accepted[n], k, T)
  <2> DEFINE a == j.accepted[n]
  <2>1. Own(a, j, S) /\ a.id # e.id BY <1>1 DEF Owned
  <2> HIDE DEF a
  <2>2. \A f \in Entries(k) : f.id = a.id => f \in Entries(j) BY <1>1, <2>1
  <2>3. a.id \in Waiting(k) => a.id \in Waiting(j) BY <1>3, <2>2
  <2>4. Own(a, k, T) BY <1>2, <2>1, <2>2, <2>3 DEF Own, Onward
  <2> QED BY <2>4 DEF a
<1>7. Own(b, k, T)
  <2>1. \A f \in Entries(k) : f.id = b.id => f.kind = b.kind BY <1>1, <1>3, <1>4
  <2>2. b.kind \in RunScoped => k.run # NoRun /\ <<b.run, k.run>> \in T
    BY <1>1, <1>2 DEF Onward
  <2>3. DOMAIN k.applied[b.id] = {} BY <1>2, <1>4
  <2> QED BY <2>1, <2>2, <2>3 DEF Own
<1> QED BY <1>5, <1>6, <1>7 DEF Owned

\* Every step keeps the ownership that it carries on.
LEMMA OwnedStep ==
  ASSUME TypeInv, Coherent, Faithful, [Next]_vars, Released(journal'),
         NEW S, NEW T, Onward(journal, journal', S, T), \A p \in Nat : <<p, p>> \in S,
         Owned(journal, S)
  PROVE  Owned(journal', T)
<1>1. journal \in JournalType /\ Placed(journal) /\ journal.run \in Nat
  BY CounterTypes DEF Faithful
<1>2. Writes(journal, journal') BY StepWrites
<1>3. CASE Keeps(journal, journal') BY <1>1, <1>2, <1>3, OwnedKept DEF Keeps
<1>4. CASE Admits(journal, journal') BY <1>1, <1>4, OwnedAdmits
<1>5. CASE Aims(journal, journal') BY <1>1, <1>2, <1>5, OwnedKept DEF Aims
<1> QED BY <1>3, <1>4, <1>5, StepMoves

\* Between two steps that end in no operator's resolution a run is its own.
LEMMA SameOnward ==
  ASSUME NEW j, j.run \in Nat, NEW k, j.run # NoRun => k.run \in {j.run, NoRun}
  PROVE  Onward(j, k, Same, Same)
<1> SUFFICES ASSUME j.run # NoRun, k.run # NoRun, NEW p, <<p, j.run>> \in Same
             PROVE  <<p, k.run>> \in Same
  BY DEF Onward
<1> QED OBVIOUS

\* A resolution carries inputs from a run that it closes as interrupted to the
\* next.
LEMMA ReachedOnward ==
  ASSUME NEW j \in JournalType, Books(j), NEW k, k.run \in Nat, Writes(j, k)
  PROVE  Onward(j, k, Reached(j), Reached(k))
<1> DEFINE s == Statuses(j)
           t == Statuses(k)
<1>1. s \in Seq({"Completed", "Failed", "Interrupted"}) /\ Len(s) = Len(j.closed)
  <2> DEFINE Status == {"Completed", "Failed", "Interrupted"}
             Closing == [run : Nat, status : Status]
             c == j.closed
  <2>1. c \in Seq(Closing) BY DEF JournalType
  <2> HIDE DEF Closing
  <2>2. Len(c) \in Nat /\ DOMAIN c = 1..Len(c) /\ \A i \in DOMAIN c : c[i].status \in Status
    <3>1. Len(c) \in Nat /\ DOMAIN c = 1..Len(c) /\ \A i \in DOMAIN c : c[i] \in Closing
      BY <2>1
    <3> QED BY <3>1 DEF Closing
  <2>3. s = [i \in 1..Len(c) |-> c[i].status] BY <2>2 DEF Statuses
  <2> HIDE DEF c, s, Status
  <2>4. s \in [1..Len(c) -> Status] /\ DOMAIN s = 1..Len(c) BY <2>2, <2>3
  <2>5. s \in Seq(Status) /\ Len(s) = Len(c) BY <2>2, <2>4
  <2> QED BY <2>5 DEF Status, c
<1>2. t = s \/ \E status \in {"Completed", "Failed", "Interrupted"} : t = Append(s, status)
  BY DEF Writes, SameRuns, Opens, Delivers, Settles, Interrupts, Replaces, Accepts, Statuses
<1> HIDE DEF s, t
<1>3. \A r \in DOMAIN s : r \in DOMAIN t /\ t[r] = s[r] BY <1>1, <1>2
<1>4. Reached(j) \subseteq Reached(k) BY <1>3 DEF Reached, s, t
<1>5. ASSUME j.run # NoRun, k.run # NoRun, NEW p, <<p, j.run>> \in Reached(j)
      PROVE  <<p, k.run>> \in Reached(k)
  <2>1. CASE k.run = j.run BY <1>4, <1>5, <2>1
  <2>2. CASE k.run # j.run
    <3>1. k.run = j.runs + 1 /\ t = Append(s, "Interrupted")
      BY <1>5, <2>2
      DEF Writes, SameRuns, Opens, Delivers, Settles, Interrupts, Replaces, Accepts, s, t
    <3>2. j.run = j.runs /\ Len(s) = j.run - 1 /\ j.run \in Nat
      BY <1>1, <1>5 DEF Books, JournalType
    <3>3. j.run \in DOMAIN t /\ t[j.run] = "Interrupted" BY <1>1, <1>5, <3>1, <3>2 DEF NoRun
    <3>4. /\ p \in Nat /\ p <= j.run
          /\ \A r \in p..(j.run - 1) : r \in DOMAIN s /\ s[r] = "Interrupted"
      BY <1>5 DEF Reached, s
    <3>5. \A r \in p..(k.run - 1) : r \in DOMAIN t /\ t[r] = "Interrupted"
      <4> SUFFICES ASSUME NEW r \in p..(k.run - 1)
                   PROVE  r \in DOMAIN t /\ t[r] = "Interrupted"
        OBVIOUS
      <4>1. r \in p..(j.run - 1) \/ r = j.run BY <3>1, <3>2, <3>4
      <4> QED BY <1>3, <3>3, <3>4, <4>1
    <3>6. p <= k.run /\ k.run \in Nat BY <3>1, <3>2, <3>4
    <3> QED BY <3>4, <3>5, <3>6 DEF Reached, t
  <2> QED BY <2>1, <2>2
<1> QED BY <1>4, <1>5 DEF Onward

\* An accepted input is an owned input.
LEMMA OwnedAccepted ==
  ASSUME NEW S, Owned(journal, S), NEW a \in Accepted, a.kind \in RunScoped,
         NEW n \in DOMAIN journal.applied[a.id]
  PROVE  <<a.run, journal.applied[a.id][n]>> \in S
BY DEF Owned, Own, Accepted

-----------------------------------------------------------------------------
\* A command that names a run was accepted by that run.
CommandsStayInRun ==
  /\ \A a \in Accepted : a.target # NoRun => a.run = a.target
  /\ DurableInterrupts => \A i \in journal.interrupts : i.run = i.target

\* An operator's resolution of an indeterminate suspension closes a run and opens
\* the next over the same queue.
OperatorResolves == \E id \in 1..journal.susps : ResumeIndeterminate(id)

\* An input that reached another run than the one that accepted it went there
\* over runs that were closed as interrupted, one after the other.
InputsFollowInterruptions ==
  \A a \in Accepted : a.kind \in RunScoped =>
    \A n \in DOMAIN journal.applied[a.id] :
      /\ a.run <= journal.applied[a.id][n]
      /\ \A r \in a.run..(journal.applied[a.id][n] - 1) :
           r \in DOMAIN journal.closed /\ journal.closed[r].status = "Interrupted"

\* A steer, a follow-up and a durable interrupt that name a run are accepted by
\* it, whatever run is open when they come (staleTargetLocked,
\* requestInterruptCommand).
THEOREM CommandsHitTheirRun == Spec => []CommandsStayInRun
<1>1. Init => CommandsStayInRun BY DEF Init, EmptyJournal, CommandsStayInRun, Accepted
<1>2. TypeInv /\ Coherent /\ Faithful /\ CommandsStayInRun /\ [Next]_vars => CommandsStayInRun'
  <2> SUFFICES ASSUME TypeInv, Coherent, Faithful, CommandsStayInRun, [Next]_vars
               PROVE  CommandsStayInRun'
    OBVIOUS
  <2>1. CASE Keeps(journal, journal') BY <2>1 DEF Keeps, CommandsStayInRun, Accepted
  <2>2. CASE Admits(journal, journal')
    <3>1. PICK e \in QueueEntry, target \in Nat :
            /\ journal'.accepted = Append(journal.accepted,
                 [id |-> e.id, kind |-> e.kind, run |-> journal.run, target |-> target])
            /\ target # NoRun => journal.run = target
            /\ journal'.interrupts = journal.interrupts
      BY <2>2 DEF Admits
    <3> DEFINE b == [id |-> e.id, kind |-> e.kind, run |-> journal.run, target |-> target]
    <3>2. /\ journal.accepted \in Seq([id : Inputs, kind : QueueKinds, run : Nat, target : Nat])
          /\ b \in [id : Inputs, kind : QueueKinds, run : Nat, target : Nat]
      BY CounterTypes DEF JournalType, QueueEntry
    <3>3. b.target # NoRun => b.run = b.target BY <3>1
    <3> HIDE DEF b
    <3>4. journal'.accepted = Append(journal.accepted, b) BY <3>1 DEF b
    <3>5. \A n \in DOMAIN journal'.accepted :
            journal'.accepted[n] = b \/ \E m \in DOMAIN journal.accepted :
                                          journal'.accepted[n] = journal.accepted[m]
      BY <3>2, <3>4
    <3>6. \A n \in DOMAIN journal'.accepted :
            journal'.accepted[n].target # NoRun
              => journal'.accepted[n].run = journal'.accepted[n].target
      BY <3>3, <3>5 DEF CommandsStayInRun, Accepted
    <3> QED BY <3>1, <3>6 DEF CommandsStayInRun, Accepted
  <2>3. CASE Aims(journal, journal') BY <2>3 DEF Aims, CommandsStayInRun, Accepted
  <2> QED BY <2>1, <2>2, <2>3, StepMoves
<1> QED BY <1>1, <1>2, TypeInvariant, CoherentInvariant, FaithfulInvariant, PTL DEF Spec

\* Law L8, and the two ways out of it.  As long as no run settles over drained
\* inputs and no operator resolves an indeterminate suspension, a steer or a
\* follow-up is injected into the run that accepted it and into no other, across
\* turn boundaries, interrupts, suspensions, failed appends, crashes and recoveries.
THEOREM InputsStay ==
  /\ Spec /\ [](journal.run = NoRun => journal.drained = {})
  /\ [][~OperatorResolves]_vars
  => []TargetedInputStaysInRun
<1>1. Init => Owned(journal, Same) BY DEF Init, EmptyJournal, Owned
<1>2. /\ TypeInv /\ Coherent /\ Faithful /\ [Next]_vars /\ [~OperatorResolves]_vars
      /\ NoStrandedInput' /\ (journal.run = NoRun => journal.drained = {})'
      /\ Owned(journal, Same)
      => Owned(journal, Same)'
  <2> SUFFICES ASSUME TypeInv, Coherent, Faithful, [Next]_vars, [~OperatorResolves]_vars,
                      NoStrandedInput', (journal.run = NoRun => journal.drained = {})',
                      Owned(journal, Same)
               PROVE  Owned(journal', Same)
    BY DEF Owned, Own, Entries, Waiting, Ids
  <2>1. Released(journal') BY DEF NoStrandedInput, Released, Entries, OfKind
  <2>2. journal.run # NoRun => journal'.run \in {journal.run, NoRun}
    BY StepMoves DEF OperatorResolves, vars
  <2>3. Onward(journal, journal', Same, Same) BY <2>2, SameOnward, CounterTypes
  <2>4. \A p \in Nat : <<p, p>> \in Same BY DEF Same
  <2> QED BY <2>1, <2>3, <2>4, OwnedStep
<1>3. Owned(journal, Same) /\ CommandsStayInRun => TargetedInputStaysInRun
  <2> SUFFICES ASSUME Owned(journal, Same), NEW a \in Accepted, a.kind \in RunScoped,
                      NEW n \in DOMAIN journal.applied[a.id]
               PROVE  journal.applied[a.id][n] = a.run
    BY DEF CommandsStayInRun, TargetedInputStaysInRun
  <2>1. <<a.run, journal.applied[a.id][n]>> \in Same BY OwnedAccepted
  <2> QED BY <2>1 DEF Same
<1> QED
  BY <1>1, <1>2, <1>3, TypeInvariant, CoherentInvariant, FaithfulInvariant, NothingStranded,
     CommandsHitTheirRun, PTL DEF Spec

\* Where interrupts are not durable commands no run settles over drained inputs,
\* so that an operator's resolution is the only way out of a run.
THEOREM InputsStayUnresolved ==
  ASSUME ~DurableInterrupts
  PROVE  Spec /\ [][~OperatorResolves]_vars => []TargetedInputStaysInRun
<1>1. InputsArrive => (journal.run = NoRun => journal.drained = {})
  BY DEF InputsArrive, DrainedReachesRun
<1> QED BY <1>1, Arrives, InputsStay, PTL

\* With operators' resolutions an input may leave its run for the one that the
\* resolution opens, and only so: the runs between are closed as interrupted.
THEOREM InputsFollow ==
  Spec /\ [](journal.run = NoRun => journal.drained = {}) => []InputsFollowInterruptions
<1>1. Init => Owned(journal, Reached(journal)) BY DEF Init, EmptyJournal, Owned
<1>2. /\ TypeInv /\ Coherent /\ Faithful /\ [Next]_vars /\ TypeInv'
      /\ NoStrandedInput' /\ (journal.run = NoRun => journal.drained = {})'
      /\ Owned(journal, Reached(journal))
      => Owned(journal, Reached(journal))'
  <2> SUFFICES ASSUME TypeInv, Coherent, Faithful, [Next]_vars, TypeInv',
                      NoStrandedInput', (journal.run = NoRun => journal.drained = {})',
                      Owned(journal, Reached(journal))
               PROVE  Owned(journal', Reached(journal'))
    BY DEF Owned, Own, Entries, Waiting, Ids, Reached, Statuses
  <2>1. Released(journal') BY DEF NoStrandedInput, Released, Entries, OfKind
  <2>2. journal \in JournalType /\ Books(journal) /\ journal'.run \in Nat
    BY CounterTypes DEF Coherent, TypeInv, JournalOK, JournalType
  <2>3. Onward(journal, journal', Reached(journal), Reached(journal'))
    BY <2>2, StepWrites, ReachedOnward
  <2>4. \A p \in Nat : <<p, p>> \in Reached(journal) BY DEF Reached
  <2> QED BY <2>1, <2>3, <2>4, OwnedStep
<1>3. Owned(journal, Reached(journal)) => InputsFollowInterruptions
  <2> SUFFICES ASSUME Owned(journal, Reached(journal)), NEW a \in Accepted,
                      a.kind \in RunScoped, NEW n \in DOMAIN journal.applied[a.id]
               PROVE  /\ a.run <= journal.applied[a.id][n]
                      /\ \A r \in a.run..(journal.applied[a.id][n] - 1) :
                           r \in DOMAIN journal.closed /\ journal.closed[r].status = "Interrupted"
    BY DEF InputsFollowInterruptions
  <2>1. <<a.run, journal.applied[a.id][n]>> \in Reached(journal) BY OwnedAccepted
  <2> QED BY <2>1 DEF Reached, Statuses
<1> QED
  BY <1>1, <1>2, <1>3, TypeInvariant, CoherentInvariant, FaithfulInvariant, NothingStranded,
     PTL DEF Spec
=============================================================================

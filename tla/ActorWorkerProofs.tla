--------------------------- MODULE ActorWorkerProofs ---------------------------
(***************************************************************************)
(* What is proved of ActorWorker for every value of its constants.         *)
(*                                                                         *)
(*   OneWriterAtATime   the fences of the journal never go back            *)
(*   ResolvedByOne      a command is resolved once, and before it leaves   *)
(*                      the mailbox                                        *)
(*   WorkStaysFound     an open run is marked, and a worker that retires   *)
(*                      has seen the runs it set going end                 *)
(*                                                                         *)
(* The parts of the inductive invariant Inv are operators over a journal j *)
(* and the records of one worker, so that what an append does to them are  *)
(* lemmas of their own, and so that the steps of the other workers, which  *)
(* leave an owner's journal and records alone, need no case of their own.  *)
(***************************************************************************)
EXTENDS ActorWorker, FiniteSetTheorems, WellFoundedInduction, TLAPS

-----------------------------------------------------------------------------
(***************************************************************************)
(* The inductive invariant.                                                *)
(***************************************************************************)
Named == Commands \cup {Nobody}
States == {"none", "idle", "running", "suspended", "faulted", "closed"}
FactType ==
  [kind : {"accepted", "rejected", "suspended", "settled", "resumed"},
   run : Named, command : Named, fence : Nat]
ViewType == [position : Nat, state : States, run : Named]
WaitType == [run : Named, after : Nat, command : Named]
WorkerType ==
  [pc : {"receive", "open", "load", "look", "pending", "deliver", "ack", "select", "close", "stale"},
   fence : Nat, then : {"none", "subscribe", "sweep", "page"}, view : ViewType,
   page : SUBSET Nat, after : Nat, full : BOOLEAN, sweep : BOOLEAN, found : BOOLEAN,
   wait : WaitType]
HandleType == [state : States, run : Named, by : Named]
StreamType == [next : Nat, bounced : Named]

TypeInv ==
  /\ history \in Seq(Commands) /\ pending \in SUBSET Commands
  /\ generation \in Nat /\ lease \in [owner : Workers \cup {Nobody}, fence : Nat]
  /\ live \in BOOLEAN /\ needs \in BOOLEAN
  /\ journal \in Seq(FactType) /\ faults \in Nat
  /\ worker \in [Workers -> WorkerType]
  /\ handle \in [Workers -> HandleType] /\ stream \in [Workers -> StreamType]

\* The grant in force is the last one, and whoever has it marked the actor.
LeaseInv == Leased => lease.fence = generation /\ needs

\* Entries that open a run, resolve a command, and end a wait.
Opens(f) == f.kind = "accepted" /\ f.command \in Runs
Resolves(f) == f.kind \in {"accepted", "rejected"}
IsEnd(f) == f.kind \in {"settled", "suspended"}
ResolvedIn(j, command) == \E n \in DOMAIN j : Resolves(j[n]) /\ j[n].command = command

\* Sequence numbers of a page stay those of the history; a command that is
\* about to be acknowledged has its receipt in the journal. A snapshot is taken
\* for a purpose.
PagesInv ==
  \A w \in Workers :
    /\ worker[w].page \in SUBSET DOMAIN history
    /\ worker[w].pc \in {"deliver", "ack"} => worker[w].page # {}
    /\ worker[w].pc \in {"load", "look"} => worker[w].then # "none"
    /\ At(w, "ack") => ResolvedIn(journal, Item(w))

\* A command leaves the mailbox when the journal has its receipt.
AcknowledgedInv ==
  \A n \in DOMAIN history : history[n] \notin pending => ResolvedIn(journal, history[n])

\* What the fold of a journal restores, by the entries it has.
Shut(j) ==
  \A a \in DOMAIN j : Opens(j[a]) => \E n \in DOMAIN j : n > a /\ j[n].kind = "settled"
OpenAt(j, of) ==
  \E a \in DOMAIN j : /\ Opens(j[a]) /\ j[a].command = of
                      /\ \A n \in DOMAIN j : n > a => ~Opens(j[n]) /\ j[n].kind # "settled"
ParkedIn(j) ==
  \E p \in DOMAIN j : /\ j[p].kind = "suspended"
                      /\ \A n \in DOMAIN j : n > p => ~Opens(j[n]) /\ j[n].kind # "resumed"
Unfinished(j) == ~Shut(j) /\ ~ParkedIn(j)

\* No run of the journal was resumed.
NoResolve(j) == \A m \in DOMAIN j : j[m].kind = "accepted" => Kind[j[m].command] # "resolve"

Fenced(j) == \A m, n \in DOMAIN j : m < n => j[m].fence <= j[n].fence
OncePerCommand(j) ==
  \A m, n \in DOMAIN j : Resolves(j[m]) /\ Resolves(j[n]) /\ j[m].command = j[n].command => m = n
FactsInv(j) ==
  \A n \in DOMAIN j :
    /\ Resolves(j[n]) => j[n].command \in Commands
    /\ Opens(j[n]) => j[n].run = j[n].command
    /\ j[n].kind = "resumed" => ~NoResolve(j)

\* An end is of the run that was opened last.
EndsFollow(j) ==
  \A n \in DOMAIN j : IsEnd(j[n]) =>
    \E m \in 1..(n - 1) : /\ Opens(j[m]) /\ j[m].command = j[n].run
                          /\ \A i \in (m + 1)..(n - 1) : ~Opens(j[i])
EndsOnce(j) ==
  NoResolve(j) => \A m, n \in DOMAIN j : IsEnd(j[m]) /\ IsEnd(j[n]) /\ j[m].run = j[n].run => m = n

JournalInv(j) == Fenced(j) /\ OncePerCommand(j) /\ FactsInv(j) /\ EndsFollow(j) /\ EndsOnce(j)

\* The handle of a worker that owns the session is what the journal says.
Matches(h, j) ==
  /\ h.state # "none"
  /\ h.state = "idle" => Shut(j) /\ h.run = Nobody /\ h.by = Nobody
  /\ h.state \in {"running", "faulted"} => OpenAt(j, h.run) /\ (h.by = Nobody <=> ~ParkedIn(j))
  /\ h.state = "suspended" => OpenAt(j, h.run) /\ ParkedIn(j) /\ h.by = Nobody
  /\ h.state = "closed" => ~Unfinished(j)

\* A worker does not retire from a run that goes on.
Retiring(self, h) ==
  /\ self.pc = "pending" /\ Quiescent(self.view) => h.state = self.view.state
  /\ self.pc = "close" => h.state \in {"idle", "suspended", "closed"} /\ self.wait = NoWait
  /\ h.state = "closed" => self.pc = "close"

Subscribing(self) ==
  self.pc = "open" \/ (self.pc \in {"load", "look"} /\ self.then = "subscribe")
EndsOf(j, of) == {e \in DOMAIN j : IsEnd(j[e]) /\ j[e].run = of}
LastOpened(j, of) ==
  \E a \in DOMAIN j : /\ Opens(j[a]) /\ j[a].command = of
                      /\ \A n \in DOMAIN j : n > a => ~Opens(j[n])

\* The run that an owner set going is waited for until its end was seen. What
\* the owner knows of the journal is not ahead of it.
ViewInv(self, j, item) ==
  /\ self.view.position <= Len(j) /\ self.wait.after <= Len(j)
  /\ self.pc \in {"pending", "deliver", "ack"} /\ ~Quiescent(self.view)
       /\ self.view.run # Nobody /\ NoResolve(j) =>
       /\ LastOpened(j, self.view.run)
       /\ \A e \in EndsOf(j, self.view.run) : self.view.position < e
  /\ self.pc = "ack" /\ ~self.found =>
       \A m \in DOMAIN j : Resolves(j[m]) /\ j[m].command = item =>
         /\ self.view.position < m
         /\ Opens(j[m]) => \A n \in DOMAIN j : n > m => ~Opens(j[n])
Waiting(self, j, of) == self.wait.run = of /\ \A e \in EndsOf(j, of) : self.wait.after < e
HasSeen(s, j, of) == \E e \in EndsOf(j, of) : e < s.next
WaitInv(self, s, j, item) ==
  /\ Subscribing(self) => \A m \in DOMAIN j : Opens(j[m]) => j[m].fence # self.fence
  /\ NoResolve(j) =>
       \A m \in DOMAIN j :
         /\ Opens(j[m]) /\ j[m].fence = self.fence
         /\ \A n \in DOMAIN j : n > m => ~Opens(j[n])
         => \/ Waiting(self, j, j[m].command)
            \/ self.pc = "ack" /\ ~self.found /\ item = j[m].command
            \/ HasSeen(s, j, j[m].command)

OwnerInv(self, h, s, j, item) ==
  /\ self.pc # "open" => Matches(h, j)
  /\ Retiring(self, h) /\ ViewInv(self, j, item) /\ WaitInv(self, s, j, item)

Working(w) == Owns(w) /\ worker[w].pc # "receive"

\* Nothing is open between a failure and the next lease, and a resumption that
\* did not take up its work yet was accepted.
HandlesInv ==
  \A w \in Workers :
    /\ worker[w].pc \in {"receive", "open"} => handle[w] = NoHandle
    /\ handle[w].by # Nobody \/ stream[w].bounced # Nobody => ~NoResolve(journal)

Inv ==
  /\ TypeInv /\ LeaseInv /\ PagesInv /\ HandlesInv
  /\ JournalInv(journal) /\ \A n \in DOMAIN journal : journal[n].fence <= generation
  /\ AcknowledgedInv
  /\ Unfinished(journal) => needs
  /\ \A w \in Workers : Working(w) => OwnerInv(worker[w], handle[w], stream[w], journal, Item(w))

-----------------------------------------------------------------------------
(***************************************************************************)
(* First and last positions, and what the fold of a journal restores.      *)
(***************************************************************************)
\* A nonempty set of numbers has a least one.
LEMMA FirstOf ==
  ASSUME NEW I \in SUBSET Nat, I # {}
  PROVE  Min(I) \in I /\ \A i \in I : Min(I) <= i
<1> DEFINE R == OpToRel(<, Nat)
<1>1. IsWellFoundedOn(R, Nat) BY NatLessThanWellFounded
<1>2. PICK m \in I : \A k \in I : ~(<<k, m>> \in R)
  <2> HIDE DEF R
  <2> QED BY <1>1, WFMin
<1>3. \A k \in I : m <= k
  <2> SUFFICES ASSUME NEW k \in I PROVE ~(k < m)
    OBVIOUS
  <2>1. m \in Nat /\ k \in Nat /\ ~(<<k, m>> \in R) BY <1>2
  <2> QED BY <2>1 DEF OpToRel
<1> QED
  BY <1>3 DEF Min

\* A nonempty set of positions has a last one.
LEMMA LastOf ==
  ASSUME NEW n \in Nat, NEW I \in SUBSET (1..n), I # {}
  PROVE  Max(I) \in I /\ \A i \in I : i <= Max(I)
<1> DEFINE J == {n - i : i \in I}
<1>1. J \in SUBSET Nat /\ J # {}
  <2>1. PICK i \in I : TRUE
    OBVIOUS
  <2>2. n - i \in J BY <2>1
  <2>3. \A k \in I : n - k \in Nat
    OBVIOUS
  <2> QED BY <2>2, <2>3
<1>2. Min(J) \in J /\ \A i \in J : Min(J) <= i
  <2> HIDE DEF J
  <2> QED BY <1>1, FirstOf
<1>3. PICK m \in I : Min(J) = n - m BY <1>2
<1>4. \A i \in I : m >= i
  <2> TAKE i \in I
  <2>1. n - i \in J
    OBVIOUS
  <2>2. n - m <= n - i BY <1>2, <1>3, <2>1
  <2> QED BY <2>2
<1> QED
  BY <1>4 DEF Max

\* A journal has an open run or none (the last entry that opens or settles one).
LEMMA OpenRunIs ==
  ASSUME journal \in Seq(FactType), FactsInv(journal)
  PROVE  \/ OpenRun = Nobody /\ Shut(journal)
         \/ OpenRun \in Commands /\ OpenAt(journal, OpenRun)
<1> DEFINE I == {i \in 1..Len(journal) : journal[i].kind = "settled" \/ (journal[i].kind = "accepted" /\ journal[i].command \in Runs)}
           at == IF I # {} THEN Max(I) ELSE 0
<1>1. OpenRun = IF at = 0 \/ journal[at].kind = "settled" THEN Nobody ELSE journal[at].run
  BY DEF OpenRun, SelectLastInSeq
<1>2. I \in SUBSET (1..Len(journal)) /\ Len(journal) \in Nat /\ DOMAIN journal = 1..Len(journal)
  OBVIOUS
<1>3. \A i \in DOMAIN journal : i \in I <=> (journal[i].kind = "settled" \/ Opens(journal[i]))
  BY <1>2 DEF Opens
<1> HIDE DEF I
<1>4. CASE I = {} BY <1>1, <1>2, <1>3, <1>4 DEF Shut
<1>5. CASE I # {}
  <2>1. Max(I) \in I /\ \A i \in I : i <= Max(I) BY <1>2, <1>5, LastOf
  <2>2. at = Max(I) /\ at \in DOMAIN journal /\ at # 0
    <3>1. at = Max(I) BY <1>5
    <3>2. Max(I) \in 1..Len(journal) BY <1>2, <2>1
    <3> HIDE DEF at
    <3> QED BY <1>2, <3>1, <3>2
  <2> HIDE DEF at
  <2>3. \A i \in DOMAIN journal : i > at => ~Opens(journal[i]) /\ journal[i].kind # "settled"
    BY <1>2, <1>3, <2>1, <2>2
  <2>4. CASE journal[at].kind = "settled"
    <3>1. \A i \in DOMAIN journal : Opens(journal[i]) => i < at
      BY <1>2, <1>3, <2>1, <2>2, <2>4 DEF Opens
    <3> QED BY <1>1, <1>2, <2>2, <2>4, <3>1 DEF Shut
  <2>5. CASE journal[at].kind # "settled"
    <3>1. Opens(journal[at]) BY <1>3, <2>1, <2>2, <2>5
    <3>2. OpenRun = journal[at].command /\ OpenRun \in Commands
      BY <1>1, <2>2, <2>5, <3>1 DEF FactsInv, Opens, Runs
    <3> QED BY <2>2, <2>3, <3>1, <3>2 DEF OpenAt
  <2> QED BY <2>4, <2>5
<1> QED
  BY <1>4, <1>5

\* The fold parks a run after its last suspension.
LEMMA ParkedIs ==
  ASSUME journal \in Seq(FactType)
  PROVE  Parked <=> ParkedIn(journal)
<1> DEFINE I == {i \in 1..Len(journal) : journal[i].kind \in {"suspended", "resumed"} \/ (journal[i].kind = "accepted" /\ journal[i].command \in Runs)}
           at == IF I # {} THEN Max(I) ELSE 0
<1>1. Parked <=> at # 0 /\ journal[at].kind = "suspended" BY DEF Parked, SelectLastInSeq
<1>2. I \in SUBSET (1..Len(journal)) /\ Len(journal) \in Nat /\ DOMAIN journal = 1..Len(journal)
  OBVIOUS
<1>3. \A i \in DOMAIN journal :
        i \in I <=> (journal[i].kind \in {"suspended", "resumed"} \/ Opens(journal[i]))
  BY <1>2 DEF Opens
<1> HIDE DEF I
<1>4. CASE I = {} BY <1>1, <1>2, <1>3, <1>4 DEF ParkedIn
<1>5. CASE I # {}
  <2>1. Max(I) \in I /\ \A i \in I : i <= Max(I) BY <1>2, <1>5, LastOf
  <2>2. at = Max(I) /\ at \in DOMAIN journal /\ at # 0
    <3>1. at = Max(I) BY <1>5
    <3>2. Max(I) \in 1..Len(journal) BY <1>2, <2>1
    <3> HIDE DEF at
    <3> QED BY <1>2, <3>1, <3>2
  <2> HIDE DEF at
  <2>3. \A i \in DOMAIN journal : i > at => i \notin I BY <1>2, <2>1, <2>2
  <2>4. CASE journal[at].kind = "suspended" BY <1>1, <1>3, <2>2, <2>3, <2>4 DEF ParkedIn
  <2>5. CASE journal[at].kind # "suspended"
    <3>1. journal[at].kind = "resumed" \/ Opens(journal[at]) BY <1>3, <2>1, <2>2, <2>5
    <3>2. ASSUME NEW p \in DOMAIN journal, journal[p].kind = "suspended"
          PROVE  p < at
      BY <1>2, <1>3, <2>1, <2>2, <2>5, <3>2
    <3> QED BY <1>1, <2>2, <2>5, <3>1, <3>2 DEF ParkedIn
  <2> QED BY <2>4, <2>5
<1> QED
  BY <1>4, <1>5

\* One run is open at a time, and none in a journal that is shut.
LEMMA OpenIsUnique ==
  ASSUME NEW j \in Seq(FactType)
  PROVE  /\ \A r, q : OpenAt(j, r) /\ OpenAt(j, q) => r = q
         /\ Shut(j) => \A r : ~OpenAt(j, r)
<1>1. DOMAIN j = 1..Len(j) /\ Len(j) \in Nat
  OBVIOUS
<1>2. ASSUME NEW r, NEW q, OpenAt(j, r), OpenAt(j, q) PROVE r = q
  <2>1. PICK a \in DOMAIN j : /\ Opens(j[a]) /\ j[a].command = r
                              /\ \A n \in DOMAIN j : n > a => ~Opens(j[n])
    BY <1>2 DEF OpenAt
  <2>2. PICK b \in DOMAIN j : /\ Opens(j[b]) /\ j[b].command = q
                              /\ \A n \in DOMAIN j : n > b => ~Opens(j[n])
    BY <1>2 DEF OpenAt
  <2>3. a = b BY <1>1, <2>1, <2>2
  <2> QED BY <2>1, <2>2, <2>3
<1>3. Shut(j) => \A r : ~OpenAt(j, r) BY DEF Shut, OpenAt
<1> QED
  BY <1>2, <1>3

\* The state that a worker finds when it opens the session, and the marker's.
LEMMA DurableStateIs ==
  ASSUME journal \in Seq(FactType), FactsInv(journal), Nobody \notin Commands
  PROVE  /\ DurableState \in {"idle", "suspended", "running"}
         /\ DurableState = "idle" => Shut(journal) /\ OpenRun = Nobody
         /\ DurableState # "idle" => OpenAt(journal, OpenRun) /\ OpenRun \in Commands
         /\ DurableState = "suspended" => ParkedIn(journal)
         /\ DurableState = "running" <=> Unfinished(journal)
         /\ DurableState = "running" => ~ParkedIn(journal)
<1>1. OpenRun = Nobody => Shut(journal) BY OpenRunIs
<1>2. OpenRun # Nobody => OpenAt(journal, OpenRun) /\ OpenRun \in Commands BY OpenRunIs
<1>3. Shut(journal) => OpenRun = Nobody BY OpenRunIs, OpenIsUnique
<1>4. Parked <=> ParkedIn(journal) BY ParkedIs
<1>5. CASE OpenRun = Nobody BY <1>1, <1>5 DEF DurableState, Unfinished
<1>6. CASE OpenRun # Nobody BY <1>2, <1>3, <1>4, <1>6 DEF DurableState, Unfinished
<1> QED
  BY <1>5, <1>6

-----------------------------------------------------------------------------
(***************************************************************************)
(* An entry more in the journal.                                           *)
(***************************************************************************)
\* What an append leaves and where the new entry is.
LEMMA Appended ==
  ASSUME NEW j \in Seq(FactType), NEW f \in FactType
  PROVE  /\ Append(j, f) \in Seq(FactType) /\ Len(Append(j, f)) = Len(j) + 1
         /\ DOMAIN Append(j, f) = 1..(Len(j) + 1) /\ DOMAIN j = 1..Len(j) /\ Len(j) \in Nat
         /\ \A n \in DOMAIN j : Append(j, f)[n] = j[n]
         /\ Append(j, f)[Len(j) + 1] = f
         /\ \A n \in DOMAIN j : n \in DOMAIN Append(j, f) /\ n < Len(j) + 1
         /\ \A n \in DOMAIN Append(j, f) : n \in DOMAIN j \/ n = Len(j) + 1
OBVIOUS

\* A resumption stays in the journal.
LEMMA AppendedResolve ==
  ASSUME NEW j \in Seq(FactType), NEW f \in FactType, NoResolve(Append(j, f))
  PROVE  NoResolve(j)
BY Appended DEF NoResolve

\* A run that is open and goes on has no end, unless a run was resumed.
LEMMA NoEndYet ==
  ASSUME NEW j \in Seq(FactType), JournalInv(j), NoResolve(j),
         NEW of, OpenAt(j, of), ~ParkedIn(j)
  PROVE  EndsOf(j, of) = {}
<1>1. DOMAIN j = 1..Len(j) /\ Len(j) \in Nat
  OBVIOUS
<1>2. PICK a \in DOMAIN j : /\ Opens(j[a]) /\ j[a].command = of
                            /\ \A n \in DOMAIN j : n > a => ~Opens(j[n]) /\ j[n].kind # "settled"
  BY DEF OpenAt
<1>3. SUFFICES ASSUME NEW e \in DOMAIN j, IsEnd(j[e]), j[e].run = of PROVE FALSE
  BY DEF EndsOf
<1>4. PICK m \in 1..(e - 1) : Opens(j[m]) /\ j[m].command = of
  BY <1>3 DEF JournalInv, EndsFollow
<1>5. m \in DOMAIN j /\ m < e BY <1>1, <1>4
<1>6. m = a BY <1>2, <1>4, <1>5 DEF JournalInv, OncePerCommand, Opens, Resolves
<1>7. j[e].kind = "suspended" BY <1>2, <1>3, <1>5, <1>6 DEF IsEnd
<1>8. \A n \in DOMAIN j : n > e => ~Opens(j[n]) /\ j[n].kind # "resumed"
  <2>1. \A n \in DOMAIN j : n > e => n > a BY <1>1, <1>5, <1>6
  <2> QED BY <1>2, <2>1 DEF JournalInv, FactsInv
<1> QED
  BY <1>7, <1>8 DEF ParkedIn

\* What may be written: a resolution of a command that has none, or an end of
\* the run that goes on.
Writable(j, f) ==
  /\ \A n \in DOMAIN j : j[n].fence <= f.fence
  /\ Resolves(f) => /\ f.command \in Commands
                    /\ \A n \in DOMAIN j : ~(Resolves(j[n]) /\ j[n].command = f.command)
  /\ Opens(f) => f.run = f.command
  /\ f.kind = "resumed" => ~NoResolve(j)
  /\ IsEnd(f) => OpenAt(j, f.run) /\ ~ParkedIn(j)

LEMMA AppendedJournal ==
  ASSUME NEW j \in Seq(FactType), NEW f \in FactType, JournalInv(j), Writable(j, f)
  PROVE  JournalInv(Append(j, f))
<1> DEFINE k == Append(j, f)
<1>0. /\ k \in Seq(FactType) /\ Len(k) = Len(j) + 1 /\ Len(j) \in Nat
      /\ DOMAIN k = 1..(Len(j) + 1) /\ DOMAIN j = 1..Len(j)
      /\ \A n \in DOMAIN j : k[n] = j[n]
      /\ k[Len(j) + 1] = f
      /\ \A n \in DOMAIN j : n \in DOMAIN k /\ n < Len(j) + 1
      /\ \A n \in DOMAIN k : n \in DOMAIN j \/ n = Len(j) + 1
  BY Appended
<1>1. NoResolve(k) => NoResolve(j) BY AppendedResolve
<1> HIDE DEF k
<1>2. Fenced(k) BY <1>0 DEF JournalInv, Writable, Fenced
<1>3. OncePerCommand(k) BY <1>0 DEF JournalInv, Writable, OncePerCommand
<1>4. FactsInv(k) BY <1>0, <1>1 DEF JournalInv, Writable, FactsInv
<1>5. EndsFollow(k)
  <2> SUFFICES ASSUME NEW n \in DOMAIN k, IsEnd(k[n])
               PROVE  \E m \in 1..(n - 1) : /\ Opens(k[m]) /\ k[m].command = k[n].run
                                            /\ \A i \in (m + 1)..(n - 1) : ~Opens(k[i])
    BY DEF EndsFollow
  <2>1. CASE n \in DOMAIN j
    <3>1. PICK m \in 1..(n - 1) : /\ Opens(j[m]) /\ j[m].command = j[n].run
                                  /\ \A i \in (m + 1)..(n - 1) : ~Opens(j[i])
      BY <1>0, <2>1 DEF JournalInv, EndsFollow
    <3>2. m \in DOMAIN j /\ \A i \in (m + 1)..(n - 1) : i \in DOMAIN j BY <1>0, <2>1
    <3> QED BY <1>0, <2>1, <3>1, <3>2
  <2>2. CASE n = Len(j) + 1
    <3>1. PICK a \in DOMAIN j : /\ Opens(j[a]) /\ j[a].command = f.run
                                /\ \A i \in DOMAIN j : i > a => ~Opens(j[i])
      BY <1>0, <2>2 DEF Writable, OpenAt
    <3>2. a \in 1..(n - 1) /\ \A i \in (a + 1)..(n - 1) : i \in DOMAIN j /\ i > a
      BY <1>0, <2>2
    <3> QED BY <1>0, <2>2, <3>1, <3>2
  <2> QED BY <1>0, <2>1, <2>2
<1>6. EndsOnce(k)
  <2> SUFFICES ASSUME NoResolve(k), NEW m \in DOMAIN k, NEW n \in DOMAIN k,
                      IsEnd(k[m]), IsEnd(k[n]), k[m].run = k[n].run
               PROVE  m = n
    BY DEF EndsOnce
  <2>1. NoResolve(j) BY <1>1
  <2>2. CASE m \in DOMAIN j /\ n \in DOMAIN j BY <1>0, <2>1, <2>2 DEF JournalInv, EndsOnce
  <2>3. ASSUME IsEnd(f) PROVE EndsOf(j, f.run) = {} BY <2>1, <2>3, NoEndYet DEF Writable
  <2>4. CASE m \in DOMAIN j /\ n = Len(j) + 1 BY <1>0, <2>3, <2>4 DEF EndsOf
  <2>5. CASE n \in DOMAIN j /\ m = Len(j) + 1 BY <1>0, <2>3, <2>5 DEF EndsOf
  <2> QED BY <1>0, <2>2, <2>4, <2>5
<1> QED
  BY <1>2, <1>3, <1>4, <1>5, <1>6 DEF JournalInv, k

\* What the fold restores of a journal with an entry more.
LEMMA AppendedFold ==
  ASSUME NEW j \in Seq(FactType), NEW f \in FactType
  PROVE  /\ Opens(f) => OpenAt(Append(j, f), f.command) /\ ~ParkedIn(Append(j, f))
         /\ f.kind = "settled" => Shut(Append(j, f))
         /\ ~Opens(f) /\ f.kind # "settled" =>
              /\ Shut(j) => Shut(Append(j, f))
              /\ \A r : OpenAt(j, r) => OpenAt(Append(j, f), r)
         /\ f.kind = "suspended" => ParkedIn(Append(j, f))
         /\ f.kind = "resumed" => ~ParkedIn(Append(j, f))
         /\ ~Opens(f) /\ f.kind \notin {"suspended", "resumed"} => (ParkedIn(Append(j, f)) <=> ParkedIn(j))
         /\ ~Opens(f) => \A r : LastOpened(j, r) => LastOpened(Append(j, f), r)
         /\ Opens(f) => LastOpened(Append(j, f), f.command)
<1> DEFINE k == Append(j, f)
<1>0. /\ k \in Seq(FactType) /\ Len(k) = Len(j) + 1 /\ Len(j) \in Nat
      /\ DOMAIN k = 1..(Len(j) + 1) /\ DOMAIN j = 1..Len(j)
      /\ \A n \in DOMAIN j : k[n] = j[n]
      /\ k[Len(j) + 1] = f /\ Len(j) + 1 \in DOMAIN k
      /\ \A n \in DOMAIN j : n \in DOMAIN k /\ n < Len(j) + 1
      /\ \A n \in DOMAIN k : n \in DOMAIN j \/ n = Len(j) + 1
  BY Appended
<1> HIDE DEF k
<1>1. \A n \in DOMAIN k : ~(n > Len(j) + 1) BY <1>0
<1>2. Opens(f) => OpenAt(k, f.command) /\ LastOpened(k, f.command)
  BY <1>0, <1>1 DEF OpenAt, LastOpened
<1>3. Opens(f) \/ f.kind = "resumed" => ~ParkedIn(k) BY <1>0 DEF ParkedIn, Opens
<1>4. f.kind = "settled" => Shut(k) BY <1>0 DEF Shut, Opens
<1>5. ~Opens(f) /\ f.kind # "settled" /\ Shut(j) => Shut(k) BY <1>0 DEF Shut
<1>6. ASSUME ~Opens(f), f.kind # "settled", NEW r, OpenAt(j, r) PROVE OpenAt(k, r)
  <2>1. PICK a \in DOMAIN j : /\ Opens(j[a]) /\ j[a].command = r
                              /\ \A n \in DOMAIN j : n > a => ~Opens(j[n]) /\ j[n].kind # "settled"
    BY <1>6 DEF OpenAt
  <2> QED BY <1>0, <1>6, <2>1 DEF OpenAt
<1>7. ASSUME ~Opens(f), NEW r, LastOpened(j, r) PROVE LastOpened(k, r)
  <2>1. PICK a \in DOMAIN j : /\ Opens(j[a]) /\ j[a].command = r
                              /\ \A n \in DOMAIN j : n > a => ~Opens(j[n])
    BY <1>7 DEF LastOpened
  <2> QED BY <1>0, <1>7, <2>1 DEF LastOpened
<1>8. f.kind = "suspended" => ParkedIn(k) BY <1>0, <1>1 DEF ParkedIn
<1>9. ASSUME ~Opens(f), f.kind \notin {"suspended", "resumed"} PROVE ParkedIn(k) <=> ParkedIn(j)
  <2>1. ASSUME NEW p \in DOMAIN j, j[p].kind = "suspended",
               \A n \in DOMAIN j : n > p => ~Opens(j[n]) /\ j[n].kind # "resumed"
        PROVE  ParkedIn(k)
    BY <1>0, <1>9, <2>1 DEF ParkedIn
  <2>2. ASSUME NEW p \in DOMAIN k, k[p].kind = "suspended",
               \A n \in DOMAIN k : n > p => ~Opens(k[n]) /\ k[n].kind # "resumed"
        PROVE  ParkedIn(j)
    <3>1. p \in DOMAIN j BY <1>0, <1>9, <2>2
    <3> QED BY <1>0, <2>2, <3>1 DEF ParkedIn
  <2> QED BY <2>1, <2>2 DEF ParkedIn
<1> QED
  BY <1>2, <1>3, <1>4, <1>5, <1>6, <1>7, <1>8, <1>9 DEF k

\* An entry that opens nothing leaves what its owner waits for and knows.
LEMMA AppendedWaits ==
  ASSUME NEW j \in Seq(FactType), NEW f \in FactType, ~Opens(f),
         NEW self \in WorkerType, NEW s \in StreamType, NEW item,
         ViewInv(self, j, item), WaitInv(self, s, j, item)
  PROVE  ViewInv(self, Append(j, f), item) /\ WaitInv(self, s, Append(j, f), item)
<1> DEFINE k == Append(j, f)
<1>0. /\ k \in Seq(FactType) /\ Len(k) = Len(j) + 1 /\ Len(j) \in Nat
      /\ DOMAIN k = 1..(Len(j) + 1) /\ DOMAIN j = 1..Len(j)
      /\ \A n \in DOMAIN j : k[n] = j[n]
      /\ k[Len(j) + 1] = f /\ Len(j) + 1 \in DOMAIN k
      /\ \A n \in DOMAIN j : n \in DOMAIN k /\ n < Len(j) + 1
      /\ \A n \in DOMAIN k : n \in DOMAIN j \/ n = Len(j) + 1
  BY Appended
<1>1. NoResolve(k) => NoResolve(j) BY AppendedResolve
<1>2. \A r : LastOpened(j, r) => LastOpened(k, r) BY AppendedFold
<1>3. self.view.position \in Nat /\ self.wait.after \in Nat /\ s.next \in Nat
  BY DEF WorkerType, ViewType, WaitType, StreamType
<1> HIDE DEF k
<1>4. \A r : \A e \in EndsOf(k, r) : e \in EndsOf(j, r) \/ e = Len(j) + 1 BY <1>0 DEF EndsOf
<1>5. \A r : EndsOf(j, r) \subseteq EndsOf(k, r) BY <1>0 DEF EndsOf
<1>6. ViewInv(self, k, item)
  <2>1. self.view.position <= Len(k) /\ self.wait.after <= Len(k) BY <1>0, <1>3 DEF ViewInv
  <2>2. self.view.position < Len(j) + 1 BY <1>0, <1>3 DEF ViewInv
  <2>3. ASSUME self.pc \in {"pending", "deliver", "ack"}, ~Quiescent(self.view),
               self.view.run # Nobody, NoResolve(k)
        PROVE  /\ LastOpened(k, self.view.run)
               /\ \A e \in EndsOf(k, self.view.run) : self.view.position < e
    BY <1>1, <1>2, <1>4, <2>2, <2>3 DEF ViewInv
  <2>4. ASSUME self.pc = "ack", ~self.found, NEW m \in DOMAIN k, Resolves(k[m]), k[m].command = item
        PROVE  /\ self.view.position < m
               /\ Opens(k[m]) => \A n \in DOMAIN k : n > m => ~Opens(k[n])
    BY <1>0, <2>2, <2>4 DEF ViewInv
  <2> QED BY <2>1, <2>3, <2>4 DEF ViewInv
<1>7. WaitInv(self, s, k, item)
  <2>1. Subscribing(self) => \A m \in DOMAIN k : Opens(k[m]) => k[m].fence # self.fence
    BY <1>0 DEF WaitInv
  <2>2. ASSUME NoResolve(k), NEW m \in DOMAIN k, Opens(k[m]), k[m].fence = self.fence,
               \A n \in DOMAIN k : n > m => ~Opens(k[n])
        PROVE  \/ Waiting(self, k, k[m].command)
               \/ self.pc = "ack" /\ ~self.found /\ item = k[m].command
               \/ HasSeen(s, k, k[m].command)
    <3>1. m \in DOMAIN j /\ k[m] = j[m] BY <1>0, <2>2
    <3>2. \A n \in DOMAIN j : n > m => ~Opens(j[n]) BY <1>0, <2>2
    <3>3. CASE Waiting(self, j, j[m].command)
      <4>1. self.wait.after < Len(j) + 1 BY <1>0, <1>3 DEF ViewInv
      <4> QED BY <1>4, <3>1, <3>3, <4>1 DEF Waiting
    <3>4. CASE HasSeen(s, j, j[m].command) BY <1>5, <3>1, <3>4 DEF HasSeen
    <3> QED BY <1>1, <2>2, <3>1, <3>2, <3>3, <3>4 DEF WaitInv
  <2> QED BY <2>1, <2>2 DEF WaitInv
<1> QED
  BY <1>6, <1>7 DEF k

-----------------------------------------------------------------------------
(***************************************************************************)
(* The steps of one worker leave what the others own.                      *)
(***************************************************************************)
\* The last grant is one worker's, and it is marked.
LEMMA OwnerIsOne ==
  ASSUME TypeInv, LeaseInv, NEW w \in Workers, Owns(w)
  PROVE  /\ Leased /\ needs /\ worker[w].fence = generation
         /\ \A v \in Workers : Owns(v) => v = w
<1>1. lease = [owner |-> w, fence |-> worker[w].fence] /\ live BY DEF Owns, Owned
<1>2. lease.owner = w /\ lease.fence = worker[w].fence BY <1>1
<1>3. w # Nobody BY MailboxAssumption
<1>4. lease # NoLease BY <1>2, <1>3 DEF NoLease
<1>5. \A v \in Workers : Owns(v) => v = w BY <1>2 DEF Owns, Owned
<1> QED
  BY <1>1, <1>2, <1>4, <1>5 DEF Leased, LeaseInv

\* The journal keeps what it has.
Grows == /\ Len(journal) <= Len(journal') /\ journal' \in Seq(FactType)
         /\ \A n \in DOMAIN journal : n \in DOMAIN journal' /\ journal'[n] = journal[n]

LEMMA ResolvedStays ==
  ASSUME Grows
  PROVE  /\ \A c : ResolvedIn(journal, c) => ResolvedIn(journal', c)
         /\ ~NoResolve(journal) => ~NoResolve(journal')
<1>1. ASSUME NEW c, ResolvedIn(journal, c) PROVE ResolvedIn(journal', c)
  BY <1>1 DEF Grows, ResolvedIn
<1>2. ~NoResolve(journal) => ~NoResolve(journal') BY DEF Grows, NoResolve
<1> QED
  BY <1>1, <1>2

\* The receipts of the journal.
LEMMA ResolvedIs ==
  /\ \A c : Resolved(c) <=> ResolvedIn(journal, c)
  /\ \A c : Resolutions(c) # {} <=> ResolvedIn(journal, c)
  /\ AcknowledgedIsResolved <=> AcknowledgedInv
<1>1. \A c : Resolved(c) <=> ResolvedIn(journal, c) BY DEF Resolved, ResolvedIn, Resolves
<1>2. \A c : Resolutions(c) # {} <=> ResolvedIn(journal, c)
  BY DEF Resolutions, ResolvedIn, Resolves
<1> QED
  BY <1>1, <1>2 DEF AcknowledgedIsResolved, AcknowledgedInv, Submitted

\* What a worker writes: nothing, or an entry under its grant.
WritesEntry(v) ==
  \E f \in FactType : /\ Owns(v) /\ f.fence = worker[v].fence /\ Writable(journal, f)
                      /\ journal' = Append(journal, f)

LEMMA WrittenGrows ==
  ASSUME TypeInv, JournalInv(journal), NEW v \in Workers, journal' = journal \/ WritesEntry(v)
  PROVE  Grows /\ JournalInv(journal')
<1>1. CASE journal' = journal BY <1>1 DEF Grows, TypeInv
<1>2. CASE WritesEntry(v)
  <2>1. PICK f \in FactType : Writable(journal, f) /\ journal' = Append(journal, f)
    BY <1>2 DEF WritesEntry
  <2>2. journal \in Seq(FactType) BY DEF TypeInv
  <2>3. JournalInv(journal') BY <2>1, <2>2, AppendedJournal
  <2> QED BY <2>1, <2>2, <2>3, Appended DEF Grows
<1> QED
  BY <1>1, <1>2

\* A step of worker v that leaves the lease alone. What is asked of its new
\* records is asked only of a worker that still owns the session.
StepOf(v, self, h, s) ==
  /\ self \in WorkerType /\ h \in HandleType /\ s \in StreamType /\ faults' \in Nat
  /\ worker' = [worker EXCEPT ![v] = self]
  /\ handle' = [handle EXCEPT ![v] = h] /\ stream' = [stream EXCEPT ![v] = s]
  /\ UNCHANGED <<history, generation, lease, live, needs>>
  /\ pending' \in SUBSET pending
  /\ \A c \in pending \ pending' : ResolvedIn(journal, c)
  /\ journal' = journal \/ WritesEntry(v)

ItemOf(self) == history[Min(self.page)]
PageInv(self) ==
  /\ self.page \in SUBSET DOMAIN history
  /\ self.pc \in {"deliver", "ack"} => self.page # {}
  /\ self.pc \in {"load", "look"} => self.then # "none"
  /\ self.pc = "ack" => ResolvedIn(journal', ItemOf(self))
HandleInv(self, h, s) ==
  /\ self.pc \in {"receive", "open"} => h = NoHandle
  /\ h.by # Nobody \/ s.bounced # Nobody => ~NoResolve(journal')
Continues(v, self) ==
  self.pc # "receive" => worker[v].pc # "receive" /\ self.fence = worker[v].fence

LEMMA WorkerStep ==
  ASSUME Inv, NEW v \in Workers, NEW self, NEW h, NEW s,
         StepOf(v, self, h, s), PageInv(self), HandleInv(self, h, s), Continues(v, self),
         Working(v) /\ self.pc # "receive" => OwnerInv(self, h, s, journal', ItemOf(self))
  PROVE  Inv'
<1>1. TypeInv /\ LeaseInv /\ PagesInv /\ HandlesInv /\ JournalInv(journal) BY DEF Inv
<1>2. Grows /\ JournalInv(journal') BY <1>1, WrittenGrows DEF StepOf
<1>3. /\ \A c : ResolvedIn(journal, c) => ResolvedIn(journal', c)
      /\ ~NoResolve(journal) => ~NoResolve(journal')
  BY <1>2, ResolvedStays
<1>4. /\ worker'[v] = self /\ handle'[v] = h /\ stream'[v] = s
      /\ \A w \in Workers : w # v => worker'[w] = worker[w] /\ handle'[w] = handle[w] /\ stream'[w] = stream[w]
  BY <1>1 DEF TypeInv, StepOf
<1>5. TypeInv' BY <1>1, <1>2 DEF TypeInv, StepOf, Grows
<1>6. LeaseInv' BY <1>1 DEF LeaseInv, Leased, NoLease, StepOf
<1>7. PagesInv'
  <2> SUFFICES ASSUME NEW w \in Workers
               PROVE  /\ worker'[w].page \in SUBSET DOMAIN history'
                      /\ worker'[w].pc \in {"deliver", "ack"} => worker'[w].page # {}
                      /\ worker'[w].pc \in {"load", "look"} => worker'[w].then # "none"
                      /\ worker'[w].pc = "ack" => ResolvedIn(journal', history[Min(worker'[w].page)])
    BY DEF PagesInv, At, Item, First, StepOf
  <2>1. history' = history BY DEF StepOf
  <2>2. CASE w = v BY <1>4, <2>1, <2>2 DEF PageInv, ItemOf
  <2>3. CASE w # v BY <1>1, <1>3, <1>4, <2>1, <2>3 DEF PagesInv, At, Item, First
  <2> QED BY <2>2, <2>3
<1>8. HandlesInv' BY <1>1, <1>3, <1>4 DEF HandlesInv, HandleInv
<1>9. \A n \in DOMAIN journal' : journal'[n].fence <= generation'
  <2>0. \A n \in DOMAIN journal : journal[n].fence <= generation BY DEF Inv
  <2>1. CASE journal' = journal BY <2>0, <2>1 DEF StepOf
  <2>2. CASE WritesEntry(v)
    <3>1. PICK f \in FactType : Owns(v) /\ f.fence = worker[v].fence /\ journal' = Append(journal, f)
      BY <2>2 DEF WritesEntry
    <3>2. f.fence = generation /\ generation \in Nat BY <1>1, <3>1, OwnerIsOne DEF TypeInv
    <3> QED BY <1>1, <2>0, <3>1, <3>2, Appended DEF TypeInv, StepOf
  <2> QED BY <2>1, <2>2 DEF StepOf
<1>10. AcknowledgedInv' BY <1>3 DEF Inv, AcknowledgedInv, StepOf
<1>11. Unfinished(journal') => needs'
  <2>1. CASE journal' = journal BY <2>1 DEF Inv, StepOf
  <2>2. CASE WritesEntry(v) BY <1>1, <2>2, OwnerIsOne DEF WritesEntry, StepOf
  <2> QED BY <2>1, <2>2 DEF StepOf
<1>12. ASSUME NEW w \in Workers, Working(w)'
       PROVE  OwnerInv(worker'[w], handle'[w], stream'[w], journal', history'[Min(worker'[w].page)])
  <2>1. history' = history /\ lease' = lease /\ live' = live BY DEF StepOf
  <2>2. CASE w = v
    <3>1. self.pc # "receive" BY <1>4, <1>12, <2>2 DEF Working
    <3>2. worker[v].pc # "receive" /\ self.fence = worker[v].fence BY <3>1 DEF Continues
    <3>3. Working(v) BY <1>4, <1>12, <2>1, <2>2, <3>2 DEF Working, Owns, Owned
    <3> QED BY <1>4, <2>1, <2>2, <3>1, <3>3 DEF ItemOf
  <2>3. CASE w # v
    <3>1. Working(w) BY <1>4, <1>12, <2>1, <2>3 DEF Working, Owns, Owned
    <3>2. journal' = journal
      <4>1. ~Owns(v) BY <1>1, <2>3, <3>1, OwnerIsOne DEF Working
      <4> QED BY <4>1 DEF StepOf, WritesEntry
    <3> QED BY <1>4, <2>1, <2>3, <3>1, <3>2 DEF Inv, Item, First
  <2> QED BY <2>2, <2>3
<1> QED
  BY <1>2, <1>5, <1>6, <1>7, <1>8, <1>9, <1>10, <1>11, <1>12 DEF Inv, Item, First

-----------------------------------------------------------------------------
(***************************************************************************)
(* The records of one worker.                                              *)
(***************************************************************************)
\* What Inv says of one worker.
LEMMA OfWorker ==
  ASSUME Inv, NEW v \in Workers
  PROVE  /\ worker[v] \in WorkerType /\ handle[v] \in HandleType /\ stream[v] \in StreamType
         /\ [worker EXCEPT ![v] = worker[v]] = worker
         /\ [handle EXCEPT ![v] = handle[v]] = handle
         /\ [stream EXCEPT ![v] = stream[v]] = stream
         /\ journal \in Seq(FactType) /\ JournalInv(journal) /\ faults \in Nat
         /\ history \in Seq(Commands)
         /\ worker[v].page \in SUBSET DOMAIN history
         /\ worker[v].pc \in {"load", "look"} => worker[v].then # "none"
         /\ worker[v].pc \in {"receive", "open"} => handle[v] = NoHandle
         /\ handle[v].by # Nobody \/ stream[v].bounced # Nobody => ~NoResolve(journal)
         /\ Working(v) => OwnerInv(worker[v], handle[v], stream[v], journal, Item(v))
         /\ ItemOf(worker[v]) = Item(v)
BY DEF Inv, TypeInv, PagesInv, HandlesInv, ItemOf, Item, First

\* What a worker's record has.
LEMMA WorkerParts ==
  ASSUME NEW self \in WorkerType
  PROVE  /\ self.view \in ViewType /\ self.view.position \in Nat /\ self.view.run \in Named
         /\ self.wait \in WaitType /\ self.wait.after \in Nat /\ self.page \in SUBSET Nat
         /\ self.full \in BOOLEAN /\ self.sweep \in BOOLEAN /\ self.found \in BOOLEAN
BY DEF WorkerType, ViewType, WaitType

\* A command that is being delivered is one of the page.
LEMMA ItemIs ==
  ASSUME Inv, NEW v \in Workers, worker[v].pc \in {"deliver", "ack"}
  PROVE  /\ First(v) \in worker[v].page /\ First(v) \in DOMAIN history /\ First(v) \in Nat
         /\ Item(v) \in Commands
         /\ worker[v].pc = "ack" => ResolvedIn(journal, Item(v))
<1>1. worker[v].page \in SUBSET DOMAIN history /\ worker[v].page # {} /\ worker[v].page \in SUBSET Nat
  BY OfWorker DEF Inv, PagesInv, WorkerType
<1>2. First(v) \in worker[v].page BY <1>1, FirstOf DEF First
<1> QED
  BY <1>1, <1>2 DEF Inv, TypeInv, PagesInv, At, Item

\* A page matters to its owner only while a command is being acknowledged.
LEMMA ItemMatters ==
  ASSUME NEW self, NEW h, NEW s, NEW j, NEW i, NEW k, self.pc # "ack",
         OwnerInv(self, h, s, j, i)
  PROVE  OwnerInv(self, h, s, j, k)
BY DEF OwnerInv, ViewInv, WaitInv

\* A worker that goes on waiting for the same run, further in its stream.
LEMMA KeepsWaiting ==
  ASSUME NEW old \in WorkerType, NEW self \in WorkerType, NEW s \in StreamType, NEW t \in StreamType,
         NEW j \in Seq(FactType), NEW i, NEW k, old.pc # "ack",
         self.wait = old.wait, self.fence = old.fence, Subscribing(self) => Subscribing(old),
         s.next <= t.next, WaitInv(old, s, j, i)
  PROVE  WaitInv(self, t, j, k)
<1>1. s.next \in Nat /\ t.next \in Nat BY DEF StreamType
<1>2. \A r : HasSeen(s, j, r) => HasSeen(t, j, r)
  <2> SUFFICES ASSUME NEW r, HasSeen(s, j, r) PROVE HasSeen(t, j, r)
    OBVIOUS
  <2>1. PICK e \in EndsOf(j, r) : e < s.next BY DEF HasSeen
  <2>2. e \in Nat BY DEF EndsOf
  <2>3. e < t.next BY <1>1, <2>1, <2>2
  <2> QED BY <2>1, <2>3 DEF HasSeen
<1>3. \A r : Waiting(old, j, r) => Waiting(self, j, r) BY DEF Waiting
<1> QED
  BY <1>2, <1>3 DEF WaitInv

\* A worker that fails forgets everything and leaves the lease to expire.
LEMMA FailsStep ==
  ASSUME Inv, NEW v \in Workers, Fails(v), faults' \in Nat, journal' = journal \/ WritesEntry(v)
  PROVE  Inv'
<1> DEFINE self == Idle
<1>1. Idle \in WorkerType /\ NoHandle \in HandleType /\ NoStream \in StreamType
  BY DEF Idle, WorkerType, ViewType, WaitType, NoView, NoWait, States, Named,
         NoHandle, HandleType, NoStream, StreamType
<1>2. Idle.page = {} /\ Idle.pc = "receive" /\ NoHandle.by = Nobody /\ NoStream.bounced = Nobody
  BY DEF Idle, NoHandle, NoStream
<1>3. StepOf(v, Idle, NoHandle, NoStream) BY <1>1 DEF Fails, StepOf, mailbox, Inv, TypeInv
<1>4. PageInv(Idle) /\ HandleInv(Idle, NoHandle, NoStream) /\ Continues(v, Idle)
  BY <1>2 DEF PageInv, HandleInv, Continues
<1> QED
  BY <1>2, <1>3, <1>4, WorkerStep

\* A worker that goes to another place, with its records else as they are.
LEMMA BreaksStep ==
  ASSUME Inv, NEW v \in Workers, Breaks(v) \/ Cancelled(v)
  PROVE  Inv'
<1>1. faults' \in Nat BY DEF Inv, TypeInv, Breaks, Cancelled
<1> QED
  BY <1>1, FailsStep DEF Breaks, Cancelled
-----------------------------------------------------------------------------
(***************************************************************************)
(* The run of a session that a worker has open.                            *)
(***************************************************************************)
\* A session with a run is open, and one that writes is its owner's.
LEMMA RunningOwner ==
  ASSUME Inv, NEW v \in Workers, handle[v].state # "none"
  PROVE  /\ worker[v].pc \notin {"receive", "open"}
         /\ Owns(v) => /\ Working(v) /\ Matches(handle[v], journal)
                       /\ \A n \in DOMAIN journal : journal[n].fence <= worker[v].fence
<1>1. worker[v].pc \notin {"receive", "open"} BY OfWorker DEF NoHandle
<1>2. ASSUME Owns(v) PROVE Working(v) /\ Matches(handle[v], journal)
  BY <1>1, <1>2, OfWorker DEF Working, OwnerInv
<1>3. ASSUME Owns(v) PROVE worker[v].fence = generation BY <1>3, OwnerIsOne DEF Inv
<1> QED
  BY <1>1, <1>2, <1>3 DEF Inv

\* The session of a worker goes on without the worker.
LEMMA SessionStep ==
  ASSUME Inv, NEW v \in Workers, handle[v].state = "running", NEW h \in HandleType, NEW s \in StreamType,
         handle' = [handle EXCEPT ![v] = h], stream' = [stream EXCEPT ![v] = s],
         s.next = stream[v].next, h.state # "closed", UNCHANGED <<mailbox, worker>>, faults' \in Nat,
         h.by # Nobody \/ s.bounced # Nobody => ~NoResolve(journal'),
         \/ journal' = journal
         \/ \E f \in FactType : /\ Owns(v) /\ f.fence = worker[v].fence /\ Writable(journal, f)
                                /\ ~Opens(f) /\ journal' = Append(journal, f),
         Owns(v) => Matches(h, journal')
  PROVE  Inv'
<1>1. /\ worker[v].pc \notin {"receive", "open"}
      /\ Owns(v) => Working(v) /\ OwnerInv(worker[v], handle[v], stream[v], journal, Item(v))
  BY RunningOwner, OfWorker
<1>2. StepOf(v, worker[v], h, s) BY OfWorker DEF StepOf, WritesEntry, mailbox, Inv, TypeInv
<1>3. Grows BY <1>2, WrittenGrows DEF Inv, StepOf
<1>4. PageInv(worker[v]) BY <1>3, ResolvedStays, OfWorker, ItemIs DEF PageInv, Inv, PagesInv
<1>5. HandleInv(worker[v], h, s) /\ Continues(v, worker[v]) BY <1>1 DEF HandleInv, Continues
<1>6. ASSUME Owns(v) PROVE OwnerInv(worker[v], h, s, journal', Item(v))
  <2>1. ViewInv(worker[v], journal, Item(v)) /\ WaitInv(worker[v], stream[v], journal, Item(v))
        /\ Retiring(worker[v], handle[v])
    BY <1>1, <1>6 DEF OwnerInv
  <2>2. WaitInv(worker[v], s, journal, Item(v)) BY <2>1 DEF WaitInv, HasSeen
  <2>3. ViewInv(worker[v], journal', Item(v)) /\ WaitInv(worker[v], s, journal', Item(v))
    <3>1. CASE journal' = journal BY <2>1, <2>2, <3>1
    <3>2. ASSUME NEW f \in FactType, ~Opens(f), journal' = Append(journal, f)
          PROVE  ViewInv(worker[v], journal', Item(v)) /\ WaitInv(worker[v], s, journal', Item(v))
      BY <2>1, <2>2, <3>2, AppendedWaits, OfWorker
    <3> QED BY <3>1, <3>2
  <2>4. Retiring(worker[v], h) BY <2>1 DEF Retiring, Quiescent
  <2> QED BY <1>6, <2>3, <2>4 DEF OwnerInv
<1> QED
  BY <1>2, <1>4, <1>5, <1>6, OfWorker, WorkerStep DEF Working

\* An entry of the session has the fence of its worker.
LEMMA FactIs ==
  ASSUME Inv, NEW v \in Workers, NEW kind \in {"accepted", "rejected", "suspended", "settled", "resumed"},
         NEW r \in Named, NEW c \in Named
  PROVE  /\ Fact(kind, r, c, v) \in FactType
         /\ Fact(kind, r, c, v).kind = kind /\ Fact(kind, r, c, v).run = r
         /\ Fact(kind, r, c, v).command = c /\ Fact(kind, r, c, v).fence = worker[v].fence
BY OfWorker DEF Fact, FactType, WorkerType

\* A run suspends, settles or takes up its work under the grant of its worker.
LEMMA RunWritesStep ==
  ASSUME Inv, NEW v \in Workers, RunSuspends(v) \/ RunSettles(v) \/ RunResumes(v)
  PROVE  Inv'
<1> DEFINE r == handle[v].run
<1>1. handle[v].state = "running" /\ Owns(v) /\ handle[v] \in HandleType /\ r \in Named /\ Nobody \in Named
  BY OfWorker DEF RunSuspends, RunSettles, RunResumes, Commits, Writes, HandleType, Named
<1>2. /\ OpenAt(journal, r) /\ (handle[v].by = Nobody <=> ~ParkedIn(journal))
      /\ \A n \in DOMAIN journal : journal[n].fence <= worker[v].fence
  BY <1>1, RunningOwner DEF Matches
<1>3. faults' \in Nat /\ UNCHANGED <<mailbox, worker>> /\ stream' = stream
  BY DEF RunSuspends, RunSettles, RunResumes, Inv, TypeInv
<1>4. handle[v].by # Nobody \/ stream[v].bounced # Nobody => ~NoResolve(journal) BY OfWorker
<1>5. CASE RunSuspends(v)
  <2> DEFINE f == Fact("suspended", r, Nobody, v)
             h == [handle[v] EXCEPT !.state = "suspended"]
  <2>1. /\ f \in FactType /\ f.kind = "suspended" /\ f.run = r /\ f.fence = worker[v].fence
    BY <1>1, FactIs
  <2>2. journal' = Append(journal, f) /\ handle[v].by = Nobody /\ handle' = [handle EXCEPT ![v] = h]
    BY <1>5, OfWorker DEF RunSuspends, Commits
  <2>3. h \in HandleType /\ h.state = "suspended" /\ h.run = r /\ h.by = Nobody
    BY <1>1, <2>2 DEF HandleType, States
  <2> HIDE DEF f, h
  <2>4. Writable(journal, f) /\ ~Opens(f) BY <1>2, <2>1, <2>2 DEF Writable, Resolves, Opens
  <2>5. Matches(h, journal')
    BY <1>2, <2>1, <2>2, <2>3, <2>4, AppendedFold, OfWorker DEF Matches
  <2>6. Grows BY <1>1, <2>1, <2>2, <2>4, WrittenGrows DEF WritesEntry, Inv
  <2>7. h.by # Nobody \/ stream[v].bounced # Nobody => ~NoResolve(journal')
    BY <1>4, <2>3, <2>6, ResolvedStays
  <2> QED BY <1>1, <1>3, <2>1, <2>2, <2>3, <2>4, <2>5, <2>7, SessionStep, OfWorker
<1>6. CASE RunSettles(v)
  <2> DEFINE f == Fact("settled", r, Nobody, v)
             h == [NoHandle EXCEPT !.state = "idle"]
  <2>1. /\ f \in FactType /\ f.kind = "settled" /\ f.run = r /\ f.fence = worker[v].fence
    BY <1>1, FactIs
  <2>2. journal' = Append(journal, f) /\ handle[v].by = Nobody /\ handle' = [handle EXCEPT ![v] = h]
    BY <1>6, OfWorker DEF RunSettles, Commits
  <2>3. h \in HandleType /\ h.state = "idle" /\ h.run = Nobody /\ h.by = Nobody
    BY DEF HandleType, States, NoHandle, Named
  <2> HIDE DEF f, h
  <2>4. Writable(journal, f) /\ ~Opens(f) BY <1>2, <2>1, <2>2 DEF Writable, Resolves, Opens
  <2>5. Matches(h, journal') BY <2>1, <2>2, <2>3, AppendedFold, OfWorker DEF Matches
  <2>6. Grows BY <1>1, <2>1, <2>2, <2>4, WrittenGrows DEF WritesEntry, Inv
  <2>7. h.by # Nobody \/ stream[v].bounced # Nobody => ~NoResolve(journal')
    BY <1>4, <2>3, <2>6, ResolvedStays
  <2> QED BY <1>1, <1>3, <2>1, <2>2, <2>3, <2>4, <2>5, <2>7, SessionStep, OfWorker
<1>7. CASE RunResumes(v)
  <2> DEFINE f == Fact("resumed", r, Nobody, v)
             h == [handle[v] EXCEPT !.by = Nobody]
  <2>1. /\ f \in FactType /\ f.kind = "resumed" /\ f.run = r /\ f.fence = worker[v].fence
    BY <1>1, FactIs
  <2>2. journal' = Append(journal, f) /\ handle[v].by # Nobody /\ handle' = [handle EXCEPT ![v] = h]
    BY <1>7, OfWorker DEF RunResumes, Commits
  <2>3. h \in HandleType /\ h.state = "running" /\ h.run = r /\ h.by = Nobody
    BY <1>1 DEF HandleType, Named
  <2> HIDE DEF f, h
  <2>4. Writable(journal, f) /\ ~Opens(f)
    BY <1>2, <1>4, <2>1, <2>2 DEF Writable, Resolves, Opens, IsEnd
  <2>5. Matches(h, journal')
    BY <1>2, <2>1, <2>2, <2>3, <2>4, AppendedFold, OfWorker DEF Matches
  <2>6. Grows BY <1>1, <2>1, <2>2, <2>4, WrittenGrows DEF WritesEntry, Inv
  <2>7. h.by # Nobody \/ stream[v].bounced # Nobody => ~NoResolve(journal')
    BY <1>4, <2>3, <2>6, ResolvedStays
  <2> QED BY <1>1, <1>3, <2>1, <2>2, <2>3, <2>4, <2>5, <2>7, SessionStep, OfWorker
<1> QED
  BY <1>5, <1>6, <1>7

\* A resumption bounces, or the session faults, without an entry.
LEMMA RunFailsStep ==
  ASSUME Inv, NEW v \in Workers, RunBounces(v) \/ RunFaults(v) \/ RunBreaks(v)
  PROVE  Inv'
<1>1. handle[v].state = "running" /\ handle[v] \in HandleType /\ stream[v] \in StreamType
  BY OfWorker DEF RunBounces, RunFaults, RunBreaks
<1>2. Owns(v) => OpenAt(journal, handle[v].run) /\ (handle[v].by = Nobody <=> ~ParkedIn(journal))
  BY <1>1, RunningOwner DEF Matches
<1>3. faults' \in Nat /\ UNCHANGED <<mailbox, worker>> /\ journal' = journal
  BY DEF RunBounces, RunFaults, RunBreaks, Inv, TypeInv
<1>4. handle[v].by # Nobody \/ stream[v].bounced # Nobody => ~NoResolve(journal) BY OfWorker
<1>5. CASE RunBounces(v)
  <2> DEFINE h == [handle[v] EXCEPT !.state = "suspended", !.by = Nobody]
             s == [stream[v] EXCEPT !.bounced = handle[v].by]
  <2>1. handle' = [handle EXCEPT ![v] = h] /\ stream' = [stream EXCEPT ![v] = s] /\ handle[v].by # Nobody
    BY <1>5, OfWorker DEF RunBounces
  <2>2. h \in HandleType /\ h.state = "suspended" /\ h.run = handle[v].run /\ h.by = Nobody
    BY <1>1 DEF HandleType, States, Named
  <2>3. s \in StreamType /\ s.next = stream[v].next BY <1>1 DEF StreamType, HandleType
  <2> HIDE DEF h, s
  <2>4. Owns(v) => Matches(h, journal') BY <1>2, <1>3, <2>1, <2>2 DEF Matches
  <2> QED BY <1>1, <1>3, <1>4, <2>1, <2>2, <2>3, <2>4, SessionStep
<1>6. CASE RunFaults(v) \/ RunBreaks(v)
  <2> DEFINE h == [handle[v] EXCEPT !.state = "faulted"]
  <2>1. handle' = [handle EXCEPT ![v] = h] /\ stream' = stream
    BY <1>6, OfWorker DEF RunFaults, RunBreaks, Faulted
  <2>2. h \in HandleType /\ h.state = "faulted" /\ h.run = handle[v].run /\ h.by = handle[v].by
    BY <1>1 DEF HandleType, States
  <2> HIDE DEF h
  <2>3. Owns(v) => Matches(h, journal') BY <1>2, <1>3, <2>2 DEF Matches
  <2>4. stream' = [stream EXCEPT ![v] = stream[v]] BY <2>1, OfWorker
  <2>5. h.by # Nobody \/ stream[v].bounced # Nobody => ~NoResolve(journal')
    BY <1>3, <1>4, <2>2
  <2> QED BY <1>1, <1>3, <2>1, <2>2, <2>3, <2>4, <2>5, SessionStep
<1> QED
  BY <1>5, <1>6

-----------------------------------------------------------------------------
(***************************************************************************)
(* drive: what a worker does by itself.                                    *)
(***************************************************************************)
\* A step of drive that leaves the session as it is.
LEMMA MovesStep ==
  ASSUME Inv, NEW v \in Workers, NEW self \in WorkerType, NEW s \in StreamType,
         UNCHANGED <<mailbox, journal, handle, faults>>,
         worker' = [worker EXCEPT ![v] = self], stream' = [stream EXCEPT ![v] = s],
         worker[v].pc \notin {"receive", "open"}, self.pc \notin {"receive", "open"},
         self.fence = worker[v].fence, s.bounced \in {Nobody, stream[v].bounced}, PageInv(self),
         Working(v) => /\ Retiring(self, handle[v]) /\ ViewInv(self, journal, ItemOf(self))
                       /\ WaitInv(self, s, journal, ItemOf(self))
  PROVE  Inv'
<1> DEFINE h == handle[v]
<1>1. h \in HandleType /\ handle' = [handle EXCEPT ![v] = h]
      /\ (h.by # Nobody \/ stream[v].bounced # Nobody => ~NoResolve(journal))
  BY OfWorker
<1>2. Working(v) => Matches(h, journal) BY OfWorker DEF OwnerInv
<1> HIDE DEF h
<1>3. StepOf(v, self, h, s) BY <1>1, OfWorker DEF StepOf, mailbox, Inv, TypeInv
<1>4. HandleInv(self, h, s) /\ Continues(v, self) BY <1>1 DEF HandleInv, Continues
<1>5. Working(v) => OwnerInv(self, h, s, journal', ItemOf(self)) BY <1>2 DEF OwnerInv, h
<1> QED
  BY <1>3, <1>4, <1>5, WorkerStep

\* runActor opens the session: its state is the one that the journal restores.
LEMMA OpenStep ==
  ASSUME Inv, NEW v \in Workers, Open(v)
  PROVE  Inv'
<1> DEFINE h == [state |-> DurableState, run |-> OpenRun, by |-> Nobody]
           self == [worker[v] EXCEPT !.pc = "load", !.then = "subscribe"]
<1>1. /\ worker' = [worker EXCEPT ![v] = self] /\ handle' = [handle EXCEPT ![v] = h]
      /\ UNCHANGED <<mailbox, journal, stream, faults>> /\ worker[v].pc = "open"
  BY OfWorker DEF Open, Snapshots, At
<1>2. /\ self \in WorkerType /\ self.pc = "load" /\ self.then = "subscribe" /\ self.fence = worker[v].fence
      /\ self.view = worker[v].view /\ self.wait = worker[v].wait /\ self.page = worker[v].page
  BY OfWorker DEF WorkerType
<1>3. Nobody \notin Commands BY WorkerAssumption
<1>4. /\ DurableState \in {"idle", "suspended", "running"}
      /\ DurableState = "idle" => Shut(journal) /\ OpenRun = Nobody
      /\ DurableState # "idle" => OpenAt(journal, OpenRun) /\ OpenRun \in Commands
      /\ DurableState = "suspended" => ParkedIn(journal)
      /\ DurableState = "running" => ~ParkedIn(journal)
  BY <1>3, DurableStateIs, OfWorker DEF JournalInv
<1>5. h \in HandleType /\ h.by = Nobody /\ h.state = DurableState /\ h.run = OpenRun
  BY <1>4 DEF HandleType, States, Named
<1> HIDE DEF h, self
<1>6. Matches(h, journal) BY <1>4, <1>5 DEF Matches
<1>7. StepOf(v, self, h, stream[v])
  BY <1>1, <1>2, <1>5, OfWorker DEF StepOf, mailbox, Inv, TypeInv
<1>8. PageInv(self) /\ HandleInv(self, h, stream[v]) /\ Continues(v, self)
  BY <1>1, <1>2, <1>5, OfWorker DEF PageInv, HandleInv, Continues
<1>9. ASSUME Working(v) PROVE OwnerInv(self, h, stream[v], journal', ItemOf(self))
  <2>1. ViewInv(worker[v], journal, Item(v)) /\ WaitInv(worker[v], stream[v], journal, Item(v))
    BY <1>9, OfWorker DEF OwnerInv
  <2>2. ViewInv(self, journal, ItemOf(self)) BY <1>2, <2>1 DEF ViewInv
  <2>3. WaitInv(self, stream[v], journal, ItemOf(self))
    <3>1. Subscribing(worker[v]) /\ worker[v].pc # "ack" /\ stream[v] \in StreamType /\ worker[v] \in WorkerType
      BY <1>1, OfWorker DEF Subscribing
    <3>2. stream[v].next <= stream[v].next /\ journal \in Seq(FactType)
      BY <3>1, OfWorker DEF StreamType
    <3> QED BY <1>2, <2>1, <3>1, <3>2, KeepsWaiting
  <2>4. Retiring(self, h) BY <1>2, <1>4, <1>5 DEF Retiring
  <2> QED BY <1>1, <1>6, <2>2, <2>3, <2>4 DEF OwnerInv
<1> QED
  BY <1>7, <1>8, <1>9, WorkerStep

\* Snapshot reads the position of the journal, before it reads the state.
LEMMA LoadStep ==
  ASSUME Inv, NEW v \in Workers, Load(v)
  PROVE  Inv'
<1> DEFINE self == [worker[v] EXCEPT !.pc = "look", !.view.position = Len(journal)]
<1>0. /\ worker[v] \in WorkerType /\ worker[v].view \in ViewType /\ Len(journal) \in Nat
      /\ stream = [stream EXCEPT ![v] = stream[v]]
  BY OfWorker, WorkerParts
<1>1. /\ worker' = [worker EXCEPT ![v] = self] /\ worker[v].pc = "load"
      /\ UNCHANGED <<mailbox, journal, handle, faults>> /\ stream' = [stream EXCEPT ![v] = stream[v]]
  BY <1>0, ZenonT(30) DEF Load, At, session
<1>2. [worker[v].view EXCEPT !.position = Len(journal)] \in ViewType BY <1>0 DEF ViewType
<1>3. /\ self \in WorkerType /\ self.pc = "look" /\ self.then = worker[v].then /\ self.fence = worker[v].fence
      /\ self.wait = worker[v].wait /\ self.page = worker[v].page /\ self.view.position = Len(journal)
  BY <1>0, <1>2 DEF WorkerType, ViewType
<1> HIDE DEF self
<1>4. PageInv(self) BY <1>1, <1>3, OfWorker DEF PageInv
<1>5. ASSUME Working(v)
      PROVE  /\ Retiring(self, handle[v]) /\ ViewInv(self, journal, ItemOf(self))
             /\ WaitInv(self, stream[v], journal, ItemOf(self))
  <2>1. /\ Retiring(worker[v], handle[v]) /\ ViewInv(worker[v], journal, Item(v))
        /\ WaitInv(worker[v], stream[v], journal, Item(v))
    BY <1>5, OfWorker DEF OwnerInv
  <2>2. ViewInv(self, journal, ItemOf(self)) BY <1>3, <2>1, OfWorker DEF ViewInv
  <2>3. WaitInv(self, stream[v], journal, ItemOf(self))
    <3>1. /\ Subscribing(self) => Subscribing(worker[v])
          /\ worker[v].pc # "ack" /\ stream[v] \in StreamType /\ worker[v] \in WorkerType
      BY <1>1, <1>3, OfWorker DEF Subscribing
    <3>2. stream[v].next <= stream[v].next /\ journal \in Seq(FactType)
      BY <3>1, OfWorker DEF StreamType
    <3> QED BY <1>3, <2>1, <3>1, <3>2, KeepsWaiting
  <2> QED BY <1>1, <1>3, <2>1, <2>2, <2>3 DEF Retiring
<1> QED
  BY <1>1, <1>3, <1>4, <1>5, MovesStep, OfWorker

\* The ticker, or a full page, makes a worker look at the session again.
LEMMA TickStep ==
  ASSUME Inv, NEW v \in Workers, Tick(v)
  PROVE  Inv'
<1> DEFINE self == [worker[v] EXCEPT !.pc = "load", !.then = "sweep"]
<1>1. /\ worker' = [worker EXCEPT ![v] = self] /\ worker[v].pc = "select"
      /\ UNCHANGED <<mailbox, journal, handle, faults>> /\ stream' = [stream EXCEPT ![v] = stream[v]]
  BY OfWorker DEF Tick, Snapshots, At, session
<1>2. /\ self \in WorkerType /\ self.pc = "load" /\ self.then = "sweep" /\ self.fence = worker[v].fence
      /\ self.wait = worker[v].wait /\ self.page = worker[v].page /\ self.view = worker[v].view
  BY OfWorker DEF WorkerType
<1> HIDE DEF self
<1>3. PageInv(self) BY <1>1, <1>2, OfWorker DEF PageInv
<1>4. ASSUME Working(v)
      PROVE  /\ Retiring(self, handle[v]) /\ ViewInv(self, journal, ItemOf(self))
             /\ WaitInv(self, stream[v], journal, ItemOf(self))
  <2>1. /\ Retiring(worker[v], handle[v]) /\ ViewInv(worker[v], journal, Item(v))
        /\ WaitInv(worker[v], stream[v], journal, Item(v))
    BY <1>4, OfWorker DEF OwnerInv
  <2>2. WaitInv(self, stream[v], journal, ItemOf(self))
    <3>1. /\ Subscribing(self) => Subscribing(worker[v])
          /\ worker[v].pc # "ack" /\ stream[v] \in StreamType /\ worker[v] \in WorkerType
      BY <1>1, <1>2, OfWorker DEF Subscribing
    <3>2. stream[v].next <= stream[v].next /\ journal \in Seq(FactType)
      BY <3>1, OfWorker DEF StreamType
    <3> QED BY <1>2, <2>1, <3>1, <3>2, KeepsWaiting
  <2> QED BY <1>1, <1>2, <2>1, <2>2 DEF Retiring, ViewInv
<1> QED
  BY <1>1, <1>2, <1>3, <1>4, MovesStep, OfWorker

\* An event ends the wait for its run if it is younger than the wait.
LEMMA ObserveStep ==
  ASSUME Inv, NEW v \in Workers, Observe(v)
  PROVE  Inv'
<1>0. /\ worker[v].pc = "select" /\ UNCHANGED <<mailbox, journal, handle, faults>>
      /\ worker[v] \in WorkerType /\ stream[v] \in StreamType /\ journal \in Seq(FactType)
      /\ worker[v].wait.after \in Nat /\ stream[v].next \in Nat /\ NoWait \in WaitType
      /\ NoWait.after = 0 /\ NoWait.run = Nobody
  BY OfWorker DEF Observe, At, WorkerType, WaitType, StreamType, NoWait, Named
<1>1. ASSUME NEW s \in StreamType, stream' = [stream EXCEPT ![v] = s], NEW event, Sees(v, event),
             s.bounced \in {Nobody, stream[v].bounced}, stream[v].next <= s.next,
             Satisfies(event, worker[v].wait) /\ NoResolve(journal) =>
               \E e \in EndsOf(journal, worker[v].wait.run) : e < s.next
      PROVE  Inv'
  <2> DEFINE wait == IF Satisfies(event, worker[v].wait) THEN NoWait ELSE worker[v].wait
             self == [worker[v] EXCEPT !.pc = "load", !.then = "sweep", !.wait = wait]
  <2>1. worker' = [worker EXCEPT ![v] = self] BY <1>0, <1>1 DEF Sees
  <2>2. wait \in WaitType BY <1>0 DEF WorkerType
  <2>3. wait.after \in {0, worker[v].wait.after} BY <1>0
  <2>4. wait # worker[v].wait => wait = NoWait /\ Satisfies(event, worker[v].wait)
    OBVIOUS
  <2> HIDE DEF wait
  <2>5. /\ self \in WorkerType /\ self.pc = "load" /\ self.then = "sweep" /\ self.fence = worker[v].fence
        /\ self.wait = wait /\ self.page = worker[v].page /\ self.view = worker[v].view
    BY <1>0, <2>2 DEF WorkerType
  <2> HIDE DEF self
  <2>6. PageInv(self) BY <1>0, <2>5, OfWorker DEF PageInv
  <2>7. ASSUME Working(v)
        PROVE  /\ Retiring(self, handle[v]) /\ ViewInv(self, journal, ItemOf(self))
               /\ WaitInv(self, s, journal, ItemOf(self))
    <3>1. /\ Retiring(worker[v], handle[v]) /\ ViewInv(worker[v], journal, Item(v))
          /\ WaitInv(worker[v], stream[v], journal, Item(v))
      BY <2>7, OfWorker DEF OwnerInv
    <3>2. ViewInv(self, journal, ItemOf(self)) BY <1>0, <2>3, <2>5, <3>1 DEF ViewInv
    <3>3. Retiring(self, handle[v]) BY <1>0, <2>5, <3>1 DEF Retiring
    <3>4. WaitInv(self, s, journal, ItemOf(self))
      <4>1. ASSUME NoResolve(journal), NEW m \in DOMAIN journal, Opens(journal[m]),
                   journal[m].fence = worker[v].fence,
                   \A n \in DOMAIN journal : n > m => ~Opens(journal[n])
            PROVE  Waiting(self, journal, journal[m].command) \/ HasSeen(s, journal, journal[m].command)
        <5>1. \/ Waiting(worker[v], journal, journal[m].command)
              \/ HasSeen(stream[v], journal, journal[m].command)
          BY <1>0, <3>1, <4>1 DEF WaitInv
        <5>2. CASE HasSeen(stream[v], journal, journal[m].command)
          <6>1. PICK e \in EndsOf(journal, journal[m].command) : e < stream[v].next
            BY <5>2 DEF HasSeen
          <6>2. e \in Nat /\ s.next \in Nat BY <1>0, <1>1 DEF EndsOf, StreamType
          <6>3. e < s.next BY <1>0, <1>1, <6>1, <6>2
          <6> QED BY <6>1, <6>3 DEF HasSeen
        <5>3. CASE Waiting(worker[v], journal, journal[m].command)
          <6>1. worker[v].wait.run = journal[m].command BY <5>3 DEF Waiting
          <6>2. CASE Satisfies(event, worker[v].wait) BY <1>1, <4>1, <6>1, <6>2 DEF HasSeen
          <6>3. CASE ~Satisfies(event, worker[v].wait) BY <2>4, <2>5, <5>3, <6>3 DEF Waiting
          <6> QED BY <6>2, <6>3
        <5> QED BY <5>1, <5>2, <5>3
      <4>2. ~Subscribing(self) BY <2>5 DEF Subscribing
      <4> QED BY <2>5, <4>1, <4>2 DEF WaitInv
    <3> QED BY <3>2, <3>3, <3>4
  <2> QED BY <1>0, <1>1, <2>1, <2>5, <2>6, <2>7, MovesStep
<1>2. ASSUME NEW n \in Buffered(v),
             Sees(v, [run |-> journal[n].run, position |-> n, command |-> Nobody]),
             stream' = [stream EXCEPT ![v].next = n + 1]
      PROVE  Inv'
  <2> DEFINE s == [stream[v] EXCEPT !.next = n + 1]
             event == [run |-> journal[n].run, position |-> n, command |-> Nobody]
  <2>1. n \in DOMAIN journal /\ n \in Nat /\ n # 0 /\ IsEnd(journal[n]) /\ stream[v].next <= n
    BY <1>0, <1>2 DEF Buffered, Ends, IsEnd
  <2>2. stream' = [stream EXCEPT ![v] = s] BY <1>0, <1>2
  <2>3. s \in StreamType /\ s.next = n + 1 /\ s.bounced = stream[v].bounced
    BY <1>0, <2>1 DEF StreamType
  <2>4. stream[v].next <= s.next BY <1>0, <2>1, <2>3
  <2>5. Satisfies(event, worker[v].wait) => n \in EndsOf(journal, worker[v].wait.run) /\ n < s.next
    BY <2>1, <2>3 DEF Satisfies, EndsOf
  <2> HIDE DEF s
  <2> QED BY <1>1, <1>2, <2>2, <2>3, <2>4, <2>5
<1>3. ASSUME stream[v].bounced # Nobody,
             Sees(v, [run |-> Target[stream[v].bounced], position |-> 0, command |-> stream[v].bounced]),
             stream' = [stream EXCEPT ![v].bounced = Nobody]
      PROVE  Inv'
  <2> DEFINE s == [stream[v] EXCEPT !.bounced = Nobody]
  <2>1. stream' = [stream EXCEPT ![v] = s] BY <1>0, <1>3
  <2>2. s \in StreamType /\ s.next = stream[v].next /\ s.bounced = Nobody
    BY <1>0 DEF StreamType, Named
  <2>3. stream[v].next <= s.next BY <1>0, <2>2
  <2>4. ~NoResolve(journal) BY <1>3, OfWorker
  <2> HIDE DEF s
  <2> QED BY <1>1, <1>3, <2>1, <2>2, <2>3, <2>4
<1> QED
  BY <1>2, <1>3 DEF Observe

\* Where a worker goes on from a page: to the next command, to its events, or
\* out, if it waits for nothing and its session is quiet.
LEMMA PageOrSweptIs ==
  ASSUME NEW self \in WorkerType, NEW next, next = PageOrSwept(self)
  PROVE  /\ next \in WorkerType /\ next.fence = self.fence /\ next.wait = self.wait
         /\ next.page = self.page /\ next.pc \in {"deliver", "select", "close"}
         /\ next.pc = "deliver" => self.page # {} /\ next.view = self.view
         /\ next.pc # "deliver" => next.view = NoView
         /\ next.pc = "close" => Quiescent(self.view) /\ self.wait = NoWait
<1>1. NoView \in ViewType BY DEF NoView, ViewType, States, Named
<1>2. CASE self.page # {}
  <2>1. next = [self EXCEPT !.pc = "deliver"] BY <1>2 DEF PageOrSwept
  <2> QED BY <1>2, <2>1 DEF WorkerType
<1>3. CASE self.page = {} /\ (self.full \/ ~Retires(self))
  <2>1. \/ next = [self EXCEPT !.pc = "select", !.view = NoView]
        \/ next = [self EXCEPT !.pc = "select", !.view = NoView, !.after = 0, !.sweep = FALSE]
    BY <1>3 DEF PageOrSwept, Swept
  <2>2. CASE next = [self EXCEPT !.pc = "select", !.view = NoView]
    BY <1>1, <2>2 DEF WorkerType
  <2>3. CASE next = [self EXCEPT !.pc = "select", !.view = NoView, !.after = 0, !.sweep = FALSE]
    <3>1. next \in WorkerType
      <4> DEFINE first == [self EXCEPT !.pc = "select", !.view = NoView]
                 second == [first EXCEPT !.after = 0]
      <4>1. first \in WorkerType BY <1>1 DEF WorkerType
      <4>2. next = [second EXCEPT !.sweep = FALSE] BY <2>3
      <4> HIDE DEF first
      <4>3. second \in WorkerType BY <4>1 DEF WorkerType
      <4> HIDE DEF second
      <4> QED BY <4>2, <4>3 DEF WorkerType
    <3>2. /\ next.fence = self.fence /\ next.wait = self.wait /\ next.page = self.page
          /\ next.pc = "select" /\ next.view = NoView
      BY <2>3 DEF WorkerType
    <3> QED BY <3>1, <3>2
  <2> QED BY <2>1, <2>2, <2>3
<1>4. CASE self.page = {} /\ ~self.full /\ Retires(self)
  <2>1. next = [self EXCEPT !.pc = "close", !.view = NoView] BY <1>4 DEF PageOrSwept, Swept
  <2>2. next \in WorkerType BY <1>1, <2>1 DEF WorkerType
  <2>3. /\ next.fence = self.fence /\ next.wait = self.wait /\ next.page = self.page
        /\ next.pc = "close" /\ next.view = NoView
    BY <2>1 DEF WorkerType
  <2> QED BY <1>4, <2>2, <2>3 DEF Retires
<1> QED
  BY <1>2, <1>3, <1>4

\* The same as a step: old is the worker before it, self the worker with the
\* view or the page that it has read.
LEMMA GoesOnStep ==
  ASSUME Inv, NEW v \in Workers, NEW self \in WorkerType,
         worker[v].pc \in {"look", "pending"}, UNCHANGED <<mailbox, journal, handle, faults, stream>>,
         worker' = [worker EXCEPT ![v] = PageOrSwept(self)],
         self.fence = worker[v].fence, self.wait = worker[v].wait, self.page \in SUBSET DOMAIN history,
         Working(v) => /\ self.view.position <= Len(journal)
                       /\ Quiescent(self.view) => handle[v].state = self.view.state
                       /\ ~Quiescent(self.view) /\ self.view.run # Nobody /\ NoResolve(journal) =>
                            /\ LastOpened(journal, self.view.run)
                            /\ \A e \in EndsOf(journal, self.view.run) : self.view.position < e
  PROVE  Inv'
<1> DEFINE next == PageOrSwept(self)
<1>1. /\ next \in WorkerType /\ next.fence = self.fence /\ next.wait = self.wait
      /\ next.page = self.page /\ next.pc \in {"deliver", "select", "close"}
      /\ next.pc = "deliver" => self.page # {} /\ next.view = self.view
      /\ next.pc # "deliver" => next.view = NoView
      /\ next.pc = "close" => Quiescent(self.view) /\ self.wait = NoWait
  BY PageOrSweptIs
<1> HIDE DEF next
<1>2. PageInv(next) BY <1>1 DEF PageInv
<1>3. ASSUME Working(v)
      PROVE  /\ Retiring(next, handle[v]) /\ ViewInv(next, journal, ItemOf(next))
             /\ WaitInv(next, stream[v], journal, ItemOf(next))
  <2>1. /\ Retiring(worker[v], handle[v]) /\ ViewInv(worker[v], journal, Item(v))
        /\ WaitInv(worker[v], stream[v], journal, Item(v))
    BY <1>3, OfWorker DEF OwnerInv
  <2>2. handle[v].state # "closed" BY <2>1 DEF Retiring
  <2>3. Retiring(next, handle[v]) BY <1>1, <1>3, <2>2 DEF Retiring, Quiescent
  <2>4. NoView.position = 0 /\ NoView.run = Nobody /\ Len(journal) \in Nat
    BY OfWorker DEF NoView
  <2>5. ViewInv(next, journal, ItemOf(next)) BY <1>1, <1>3, <2>1, <2>4 DEF ViewInv
  <2>6. stream[v].next <= stream[v].next /\ stream[v] \in StreamType
    BY OfWorker DEF StreamType
  <2>7. ~Subscribing(next) BY <1>1 DEF Subscribing
  <2>8. WaitInv(next, stream[v], journal, ItemOf(next))
    <3>1. next.wait = worker[v].wait /\ next.fence = worker[v].fence /\ worker[v].pc # "ack"
      BY <1>1
    <3>2. worker[v] \in WorkerType /\ journal \in Seq(FactType) BY OfWorker
    <3> QED BY <1>1, <2>1, <2>6, <2>7, <3>1, <3>2, KeepsWaiting
  <2> QED BY <2>3, <2>5, <2>8
<1>4. worker' = [worker EXCEPT ![v] = next] /\ stream' = [stream EXCEPT ![v] = stream[v]]
  BY OfWorker DEF next
<1>5. /\ stream[v] \in StreamType /\ next.fence = worker[v].fence
      /\ worker[v].pc \notin {"receive", "open"} /\ next.pc \notin {"receive", "open"}
  BY <1>1, OfWorker
<1> QED
  BY <1>1, <1>2, <1>3, <1>4, <1>5, MovesStep

\* What a snapshot says of an owner's run: a run that goes on has no end.
LEMMA ViewIsTrue ==
  ASSUME Inv, NEW v \in Workers, Working(v), worker[v].pc = "look"
  PROVE  /\ worker[v].view.position <= Len(journal) /\ handle[v].state # "closed"
         /\ handle[v].state \notin {"idle", "suspended"} /\ handle[v].run # Nobody /\ NoResolve(journal) =>
              LastOpened(journal, handle[v].run) /\ EndsOf(journal, handle[v].run) = {}
<1>1. /\ Matches(handle[v], journal) /\ Retiring(worker[v], handle[v])
      /\ ViewInv(worker[v], journal, Item(v)) /\ handle[v] \in HandleType
  BY OfWorker DEF OwnerInv
<1>2. handle[v].state # "closed" BY <1>1 DEF Retiring
<1>3. ASSUME handle[v].state \notin {"idle", "suspended"}, NoResolve(journal)
      PROVE  LastOpened(journal, handle[v].run) /\ EndsOf(journal, handle[v].run) = {}
  <2>1. handle[v].state \in {"running", "faulted"} /\ handle[v].by = Nobody
    BY <1>1, <1>2, <1>3, OfWorker DEF Matches, HandleType, States
  <2>2. OpenAt(journal, handle[v].run) /\ ~ParkedIn(journal) BY <1>1, <2>1 DEF Matches
  <2>3. EndsOf(journal, handle[v].run) = {} BY <1>3, <2>2, NoEndYet, OfWorker
  <2> QED BY <2>2, <2>3 DEF OpenAt, LastOpened
<1> QED
  BY <1>1, <1>2, <1>3 DEF ViewInv

\* Snapshot reads the state after the position, for one of three purposes.
LEMMA LookStep ==
  ASSUME Inv, NEW v \in Workers, Look(v)
  PROVE  Inv'
<1> DEFINE view == [worker[v].view EXCEPT !.state = handle[v].state, !.run = handle[v].run]
           next == [worker[v] EXCEPT !.view = view]
<1>0. /\ worker[v] \in WorkerType /\ worker[v].view \in ViewType /\ handle[v] \in HandleType
      /\ stream[v] \in StreamType /\ journal \in Seq(FactType) /\ Len(journal) \in Nat
      /\ worker[v].page \in SUBSET DOMAIN history /\ worker[v].wait.after \in Nat
      /\ stream = [stream EXCEPT ![v] = stream[v]] /\ worker[v].view.position \in Nat
  BY OfWorker, WorkerParts
<1>1. /\ view \in ViewType /\ view.position = worker[v].view.position
      /\ view.state = handle[v].state /\ view.run = handle[v].run /\ view.run \in Named
  BY <1>0 DEF ViewType, HandleType
<1> HIDE DEF view
<1>2. /\ next \in WorkerType /\ next.view = view /\ next.fence = worker[v].fence
      /\ next.wait = worker[v].wait /\ next.page = worker[v].page
  BY <1>0, <1>1 DEF WorkerType
<1>3. worker[v].pc = "look" /\ UNCHANGED <<journal, faults>> BY DEF Look, At
<1>4. CASE /\ worker[v].then = "subscribe" /\ UNCHANGED <<mailbox, handle>>
           /\ worker' = [worker EXCEPT ![v] = [next EXCEPT !.pc = "load", !.then = "sweep",
                !.view = NoView,
                !.wait = IF view.run # Nobody /\ ~Quiescent(view)
                         THEN [run |-> view.run, after |-> view.position, command |-> Nobody]
                         ELSE NoWait]]
           /\ stream' = [stream EXCEPT ![v].next = view.position + 1]
  <2> DEFINE wait == IF view.run # Nobody /\ ~Quiescent(view)
                     THEN [run |-> view.run, after |-> view.position, command |-> Nobody]
                     ELSE NoWait
             self == [next EXCEPT !.pc = "load", !.then = "sweep", !.view = NoView, !.wait = wait]
             s == [stream[v] EXCEPT !.next = view.position + 1]
  <2>1. worker' = [worker EXCEPT ![v] = self] /\ stream' = [stream EXCEPT ![v] = s]
    BY <1>0, <1>4
  <2>2. wait \in WaitType /\ wait.after \in {0, view.position}
    BY <1>0, <1>1 DEF WaitType, NoWait, Named
  <2>3. NoView \in ViewType /\ NoView.position = 0 BY DEF NoView, ViewType, States, Named
  <2>4. s \in StreamType /\ s.bounced = stream[v].bounced BY <1>0, <1>1 DEF StreamType
  <2> HIDE DEF wait, s, next
  <2>5. /\ self \in WorkerType /\ self.pc = "load" /\ self.then = "sweep" /\ self.view = NoView
        /\ self.wait = wait /\ self.fence = worker[v].fence /\ self.page = worker[v].page
    BY <1>2, <2>2, <2>3 DEF WorkerType
  <2> HIDE DEF self
  <2>6. PageInv(self) BY <1>0, <2>5 DEF PageInv
  <2>7. ASSUME Working(v)
        PROVE  /\ Retiring(self, handle[v]) /\ ViewInv(self, journal, ItemOf(self))
               /\ WaitInv(self, s, journal, ItemOf(self))
    <3>1. WaitInv(worker[v], stream[v], journal, Item(v)) /\ Subscribing(worker[v])
      BY <1>3, <1>4, <2>7, OfWorker DEF OwnerInv, Subscribing
    <3>2. \A m \in DOMAIN journal : Opens(journal[m]) => journal[m].fence # self.fence
      BY <2>5, <3>1 DEF WaitInv
    <3>3. WaitInv(self, s, journal, ItemOf(self)) BY <3>2 DEF WaitInv
    <3>4. Retiring(self, handle[v]) BY <1>3, <2>5, <2>7, ViewIsTrue DEF Retiring
    <3>5. ViewInv(self, journal, ItemOf(self))
      BY <1>0, <1>1, <1>3, <2>2, <2>3, <2>5, <2>7, ViewIsTrue DEF ViewInv
    <3> QED BY <3>3, <3>4, <3>5
  <2> QED BY <1>3, <1>4, <2>1, <2>4, <2>5, <2>6, <2>7, MovesStep
<1>5. CASE worker[v].then = "sweep" /\ Fails(v) BY <1>3, <1>5, FailsStep DEF Inv, TypeInv
<1>6. CASE /\ worker[v].then = "sweep" /\ UNCHANGED <<mailbox, handle, stream>>
           /\ worker' = [worker EXCEPT ![v] = [next EXCEPT !.pc = "pending"]]
  <2> DEFINE self == [next EXCEPT !.pc = "pending"]
  <2> HIDE DEF next
  <2>1. /\ self \in WorkerType /\ self.pc = "pending" /\ self.view = view
        /\ self.wait = worker[v].wait /\ self.fence = worker[v].fence /\ self.page = worker[v].page
    BY <1>2 DEF WorkerType
  <2>2. worker' = [worker EXCEPT ![v] = self] BY <1>6
  <2> HIDE DEF self
  <2>3. PageInv(self) BY <1>0, <2>1 DEF PageInv
  <2>4. ASSUME Working(v)
        PROVE  /\ Retiring(self, handle[v]) /\ ViewInv(self, journal, ItemOf(self))
               /\ WaitInv(self, stream[v], journal, ItemOf(self))
    <3>1. WaitInv(worker[v], stream[v], journal, Item(v)) /\ ViewInv(worker[v], journal, Item(v))
      BY <2>4, OfWorker DEF OwnerInv
    <3>2. ~Subscribing(self) /\ stream[v].next <= stream[v].next /\ worker[v].pc # "ack"
      BY <1>0, <1>3, <2>1 DEF Subscribing, StreamType
    <3>3. WaitInv(self, stream[v], journal, ItemOf(self))
      BY <1>0, <2>1, <3>1, <3>2, KeepsWaiting
    <3>4. Retiring(self, handle[v]) BY <1>1, <1>3, <2>1, <2>4, ViewIsTrue DEF Retiring
    <3>5. ViewInv(self, journal, ItemOf(self))
      BY <1>1, <1>3, <2>1, <2>4, <3>1, ViewIsTrue DEF ViewInv, Quiescent
    <3> QED BY <3>3, <3>4, <3>5
  <2> QED BY <1>0, <1>3, <1>6, <2>1, <2>2, <2>3, <2>4, MovesStep
<1>7. CASE /\ worker[v].then = "page" /\ UNCHANGED <<mailbox, handle, stream>>
           /\ worker' = [worker EXCEPT ![v] = PageOrSwept(next)]
  <2> HIDE DEF next
  <2>1. Working(v) =>
          /\ next.view.position <= Len(journal)
          /\ Quiescent(next.view) => handle[v].state = next.view.state
          /\ ~Quiescent(next.view) /\ next.view.run # Nobody /\ NoResolve(journal) =>
               /\ LastOpened(journal, next.view.run)
               /\ \A e \in EndsOf(journal, next.view.run) : next.view.position < e
    BY <1>1, <1>2, <1>3, ViewIsTrue DEF Quiescent
  <2> QED BY <1>0, <1>2, <1>3, <1>7, <2>1, GoesOnStep
<1> QED
  <2>1. worker[v].then \in {"subscribe", "sweep", "page"}
    BY <1>0, <1>3, OfWorker DEF WorkerType
  <2>2. CASE worker[v].then = "subscribe" BY <1>4, <2>2 DEF Look, view, next
  <2>3. CASE worker[v].then = "sweep" BY <1>5, <1>6, <2>3 DEF Look, view, next
  <2>4. CASE worker[v].then = "page" BY <1>7, <2>4 DEF Look, view, next
  <2> QED BY <2>1, <2>2, <2>3, <2>4

\* A sweep reads a page of the mailbox.
LEMMA PendingStep ==
  ASSUME Inv, NEW v \in Workers, Pending(v)
  PROVE  Inv'
<1>0. /\ worker[v] \in WorkerType /\ worker[v].pc = "pending" /\ UNCHANGED <<journal, faults>>
      /\ worker[v].sweep \in BOOLEAN
  BY OfWorker, WorkerParts DEF Pending, At
<1>1. CASE Fails(v) BY <1>0, <1>1, FailsStep DEF Inv, TypeInv
<1>2. CASE UNCHANGED <<mailbox, handle, stream>> /\ ~Fails(v)
  <2> DEFINE page == Page(worker[v].after, BatchSize)
             self == [worker[v] EXCEPT !.page = page, !.full = Cardinality(page) = BatchSize,
                                       !.sweep = @ \/ page # {}]
  <2>1. worker' = [worker EXCEPT ![v] = PageOrSwept(self)] BY <1>0, <1>2 DEF Pending
  <2>2. page \in SUBSET DOMAIN history /\ page \in SUBSET Nat BY OfWorker DEF Page
  <2> HIDE DEF page
  <2>3. /\ self \in WorkerType /\ self.page = page /\ self.view = worker[v].view
        /\ self.wait = worker[v].wait /\ self.fence = worker[v].fence
    BY <1>0, <2>2 DEF WorkerType
  <2> HIDE DEF self
  <2>4. Working(v) => Retiring(worker[v], handle[v]) /\ ViewInv(worker[v], journal, Item(v))
    BY OfWorker DEF OwnerInv
  <2>5. Working(v) =>
          /\ self.view.position <= Len(journal)
          /\ Quiescent(self.view) => handle[v].state = self.view.state
          /\ ~Quiescent(self.view) /\ self.view.run # Nobody /\ NoResolve(journal) =>
               /\ LastOpened(journal, self.view.run)
               /\ \A e \in EndsOf(journal, self.view.run) : self.view.position < e
    BY <1>0, <2>3, <2>4 DEF Retiring, ViewInv
  <2> QED BY <1>0, <1>2, <2>1, <2>2, <2>3, <2>5, GoesOnStep
<1> QED
  BY <1>1, <1>2 DEF Pending

-----------------------------------------------------------------------------
(***************************************************************************)
(* deliver: a command of the page.                                         *)
(***************************************************************************)
\* What the session writes of a command that has no receipt.
LEMMA ResolutionIs ==
  ASSUME Inv, NEW v \in Workers, worker[v].pc = "deliver", ~Resolved(Item(v)),
         NEW kind \in {"accepted", "rejected"}, NEW r \in Named,
         kind = "accepted" /\ Item(v) \in Runs => r = Item(v), Owns(v)
  PROVE  /\ Fact(kind, r, Item(v), v) \in FactType
         /\ Fact(kind, r, Item(v), v).kind = kind /\ Fact(kind, r, Item(v), v).command = Item(v)
         /\ Fact(kind, r, Item(v), v).fence = worker[v].fence
         /\ Writable(journal, Fact(kind, r, Item(v), v))
         /\ Working(v)
<1> DEFINE f == Fact(kind, r, Item(v), v)
<1>1. Item(v) \in Commands /\ Item(v) \in Named /\ ~ResolvedIn(journal, Item(v))
  BY ItemIs, ResolvedIs DEF Named
<1>2. f \in FactType /\ f.kind = kind /\ f.run = r /\ f.command = Item(v) /\ f.fence = worker[v].fence
  BY <1>1, FactIs
<1>3. \A n \in DOMAIN journal : journal[n].fence <= worker[v].fence BY OwnerIsOne DEF Inv
<1> HIDE DEF f
<1>4. Writable(journal, f)
  BY <1>1, <1>2, <1>3 DEF Writable, Resolves, Opens, IsEnd, ResolvedIn
<1> QED
  BY <1>2, <1>4 DEF Working, f

\* A worker that acknowledges what its session has written a moment ago.
LEMMA DeliveredWaits ==
  ASSUME Inv, NEW v \in Workers, Working(v), worker[v].pc = "deliver",
         NEW f \in FactType, f.command = Item(v), ~Resolved(Item(v)),
         Opens(f) => Quiescent(worker[v].view) /\ Item(v) \in Runs,
         NEW self \in WorkerType, self = [worker[v] EXCEPT !.pc = "ack", !.found = FALSE]
  PROVE  /\ ViewInv(self, Append(journal, f), Item(v))
         /\ WaitInv(self, stream[v], Append(journal, f), Item(v))
<1> DEFINE k == Append(journal, f)
           last == Len(journal) + 1
<1>0. /\ k \in Seq(FactType) /\ Len(k) = last /\ Len(journal) \in Nat
      /\ DOMAIN k = 1..last /\ DOMAIN journal = 1..Len(journal)
      /\ \A n \in DOMAIN journal : k[n] = journal[n]
      /\ k[last] = f /\ last \in DOMAIN k
      /\ \A n \in DOMAIN journal : n \in DOMAIN k /\ n < last
      /\ \A n \in DOMAIN k : n \in DOMAIN journal \/ n = last
  BY OfWorker, Appended
<1>1. /\ worker[v] \in WorkerType /\ stream[v] \in StreamType /\ journal \in Seq(FactType)
      /\ ViewInv(worker[v], journal, Item(v)) /\ WaitInv(worker[v], stream[v], journal, Item(v))
  BY OfWorker DEF OwnerInv
<1>2. /\ self.pc = "ack" /\ ~self.found /\ self.view = worker[v].view /\ self.wait = worker[v].wait
      /\ self.fence = worker[v].fence /\ self.view.position \in Nat /\ self.wait.after \in Nat
  BY <1>1, WorkerParts DEF WorkerType
<1>3. \A n \in DOMAIN journal : ~(Resolves(journal[n]) /\ journal[n].command = Item(v))
  BY ResolvedIs DEF ResolvedIn
<1> HIDE DEF k, last
<1>4. self.view.position < last /\ self.view.position <= Len(k) /\ self.wait.after <= Len(k)
  BY <1>0, <1>1, <1>2 DEF ViewInv, last
<1>5. ASSUME NEW m \in DOMAIN k, Resolves(k[m]), k[m].command = Item(v)
      PROVE  self.view.position < m /\ \A n \in DOMAIN k : ~(n > m)
  BY <1>0, <1>3, <1>4, <1>5
<1>6. ~Subscribing(self) BY <1>2 DEF Subscribing
<1>7. CASE Opens(f)
  <2>1. ViewInv(self, k, Item(v)) BY <1>2, <1>4, <1>5, <1>7 DEF ViewInv
  <2>2. ASSUME NEW m \in DOMAIN k, \A n \in DOMAIN k : n > m => ~Opens(k[n])
        PROVE  m = last
    BY <1>0, <1>7, <2>2
  <2>3. WaitInv(self, stream[v], k, Item(v)) BY <1>0, <1>2, <1>6, <2>2 DEF WaitInv
  <2> QED BY <2>1, <2>3 DEF k
<1>8. CASE ~Opens(f)
  <2>1. ViewInv(worker[v], k, Item(v)) /\ WaitInv(worker[v], stream[v], k, Item(v))
    BY <1>1, <1>8, AppendedWaits DEF k
  <2>2. ViewInv(self, k, Item(v)) BY <1>2, <1>4, <1>5, <2>1 DEF ViewInv
  <2>3. stream[v].next <= stream[v].next BY <1>1 DEF StreamType
  <2>4. WaitInv(self, stream[v], k, Item(v))
    BY <1>0, <1>1, <1>2, <1>6, <2>1, <2>3, KeepsWaiting
  <2> QED BY <2>2, <2>4 DEF k
<1> QED
  BY <1>7, <1>8

\* A command without a receipt is written once, accepted or rejected, and is
\* acknowledged next.
LEMMA ResolvesStep ==
  ASSUME Inv, NEW v \in Workers, worker[v].pc = "deliver", ~Resolved(Item(v)), Owns(v),
         UNCHANGED <<mailbox, stream, faults>>,
         NEW f \in FactType, f.command = Item(v), f.fence = worker[v].fence, Writable(journal, f),
         Resolves(f), journal' = Append(journal, f), Opens(f) => Quiescent(worker[v].view),
         NEW h \in HandleType, handle' = [handle EXCEPT ![v] = h], Matches(h, journal'),
         h.state # "closed", h.by # Nobody => h.by = handle[v].by \/ ~NoResolve(journal'),
         worker' = [worker EXCEPT ![v].pc = "ack", ![v].found = FALSE]
  PROVE  Inv'
<1> DEFINE self == [worker[v] EXCEPT !.pc = "ack", !.found = FALSE]
<1>0. worker[v] \in WorkerType /\ journal \in Seq(FactType) /\ stream = [stream EXCEPT ![v] = stream[v]]
  BY OfWorker
<1>1. worker' = [worker EXCEPT ![v] = self] /\ self \in WorkerType BY <1>0 DEF WorkerType
<1>2. self.pc = "ack" /\ self.page = worker[v].page /\ self.fence = worker[v].fence /\ self.wait = worker[v].wait
  BY <1>0 DEF WorkerType
<1>3. Working(v) BY DEF Working
<1>4. ViewInv(self, journal', Item(v)) /\ WaitInv(self, stream[v], journal', Item(v))
  BY <1>1, <1>3, DeliveredWaits DEF Opens
<1> HIDE DEF self
<1>5. StepOf(v, self, h, stream[v])
  BY <1>0, <1>1, OfWorker DEF StepOf, WritesEntry, mailbox, Inv, TypeInv
<1>6. ResolvedIn(journal', Item(v))
  <2>1. Len(journal) + 1 \in DOMAIN journal' /\ journal'[Len(journal) + 1] = f BY <1>0
  <2> QED BY <2>1 DEF ResolvedIn
<1>7. ItemOf(self) = Item(v) /\ worker[v].page # {} BY <1>2, ItemIs DEF ItemOf, Item, First
<1>8. PageInv(self) /\ Continues(v, self)
  BY <1>2, <1>6, <1>7, OfWorker DEF PageInv, Continues
<1>9. HandleInv(self, h, stream[v])
  <2>1. Grows BY <1>5, WrittenGrows DEF StepOf, Inv
  <2>2. handle[v].by # Nobody \/ stream[v].bounced # Nobody => ~NoResolve(journal')
    BY <2>1, ResolvedStays, OfWorker
  <2> QED BY <1>2, <2>2 DEF HandleInv
<1>10. Retiring(self, h) BY <1>2 DEF Retiring
<1>11. OwnerInv(self, h, stream[v], journal', ItemOf(self))
  BY <1>4, <1>7, <1>10 DEF OwnerInv
<1> QED
  BY <1>5, <1>8, <1>9, <1>11, WorkerStep

\* The receipt of an earlier delivery is acknowledged.
LEMMA KnownStep ==
  ASSUME Inv, NEW v \in Workers, worker[v].pc = "deliver", Resolved(Item(v)),
         worker' = [worker EXCEPT ![v].pc = "ack", ![v].found = TRUE],
         UNCHANGED <<mailbox, session, faults>>
  PROVE  Inv'
<1> DEFINE self == [worker[v] EXCEPT !.pc = "ack", !.found = TRUE]
<1>0. worker[v] \in WorkerType /\ stream[v] \in StreamType /\ stream = [stream EXCEPT ![v] = stream[v]]
  BY OfWorker
<1>1. worker' = [worker EXCEPT ![v] = self] /\ self \in WorkerType BY <1>0 DEF WorkerType
<1>2. /\ self.pc = "ack" /\ self.page = worker[v].page /\ self.fence = worker[v].fence /\ self.found = TRUE
      /\ self.wait = worker[v].wait /\ self.view = worker[v].view
  BY <1>0 DEF WorkerType
<1> HIDE DEF self
<1>3. ItemOf(self) = Item(v) /\ worker[v].page # {} /\ ResolvedIn(journal, Item(v))
  BY <1>2, ItemIs, ResolvedIs DEF ItemOf, Item, First
<1>4. UNCHANGED <<mailbox, journal, handle, faults>> /\ stream' = [stream EXCEPT ![v] = stream[v]]
  BY <1>0 DEF session
<1>5. PageInv(self) BY <1>2, <1>3, <1>4, OfWorker DEF PageInv
<1>6. ASSUME Working(v)
      PROVE  /\ Retiring(self, handle[v]) /\ ViewInv(self, journal, ItemOf(self))
             /\ WaitInv(self, stream[v], journal, ItemOf(self))
  <2>1. /\ Retiring(worker[v], handle[v]) /\ ViewInv(worker[v], journal, Item(v))
        /\ WaitInv(worker[v], stream[v], journal, Item(v))
    BY <1>6, OfWorker DEF OwnerInv
  <2>2. ViewInv(self, journal, ItemOf(self)) BY <1>2, <2>1 DEF ViewInv
  <2>3. ~Subscribing(self) /\ stream[v].next <= stream[v].next
    BY <1>0, <1>2 DEF Subscribing, StreamType
  <2>4. WaitInv(self, stream[v], journal, ItemOf(self))
    <3>1. journal \in Seq(FactType) /\ worker[v].pc # "ack" BY OfWorker
    <3> QED BY <1>0, <1>1, <1>2, <2>1, <2>3, <3>1, KeepsWaiting
  <2>5. Retiring(self, handle[v]) BY <1>2, <2>1 DEF Retiring
  <2> QED BY <2>2, <2>4, <2>5
<1> QED
  BY <1>0, <1>1, <1>2, <1>4, <1>5, <1>6, MovesStep

\* A command is accepted as its kind and the session's state allow.
LEMMA AcceptStep ==
  ASSUME Inv, NEW v \in Workers, worker[v].pc = "deliver", ~Resolved(Item(v)),
         Accepting(v, Item(v)), Item(v) \in Runs => worker[v].view.state = "idle",
         Commits(v, "accepted", RunOf(v, Item(v)), Item(v)),
         handle' = [handle EXCEPT ![v] = AcceptedHandle(v, Item(v))],
         worker' = [worker EXCEPT ![v].pc = "ack", ![v].found = FALSE],
         UNCHANGED <<mailbox, stream, faults>>
  PROVE  Inv'
<1> DEFINE c == Item(v)
           f == Fact("accepted", RunOf(v, c), c, v)
           h == AcceptedHandle(v, c)
<1>1. c \in Commands /\ Owns(v) /\ handle[v] \in HandleType /\ handle[v].run \in Named
  BY ItemIs, OfWorker DEF Commits, Writes, HandleType
<1>2. /\ RunOf(v, c) \in Named
      /\ c \in Runs => RunOf(v, c) = c
  BY <1>1 DEF RunOf, Named
<1>3. /\ f \in FactType /\ f.kind = "accepted" /\ f.command = c /\ f.fence = worker[v].fence
      /\ Writable(journal, f) /\ Working(v)
  BY <1>1, <1>2, ResolutionIs
<1>4. journal' = Append(journal, f) BY DEF Commits
<1>5. Kind[c] \in {"start", "steer", "resolve"} /\ Nobody \notin Commands
  BY <1>1, WorkerAssumption
<1>6. handle[v].state # "none" BY <1>5 DEF Accepting
<1>7. Matches(handle[v], journal) BY <1>1, <1>6, RunningOwner
<1> HIDE DEF f, c
<1>8. Opens(f) <=> Kind[c] = "start" BY <1>1, <1>3 DEF Opens, Runs
<1>9. journal \in Seq(FactType) /\ journal' \in Seq(FactType) BY <1>3, <1>4, OfWorker
<1>10. CASE Kind[c] = "start"
  <2>1. h = [state |-> "running", run |-> c, by |-> Nobody] BY <1>10 DEF AcceptedHandle, c
  <2>2. h \in HandleType /\ h.state = "running" /\ h.run = c /\ h.by = Nobody
    BY <1>1, <2>1 DEF HandleType, States, Named
  <2>3. OpenAt(journal', c) /\ ~ParkedIn(journal')
    BY <1>3, <1>4, <1>8, <1>9, <1>10, AppendedFold
  <2>4. Matches(h, journal') BY <2>2, <2>3 DEF Matches
  <2>5. Quiescent(worker[v].view) BY <1>1, <1>10 DEF Quiescent, Runs, c
  <2> HIDE DEF h
  <2>6. Resolves(f) /\ handle' = [handle EXCEPT ![v] = h] BY <1>3 DEF Resolves, h, c
  <2> QED BY <1>1, <1>3, <1>4, <2>2, <2>4, <2>5, <2>6, ResolvesStep DEF c
<1>11. CASE Kind[c] = "steer"
  <2>1. h = handle[v] /\ handle[v].state = "running"
    BY <1>11 DEF AcceptedHandle, Accepting, c
  <2>2. /\ OpenAt(journal', handle[v].run)
        /\ ParkedIn(journal') <=> ParkedIn(journal)
    BY <1>3, <1>4, <1>7, <1>8, <1>9, <1>11, <2>1, AppendedFold DEF Matches
  <2>3. Matches(h, journal') BY <1>7, <2>1, <2>2 DEF Matches
  <2> HIDE DEF h
  <2>4. Resolves(f) /\ handle' = [handle EXCEPT ![v] = h] /\ ~Opens(f)
    BY <1>3, <1>8, <1>11 DEF Resolves, h, c
  <2>5. h \in HandleType /\ h.state # "closed" /\ h.by = handle[v].by BY <1>1, <2>1
  <2> QED BY <1>1, <1>3, <1>4, <2>3, <2>4, <2>5, ResolvesStep DEF c
<1>12. CASE Kind[c] = "resolve"
  <2>1. /\ h = [state |-> "running", run |-> handle[v].run, by |-> c]
        /\ handle[v].state = "suspended"
    BY <1>12 DEF AcceptedHandle, Accepting, c
  <2>2. h \in HandleType /\ h.state = "running" /\ h.run = handle[v].run /\ h.by = c
    BY <1>1, <2>1 DEF HandleType, States, Named
  <2>3. OpenAt(journal', handle[v].run) /\ ParkedIn(journal')
    BY <1>3, <1>4, <1>7, <1>8, <1>9, <1>12, <2>1, AppendedFold DEF Matches
  <2>4. Matches(h, journal') BY <1>1, <1>5, <2>2, <2>3 DEF Matches
  <2>5. ~NoResolve(journal')
    <3>1. Len(journal) + 1 \in DOMAIN journal' /\ journal'[Len(journal) + 1] = f
      BY <1>4, <1>9
    <3> QED BY <1>3, <1>12, <3>1 DEF NoResolve
  <2> HIDE DEF h
  <2>6. Resolves(f) /\ handle' = [handle EXCEPT ![v] = h] /\ ~Opens(f)
    BY <1>3, <1>8, <1>12 DEF Resolves, h, c
  <2> QED BY <1>1, <1>3, <1>4, <2>2, <2>4, <2>5, <2>6, ResolvesStep DEF c
<1> QED
  BY <1>5, <1>10, <1>11, <1>12

\* A command that can never be accepted is rejected.
LEMMA RejectStep ==
  ASSUME Inv, NEW v \in Workers, worker[v].pc = "deliver", ~Resolved(Item(v)),
         Commits(v, "rejected", Nobody, Item(v)), handle' = handle,
         worker' = [worker EXCEPT ![v].pc = "ack", ![v].found = FALSE],
         UNCHANGED <<mailbox, stream, faults>>
  PROVE  Inv'
<1> DEFINE f == Fact("rejected", Nobody, Item(v), v)
<1>1. Owns(v) /\ Working(v) /\ handle[v] \in HandleType /\ handle = [handle EXCEPT ![v] = handle[v]]
  BY OfWorker DEF Commits, Writes, Working
<1>2. /\ f \in FactType /\ f.kind = "rejected" /\ f.command = Item(v) /\ f.fence = worker[v].fence
      /\ Writable(journal, f)
  BY <1>1, ResolutionIs DEF Named
<1>3. journal' = Append(journal, f) /\ journal \in Seq(FactType) BY OfWorker DEF Commits
<1>4. Matches(handle[v], journal) /\ Retiring(worker[v], handle[v])
  BY <1>1, OfWorker DEF OwnerInv
<1> HIDE DEF f
<1>5. ~Opens(f) /\ Resolves(f) /\ handle[v].state # "closed"
  BY <1>2, <1>4 DEF Opens, Resolves, Retiring
<1>6. Matches(handle[v], journal') BY <1>2, <1>3, <1>4, <1>5, AppendedFold DEF Matches
<1> QED
  BY <1>1, <1>2, <1>3, <1>5, <1>6, ResolvesStep

\* An input that cannot be accepted now stays in the mailbox.
LEMMA DeferredStep ==
  ASSUME Inv, NEW v \in Workers, worker[v].pc = "deliver", Deferred(v), UNCHANGED faults
  PROVE  Inv'
<1> DEFINE taken == Taken(v)
           self == [taken EXCEPT !.pc = "load", !.then = "page"]
<1>0. /\ worker[v] \in WorkerType /\ stream[v] \in StreamType /\ stream = [stream EXCEPT ![v] = stream[v]]
      /\ First(v) \in Nat /\ worker[v].page \in SUBSET Nat
  BY OfWorker, ItemIs, WorkerParts
<1>1. /\ taken \in WorkerType /\ taken.page = worker[v].page \ {First(v)} /\ taken.fence = worker[v].fence
      /\ taken.wait = worker[v].wait /\ taken.view = worker[v].view
  BY <1>0 DEF Taken, WorkerType
<1>2. worker' = [worker EXCEPT ![v] = self] BY DEF Deferred
<1> HIDE DEF taken
<1>3. /\ self \in WorkerType /\ self.pc = "load" /\ self.then = "page" /\ self.fence = worker[v].fence
      /\ self.wait = worker[v].wait /\ self.view = worker[v].view /\ self.page = worker[v].page \ {First(v)}
  BY <1>1 DEF WorkerType
<1> HIDE DEF self
<1>4. PageInv(self) BY <1>3, OfWorker DEF PageInv
<1>5. UNCHANGED <<mailbox, journal, handle, faults>> /\ stream' = [stream EXCEPT ![v] = stream[v]]
  BY <1>0 DEF Deferred, session
<1>6. ASSUME Working(v)
      PROVE  /\ Retiring(self, handle[v]) /\ ViewInv(self, journal, ItemOf(self))
             /\ WaitInv(self, stream[v], journal, ItemOf(self))
  <2>1. /\ Retiring(worker[v], handle[v]) /\ ViewInv(worker[v], journal, Item(v))
        /\ WaitInv(worker[v], stream[v], journal, Item(v))
    BY <1>6, OfWorker DEF OwnerInv
  <2>2. ~Subscribing(self) /\ stream[v].next <= stream[v].next /\ journal \in Seq(FactType)
    BY <1>0, <1>3, OfWorker DEF Subscribing, StreamType
  <2>3. WaitInv(self, stream[v], journal, ItemOf(self))
    BY <1>0, <1>3, <2>1, <2>2, KeepsWaiting
  <2> QED BY <1>3, <2>1, <2>3 DEF ViewInv, Retiring
<1> QED
  BY <1>0, <1>2, <1>3, <1>4, <1>5, <1>6, MovesStep

\* deliver, with the loss of its reply.
LEMMA DeliverStep ==
  ASSUME Inv, NEW v \in Workers, Deliver(v) \/ ReplyLost(v)
  PROVE  Inv'
<1>1. worker[v].pc = "deliver" BY DEF Deliver, ReplyLost, At
<1>2. CASE Deliver(v)
  <2> DEFINE c == Item(v)
             busy == c \in Runs /\ worker[v].view.state # "idle"
  <2>0. faults' = faults /\ faults \in Nat BY <1>2 DEF Deliver, Inv, TypeInv
  <2>1. CASE /\ Resolved(c) /\ worker' = [worker EXCEPT ![v].pc = "ack", ![v].found = TRUE]
             /\ UNCHANGED <<mailbox, session>>
    BY <1>1, <2>0, <2>1, KnownStep
  <2>2. CASE Deferred(v) BY <1>1, <2>0, <2>2, DeferredStep
  <2>3. CASE /\ ~Resolved(c) /\ ~busy /\ Accepting(v, c)
             /\ Commits(v, "accepted", RunOf(v, c), c)
             /\ handle' = [handle EXCEPT ![v] = AcceptedHandle(v, c)]
             /\ worker' = [worker EXCEPT ![v].pc = "ack", ![v].found = FALSE]
             /\ UNCHANGED <<mailbox, stream>>
    BY <1>1, <2>0, <2>3, AcceptStep
  <2>4. CASE /\ ~Resolved(c) /\ Commits(v, "rejected", Nobody, c)
             /\ worker' = [worker EXCEPT ![v].pc = "ack", ![v].found = FALSE]
             /\ UNCHANGED <<mailbox, handle, stream>>
    BY <1>1, <2>0, <2>4, RejectStep
  <2>5. CASE Fails(v) /\ UNCHANGED journal BY <2>0, <2>5, FailsStep
  <2> QED BY <1>2, <2>1, <2>2, <2>3, <2>4, <2>5 DEF Deliver
<1>3. CASE ReplyLost(v)
  <2> DEFINE c == Item(v)
             f == Fact("accepted", RunOf(v, c), c, v)
  <2>1. /\ ~Resolved(c) /\ Owns(v) /\ journal' = Append(journal, f) /\ Fails(v) /\ faults' \in Nat
    BY <1>3 DEF ReplyLost, Commits, Writes, Inv, TypeInv
  <2>2. /\ RunOf(v, c) \in Named
        /\ c \in Runs => RunOf(v, c) = c
    <3>1. c \in Commands /\ handle[v] \in HandleType BY <1>1, ItemIs, OfWorker
    <3> QED BY <3>1 DEF RunOf, Named, HandleType
  <2>3. f \in FactType /\ f.fence = worker[v].fence /\ Writable(journal, f)
    BY <1>1, <2>1, <2>2, ResolutionIs
  <2> HIDE DEF f
  <2>4. WritesEntry(v) BY <2>1, <2>3 DEF WritesEntry
  <2> QED BY <2>1, <2>4, FailsStep
<1> QED
  BY <1>2, <1>3

\* Release acknowledges a command and the worker waits for the run it set going.
LEMMA AckStep ==
  ASSUME Inv, NEW v \in Workers, Ack(v)
  PROVE  Inv'
<1> DEFINE c == Item(v)
           for == IF c \in Runs THEN c ELSE Target[c]
           wait == IF Awaits(v, c)
                   THEN [run |-> for, after |-> worker[v].view.position, command |-> c]
                   ELSE worker[v].wait
           taken == Taken(v)
           self == [taken EXCEPT !.pc = "load", !.then = "page", !.wait = wait]
<1>0. /\ worker[v] \in WorkerType /\ stream[v] \in StreamType /\ stream = [stream EXCEPT ![v] = stream[v]]
      /\ First(v) \in Nat /\ worker[v].page \in SUBSET Nat /\ handle = [handle EXCEPT ![v] = handle[v]]
      /\ worker[v].view.position \in Nat /\ worker[v].wait \in WaitType /\ worker[v].pc = "ack"
      /\ c \in Commands /\ ResolvedIn(journal, c) /\ UNCHANGED <<journal, faults>> /\ faults \in Nat
      /\ handle[v] \in HandleType /\ journal \in Seq(FactType) /\ Len(journal) \in Nat
  BY OfWorker, ItemIs, WorkerParts DEF Ack, At
<1>1. CASE Fails(v) BY <1>0, <1>1, FailsStep
<1>2. CASE Owns(v) /\ ~Fails(v)
  <2>1. /\ Acknowledge(c) /\ UNCHANGED <<handle, stream>>
        /\ worker' = [worker EXCEPT ![v] = [Taken(v) EXCEPT !.pc = "load", !.then = "page",
               !.wait = IF Awaits(v, c)
                        THEN [run |-> for, after |-> worker[v].view.position, command |-> c]
                        ELSE @]]
    BY <1>2 DEF Ack
  <2>2. /\ taken \in WorkerType /\ taken.page = worker[v].page \ {First(v)} /\ taken.fence = worker[v].fence
        /\ taken.wait = worker[v].wait /\ taken.view = worker[v].view
    BY <1>0 DEF Taken, WorkerType
  <2>3. worker' = [worker EXCEPT ![v] = self] BY <2>1, <2>2
  <2>4. wait \in WaitType BY <1>0, WorkerAssumption DEF WaitType, Named
  <2>5. wait.after \in {worker[v].wait.after, worker[v].view.position}
    OBVIOUS
  <2>6. ~Awaits(v, c) => wait = worker[v].wait
    OBVIOUS
  <2>7. Awaits(v, c) /\ c \in Runs => wait.run = c /\ wait.after = worker[v].view.position
    OBVIOUS
  <2> HIDE DEF taken, wait
  <2>8. /\ self \in WorkerType /\ self.pc = "load" /\ self.then = "page" /\ self.fence = worker[v].fence
        /\ self.wait = wait /\ self.view = worker[v].view /\ self.page = worker[v].page \ {First(v)}
    BY <2>2, <2>4 DEF WorkerType
  <2> HIDE DEF self
  <2>9. PageInv(self) BY <2>8, OfWorker DEF PageInv
  <2>10. StepOf(v, self, handle[v], stream[v])
    <3>1. pending' = pending \ {c} /\ UNCHANGED <<history, generation, lease, live, needs>>
      BY <2>1 DEF Acknowledge
    <3> QED BY <1>0, <2>1, <2>3, <2>8, <3>1 DEF StepOf
  <2>11. HandleInv(self, handle[v], stream[v]) /\ Continues(v, self)
    BY <1>0, <2>8, OfWorker DEF HandleInv, Continues
  <2>12. Working(v) BY <1>0, <1>2 DEF Working
  <2>13. /\ Retiring(worker[v], handle[v]) /\ ViewInv(worker[v], journal, c)
         /\ WaitInv(worker[v], stream[v], journal, c) /\ Matches(handle[v], journal)
    BY <1>0, <2>12, OfWorker DEF OwnerInv
  <2>14. ViewInv(self, journal, ItemOf(self)) BY <2>5, <2>8, <2>13 DEF ViewInv
  <2>15. ASSUME NoResolve(journal), NEW m \in DOMAIN journal, Opens(journal[m]),
                journal[m].fence = worker[v].fence,
                \A n \in DOMAIN journal : n > m => ~Opens(journal[n])
         PROVE  Waiting(self, journal, journal[m].command) \/ HasSeen(stream[v], journal, journal[m].command)
    <3> DEFINE of == journal[m].command
    <3>1. \/ Waiting(worker[v], journal, of)
          \/ ~worker[v].found /\ c = of
          \/ HasSeen(stream[v], journal, of)
      BY <2>13, <2>15 DEF WaitInv
    <3>2. ASSUME Awaits(v, c) PROVE Waiting(self, journal, of)
      <4>1. PICK n \in DOMAIN journal : journal[n].kind = "accepted" /\ journal[n].command = c
        BY <3>2 DEF Awaits
      <4>2. c \in Runs /\ Opens(journal[n]) /\ Resolves(journal[n])
        BY <1>0, <2>15, <3>2, <4>1 DEF Awaits, NoResolve, Runs, Opens, Resolves
      <4>3. wait.run = c /\ wait.after = worker[v].view.position BY <2>7, <3>2, <4>2
      <4>4. CASE ~worker[v].found
        <5>1. worker[v].view.position < n /\ \A i \in DOMAIN journal : i > n => ~Opens(journal[i])
          BY <1>0, <2>13, <4>1, <4>2, <4>4 DEF ViewInv
        <5>2. m = n BY <1>0, <2>15, <4>2, <5>1
        <5>3. ASSUME NEW e \in EndsOf(journal, c) PROVE worker[v].view.position < e
          <6>1. PICK i \in 1..(e - 1) : Opens(journal[i]) /\ journal[i].command = c
            BY OfWorker DEF EndsOf, JournalInv, EndsFollow
          <6>2. i \in DOMAIN journal /\ e \in DOMAIN journal /\ i < e BY <1>0 DEF EndsOf
          <6>3. i = n
            BY <4>1, <4>2, <6>1, <6>2, OfWorker DEF JournalInv, OncePerCommand, Opens, Resolves
          <6> QED BY <1>0, <5>1, <6>2, <6>3
        <5> QED BY <2>8, <4>1, <4>3, <5>2, <5>3 DEF Waiting
      <4>5. CASE worker[v].found
        <5>1. ~Quiescent(worker[v].view) /\ worker[v].view.run = c
          BY <3>2, <4>2, <4>5 DEF Awaits
        <5>2. c # Nobody BY <1>0, WorkerAssumption
        <5>3. LastOpened(journal, c) /\ \A e \in EndsOf(journal, c) : worker[v].view.position < e
          BY <1>0, <2>13, <2>15, <5>1, <5>2 DEF ViewInv
        <5>4. of = c
          <6>1. PICK a \in DOMAIN journal : /\ Opens(journal[a]) /\ journal[a].command = c
                                            /\ \A i \in DOMAIN journal : i > a => ~Opens(journal[i])
            BY <5>3 DEF LastOpened
          <6>2. a = m BY <1>0, <2>15, <6>1
          <6> QED BY <6>1, <6>2
        <5> QED BY <2>8, <4>3, <5>3, <5>4 DEF Waiting
      <4> QED BY <4>4, <4>5
    <3>3. ASSUME ~Awaits(v, c) PROVE Waiting(self, journal, of) \/ HasSeen(stream[v], journal, of)
      <4>1. ~(~worker[v].found /\ c = of) BY <2>15, <3>3 DEF Awaits, Opens, Runs
      <4> QED BY <2>6, <2>8, <3>1, <3>3, <4>1 DEF Waiting
    <3> QED BY <3>2, <3>3
  <2>16. ~Subscribing(self) BY <2>8 DEF Subscribing
  <2>17. WaitInv(self, stream[v], journal, ItemOf(self)) BY <2>8, <2>15, <2>16 DEF WaitInv
  <2>18. OwnerInv(self, handle[v], stream[v], journal', ItemOf(self))
    BY <1>0, <2>8, <2>13, <2>14, <2>17 DEF OwnerInv, Retiring
  <2> QED BY <2>9, <2>10, <2>11, <2>18, WorkerStep
<1> QED
  BY <1>1, <1>2 DEF Ack

-----------------------------------------------------------------------------
(***************************************************************************)
(* The lease.                                                              *)
(***************************************************************************)
\* A worker closes a session that is at rest.
LEMMA CloseStep ==
  ASSUME Inv, NEW v \in Workers, worker[v].pc = "close", handle[v].state # "closed",
         handle' = [handle EXCEPT ![v].state = "closed"],
         UNCHANGED <<mailbox, worker, stream, journal, faults>>
  PROVE  Inv'
<1> DEFINE h == [handle[v] EXCEPT !.state = "closed"]
<1>0. /\ worker[v] \in WorkerType /\ stream[v] \in StreamType /\ handle[v] \in HandleType
      /\ worker = [worker EXCEPT ![v] = worker[v]] /\ stream = [stream EXCEPT ![v] = stream[v]]
  BY OfWorker
<1>1. handle' = [handle EXCEPT ![v] = h] /\ h \in HandleType /\ h.state = "closed" /\ h.by = handle[v].by
  BY <1>0 DEF HandleType, States
<1> HIDE DEF h
<1>2. StepOf(v, worker[v], h, stream[v])
  BY <1>0, <1>1, OfWorker DEF StepOf, mailbox, Inv, TypeInv
<1>3. PageInv(worker[v]) /\ HandleInv(worker[v], h, stream[v]) /\ Continues(v, worker[v])
  BY <1>1, OfWorker DEF PageInv, HandleInv, Continues
<1>4. ASSUME Working(v) PROVE OwnerInv(worker[v], h, stream[v], journal', ItemOf(worker[v]))
  <2>1. OwnerInv(worker[v], handle[v], stream[v], journal, ItemOf(worker[v]))
    BY <1>4, OfWorker
  <2>2. handle[v].state \in {"idle", "suspended"} BY <2>1 DEF OwnerInv, Retiring
  <2>3. Matches(h, journal) BY <1>1, <2>1, <2>2 DEF OwnerInv, Matches, Unfinished
  <2>4. Retiring(worker[v], h) BY <1>1, <2>1 DEF OwnerInv, Retiring
  <2> QED BY <2>1, <2>3, <2>4 DEF OwnerInv
<1> QED
  BY <1>2, <1>3, <1>4, WorkerStep

\* Whoever gives the lease back leaves nothing unfinished.
LEMMA ReleaseStep ==
  ASSUME Inv, NEW v \in Workers, worker[v].pc = "close", handle[v].state = "closed",
         Release(v, worker[v].fence), UNCHANGED <<journal, faults>>,
         worker' = [worker EXCEPT ![v] = Idle], handle' = [handle EXCEPT ![v] = NoHandle],
         stream' = [stream EXCEPT ![v] = NoStream]
  PROVE  Inv'
<1>1. TypeInv /\ LeaseInv /\ PagesInv /\ HandlesInv /\ JournalInv(journal) BY DEF Inv
<1>2. Working(v) /\ ~Unfinished(journal)
  <2>1. Owns(v) BY DEF Release, Owns
  <2> QED BY <2>1, RunningOwner DEF Matches
<1>3. Idle \in WorkerType /\ NoHandle \in HandleType /\ NoStream \in StreamType /\ NoLease.fence = 0
  BY DEF Idle, WorkerType, ViewType, WaitType, NoView, NoWait, States, Named,
         NoHandle, HandleType, NoStream, StreamType, NoLease
<1>4. Idle.page = {} /\ Idle.pc = "receive" /\ NoHandle.by = Nobody /\ NoStream.bounced = Nobody
  BY DEF Idle, NoHandle, NoStream
<1>5. UNCHANGED <<history, pending, generation>> /\ lease' = NoLease /\ live' = FALSE /\ needs' = FALSE
  BY DEF Release
<1>6. NoLease \in [owner : Workers \cup {Nobody}, fence : Nat] BY DEF NoLease
<1>7. TypeInv' BY <1>1, <1>3, <1>5, <1>6 DEF TypeInv
<1>8. LeaseInv' BY <1>5 DEF LeaseInv, Leased
<1>9. /\ worker'[v] = Idle /\ handle'[v] = NoHandle /\ stream'[v] = NoStream
      /\ \A w \in Workers : w # v => worker'[w] = worker[w] /\ handle'[w] = handle[w] /\ stream'[w] = stream[w]
  BY <1>1 DEF TypeInv
<1>10. PagesInv' /\ HandlesInv'
  BY <1>1, <1>4, <1>5, <1>9 DEF PagesInv, HandlesInv, At, Item, First
<1>11. AcknowledgedInv' /\ \A n \in DOMAIN journal' : journal'[n].fence <= generation'
  BY <1>5 DEF Inv, AcknowledgedInv
<1>12. \A w \in Workers : ~Working(w)' BY <1>5 DEF Working, Owns, Owned
<1> QED
  BY <1>1, <1>2, <1>5, <1>7, <1>8, <1>10, <1>11, <1>12 DEF Inv

\* runActor closes the session, then gives back the lease.
LEMMA CloseAndReleaseStep ==
  ASSUME Inv, NEW v \in Workers, CloseAndRelease(v)
  PROVE  Inv'
<1>1. CASE handle[v].state # "closed" BY <1>1, CloseStep DEF CloseAndRelease, At
<1>2. CASE handle[v].state = "closed" BY <1>2, ReleaseStep DEF CloseAndRelease, At
<1> QED
  BY <1>1, <1>2

\* A page of one.
LEMMA MinOfOne ==
  ASSUME NEW n \in Nat
  PROVE  Min({n}) = n
BY FirstOf

\* What is left of a worker that lost its lease.
LEMMA OvertakenIs ==
  ASSUME Inv, NEW v \in Workers, worker[v].pc \notin {"receive", "open"} \/ handle[v] = NoHandle,
         NEW self, self = Overtaken(worker[v])
  PROVE  /\ self \in WorkerType /\ self.page \in SUBSET DOMAIN history
         /\ self.pc \in {"deliver", "ack"} =>
              self.pc = worker[v].pc /\ self.page # {} /\ ItemOf(self) = Item(v)
         /\ self.pc \notin {"receive", "open", "load", "look"}
<1> DEFINE page == IF worker[v].pc \in {"deliver", "ack"} THEN {First(v)} ELSE {}
           pc == IF worker[v].pc \in {"pending", "deliver", "ack", "close"} THEN worker[v].pc ELSE "stale"
<1>1. worker[v] \in WorkerType /\ Idle \in WorkerType
  BY OfWorker DEF Idle, WorkerType, ViewType, WaitType, NoView, NoWait, States, Named
<1>2. /\ page \in SUBSET DOMAIN history /\ page \in SUBSET Nat
      /\ worker[v].pc \in {"deliver", "ack"} => page = {First(v)} /\ First(v) \in Nat
  BY ItemIs, OfWorker
<1>3. self = [Idle EXCEPT !.pc = pc, !.fence = worker[v].fence, !.page = page]
  BY DEF Overtaken, First
<1>4. /\ pc \in {"pending", "deliver", "ack", "close", "stale"}
      /\ pc \in {"deliver", "ack"} => pc = worker[v].pc
  OBVIOUS
<1> HIDE DEF page, pc
<1>5. self \in WorkerType /\ self.page = page /\ self.pc = pc
  <2> DEFINE first == [Idle EXCEPT !.pc = pc, !.fence = worker[v].fence]
  <2>1. first \in WorkerType /\ first.pc = pc BY <1>1, <1>4 DEF WorkerType
  <2>2. self = [first EXCEPT !.page = page] BY <1>3
  <2> HIDE DEF first
  <2> QED BY <1>2, <2>1, <2>2 DEF WorkerType
<1>6. self.pc \in {"deliver", "ack"} => self.page # {} /\ ItemOf(self) = Item(v)
  BY <1>2, <1>4, <1>5, MinOfOne DEF ItemOf, Item
<1> QED
  BY <1>2, <1>4, <1>5, <1>6

\* A lease that expires: nobody owns the session then.
LEMMA ExpireStep ==
  ASSUME Inv, LeaseExpires
  PROVE  Inv'
<1>1. TypeInv /\ LeaseInv /\ PagesInv /\ HandlesInv /\ JournalInv(journal) BY DEF Inv
<1>2. /\ UNCHANGED <<history, pending, generation, lease, needs, journal, handle>> /\ live' = FALSE
      /\ faults' \in Nat
  BY <1>1 DEF LeaseExpires, Expire, TypeInv
<1>3. TypeInv' /\ PagesInv' /\ HandlesInv'
  <2>1. CASE UNCHANGED <<worker, stream>>
    BY <1>1, <1>2, <2>1 DEF TypeInv, PagesInv, HandlesInv, At, Item, First
  <2>2. ASSUME NEW v \in Workers, ~At(v, "receive"), Owns(v),
               worker' = [worker EXCEPT ![lease.owner] = Overtaken(@)],
               stream' = [stream EXCEPT ![lease.owner] = NoStream]
        PROVE  TypeInv' /\ PagesInv' /\ HandlesInv'
    <3> DEFINE self == Overtaken(worker[v])
    <3>1. lease.owner = v BY <2>2 DEF Owns, Owned
    <3>2. /\ self \in WorkerType /\ self.page \in SUBSET DOMAIN history
          /\ self.pc \in {"deliver", "ack"} =>
               self.pc = worker[v].pc /\ self.page # {} /\ ItemOf(self) = Item(v)
          /\ self.pc \notin {"receive", "open", "load", "look"}
      BY OvertakenIs, OfWorker
    <3> HIDE DEF self
    <3>3. /\ worker' = [worker EXCEPT ![v] = self] /\ stream' = [stream EXCEPT ![v] = NoStream]
          /\ worker'[v] = self /\ stream'[v] = NoStream
          /\ \A w \in Workers : w # v => worker'[w] = worker[w] /\ stream'[w] = stream[w]
      BY <1>1, <2>2, <3>1 DEF TypeInv, self
    <3>4. NoStream \in StreamType /\ NoStream.bounced = Nobody
      BY DEF NoStream, StreamType, Named
    <3>5. TypeInv' BY <1>1, <1>2, <3>2, <3>3, <3>4 DEF TypeInv
    <3>6. PagesInv'
      <4> SUFFICES ASSUME NEW w \in Workers
                   PROVE  /\ worker'[w].page \in SUBSET DOMAIN history
                          /\ worker'[w].pc \in {"deliver", "ack"} => worker'[w].page # {}
                          /\ worker'[w].pc \in {"load", "look"} => worker'[w].then # "none"
                          /\ worker'[w].pc = "ack" => ResolvedIn(journal, history[Min(worker'[w].page)])
        BY <1>2 DEF PagesInv, At, Item, First
      <4>1. CASE w = v BY <1>1, <3>2, <3>3, <4>1 DEF PagesInv, At, ItemOf
      <4>2. CASE w # v BY <1>1, <3>3, <4>2 DEF PagesInv, At, Item, First
      <4> QED BY <4>1, <4>2
    <3>7. HandlesInv' BY <1>1, <1>2, <3>2, <3>3, <3>4 DEF HandlesInv
    <3> QED BY <3>5, <3>6, <3>7
  <2> QED BY <2>1, <2>2 DEF LeaseExpires
<1>4. LeaseInv' /\ \A w \in Workers : ~Working(w)'
  BY <1>2 DEF LeaseInv, Leased, Working, Owns, Owned
<1>5. AcknowledgedInv' /\ \A n \in DOMAIN journal' : journal'[n].fence <= generation'
  BY <1>2 DEF Inv, AcknowledgedInv
<1> QED
  BY <1>1, <1>2, <1>3, <1>4, <1>5 DEF Inv

\* A grant has a fence that the journal has not seen.
LEMMA AcquireStep ==
  ASSUME Inv, NEW v \in Workers, Acquire(v)
  PROVE  Inv'
<1> DEFINE self == [Idle EXCEPT !.pc = "open", !.fence = generation + 1]
<1>1. TypeInv /\ LeaseInv /\ PagesInv /\ HandlesInv /\ JournalInv(journal) /\ generation \in Nat
  BY DEF Inv, TypeInv
<1>2. /\ UNCHANGED <<history, pending, journal, handle, stream, faults>>
      /\ generation' = generation + 1 /\ live' = TRUE /\ needs' = TRUE
      /\ lease' = [owner |-> v, fence |-> generation + 1] /\ worker[v].pc = "receive"
      /\ worker' = [worker EXCEPT ![v] = self]
  BY DEF Acquire, Grant, At, session
<1>3. Idle \in WorkerType /\ Idle.page = {} /\ Idle.view = NoView /\ Idle.wait = NoWait
  BY DEF Idle, WorkerType, ViewType, WaitType, NoView, NoWait, States, Named
<1>4. /\ self \in WorkerType /\ self.pc = "open" /\ self.fence = generation + 1 /\ self.page = {}
      /\ self.view = NoView /\ self.wait = NoWait
  <2>1. generation + 1 \in Nat BY <1>1
  <2>2. /\ self.pc = "open" /\ self.fence = generation + 1 /\ self.page = {}
        /\ self.view = NoView /\ self.wait = NoWait
    BY <1>3 DEF Idle
  <2>3. self \in WorkerType BY <1>3, <2>1 DEF WorkerType
  <2> QED BY <2>2, <2>3
<1> HIDE DEF self
<1>5. worker'[v] = self /\ \A w \in Workers : w # v => worker'[w] = worker[w]
  BY <1>1, <1>2 DEF TypeInv
<1>6. TypeInv' BY <1>1, <1>2, <1>4 DEF TypeInv
<1>7. LeaseInv' BY <1>2 DEF LeaseInv
<1>8. PagesInv' BY <1>1, <1>2, <1>4, <1>5 DEF PagesInv, At, Item, First
<1>9. HandlesInv' BY <1>1, <1>2, <1>4, <1>5 DEF HandlesInv
<1>10. \A n \in DOMAIN journal : journal[n].fence \in Nat /\ journal[n].fence < generation + 1
  <2>1. \A n \in DOMAIN journal : journal[n] \in FactType /\ journal[n].fence <= generation
    BY <1>1 DEF Inv, TypeInv
  <2>2. \A n \in DOMAIN journal : journal[n].fence \in Nat BY <2>1 DEF FactType
  <2> QED BY <1>1, <2>1, <2>2
<1>11. AcknowledgedInv' BY <1>2 DEF Inv, AcknowledgedInv
<1>12. ASSUME NEW w \in Workers, Working(w)'
       PROVE  OwnerInv(worker'[w], handle'[w], stream'[w], journal', history'[Min(worker'[w].page)])
  <2>1. w = v BY <1>2, <1>12 DEF Working, Owns, Owned
  <2>2. handle[v].state # "closed" BY <1>2, OfWorker DEF NoHandle
  <2>3. Retiring(self, handle[v]) BY <1>4, <2>2 DEF Retiring
  <2>4. NoView.position = 0 /\ NoWait.after = 0 /\ Len(journal) \in Nat
    BY OfWorker DEF NoView, NoWait
  <2>5. ViewInv(self, journal, ItemOf(self)) BY <1>4, <2>4 DEF ViewInv
  <2>6. WaitInv(self, stream[v], journal, ItemOf(self)) BY <1>4, <1>10 DEF WaitInv
  <2> QED BY <1>2, <1>4, <1>5, <2>1, <2>3, <2>5, <2>6 DEF OwnerInv, ItemOf
<1> QED
  BY <1>1, <1>2, <1>6, <1>7, <1>8, <1>9, <1>10, <1>11, <1>12 DEF Inv, Item, First

\* A client's command waits in the mailbox.
LEMMA SubmitStep ==
  ASSUME Inv, NEW c \in Commands, Submits(c)
  PROVE  Inv'
<1>1. TypeInv /\ LeaseInv /\ PagesInv /\ HandlesInv /\ JournalInv(journal) /\ history \in Seq(Commands)
  BY DEF Inv, TypeInv
<1>2. /\ UNCHANGED <<journal, handle, stream, worker, faults, generation, lease, live, needs>>
      /\ history' = Append(history, c) /\ pending' = pending \cup {c}
  BY DEF Submits, Submit, session
<1>3. /\ history' \in Seq(Commands) /\ DOMAIN history \in SUBSET DOMAIN history'
      /\ \A n \in DOMAIN history : history'[n] = history[n]
      /\ \A n \in DOMAIN history' : n \in DOMAIN history \/ history'[n] = c
  BY <1>1, <1>2
<1>4. TypeInv' BY <1>1, <1>2, <1>3 DEF TypeInv
<1>5. LeaseInv' /\ HandlesInv' BY <1>1, <1>2 DEF LeaseInv, Leased, HandlesInv
<1>6. ASSUME NEW w \in Workers, worker[w].pc \in {"deliver", "ack"}
      PROVE  history'[Min(worker[w].page)] = Item(w)
  BY <1>3, <1>6, ItemIs DEF Item, First
<1>7. PagesInv' BY <1>1, <1>2, <1>3, <1>6 DEF PagesInv, At, Item, First
<1>8. AcknowledgedInv' BY <1>2, <1>3 DEF Inv, AcknowledgedInv
<1>9. ASSUME NEW w \in Workers, Working(w)'
      PROVE  OwnerInv(worker'[w], handle'[w], stream'[w], journal', history'[Min(worker'[w].page)])
  <2>1. Working(w) BY <1>2, <1>9 DEF Working, Owns, Owned
  <2>2. OwnerInv(worker[w], handle[w], stream[w], journal, Item(w)) BY <2>1, OfWorker
  <2>3. OwnerInv(worker[w], handle[w], stream[w], journal, history'[Min(worker[w].page)])
    BY <1>6, <2>2, ItemMatters
  <2> QED BY <1>2, <2>3
<1> QED
  BY <1>1, <1>2, <1>4, <1>5, <1>7, <1>8, <1>9 DEF Inv, Item, First

-----------------------------------------------------------------------------
(***************************************************************************)
(* The theorems.                                                           *)
(***************************************************************************)
\* A store begins without commands, leases and entries.
LEMMA InitInv == Init => Inv
<1> SUFFICES ASSUME Init PROVE Inv
  OBVIOUS
<1>1. Idle \in WorkerType /\ NoHandle \in HandleType /\ NoStream \in StreamType
  BY DEF Idle, WorkerType, ViewType, WaitType, NoView, NoWait, States, Named,
         NoHandle, HandleType, NoStream, StreamType
<1>2. Idle.page = {} /\ Idle.pc = "receive" /\ NoHandle.by = Nobody /\ NoStream.bounced = Nobody
  BY DEF Idle, NoHandle, NoStream
<1>3. /\ history = <<>> /\ pending = {} /\ generation = 0 /\ lease = NoLease /\ live = FALSE /\ needs = FALSE
      /\ journal = <<>> /\ faults = 0 /\ worker = [w \in Workers |-> Idle]
      /\ handle = [w \in Workers |-> NoHandle] /\ stream = [w \in Workers |-> NoStream]
  BY DEF Init, MailboxInit
<1>4. TypeInv
  <2>1. history \in Seq(Commands) /\ journal \in Seq(FactType) BY <1>3
  <2>2. lease \in [owner : Workers \cup {Nobody}, fence : Nat] BY <1>3 DEF NoLease
  <2>3. worker \in [Workers -> WorkerType] /\ handle \in [Workers -> HandleType]
        /\ stream \in [Workers -> StreamType]
    BY <1>1, <1>3
  <2> HIDE DEF TypeInv
  <2> QED BY <1>3, <2>1, <2>2, <2>3 DEF TypeInv
<1>5. LeaseInv /\ PagesInv /\ HandlesInv
  BY <1>2, <1>3 DEF LeaseInv, Leased, PagesInv, HandlesInv, At
<1>6. JournalInv(journal) /\ ~Unfinished(journal) /\ AcknowledgedInv
  BY <1>3 DEF JournalInv, Fenced, OncePerCommand, FactsInv, EndsFollow, EndsOnce, Unfinished, Shut, AcknowledgedInv
<1>7. \A w \in Workers : ~Working(w) BY <1>3 DEF Working, Owns, Owned
<1> QED
  BY <1>3, <1>4, <1>5, <1>6, <1>7 DEF Inv

\* Every action of Next preserves the inductive invariant.
LEMMA StepInv == Inv /\ [Next]_vars => Inv'
<1> SUFFICES ASSUME Inv, [Next]_vars PROVE Inv'
  OBVIOUS
<1>1. ASSUME NEW v \in Workers, Drives(v) PROVE Inv'
  BY <1>1, OpenStep, LoadStep, LookStep, PendingStep, DeliverStep, AckStep, TickStep,
     ObserveStep, CloseAndReleaseStep, BreaksStep DEF Drives
<1>2. ASSUME NEW v \in Workers, Session(v) \/ RunSuspends(v) \/ RunBounces(v) \/ RunBreaks(v) PROVE Inv'
  BY <1>2, RunWritesStep, RunFailsStep DEF Session
<1>3. ASSUME NEW v \in Workers, Acquire(v) \/ Breaks(v) \/ ReplyLost(v) PROVE Inv'
  BY <1>3, AcquireStep, BreaksStep, DeliverStep
<1>4. CASE LeaseExpires BY <1>4, ExpireStep
<1>5. ASSUME NEW c \in Commands, Submits(c) PROVE Inv' BY <1>5, SubmitStep
<1>6. CASE UNCHANGED vars
  <2>1. UNCHANGED <<history, pending, generation, lease, live, needs, journal, worker, handle, stream, faults>>
    BY <1>6 DEF vars, mailbox
  <2> QED BY <2>1 DEF Inv, TypeInv, LeaseInv, Leased, PagesInv, HandlesInv, AcknowledgedInv,
                      Working, Owns, Owned, At, Item, First
<1> QED
  BY <1>1, <1>2, <1>3, <1>4, <1>5, <1>6 DEF Next

\* The inductive invariant holds of every state of the workers.
LEMMA Invariant == Spec => []Inv
  BY InitInv, StepInv, PTL DEF Spec

\* The fences of the journal never go back: an entry is written in the step that
\* checks the grant (store.Authority), and a later grant has a later fence.
THEOREM OneWriterAtATime == Spec => []OneWriter
<1>1. Inv => OneWriter BY DEF Inv, JournalInv, Fenced, OneWriter
<1> QED
  BY <1>1, Invariant, PTL

\* A command is resolved once, and before it leaves the mailbox, whichever
\* workers deliver it and whatever they lose (deliver, Acknowledge).
THEOREM ResolvedByOne == Spec => []ResolvesOnce
<1>1. Inv => ResolvesOnce
  <2> SUFFICES ASSUME Inv PROVE ResolvesOnce
    OBVIOUS
  <2>1. ASSUME NEW c \in Commands PROVE Cardinality(Resolutions(c)) <= 1
    <3>1. \A m, n \in Resolutions(c) : m = n
      BY DEF Inv, JournalInv, OncePerCommand, Resolves, Resolutions
    <3>2. CASE Resolutions(c) = {} BY <3>2, FS_EmptySet
    <3>3. ASSUME NEW n \in Resolutions(c) PROVE Cardinality(Resolutions(c)) <= 1
      <4>1. Resolutions(c) = {n} BY <3>1
      <4>2. Cardinality({n}) = 1 BY FS_Singleton
      <4> QED BY <4>1, <4>2
    <3> QED BY <3>2, <3>3
  <2>2. AcknowledgedIsResolved BY ResolvedIs DEF Inv
  <2> QED BY <2>1, <2>2 DEF ResolvesOnce, ResolvedOnce
<1> QED
  BY <1>1, Invariant, PTL

\* An open run is marked for the next worker, and one that retires has seen the
\* end of every run that it set going (quiescent, observe, Release).
THEOREM WorkStaysFound == Spec => []WorkIsFound
<1>1. Inv => WorkIsFound
  <2> SUFFICES ASSUME Inv PROVE WorkIsFound
    OBVIOUS
  <2>0. journal \in Seq(FactType) /\ JournalInv(journal) BY DEF Inv, TypeInv
  <2>1. UnfinishedIsDiscoverable
    <3>1. DurableState = "running" <=> Unfinished(journal)
      BY <2>0, DurableStateIs, WorkerAssumption DEF JournalInv
    <3> QED BY <3>1 DEF Inv, UnfinishedIsDiscoverable
  <2>2. RetiredHasSeenEnds
    <3> SUFFICES ASSUME NEW w \in Workers, NEW n \in Ends, At(w, "close"), Owns(w), SetGoing(w, n),
                        \A m \in DOMAIN journal : journal[m].kind = "accepted" => Kind[journal[m].command] # "resolve",
                        Unseen(w, n)
                 PROVE  FALSE
      BY DEF RetiredHasSeenEnds
    <3>0. n \in DOMAIN journal /\ IsEnd(journal[n]) /\ DOMAIN journal = 1..Len(journal) /\ Len(journal) \in Nat
      BY <2>0 DEF Ends, IsEnd
    <3>1. NoResolve(journal) /\ Working(w) BY DEF NoResolve, Working, At
    <3>2. /\ OwnerInv(worker[w], handle[w], stream[w], journal, Item(w))
          /\ stream[w].next \in Nat
      BY <3>1, OfWorker DEF StreamType
    <3>3. worker[w].wait.run = Nobody BY <3>2 DEF OwnerInv, Retiring, At, NoWait
    \* the run that was opened last before this end, by this worker
    <3>4. PICK a \in 1..(n - 1) : /\ Opens(journal[a]) /\ journal[a].command = journal[n].run
                                  /\ \A i \in (a + 1)..(n - 1) : ~Opens(journal[i])
      BY <2>0, <3>0 DEF JournalInv, EndsFollow
    <3>5. a \in DOMAIN journal /\ a < n BY <3>0, <3>4
    <3>6. journal[a].fence = worker[w].fence
      <4>1. PICK m \in 1..(n - 1) : /\ journal[m].fence = worker[w].fence /\ journal[m].kind = "accepted"
                                    /\ journal[m].command = journal[n].run
        BY DEF SetGoing
      <4>2. m \in DOMAIN journal BY <3>0
      <4> QED BY <2>0, <3>4, <3>5, <4>1, <4>2 DEF JournalInv, OncePerCommand, Opens, Resolves
    \* the last run opened of all, which is the worker's too
    <3>7. PICK b \in DOMAIN journal : /\ Opens(journal[b]) /\ a <= b
                                      /\ \A i \in DOMAIN journal : i > b => ~Opens(journal[i])
      <4> DEFINE I == {i \in 1..Len(journal) : Opens(journal[i])}
      <4>1. I \in SUBSET (1..Len(journal)) /\ a \in I BY <3>0, <3>4, <3>5
      <4> HIDE DEF I
      <4>2. Max(I) \in I /\ \A i \in I : i <= Max(I) BY <3>0, <4>1, LastOf
      <4>3. Max(I) \in DOMAIN journal /\ Opens(journal[Max(I)]) /\ a <= Max(I)
        BY <3>0, <4>1, <4>2 DEF I
      <4>4. \A i \in DOMAIN journal : i > Max(I) => ~Opens(journal[i])
        BY <3>0, <4>2, <4>3 DEF I
      <4> QED BY <4>3, <4>4
    <3>8. journal[b].fence = worker[w].fence
      <4>1. journal[a].fence <= journal[b].fence
        <5>1. \A i \in DOMAIN journal : journal[i] \in FactType BY <2>0
        <5>2. journal[a].fence \in Nat BY <3>5, <5>1 DEF FactType
        <5> QED BY <2>0, <3>0, <3>5, <3>7, <5>2 DEF JournalInv, Fenced
      <4>2. journal[b].fence <= worker[w].fence BY OwnerIsOne DEF Inv
      <4>3. journal[b].fence \in Nat /\ worker[w].fence \in Nat
        <5>1. journal[b] \in FactType /\ worker[w] \in WorkerType BY <2>0, <3>7, OfWorker
        <5> QED BY <5>1 DEF FactType, WorkerType
      <4> QED BY <3>6, <4>1, <4>2, <4>3
    <3>9. journal[b].command # Nobody BY <3>7, WorkerAssumption DEF Opens, Runs
    <3>10. PICK e \in EndsOf(journal, journal[b].command) : e < stream[w].next
      BY <3>1, <3>2, <3>3, <3>7, <3>8, <3>9 DEF OwnerInv, WaitInv, Waiting, HasSeen, At
    <3>11. e \in DOMAIN journal /\ IsEnd(journal[e]) /\ journal[e].run = journal[b].command
      BY DEF EndsOf
    <3>12. e < n BY <3>0, <3>2, <3>10, <3>11 DEF Unseen
    <3>13. PICK i \in 1..(e - 1) : Opens(journal[i]) /\ journal[i].command = journal[b].command
      BY <2>0, <3>11 DEF JournalInv, EndsFollow
    <3>14. i = b /\ b < e
      <4>1. i \in DOMAIN journal /\ i < e BY <3>0, <3>11, <3>13
      <4> QED BY <2>0, <3>7, <3>13, <4>1 DEF JournalInv, OncePerCommand, Opens, Resolves
    <3>15. a = b BY <3>0, <3>4, <3>5, <3>7, <3>11, <3>12, <3>14
    <3>16. e = n BY <2>0, <3>0, <3>1, <3>4, <3>11, <3>15 DEF JournalInv, EndsOnce
    <3> QED BY <3>0, <3>12, <3>16
  <2> QED BY <2>1, <2>2 DEF WorkIsFound
<1> QED
  BY <1>1, Invariant, PTL
=============================================================================

---------------------------- MODULE LoopViewProofs ----------------------------
(***************************************************************************)
(* What is proved of LoopView for every set of callers and commands.       *)
(***************************************************************************)
EXTENDS LoopView, FiniteSetTheorems, WellFoundedInduction, TLAPS

\* A nonempty set of positions has a last one.
LEMMA LastPosition ==
  ASSUME NEW n \in Nat, NEW I \in SUBSET (1..n), I # {}
  PROVE  Max(I) \in I /\ \A i \in I : i <= Max(I)
<1> DEFINE R == OpToRel(<, Nat)
           J == {n - i : i \in I}
<1>1. J \subseteq Nat /\ J # {}
  <2>1. PICK i \in I : TRUE
    OBVIOUS
  <2>2. n - i \in J BY <2>1
  <2>3. \A k \in I : n - k \in Nat
    OBVIOUS
  <2> QED BY <2>2, <2>3
<1>2. IsWellFoundedOn(R, Nat) BY NatLessThanWellFounded
<1>3. PICK j \in J : \A k \in J : ~(<<k, j>> \in R)
  <2> HIDE DEF R, J
  <2> QED BY <1>1, <1>2, WFMin
<1>4. \A k \in J : ~(k < j) BY <1>1, <1>3 DEF OpToRel
<1>5. PICK m \in I : j = n - m BY <1>3
<1>6. \A i \in I : m >= i
  <2> TAKE i \in I
  <2>1. n - i \in J
    OBVIOUS
  <2>2. ~(n - i < n - m) BY <1>4, <1>5, <2>1
  <2> QED BY <2>2
<1>7. Max(I) \in I /\ \A i \in I : Max(I) >= i BY <1>6 DEF Max
<1> QED
  BY <1>7
-----------------------------------------------------------------------------
(***************************************************************************)
(* The inductive invariant.                                                *)
(***************************************************************************)
CommandKinds == {"start", "steer", "next_turn", "resolve", "interrupt"}
EntryType ==
  [kind : CommandKinds \cup {"rejected", "suspended", "settled"},
   command : Commands \cup {NoCommand}, run : Nat]
ReceiptType == [outcome : {"none", "accepted", "rejected"}, position : Nat, run : Nat]
CallerType ==
  [pc : {"idle", "claim", "accept", "cursor", "remember"},
   mode : {"none", "dispatch", "reject"},
   command : Commands \cup {NoCommand}, receipt : ReceiptType]

TypeInv ==
  /\ journal \in Seq(EntryType)
  /\ state \in {"idle", "running", "interrupting", "suspended", "faulted", "closed"}
  /\ run \in Nat /\ drives \in SUBSET Nat
  /\ idem \in [Keys -> [digest : Nat, receipt : ReceiptType]]
  /\ claims \in [Keys -> Callers \cup {Free}]
  /\ caller \in [Callers -> CallerType]
  /\ closer \in {"open", "locking", "settling", "joining", "given_up", "closed"}
  /\ \A c \in Callers : caller[c].pc # "idle" => caller[c].command \in Commands

\* A caller that may append, or has appended and not yet answered, holds the
\* claim of its key, and nobody knows a key that is about to be accepted.
Holding == {"accept", "cursor", "remember"}
ClaimsHeld ==
  \A c \in Callers :
    /\ caller[c].pc \in Holding => claims[caller[c].command.key] = c
    /\ caller[c].pc = "accept" => idem[caller[c].command.key] = NoIdem

\* Positions of the acceptances of a key, and the runs a journal opened.
AcceptancesIn(j, k) == {n \in DOMAIN j : j[n].command # NoCommand /\ j[n].command.key = k}
OpenedIn(j) == Cardinality({n \in DOMAIN j : j[n].kind = "start"})

\* While the view can append, a key that the journal has is known, or its
\* acceptor is on the way to remember it. (A failed append breaks this: that is
\* why it makes the view unavailable.)
AcceptancesKnown ==
  state \notin {"closed", "faulted"} =>
    \A k \in Keys : AcceptancesIn(journal, k) # {} =>
      \/ idem[k] # NoIdem
      \/ \E c \in Callers : caller[c].pc \in {"cursor", "remember"} /\ caller[c].command.key = k

OnePerKey(j) ==
  \A m, n \in DOMAIN j :
    /\ j[m].command # NoCommand /\ j[n].command # NoCommand
    /\ j[m].command.key = j[n].command.key
    => m = n

\* A receipt that stands for an entry of the journal.
Backed(j, receipt, key, digest) ==
  \E n \in AcceptancesIn(j, key) :
    /\ j[n].command.digest = digest
    /\ receipt.outcome = IF j[n].kind = "rejected" THEN "rejected" ELSE "accepted"
    /\ receipt.run = j[n].run
    /\ n <= receipt.position
    /\ j[n].kind # "interrupt" => receipt.position = n

\* A caller has a receipt once it appended, and once it was answered with one.
HasReceipt(self) ==
  \/ self.pc \in {"cursor", "remember"}
  \/ self.pc = "idle" /\ self.receipt.outcome # "none"

ReceiptsBacked ==
  /\ \A k \in Keys : idem[k] # NoIdem => Backed(journal, idem[k].receipt, k, idem[k].digest)
  /\ \A c \in Callers : HasReceipt(caller[c]) =>
       Backed(journal, caller[c].receipt, caller[c].command.key, caller[c].command.digest)
  /\ \A c \in Callers : caller[c].pc = "cursor" =>
       \A n \in AcceptancesIn(journal, caller[c].command.key) : journal[n].kind = "interrupt"

\* Runs are numbered as they are opened, so that a run that settled is older
\* than every run opened later.
Numbered(j) ==
  /\ \A n \in DOMAIN j :
       /\ j[n].kind = "start" => j[n].run \in 1..OpenedIn(j)
       /\ j[n].kind = "settled" => j[n].run <= OpenedIn(j)
  /\ \A n \in DOMAIN j : j[n].kind = "start" =>
       \A m \in 1..(n - 1) : j[m].kind = "settled" => j[m].run < j[n].run

\* A run that was started and has not settled.
OpenIn(j, of) ==
  /\ \E m \in DOMAIN j : j[m].kind = "start" /\ j[m].run = of
  /\ \A m \in DOMAIN j : ~(j[m].kind = "settled" /\ j[m].run = of)

RunIsOpen == state \in {"running", "interrupting", "suspended"} => OpenIn(journal, run)

TargetsOpen(j) ==
  \A n \in DOMAIN j : j[n].kind \in Targeted =>
    /\ j[n].run = j[n].command.target
    /\ \E m \in 1..(n - 1) : j[m].kind = "start" /\ j[m].run = j[n].run
    /\ \A m \in 1..(n - 1) : ~(j[m].kind = "settled" /\ j[m].run = j[n].run)

Ledger(j) == OnePerKey(j) /\ Numbered(j) /\ TargetsOpen(j)

\* Nobody is inside once Close has the lock, and the drives are joined in the end.
ClosedIsQuiet ==
  /\ closer \notin {"open", "locking"} => Excluded
  /\ closer = "closed" => drives = {}

Inv ==
  /\ TypeInv /\ ClaimsHeld /\ AcceptancesKnown /\ ReceiptsBacked
  /\ Ledger(journal) /\ RunIsOpen /\ ClosedIsQuiet

-----------------------------------------------------------------------------
(***************************************************************************)
(* An entry more in the journal.                                           *)
(***************************************************************************)
\* What an append leaves of the journal and where the new entry is.
LEMMA Appended ==
  ASSUME NEW j \in Seq(EntryType), NEW e \in EntryType
  PROVE  /\ Append(j, e) \in Seq(EntryType)
         /\ Len(j) \in Nat /\ DOMAIN j = 1..Len(j)
         /\ DOMAIN Append(j, e) = 1..(Len(j) + 1) /\ Len(Append(j, e)) = Len(j) + 1
         /\ \A n \in 1..Len(j) : Append(j, e)[n] = j[n]
         /\ Append(j, e)[Len(j) + 1] = e
OBVIOUS

\* The number of a journal's runs is a number, and grows by one with a start.
LEMMA OpenedType ==
  ASSUME NEW j \in Seq(EntryType)
  PROVE  OpenedIn(j) \in Nat
<1>1. DOMAIN j = 1..Len(j) /\ Len(j) \in Nat
  OBVIOUS
<1> DEFINE S == {n \in DOMAIN j : j[n].kind = "start"}
<1>2. IsFiniteSet(DOMAIN j) /\ S \in SUBSET DOMAIN j BY <1>1, FS_Interval
<1>3. IsFiniteSet(S)
  <2> HIDE DEF S
  <2> QED BY <1>2, FS_Subset
<1> QED
  BY <1>3, FS_CardinalityType DEF OpenedIn

\* Openings are counted by the starts of the journal: no other entry changes it.
LEMMA AppendedOpened ==
  ASSUME NEW j \in Seq(EntryType), NEW e \in EntryType
  PROVE  OpenedIn(Append(j, e)) = IF e.kind = "start" THEN OpenedIn(j) + 1 ELSE OpenedIn(j)
<1> DEFINE S(k) == {n \in DOMAIN k : k[n].kind = "start"}
<1>1. DOMAIN j = 1..Len(j) /\ Len(j) \in Nat
  OBVIOUS
<1>2. IsFiniteSet(S(j))
  <2>1. IsFiniteSet(DOMAIN j) /\ S(j) \in SUBSET DOMAIN j BY <1>1, FS_Interval
  <2> HIDE DEF S
  <2> QED BY <2>1, FS_Subset
<1>3. S(Append(j, e)) = IF e.kind = "start" THEN S(j) \cup {Len(j) + 1} ELSE S(j)
  BY Appended
<1>4. Len(j) + 1 \notin S(j) BY <1>1
<1> QED
  BY <1>2, <1>3, <1>4, FS_AddElement DEF OpenedIn

\* A new key makes no second acceptance (claimIdempotencyKey).
LEMMA AppendedOnePerKey ==
  ASSUME NEW j \in Seq(EntryType), NEW e \in EntryType, OnePerKey(j),
         e.command # NoCommand => AcceptancesIn(j, e.command.key) = {}
  PROVE  OnePerKey(Append(j, e))
BY Appended DEF OnePerKey, AcceptancesIn

\* A start takes the next number, and only a run that was opened settles.
LEMMA AppendedNumbered ==
  ASSUME NEW j \in Seq(EntryType), NEW e \in EntryType, Numbered(j),
         e.kind = "start" => e.run = OpenedIn(j) + 1,
         e.kind = "settled" => e.run <= OpenedIn(j)
  PROVE  Numbered(Append(j, e))
<1> DEFINE k == Append(j, e)
<1>1. OpenedIn(j) \in Nat /\ OpenedIn(k) \in Nat /\ OpenedIn(j) <= OpenedIn(k)
      /\ (e.kind = "start" => OpenedIn(k) = OpenedIn(j) + 1)
  <2>1. OpenedIn(j) \in Nat BY OpenedType
  <2>2. OpenedIn(k) = IF e.kind = "start" THEN OpenedIn(j) + 1 ELSE OpenedIn(j)
    BY AppendedOpened
  <2> QED BY <2>1, <2>2
<1>2. \A n \in DOMAIN j : j[n].run \in Nat
  <2>1. \A n \in DOMAIN j : j[n] \in EntryType
    OBVIOUS
  <2> QED BY <2>1 DEF EntryType
<1>3. /\ Len(j) \in Nat /\ DOMAIN j = 1..Len(j) /\ DOMAIN k = 1..(Len(j) + 1)
      /\ \A n \in 1..Len(j) : k[n] = j[n]
      /\ k[Len(j) + 1] = e
  BY Appended
<1>4. e.run \in Nat BY DEF EntryType
<1> HIDE DEF k
<1>5. ASSUME NEW n \in DOMAIN k
      PROVE  /\ k[n].kind = "start" => k[n].run \in 1..OpenedIn(k)
             /\ k[n].kind = "settled" => k[n].run <= OpenedIn(k)
  <2>1. CASE n \in DOMAIN j BY <2>1, <1>1, <1>2, <1>3 DEF Numbered
  <2>2. CASE n = Len(j) + 1 BY <2>2, <1>1, <1>3, <1>4
  <2> QED BY <2>1, <2>2, <1>3
<1>6. ASSUME NEW n \in DOMAIN k, k[n].kind = "start", NEW m \in 1..(n - 1), k[m].kind = "settled"
      PROVE  k[m].run < k[n].run
  <2>1. CASE n \in DOMAIN j BY <2>1, <1>3, <1>6 DEF Numbered
  <2>2. CASE n = Len(j) + 1
    <3>1. m \in DOMAIN j BY <2>2, <1>3
    <3> QED BY <2>2, <3>1, <1>1, <1>2, <1>3, <1>6 DEF Numbered
  <2> QED BY <2>1, <2>2, <1>3
<1> QED
  BY <1>5, <1>6 DEF Numbered, k

\* A command for a run is appended while that run is open.
LEMMA AppendedTargets ==
  ASSUME NEW j \in Seq(EntryType), NEW e \in EntryType, TargetsOpen(j),
         e.kind \in Targeted => e.run = e.command.target /\ OpenIn(j, e.run)
  PROVE  TargetsOpen(Append(j, e))
<1> DEFINE k == Append(j, e)
<1>1. /\ Len(j) \in Nat /\ DOMAIN j = 1..Len(j) /\ DOMAIN k = 1..(Len(j) + 1)
      /\ \A n \in 1..Len(j) : k[n] = j[n]
      /\ k[Len(j) + 1] = e
  BY Appended
<1> HIDE DEF k
<1> SUFFICES ASSUME NEW n \in DOMAIN k, k[n].kind \in Targeted
             PROVE  /\ k[n].run = k[n].command.target
                    /\ \E m \in 1..(n - 1) : k[m].kind = "start" /\ k[m].run = k[n].run
                    /\ \A m \in 1..(n - 1) : ~(k[m].kind = "settled" /\ k[m].run = k[n].run)
  BY DEF TargetsOpen, k
<1>2. CASE n \in DOMAIN j
  <2>1. \A m \in 1..(n - 1) : k[m] = j[m] BY <1>1, <1>2
  <2> QED BY <1>1, <1>2, <2>1 DEF TargetsOpen
<1>3. CASE n = Len(j) + 1
  <2>1. 1..(n - 1) = DOMAIN j /\ k[n] = e BY <1>1, <1>3
  <2> QED BY <1>1, <2>1 DEF OpenIn
<1> QED
  BY <1>1, <1>2, <1>3

\* Receipts outlive an append.
LEMMA AppendedBacked ==
  ASSUME NEW j \in Seq(EntryType), NEW e \in EntryType, NEW receipt, NEW key, NEW digest,
         Backed(j, receipt, key, digest)
  PROVE  Backed(Append(j, e), receipt, key, digest)
<1>1. /\ Len(j) \in Nat /\ DOMAIN j = 1..Len(j) /\ DOMAIN Append(j, e) = 1..(Len(j) + 1)
      /\ \A n \in 1..Len(j) : Append(j, e)[n] = j[n]
  BY Appended
<1>2. \A n \in AcceptancesIn(j, key) : n \in AcceptancesIn(Append(j, e), key) /\ Append(j, e)[n] = j[n]
  BY <1>1 DEF AcceptancesIn
<1> QED
  BY <1>2 DEF Backed

\* A run stays open until it settles.
LEMMA AppendedOpen ==
  ASSUME NEW j \in Seq(EntryType), NEW e \in EntryType, NEW of, OpenIn(j, of),
         ~(e.kind = "settled" /\ e.run = of)
  PROVE  OpenIn(Append(j, e), of)
<1>1. /\ Len(j) \in Nat /\ DOMAIN j = 1..Len(j) /\ DOMAIN Append(j, e) = 1..(Len(j) + 1)
      /\ \A n \in 1..Len(j) : Append(j, e)[n] = j[n]
      /\ Append(j, e)[Len(j) + 1] = e
  BY Appended
<1> QED
  BY <1>1 DEF OpenIn

\* What an append adds to the acceptances of a key.
LEMMA AppendedAcceptances ==
  ASSUME NEW j \in Seq(EntryType), NEW e \in EntryType, NEW key
  PROVE  AcceptancesIn(Append(j, e), key) =
           IF e.command # NoCommand /\ e.command.key = key
           THEN AcceptancesIn(j, key) \cup {Len(j) + 1} ELSE AcceptancesIn(j, key)
<1>1. /\ Len(j) \in Nat /\ DOMAIN j = 1..Len(j) /\ DOMAIN Append(j, e) = 1..(Len(j) + 1)
      /\ \A n \in 1..Len(j) : Append(j, e)[n] = j[n]
      /\ Append(j, e)[Len(j) + 1] = e
  BY Appended
<1> QED
  BY <1>1 DEF AcceptancesIn

-----------------------------------------------------------------------------
(***************************************************************************)
(* Steps of callers that append nothing.                                   *)
(***************************************************************************)
\* A command has a key of the view, and is not the absence of one.
LEMMA CommandKey ==
  ASSUME NEW command \in Commands
  PROVE  /\ command.key \in Keys /\ command # NoCommand /\ command.digest \in Nat
         /\ command.kind \in CommandKinds /\ command.target \in Nat
BY ViewAssumption DEF Keys, NoCommand, CommandKinds

\* A caller outside of the view has a record like any other.
LEMMA IdleType == IdleCaller \in CallerType
BY DEF IdleCaller, CallerType, ReceiptType, NoReceipt

\* An answer without a receipt, to a caller that is not inside.
LEMMA RefusedStep ==
  ASSUME Inv, NEW c \in Callers, Refused(c),
         caller[c].pc \notin {"cursor", "remember"},
         UNCHANGED <<inner, idem, closer, reopens>>,
         \/ UNCHANGED claims
         \/ caller[c].pc = "accept" /\ Unclaim(c)
  PROVE  Inv'
<1> USE DEF Inv
<1>1. /\ caller'[c] = IdleCaller
      /\ \A d \in Callers \ {c} : caller'[d] = caller[d]
      /\ caller' \in [Callers -> CallerType]
  BY IdleType DEF Refused, TypeInv
<1>2. TypeInv'
  <2>1. claims' \in [Keys -> Callers \cup {Free}] BY DEF TypeInv, Unclaim
  <2>2. IdleCaller.pc = "idle" BY DEF IdleCaller
  <2>3. \A d \in Callers : caller'[d].pc # "idle" => caller'[d].command \in Commands
    BY <1>1, <2>2 DEF TypeInv
  <2> QED BY <1>1, <2>1, <2>3 DEF TypeInv, inner
<1>3. ClaimsHeld'
  <2> SUFFICES ASSUME NEW d \in Callers, caller'[d].pc \in Holding
               PROVE  /\ claims'[caller'[d].command.key] = d
                      /\ caller'[d].pc = "accept" => idem'[caller'[d].command.key] = NoIdem
    BY DEF ClaimsHeld, Holding
  <2>1. d # c /\ caller'[d] = caller[d] BY <1>1 DEF IdleCaller, Holding
  <2>2. caller[d].command \in Commands BY <2>1 DEF TypeInv, Holding
  <2>3. claims[caller[d].command.key] = d /\ (caller[d].pc = "accept" => idem[caller[d].command.key] = NoIdem)
    BY <2>1 DEF ClaimsHeld
  <2>4. caller[c].pc = "accept" => claims[caller[c].command.key] = c
    BY DEF ClaimsHeld, Holding
  <2>5. claims'[caller[d].command.key] = claims[caller[d].command.key]
    BY <2>1, <2>2, <2>3, <2>4, CommandKey DEF Unclaim, TypeInv
  <2> QED BY <2>1, <2>3, <2>5
<1>4. AcceptancesKnown' BY <1>1 DEF AcceptancesKnown, inner
<1>5. ReceiptsBacked' BY <1>1 DEF ReceiptsBacked, HasReceipt, IdleCaller, NoReceipt, inner
<1>6. Ledger(journal)' /\ RunIsOpen'
  BY DEF Ledger, OnePerKey, Numbered, OpenedIn, TargetsOpen, RunIsOpen, OpenIn, inner
<1>7. ClosedIsQuiet' BY <1>1 DEF ClosedIsQuiet, Excluded, At, IdleCaller, inner
<1> QED
  BY <1>2, <1>3, <1>4, <1>5, <1>6, <1>7

\* An answer from the receipts of the view.
LEMMA ReplayedStep ==
  ASSUME Inv, NEW c \in Callers, NEW command \in Commands, Known(command), Replayed(c, command),
         caller[c].pc \in {"idle", "claim"},
         UNCHANGED <<inner, idem, claims, closer, reopens>>
  PROVE  Inv'
<1> USE DEF Inv
<1> DEFINE told == [IdleCaller EXCEPT !.command = command, !.receipt = idem[command.key].receipt]
<1>1. command.key \in Keys BY CommandKey
<1>2. idem[command.key].receipt \in ReceiptType BY <1>1 DEF TypeInv
<1>3. told \in CallerType BY <1>2 DEF IdleCaller, CallerType
<1>4. /\ \/ caller'[c] = IdleCaller
         \/ caller'[c] = told /\ idem[command.key].digest = command.digest
      /\ \A d \in Callers \ {c} : caller'[d] = caller[d]
      /\ caller' \in [Callers -> CallerType]
  <2>1. caller' = [caller EXCEPT ![c] = IF idem[command.key].digest # command.digest
                                       THEN IdleCaller ELSE told]
    BY DEF Replayed
  <2>2. caller \in [Callers -> CallerType] /\ IdleCaller \in CallerType
    BY IdleType DEF TypeInv
  <2> HIDE DEF told
  <2> QED BY <1>3, <2>1, <2>2
<1>5. /\ IdleCaller.pc = "idle" /\ IdleCaller.receipt.outcome = "none"
      /\ told.pc = "idle" /\ told.command = command /\ told.receipt = idem[command.key].receipt
  BY DEF IdleCaller, NoReceipt
<1> HIDE DEF told
<1>6. caller'[c].pc = "idle" BY <1>4, <1>5
<1>7. TypeInv' BY <1>4, <1>6 DEF TypeInv, inner
<1>8. ClaimsHeld' BY <1>4, <1>6 DEF ClaimsHeld, Holding
<1>9. AcceptancesKnown' BY <1>4, <1>6 DEF AcceptancesKnown, inner
<1>10. ReceiptsBacked'
  <2>1. Backed(journal, idem[command.key].receipt, command.key, idem[command.key].digest)
    BY <1>1 DEF ReceiptsBacked, Known
  <2> QED BY <1>4, <1>5, <1>6, <2>1 DEF ReceiptsBacked, HasReceipt, inner
<1>11. Ledger(journal)' /\ RunIsOpen'
  BY DEF Ledger, OnePerKey, Numbered, OpenedIn, TargetsOpen, RunIsOpen, OpenIn, inner
<1>12. ClosedIsQuiet' BY <1>4, <1>6 DEF ClosedIsQuiet, Excluded, At, inner
<1> QED
  BY <1>7, <1>8, <1>9, <1>10, <1>11, <1>12

\* The look at the receipts (lookupIdempotency) answers or lets the caller in.
LEMMA LookupStep ==
  ASSUME Inv, NEW c \in Callers, NEW command \in Commands, Lookup(c, command)
  PROVE  Inv'
<1>1. CASE Known(command) BY <1>1, ReplayedStep DEF Lookup, At
<1>2. CASE ~Known(command) BY <1>2, RefusedStep DEF Lookup, At
<1> QED
  BY <1>1, <1>2

\* A caller takes the lock shared, unless the view is closed (enter).
LEMMA EnterStep ==
  ASSUME Inv, NEW c \in Callers, NEW mode \in {"dispatch", "reject"}, NEW command \in Commands,
         Enter(c, mode, command)
  PROVE  Inv'
<1> USE DEF Inv
<1> DEFINE entered == [IdleCaller EXCEPT !.pc = "claim", !.mode = mode, !.command = command]
<1>1. entered \in CallerType /\ entered.pc = "claim" /\ entered.command = command
  BY DEF IdleCaller, CallerType, ReceiptType, NoReceipt
<1> HIDE DEF entered
<1>2. /\ caller'[c] = entered /\ caller[c].pc = "idle"
      /\ \A d \in Callers \ {c} : caller'[d] = caller[d]
      /\ caller' \in [Callers -> CallerType]
      /\ closer = "open" /\ UNCHANGED <<inner, idem, claims, closer>>
  BY <1>1 DEF Enter, At, TypeInv, entered
<1>3. TypeInv' BY <1>1, <1>2 DEF TypeInv, inner
<1>4. ClaimsHeld' BY <1>1, <1>2 DEF ClaimsHeld, Holding
<1>5. AcceptancesKnown' BY <1>1, <1>2 DEF AcceptancesKnown, inner
<1>6. ReceiptsBacked' BY <1>1, <1>2 DEF ReceiptsBacked, HasReceipt, inner
<1>7. Ledger(journal)' /\ RunIsOpen'
  BY <1>2 DEF Ledger, OnePerKey, Numbered, OpenedIn, TargetsOpen, RunIsOpen, OpenIn, inner
<1>8. ClosedIsQuiet' BY <1>2 DEF ClosedIsQuiet, inner
<1> QED
  BY <1>3, <1>4, <1>5, <1>6, <1>7, <1>8

\* The claim of a key is taken by one caller, and only if no receipt has it.
LEMMA ClaimStep ==
  ASSUME Inv, NEW c \in Callers, Claim(c)
  PROVE  Inv'
<1> USE DEF Inv
<1> DEFINE command == caller[c].command
<1>1. At(c, "claim") /\ command \in Commands BY DEF Claim, At, TypeInv
<1>2. CASE state = "faulted" BY <1>1, <1>2, RefusedStep DEF Claim, At
<1>3. CASE state # "faulted" /\ Known(command) BY <1>1, <1>3, ReplayedStep DEF Claim, At
<1>4. CASE state # "faulted" /\ ~Known(command)
  <2>1. /\ command.key \in Keys /\ idem[command.key] = NoIdem /\ claims[command.key] = Free
        /\ claims' = [claims EXCEPT ![command.key] = c]
        /\ caller' = [caller EXCEPT ![c].pc = "accept"]
        /\ UNCHANGED <<inner, idem, closer>>
    BY <1>1, <1>4, CommandKey DEF Claim, Claimable, Goes, Known
  <2>2. /\ caller'[c].pc = "accept" /\ caller'[c].command = command
        /\ \A d \in Callers \ {c} : caller'[d] = caller[d]
        /\ caller' \in [Callers -> CallerType]
    <3> DEFINE next == [caller[c] EXCEPT !.pc = "accept"]
    <3>1. caller' = [caller EXCEPT ![c] = next] /\ caller \in [Callers -> CallerType]
      BY <2>1 DEF TypeInv
    <3>2. next \in CallerType /\ next.pc = "accept" /\ next.command = command
      BY <3>1 DEF CallerType
    <3> HIDE DEF next
    <3> QED BY <3>1, <3>2
  <2>3. claims' \in [Keys -> Callers \cup {Free}] /\ claims'[command.key] = c
        /\ \A k \in Keys \ {command.key} : claims'[k] = claims[k]
    BY <2>1 DEF TypeInv
  <2>4. TypeInv' BY <1>1, <2>1, <2>2, <2>3 DEF TypeInv, inner
  <2>5. ClaimsHeld'
    <3> SUFFICES ASSUME NEW d \in Callers, caller'[d].pc \in Holding
                 PROVE  /\ claims'[caller'[d].command.key] = d
                        /\ caller'[d].pc = "accept" => idem'[caller'[d].command.key] = NoIdem
      BY DEF ClaimsHeld, Holding
    <3>1. CASE d = c BY <3>1, <2>1, <2>2, <2>3
    <3>2. CASE d # c
      <4>1. caller'[d] = caller[d] /\ caller[d].command \in Commands
        BY <3>2, <2>2 DEF TypeInv, Holding
      <4>2. claims[caller[d].command.key] = d /\ d # Free
        BY <4>1, ViewAssumption DEF ClaimsHeld, Free
      <4>3. caller[d].command.key # command.key /\ caller[d].command.key \in Keys
        BY <4>1, <4>2, <2>1, CommandKey
      <4> QED BY <4>1, <4>2, <4>3, <2>1, <2>3 DEF ClaimsHeld
    <3> QED BY <3>1, <3>2
  <2>6. AcceptancesKnown' BY <1>1, <2>1, <2>2 DEF AcceptancesKnown, inner, At
  <2>7. ReceiptsBacked' BY <2>1, <2>2 DEF ReceiptsBacked, HasReceipt, inner
  <2>8. Ledger(journal)' /\ RunIsOpen'
    BY <2>1 DEF Ledger, OnePerKey, Numbered, OpenedIn, TargetsOpen, RunIsOpen, OpenIn, inner
  <2>9. ClosedIsQuiet' BY <1>1, <2>1, <2>2 DEF ClosedIsQuiet, Excluded, At, inner
  <2> QED BY <2>4, <2>5, <2>6, <2>7, <2>8, <2>9
<1> QED
  BY <1>2, <1>3, <1>4

\* An interrupt reads the position of its receipt after the append.
LEMMA ReadCursorStep ==
  ASSUME Inv, NEW c \in Callers, ReadCursor(c)
  PROVE  Inv'
<1> USE DEF Inv
<1> DEFINE key == caller[c].command.key
<1>1. Len(journal) \in Nat /\ DOMAIN journal = 1..Len(journal) BY DEF TypeInv
<1>2. /\ caller[c].pc = "cursor" /\ caller'[c].pc = "remember"
      /\ caller'[c].command = caller[c].command
      /\ caller'[c].receipt = [caller[c].receipt EXCEPT !.position = Len(journal)]
      /\ \A d \in Callers \ {c} : caller'[d] = caller[d]
      /\ caller' \in [Callers -> CallerType]
      /\ UNCHANGED <<inner, idem, claims, closer>>
  <2> DEFINE receipt == [caller[c].receipt EXCEPT !.position = Len(journal)]
             next == [caller[c] EXCEPT !.pc = "remember", !.receipt = receipt]
  <2>1. caller' = [caller EXCEPT ![c] = next] /\ caller \in [Callers -> CallerType]
    BY DEF ReadCursor, TypeInv
  <2>2. receipt \in ReceiptType
    <3>1. caller[c].receipt \in ReceiptType BY <2>1 DEF CallerType
    <3> QED BY <1>1, <3>1 DEF ReceiptType
  <2>3. /\ next \in CallerType /\ next.pc = "remember"
        /\ next.command = caller[c].command /\ next.receipt = receipt
    <3> HIDE DEF receipt
    <3> QED BY <2>1, <2>2 DEF CallerType
  <2> HIDE DEF next
  <2> QED BY <2>1, <2>3 DEF ReadCursor, At
<1>3. /\ caller'[c].receipt.outcome = caller[c].receipt.outcome
      /\ caller'[c].receipt.run = caller[c].receipt.run
      /\ caller'[c].receipt.position = Len(journal)
  BY <1>2 DEF TypeInv, CallerType, ReceiptType
<1>4. TypeInv' BY <1>2 DEF TypeInv, inner
<1>5. ClaimsHeld' BY <1>2 DEF ClaimsHeld, Holding
<1>6. AcceptancesKnown' BY <1>2 DEF AcceptancesKnown, inner
<1>7. Backed(journal, caller'[c].receipt, key, caller[c].command.digest)
  <2>1. \A n \in AcceptancesIn(journal, key) : journal[n].kind = "interrupt" /\ n <= Len(journal)
    BY <1>1, <1>2 DEF ReceiptsBacked, AcceptancesIn
  <2>2. Backed(journal, caller[c].receipt, key, caller[c].command.digest)
    BY <1>2 DEF ReceiptsBacked, HasReceipt
  <2> QED BY <1>3, <2>1, <2>2 DEF Backed
<1>8. ReceiptsBacked' BY <1>2, <1>7 DEF ReceiptsBacked, HasReceipt, inner
<1>9. Ledger(journal)' /\ RunIsOpen'
  BY <1>2 DEF Ledger, OnePerKey, Numbered, OpenedIn, TargetsOpen, RunIsOpen, OpenIn, inner
<1>10. ClosedIsQuiet' BY <1>2 DEF ClosedIsQuiet, Excluded, At, inner
<1> QED
  BY <1>4, <1>5, <1>6, <1>8, <1>9, <1>10

\* The receipt gets known as the claim is given back.
LEMMA RememberStep ==
  ASSUME Inv, NEW c \in Callers, Remember(c)
  PROVE  Inv'
<1> USE DEF Inv
<1> DEFINE command == caller[c].command
           known == [digest |-> command.digest, receipt |-> caller[c].receipt]
<1>1. caller[c].pc = "remember" /\ command \in Commands /\ command.key \in Keys
      /\ command.digest \in Nat /\ caller[c].receipt \in ReceiptType
  BY CommandKey DEF Remember, At, TypeInv, CallerType
<1>2. Backed(journal, caller[c].receipt, command.key, command.digest)
  BY <1>1 DEF ReceiptsBacked, HasReceipt
<1>3. known # NoIdem BY <1>2 DEF Backed, NoIdem, NoReceipt
<1>4. /\ caller'[c].pc = "idle" /\ caller'[c].command = command
      /\ caller'[c].receipt = caller[c].receipt
      /\ \A d \in Callers \ {c} : caller'[d] = caller[d]
      /\ caller' \in [Callers -> CallerType]
      /\ UNCHANGED <<inner, closer>>
  BY <1>1 DEF Remember, Goes, TypeInv, CallerType
<1>5. /\ idem' \in [Keys -> [digest : Nat, receipt : ReceiptType]]
      /\ idem'[command.key] = known
      /\ \A k \in Keys \ {command.key} : idem'[k] = idem[k]
  BY <1>1 DEF Remember, TypeInv
<1>6. /\ claims' \in [Keys -> Callers \cup {Free}]
      /\ \A k \in Keys \ {command.key} : claims'[k] = claims[k]
  BY <1>1 DEF Remember, Unclaim, TypeInv
<1>7. TypeInv' BY <1>4, <1>5, <1>6 DEF TypeInv, inner
<1>8. ClaimsHeld'
  <2> SUFFICES ASSUME NEW d \in Callers, caller'[d].pc \in Holding
               PROVE  /\ claims'[caller'[d].command.key] = d
                      /\ caller'[d].pc = "accept" => idem'[caller'[d].command.key] = NoIdem
    BY DEF ClaimsHeld, Holding
  <2>1. d # c /\ caller'[d] = caller[d] /\ caller[d].command \in Commands
    BY <1>4 DEF TypeInv, Holding
  <2>2. claims[caller[d].command.key] = d /\ claims[command.key] = c
    BY <1>1, <2>1 DEF ClaimsHeld, Holding
  <2>3. caller[d].command.key # command.key /\ caller[d].command.key \in Keys
    BY <2>1, <2>2, CommandKey
  <2> QED BY <1>5, <1>6, <2>1, <2>2, <2>3 DEF ClaimsHeld
<1> HIDE DEF known
<1>9. AcceptancesKnown'
  <2> SUFFICES ASSUME state \notin {"closed", "faulted"}, NEW k \in Keys,
                      AcceptancesIn(journal, k) # {}
               PROVE  \/ idem'[k] # NoIdem
                      \/ \E d \in Callers : caller'[d].pc \in {"cursor", "remember"}
                                            /\ caller'[d].command.key = k
    BY <1>4 DEF AcceptancesKnown, inner
  <2>1. CASE k = command.key BY <2>1, <1>3, <1>5
  <2>2. CASE k # command.key BY <2>2, <1>4, <1>5 DEF AcceptancesKnown
  <2> QED BY <2>1, <2>2
<1>10. ReceiptsBacked'
  <2>1. \A k \in Keys : idem'[k] # NoIdem => Backed(journal, idem'[k].receipt, k, idem'[k].digest)
    BY <1>2, <1>5 DEF ReceiptsBacked, known
  <2> QED BY <1>2, <1>4, <2>1 DEF ReceiptsBacked, HasReceipt, inner
<1>11. Ledger(journal)' /\ RunIsOpen'
  BY <1>4 DEF Ledger, OnePerKey, Numbered, OpenedIn, TargetsOpen, RunIsOpen, OpenIn, inner
<1>12. ClosedIsQuiet' BY <1>4 DEF ClosedIsQuiet, Excluded, At, inner
<1> QED
  BY <1>7, <1>8, <1>9, <1>10, <1>11, <1>12

-----------------------------------------------------------------------------
(***************************************************************************)
(* Acceptance.                                                             *)
(***************************************************************************)
\* the run an acceptance is for, and its entry (appendAcceptanceLocked)
Rejects(c) == caller[c].mode = "reject"
RunFor(c) == IF Rejects(c) THEN 0 ELSE RunOf(caller[c].command)
EntryOf(c) ==
  Entry(IF Rejects(c) THEN "rejected" ELSE caller[c].command.kind, caller[c].command, RunFor(c))

\* Whoever is about to accept holds the claim of a key that the journal has not.
LEMMA AcceptingIsFirst ==
  ASSUME Inv, NEW c \in Callers, At(c, "accept"), Commits
  PROVE  /\ caller[c].command \in Commands /\ claims[caller[c].command.key] = c
         /\ idem[caller[c].command.key] = NoIdem
         /\ AcceptancesIn(journal, caller[c].command.key) = {}
<1>1. /\ caller[c].command \in Commands /\ claims[caller[c].command.key] = c
      /\ idem[caller[c].command.key] = NoIdem
  BY DEF At, Inv, TypeInv, ClaimsHeld, Holding
<1>2. caller[c].command.key \in Keys BY <1>1, CommandKey
<1>3. ASSUME AcceptancesIn(journal, caller[c].command.key) # {} PROVE FALSE
  <2>1. PICK d \in Callers : caller[d].pc \in {"cursor", "remember"}
                             /\ caller[d].command.key = caller[c].command.key
    BY <1>1, <1>2, <1>3 DEF Inv, AcceptancesKnown, Commits
  <2>2. d = c BY <1>1, <2>1 DEF Inv, ClaimsHeld, Holding
  <2> QED BY <2>1, <2>2 DEF At
<1> QED
  BY <1>1, <1>3

\* The entry of an acceptance keeps the ledger: its key is new, its run is the
\* one at hand, and a new run gets the next number.
LEMMA EntryKeepsLedger ==
  ASSUME Inv, NEW c \in Callers, At(c, "accept"), Commits,
         Rejects(c) \/ Acceptable(caller[c].command)
  PROVE  /\ EntryOf(c) \in EntryType /\ RunFor(c) \in Nat
         /\ EntryOf(c).kind # "settled" /\ EntryOf(c).command = caller[c].command
         /\ EntryOf(c).run = RunFor(c)
         /\ EntryOf(c).kind = IF Rejects(c) THEN "rejected" ELSE caller[c].command.kind
         /\ Ledger(Append(journal, EntryOf(c)))
<1> DEFINE command == caller[c].command
           e == EntryOf(c)
<1>1. command \in Commands /\ AcceptancesIn(journal, command.key) = {} BY AcceptingIsFirst
<1>2. command.kind \in CommandKinds BY <1>1, CommandKey
<1>3. journal \in Seq(EntryType) /\ run \in Nat /\ Ledger(journal) /\ RunIsOpen
  BY DEF Inv, TypeInv
<1>4. RunsOpened = OpenedIn(journal) /\ OpenedIn(journal) \in Nat
  BY <1>3, OpenedType DEF RunsOpened, OpenedIn
<1>5. RunFor(c) \in Nat BY <1>3, <1>4 DEF RunFor, RunOf
<1>6. /\ e.kind = IF Rejects(c) THEN "rejected" ELSE command.kind
      /\ e.command = command /\ e.run = RunFor(c)
  BY DEF EntryOf, Entry
<1>7. e \in EntryType /\ e.kind # "settled"
  BY <1>1, <1>2, <1>5 DEF EntryOf, Entry, EntryType, CommandKinds
<1>8. e.kind = "start" => e.run = OpenedIn(journal) + 1 BY <1>4, <1>6 DEF RunFor, RunOf
<1>9. ASSUME e.kind \in Targeted
      PROVE  e.run = e.command.target /\ OpenIn(journal, e.run)
  <2>1. ~Rejects(c) /\ command.kind \in Targeted /\ Acceptable(command)
    BY <1>6, <1>9 DEF Targeted
  <2>2. command.target = run /\ RunFor(c) = run
    BY <2>1 DEF Acceptable, RunFor, RunOf, Targeted
  <2>3. state \in {"running", "interrupting", "suspended"}
    BY <2>1 DEF Acceptable, Targeted, Active
  <2> QED BY <1>3, <1>6, <2>2, <2>3 DEF RunIsOpen
<1> HIDE DEF e, command
<1>10. OnePerKey(Append(journal, e)) BY <1>1, <1>3, <1>6, <1>7, AppendedOnePerKey DEF Ledger
<1>11. Numbered(Append(journal, e)) BY <1>3, <1>7, <1>8, AppendedNumbered DEF Ledger
<1>12. TargetsOpen(Append(journal, e)) BY <1>3, <1>7, <1>9, AppendedTargets DEF Ledger
<1> QED
  BY <1>5, <1>6, <1>7, <1>10, <1>11, <1>12 DEF Ledger, e, command

\* Receipts outlive what others append.
LEMMA ReceiptsOutlive ==
  ASSUME Inv, NEW e \in EntryType, journal' = Append(journal, e), idem' = idem,
         NEW c \in Callers,
         \A d \in Callers \ {c} : caller'[d] = caller[d],
         claims[caller[c].command.key] = c, caller[c].pc \in Holding,
         e.command # NoCommand => e.command.key = caller[c].command.key,
         HasReceipt(caller'[c]) =>
           Backed(journal', caller'[c].receipt, caller'[c].command.key, caller'[c].command.digest),
         caller'[c].pc = "cursor" =>
           \A n \in AcceptancesIn(journal', caller'[c].command.key) : journal'[n].kind = "interrupt"
  PROVE  ReceiptsBacked'
<1>1. journal \in Seq(EntryType) /\ DOMAIN journal = 1..Len(journal) BY DEF Inv, TypeInv
<1>2. \A r, k, d : Backed(journal, r, k, d) => Backed(journal', r, k, d)
  BY <1>1, AppendedBacked
<1>3. ASSUME NEW d \in Callers \ {c}, caller[d].pc = "cursor",
             NEW n \in AcceptancesIn(journal', caller[d].command.key)
      PROVE  journal'[n].kind = "interrupt"
  <2>1. claims[caller[d].command.key] = d BY <1>3 DEF Inv, ClaimsHeld, Holding
  <2>2. ~(e.command # NoCommand /\ e.command.key = caller[d].command.key) BY <2>1
  <2>3. n \in AcceptancesIn(journal, caller[d].command.key)
    BY <1>1, <1>3, <2>2, AppendedAcceptances
  <2>4. journal'[n] = journal[n] BY <1>1, <2>3, Appended DEF AcceptancesIn
  <2> QED BY <1>3, <2>3, <2>4 DEF Inv, ReceiptsBacked
<1> QED
  BY <1>2, <1>3, ZenonT(30) DEF Inv, ReceiptsBacked, HasReceipt

\* The append of an acceptance, with what it does to the run at hand.
LEMMA AcceptsStep ==
  ASSUME Inv, NEW c \in Callers, Accepts(c)
  PROVE  Inv'
<1> USE DEF Inv
<1> DEFINE command == caller[c].command
           e == EntryOf(c)
           receipt == [outcome |-> IF Rejects(c) THEN "rejected" ELSE "accepted",
                       position |-> Len(journal'), run |-> RunFor(c)]
           step == IF ~Rejects(c) /\ ReadsCursor(command) THEN "cursor" ELSE "remember"
           next == [caller[c] EXCEPT !.pc = step, !.receipt = receipt]
<1>1. /\ At(c, "accept") /\ Commits /\ (Rejects(c) \/ Acceptable(command))
      /\ journal' = Append(journal, e)
      /\ UNCHANGED <<idem, claims, closer>>
      /\ caller' = [caller EXCEPT ![c] = next]
      /\ Rejects(c) => UNCHANGED <<state, run, drives>>
      /\ ~Rejects(c) =>
           /\ run' = RunFor(c)
           /\ state' = CASE command.kind \in {"start", "resolve"} -> "running"
                         [] command.kind = "interrupt" -> "interrupting"
                         [] OTHER -> state
           /\ drives' = IF command.kind \in {"start", "resolve"} THEN drives \cup {RunFor(c)}
                        ELSE drives
  BY DEF Accepts, Rejects, RunFor, EntryOf
<1>2. /\ command \in Commands /\ claims[command.key] = c /\ idem[command.key] = NoIdem
      /\ AcceptancesIn(journal, command.key) = {}
  BY <1>1, AcceptingIsFirst
<1>3. /\ e \in EntryType /\ RunFor(c) \in Nat
      /\ e.kind # "settled" /\ e.command = command /\ e.run = RunFor(c)
      /\ e.kind = IF Rejects(c) THEN "rejected" ELSE command.kind
      /\ Ledger(Append(journal, e))
  BY <1>1, EntryKeepsLedger
<1>4. /\ journal \in Seq(EntryType) /\ journal' \in Seq(EntryType)
      /\ Len(journal) \in Nat /\ Len(journal') = Len(journal) + 1
      /\ journal'[Len(journal) + 1] = e
  BY <1>1, <1>3, Appended DEF TypeInv
<1>5. receipt \in ReceiptType BY <1>3, <1>4 DEF ReceiptType
<1>6. command \in Commands /\ command.key \in Keys /\ command # NoCommand /\ command.kind \in CommandKinds
  BY <1>2, CommandKey
<1>7. /\ next \in CallerType /\ next.pc = step /\ next.command = command /\ next.receipt = receipt
      /\ step \in {"cursor", "remember"}
  <2>1. caller[c] \in CallerType BY DEF TypeInv
  <2> HIDE DEF receipt
  <2> QED BY <1>5, <2>1 DEF CallerType
<1> HIDE DEF next
<1>8. /\ caller'[c] = next /\ caller' \in [Callers -> CallerType]
      /\ \A d \in Callers \ {c} : caller'[d] = caller[d]
  BY <1>1, <1>7 DEF TypeInv
<1>9. AcceptancesIn(journal', command.key) = {Len(journal) + 1}
  <2> HIDE DEF e, command
  <2> QED BY <1>1, <1>2, <1>3, <1>4, <1>6, AppendedAcceptances
<1>10. TypeInv'
  <2>1. /\ run' \in Nat /\ drives' \in SUBSET Nat
        /\ state' \in {"idle", "running", "interrupting", "suspended", "faulted", "closed"}
    BY <1>1, <1>3, <1>6 DEF TypeInv, CommandKinds
  <2> QED BY <1>1, <1>4, <1>7, <1>8, <1>6, <2>1 DEF TypeInv
<1>11. ClaimsHeld' BY <1>1, <1>2, <1>7, <1>8 DEF ClaimsHeld, Holding
<1>12. AcceptancesKnown'
  <2> SUFFICES ASSUME NEW k \in Keys, AcceptancesIn(journal', k) # {}
               PROVE  \/ idem'[k] # NoIdem
                      \/ \E d \in Callers : caller'[d].pc \in {"cursor", "remember"}
                                            /\ caller'[d].command.key = k
    BY DEF AcceptancesKnown
  <2>1. CASE k = command.key BY <2>1, <1>7, <1>8
  <2>2. CASE k # command.key
    <3>1. AcceptancesIn(journal, k) # {} BY <2>2, <1>1, <1>3, <1>4, AppendedAcceptances
    <3>2. idem[k] # NoIdem \/ \E d \in Callers : caller[d].pc \in {"cursor", "remember"}
                                               /\ caller[d].command.key = k
      BY <3>1, <1>1 DEF AcceptancesKnown, Commits
    <3>3. \A d \in Callers : caller[d].pc \in {"cursor", "remember"} => d # c BY <1>1 DEF At
    <3> QED BY <1>1, <1>8, <3>2, <3>3
  <2> QED BY <2>1, <2>2
<1>13. ReceiptsBacked'
  <2>1. Backed(journal', receipt, command.key, command.digest)
    <3>1. Len(journal) + 1 \in AcceptancesIn(journal', command.key) BY <1>9
    <3>2. /\ receipt.outcome = IF e.kind = "rejected" THEN "rejected" ELSE "accepted"
          /\ receipt.run = e.run /\ receipt.position = Len(journal) + 1
      BY <1>3, <1>4, <1>6 DEF CommandKinds
    <3> HIDE DEF receipt
    <3> QED BY <1>3, <1>4, <3>1, <3>2 DEF Backed
  <2>2. step = "cursor" => e.kind = "interrupt" BY <1>3 DEF ReadsCursor
  <2> HIDE DEF receipt, e, step
  <2>3. caller'[c].pc = "cursor" =>
          \A n \in AcceptancesIn(journal', caller'[c].command.key) : journal'[n].kind = "interrupt"
    BY <1>4, <1>7, <1>8, <1>9, <2>2
  <2> QED
    BY <1>1, <1>2, <1>3, <1>7, <1>8, <2>1, <2>3, ReceiptsOutlive DEF At, Holding
<1>14. RunIsOpen'
  <2> SUFFICES ASSUME state' \in {"running", "interrupting", "suspended"}
               PROVE  OpenIn(journal', run')
    BY DEF RunIsOpen
  <2>1. CASE ~Rejects(c) /\ command.kind = "start"
    <3>1. e.kind = "start" /\ e.run = OpenedIn(journal) + 1 /\ run' = e.run
      BY <1>1, <1>3, <2>1 DEF RunFor, RunOf, RunsOpened, OpenedIn
    <3>2. OpenedIn(journal) \in Nat BY <1>4, OpenedType
    <3>3. ASSUME NEW m \in DOMAIN journal', journal'[m].kind = "settled"
          PROVE  journal'[m].run # run'
      <4>1. m \in DOMAIN journal /\ journal'[m] = journal[m]
        BY <1>1, <1>3, <1>4, <3>3, Appended
      <4>2. journal[m].run <= OpenedIn(journal) BY <3>3, <4>1 DEF Ledger, Numbered
      <4>3. journal[m].run \in Nat
        <5>1. journal[m] \in EntryType BY <1>4, <4>1
        <5> QED BY <5>1 DEF EntryType
      <4> QED BY <3>1, <3>2, <4>1, <4>2, <4>3
    <3>4. Len(journal) + 1 \in DOMAIN journal' BY <1>4
    <3> QED BY <1>4, <3>1, <3>3, <3>4 DEF OpenIn
  <2>2. CASE Rejects(c) \/ command.kind # "start"
    <3>1. run' = run BY <1>1, <2>2 DEF RunFor, RunOf
    <3>2. state \in {"running", "interrupting", "suspended"}
      BY <1>1, <1>6, <2>2 DEF Acceptable, CommandKinds, Active
    <3>3. OpenIn(journal, run) BY <3>2 DEF RunIsOpen
    <3> QED BY <1>1, <1>3, <1>4, <3>1, <3>3, AppendedOpen
  <2> QED BY <2>1, <2>2
<1>15. ClosedIsQuiet'
  <2>1. closer \in {"open", "locking"} BY <1>1 DEF ClosedIsQuiet, Excluded, At, TypeInv
  <2> QED BY <1>1, <2>1 DEF ClosedIsQuiet
<1> QED
  BY <1>1, <1>3, <1>10, <1>11, <1>12, <1>13, <1>14, <1>15

\* A failed append leaves the view unavailable, whether the entry is durable or not.
LEMMA AcceptanceFailsStep ==
  ASSUME Inv, NEW c \in Callers, AcceptanceFails(c)
  PROVE  Inv'
<1> USE DEF Inv
<1> DEFINE e == EntryOf(c)
<1>1. /\ At(c, "accept") /\ Commits /\ (Rejects(c) \/ Acceptable(caller[c].command))
      /\ journal' = journal \/ journal' = Append(journal, e)
      /\ state' = "faulted" /\ Refused(c) /\ Unclaim(c)
      /\ UNCHANGED <<run, drives, idem, closer>>
  BY DEF AcceptanceFails, Rejects, RunFor, EntryOf
<1>2. caller[c].command \in Commands /\ claims[caller[c].command.key] = c
  BY <1>1, AcceptingIsFirst
<1>3. /\ e \in EntryType /\ e.command = caller[c].command
      /\ Ledger(Append(journal, e))
  BY <1>1, EntryKeepsLedger
<1>4. journal' \in Seq(EntryType) /\ Ledger(journal)'
  <2>1. journal \in Seq(EntryType) /\ Ledger(journal) BY DEF TypeInv
  <2>2. Append(journal, e) \in Seq(EntryType) BY <1>3, <2>1, Appended
  <2>3. CASE journal' = journal
    BY <2>1, <2>3 DEF Ledger, OnePerKey, Numbered, OpenedIn, TargetsOpen
  <2>4. CASE journal' = Append(journal, e) BY <1>3, <2>2, <2>4
  <2> QED BY <1>1, <2>3, <2>4
<1>5. /\ caller'[c] = IdleCaller /\ IdleCaller.pc = "idle" /\ IdleCaller.receipt.outcome = "none"
      /\ \A d \in Callers \ {c} : caller'[d] = caller[d]
      /\ caller' \in [Callers -> CallerType]
  BY <1>1, IdleType DEF Refused, TypeInv, IdleCaller, NoReceipt
<1>6. claims' \in [Keys -> Callers \cup {Free}] BY <1>1 DEF TypeInv, Unclaim
<1>7. TypeInv' BY <1>1, <1>4, <1>5, <1>6 DEF TypeInv
<1>8. ClaimsHeld'
  <2> SUFFICES ASSUME NEW d \in Callers, caller'[d].pc \in Holding
               PROVE  /\ claims'[caller'[d].command.key] = d
                      /\ caller'[d].pc = "accept" => idem'[caller'[d].command.key] = NoIdem
    BY DEF ClaimsHeld, Holding
  <2>1. d # c /\ caller'[d] = caller[d] /\ caller[d].command \in Commands
    BY <1>5 DEF TypeInv, Holding
  <2>2. claims[caller[d].command.key] = d BY <2>1 DEF ClaimsHeld
  <2>3. caller[d].command.key # caller[c].command.key /\ caller[d].command.key \in Keys
    BY <1>2, <2>1, <2>2, CommandKey
  <2>4. claims'[caller[d].command.key] = claims[caller[d].command.key]
    BY <1>1, <2>3 DEF Unclaim, TypeInv
  <2> QED BY <1>1, <2>1, <2>2, <2>4 DEF ClaimsHeld
<1>9. AcceptancesKnown' /\ RunIsOpen' BY <1>1 DEF AcceptancesKnown, RunIsOpen
<1>10. ReceiptsBacked'
  <2>1. CASE journal' = journal BY <1>1, <1>5, <2>1 DEF ReceiptsBacked, HasReceipt
  <2>2. CASE journal' = Append(journal, e)
    <3>1. ~HasReceipt(caller'[c]) /\ caller'[c].pc # "cursor" /\ caller[c].pc \in Holding
      BY <1>1, <1>5 DEF HasReceipt, At, Holding
    <3> HIDE DEF e
    <3> QED BY <1>1, <1>2, <1>3, <1>5, <2>2, <3>1, ReceiptsOutlive
  <2> QED BY <1>1, <2>1, <2>2
<1>11. ClosedIsQuiet'
  <2>1. closer \in {"open", "locking"} BY <1>1 DEF ClosedIsQuiet, Excluded, At, TypeInv
  <2> QED BY <1>1, <2>1 DEF ClosedIsQuiet
<1> QED
  BY <1>4, <1>7, <1>8, <1>9, <1>10, <1>11

-----------------------------------------------------------------------------
(***************************************************************************)
(* Runs and their drives.                                                  *)
(***************************************************************************)
\* A run that ends writes no command; only the run at hand settles.
LEMMA RunEndsStep ==
  ASSUME Inv, NEW how \in {"suspended", "settled"}, RunEnds(how)
  PROVE  Inv'
<1> USE DEF Inv
<1> DEFINE e == Entry(how, NoCommand, run)
<1>1. /\ state \in Active /\ journal' = Append(journal, e)
      /\ state' = IF how = "suspended" THEN "suspended" ELSE "idle"
      /\ run' = IF how = "suspended" THEN run ELSE 0
      /\ UNCHANGED <<drives, idem, claims, caller, closer>>
  BY DEF RunEnds
<1>2. /\ e \in EntryType /\ e.kind = how /\ e.command = NoCommand /\ e.run = run
  BY DEF Entry, EntryType, TypeInv
<1> HIDE DEF e
<1>3. /\ journal \in Seq(EntryType) /\ journal' \in Seq(EntryType)
      /\ Len(journal) \in Nat /\ DOMAIN journal = 1..Len(journal)
      /\ \A n \in DOMAIN journal : journal'[n] = journal[n]
      /\ \A k : AcceptancesIn(journal', k) = AcceptancesIn(journal, k)
  <2>1. journal \in Seq(EntryType) BY DEF TypeInv
  <2>2. \A k : AcceptancesIn(journal', k) = AcceptancesIn(journal, k)
    BY <1>1, <1>2, <2>1, AppendedAcceptances
  <2> QED BY <1>1, <1>2, <2>1, <2>2, Appended
<1>4. OpenIn(journal, run) BY <1>1 DEF RunIsOpen, Active
<1>5. run <= OpenedIn(journal)
  <2>1. PICK m \in DOMAIN journal : journal[m].kind = "start" /\ journal[m].run = run
    BY <1>4 DEF OpenIn
  <2>2. run \in 1..OpenedIn(journal) BY <2>1 DEF Ledger, Numbered
  <2> QED BY <2>2
<1>6. Ledger(journal)'
  <2>1. OnePerKey(Append(journal, e)) BY <1>2, <1>3, AppendedOnePerKey DEF Ledger
  <2>2. Numbered(Append(journal, e)) BY <1>2, <1>3, <1>5, AppendedNumbered DEF Ledger
  <2>3. TargetsOpen(Append(journal, e)) BY <1>2, <1>3, AppendedTargets DEF Ledger, Targeted
  <2> QED BY <1>1, <2>1, <2>2, <2>3 DEF Ledger
<1>7. TypeInv' BY <1>1, <1>3 DEF TypeInv
<1>8. ClaimsHeld' BY <1>1 DEF ClaimsHeld
<1>9. AcceptancesKnown' BY <1>1, <1>3 DEF AcceptancesKnown, Active
<1>10. ReceiptsBacked'
  <2>1. \A r, k, d : Backed(journal, r, k, d) => Backed(journal', r, k, d)
    BY <1>1, <1>2, <1>3, AppendedBacked
  <2>2. \A k : \A n \in AcceptancesIn(journal', k) : n \in AcceptancesIn(journal, k) /\ journal'[n] = journal[n]
    BY <1>3 DEF AcceptancesIn
  <2> QED BY <1>1, <2>1, <2>2, ZenonT(60) DEF ReceiptsBacked
<1>11. RunIsOpen' BY <1>1, <1>2, <1>3, <1>4, AppendedOpen DEF RunIsOpen
<1>12. ClosedIsQuiet' BY <1>1 DEF ClosedIsQuiet, Excluded, At
<1> QED
  BY <1>6, <1>7, <1>8, <1>9, <1>10, <1>11, <1>12

\* A drive that returns leaves the journal and the receipts alone.
LEMMA DriveReturnsStep ==
  ASSUME Inv, NEW r \in drives, DriveReturns(r)
  PROVE  Inv'
<1> USE DEF Inv
<1>1. /\ drives' \in SUBSET drives
      /\ UNCHANGED <<journal, state, run, idem, claims, caller, closer>>
  BY DEF DriveReturns
<1>2. TypeInv' /\ ClaimsHeld' /\ AcceptancesKnown'
  BY <1>1 DEF TypeInv, ClaimsHeld, AcceptancesKnown
<1>3. ReceiptsBacked' BY <1>1 DEF ReceiptsBacked
<1>4. Ledger(journal)' /\ RunIsOpen' /\ ClosedIsQuiet'
  BY <1>1 DEF Ledger, OnePerKey, Numbered, OpenedIn, TargetsOpen, RunIsOpen, OpenIn,
              ClosedIsQuiet, Excluded, At
<1> QED
  BY <1>2, <1>3, <1>4

-----------------------------------------------------------------------------
(***************************************************************************)
(* Closing, and the next view.                                             *)
(***************************************************************************)
\* Close and Abandon take the lock when nobody is inside, and join the drives.
LEMMA ClosingStep ==
  ASSUME Inv, Closing
  PROVE  Inv'
<1> USE DEF Inv
<1>1. UNCHANGED <<journal, run, drives, idem, claims, caller>>
  BY DEF Closing, BeginClose, Locked, Settled, CloseRoot, CloseGivesUp, CloseRetried, inner
<1>2. /\ closer' \in {"locking", "settling", "joining", "given_up", "closed"}
      /\ closer' # "locking" => Excluded
      /\ closer' = "closed" => drives = {}
  BY DEF Closing, BeginClose, Locked, Settled, CloseRoot, CloseGivesUp, CloseRetried, Joined,
         ClosedIsQuiet
<1>3. /\ state' \in {"idle", "running", "interrupting", "suspended", "faulted", "closed"}
      /\ state \in {"closed", "faulted"} => state' \in {"closed", "faulted"}
      /\ state' \in {"running", "interrupting", "suspended"} =>
           state \in {"running", "interrupting", "suspended"}
  BY DEF Closing, BeginClose, Locked, Settled, CloseRoot, CloseGivesUp, CloseRetried, inner,
         TypeInv, Active
<1>4. TypeInv' BY <1>1, <1>2, <1>3 DEF TypeInv
<1>5. ClaimsHeld' /\ AcceptancesKnown' /\ ReceiptsBacked'
  BY <1>1, <1>3 DEF ClaimsHeld, AcceptancesKnown, ReceiptsBacked
<1>6. Ledger(journal)' /\ RunIsOpen'
  BY <1>1, <1>3 DEF Ledger, OnePerKey, Numbered, OpenedIn, TargetsOpen, RunIsOpen, OpenIn
<1>7. ClosedIsQuiet' BY <1>1, <1>2 DEF ClosedIsQuiet, Excluded, At
<1> QED
  BY <1>4, <1>5, <1>6, <1>7

\* What the journal says of an open run is a run that was started and has not
\* settled: a later start has a greater number than a run that settled before.
LEMMA OpenRunIsOpen ==
  ASSUME Inv
  PROVE  OpenRun \in Nat /\ (OpenRun # 0 => OpenIn(journal, OpenRun))
<1> USE DEF Inv
<1> DEFINE I == {i \in 1..Len(journal) : journal[i].kind \in {"start", "settled"}}
           at == IF I # {} THEN Max(I) ELSE 0
<1>1. Len(journal) \in Nat /\ DOMAIN journal = 1..Len(journal) /\ journal \in Seq(EntryType)
  BY DEF TypeInv
<1>2. OpenRun = IF at # 0 /\ journal[at].kind = "start" THEN journal[at].run ELSE 0
  BY DEF OpenRun, SelectLastInSeq
<1>3. CASE at # 0 /\ journal[at].kind = "start"
  <2>1. at = Max(I) /\ I # {} /\ I \in SUBSET (1..Len(journal)) BY <1>3
  <2>2. at \in I /\ \A i \in I : i <= at
    <3> HIDE DEF I, at
    <3> QED BY <1>1, <2>1, LastPosition
  <2>3. at \in DOMAIN journal /\ journal[at] \in EntryType BY <1>1, <2>2
  <2>4. journal[at].run \in Nat /\ OpenRun = journal[at].run
    BY <1>2, <1>3, <2>3 DEF EntryType
  <2>5. ASSUME NEW m \in DOMAIN journal, journal[m].kind = "settled"
        PROVE  journal[m].run # journal[at].run
    <3>1. m \in I /\ m <= at /\ m # at BY <1>1, <1>3, <2>2, <2>5
    <3>2. m \in 1..(at - 1) BY <1>1, <2>3, <3>1
    <3>3. journal[m].run < journal[at].run BY <1>3, <2>3, <2>5, <3>2 DEF Ledger, Numbered
    <3>4. journal[m] \in EntryType BY <1>1
    <3> QED BY <2>4, <3>3, <3>4 DEF EntryType
  <2> HIDE DEF at
  <2> QED BY <1>3, <2>3, <2>4, <2>5 DEF OpenIn
<1>4. CASE ~(at # 0 /\ journal[at].kind = "start") BY <1>2, <1>4
<1> QED
  BY <1>3, <1>4

\* The next view restores a receipt for every acceptance of the journal.
LEMMA ReopenStep ==
  ASSUME Inv, Reopen
  PROVE  Inv'
<1> USE DEF Inv
<1>1. /\ journal' = journal /\ closer' = "open" /\ drives' = {}
      /\ idem' = Restored /\ claims' = [k \in Keys |-> Free]
      /\ caller' = [c \in Callers |-> IdleCaller]
      /\ run' = OpenRun
      /\ state' = IF OpenRun = 0 THEN "idle" ELSE IF Parked THEN "suspended" ELSE "running"
  BY DEF Reopen
<1>2. journal \in Seq(EntryType) /\ Len(journal) \in Nat /\ DOMAIN journal = 1..Len(journal)
  BY DEF TypeInv
<1>3. IdleCaller.pc = "idle" /\ IdleCaller.receipt.outcome = "none"
  BY DEF IdleCaller, NoReceipt
<1>4. ASSUME NEW k \in Keys
      PROVE  /\ idem'[k] \in [digest : Nat, receipt : ReceiptType]
             /\ AcceptancesIn(journal, k) # {} => idem'[k] # NoIdem
             /\ idem'[k] # NoIdem => Backed(journal, idem'[k].receipt, k, idem'[k].digest)
  <2>1. AcceptanceOf(k) = AcceptancesIn(journal, k) BY DEF AcceptanceOf, AcceptancesIn
  <2>2. CASE AcceptancesIn(journal, k) = {}
    <3>1. idem'[k] = NoIdem BY <1>1, <2>1, <2>2 DEF Restored
    <3> QED BY <2>2, <3>1 DEF NoIdem, NoReceipt, ReceiptType
  <2>3. CASE AcceptancesIn(journal, k) # {}
    <3> DEFINE n == CHOOSE m \in AcceptanceOf(k) : TRUE
    <3>1. idem'[k] = [digest |-> journal[n].command.digest, receipt |-> RestoredReceipt(n)]
      BY <1>1, <2>1, <2>3 DEF Restored
    <3>2. n \in AcceptancesIn(journal, k) BY <2>1, <2>3
    <3> HIDE DEF n
    <3>3. journal[n] \in EntryType /\ journal[n].command # NoCommand /\ n \in Nat
      BY <1>2, <3>2 DEF AcceptancesIn
    <3>4. journal[n].command \in Commands /\ journal[n].run \in Nat BY <3>3 DEF EntryType
    <3>5. RestoredReceipt(n) \in ReceiptType /\ RestoredReceipt(n).outcome # "none"
      BY <3>3, <3>4 DEF RestoredReceipt, ReceiptType
    <3>6. journal[n].command.digest \in Nat BY <3>4, CommandKey
    <3>7. idem'[k] # NoIdem BY <3>1, <3>5 DEF NoIdem, NoReceipt
    <3>8. Backed(journal, RestoredReceipt(n), k, journal[n].command.digest)
      BY <3>2, <3>3 DEF Backed, RestoredReceipt
    <3> QED BY <3>1, <3>5, <3>6, <3>7, <3>8
  <2> QED BY <2>2, <2>3
<1>5. TypeInv'
  <2>1. idem' \in [Keys -> [digest : Nat, receipt : ReceiptType]]
    <3>1. idem' = [k \in Keys |-> idem'[k]] BY <1>1 DEF Restored
    <3> QED BY <1>4, <3>1
  <2>2. run' \in Nat BY <1>1, OpenRunIsOpen
  <2>3. caller' \in [Callers -> CallerType] /\ \A c \in Callers : caller'[c].pc = "idle"
    BY <1>1, <1>3, IdleType
  <2> QED BY <1>1, <2>1, <2>2, <2>3 DEF TypeInv
<1>6. ClaimsHeld' BY <1>1, <1>3 DEF ClaimsHeld, Holding
<1>7. AcceptancesKnown' BY <1>1, <1>4 DEF AcceptancesKnown
<1>8. ReceiptsBacked' BY <1>1, <1>3, <1>4 DEF ReceiptsBacked, HasReceipt
<1>9. Ledger(journal)' BY <1>1 DEF Ledger, OnePerKey, Numbered, OpenedIn, TargetsOpen
<1>10. RunIsOpen' BY <1>1, OpenRunIsOpen DEF RunIsOpen
<1>11. ClosedIsQuiet' BY <1>1 DEF ClosedIsQuiet
<1> QED
  BY <1>5, <1>6, <1>7, <1>8, <1>9, <1>10, <1>11

-----------------------------------------------------------------------------
(***************************************************************************)
(* Theorems.                                                               *)
(***************************************************************************)
\* A new view of an empty journal has no claims and no receipts.
LEMMA InitInv == Init => Inv
<1> SUFFICES ASSUME Init PROVE Inv
  OBVIOUS
<1>1. journal = <<>> /\ journal \in Seq(EntryType) /\ DOMAIN journal = {} BY DEF Init
<1>2. \A c \in Callers : /\ caller[c] = IdleCaller /\ caller[c].pc = "idle"
                         /\ caller[c].receipt.outcome = "none"
  BY DEF Init, IdleCaller, NoReceipt
<1>3. \A k \in Keys : idem[k] = NoIdem BY DEF Init
<1>4. NoIdem \in [digest : Nat, receipt : ReceiptType] BY DEF NoIdem, NoReceipt, ReceiptType
<1>5. TypeInv
  <2>1. caller \in [Callers -> CallerType] BY IdleType DEF Init
  <2> QED BY <1>1, <1>2, <1>4, <2>1 DEF Init, TypeInv
<1>6. ClaimsHeld /\ AcceptancesKnown /\ ReceiptsBacked
  BY <1>1, <1>2, <1>3 DEF ClaimsHeld, Holding, AcceptancesKnown, AcceptancesIn, ReceiptsBacked, HasReceipt
<1>7. Ledger(journal) BY <1>1 DEF Ledger, OnePerKey, Numbered, TargetsOpen
<1>8. RunIsOpen /\ ClosedIsQuiet BY DEF Init, RunIsOpen, ClosedIsQuiet
<1> QED
  BY <1>5, <1>6, <1>7, <1>8 DEF Inv

\* Every action of Next preserves the inductive invariant.
LEMMA StepInv == Inv /\ [Next]_vars => Inv'
<1> SUFFICES ASSUME Inv, [Next]_vars PROVE Inv'
  OBVIOUS
<1>1. CASE Calls
  <2> SUFFICES ASSUME NEW c \in Callers, Callings(c) PROVE Inv'
    BY <1>1 DEF Calls
  <2>1. CASE Refuses(c) BY <2>1, RefusedStep DEF Refuses, At
  <2> QED
    BY <2>1, ClaimStep, AcceptsStep, AcceptanceFailsStep, ReadCursorStep, RememberStep DEF Callings
<1>2. CASE Runs BY <1>2, RunEndsStep, DriveReturnsStep DEF Runs
<1>3. CASE Closing BY <1>3, ClosingStep
<1>4. CASE Reopen BY <1>4, ReopenStep
<1>5. CASE \E c \in Callers : GivesUp(c) BY <1>5, RefusedStep DEF GivesUp, At
<1>6. CASE \E c \in Callers, command \in Commands :
             Lookup(c, command) \/ Enter(c, "dispatch", command) \/ Enter(c, "reject", command)
  BY <1>6, LookupStep, EnterStep
<1>7. CASE UNCHANGED vars
  <2>1. UNCHANGED <<journal, state, run, drives, idem, claims, caller, closer>>
    BY <1>7 DEF vars
  <2>2. TypeInv' /\ ClaimsHeld' /\ AcceptancesKnown' /\ ReceiptsBacked'
    BY <2>1 DEF Inv, TypeInv, ClaimsHeld, AcceptancesKnown, ReceiptsBacked
  <2>3. Ledger(journal)' /\ RunIsOpen' /\ ClosedIsQuiet'
    BY <2>1 DEF Inv, Ledger, OnePerKey, Numbered, OpenedIn, TargetsOpen, RunIsOpen, OpenIn,
                ClosedIsQuiet, Excluded, At
  <2> QED BY <2>2, <2>3 DEF Inv
<1> QED
  BY <1>1, <1>2, <1>3, <1>4, <1>5, <1>6, <1>7 DEF Next

\* The inductive invariant holds of every state the view reaches.
LEMMA Invariant == Spec => []Inv
BY InitInv, StepInv, PTL DEF Spec

\* A key is accepted once and a command for a run while that run is open,
\* whatever callers, failed appends, closes and new views do: the claim closes
\* the window between the look at the receipts and the append.
THEOREM Accepted == Spec => []AcceptedForItsRun
<1>1. Inv => AcceptedForItsRun
  <2> SUFFICES ASSUME Inv PROVE AcceptedForItsRun
    OBVIOUS
  <2>1. TargetIsOpen BY DEF Inv, Ledger, TargetsOpen, TargetIsOpen
  <2>2. ASSUME NEW k \in Keys PROVE Cardinality(AcceptanceOf(k)) <= 1
    <3>1. \A m, n \in AcceptanceOf(k) : m = n BY DEF Inv, Ledger, OnePerKey, AcceptanceOf
    <3>2. AcceptanceOf(k) = {} \/ \E n \in AcceptanceOf(k) : AcceptanceOf(k) = {n} BY <3>1
    <3>3. CASE AcceptanceOf(k) = {} BY <3>3, FS_EmptySet
    <3>4. ASSUME NEW n \in AcceptanceOf(k), AcceptanceOf(k) = {n} PROVE Cardinality(AcceptanceOf(k)) <= 1
      <4>1. Cardinality({n}) = 1 BY FS_Singleton
      <4> QED BY <4>1, <3>4
    <3> QED BY <3>2, <3>3, <3>4
  <2> QED BY <2>1, <2>2 DEF AcceptedForItsRun, AcceptedOnce
<1> QED
  BY <1>1, Invariant, PTL

\* What a caller was told and what a view remembers is in the journal, so that
\* the next view answers the same (rememberCommandAcceptance against
\* restoreCommandAcceptances).
THEOREM ReceiptsKept == Spec => []ReceiptsAreKept
<1>1. Inv => ReceiptsAreKept
  <2> SUFFICES ASSUME Inv PROVE ReceiptsAreKept
    OBVIOUS
  <2>1. \A k : AcceptanceOf(k) = AcceptancesIn(journal, k)
    BY DEF AcceptanceOf, AcceptancesIn
  <2>2. ReceiptIsDurable
    <3> SUFFICES ASSUME NEW c \in Callers, caller[c].pc = "idle",
                        caller[c].receipt.outcome \in {"accepted", "rejected"}
                 PROVE  \E n \in AcceptanceOf(caller[c].command.key) :
                          /\ journal[n].command.digest = caller[c].command.digest
                          /\ RestoredReceipt(n).outcome = caller[c].receipt.outcome
                          /\ journal[n].run = caller[c].receipt.run
                          /\ n <= caller[c].receipt.position
      BY DEF ReceiptIsDurable
    <3>1. Backed(journal, caller[c].receipt, caller[c].command.key, caller[c].command.digest)
      BY DEF Inv, ReceiptsBacked, HasReceipt
    <3> QED BY <2>1, <3>1 DEF Backed, RestoredReceipt
  <2>3. ReceiptsSurvive
    <3> SUFFICES ASSUME NEW k \in Keys, idem[k] # NoIdem
                 PROVE  \E n \in AcceptanceOf(k) :
                          /\ [idem[k].receipt EXCEPT !.position = n] = RestoredReceipt(n)
                          /\ journal[n].kind # "interrupt" => idem[k].receipt.position = n
      BY DEF ReceiptsSurvive
    <3>1. Backed(journal, idem[k].receipt, k, idem[k].digest) /\ idem[k].receipt \in ReceiptType
      BY DEF Inv, ReceiptsBacked, TypeInv
    <3>2. PICK n \in AcceptancesIn(journal, k) :
            /\ idem[k].receipt.outcome = IF journal[n].kind = "rejected" THEN "rejected" ELSE "accepted"
            /\ idem[k].receipt.run = journal[n].run
            /\ journal[n].kind # "interrupt" => idem[k].receipt.position = n
      BY <3>1 DEF Backed
    <3>3. [idem[k].receipt EXCEPT !.position = n] = RestoredReceipt(n)
      BY <3>1, <3>2 DEF RestoredReceipt, ReceiptType
    <3> QED BY <2>1, <3>2, <3>3
  <2> QED BY <2>2, <2>3 DEF ReceiptsAreKept
<1> QED
  BY <1>1, Invariant, PTL

\* A closed root has no drive left and nobody between an acceptance and its
\* receipt (Close waits for the lock and joins the drives).
THEOREM ClosedRootIsQuiet == Spec => []RootIsQuiet
<1>1. Inv => RootIsQuiet BY DEF Inv, ClosedIsQuiet, RootIsQuiet, Excluded, At
<1> QED
  BY <1>1, Invariant, PTL

=============================================================================

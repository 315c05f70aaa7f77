----------------------------- MODULE GrantProofs -----------------------------
(***************************************************************************)
(* What a session grants: a share of its budget to a child, and to a call  *)
(* that it may run.  Each is proved for any number of calls, operators and *)
(* batches and a budget of any size.                                       *)
(*                                                                         *)
(*   ChildrenAccounted      one child at a time spends what is not charged *)
(*                          yet, and the budget is overdrawn by one        *)
(*                          request at most; a child that could be closed  *)
(*                          is charged; its events keep their order        *)
(*   OperatorsHaveTheWord   a call that needs an operator's word runs on   *)
(*                          it only, once for each answer; each call is    *)
(*                          settled once; the narrower of two rules        *)
(*                          decides                                        *)
(***************************************************************************)
EXTENDS ChildSessions, PermissionGate, FiniteSetTheorems, WellFoundedInduction, TLAPS

(***************************************************************************)
(* Children.  Good says of one call what its place allows: whether it      *)
(* holds the lease, how far its child is, what was read of it.  The rest   *)
(* relates the calls to their parent: one lease, whose limit is what the   *)
(* parent has left, and no call that the parent still waits for once it is *)
(* idle.                                                                   *)
(***************************************************************************)
Delegations ==
  [pc : {"new", "slot", "leased", "built", "routed", "prompting", "settled", "read",
         "closed", "done"},
   limit : Nat, used : Nat, read : Nat, charged : BOOLEAN,
   child : {"none", "idle", "running", "settled", "faulted", "closed"},
   token : BOOLEAN, gaveUp : BOOLEAN, blind : BOOLEAN, unclosed : BOOLEAN, waited : BOOLEAN,
   routed : BOOLEAN, active : BOOLEAN,
   emitted : Nat, held : Seq(Nat), shown : Seq(Nat)]

Parents ==
  [state : {"running", "interrupting", "idle", "faulted"}, usage : Nat, owed : {0, 1},
   token : BOOLEAN, cancelled : BOOLEAN]

Leased == {"leased", "built", "routed", "prompting", "settled", "read", "closed"}

\* how far a call and its child are
Placed(r) ==
  /\ r.token <=> r.pc \in Leased
  /\ r.pc \in {"new", "slot", "leased"} => r.child = "none"
  /\ r.pc \in {"built", "routed"} => r.child = "idle"
  /\ r.pc = "prompting" => r.child \in {"running", "settled", "faulted"}
  /\ r.gaveUp => r.pc \in {"settled", "read", "closed", "done"}
  /\ r.blind => r.pc \in {"read", "closed", "done"}
  /\ r.pc \in {"settled", "read"} \/ r.unclosed
       => r.child \in {"settled", "faulted"} \/ (r.gaveUp /\ r.child = "running")
  /\ r.pc = "closed" => r.child = "closed"
  /\ r.pc = "done" => r.child \in {"closed", "none"} \/ r.unclosed
  /\ r.unclosed => r.pc = "done"
  /\ r.charged => r.pc = "done"

\* what its child used and what was read of that
Counted(r) ==
  /\ r.child \in {"none", "idle"} => r.used = 0
  /\ r.used <= r.limit /\ r.read <= r.used
  /\ r.pc \in {"read", "closed", "done"} /\ ~r.gaveUp /\ ~r.blind /\ r.child # "none"
       => r.read = r.used

\* where its events are
FirstN(n) == [m \in 1..n |-> m]
Relayed(r) ==
  /\ r.active => /\ r.pc \in {"prompting", "settled", "read", "closed", "done"}
                 /\ r.held = <<>> /\ r.shown = FirstN(r.emitted)
  /\ ~r.active => r.shown = <<>> /\ r.held = FirstN(r.emitted)

Good(r) == r \in Delegations /\ Placed(r) /\ Counted(r) /\ Relayed(r)

AllWaited == \A c \in Children : call[c].waited

OneLease ==
  /\ \A c, d \in Children : call[c].token /\ call[d].token => c = d
  /\ parent.token <=> \A c \in Children : ~call[c].token

LeaseFits ==
  AllWaited =>
    /\ parent.usage + parent.owed <= Budget + 1
    /\ \A c \in Children : call[c].token => parent.usage + call[c].limit <= Budget

IdleAlone == parent.state = "idle" => \A c \in Children : Live(c) => ~call[c].waited

DoneIsCharged ==
  \A c \in Children :
    At(c, "done") /\ call[c].waited /\ parent.state # "faulted" /\ call[c].child # "none"
      => call[c].charged \/ call[c].unclosed

ChildrenInv ==
  /\ call \in [Children -> Delegations] /\ parent \in Parents
  /\ \A c \in Children : Good(call[c])
  /\ OneLease /\ LeaseFits /\ IdleAlone /\ DoneIsCharged

LEMMA InitChildren ==
  ASSUME Budget \in Nat, ChildrenInit
  PROVE  ChildrenInv
<1>1. Good(NoCall)
  <2>1. NoCall \in Delegations /\ Placed(NoCall) /\ Counted(NoCall)
    BY DEF NoCall, Delegations, Placed, Counted, Leased
  <2>2. FirstN(0) = <<>> BY DEF FirstN
  <2>3. Relayed(NoCall) BY <2>2 DEF NoCall, Relayed
  <2> QED BY <2>1, <2>3 DEF Good
<1>2. NoCall \in Delegations BY <1>1 DEF Good
<1>3. \A c \in Children : call[c] = NoCall BY DEF ChildrenInit
<1>4. call \in [Children -> Delegations] /\ \A c \in Children : Good(call[c])
  BY <1>1, <1>2 DEF ChildrenInit
<1>5. /\ parent \in Parents /\ parent.token /\ parent.usage = 0 /\ parent.owed = 0
      /\ parent.state = "idle"
  BY DEF ChildrenInit, Parents
<1>6. ~NoCall.token /\ NoCall.pc = "new" BY DEF NoCall
<1>7. OneLease /\ LeaseFits /\ IdleAlone /\ DoneIsCharged
  BY <1>3, <1>5, <1>6 DEF OneLease, LeaseFits, IdleAlone, DoneIsCharged, At, Live
<1> QED BY <1>4, <1>5, <1>7 DEF ChildrenInv

(***************************************************************************)
(* What a step does to one call.                                           *)
(***************************************************************************)
\* The parts that its events depend on stay.
LEMMA RelayedSame ==
  ASSUME NEW q \in Delegations, NEW r \in Delegations, Relayed(q),
         r.active = q.active, r.held = q.held, r.shown = q.shown, r.emitted = q.emitted,
         q.active => r.pc \in {"prompting", "settled", "read", "closed", "done"}
  PROVE  Relayed(r)
BY DEF Relayed

LEMMA SlotGood ==
  ASSUME NEW q, Good(q), q.pc = "new"
  PROVE  Good([q EXCEPT !.pc = "slot"])
<1> DEFINE r == [q EXCEPT !.pc = "slot"]
<1>1. q \in Delegations /\ Placed(q) /\ Counted(q) /\ Relayed(q) BY DEF Good
<1>2. /\ r \in Delegations /\ r.pc = "slot"
      /\ r.active = q.active /\ r.held = q.held /\ r.shown = q.shown /\ r.emitted = q.emitted
  BY <1>1 DEF Delegations
<1>3. Placed(r) /\ Counted(r) BY <1>1 DEF Delegations, Placed, Counted, Leased
<1>4. ~q.active BY <1>1 DEF Relayed
<1>5. Relayed(r) BY <1>1, <1>2, <1>4, RelayedSame
<1> QED BY <1>2, <1>3, <1>5 DEF Good

LEMMA LeasedGood ==
  ASSUME NEW q, Good(q), q.pc = "slot", NEW limit \in Nat
  PROVE  Good([q EXCEPT !.pc = "leased", !.token = TRUE, !.limit = limit])
<1> DEFINE r == [q EXCEPT !.pc = "leased", !.token = TRUE, !.limit = limit]
<1>1. q \in Delegations /\ Placed(q) /\ Counted(q) /\ Relayed(q) BY DEF Good
<1>2. /\ r \in Delegations /\ r.pc = "leased"
      /\ r.active = q.active /\ r.held = q.held /\ r.shown = q.shown /\ r.emitted = q.emitted
  BY <1>1 DEF Delegations
<1>3. Placed(r) /\ Counted(r) BY <1>1 DEF Delegations, Placed, Counted, Leased
<1>4. ~q.active BY <1>1 DEF Relayed
<1>5. Relayed(r) BY <1>1, <1>2, <1>4, RelayedSame
<1> QED BY <1>2, <1>3, <1>5 DEF Good

LEMMA BuiltGood ==
  ASSUME NEW q, Good(q), q.pc = "leased"
  PROVE  Good([q EXCEPT !.pc = "built", !.child = "idle"])
<1> DEFINE r == [q EXCEPT !.pc = "built", !.child = "idle"]
<1>1. q \in Delegations /\ Placed(q) /\ Counted(q) /\ Relayed(q) BY DEF Good
<1>2. /\ r \in Delegations /\ r.pc = "built"
      /\ r.active = q.active /\ r.held = q.held /\ r.shown = q.shown /\ r.emitted = q.emitted
  BY <1>1 DEF Delegations
<1>3. Placed(r) /\ Counted(r) BY <1>1 DEF Delegations, Placed, Counted, Leased
<1>4. ~q.active BY <1>1 DEF Relayed
<1>5. Relayed(r) BY <1>1, <1>2, <1>4, RelayedSame
<1> QED BY <1>2, <1>3, <1>5 DEF Good

LEMMA RoutedGood ==
  ASSUME NEW q, Good(q), q.pc = "built"
  PROVE  Good([q EXCEPT !.pc = "routed", !.routed = TRUE])
<1> DEFINE r == [q EXCEPT !.pc = "routed", !.routed = TRUE]
<1>1. q \in Delegations /\ Placed(q) /\ Counted(q) /\ Relayed(q) BY DEF Good
<1>2. /\ r \in Delegations /\ r.pc = "routed"
      /\ r.active = q.active /\ r.held = q.held /\ r.shown = q.shown /\ r.emitted = q.emitted
  BY <1>1 DEF Delegations
<1>3. Placed(r) /\ Counted(r) BY <1>1 DEF Delegations, Placed, Counted, Leased
<1>4. ~q.active BY <1>1 DEF Relayed
<1>5. Relayed(r) BY <1>1, <1>2, <1>4, RelayedSame
<1> QED BY <1>2, <1>3, <1>5 DEF Good

LEMMA ReturnedGood ==
  ASSUME NEW q, Good(q), q.pc = "prompting", q.child \in {"settled", "faulted"}
  PROVE  Good([q EXCEPT !.pc = "settled"])
<1> DEFINE r == [q EXCEPT !.pc = "settled"]
<1>1. q \in Delegations /\ Placed(q) /\ Counted(q) /\ Relayed(q) BY DEF Good
<1>2. /\ r \in Delegations /\ r.pc = "settled"
      /\ r.active = q.active /\ r.held = q.held /\ r.shown = q.shown /\ r.emitted = q.emitted
  BY <1>1 DEF Delegations
<1>3. Placed(r) /\ Counted(r) BY <1>1 DEF Delegations, Placed, Counted, Leased
<1>5. Relayed(r) BY <1>1, <1>2, RelayedSame
<1> QED BY <1>2, <1>3, <1>5 DEF Good

LEMMA GivenUpGood ==
  ASSUME NEW q, Good(q), q.pc = "prompting", q.child = "running"
  PROVE  Good([q EXCEPT !.pc = "settled", !.gaveUp = TRUE])
<1> DEFINE r == [q EXCEPT !.pc = "settled", !.gaveUp = TRUE]
<1>1. q \in Delegations /\ Placed(q) /\ Counted(q) /\ Relayed(q) BY DEF Good
<1>2. /\ r \in Delegations /\ r.pc = "settled"
      /\ r.active = q.active /\ r.held = q.held /\ r.shown = q.shown /\ r.emitted = q.emitted
  BY <1>1 DEF Delegations
<1>3. Placed(r) /\ Counted(r) BY <1>1 DEF Delegations, Placed, Counted, Leased
<1>5. Relayed(r) BY <1>1, <1>2, RelayedSame
<1> QED BY <1>2, <1>3, <1>5 DEF Good

LEMMA ReadGood ==
  ASSUME NEW q, Good(q), q.pc = "settled"
  PROVE  Good([q EXCEPT !.pc = "read", !.read = q.used])
<1> DEFINE r == [q EXCEPT !.pc = "read", !.read = q.used]
<1>1. q \in Delegations /\ Placed(q) /\ Counted(q) /\ Relayed(q) BY DEF Good
<1>2. /\ r \in Delegations /\ r.pc = "read"
      /\ r.active = q.active /\ r.held = q.held /\ r.shown = q.shown /\ r.emitted = q.emitted
  BY <1>1 DEF Delegations
<1>3. Placed(r) /\ Counted(r) BY <1>1 DEF Delegations, Placed, Counted, Leased
<1>5. Relayed(r) BY <1>1, <1>2, RelayedSame
<1> QED BY <1>2, <1>3, <1>5 DEF Good

LEMMA BlindGood ==
  ASSUME NEW q, Good(q), q.pc = "settled", q.child = "faulted"
  PROVE  Good([q EXCEPT !.pc = "read", !.blind = TRUE])
<1> DEFINE r == [q EXCEPT !.pc = "read", !.blind = TRUE]
<1>1. q \in Delegations /\ Placed(q) /\ Counted(q) /\ Relayed(q) BY DEF Good
<1>2. /\ r \in Delegations /\ r.pc = "read"
      /\ r.active = q.active /\ r.held = q.held /\ r.shown = q.shown /\ r.emitted = q.emitted
  BY <1>1 DEF Delegations
<1>3. Placed(r) /\ Counted(r) BY <1>1 DEF Delegations, Placed, Counted, Leased
<1>5. Relayed(r) BY <1>1, <1>2, RelayedSame
<1> QED BY <1>2, <1>3, <1>5 DEF Good

LEMMA ClosedGood ==
  ASSUME NEW q, Good(q), q.pc = "read", q.child # "running"
  PROVE  Good([q EXCEPT !.pc = "closed", !.child = "closed"])
<1> DEFINE r == [q EXCEPT !.pc = "closed", !.child = "closed"]
<1>1. q \in Delegations /\ Placed(q) /\ Counted(q) /\ Relayed(q) BY DEF Good
<1>2. /\ r \in Delegations /\ r.pc = "closed"
      /\ r.active = q.active /\ r.held = q.held /\ r.shown = q.shown /\ r.emitted = q.emitted
  BY <1>1 DEF Delegations
<1>3. Placed(r) /\ Counted(r) BY <1>1 DEF Delegations, Placed, Counted, Leased
<1>5. Relayed(r) BY <1>1, <1>2, RelayedSame
<1> QED BY <1>2, <1>3, <1>5 DEF Good

LEMMA DoneGood ==
  ASSUME NEW q, Good(q), q.pc \in {"slot", "leased", "closed"}
  PROVE  Good([q EXCEPT !.pc = "done", !.token = FALSE, !.routed = FALSE])
<1> DEFINE r == [q EXCEPT !.pc = "done", !.token = FALSE, !.routed = FALSE]
<1>1. q \in Delegations /\ Placed(q) /\ Counted(q) /\ Relayed(q) BY DEF Good
<1>2. /\ r \in Delegations /\ r.pc = "done"
      /\ r.active = q.active /\ r.held = q.held /\ r.shown = q.shown /\ r.emitted = q.emitted
  BY <1>1 DEF Delegations
<1>3. Placed(r) /\ Counted(r) BY <1>1 DEF Delegations, Placed, Counted, Leased
<1>5. Relayed(r) BY <1>1, <1>2, RelayedSame
<1> QED BY <1>2, <1>3, <1>5 DEF Good

LEMMA UnclosedGood ==
  ASSUME NEW q, Good(q), q.pc = "read"
  PROVE  Good([q EXCEPT !.pc = "done", !.token = FALSE, !.routed = FALSE, !.unclosed = TRUE])
<1> DEFINE r == [q EXCEPT !.pc = "done", !.token = FALSE, !.routed = FALSE, !.unclosed = TRUE]
<1>1. q \in Delegations /\ Placed(q) /\ Counted(q) /\ Relayed(q) BY DEF Good
<1>2. /\ r \in Delegations /\ r.pc = "done"
      /\ r.active = q.active /\ r.held = q.held /\ r.shown = q.shown /\ r.emitted = q.emitted
  BY <1>1 DEF Delegations
<1>3. Placed(r) /\ Counted(r) BY <1>1 DEF Delegations, Placed, Counted, Leased
<1>5. Relayed(r) BY <1>1, <1>2, RelayedSame
<1> QED BY <1>2, <1>3, <1>5 DEF Good

LEMMA RefusedGood ==
  ASSUME NEW q, Good(q), q.pc = "routed"
  PROVE  Good([q EXCEPT !.pc = "done", !.token = FALSE, !.routed = FALSE, !.child = "closed"])
<1> DEFINE r == [q EXCEPT !.pc = "done", !.token = FALSE, !.routed = FALSE, !.child = "closed"]
<1>1. q \in Delegations /\ Placed(q) /\ Counted(q) /\ Relayed(q) BY DEF Good
<1>2. /\ r \in Delegations /\ r.pc = "done"
      /\ r.active = q.active /\ r.held = q.held /\ r.shown = q.shown /\ r.emitted = q.emitted
  BY <1>1 DEF Delegations
<1>3. Placed(r) /\ Counted(r) BY <1>1 DEF Delegations, Placed, Counted, Leased
<1>5. Relayed(r) BY <1>1, <1>2, RelayedSame
<1> QED BY <1>2, <1>3, <1>5 DEF Good

LEMMA ChargedGood ==
  ASSUME NEW q, Good(q), q.pc = "closed", NEW b \in BOOLEAN
  PROVE  Good([q EXCEPT !.pc = "done", !.token = FALSE, !.routed = FALSE, !.charged = b])
<1> DEFINE r == [q EXCEPT !.pc = "done", !.token = FALSE, !.routed = FALSE, !.charged = b]
<1>1. q \in Delegations /\ Placed(q) /\ Counted(q) /\ Relayed(q) BY DEF Good
<1>2. /\ r \in Delegations /\ r.pc = "done"
      /\ r.active = q.active /\ r.held = q.held /\ r.shown = q.shown /\ r.emitted = q.emitted
  BY <1>1 DEF Delegations
<1>3. Placed(r) /\ Counted(r) BY <1>1 DEF Delegations, Placed, Counted, Leased
<1>5. Relayed(r) BY <1>1, <1>2, RelayedSame
<1> QED BY <1>2, <1>3, <1>5 DEF Good

LEMMA SpentGood ==
  ASSUME NEW q, Good(q), q.child = "running", q.used < q.limit
  PROVE  Good([q EXCEPT !.used = @ + 1])
<1> DEFINE n == q.used + 1
           r == [q EXCEPT !.used = n]
<1>1. q \in Delegations /\ Placed(q) /\ Counted(q) /\ Relayed(q) BY DEF Good
<1>2. q.used \in Nat /\ q.limit \in Nat /\ q.read \in Nat /\ q.read <= q.used
  BY <1>1 DEF Delegations, Counted
<1>3. n \in Nat /\ n <= q.limit /\ q.read <= n BY <1>2
<1> HIDE DEF n
<1>4. /\ r \in Delegations /\ r.pc = q.pc /\ r.used = n /\ r.limit = q.limit
      /\ r.read = q.read /\ r.child = "running" /\ (r.gaveUp <=> q.gaveUp)
  BY <1>1, <1>3 DEF Delegations
<1>5. r.active = q.active /\ r.held = q.held /\ r.shown = q.shown /\ r.emitted = q.emitted
  BY <1>1 DEF Delegations
<1>6. Placed(r) BY <1>1 DEF Delegations, Placed, Leased
<1>7. q.pc # "closed" /\ (q.pc \in {"read", "done"} => q.gaveUp) BY <1>1 DEF Placed
<1> HIDE DEF r
<1>8. Counted(r) BY <1>3, <1>4, <1>7 DEF Counted
<1>9. Relayed(r) BY <1>1, <1>4, <1>5, RelayedSame DEF Relayed
<1> QED BY <1>4, <1>6, <1>8, <1>9 DEF Good, r, n

LEMMA SettledGood ==
  ASSUME NEW q, Good(q), q.child = "running", NEW state \in {"settled", "faulted"}
  PROVE  Good([q EXCEPT !.child = state])
<1> DEFINE r == [q EXCEPT !.child = state]
<1>1. q \in Delegations /\ Placed(q) /\ Counted(q) /\ Relayed(q) BY DEF Good
<1>2. /\ r \in Delegations /\ r.pc = q.pc
      /\ r.active = q.active /\ r.held = q.held /\ r.shown = q.shown /\ r.emitted = q.emitted
  BY <1>1 DEF Delegations
<1>3. Placed(r) /\ Counted(r) BY <1>1 DEF Delegations, Placed, Counted, Leased
<1>5. Relayed(r) BY <1>1, <1>2, RelayedSame DEF Relayed
<1> QED BY <1>2, <1>3, <1>5 DEF Good

LEMMA LeftGood ==
  ASSUME NEW q, Good(q), NEW b \in BOOLEAN
  PROVE  Good([q EXCEPT !.waited = b])
<1> DEFINE r == [q EXCEPT !.waited = b]
<1>1. q \in Delegations /\ Placed(q) /\ Counted(q) /\ Relayed(q) BY DEF Good
<1>2. /\ r \in Delegations /\ r.pc = q.pc
      /\ r.active = q.active /\ r.held = q.held /\ r.shown = q.shown /\ r.emitted = q.emitted
  BY <1>1 DEF Delegations
<1>3. Placed(r) /\ Counted(r) BY <1>1 DEF Delegations, Placed, Counted, Leased
<1>5. Relayed(r) BY <1>1, <1>2, RelayedSame DEF Relayed
<1> QED BY <1>2, <1>3, <1>5 DEF Good

LEMMA FirstNMore ==
  ASSUME NEW n \in Nat
  PROVE  FirstN(n + 1) \in Seq(Nat) /\ Append(FirstN(n), n + 1) = FirstN(n + 1)
BY DEF FirstN

\* what a child published before it was routed is shown, in its order
LEMMA ActivatedGood ==
  ASSUME NEW q, Good(q), q.pc = "routed"
  PROVE  Good([q EXCEPT !.pc = "prompting", !.child = "running", !.active = TRUE,
                        !.shown = @ \o q.held, !.held = <<>>])
<1> DEFINE r == [q EXCEPT !.pc = "prompting", !.child = "running", !.active = TRUE,
                          !.shown = @ \o q.held, !.held = <<>>]
<1>1. q \in Delegations /\ Placed(q) /\ Counted(q) /\ Relayed(q) BY DEF Good
<1>2. q.shown = <<>> /\ q.held = FirstN(q.emitted) /\ q.held \in Seq(Nat) /\ q.emitted \in Nat
  BY <1>1 DEF Relayed, Delegations
<1>3. q.shown \o q.held = q.held BY <1>2
<1>4. r = [q EXCEPT !.pc = "prompting", !.child = "running", !.active = TRUE,
                    !.shown = q.held, !.held = <<>>]
  BY <1>3
<1> HIDE DEF r
<1> DEFINE held == q.held
<1>5. held \in Seq(Nat) /\ <<>> \in Seq(Nat) BY <1>2
<1> HIDE DEF held
<1>6. r = [q EXCEPT !.pc = "prompting", !.child = "running", !.active = TRUE,
                    !.shown = held, !.held = <<>>]
  BY <1>4 DEF held
<1>7. /\ r \in Delegations /\ r.pc = "prompting" /\ r.active
      /\ r.held = <<>> /\ r.shown = held /\ r.emitted = q.emitted
  BY <1>1, <1>5, <1>6 DEF Delegations
<1>8. /\ r.child = "running" /\ (r.token <=> q.token) /\ (r.gaveUp <=> q.gaveUp)
      /\ (r.blind <=> q.blind) /\ (r.unclosed <=> q.unclosed)
      /\ (r.charged <=> q.charged) /\ r.used = q.used /\ r.limit = q.limit /\ r.read = q.read
  BY <1>1, <1>6 DEF Delegations
<1>9. Placed(r) /\ Counted(r)
  <2>1. q.token /\ ~q.charged /\ q.child = "idle" /\ ~q.gaveUp /\ ~q.blind /\ ~q.unclosed
    BY <1>1 DEF Placed, Leased, Delegations
  <2>2. Placed(r) BY <1>7, <1>8, <2>1 DEF Placed, Leased
  <2>3. Counted(r) BY <1>1, <1>7, <1>8 DEF Counted
  <2> QED BY <2>2, <2>3
<1>10. Relayed(r) BY <1>2, <1>7 DEF Relayed, held
<1> QED BY <1>7, <1>9, <1>10 DEF Good, r

LEMMA HeldGood ==
  ASSUME NEW q, Good(q), ~q.active
  PROVE  Good([q EXCEPT !.emitted = q.emitted + 1, !.held = Append(@, q.emitted + 1)])
<1> DEFINE n == q.emitted + 1
           more == FirstN(n)
           r == [q EXCEPT !.emitted = n, !.held = Append(@, n)]
<1>1. q \in Delegations /\ Placed(q) /\ Counted(q) /\ Relayed(q) BY DEF Good
<1>2. q.emitted \in Nat /\ q.held = FirstN(q.emitted) /\ q.shown = <<>>
  BY <1>1 DEF Relayed, Delegations
<1>3. n \in Nat BY <1>2
<1>4. more \in Seq(Nat) /\ Append(q.held, n) = more BY <1>2, FirstNMore
<1> HIDE DEF n, more
<1>5. r = [q EXCEPT !.emitted = n, !.held = more] BY <1>4
<1> HIDE DEF r
<1>6. /\ r \in Delegations /\ r.pc = q.pc /\ r.held = more /\ r.emitted = n
      /\ r.shown = q.shown
  BY <1>1, <1>3, <1>4, <1>5 DEF Delegations
<1>7. r.active <=> q.active BY <1>1, <1>5 DEF Delegations
<1>8. Placed(r) /\ Counted(r) BY <1>1, <1>5 DEF Delegations, Placed, Counted, Leased
<1>9. Relayed(r) BY <1>1, <1>2, <1>6, <1>7 DEF Relayed, more
<1> QED BY <1>6, <1>8, <1>9 DEF Good, r, n

LEMMA ShownGood ==
  ASSUME NEW q, Good(q), q.active
  PROVE  Good([q EXCEPT !.emitted = q.emitted + 1, !.shown = Append(@, q.emitted + 1)])
<1> DEFINE n == q.emitted + 1
           more == FirstN(n)
           r == [q EXCEPT !.emitted = n, !.shown = Append(@, n)]
<1>1. q \in Delegations /\ Placed(q) /\ Counted(q) /\ Relayed(q) BY DEF Good
<1>2. q.emitted \in Nat /\ q.shown = FirstN(q.emitted) /\ q.held = <<>>
  BY <1>1 DEF Relayed, Delegations
<1>3. n \in Nat BY <1>2
<1>4. more \in Seq(Nat) /\ Append(q.shown, n) = more BY <1>2, FirstNMore
<1> HIDE DEF n, more
<1>5. r = [q EXCEPT !.emitted = n, !.shown = more] BY <1>4
<1> HIDE DEF r
<1>6. /\ r \in Delegations /\ r.pc = q.pc /\ r.shown = more /\ r.emitted = n
      /\ r.held = q.held
  BY <1>1, <1>3, <1>4, <1>5 DEF Delegations
<1>7. r.active <=> q.active BY <1>1, <1>5 DEF Delegations
<1>8. Placed(r) /\ Counted(r) BY <1>1, <1>5 DEF Delegations, Placed, Counted, Leased
<1>9. Relayed(r) BY <1>1, <1>2, <1>6, <1>7 DEF Relayed, more
<1> QED BY <1>6, <1>8, <1>9 DEF Good, r, n

(***************************************************************************)
(* The invariant, step by step.                                            *)
(***************************************************************************)
\* What one call is after a step that is not its last, or a step of the child that
\* it left behind.
Goes(q, r) ==
  /\ (r.token <=> q.token) /\ r.limit = q.limit /\ (r.waited <=> q.waited)
  /\ (q.pc = "done" => r.pc = "done") /\ (r.pc = "done" => q.pc = "done" /\ r.unclosed)
  /\ (r.pc # "new" => q.pc # "new" \/ parent.state = "running")

\* A step of one call that leaves the parent alone.
LEMMA CallGoes ==
  ASSUME ChildrenInv, NEW c \in Children, NEW r, Good(r), Goes(call[c], r),
         call' = [call EXCEPT ![c] = r], UNCHANGED parent
  PROVE  ChildrenInv'
<1> DEFINE q == call[c]
<1>0. call \in [Children -> Delegations] /\ parent \in Parents BY DEF ChildrenInv
<1>1. r \in Delegations /\ call' \in [Children -> Delegations] /\ call'[c] = r
      /\ \A d \in Children : d # c => call'[d] = call[d]
  BY <1>0 DEF Good
<1>2. \A d \in Children : Good(call'[d]) BY <1>1 DEF ChildrenInv
<1>3. /\ \A d \in Children : call'[d].token <=> call[d].token
      /\ \A d \in Children : call'[d].waited <=> call[d].waited
      /\ \A d \in Children : call'[d].limit = call[d].limit
  BY <1>1 DEF Goes
<1>4. OneLease' BY <1>3 DEF ChildrenInv, OneLease
<1>5. LeaseFits' BY <1>3 DEF ChildrenInv, LeaseFits, AllWaited
<1>6. IdleAlone'
  <2> SUFFICES ASSUME parent.state = "idle", NEW d \in Children, Live(d)' PROVE ~call'[d].waited
    BY DEF IdleAlone
  <2>1. CASE d = c
    <3>1. r.pc \notin {"new", "done"} /\ parent.state # "running" BY <1>1, <2>1 DEF Live
    <3>2. q.pc \notin {"new", "done"} BY <3>1 DEF Goes
    <3> QED BY <1>3, <2>1, <3>2 DEF ChildrenInv, IdleAlone, Live
  <2>2. CASE d # c BY <1>1, <2>2 DEF ChildrenInv, IdleAlone, Live
  <2> QED BY <2>1, <2>2
<1>7. DoneIsCharged'
  <2>1. call'[c].pc = "done" => call'[c].unclosed BY <1>1 DEF Goes
  <2> QED BY <1>1, <2>1 DEF ChildrenInv, DoneIsCharged, At
<1> QED BY <1>0, <1>1, <1>2, <1>4, <1>5, <1>6, <1>7 DEF ChildrenInv

\* The last step of a call: its lease goes back, and what it used may be charged.
LEMMA CallEnds ==
  ASSUME Budget \in Nat, ChildrenInv, NEW c \in Children, NEW r, Good(r), NEW u \in Nat,
         Live(c), r.pc = "done", ~r.token, r.waited <=> call[c].waited,
         NEW state, state \in {parent.state, "faulted"}, NEW b \in BOOLEAN,
         r.charged \/ r.unclosed \/ r.child = "none" \/ state = "faulted" \/ ~call[c].waited,
         u = parent.usage \/ (call[c].token /\ u = parent.usage + call[c].read),
         call' = [call EXCEPT ![c] = r],
         parent' = [parent EXCEPT !.token = @ \/ call[c].token, !.usage = u, !.state = state,
                                  !.cancelled = b]
  PROVE  ChildrenInv'
<1> DEFINE q == call[c]
<1>0. /\ call \in [Children -> Delegations] /\ parent \in Parents /\ q \in Delegations
      /\ Placed(q) /\ Counted(q)
  BY DEF ChildrenInv, Good
<1>1. r \in Delegations /\ call' \in [Children -> Delegations] /\ call'[c] = r
      /\ \A d \in Children : d # c => call'[d] = call[d]
  BY <1>0 DEF Good
<1>2. \A d \in Children : Good(call'[d]) BY <1>1 DEF ChildrenInv
<1>3. parent' \in Parents /\ parent'.state = state /\ parent'.usage = u
      /\ parent'.owed = parent.owed
  BY <1>0 DEF Parents
<1>4. parent'.token <=> parent.token \/ q.token BY <1>0 DEF Parents
<1>5. \A d \in Children : call'[d].token <=> d # c /\ call[d].token BY <1>1
<1>6. OneLease'
  <2>1. \A d, e \in Children : call'[d].token /\ call'[e].token => d = e
    BY <1>5 DEF ChildrenInv, OneLease
  <2>2. ASSUME parent'.token
        PROVE  \A d \in Children : ~call'[d].token
    <3>1. CASE parent.token BY <1>5, <3>1 DEF ChildrenInv, OneLease
    <3>2. CASE q.token BY <1>5, <3>2 DEF ChildrenInv, OneLease
    <3> QED BY <1>4, <2>2, <3>1, <3>2
  <2>3. ASSUME \A d \in Children : ~call'[d].token
        PROVE  parent'.token
    <3>1. CASE q.token BY <1>4, <3>1
    <3>2. CASE ~q.token
      <4>1. \A d \in Children : ~call[d].token BY <1>5, <2>3, <3>2
      <4> QED BY <1>4, <4>1 DEF ChildrenInv, OneLease
    <3> QED BY <3>1, <3>2
  <2> QED BY <2>1, <2>2, <2>3 DEF OneLease
<1>7. LeaseFits'
  <2> SUFFICES ASSUME AllWaited'
               PROVE  /\ parent'.usage + parent'.owed <= Budget + 1
                      /\ \A d \in Children : call'[d].token => parent'.usage + call'[d].limit <= Budget
    BY DEF LeaseFits
  <2>1. AllWaited
    <3> SUFFICES ASSUME NEW d \in Children PROVE call[d].waited
      BY DEF AllWaited
    <3>1. call'[d].waited BY DEF AllWaited
    <3> QED BY <1>1, <3>1
  <2>2. /\ parent.usage + parent.owed <= Budget + 1
        /\ \A d \in Children : call[d].token => parent.usage + call[d].limit <= Budget
    BY <2>1 DEF ChildrenInv, LeaseFits
  <2>3. CASE u = parent.usage BY <1>1, <1>3, <1>5, <2>2, <2>3
  <2>4. CASE q.token /\ u = parent.usage + q.read
    <3>1. \A d \in Children : ~call'[d].token BY <1>5, <2>4 DEF ChildrenInv, OneLease
    <3>2. /\ q.read <= q.limit /\ q.read \in Nat /\ q.limit \in Nat /\ parent.usage \in Nat
          /\ parent.owed \in {0, 1}
      BY <1>0 DEF Counted, Delegations, Parents
    <3>3. parent.usage + q.limit <= Budget BY <2>2, <2>4
    <3>4. u + parent.owed <= Budget + 1 BY <2>4, <3>2, <3>3
    <3> QED BY <1>3, <3>1, <3>4
  <2> QED BY <2>3, <2>4
<1>8. IdleAlone' BY <1>1, <1>3 DEF ChildrenInv, IdleAlone, Live
<1>9. DoneIsCharged' BY <1>1, <1>3 DEF ChildrenInv, DoneIsCharged, At
<1> QED BY <1>1, <1>2, <1>3, <1>6, <1>7, <1>8, <1>9 DEF ChildrenInv

\* Every return of a call that is not charged.
LEMMA EndsUncharged ==
  ASSUME Budget \in Nat, ChildrenInv, NEW c \in Children, NEW r, Good(r), Live(c), r.pc = "done",
         ~r.token, r.waited <=> call[c].waited,
         r.unclosed \/ r.child = "none" \/ parent.state = "faulted" \/ ~call[c].waited,
         call' = [call EXCEPT ![c] = r],
         parent' = [parent EXCEPT !.token = @ \/ call[c].token]
  PROVE  ChildrenInv'
<1>1. parent \in Parents /\ parent.usage \in Nat /\ parent.cancelled \in BOOLEAN
  BY DEF ChildrenInv, Parents
<1>2. parent' = [parent EXCEPT !.token = @ \/ call[c].token, !.usage = parent.usage,
                               !.state = parent.state, !.cancelled = parent.cancelled]
  BY <1>1 DEF Parents
<1> QED BY <1>1, <1>2, CallEnds

LEMMA ReturnsChildren ==
  ASSUME Budget \in Nat, ChildrenInv, NEW c \in Children, Returns(c),
         call[c].pc \in {"slot", "leased"} \/ (call[c].pc = "closed" /\ ~Chargeable)
  PROVE  ChildrenInv'
<1> DEFINE q == call[c]
           r == [q EXCEPT !.pc = "done", !.token = FALSE, !.routed = FALSE]
<1>1. q \in Delegations /\ Good(q) /\ parent \in Parents BY DEF ChildrenInv
<1>2. Good(r) /\ Live(c) BY <1>1, DoneGood DEF Live
<1>3. r.pc = "done" /\ ~r.token /\ (r.waited <=> q.waited) /\ r.child = q.child
  BY <1>1 DEF Delegations
<1>4. r.child = "none" \/ parent.state = "faulted" \/ ~q.waited
  <2>1. CASE q.pc \in {"slot", "leased"} BY <1>1, <1>3, <2>1 DEF Good, Placed
  <2>2. CASE ~Chargeable
    <3>1. parent.state \in {"idle", "faulted"} BY <1>1, <2>2 DEF Chargeable, Parents
    <3> QED BY <1>2, <3>1 DEF ChildrenInv, IdleAlone
  <2> QED BY <2>1, <2>2
<1>5. call' = [call EXCEPT ![c] = r] /\ parent' = [parent EXCEPT !.token = @ \/ call[c].token]
  BY DEF Returns, ReturnsAs, Return
<1> HIDE DEF r
<1> QED BY <1>2, <1>3, <1>4, <1>5, EndsUncharged

\* a child that does not close
LEMMA UnclosedChildren ==
  ASSUME Budget \in Nat, ChildrenInv, NEW c \in Children, CloseFails(c)
  PROVE  ChildrenInv'
<1> DEFINE q == call[c]
           r == [q EXCEPT !.pc = "done", !.token = FALSE, !.routed = FALSE, !.unclosed = TRUE]
<1>1. q \in Delegations /\ Good(q) /\ q.pc = "read" BY DEF ChildrenInv, CloseFails, At
<1>2. Good(r) /\ Live(c) BY <1>1, UnclosedGood DEF Live
<1>3. r.pc = "done" /\ ~r.token /\ (r.waited <=> q.waited) /\ r.unclosed
  BY <1>1 DEF Delegations
<1>4. [Return(c, q) EXCEPT !.unclosed = TRUE] = r BY DEF Return
<1>5. call' = [call EXCEPT ![c] = r] /\ parent' = [parent EXCEPT !.token = @ \/ call[c].token]
  BY <1>4 DEF CloseFails, ReturnsAs
<1> HIDE DEF r
<1> QED BY <1>2, <1>3, <1>5, EndsUncharged

\* a child whose first events a faulted parent does not take
LEMMA RefusedChildren ==
  ASSUME Budget \in Nat, ChildrenInv, NEW c \in Children, call[c].pc = "routed",
         parent.state = "faulted",
         call' = [call EXCEPT ![c] = [Return(c, call[c]) EXCEPT !.child = "closed"]],
         parent' = [parent EXCEPT !.token = @ \/ call[c].token]
  PROVE  ChildrenInv'
<1> DEFINE q == call[c]
           r == [q EXCEPT !.pc = "done", !.token = FALSE, !.routed = FALSE, !.child = "closed"]
<1>1. q \in Delegations /\ Good(q) BY DEF ChildrenInv
<1>2. Good(r) /\ Live(c) BY <1>1, RefusedGood DEF Live
<1>3. r.pc = "done" /\ ~r.token /\ (r.waited <=> q.waited) BY <1>1 DEF Delegations
<1>4. [Return(c, q) EXCEPT !.child = "closed"] = r BY DEF Return
<1>5. call' = [call EXCEPT ![c] = r] BY <1>4
<1> HIDE DEF r
<1> QED BY <1>2, <1>3, <1>5, EndsUncharged

LEMMA CommitChildren ==
  ASSUME Budget \in Nat, ChildrenInv, NEW c \in Children, CommitUsage(c) \/ CommitFails(c)
  PROVE  ChildrenInv'
<1> DEFINE q == call[c]
<1>1. /\ q \in Delegations /\ Good(q) /\ parent \in Parents /\ q.pc = "closed" /\ Live(c)
      /\ call \in [Children -> Delegations]
  BY DEF ChildrenInv, CommitUsage, CommitFails, At, Live
<1>2. /\ q.token /\ q.read \in Nat /\ parent.usage \in Nat /\ parent.usage + q.read \in Nat
      /\ parent.cancelled \in BOOLEAN
  BY <1>1 DEF Good, Placed, Leased, Delegations, Parents
<1>3. CASE CommitUsage(c) /\ Chargeable
  <2> DEFINE r == [q EXCEPT !.pc = "done", !.token = FALSE, !.routed = FALSE, !.charged = TRUE]
  <2>1. Good(r) /\ r.pc = "done" /\ ~r.token /\ (r.waited <=> q.waited) /\ r.charged
    BY <1>1, ChargedGood DEF Delegations
  <2>2. call' = [call EXCEPT ![c] = r]
    <3>1. [Return(c, q) EXCEPT !.charged = TRUE] = r BY DEF Return
    <3> QED BY <1>1, <1>3, <3>1 DEF CommitUsage
  <2>3. parent' = [parent EXCEPT !.token = @ \/ call[c].token, !.usage = parent.usage + q.read]
    BY <1>1, <1>3 DEF CommitUsage, Parents
  <2>4. parent' = [parent EXCEPT !.token = @ \/ call[c].token, !.usage = parent.usage + q.read,
                                 !.state = parent.state, !.cancelled = parent.cancelled]
    BY <1>1, <2>3 DEF Parents
  <2> HIDE DEF r
  <2> QED BY <1>1, <1>2, <2>1, <2>2, <2>4, CallEnds
<1>4. CASE CommitUsage(c) /\ ~Chargeable BY <1>1, <1>4, ReturnsChildren DEF CommitUsage
<1>5. CASE CommitFails(c)
  <2> DEFINE r == [q EXCEPT !.pc = "done", !.token = FALSE, !.routed = FALSE]
  <2>1. Good(r) /\ r.pc = "done" /\ ~r.token /\ (r.waited <=> q.waited)
    BY <1>1, DoneGood DEF Delegations
  <2>2. call' = [call EXCEPT ![c] = r] BY <1>1, <1>5 DEF CommitFails, Return
  <2>3. parent' = [parent EXCEPT !.token = @ \/ call[c].token, !.usage = parent.usage,
                                 !.state = "faulted", !.cancelled = TRUE]
    BY <1>1, <1>5 DEF CommitFails, Parents
  <2> HIDE DEF r
  <2> QED BY <1>1, <1>2, <2>1, <2>2, <2>3, CallEnds
<1> QED BY <1>3, <1>4, <1>5

\* The lease is given to one call, with what the parent has left.
LEMMA LeaseChildren ==
  ASSUME Budget \in Nat, ChildrenInv, NEW c \in Children, call[c].pc = "slot", parent.token,
         parent.state = "running", parent.usage < Budget,
         parent' = [parent EXCEPT !.token = FALSE],
         call' = [call EXCEPT ![c].pc = "leased", ![c].token = TRUE,
                              ![c].limit = Budget - parent.usage]
  PROVE  ChildrenInv'
<1> DEFINE q == call[c]
           limit == Budget - parent.usage
           r == [q EXCEPT !.pc = "leased", !.token = TRUE, !.limit = limit]
<1>0. /\ call \in [Children -> Delegations] /\ parent \in Parents /\ q \in Delegations /\ Good(q)
      /\ parent.usage \in Nat
  BY DEF ChildrenInv, Parents
<1>1. limit \in Nat /\ parent.usage + limit <= Budget BY <1>0
<1>2. call' = [call EXCEPT ![c] = r] BY <1>0
<1> HIDE DEF limit
<1>3. Good(r) BY <1>0, <1>1, LeasedGood
<1>4. /\ r.token /\ r.limit = limit /\ (r.waited <=> q.waited) /\ r.pc = "leased"
  BY <1>0, <1>1 DEF Delegations
<1> HIDE DEF r
<1>5. r \in Delegations /\ call' \in [Children -> Delegations] /\ call'[c] = r
      /\ \A d \in Children : d # c => call'[d] = call[d]
  BY <1>0, <1>2, <1>3 DEF Good
<1>6. \A d \in Children : Good(call'[d]) BY <1>3, <1>5 DEF ChildrenInv
<1>7. /\ parent' \in Parents /\ parent'.state = "running" /\ parent'.usage = parent.usage
      /\ parent'.owed = parent.owed /\ ~parent'.token
  BY <1>0 DEF Parents
<1>8. \A d \in Children : call'[d].token <=> d = c
  <2>1. \A d \in Children : ~call[d].token BY DEF ChildrenInv, OneLease
  <2> QED BY <1>4, <1>5, <2>1
<1>9. OneLease' BY <1>7, <1>8 DEF OneLease
<1>10. LeaseFits'
  <2>1. AllWaited' => AllWaited
    <3> SUFFICES ASSUME AllWaited', NEW d \in Children PROVE call[d].waited
      BY DEF AllWaited
    <3>1. call'[d].waited BY DEF AllWaited
    <3> QED BY <1>4, <1>5, <3>1
  <2>2. AllWaited => parent.usage + parent.owed <= Budget + 1 BY DEF ChildrenInv, LeaseFits
  <2> QED BY <1>1, <1>4, <1>5, <1>7, <1>8, <2>1, <2>2 DEF LeaseFits
<1>11. IdleAlone' /\ DoneIsCharged'
  BY <1>4, <1>5, <1>7 DEF ChildrenInv, IdleAlone, DoneIsCharged, At
<1> QED BY <1>5, <1>6, <1>7, <1>9, <1>10, <1>11 DEF ChildrenInv

\* The steps of one call that are not its last and leave the parent alone.
LEMMA OwnChildren ==
  ASSUME ChildrenInv, NEW c \in Children,
         \/ TakeSlot(c)
         \/ At(c, "leased") /\ call' = [call EXCEPT ![c].pc = "built", ![c].child = "idle"]
            /\ UNCHANGED parent
         \/ Route(c)
         \/ /\ At(c, "routed") /\ UNCHANGED parent
            /\ call' = [call EXCEPT ![c].pc = "prompting", ![c].child = "running",
                                    ![c].active = TRUE, ![c].shown = @ \o call[c].held,
                                    ![c].held = <<>>]
         \/ PromptReturns(c) \/ PromptGivesUp(c) \/ ReadUsage(c) \/ ReadNothing(c)
         \/ CloseChild(c) \/ ChildSpends(c) \/ ChildSettles(c) \/ ChildEmits(c)
  PROVE  ChildrenInv'
<1> DEFINE q == call[c]
<1>0. call \in [Children -> Delegations] /\ q \in Delegations /\ Good(q) /\ Placed(q)
  BY DEF ChildrenInv, Good
<1>1. ASSUME NEW r, Good(r), Goes(q, r), call' = [call EXCEPT ![c] = r],
             UNCHANGED parent
      PROVE  ChildrenInv'
  BY <1>1, CallGoes
<1>2. CASE TakeSlot(c)
  <2> DEFINE r == [q EXCEPT !.pc = "slot"]
  <2>1. q.pc = "new" /\ parent.state = "running" /\ call' = [call EXCEPT ![c] = r] /\ UNCHANGED parent
    BY <1>0, <1>2 DEF TakeSlot, At
  <2>2. Good(r) BY <1>0, <2>1, SlotGood
  <2>3. Goes(q, r) BY <1>0, <2>1 DEF Goes, Delegations
  <2> HIDE DEF r
  <2> QED BY <1>1, <2>1, <2>2, <2>3
<1>3. CASE At(c, "leased") /\ call' = [call EXCEPT ![c].pc = "built", ![c].child = "idle"]
           /\ UNCHANGED parent
  <2> DEFINE r == [q EXCEPT !.pc = "built", !.child = "idle"]
  <2>1. q.pc = "leased" /\ call' = [call EXCEPT ![c] = r] /\ UNCHANGED parent
    BY <1>0, <1>3 DEF At
  <2>2. Good(r) BY <1>0, <2>1, BuiltGood
  <2>3. Goes(q, r) BY <1>0, <2>1 DEF Goes, Delegations
  <2> HIDE DEF r
  <2> QED BY <1>1, <2>1, <2>2, <2>3
<1>4. CASE Route(c)
  <2> DEFINE r == [q EXCEPT !.pc = "routed", !.routed = TRUE]
  <2>1. q.pc = "built" /\ call' = [call EXCEPT ![c] = r] /\ UNCHANGED parent
    BY <1>0, <1>4 DEF Route, At
  <2>2. Good(r) BY <1>0, <2>1, RoutedGood
  <2>3. Goes(q, r) BY <1>0, <2>1 DEF Goes, Delegations
  <2> HIDE DEF r
  <2> QED BY <1>1, <2>1, <2>2, <2>3
<1>5. CASE /\ At(c, "routed") /\ UNCHANGED parent
           /\ call' = [call EXCEPT ![c].pc = "prompting", ![c].child = "running",
                                   ![c].active = TRUE, ![c].shown = @ \o call[c].held,
                                   ![c].held = <<>>]
  <2> DEFINE r == [q EXCEPT !.pc = "prompting", !.child = "running", !.active = TRUE,
                          !.shown = @ \o q.held, !.held = <<>>]
  <2>1. q.pc = "routed" /\ call' = [call EXCEPT ![c] = r] /\ UNCHANGED parent
    BY <1>0, <1>5 DEF At
  <2>2. Good(r) BY <1>0, <2>1, ActivatedGood
  <2>3. Goes(q, r) BY <1>0, <2>1 DEF Goes, Delegations
  <2> HIDE DEF r
  <2> QED BY <1>1, <2>1, <2>2, <2>3
<1>6. CASE PromptReturns(c)
  <2> DEFINE r == [q EXCEPT !.pc = "settled"]
  <2>1. /\ q.pc = "prompting" /\ q.child \in {"settled", "faulted"}
        /\ call' = [call EXCEPT ![c] = r] /\ UNCHANGED parent
    BY <1>0, <1>6 DEF PromptReturns, At
  <2>2. Good(r) BY <1>0, <2>1, ReturnedGood
  <2>3. Goes(q, r) BY <1>0, <2>1 DEF Goes, Delegations
  <2> HIDE DEF r
  <2> QED BY <1>1, <2>1, <2>2, <2>3
<1>7. CASE PromptGivesUp(c)
  <2> DEFINE r == [q EXCEPT !.pc = "settled", !.gaveUp = TRUE]
  <2>1. q.pc = "prompting" /\ q.child = "running" /\ call' = [call EXCEPT ![c] = r] /\ UNCHANGED parent
    BY <1>0, <1>7 DEF PromptGivesUp, At
  <2>2. Good(r) BY <1>0, <2>1, GivenUpGood
  <2>3. Goes(q, r) BY <1>0, <2>1 DEF Goes, Delegations
  <2> HIDE DEF r
  <2> QED BY <1>1, <2>1, <2>2, <2>3
<1>8. CASE ReadUsage(c)
  <2> DEFINE r == [q EXCEPT !.pc = "read", !.read = q.used]
  <2>1. q.pc = "settled" /\ call' = [call EXCEPT ![c] = r] /\ UNCHANGED parent
    BY <1>0, <1>8 DEF ReadUsage, At
  <2>2. Good(r) BY <1>0, <2>1, ReadGood
  <2>3. Goes(q, r) BY <1>0, <2>1 DEF Goes, Delegations
  <2> HIDE DEF r
  <2> QED BY <1>1, <2>1, <2>2, <2>3
<1>14. CASE ReadNothing(c)
  <2> DEFINE r == [q EXCEPT !.pc = "read", !.blind = TRUE]
  <2>1. q.pc = "settled" /\ q.child = "faulted" /\ call' = [call EXCEPT ![c] = r] /\ UNCHANGED parent
    BY <1>0, <1>14 DEF ReadNothing, At
  <2>2. Good(r) BY <1>0, <2>1, BlindGood
  <2>3. Goes(q, r) BY <1>0, <2>1 DEF Goes, Delegations
  <2> HIDE DEF r
  <2> QED BY <1>1, <2>1, <2>2, <2>3
<1>9. CASE CloseChild(c)
  <2> DEFINE r == [q EXCEPT !.pc = "closed", !.child = "closed"]
  <2>1. q.pc = "read" /\ q.child # "running" /\ call' = [call EXCEPT ![c] = r] /\ UNCHANGED parent
    BY <1>0, <1>9 DEF CloseChild, At
  <2>2. Good(r) BY <1>0, <2>1, ClosedGood
  <2>3. Goes(q, r) BY <1>0, <2>1 DEF Goes, Delegations
  <2> HIDE DEF r
  <2> QED BY <1>1, <2>1, <2>2, <2>3
<1>10. CASE ChildSpends(c)
  <2> DEFINE r == [q EXCEPT !.used = @ + 1]
  <2>1. q.child = "running" /\ q.used < q.limit /\ call' = [call EXCEPT ![c] = r] /\ UNCHANGED parent
    BY <1>0, <1>10 DEF ChildSpends
  <2>2. Good(r) BY <1>0, <2>1, SpentGood
  <2>3. Goes(q, r) BY <1>0, <2>1 DEF Goes, Delegations, Placed
  <2> HIDE DEF r
  <2> QED BY <1>1, <2>1, <2>2, <2>3
<1>11. CASE ChildSettles(c)
  <2>0. PICK state \in {"settled", "faulted"} :
          call' = [call EXCEPT ![c].child = state] /\ UNCHANGED parent /\ q.child = "running"
    BY <1>11 DEF ChildSettles
  <2> DEFINE r == [q EXCEPT !.child = state]
  <2>1. q.child = "running" /\ call' = [call EXCEPT ![c] = r] /\ UNCHANGED parent
    BY <1>0, <2>0
  <2>2. Good(r) BY <1>0, <2>1, SettledGood
  <2>3. Goes(q, r) BY <1>0, <2>1 DEF Goes, Delegations, Placed
  <2> HIDE DEF r
  <2> QED BY <1>1, <2>1, <2>2, <2>3
<1>12. CASE ChildEmits(c) /\ ~q.active
  <2> DEFINE r == [q EXCEPT !.emitted = q.emitted + 1, !.held = Append(@, q.emitted + 1)]
  <2>1. q.child \in {"idle", "running"} /\ call' = [call EXCEPT ![c] = r] /\ UNCHANGED parent
    BY <1>0, <1>12 DEF ChildEmits, HoldsEvents
  <2>2. Good(r) BY <1>0, <1>12, HeldGood
  <2>3. Goes(q, r) BY <1>0, <2>1 DEF Goes, Delegations, Placed
  <2> HIDE DEF r
  <2> QED BY <1>1, <2>1, <2>2, <2>3
<1>13. CASE ChildEmits(c) /\ q.active
  <2> DEFINE r == [q EXCEPT !.emitted = q.emitted + 1, !.shown = Append(@, q.emitted + 1)]
  <2>1. q.child \in {"idle", "running"} /\ call' = [call EXCEPT ![c] = r] /\ UNCHANGED parent
    BY <1>0, <1>13 DEF ChildEmits, HoldsEvents
  <2>2. Good(r) BY <1>0, <1>13, ShownGood
  <2>3. Goes(q, r) BY <1>0, <2>1 DEF Goes, Delegations, Placed
  <2> HIDE DEF r
  <2> QED BY <1>1, <2>1, <2>2, <2>3
<1> QED BY <1>2, <1>3, <1>4, <1>5, <1>6, <1>7, <1>8, <1>9, <1>10, <1>11, <1>12, <1>13, <1>14

LEMMA AcquireChildren ==
  ASSUME Budget \in Nat, ChildrenInv, NEW c \in Children, AcquireBudget(c)
  PROVE  ChildrenInv'
<1>1. call[c].pc = "slot" BY DEF AcquireBudget, At
<1>2. CASE Returns(c) BY <1>1, <1>2, ReturnsChildren
<1>3. CASE /\ Serialises(c) /\ parent.state = "running" /\ parent.usage < Budget
           /\ parent' = [parent EXCEPT !.token = FALSE]
           /\ call' = [call EXCEPT ![c].pc = "leased", ![c].token = TRUE,
                                   ![c].limit = Budget - parent.usage]
  BY <1>1, <1>3, LeaseChildren DEF Serialises
<1> QED BY <1>2, <1>3 DEF AcquireBudget

(***************************************************************************)
(* The parent's own steps.                                                 *)
(***************************************************************************)
\* Its turn ends, its run settles and its next turn begins only while it waits for no
\* call: then none that it waits for has the lease.
LEMMA TurnChildren ==
  ASSUME Budget \in Nat, ChildrenInv, ParentStarts \/ ParentTurnEnds \/ ParentAsks \/ ParentSettles
  PROVE  ChildrenInv'
<1>0. parent \in Parents /\ parent.usage \in Nat /\ parent.owed \in {0, 1} /\ UNCHANGED call
  BY DEF ChildrenInv, Parents, ParentStarts, ParentTurnEnds, ParentAsks, ParentSettles
<1>1. ASSUME NEW usage \in Nat, NEW owed \in {0, 1},
             parent'.usage = usage, parent'.owed = owed, parent' \in Parents,
             parent'.token <=> parent.token, parent.state # "faulted",
             parent.usage + parent.owed <= Budget + 1 => usage + owed <= Budget + 1,
             usage = parent.usage \/ Awaited = {},
             parent'.state = "idle" => Awaited = {}
      PROVE  ChildrenInv'
  <2>1. Awaited = {} => \A c \in Children : call[c].waited => ~Live(c) /\ ~call[c].token
    <3> SUFFICES ASSUME Awaited = {}, NEW c \in Children, call[c].waited
                 PROVE  ~Live(c) /\ ~call[c].token
      OBVIOUS
    <3>1. ~Live(c) BY DEF Awaited
    <3> QED BY <3>1 DEF Live, ChildrenInv, Good, Placed, Leased
  <2>2. OneLease' BY <1>0, <1>1 DEF ChildrenInv, OneLease
  <2>3. LeaseFits' BY <1>0, <1>1, <2>1 DEF ChildrenInv, LeaseFits, AllWaited
  <2>4. IdleAlone' BY <1>0, <1>1, <2>1 DEF IdleAlone, Live
  <2>5. DoneIsCharged' BY <1>0, <1>1 DEF ChildrenInv, DoneIsCharged, At
  <2> QED BY <1>0, <1>1, <2>2, <2>3, <2>4, <2>5 DEF ChildrenInv
<1>2. CASE ParentStarts
  <2>1. /\ parent'.usage = parent.usage /\ parent'.owed = 1 /\ parent' \in Parents
        /\ (parent'.token <=> parent.token) /\ parent'.state = "running"
        /\ parent.state = "idle" /\ parent.usage < Budget
    BY <1>0, <1>2 DEF ParentStarts, Parents
  <2> QED BY <1>0, <1>1, <2>1
<1>3. CASE ParentTurnEnds
  <2> DEFINE usage == parent.usage + parent.owed
  <2>1. usage \in Nat BY <1>0
  <2>2. parent' = [parent EXCEPT !.usage = usage, !.owed = 0]
    BY <1>0, <1>3 DEF ParentTurnEnds, AfterTurn, Parents
  <2>3. usage + 0 = parent.usage + parent.owed BY <1>0
  <2> HIDE DEF usage
  <2>4. /\ parent'.usage = usage /\ parent'.owed = 0 /\ parent' \in Parents
        /\ (parent'.token <=> parent.token) /\ parent'.state = "running"
        /\ parent.state = "running" /\ Awaited = {}
    BY <1>0, <1>3, <2>1, <2>2 DEF ParentTurnEnds, Parents
  <2> QED BY <1>0, <1>1, <2>1, <2>3, <2>4
<1>4. CASE ParentAsks
  <2>1. /\ parent'.usage = parent.usage /\ parent'.owed = 1 /\ parent' \in Parents
        /\ (parent'.token <=> parent.token) /\ parent'.state = "running"
        /\ parent.state = "running" /\ parent.usage < Budget
    BY <1>0, <1>4 DEF ParentAsks, Parents
  <2> QED BY <1>0, <1>1, <2>1
<1>5. CASE ParentSettles
  <2>1. /\ parent'.usage = parent.usage /\ parent'.owed = parent.owed /\ parent' \in Parents
        /\ (parent'.token <=> parent.token) /\ parent.state = "running" /\ Awaited = {}
    BY <1>0, <1>5 DEF ParentSettles, Parents
  <2> QED BY <1>0, <1>1, <2>1
<1> QED BY <1>2, <1>3, <1>4, <1>5

\* A change of state that is neither to idle nor away from faulted.
LEMMA StateChildren ==
  ASSUME ChildrenInv, NEW state \in {"running", "interrupting", "faulted"}, NEW b \in BOOLEAN,
         parent.state # "faulted", parent' = [parent EXCEPT !.state = state, !.cancelled = b],
         UNCHANGED call
  PROVE  ChildrenInv'
<1>1. parent \in Parents BY DEF ChildrenInv
<1>2. parent' \in Parents /\ parent'.state = state /\ parent'.usage = parent.usage
      /\ parent'.owed = parent.owed /\ (parent'.token <=> parent.token)
  BY <1>1 DEF Parents
<1>3. OneLease' /\ LeaseFits' BY <1>2 DEF ChildrenInv, OneLease, LeaseFits, AllWaited
<1>4. IdleAlone' /\ DoneIsCharged' BY <1>2 DEF ChildrenInv, IdleAlone, DoneIsCharged, At
<1> QED BY <1>2, <1>3, <1>4 DEF ChildrenInv

\* The calls that it leaves behind are those with the lease.
LEMMA GoesOnChildren ==
  ASSUME Budget \in Nat, ChildrenInv, ParentGoesOn
  PROVE  ChildrenInv'
<1> DEFINE usage == parent.usage + parent.owed
<1>0. /\ parent \in Parents /\ call \in [Children -> Delegations] /\ parent.state = "interrupting"
      /\ parent.usage \in Nat /\ parent.owed \in {0, 1} /\ usage \in Nat
  BY DEF ChildrenInv, ParentGoesOn, Parents
<1>1. /\ parent' = [parent EXCEPT !.state = "idle", !.usage = usage, !.owed = 0]
      /\ call' = [c \in Children |-> [call[c] EXCEPT !.waited = @ /\ ~Live(c)]]
  BY <1>0 DEF ParentGoesOn, Parents
<1> HIDE DEF usage
<1>2. parent' \in Parents /\ parent'.state = "idle" /\ parent'.usage = usage
      /\ parent'.owed = 0 /\ (parent'.token <=> parent.token)
  BY <1>0, <1>1 DEF Parents
<1>3. ASSUME NEW c \in Children
      PROVE  /\ Good(call'[c])
             /\ (call'[c].token <=> call[c].token) /\ call'[c].limit = call[c].limit
             /\ (call'[c].waited <=> call[c].waited /\ ~Live(c)) /\ call'[c].pc = call[c].pc
             /\ call'[c].child = call[c].child /\ (call'[c].charged <=> call[c].charged)
             /\ (call'[c].unclosed <=> call[c].unclosed)
  <2> DEFINE b == call[c].waited /\ ~Live(c)
             r == [call[c] EXCEPT !.waited = b]
  <2>1. b \in BOOLEAN /\ call[c] \in Delegations /\ Good(call[c]) BY DEF ChildrenInv
  <2>2. call'[c] = r BY <1>1
  <2>3. Good(r) BY <2>1, LeftGood
  <2>4. r.waited <=> call[c].waited /\ ~Live(c) BY <2>1 DEF Delegations
  <2> HIDE DEF b
  <2>5. /\ (r.token <=> call[c].token) /\ r.limit = call[c].limit /\ r.pc = call[c].pc
        /\ r.child = call[c].child /\ (r.charged <=> call[c].charged)
        /\ (r.unclosed <=> call[c].unclosed)
    BY <2>1 DEF Delegations
  <2> HIDE DEF r
  <2> QED BY <2>2, <2>3, <2>4, <2>5
<1>4. call' \in [Children -> Delegations] BY <1>1, <1>3 DEF Good
<1>5. OneLease' BY <1>2, <1>3 DEF ChildrenInv, OneLease
<1>6. LeaseFits'
  <2> SUFFICES ASSUME AllWaited'
               PROVE  /\ parent'.usage + parent'.owed <= Budget + 1
                      /\ \A c \in Children : ~call'[c].token
    BY DEF LeaseFits
  <2>1. \A c \in Children : call'[c].waited BY DEF AllWaited
  <2>2. \A c \in Children : call[c].waited /\ ~Live(c) BY <1>3, <2>1
  <2>3. \A c \in Children : ~call'[c].token
    BY <1>3, <2>2 DEF Live, ChildrenInv, Good, Placed, Leased
  <2>4. parent.usage + parent.owed <= Budget + 1
    BY <2>2 DEF ChildrenInv, LeaseFits, AllWaited
  <2> QED BY <1>0, <1>2, <2>3, <2>4 DEF usage
<1>7. IdleAlone' BY <1>3 DEF IdleAlone, Live
<1>8. DoneIsCharged' BY <1>0, <1>2, <1>3 DEF ChildrenInv, DoneIsCharged, At
<1> QED BY <1>2, <1>3, <1>4, <1>5, <1>6, <1>7, <1>8 DEF ChildrenInv

LEMMA NextChildren ==
  ASSUME Budget \in Nat, ChildrenInv, [ChildrenNext]_childVars
  PROVE  ChildrenInv'
<1>1. ASSUME NEW c \in Children, Build(c)
      PROVE  ChildrenInv'
  <2>1. CASE Returns(c)
    <3>1. call[c].pc = "leased" BY <1>1 DEF Build, At
    <3> QED BY <2>1, <3>1, ReturnsChildren
  <2>2. CASE call' = [call EXCEPT ![c].pc = "built", ![c].child = "idle"] /\ UNCHANGED parent
    BY <1>1, <2>2, OwnChildren DEF Build
  <2> QED BY <1>1, <2>1, <2>2 DEF Build
<1>2. ASSUME NEW c \in Children, Activate(c)
      PROVE  ChildrenInv'
  <2>1. call[c].pc = "routed" BY <1>2 DEF Activate, At
  <2>2. CASE UNCHANGED parent /\ parent.state # "faulted"
    BY <1>2, <2>2, OwnChildren DEF Activate
  <2>3. CASE /\ parent.state = "faulted"
             /\ call' = [call EXCEPT ![c] = [Return(c, call[c]) EXCEPT !.child = "closed"]]
             /\ parent' = [parent EXCEPT !.token = @ \/ call[c].token]
    BY <2>1, <2>3, RefusedChildren
  <2>4. CASE UNCHANGED parent /\ parent.state = "faulted" /\ call[c].held = <<>>
    BY <1>2, <2>1, <2>4, OwnChildren DEF Activate, ReturnsAs, At
  <2> QED BY <1>2, <2>2, <2>3, <2>4 DEF Activate, ReturnsAs
<1>3. CASE ParentCancels
  <2>1. parent' = [parent EXCEPT !.state = "interrupting", !.cancelled = TRUE]
    BY <1>3 DEF ParentCancels, ChildrenInv, Parents
  <2> QED BY <1>3, <2>1, StateChildren DEF ParentCancels
<1>5. CASE ParentFaults BY <1>5, StateChildren DEF ParentFaults
<1>6. CASE UNCHANGED childVars
  <2>1. UNCHANGED <<parent, call>> BY <1>6 DEF childVars
  <2> QED BY <2>1 DEF ChildrenInv, OneLease, LeaseFits, AllWaited, IdleAlone, DoneIsCharged, Live, At
<1>7. ASSUME NEW c \in Children,
             \/ TakeSlot(c) \/ AcquireBudget(c) \/ Build(c) \/ Route(c) \/ Activate(c)
             \/ PromptReturns(c) \/ PromptGivesUp(c) \/ ReadUsage(c) \/ ReadNothing(c)
             \/ CloseChild(c) \/ CloseFails(c) \/ CommitUsage(c) \/ CommitFails(c)
             \/ ChildSpends(c) \/ ChildSettles(c) \/ ChildEmits(c)
      PROVE  ChildrenInv'
  BY <1>1, <1>2, <1>7, OwnChildren, AcquireChildren, UnclosedChildren, CommitChildren
<1> QED BY <1>3, <1>5, <1>6, <1>7, TurnChildren, GoesOnChildren DEF ChildrenNext

(***************************************************************************)
(* What follows.                                                           *)
(***************************************************************************)
LEMMA InvShares ==
  ASSUME Budget \in Nat, ChildrenInv
  PROVE  BudgetIsShared
<1>1. ASSUME NEW c \in Spending
      PROVE  /\ c \in Children /\ call[c].token /\ call[c].used <= call[c].limit
             /\ call[c].used \in Nat /\ call[c].limit \in Nat
  <2>1. c \in Children /\ Live(c) /\ call[c].used > 0 BY DEF Spending
  <2>2. call[c] \in Delegations /\ Placed(call[c]) /\ Counted(call[c])
    BY <2>1 DEF ChildrenInv, Good
  <2>3. call[c].child \notin {"none", "idle"} /\ call[c].pc \notin {"new", "done"}
    BY <2>1, <2>2 DEF Counted, Live
  <2>4. call[c].pc \in Leased BY <2>2, <2>3 DEF Placed, Leased, Delegations
  <2> QED BY <2>1, <2>2, <2>4 DEF Placed, Counted, Delegations
<1>2. \A c, d \in Spending : c = d BY <1>1 DEF ChildrenInv, OneLease
<1>3. ASSUME AllWaited
      PROVE  /\ parent.usage + parent.owed <= Budget + 1
             /\ \A c \in Spending : parent.usage + call[c].used <= Budget
  <2>1. /\ parent.usage + parent.owed <= Budget + 1 /\ parent.usage \in Nat
        /\ \A c \in Children : call[c].token => parent.usage + call[c].limit <= Budget
    BY <1>3 DEF ChildrenInv, LeaseFits, Parents
  <2>2. ASSUME NEW c \in Spending
        PROVE  parent.usage + call[c].used <= Budget
    <3>1. parent.usage + call[c].limit <= Budget BY <1>1, <2>1
    <3> QED BY <1>1, <2>1, <3>1
  <2> QED BY <2>1, <2>2
<1> QED BY <1>2, <1>3 DEF BudgetIsShared, AllWaited, ChildrenInv, OneLease

LEMMA InvCharges ==
  ASSUME ChildrenInv
  PROVE  ChildUsageIsCharged
<1> SUFFICES ASSUME NEW c \in Children, At(c, "done"), call[c].waited, ~call[c].unclosed,
                    parent.state # "faulted"
             PROVE  \/ call[c].used = 0
                    \/ /\ call[c].charged
                       /\ call[c].gaveUp \/ call[c].blind \/ call[c].read = call[c].used
  BY DEF ChildUsageIsCharged
<1>1. Counted(call[c]) BY DEF ChildrenInv, Good
<1>2. CASE call[c].child = "none" BY <1>1, <1>2 DEF Counted
<1>3. CASE call[c].child # "none" BY <1>1, <1>3 DEF Counted, ChildrenInv, DoneIsCharged, At
<1> QED BY <1>2, <1>3

LEMMA InvRelays ==
  ASSUME ChildrenInv
  PROVE  EventsFollowRoute
<1> SUFFICES ASSUME NEW c \in Children
             PROVE  /\ call[c].shown # <<>> => call[c].pc \notin {"new", "slot", "leased", "built"}
                    /\ call[c].shown \o call[c].held = [n \in 1..call[c].emitted |-> n]
  BY DEF EventsFollowRoute
<1>1. Relayed(call[c]) /\ call[c].held \in Seq(Nat) /\ call[c].shown \in Seq(Nat)
  BY DEF ChildrenInv, Good, Delegations
<1>2. call[c].shown # <<>> => call[c].pc \notin {"new", "slot", "leased", "built"}
  BY <1>1 DEF Relayed
<1>3. call[c].shown \o call[c].held = FirstN(call[c].emitted)
  <2>1. CASE call[c].active
    <3>1. call[c].held = <<>> /\ call[c].shown = FirstN(call[c].emitted)
      BY <1>1, <2>1 DEF Relayed
    <3>2. call[c].shown \o <<>> = call[c].shown BY <1>1
    <3> QED BY <3>1, <3>2
  <2>2. CASE ~call[c].active
    <3>1. call[c].shown = <<>> /\ call[c].held = FirstN(call[c].emitted)
      BY <1>1, <2>2 DEF Relayed
    <3>2. <<>> \o call[c].held = call[c].held BY <1>1
    <3> QED BY <3>1, <3>2
  <2> QED BY <2>1, <2>2
<1> QED BY <1>2, <1>3 DEF FirstN

\* While the parent waits for its calls, one child at a time spends what the parent
\* has not been charged yet, and with the request of the turn, which is charged after
\* the children, the session exceeds its budget by one request at most. Where the
\* parent waited and has not faulted, a child that used anything and could be closed
\* was charged, in full unless its call gave up on it or it had faulted. And the
\* parent's bus has a child's events in their order, none before the child can be
\* addressed (AcquireBudget, childBudgetLease, Commit, Emit, projectingFactory).
THEOREM ChildrenAccounted ==
  ASSUME Budget \in Nat
  PROVE  ChildrenSpec => []ChildrenAreAccounted
<1>1. ChildrenInit => ChildrenInv BY InitChildren
<1>2. ChildrenInv /\ [ChildrenNext]_childVars => ChildrenInv' BY NextChildren
<1>3. ChildrenInv => ChildrenAreAccounted
  BY InvShares, InvCharges, InvRelays DEF ChildrenAreAccounted
<1> QED BY <1>1, <1>2, <1>3, PTL DEF ChildrenSpec

-----------------------------------------------------------------------------
(***************************************************************************)
(* The gate.  First the policy: the patterns' weights and what they match, *)
(* and that some rule is the best.  Then the state: an operator's plan is  *)
(* read with the suspension it was made for, whose number no other         *)
(* suspension has.                                                         *)
(***************************************************************************)
Policies == [fallback : Decisions, rules : UNION {[1..n -> Rules] : n \in Nat}]

(***************************************************************************)
(* Patterns.                                                               *)
(***************************************************************************)
LEMMA LiteralsNat ==
  ASSUME NEW segment
  PROVE  Literals(segment) \in Nat
BY DEF Literals

IsWeight(f, pattern) ==
  f = [n \in 0..Len(pattern) |-> IF n = 0 THEN 0 ELSE f[n - 1] + Literals(pattern[n])]

LEMMA WeightIs ==
  ASSUME NEW pattern, NEW f, IsWeight(f, pattern), Len(pattern) \in {1, 2}
  PROVE  Specificity(pattern) = IF Len(pattern) = 1 THEN Literals(pattern[1])
                                ELSE Literals(pattern[1]) + Literals(pattern[2])
<1> DEFINE g == CHOOSE g : IsWeight(g, pattern)
<1>1. IsWeight(g, pattern)
  OBVIOUS
<1>2. Specificity(pattern) = g[Len(pattern)] BY DEF Specificity, IsWeight
<1> HIDE DEF g
<1>3. \A n \in 0..Len(pattern) : g[n] = IF n = 0 THEN 0 ELSE g[n - 1] + Literals(pattern[n])
  BY <1>1 DEF IsWeight
<1>4. Literals(pattern[1]) \in Nat /\ Literals(pattern[2]) \in Nat BY LiteralsNat
<1>5. g[0] = 0 /\ g[1] = Literals(pattern[1])
  <2>1. 0 \in 0..Len(pattern) /\ 1 \in 0..Len(pattern)
    OBVIOUS
  <2>2. g[0] = 0 /\ g[1] = g[1 - 1] + Literals(pattern[1]) BY <1>3, <2>1
  <2> QED BY <1>4, <2>2
<1>6. Len(pattern) = 2 => g[2] = Literals(pattern[1]) + Literals(pattern[2])
  <2> SUFFICES ASSUME Len(pattern) = 2 PROVE g[2] = Literals(pattern[1]) + Literals(pattern[2])
    OBVIOUS
  <2>1. g[2] = g[2 - 1] + Literals(pattern[2]) BY <1>3
  <2> QED BY <1>5, <2>1
<1> QED BY <1>2, <1>5, <1>6

LEMMA OneSegment ==
  ASSUME NEW pattern, Len(pattern) = 1
  PROVE  Specificity(pattern) = Literals(pattern[1])
<1> DEFINE f == [n \in 0..1 |-> IF n = 0 THEN 0 ELSE Literals(pattern[1])]
<1>1. IsWeight(f, pattern)
  <2>1. Literals(pattern[1]) \in Nat BY LiteralsNat
  <2>2. \A n \in 0..1 : f[n] = IF n = 0 THEN 0 ELSE f[n - 1] + Literals(pattern[n]) BY <2>1
  <2> QED BY <2>2 DEF IsWeight
<1> HIDE DEF f
<1> QED BY <1>1, WeightIs

LEMMA TwoSegments ==
  ASSUME NEW pattern, Len(pattern) = 2
  PROVE  Specificity(pattern) = Literals(pattern[1]) + Literals(pattern[2])
<1> DEFINE f == [n \in 0..2 |-> IF n = 0 THEN 0 ELSE IF n = 1 THEN Literals(pattern[1])
                                ELSE Literals(pattern[1]) + Literals(pattern[2])]
<1>1. IsWeight(f, pattern)
  <2>1. Literals(pattern[1]) \in Nat BY LiteralsNat
  <2>2. \A n \in 0..2 : f[n] = IF n = 0 THEN 0 ELSE f[n - 1] + Literals(pattern[n]) BY <2>1
  <2> QED BY <2>2 DEF IsWeight
<1> HIDE DEF f
<1> QED BY <1>1, WeightIs

LEMMA Weights ==
  /\ Specificity(<<"**">>) = 0 /\ Specificity(<<"a", "**">>) = 1
  /\ Specificity(<<"a", "*">>) = 1 /\ Specificity(<<"a", "[ab]">>) = 3
  /\ Specificity(<<"a", "a">>) = 2 /\ Specificity(<<"*", "b">>) = 1
<1>1. /\ Literals("**") = 0 /\ Literals("*") = 0 /\ Literals("[ab]") = 2
      /\ Literals("a") = 1 /\ Literals("b") = 1
  BY DEF Literals
<1>2. Specificity(<<"**">>) = 0
  <2> DEFINE p == <<"**">>
  <2>1. Len(p) = 1 /\ p[1] = "**"
    OBVIOUS
  <2> HIDE DEF p
  <2>2. Specificity(p) = Literals(p[1]) BY <2>1, OneSegment
  <2> QED BY <1>1, <2>1, <2>2 DEF p
<1>3. ASSUME NEW x, NEW y
      PROVE  Specificity(<<x, y>>) = Literals(x) + Literals(y)
  <2> DEFINE p == <<x, y>>
  <2>1. Len(p) = 2 /\ p[1] = x /\ p[2] = y
    OBVIOUS
  <2> HIDE DEF p
  <2>2. Specificity(p) = Literals(p[1]) + Literals(p[2]) BY <2>1, TwoSegments
  <2> QED BY <2>1, <2>2 DEF p
<1>4. /\ Specificity(<<"a", "**">>) = 1 + 0 /\ Specificity(<<"a", "*">>) = 1 + 0
      /\ Specificity(<<"a", "[ab]">>) = 1 + 2 /\ Specificity(<<"a", "a">>) = 1 + 1
      /\ Specificity(<<"*", "b">>) = 0 + 1
  BY <1>1, <1>3
<1> QED BY <1>2, <1>4

\* What a pattern matches among requests of two segments.
LEMMA Matches ==
  ASSUME NEW x, NEW y
  PROVE  /\ matchPattern(<<"**">>, <<x, y>>)
         /\ matchPattern(<<"a", "**">>, <<x, y>>) <=> x = "a"
         /\ matchPattern(<<"a", "*">>, <<x, y>>) <=> x = "a"
         /\ matchPattern(<<"a", "a">>, <<x, y>>) <=> x = "a" /\ y = "a"
         /\ matchPattern(<<"*", "b">>, <<x, y>>) <=> y = "b"
<1>1. matchPattern(<<"**">>, <<x, y>>) BY DEF matchPattern, Last
<1>2. matchPattern(<<"a", "**">>, <<x, y>>) <=> x = "a"
  BY DEF matchPattern, matchSegment, Last
<1>3. matchPattern(<<"a", "*">>, <<x, y>>) <=> x = "a"
  BY DEF matchPattern, matchSegment, Last
<1>4. matchPattern(<<"a", "a">>, <<x, y>>) <=> x = "a" /\ y = "a"
  BY DEF matchPattern, matchSegment, Last
<1>5. matchPattern(<<"*", "b">>, <<x, y>>) <=> y = "b"
  BY DEF matchPattern, matchSegment, Last
<1> QED BY <1>1, <1>2, <1>3, <1>4, <1>5

Plain == {<<"**">>, <<"a", "**">>, <<"a", "*">>, <<"a", "a">>, <<"*", "b">>}

LEMMA PlainPatterns ==
  ASSUME NEW p \in Patterns, "[ab]" \notin Range(p)
  PROVE  p \in Plain
<1>1. p # <<"a", "[ab]">>
  <2>1. <<"a", "[ab]">>[2] = "[ab]" /\ 2 \in DOMAIN <<"a", "[ab]">>
    OBVIOUS
  <2> QED BY <2>1 DEF Range
<1> QED BY <1>1 DEF Patterns, Plain

\* Of two patterns without a class the one that stands for fewer requests weighs more.
LEMMA NarrowerWeighsMore ==
  ASSUME NEW p \in Plain, NEW q \in Plain, Stands(p) \subseteq Stands(q), Stands(p) # Stands(q)
  PROVE  Specificity(p) > Specificity(q)
<1> DEFINE has(t, x, y) == <<x, y>> \in Stands(t)
<1>1. ASSUME NEW t, NEW x \in {"a", "b"}, NEW y \in {"a", "b", "c"}
      PROVE  has(t, x, y) <=> matchPattern(t, <<x, y>>)
  BY <1>1 DEF Stands
<1>2. \A x \in {"a", "b"}, y \in {"a", "b"} :
        /\ has(<<"**">>, x, y)
        /\ (has(<<"a", "**">>, x, y) <=> x = "a") /\ (has(<<"a", "*">>, x, y) <=> x = "a")
        /\ (has(<<"a", "a">>, x, y) <=> x = "a" /\ y = "a") /\ (has(<<"*", "b">>, x, y) <=> y = "b")
  <2> TAKE x \in {"a", "b"}, y \in {"a", "b"}
  <2>1. \A t : has(t, x, y) <=> matchPattern(t, <<x, y>>) BY <1>1
  <2> HIDE DEF has
  <2> QED BY <2>1, Matches
<1>3. Stands(<<"a", "**">>) = Stands(<<"a", "*">>)
  <2>1. ASSUME NEW r \in {"a", "b"} \X {"a", "b", "c"}
        PROVE  matchPattern(<<"a", "**">>, r) <=> matchPattern(<<"a", "*">>, r)
    <3>1. PICK x \in {"a", "b"}, y \in {"a", "b", "c"} : r = <<x, y>>
      OBVIOUS
    <3> QED BY <3>1, Matches
  <2> QED BY <2>1 DEF Stands
<1>4. \A x \in {"a", "b"}, y \in {"a", "b"} : has(p, x, y) => has(q, x, y)
  OBVIOUS
<1> HIDE DEF has
<1>5. CASE q = <<"**">>
  <2>1. p # q
    OBVIOUS
  <2> QED BY <1>5, <2>1, Weights DEF Plain
<1>6. CASE q = <<"a", "**">> \/ q = <<"a", "*">>
  <2>1. ~has(q, "b", "a") /\ ~has(q, "b", "b") BY <1>2, <1>6
  <2>2. p # <<"**">> /\ p # <<"*", "b">> BY <1>2, <1>4, <2>1
  <2>3. p # <<"a", "**">> /\ p # <<"a", "*">> BY <1>3, <1>6
  <2>4. p = <<"a", "a">> BY <2>2, <2>3 DEF Plain
  <2> QED BY <1>6, <2>4, Weights
<1>7. CASE q = <<"a", "a">>
  <2>1. ~has(q, "a", "b") /\ ~has(q, "b", "b") BY <1>2, <1>7
  <2>2. p = q BY <1>2, <1>4, <1>7, <2>1 DEF Plain
  <2> QED BY <2>2
<1>8. CASE q = <<"*", "b">>
  <2>1. ~has(q, "a", "a") BY <1>2, <1>8
  <2>2. p = q BY <1>2, <1>4, <1>8, <2>1 DEF Plain
  <2> QED BY <2>2
<1> QED BY <1>5, <1>6, <1>7, <1>8 DEF Plain

(***************************************************************************)
(* The rule that decides.                                                  *)
(***************************************************************************)
Weight(p, i) == Specificity(p.rules[i].pattern)
Best(p, request, i) ==
  /\ i \in Matching(p, request)
  /\ \A j \in Matching(p, request) :
       Weight(p, i) > Weight(p, j) \/ (Weight(p, i) = Weight(p, j) /\ i >= j)

LEMMA EvaluateIs ==
  ASSUME NEW p, NEW request, NEW i, Matching(p, request) # {},
         \A j : Best(p, request, j) => j = i, Best(p, request, i)
  PROVE  Evaluate(p, request) = p.rules[i].decision
<1> DEFINE best == CHOOSE j : Best(p, request, j)
<1>1. best = i BY Zenon
<1>2. Evaluate(p, request) = p.rules[CHOOSE j \in Matching(p, request) :
        \A k \in Matching(p, request) :
          Weight(p, j) > Weight(p, k) \/ (Weight(p, j) = Weight(p, k) /\ j >= k)].decision
  BY DEF Evaluate, Weight
<1>3. Evaluate(p, request) = p.rules[best].decision BY <1>2 DEF Best
<1> QED BY <1>1, <1>3

\* A number a set has, it has a least one.
LEMMA Least ==
  ASSUME NEW I \in SUBSET Nat, I # {}
  PROVE  \E n \in I : \A m \in I : n <= m
<1> DEFINE R == OpToRel(<, Nat)
<1>1. IsWellFoundedOn(R, Nat) BY NatLessThanWellFounded
<1>2. PICK n \in I : \A m \in I : ~(<<m, n>> \in R)
  <2> HIDE DEF R
  <2> QED BY <1>1, WFMin
<1>3. \A m \in I : n <= m
  <2> SUFFICES ASSUME NEW m \in I PROVE ~(m < n)
    OBVIOUS
  <2>1. n \in Nat /\ m \in Nat /\ ~(<<m, n>> \in R) BY <1>2
  <2> QED BY <2>1 DEF OpToRel
<1> QED BY <1>3

LEMMA WeightsAreSmall ==
  ASSUME NEW p \in Policies, NEW i \in DOMAIN p.rules
  PROVE  Weight(p, i) \in 0..3 /\ p.rules[i].decision \in Decisions /\ p.rules[i].pattern \in Patterns
<1>1. PICK n \in Nat : p.rules \in [1..n -> Rules] BY DEF Policies
<1>2. p.rules[i] \in Rules BY <1>1
<1>3. p.rules[i].pattern \in Patterns /\ p.rules[i].decision \in Decisions BY <1>2 DEF Rules
<1> QED BY <1>3, Weights DEF Weight, Patterns

LEMMA BestExists ==
  ASSUME NEW p \in Policies, NEW request, Matching(p, request) # {}
  PROVE  \E i : Best(p, request, i)
<1> DEFINE M == Matching(p, request)
<1>1. PICK n \in Nat : DOMAIN p.rules = 1..n BY DEF Policies
<1>2. \A i \in M : i \in Nat /\ i <= n /\ Weight(p, i) \in 0..3
  BY <1>1, WeightsAreSmall DEF Matching
<1> HIDE DEF M
<1> DEFINE I == {k \in Nat : \E i \in M : 3 - Weight(p, i) = k}
<1>3. PICK k \in I : \A m \in I : k <= m
  <2>1. I \in SUBSET Nat
    OBVIOUS
  <2>2. I # {}
    <3>1. PICK i : i \in M BY DEF M
    <3>2. 3 - Weight(p, i) \in Nat BY <1>2, <3>1
    <3> QED BY <3>1, <3>2
  <2> HIDE DEF I
  <2> QED BY <2>1, <2>2, Least
<1>4. PICK h \in M : 3 - Weight(p, h) = k
  OBVIOUS
<1>5. \A i \in M : Weight(p, h) >= Weight(p, i)
  <2> TAKE i \in M
  <2>1. 3 - Weight(p, i) \in I BY <1>2
  <2>2. k <= 3 - Weight(p, i) BY <1>3, <2>1
  <2> QED BY <1>2, <1>4, <2>2
<1> HIDE DEF I
<1> DEFINE J == {m \in Nat : \E i \in M : Weight(p, i) = Weight(p, h) /\ n - i = m}
<1>6. PICK m \in J : \A l \in J : m <= l
  <2>1. J \in SUBSET Nat
    OBVIOUS
  <2>2. J # {}
    <3>1. n - h \in Nat BY <1>2, <1>4
    <3> QED BY <1>4, <3>1
  <2> HIDE DEF J
  <2> QED BY <2>1, <2>2, Least
<1>7. PICK b \in M : Weight(p, b) = Weight(p, h) /\ n - b = m
  OBVIOUS
<1>8. ASSUME NEW i \in M
      PROVE  Weight(p, b) > Weight(p, i) \/ (Weight(p, b) = Weight(p, i) /\ b >= i)
  <2>1. CASE Weight(p, i) = Weight(p, h)
    <3>1. n - i \in J BY <1>2, <2>1
    <3>2. m <= n - i BY <1>6, <3>1
    <3> QED BY <1>2, <1>7, <2>1, <3>2
  <2>2. CASE Weight(p, i) # Weight(p, h) BY <1>2, <1>4, <1>5, <1>7, <2>2
  <2> QED BY <2>1, <2>2
<1>9. Best(p, request, b) BY <1>7, <1>8 DEF Best, M
<1> QED BY <1>9

LEMMA BestIsOne ==
  ASSUME NEW p \in Policies, NEW request, NEW i, NEW j, Best(p, request, i), Best(p, request, j)
  PROVE  i = j
<1>1. i \in DOMAIN p.rules /\ j \in DOMAIN p.rules BY DEF Best, Matching
<1>2. i \in Nat /\ j \in Nat BY <1>1 DEF Policies
<1>3. Weight(p, i) \in 0..3 /\ Weight(p, j) \in 0..3 BY <1>1, WeightsAreSmall
<1>4. i >= j /\ j >= i BY <1>2, <1>3 DEF Best
<1> QED BY <1>2, <1>4

\* A policy says one of its three words of any request.
LEMMA EvaluateDecides ==
  ASSUME NEW p \in Policies, NEW request
  PROVE  Evaluate(p, request) \in Decisions
<1>1. CASE Matching(p, request) = {} BY <1>1 DEF Evaluate, Policies
<1>2. CASE Matching(p, request) # {}
  <2>1. PICK i : Best(p, request, i) BY <1>2, BestExists
  <2>2. Evaluate(p, request) = p.rules[i].decision BY <1>2, <2>1, BestIsOne, EvaluateIs
  <2>3. i \in DOMAIN p.rules BY <2>1 DEF Best, Matching
  <2> QED BY <2>2, <2>3, WeightsAreSmall
<1> QED BY <1>1, <1>2

LEMMA NarrowerDecides ==
  ASSUME policy \in Policies, asks \in [Calls -> Requests \cup {Unresolvable}]
  PROVE  NarrowerRuleWins
<1> SUFFICES ASSUME \A i \in DOMAIN policy.rules : "[ab]" \notin Range(policy.rules[i].pattern),
                    Len(policy.rules) = 2, NEW c \in Calls, NEW i \in 1..2, NEW j \in 1..2,
                    asks[c] # Unresolvable, {i, j} \subseteq Matching(policy, asks[c]),
                    Stands(policy.rules[i].pattern) \subseteq Stands(policy.rules[j].pattern),
                    Stands(policy.rules[i].pattern) # Stands(policy.rules[j].pattern)
             PROVE  Judge(c) = policy.rules[i].decision
  BY DEF NarrowerRuleWins, MostSpecificRuleWins
<1>1. DOMAIN policy.rules = 1..2
  <2>1. PICK n \in Nat : policy.rules \in [1..n -> Rules] BY DEF Policies
  <2>2. policy.rules \in Seq(Rules) BY <2>1
  <2> QED BY <2>2
<1>2. policy.rules[i].pattern \in Plain /\ policy.rules[j].pattern \in Plain
  BY <1>1, WeightsAreSmall, PlainPatterns
<1>3. Weight(policy, i) > Weight(policy, j) /\ i # j BY <1>2, NarrowerWeighsMore DEF Weight
<1>4. Best(policy, asks[c], i)
  <2>1. Weight(policy, i) \in 0..3 /\ Weight(policy, j) \in 0..3 BY <1>1, WeightsAreSmall
  <2>2. \A k \in Matching(policy, asks[c]) : k = i \/ k = j BY <1>1, <1>3 DEF Matching
  <2> QED BY <1>3, <2>1, <2>2 DEF Best
<1>5. Evaluate(policy, asks[c]) = policy.rules[i].decision BY <1>4, BestIsOne, EvaluateIs
<1> QED BY <1>5 DEF Judge
(***************************************************************************)
(* The states.                                                             *)
(***************************************************************************)
Words == {"execute", "deny", "external"}
Whats == Words \cup {"policy", "closed", "ran"}
Kinds == {"permission", "indeterminate"}
Suspensions == [id : Nat, kind : Kinds \cup {""}, required : SUBSET Calls]
Progress == {"planned", "started", "returned", "done"}
Runs == [state : {"gate", "running", "suspended", "settled"}, batch : Nat, issued : Nat,
         suspension : Suspensions, attempt : Nat, progress : [Calls -> Progress],
         begun : SUBSET Calls, decisions : [Calls -> Words]]
Hands == [step : {"idle", "plans", "accepts"}, id : Nat, decisions : {<<>>} \cup [Calls -> Words],
          approves : SUBSET (Calls \cup {"unknown"})]
Results == [call : Calls, what : Whats]
Logs == [results : SUBSET Results, starts : SUBSET (Calls \X Nat),
         approved : SUBSET ((Calls \cup {"unknown"}) \X Nat), announced : SUBSET Nat,
         restarted : BOOLEAN]

Typed ==
  /\ policy \in Policies
  /\ asks \in [Calls -> Requests \cup {Unresolvable}]
  /\ verdict \in [Calls -> {"none", "allow", "ask", "deny"}]
  /\ run \in Runs
  /\ operator \in [Operators -> Hands]
  /\ log \in Logs

\* once calls may start, each of them was allowed or asked about
Judged ==
  run.state \in {"running", "suspended"} \/ log.starts # {} =>
    \A c \in Calls : verdict[c] \in {"allow", "ask"}

\* an operator was asked, and no answer of hers is in the journal as announced
AskedFor ==
  run.suspension.kind = "permission" /\ run.suspension.required = Asked /\ log.announced = {}

\* what a suspension asks about, and what a crash folds back to
Frontier ==
  /\ run.state = "gate" =>
       (\A c \in Calls : run.progress[c] = "planned") /\ run.begun = {} /\ run.attempt = 0 /\ log = NoLog
  /\ run.state = "suspended" =>
       \/ AskedFor /\ \A c \in Calls : run.progress[c] = "planned"
       \/ run.suspension.kind = "indeterminate" /\ run.suspension.required = Started
  /\ run.state = "running" =>
       /\ \A a \in log.announced : a = run.attempt
       /\ ~Announced => AskedFor /\ \A c \in Calls : run.progress[c] # "done"

\* what the driver may still start, it may start
Cleared ==
  run.state = "running" =>
    \A c \in Calls : run.progress[c] = "planned" /\ run.decisions[c] = "execute" =>
                       verdict[c] = "allow" \/ <<c, run.attempt>> \in log.approved

\* a plan answers each required call, and executes those it approves
Covers(plan, suspension) ==
  /\ plan.decisions \in [Calls -> Words]
  /\ \A c \in Calls : c \notin suspension.required => plan.decisions[c] = "execute"
  /\ \A c \in suspension.required :
       plan.decisions[c] = "execute" => c \in plan.approves /\ suspension.kind = "permission"

\* a plan is for the suspension of its number
Numbered ==
  /\ run.suspension.id <= run.issued
  /\ run.suspension.id # 0 => run.suspension.kind \in Kinds
  /\ \A o \in Operators :
       /\ operator[o].step # "idle" => operator[o].id \in 1..run.issued
       /\ operator[o].step = "accepts" /\ operator[o].id = run.suspension.id =>
            Covers(operator[o], run.suspension)

StartsAreCleared ==
  /\ ~log.restarted
  /\ \A s \in log.starts : s[2] <= run.attempt /\ (verdict[s[1]] = "allow" \/ s \in log.approved)
  /\ \A c \in Calls : c \in run.begun <=> \E s \in log.starts : s[1] = c
  /\ \A c \in Calls : run.progress[c] \in {"started", "returned"} => c \in run.begun
  /\ run.state = "running" =>
       \A c \in Calls : <<c, run.attempt>> \in log.starts => run.progress[c] # "planned"
  /\ \A a \in log.announced : \A s \in log.starts : s[2] <= a

One(results) == \A r, x \in results : r.call = x.call => r = x
Has(results, c) == \E r \in results : r.call = c
Told(results, begun) ==
  \A r \in results : /\ r.what \in {"closed", "policy"} => r.call \notin begun
                     /\ r.what = "ran" => r.call \in begun

ResultsAreWhole ==
  /\ One(log.results)
  /\ Told(log.results, run.begun)
  /\ \A r \in log.results : r.what # "execute"
  /\ run.state = "settled" => \A c \in Calls : Has(log.results, c)
  /\ run.state # "settled" => \A c \in Calls : Has(log.results, c) <=> run.progress[c] = "done"

GateInv == Typed /\ Judged /\ Frontier /\ Cleared /\ Numbered /\ StartsAreCleared /\ ResultsAreWhole

(***************************************************************************)
(* Plans and results.                                                      *)
(***************************************************************************)
\* As many resolutions as required calls, no call twice: each call has its own.
LEMMA EachIsResolved ==
  ASSUME IsFiniteSet(Calls), NEW required \in SUBSET Calls, NEW kind,
         NEW resolutions \in Resolutions, Valid(resolutions, required, kind)
  PROVE  \A c \in required : \E i \in DOMAIN resolutions : resolutions[i].call = c
<1> DEFINE R == [call : Calls \cup {"unknown"}, action : Actions]
<1>1. PICK n \in 0..Cardinality(Calls) : resolutions \in [1..n -> R] BY DEF Resolutions
<1> HIDE DEF R
<1>2. n \in Nat /\ DOMAIN resolutions = 1..n /\ Len(resolutions) = n
  <2>1. n \in Nat
    OBVIOUS
  <2>2. resolutions \in Seq(R) BY <1>1, <2>1
  <2> QED BY <1>1, <2>1, <2>2
<1>3. IsFiniteSet(required) BY FS_Subset
<1>4. IsFiniteSet(1..n) /\ Cardinality(1..n) = n BY <1>2, FS_Interval
<1> DEFINE f == [i \in 1..n |-> resolutions[i].call]
<1>5. f \in Injection(1..n, required)
  <2>1. f \in [1..n -> required] BY <1>2 DEF Valid, ValidWithGaps
  <2>2. \A i, j \in 1..n : f[i] = f[j] => i = j BY <1>2 DEF Valid, ValidWithGaps
  <2> HIDE DEF f
  <2> QED BY <2>1, <2>2 DEF Injection, IsInjective
<1>6. Cardinality(1..n) = Cardinality(required) BY <1>2, <1>4 DEF Valid
<1> HIDE DEF f
<1>7. f \in Surjection(1..n, required) BY <1>3, <1>4, <1>5, <1>6, FS_Injection
<1>8. \A c \in required : \E i \in 1..n : f[i] = c BY <1>7 DEF Surjection
<1> QED BY <1>2, <1>8 DEF f
LEMMA PlanCovers ==
  ASSUME IsFiniteSet(Calls), NEW suspension \in Suspensions, NEW resolutions \in Resolutions, NEW plan,
         Valid(resolutions, suspension.required, suspension.kind), suspension.kind \in Kinds,
         plan.decisions = PlanResume(resolutions),
         plan.approves = {r.call : r \in {x \in Range(resolutions) : x.action = "approve"}}
  PROVE  Covers(plan, suspension) /\ plan.approves \in SUBSET (Calls \cup {"unknown"})
<1> DEFINE R == [call : Calls \cup {"unknown"}, action : Actions]
<1>1. \A i \in DOMAIN resolutions : resolutions[i] \in R
  <2>1. PICK n \in 0..Cardinality(Calls) : resolutions \in [1..n -> R] BY DEF Resolutions
  <2> QED BY <2>1
<1>2. \A i \in DOMAIN resolutions :
        /\ resolutions[i].call \in suspension.required /\ resolutions[i].action # "invalid"
        /\ suspension.kind = "indeterminate" => resolutions[i].action # "approve"
        /\ \A j \in DOMAIN resolutions : resolutions[i].call = resolutions[j].call => i = j
  BY DEF Valid, ValidWithGaps
<1>3. ASSUME NEW c \in Calls, NEW i \in DOMAIN resolutions, resolutions[i].call = c
      PROVE  PlanResume(resolutions)[c] =
               IF resolutions[i].action = "approve" THEN "execute" ELSE resolutions[i].action
  <2>1. (CHOOSE k \in DOMAIN resolutions : resolutions[k].call = c) = i BY <1>2, <1>3
  <2> QED BY <1>3, <2>1 DEF PlanResume
<1>4. ASSUME NEW c \in Calls, ~\E i \in DOMAIN resolutions : resolutions[i].call = c
      PROVE  PlanResume(resolutions)[c] = "execute"
  BY <1>4 DEF PlanResume
<1>5. \A i \in DOMAIN resolutions : resolutions[i].action \in {"approve", "deny", "external"}
  BY <1>1, <1>2 DEF Actions
<1>6. plan.decisions \in [Calls -> Words]
  <2>1. \A c \in Calls : PlanResume(resolutions)[c] \in Words BY <1>3, <1>4, <1>5 DEF Words
  <2> QED BY <2>1 DEF PlanResume
<1>7. ASSUME NEW c \in Calls, c \notin suspension.required PROVE plan.decisions[c] = "execute"
  BY <1>2, <1>4, <1>7
<1>8. ASSUME NEW c \in suspension.required, plan.decisions[c] = "execute"
      PROVE  c \in plan.approves /\ suspension.kind = "permission"
  <2>1. suspension.required \in SUBSET Calls BY DEF Suspensions
  <2>2. PICK i \in DOMAIN resolutions : resolutions[i].call = c BY <2>1, EachIsResolved
  <2>3. resolutions[i].action = "approve" BY <1>3, <1>5, <1>8, <2>1, <2>2
  <2>4. resolutions[i] \in Range(resolutions) BY DEF Range
  <2>5. c \in plan.approves BY <2>2, <2>3, <2>4
  <2>6. suspension.kind = "permission" BY <1>2, <2>3 DEF Kinds
  <2> QED BY <2>5, <2>6
<1>9. plan.approves \in SUBSET (Calls \cup {"unknown"}) BY <1>1 DEF Range
<1> QED BY <1>6, <1>7, <1>8, <1>9 DEF Covers


\* Results of calls that had none leave each call with one.
Given(S, w) == {[call |-> c, what |-> w[c]] : c \in S}
Grown(old, S, added) ==
  /\ old \cup added \in SUBSET Results
  /\ One(old \cup added)
  /\ \A c : Has(old \cup added, c) <=> Has(old, c) \/ c \in S

LEMMA ResultsGrow ==
  ASSUME NEW old, NEW S \in SUBSET Calls, NEW w, \A c \in S : w[c] \in Whats,
         old \in SUBSET Results, One(old), \A c \in S : ~Has(old, c)
  PROVE  Grown(old, S, Given(S, w))
<1> DEFINE added == Given(S, w)
           new == old \cup added
<1>1. \A r \in added : r \in Results /\ r.call \in S /\ r.what = w[r.call]
  BY DEF Results, Given
<1>2. \A r \in added, x \in added : r.call = x.call => r = x BY DEF Given
<1>3. ASSUME NEW c \in S PROVE \E r \in added : r.call = c
  <2> DEFINE r == [call |-> c, what |-> w[c]]
  <2>1. r \in added /\ r.call = c BY DEF Given
  <2> HIDE DEF r
  <2> QED BY <2>1
<1> HIDE DEF added
<1>4. One(new)
  <2> SUFFICES ASSUME NEW r \in new, NEW x \in new, r.call = x.call PROVE r = x
    BY DEF One
  <2>1. CASE r \in old /\ x \in old BY <2>1 DEF One
  <2>2. CASE r \in added /\ x \in added BY <1>2, <2>2
  <2>3. CASE r \in old /\ x \in added BY <1>1, <2>3 DEF Has
  <2>4. CASE r \in added /\ x \in old BY <1>1, <2>4 DEF Has
  <2> QED BY <2>1, <2>2, <2>3, <2>4
<1>5. \A c : Has(new, c) <=> Has(old, c) \/ c \in S BY <1>1, <1>3 DEF Has
<1>6. new \in SUBSET Results BY <1>1
<1> QED BY <1>4, <1>5, <1>6 DEF added, Grown

(***************************************************************************)
(* The steps.                                                              *)
(***************************************************************************)
LEMMA InitInv == GateInit => GateInv
<1> SUFFICES ASSUME GateInit PROVE GateInv
  OBVIOUS
<1>1. policy \in Policies
  <2> DEFINE Of(n) == [fallback : Decisions, rules : [1..n -> Rules]]
  <2>1. PICK n \in 0..MaxRules : policy \in Of(n) BY DEF GateInit
  <2>2. n \in Nat
    OBVIOUS
  <2> QED BY <2>1, <2>2 DEF Policies
<1>2. run = [state |-> "gate", batch |-> 1, issued |-> 0, suspension |-> NoSuspension,
             attempt |-> 0, progress |-> [c \in Calls |-> "planned"], begun |-> {},
             decisions |-> [c \in Calls |-> "execute"]]
  BY DEF GateInit
<1>3. log = NoLog /\ NoLog \in Logs BY DEF GateInit, NoLog, Logs
<1>4. operator = [o \in Operators |-> Idle] BY DEF GateInit
<1>5. NoSuspension \in Suspensions /\ Idle \in Hands
  BY DEF NoSuspension, Suspensions, Idle, Hands
<1>6. run \in Runs BY <1>2, <1>5 DEF Runs, Words, Progress
<1>7. log \in Logs BY <1>3
<1>8. Typed BY <1>1, <1>4, <1>5, <1>6, <1>7 DEF Typed, GateInit
<1>9. Judged /\ Frontier /\ Cleared BY <1>2, <1>3 DEF Judged, Frontier, Cleared, NoLog
<1>10. Numbered
  <2>1. run.suspension.id = 0 /\ run.issued = 0 BY <1>2 DEF NoSuspension
  <2>2. \A o \in Operators : operator[o].step = "idle" BY <1>4 DEF Idle
  <2> QED BY <2>1, <2>2 DEF Numbered
<1>11. StartsAreCleared BY <1>2, <1>3 DEF StartsAreCleared, NoLog
<1>12. ResultsAreWhole BY <1>2, <1>3 DEF ResultsAreWhole, One, Has, Told, NoLog
<1> QED BY <1>8, <1>9, <1>10, <1>11, <1>12 DEF GateInv

LEMMA JudgesStep ==
  ASSUME GateInv, Judges
  PROVE  GateInv'
<1>1. UNCHANGED <<run, operator, log>> BY DEF Judges
<1>2. Typed'
  <2>1. \A c \in Calls : Judge(c) \in Decisions
    BY EvaluateDecides DEF Judge, Decisions, GateInv, Typed
  <2>2. verdict' \in [Calls -> {"none", "allow", "ask", "deny"}]
    BY <2>1 DEF Judges, Decisions
  <2>3. policy' \in Policies
    <3>1. <<>> \in [1..0 -> Rules]
      OBVIOUS
    <3>2. <<>> \in UNION {[1..n -> Rules] : n \in Nat} BY <3>1
    <3> QED BY <3>2 DEF Judges, NoPolicy, Policies, Decisions
  <2>4. asks' \in [Calls -> Requests \cup {Unresolvable}] BY DEF Judges
  <2> QED BY <1>1, <2>2, <2>3, <2>4 DEF GateInv, Typed
<1>3. run.state = "gate" /\ log = NoLog BY DEF GateInv, Judges, Frontier
<1>4. log.starts = {} BY <1>3 DEF NoLog
<1>5. Judged' /\ Cleared' BY <1>1, <1>3, <1>4 DEF Judged, Cleared
<1>6. Frontier' BY <1>1, <1>3 DEF Frontier, GateInv
<1>7. Numbered' BY <1>1 DEF GateInv, Numbered
<1>8. StartsAreCleared' BY <1>1, <1>4 DEF GateInv, StartsAreCleared
<1>9. ResultsAreWhole' BY <1>1 DEF GateInv, ResultsAreWhole
<1> QED BY <1>1, <1>2, <1>5, <1>6, <1>7, <1>8, <1>9 DEF GateInv

\* What the operators do before they accept touches their own hands only.
LEMMA OperatorSteps ==
  ASSUME IsFiniteSet(Calls), GateInv, NEW o \in Operators,
         \/ \E id \in 1..run.issued : Checks(o, id)
         \/ \E resolutions \in Resolutions : Plans(o, resolutions)
         \/ Outdated(o)
  PROVE  GateInv'
<1>1. UNCHANGED <<policy, asks, verdict, run, log>> BY DEF Checks, Plans, Outdated
<1>2. Idle \in Hands /\ Idle.step = "idle" BY DEF Idle, Hands
<1>3. run \in Runs /\ operator \in [Operators -> Hands] /\ Numbered BY DEF GateInv, Typed
<1>4. \E hand \in Hands :
        /\ operator' = [operator EXCEPT ![o] = hand]
        /\ hand.step # "idle" => hand.id \in 1..run.issued
        /\ hand.step = "accepts" => Covers(hand, run.suspension)
  <2>1. CASE \E id \in 1..run.issued : Checks(o, id)
    <3>1. PICK id \in 1..run.issued : Checks(o, id) BY <2>1
    <3>2. id \in Nat BY <1>3 DEF Runs
    <3> DEFINE hand == [Idle EXCEPT !.step = "plans", !.id = id]
    <3>3. hand \in Hands /\ hand.step = "plans" /\ hand.id = id
      BY <1>2, <3>2 DEF Idle, Hands
    <3>4. operator' = [operator EXCEPT ![o] = hand] BY <3>1 DEF Checks
    <3> HIDE DEF hand
    <3> QED BY <3>3, <3>4
  <2>2. CASE \E resolutions \in Resolutions : Plans(o, resolutions)
    <3>1. PICK resolutions \in Resolutions : Plans(o, resolutions) BY <2>2
    <3>2. CASE run.suspension.id = operator[o].id
               /\ Valid(resolutions, run.suspension.required, run.suspension.kind)
      <4> DEFINE d == PlanResume(resolutions)
                 a == {r.call : r \in {x \in Range(resolutions) : x.action = "approve"}}
                 hand == [operator[o] EXCEPT !.step = "accepts", !.decisions = d, !.approves = a]
      <4>1. operator[o] \in Hands /\ operator[o].step = "plans" /\ operator[o].id \in 1..run.issued
        BY <1>3, <3>1 DEF Plans, Numbered
      <4>2. operator' = [operator EXCEPT ![o] = hand] BY <1>3, <3>1, <3>2 DEF Plans
      <4>3. run.suspension \in Suspensions BY <1>3 DEF Runs
      <4> HIDE DEF d, a
      <4>4. hand.decisions = d /\ hand.approves = a /\ hand.step = "accepts" /\ hand.id = operator[o].id
        BY <4>1 DEF Hands
      <4> HIDE DEF hand
      <4>5. run.suspension.kind \in Kinds BY <1>3, <3>2, <4>1 DEF Numbered
      <4>6. Covers(hand, run.suspension) /\ a \in SUBSET (Calls \cup {"unknown"})
        BY <3>2, <4>3, <4>4, <4>5, PlanCovers DEF d, a
      <4>7. hand \in Hands
        <5>1. d \in [Calls -> Words] BY <4>4, <4>6 DEF Covers
        <5> QED BY <4>1, <4>6, <5>1 DEF hand, Hands
      <4> QED BY <4>1, <4>2, <4>4, <4>6, <4>7
    <3>3. CASE ~(run.suspension.id = operator[o].id
                 /\ Valid(resolutions, run.suspension.required, run.suspension.kind))
      <4>1. operator' = [operator EXCEPT ![o] = Idle] BY <3>1, <3>3 DEF Plans
      <4> QED BY <1>2, <4>1
    <3> QED BY <3>2, <3>3
  <2>3. CASE Outdated(o) BY <1>2, <2>3 DEF Outdated
  <2> QED BY <2>1, <2>2, <2>3
<1>5. operator' \in [Operators -> Hands] /\ Numbered'
  <2>1. PICK hand \in Hands :
          /\ operator' = [operator EXCEPT ![o] = hand]
          /\ hand.step # "idle" => hand.id \in 1..run.issued
          /\ hand.step = "accepts" => Covers(hand, run.suspension)
    BY <1>4
  <2>2. \A p \in Operators : operator'[p] = IF p = o THEN hand ELSE operator[p]
    BY <1>3, <2>1
  <2>3. operator' \in [Operators -> Hands] BY <1>3, <2>1
  <2> QED BY <1>1, <1>3, <2>1, <2>2, <2>3 DEF Numbered
<1>6. Typed' BY <1>1, <1>5 DEF GateInv, Typed
<1>7. Judged' /\ Frontier' /\ Cleared' /\ StartsAreCleared' /\ ResultsAreWhole'
  BY <1>1 DEF GateInv, Judged, Frontier, Cleared, StartsAreCleared, ResultsAreWhole, Asked, Started,
              AskedFor, Announced
<1> QED BY <1>1, <1>5, <1>6, <1>7 DEF GateInv
\* A step that takes nothing to the operators and keeps the number and the calls of
\* the suspension, or raises the number, leaves their plans as they were.
LEMMA PlansStay ==
  ASSUME Typed, Numbered, run'.suspension \in Suspensions, run'.issued \in Nat,
         \A o \in Operators : operator'[o] = operator[o] \/ operator'[o] = Idle,
         run'.issued >= run.issued,
         \/ run'.suspension = run.suspension
         \/ run'.suspension = NoSuspension
         \/ run'.suspension.id = run.issued + 1 /\ run'.issued = run.issued + 1
            /\ run'.suspension.kind \in Kinds
  PROVE  Numbered'
<1> DEFINE s == run'.suspension
<1>0. \/ s.id = run.suspension.id /\ s.kind = run.suspension.kind /\ s = run.suspension
      \/ s.id = 0
      \/ s.id = run.issued + 1 /\ run'.issued = run.issued + 1 /\ s.kind \in Kinds
  <2>1. NoSuspension.id = 0 BY DEF NoSuspension
  <2> QED BY <2>1
<1>1. run.issued \in Nat /\ run.suspension.id \in Nat BY DEF Typed, Runs, Suspensions
<1> HIDE DEF s
<1>2. s.id <= run'.issued BY <1>0, <1>1 DEF Numbered
<1>3. s.id # 0 => s.kind \in Kinds BY <1>0, <1>1 DEF Numbered
<1>4. Idle.step = "idle" BY DEF Idle
<1>5. ASSUME NEW o \in Operators, operator'[o].step # "idle"
      PROVE  /\ operator'[o] = operator[o]
             /\ operator[o].id \in 1..run.issued
             /\ operator[o].id \in 1..run'.issued
  BY <1>1, <1>4, <1>5 DEF Numbered
<1>6. ASSUME NEW o \in Operators, operator'[o].step = "accepts", operator'[o].id = s.id
      PROVE  Covers(operator'[o], s)
  <2>1. operator'[o] = operator[o] /\ operator[o].id \in 1..run.issued BY <1>5, <1>6
  <2>2. s = run.suspension BY <1>0, <1>1, <1>6, <2>1
  <2> QED BY <1>6, <2>1, <2>2 DEF Numbered
<1> QED BY <1>2, <1>3, <1>5, <1>6 DEF Numbered, s

\* A suspension has the next number.
LEMMA SuspendsAnew ==
  ASSUME run \in Runs, NEW kind \in Kinds, NEW required \in SUBSET Calls,
         run' = Suspends(kind, required, run)
  PROVE  /\ run' \in Runs
         /\ run'.state = "suspended" /\ run'.attempt = run.attempt /\ run'.progress = run.progress
         /\ run'.begun = run.begun
         /\ run'.suspension.id = run.issued + 1 /\ run'.issued = run.issued + 1
         /\ run'.suspension.kind = kind /\ run'.suspension.required = required
<1> DEFINE n == run.issued + 1
           new == [id |-> n, kind |-> kind, required |-> required]
<1>1. run' = [run EXCEPT !.state = "suspended", !.issued = n, !.suspension = new]
  BY DEF Suspends, Runs
<1>2. n \in Nat BY DEF Runs
<1> HIDE DEF n
<1>3. new \in Suspensions /\ new.id = n /\ new.kind = kind /\ new.required = required
  BY <1>2 DEF Suspensions
<1> HIDE DEF new
<1>4. run' \in Runs BY <1>1, <1>2, <1>3 DEF Runs
<1>5. /\ run'.state = "suspended" /\ run'.attempt = run.attempt /\ run'.progress = run.progress
      /\ run'.begun = run.begun /\ run'.issued = n /\ run'.suspension = new
  BY <1>1 DEF Runs
<1> QED BY <1>3, <1>4, <1>5 DEF n

\* nothing but the results of a log has changed
LogOnlyGrew ==
  /\ log'.starts = log.starts /\ log'.approved = log.approved
  /\ log'.announced = log.announced /\ log'.restarted = log.restarted

\* A batch is settled when the calls without a result are given one.
LEMMA SettlesAll ==
  ASSUME GateInv, run.state # "settled", run'.begun = run.begun,
         NEW S, S = {c \in Calls : run.progress[c] # "done"}, NEW w,
         \A c \in S : w[c] \in Whats \ {"execute", "ran"},
         \A c \in S : w[c] \in {"closed", "policy"} => c \notin run.begun,
         log' = [log EXCEPT !.results = @ \cup Given(S, w)],
         run'.state = "settled"
  PROVE  log' \in Logs /\ ResultsAreWhole' /\ LogOnlyGrew
<1> DEFINE added == Given(S, w)
<1>1. log \in Logs BY DEF GateInv, Typed
<1>2. /\ \A c \in S : ~Has(log.results, c)
      /\ \A c \in Calls : c \notin S => Has(log.results, c)
  BY DEF GateInv, ResultsAreWhole
<1>4. Grown(log.results, S, added)
  <2>1. \A c \in S : w[c] \in Whats
    OBVIOUS
  <2>2. log.results \in SUBSET Results /\ One(log.results)
    BY <1>1 DEF Logs, GateInv, ResultsAreWhole
  <2>5. S \in SUBSET Calls
    OBVIOUS
  <2> QED BY <1>2, <2>1, <2>2, <2>5, ResultsGrow
<1>5. \A r \in added : r.call \in S /\ r.what = w[r.call] BY DEF Given
<1>6. log' = [log EXCEPT !.results = log.results \cup added] BY <1>1
<1> HIDE DEF added
<1>7. log'.results = log.results \cup added /\ LogOnlyGrew
  BY <1>1, <1>6 DEF Logs, LogOnlyGrew
<1>8. log' \in Logs
  <2>1. log.results \cup added \in SUBSET Results BY <1>4 DEF Grown
  <2> QED BY <1>1, <1>6, <2>1 DEF Logs
<1>9. Told(log'.results, run'.begun)
  <2>1. \A r \in added : /\ r.what \in {"closed", "policy"} => r.call \notin run.begun
                         /\ r.what # "ran"
    BY <1>5
  <2>2. Told(log.results, run.begun) BY DEF GateInv, ResultsAreWhole
  <2> QED BY <1>7, <2>1, <2>2 DEF Told
<1>10. \A r \in log'.results : r.what # "execute"
  <2>1. \A r \in log.results : r.what # "execute" BY DEF GateInv, ResultsAreWhole
  <2>2. \A r \in added : r.what # "execute" BY <1>5
  <2> QED BY <1>7, <2>1, <2>2
<1>11. \A c \in Calls : Has(log'.results, c) BY <1>2, <1>4, <1>7 DEF Grown
<1>12. One(log'.results) BY <1>4, <1>7 DEF Grown
<1>13. ResultsAreWhole' BY <1>9, <1>10, <1>11, <1>12 DEF ResultsAreWhole
<1> QED BY <1>7, <1>8, <1>13

LEMMA EvaluateStep ==
  ASSUME GateInv, EvaluateBatch
  PROVE  GateInv'
<1>1. /\ run \in Runs /\ run.state = "gate" /\ UNCHANGED <<policy, asks, verdict, operator>>
      /\ \A c \in Calls : verdict[c] # "none" /\ run.progress[c] = "planned"
      /\ run.begun = {} /\ run.attempt = 0 /\ log = NoLog
  BY DEF EvaluateBatch, GateInv, Typed, Frontier
<1>2. verdict \in [Calls -> {"none", "allow", "ask", "deny"}] BY DEF GateInv, Typed
<1>3. run.suspension \in Suspensions /\ run.issued \in Nat BY <1>1 DEF Runs
<1>4. CASE Denied # {}
  <2>1. run' = [run EXCEPT !.state = "settled"]
        /\ log' = [log EXCEPT !.results = @ \cup {ResultFor(c, "policy") : c \in Calls}]
    BY <1>4 DEF EvaluateBatch
  <2>2. /\ run' \in Runs /\ run'.state = "settled" /\ run'.attempt = run.attempt
        /\ run'.issued = run.issued /\ run'.suspension = run.suspension
        /\ run'.progress = run.progress /\ run'.begun = run.begun
    BY <1>1, <2>1 DEF Runs
  <2> DEFINE w == [c \in Calls |-> "policy"]
             S == {c \in Calls : run.progress[c] # "done"}
  <2>3. {ResultFor(c, "policy") : c \in Calls} = Given(S, w) BY <1>1 DEF ResultFor, Given
  <2>4. \A c \in S : w[c] \in Whats \ {"execute", "ran"} /\ c \notin run.begun
    BY <1>1 DEF Whats
  <2> HIDE DEF w
  <2>5. log' \in Logs /\ ResultsAreWhole' /\ LogOnlyGrew
    BY <1>1, <2>1, <2>2, <2>3, <2>4, SettlesAll
  <2>6. Typed' BY <1>1, <2>2, <2>5 DEF GateInv, Typed
  <2>7. Judged' /\ Frontier' /\ Cleared'
    BY <1>1, <2>2, <2>5 DEF GateInv, Judged, Frontier, Cleared, LogOnlyGrew
  <2>8. Numbered' BY <1>1, <1>3, <2>2, PlansStay DEF GateInv
  <2>9. StartsAreCleared' BY <1>1, <2>2, <2>5 DEF GateInv, StartsAreCleared, LogOnlyGrew
  <2> QED BY <1>1, <2>2, <2>5, <2>6, <2>7, <2>8, <2>9 DEF GateInv
<1>5. CASE Denied = {}
  <2>1. log' = log /\ run' = IF Asked = {} THEN [run EXCEPT !.state = "running"]
                              ELSE Suspends("permission", Asked, run)
    BY <1>5 DEF EvaluateBatch
  <2>2. \A c \in Calls : verdict[c] \in {"allow", "ask"} BY <1>1, <1>2, <1>5 DEF Denied
  <2>3. run' \in Runs /\ run'.attempt = run.attempt /\ run'.progress = run.progress
        /\ run'.begun = run.begun
        /\ \/ Asked = {} /\ run'.state = "running" /\ run'.suspension = run.suspension
              /\ run'.issued = run.issued
           \/ run'.state = "suspended" /\ run'.suspension.kind = "permission"
              /\ run'.suspension.required = Asked /\ run'.suspension.id = run.issued + 1
              /\ run'.issued = run.issued + 1
    <3>1. CASE Asked = {} BY <1>1, <2>1, <3>1 DEF Runs
    <3>2. CASE Asked # {}
      <4>1. Asked \in SUBSET Calls /\ "permission" \in Kinds BY DEF Asked, Kinds
      <4> QED BY <1>1, <2>1, <3>2, <4>1, SuspendsAnew
    <3> QED BY <3>1, <3>2
  <2>4. Typed' BY <1>1, <2>1, <2>3 DEF GateInv, Typed
  <2>5. Judged' BY <1>1, <2>2 DEF Judged
  <2>6. Frontier'
    <3>1. log'.announced = {} BY <1>1, <2>1 DEF NoLog
    <3>2. run'.state = "running" => Announced' BY <1>1, <2>3 DEF Announced
    <3> QED BY <1>1, <2>3, <3>1, <3>2 DEF Frontier, AskedFor, Asked
  <2>7. Cleared' BY <1>1, <2>2, <2>3 DEF Cleared, Asked
  <2>8. Numbered'
    <3>1. run'.suspension \in Suspensions /\ run'.issued \in Nat /\ run'.issued >= run.issued
      BY <1>3, <2>3 DEF Runs
    <3> QED BY <1>1, <2>3, <3>1, PlansStay DEF GateInv, Kinds
  <2>9. StartsAreCleared' BY <1>1, <2>1, <2>3 DEF GateInv, StartsAreCleared, NoLog
  <2>10. ResultsAreWhole' BY <1>1, <2>1, <2>3 DEF GateInv, ResultsAreWhole
  <2> QED BY <1>1, <2>3, <2>4, <2>5, <2>6, <2>7, <2>8, <2>9, <2>10 DEF GateInv
<1> QED BY <1>4, <1>5

LEMMA AcceptsStep ==
  ASSUME GateInv, NEW o \in Operators, Accepts(o)
  PROVE  GateInv'
<1> DEFINE plan == operator[o]
           n == run.attempt + 1
           adds == {<<c, n>> : c \in {x \in plan.approves : plan.id = run.suspension.id}}
<1>1. /\ run \in Runs /\ log \in Logs /\ plan \in Hands /\ plan.step = "accepts"
      /\ plan.id = run.suspension.id /\ run.state = "suspended" /\ run.suspension.kind = "permission"
      /\ UNCHANGED <<policy, asks, verdict>>
      /\ run' = [run EXCEPT !.state = "running", !.attempt = n, !.decisions = plan.decisions]
      /\ log' = [log EXCEPT !.approved = log.approved \cup adds]
      /\ operator' = [operator EXCEPT ![o] = Idle]
  BY DEF Accepts, resumeError, GateInv, Typed
<1>2. Covers(plan, run.suspension) BY <1>1 DEF GateInv, Numbered
<1>3. plan.decisions \in [Calls -> Words] /\ n \in Nat /\ run.attempt < n /\ run.attempt \in Nat /\ n # 0
  BY <1>1, <1>2 DEF Covers, Runs
<1> HIDE DEF n
<1>4. adds \in SUBSET ((Calls \cup {"unknown"}) \X Nat) BY <1>1, <1>3 DEF Hands
<1>5. \A c \in plan.approves : <<c, n>> \in adds BY <1>1
<1> HIDE DEF adds
<1>6. /\ run' \in Runs /\ run'.state = "running" /\ run'.attempt = n
      /\ run'.issued = run.issued /\ run'.suspension = run.suspension /\ run'.begun = run.begun
      /\ run'.progress = run.progress /\ run'.decisions = plan.decisions
  BY <1>1, <1>3 DEF Runs
<1>7. /\ log' \in Logs /\ log'.results = log.results /\ log'.starts = log.starts
      /\ log'.approved = log.approved \cup adds /\ log'.restarted = log.restarted
      /\ log'.announced = log.announced
  BY <1>1, <1>4 DEF Logs
<1>8. operator' \in [Operators -> Hands] /\ \A p \in Operators : operator'[p] = operator[p] \/ operator'[p] = Idle
  <2>1. Idle \in Hands BY DEF Idle, Hands
  <2> QED BY <1>1, <2>1 DEF GateInv, Typed
<1>9. Typed' BY <1>1, <1>6, <1>7, <1>8 DEF GateInv, Typed
<1>10. /\ \A c \in Calls : verdict[c] \in {"allow", "ask"}
       /\ AskedFor /\ \A c \in Calls : run.progress[c] = "planned"
  BY <1>1 DEF GateInv, Judged, Frontier
<1>11. Judged' BY <1>1, <1>10 DEF Judged
<1>12. Frontier'
  <2>1. AskedFor' BY <1>1, <1>6, <1>7, <1>10 DEF AskedFor, Asked
  <2> QED BY <1>6, <1>10, <2>1 DEF Frontier, AskedFor
<1>13. Cleared'
  <2> SUFFICES ASSUME NEW c \in Calls, plan.decisions[c] = "execute", verdict[c] # "allow"
               PROVE  <<c, n>> \in log'.approved
    BY <1>1, <1>6 DEF Cleared
  <2>1. c \in run.suspension.required BY <1>10 DEF AskedFor, Asked
  <2>2. c \in plan.approves BY <1>2, <2>1 DEF Covers
  <2> QED BY <1>5, <1>7, <2>2
<1>14. Numbered'
  <2>1. run'.suspension \in Suspensions /\ run'.issued \in Nat /\ run'.issued >= run.issued
    BY <1>1, <1>6 DEF Runs
  <2> QED BY <1>6, <1>8, <2>1, PlansStay DEF GateInv
<1>15. StartsAreCleared'
  <2>1. \A s \in log.starts : s \in Calls \X Nat /\ s[2] <= run.attempt
    BY <1>1 DEF GateInv, StartsAreCleared, Logs
  <2>2. \A s \in log.starts : s[2] <= n /\ s[2] # n BY <1>3, <2>1
  <2>3. \A c \in Calls : <<c, n>> \notin log.starts BY <2>2
  <2>4. log.announced = {} BY <1>10 DEF AskedFor
  <2> QED BY <1>1, <1>6, <1>7, <2>2, <2>3, <2>4 DEF GateInv, StartsAreCleared
<1>16. ResultsAreWhole' BY <1>1, <1>6, <1>7 DEF GateInv, ResultsAreWhole
<1> QED BY <1>9, <1>11, <1>12, <1>13, <1>14, <1>15, <1>16 DEF GateInv

\* What a step that settles the batch and lets go of its suspension leaves in place.
LEMMA SettledStep ==
  ASSUME GateInv, UNCHANGED <<policy, asks, verdict>>,
         run' = [run EXCEPT !.state = "settled", !.suspension = NoSuspension],
         run.state \in {"running", "suspended"}, log' \in Logs, ResultsAreWhole', LogOnlyGrew,
         operator' \in [Operators -> Hands],
         \A o \in Operators : operator'[o] = operator[o] \/ operator'[o] = Idle
  PROVE  GateInv'
<1>1. run \in Runs BY DEF GateInv, Typed
<1>2. NoSuspension \in Suspensions BY DEF NoSuspension, Suspensions
<1>3. /\ run' \in Runs /\ run'.state = "settled" /\ run'.attempt = run.attempt
      /\ run'.issued = run.issued /\ run'.suspension = NoSuspension /\ run'.progress = run.progress
      /\ run'.begun = run.begun
  BY <1>1, <1>2 DEF Runs
<1>4. Typed' BY <1>3 DEF GateInv, Typed
<1>5. Judged' /\ Frontier' /\ Cleared'
  BY <1>3 DEF GateInv, Judged, Frontier, Cleared, LogOnlyGrew
<1>6. Numbered'
  <2>1. run'.suspension \in Suspensions /\ run'.issued \in Nat /\ run'.issued >= run.issued
    BY <1>1, <1>2, <1>3 DEF Runs
  <2> QED BY <1>3, <2>1, PlansStay DEF GateInv
<1>7. StartsAreCleared' BY <1>3 DEF GateInv, StartsAreCleared, LogOnlyGrew
<1> QED BY <1>3, <1>4, <1>5, <1>6, <1>7 DEF GateInv

LEMMA AcceptsIndeterminateStep ==
  ASSUME GateInv, NEW o \in Operators, AcceptsIndeterminate(o)
  PROVE  GateInv'
<1> DEFINE S == {c \in Calls : run.progress[c] # "done"}
           w == [c \in Calls |-> IF c \in run.suspension.required THEN operator[o].decisions[c] ELSE "closed"]
<1>1. /\ run \in Runs /\ run.state = "suspended" /\ run.suspension.kind = "indeterminate"
      /\ operator[o].step = "accepts" /\ operator[o].id = run.suspension.id
      /\ UNCHANGED <<policy, asks, verdict>>
      /\ run' = [run EXCEPT !.state = "settled", !.suspension = NoSuspension]
      /\ log' = [log EXCEPT !.results = @ \cup ClosedBy(o)]
      /\ operator' = [operator EXCEPT ![o] = Idle]
  BY DEF AcceptsIndeterminate, resumeError, GateInv, Typed
<1>2. Covers(operator[o], run.suspension) /\ run.suspension.required = Started
  BY <1>1 DEF GateInv, Numbered, Frontier, AskedFor
<1>3. ClosedBy(o) = Given(S, w) BY DEF ClosedBy, Given, ResultFor
<1>4. /\ \A c \in S : w[c] \in Whats \ {"execute", "ran"}
      /\ \A c \in S : w[c] \in {"closed", "policy"} => c \notin run.begun
  <2> SUFFICES ASSUME NEW c \in S
               PROVE  w[c] \in Whats \ {"execute", "ran"} /\ (w[c] \in {"closed", "policy"} => c \notin run.begun)
    OBVIOUS
  <2>1. CASE c \in run.suspension.required
    <3>1. operator[o].decisions[c] \in {"deny", "external"}
      BY <1>1, <1>2, <2>1 DEF Covers, Words
    <3> QED BY <2>1, <3>1 DEF Whats, Words
  <2>2. CASE c \notin run.suspension.required
    <3>1. c \notin run.begun BY <1>2, <2>2 DEF Started
    <3> QED BY <2>2, <3>1 DEF Whats, Words
  <2> QED BY <2>1, <2>2
<1>5. run'.state = "settled" /\ run'.begun = run.begun BY <1>1 DEF Runs
<1>6. operator' \in [Operators -> Hands] /\ \A p \in Operators : operator'[p] = operator[p] \/ operator'[p] = Idle
  <2>1. Idle \in Hands BY DEF Idle, Hands
  <2> QED BY <1>1, <2>1 DEF GateInv, Typed
<1> HIDE DEF w
<1>7. log' \in Logs /\ ResultsAreWhole' /\ LogOnlyGrew BY <1>1, <1>3, <1>4, <1>5, SettlesAll
<1> QED BY <1>1, <1>6, <1>7, SettledStep

LEMMA BatchEndsStep ==
  ASSUME GateInv, BatchEnds
  PROVE  GateInv'
<1>1. /\ run \in Runs /\ run.state = "running" /\ UNCHANGED <<policy, asks, verdict, operator, log>>
      /\ run' = [run EXCEPT !.state = "settled", !.suspension = NoSuspension]
      /\ \A c \in Calls : run.progress[c] = "done"
  BY DEF BatchEnds, GateInv, Typed
<1>2. run'.state = "settled" /\ run'.begun = run.begun BY <1>1 DEF Runs
<1>3. ResultsAreWhole'
  <2>1. \A c \in Calls : Has(log.results, c) BY <1>1 DEF GateInv, ResultsAreWhole
  <2> QED BY <1>1, <1>2, <2>1 DEF GateInv, ResultsAreWhole
<1>4. log \in Logs /\ operator \in [Operators -> Hands] BY DEF GateInv, Typed
<1> QED BY <1>1, <1>3, <1>4, SettledStep DEF LogOnlyGrew

LEMMA StartsStep ==
  ASSUME GateInv, NEW c \in Calls, Starts(c)
  PROVE  GateInv'
<1> DEFINE start == <<c, run.attempt>>
<1>1. /\ run \in Runs /\ log \in Logs /\ run.state = "running"
      /\ run.progress[c] = "planned" /\ run.decisions[c] = "execute"
      /\ UNCHANGED <<policy, asks, verdict, operator>>
      /\ run' = [run EXCEPT !.progress[c] = "started", !.begun = @ \cup {c}]
      /\ log' = [log EXCEPT !.starts = @ \cup {start}, !.restarted = @ \/ start \in log.starts]
  BY DEF Starts, GateInv, Typed
<1>2. /\ run' \in Runs /\ run'.state = "running" /\ run'.attempt = run.attempt
      /\ run'.issued = run.issued /\ run'.suspension = run.suspension /\ run'.decisions = run.decisions
      /\ run'.progress = [run.progress EXCEPT ![c] = "started"] /\ run'.begun = run.begun \cup {c}
  BY <1>1 DEF Runs, Progress
<1>3. \A d \in Calls : run'.progress[d] = IF d = c THEN "started" ELSE run.progress[d]
  BY <1>1, <1>2 DEF Runs
<1>4. start \notin log.starts /\ ~log.restarted BY <1>1 DEF GateInv, StartsAreCleared
<1>5. run.attempt \in Nat /\ start \in Calls \X Nat /\ start[1] = c /\ start[2] = run.attempt
  BY <1>1 DEF Runs
<1> HIDE DEF start
<1>6. /\ log'.starts = log.starts \cup {start} /\ ~log'.restarted /\ log'.announced = log.announced
      /\ log'.approved = log.approved /\ log'.results = log.results
  BY <1>1, <1>4 DEF Logs
<1>7. log' \in Logs
  <2>1. log.starts \cup {start} \in SUBSET (Calls \X Nat) BY <1>1, <1>5 DEF Logs
  <2>2. (log.restarted \/ start \in log.starts) \in BOOLEAN BY <1>4
  <2> QED BY <1>1, <2>1, <2>2 DEF Logs
<1>8. Typed' BY <1>1, <1>2, <1>7 DEF GateInv, Typed
<1>9. Judged' BY <1>1, <1>2 DEF GateInv, Judged
<1>10. Frontier'
  <2>1. (~Announced)' => ~Announced BY <1>2, <1>6 DEF Announced
  <2>2. AskedFor => AskedFor' BY <1>1, <1>2, <1>6 DEF AskedFor, Asked
  <2> QED BY <1>1, <1>2, <1>3, <1>6, <2>1, <2>2 DEF GateInv, Frontier
<1>11. Cleared' BY <1>1, <1>2, <1>3, <1>6 DEF GateInv, Cleared
<1>12. Numbered' BY <1>1, <1>2 DEF GateInv, Numbered
<1>13. StartsAreCleared'
  <2>1. verdict[c] = "allow" \/ start \in log.approved BY <1>1 DEF GateInv, Cleared, start
  <2>2. \A s \in log'.starts : s[2] <= run'.attempt /\ (verdict'[s[1]] = "allow" \/ s \in log'.approved)
    <3> TAKE s \in log'.starts
    <3>1. CASE s \in log.starts BY <1>1, <1>2, <1>6, <3>1 DEF GateInv, StartsAreCleared
    <3>2. CASE s = start BY <1>1, <1>2, <1>5, <1>6, <2>1, <3>2
    <3> QED BY <1>6, <3>1, <3>2
  <2>3. \A d \in Calls : d \in run'.begun <=> \E s \in log'.starts : s[1] = d
    BY <1>2, <1>5, <1>6 DEF GateInv, StartsAreCleared
  <2>4. \A d \in Calls : <<d, run'.attempt>> \in log'.starts => run'.progress[d] # "planned"
    BY <1>1, <1>2, <1>3, <1>6 DEF GateInv, StartsAreCleared, start
  <2>5. \A d \in Calls : run'.progress[d] \in {"started", "returned"} => d \in run'.begun
    BY <1>2, <1>3 DEF GateInv, StartsAreCleared
  <2>6. \A a \in log'.announced : \A s \in log'.starts : s[2] <= a
    BY <1>1, <1>5, <1>6 DEF GateInv, StartsAreCleared, Frontier
  <2> QED BY <1>2, <1>6, <2>2, <2>3, <2>4, <2>5, <2>6 DEF StartsAreCleared
<1>14. ResultsAreWhole'
  <2>1. ~Has(log.results, c) BY <1>1 DEF GateInv, ResultsAreWhole
  <2>2. Told(log'.results, run'.begun)
    BY <1>2, <1>6, <2>1 DEF GateInv, ResultsAreWhole, Told, Has
  <2>3. \A d \in Calls : run'.progress[d] = "done" <=> run.progress[d] = "done"
    BY <1>1, <1>3
  <2> QED BY <1>1, <1>2, <1>6, <2>2, <2>3 DEF GateInv, ResultsAreWhole
<1> QED BY <1>8, <1>9, <1>10, <1>11, <1>12, <1>13, <1>14 DEF GateInv

LEMMA ReturnsStep ==
  ASSUME GateInv, NEW c \in Calls, HandlerReturns(c)
  PROVE  GateInv'
<1>1. /\ run \in Runs /\ run.state = "running" /\ run.progress[c] = "started"
      /\ UNCHANGED <<policy, asks, verdict, operator, log>>
      /\ run' = [run EXCEPT !.progress[c] = "returned"]
  BY DEF HandlerReturns, GateInv, Typed
<1>2. /\ run' \in Runs /\ run'.state = "running" /\ run'.attempt = run.attempt
      /\ run'.issued = run.issued /\ run'.suspension = run.suspension /\ run'.decisions = run.decisions
      /\ run'.progress = [run.progress EXCEPT ![c] = "returned"] /\ run'.begun = run.begun
  BY <1>1 DEF Runs, Progress
<1>3. \A d \in Calls : run'.progress[d] = IF d = c THEN "returned" ELSE run.progress[d]
  BY <1>1, <1>2 DEF Runs
<1>4. Typed' /\ Judged' /\ Cleared' /\ Numbered'
  BY <1>1, <1>2, <1>3 DEF GateInv, Typed, Judged, Cleared, Numbered
<1>5. Frontier'
  <2>1. (~Announced)' => ~Announced BY <1>1, <1>2 DEF Announced
  <2>2. AskedFor => AskedFor' BY <1>1, <1>2 DEF AskedFor, Asked
  <2> QED BY <1>1, <1>2, <1>3, <2>1, <2>2 DEF GateInv, Frontier
<1>6. StartsAreCleared'
  <2>1. c \in run.begun BY <1>1 DEF GateInv, StartsAreCleared
  <2> QED BY <1>1, <1>2, <1>3, <2>1 DEF GateInv, StartsAreCleared
<1>7. ResultsAreWhole'
  <2>1. \A d \in Calls : run'.progress[d] = "done" <=> run.progress[d] = "done"
    BY <1>1, <1>3
  <2> QED BY <1>1, <1>2, <2>1 DEF GateInv, ResultsAreWhole
<1> QED BY <1>4, <1>5, <1>6, <1>7 DEF GateInv

LEMMA AnnouncesStep ==
  ASSUME GateInv, Announces
  PROVE  GateInv'
<1>1. /\ run \in Runs /\ log \in Logs /\ run.state = "running" /\ ~Announced
      /\ UNCHANGED <<policy, asks, verdict, run, operator>>
      /\ log' = [log EXCEPT !.announced = @ \cup {run.attempt}] /\ run.attempt \in Nat
  BY DEF Announces, GateInv, Typed, Runs
<1>2. log.announced = {} BY <1>1 DEF GateInv, Frontier, AskedFor
<1>3. /\ log' \in Logs /\ log'.results = log.results /\ log'.starts = log.starts
      /\ log'.approved = log.approved /\ log'.restarted = log.restarted
      /\ log'.announced = {run.attempt}
  BY <1>1, <1>2 DEF Logs
<1>4. Announced' BY <1>1, <1>3 DEF Announced
<1>5. Typed' /\ Judged' /\ Cleared' /\ Numbered' /\ ResultsAreWhole'
  BY <1>1, <1>3 DEF GateInv, Typed, Judged, Cleared, Numbered, ResultsAreWhole
<1>6. Frontier' BY <1>1, <1>3, <1>4 DEF Frontier
<1>7. StartsAreCleared' BY <1>1, <1>3 DEF GateInv, StartsAreCleared
<1> QED BY <1>5, <1>6, <1>7 DEF GateInv

LEMMA CommitsStep ==
  ASSUME GateInv, NEW c \in Calls, CommitsResult(c)
  PROVE  GateInv'
<1> DEFINE what == IF run.progress[c] = "returned" THEN "ran" ELSE run.decisions[c]
           w == [d \in Calls |-> what]
           added == Given({c}, w)
<1>1. /\ run \in Runs /\ log \in Logs /\ run.state = "running" /\ Executed /\ Announced
      /\ run.progress[c] # "done" /\ UNCHANGED <<policy, asks, verdict, operator>>
      /\ run' = [run EXCEPT !.progress[c] = "done"]
      /\ log' = [log EXCEPT !.results = @ \cup {ResultFor(c, what)}]
  BY DEF CommitsResult, GateInv, Typed
<1>2. /\ run' \in Runs /\ run'.state = "running" /\ run'.attempt = run.attempt
      /\ run'.issued = run.issued /\ run'.suspension = run.suspension /\ run'.decisions = run.decisions
      /\ run'.progress = [run.progress EXCEPT ![c] = "done"] /\ run'.begun = run.begun
  BY <1>1 DEF Runs, Progress
<1>3. \A d \in Calls : run'.progress[d] = IF d = c THEN "done" ELSE run.progress[d]
  BY <1>1, <1>2 DEF Runs
<1>5. what \in {"ran", "deny", "external"} /\ (what = "ran" => c \in run.begun)
  <2>1. CASE run.progress[c] = "returned" BY <2>1 DEF GateInv, StartsAreCleared
  <2>2. CASE run.progress[c] # "returned" BY <1>1, <2>2 DEF Executed, Runs, Words
  <2> QED BY <2>1, <2>2
<1>6. {ResultFor(c, what)} = added BY DEF ResultFor, Given
<1> HIDE DEF what
<1>7. Grown(log.results, {c}, added)
  <2>1. \A d \in {c} : w[d] \in Whats BY <1>5 DEF Whats, Words
  <2>2. log.results \in SUBSET Results /\ One(log.results)
    BY <1>1 DEF Logs, GateInv, ResultsAreWhole
  <2>3. \A d \in {c} : ~Has(log.results, d) BY <1>1 DEF GateInv, ResultsAreWhole
  <2>4. {c} \in SUBSET Calls
    OBVIOUS
  <2> HIDE DEF w
  <2> QED BY <2>1, <2>2, <2>3, <2>4, ResultsGrow
<1>8. \A r \in added : r.call = c /\ r.what = what BY DEF Given
<1> HIDE DEF added
<1>9. log'.results = log.results \cup added /\ LogOnlyGrew
  BY <1>1, <1>6 DEF Logs, LogOnlyGrew
<1>10. log' \in Logs
  <2>1. log.results \cup added \in SUBSET Results BY <1>7 DEF Grown
  <2> QED BY <1>1, <1>6, <2>1 DEF Logs
<1>11. Typed' /\ Judged' /\ Numbered'
  BY <1>1, <1>2, <1>9, <1>10 DEF GateInv, Typed, Judged, Numbered, LogOnlyGrew
<1>12. Frontier'
  <2>1. Announced' BY <1>1, <1>2, <1>9 DEF Announced, LogOnlyGrew
  <2> QED BY <1>1, <1>2, <1>9, <2>1 DEF GateInv, Frontier, LogOnlyGrew
<1>13. Cleared' BY <1>1, <1>2, <1>3, <1>9 DEF GateInv, Cleared, LogOnlyGrew
<1>14. StartsAreCleared'
  BY <1>1, <1>2, <1>3, <1>9 DEF GateInv, StartsAreCleared, LogOnlyGrew
<1>15. ResultsAreWhole'
  <2>1. Told(log'.results, run'.begun)
    BY <1>2, <1>5, <1>8, <1>9 DEF GateInv, ResultsAreWhole, Told
  <2>2. \A r \in log'.results : r.what # "execute"
    BY <1>5, <1>8, <1>9 DEF GateInv, ResultsAreWhole
  <2>3. \A d : Has(log'.results, d) <=> Has(log.results, d) \/ d = c BY <1>7, <1>9 DEF Grown
  <2>5. \A d \in Calls : Has(log'.results, d) <=> run'.progress[d] = "done"
    BY <1>1, <1>3, <2>3 DEF GateInv, ResultsAreWhole
  <2>6. One(log'.results) BY <1>7, <1>9 DEF Grown
  <2> QED BY <1>2, <2>1, <2>2, <2>5, <2>6 DEF ResultsAreWhole
<1> QED BY <1>11, <1>12, <1>13, <1>14, <1>15 DEF GateInv

LEMMA CrashStep ==
  ASSUME GateInv, Crash
  PROVE  GateInv'
<1>1. /\ run \in Runs /\ log \in Logs /\ UNCHANGED <<policy, asks, verdict>>
      /\ run.issued \in Nat /\ run.suspension \in Suspensions
      /\ run.state \in {"running", "suspended"}
  BY DEF Crash, GateInv, Typed, Runs
<1>2. operator' \in [Operators -> Hands] /\ \A o \in Operators : operator'[o] = operator[o] \/ operator'[o] = Idle
  <2>1. Idle \in Hands BY DEF Idle, Hands
  <2> QED BY <2>1 DEF Crash
<1>3. CASE run.state = "suspended"
  <2>1. UNCHANGED <<run, log>> BY <1>3 DEF Crash
  <2>2. Typed' BY <1>1, <1>2, <2>1 DEF GateInv, Typed
  <2>3. Numbered'
    <3>1. run'.issued >= run.issued BY <1>1, <2>1
    <3> QED BY <1>1, <1>2, <2>1, <3>1, PlansStay DEF GateInv
  <2>4. Judged' /\ Frontier' /\ Cleared' /\ StartsAreCleared' /\ ResultsAreWhole'
    BY <1>1, <2>1 DEF GateInv, Judged, Frontier, Cleared, StartsAreCleared, ResultsAreWhole,
                      AskedFor, Announced, Asked, Started
  <2> QED BY <2>2, <2>3, <2>4 DEF GateInv
<1>4. CASE run.state # "suspended" /\ FoldsBack
  <2> DEFINE none == [c \in Calls |-> "planned"]
  <2>1. run' = [run EXCEPT !.state = "suspended", !.progress = none] /\ log' = log
        /\ run.state = "running" /\ ~Announced
    BY <1>1, <1>4 DEF Crash, FoldsBack
  <2>2. none \in [Calls -> Progress] /\ \A c \in Calls : none[c] = "planned" BY DEF Progress
  <2> HIDE DEF none
  <2>3. /\ run' \in Runs /\ run'.state = "suspended" /\ run'.attempt = run.attempt
        /\ run'.progress = none /\ run'.begun = run.begun
        /\ run'.suspension = run.suspension /\ run'.issued = run.issued
    BY <1>1, <2>1, <2>2 DEF Runs
  <2>4. AskedFor /\ \A c \in Calls : run.progress[c] # "done" BY <2>1 DEF GateInv, Frontier
  <2>5. Typed' BY <1>1, <1>2, <2>1, <2>3 DEF GateInv, Typed
  <2>6. Judged' /\ Cleared' BY <1>1, <2>1, <2>3 DEF GateInv, Judged, Cleared
  <2>7. Frontier' BY <1>1, <2>1, <2>2, <2>3, <2>4 DEF Frontier, AskedFor, Asked
  <2>8. Numbered'
    <3>1. run'.issued >= run.issued BY <1>1, <2>3
    <3> QED BY <1>1, <1>2, <2>3, <3>1, PlansStay DEF GateInv
  <2>9. StartsAreCleared' BY <1>1, <2>1, <2>2, <2>3 DEF GateInv, StartsAreCleared
  <2>10. ResultsAreWhole' BY <2>1, <2>2, <2>3, <2>4 DEF GateInv, ResultsAreWhole
  <2> QED BY <2>5, <2>6, <2>7, <2>8, <2>9, <2>10 DEF GateInv
<1>5. CASE run.state # "suspended" /\ ~FoldsBack /\ Started # {}
  <2>1. run' = Suspends("indeterminate", Started, run) /\ log' = log /\ run.state = "running"
    BY <1>1, <1>5 DEF Crash
  <2>2. /\ run' \in Runs
        /\ run'.state = "suspended" /\ run'.attempt = run.attempt /\ run'.progress = run.progress
        /\ run'.begun = run.begun
        /\ run'.suspension.id = run.issued + 1 /\ run'.issued = run.issued + 1
        /\ run'.suspension.kind = "indeterminate" /\ run'.suspension.required = Started
    <3>1. Started \in SUBSET Calls /\ "indeterminate" \in Kinds
      BY <1>1 DEF Started, Kinds, Runs
    <3> QED BY <1>1, <2>1, <3>1, SuspendsAnew
  <2>3. Typed' BY <1>1, <1>2, <2>1, <2>2 DEF GateInv, Typed
  <2>4. Judged' /\ Cleared' BY <1>1, <2>1, <2>2 DEF GateInv, Judged, Cleared
  <2>5. Frontier' BY <2>2 DEF Frontier, Started
  <2>6. Numbered'
    <3>1. run'.suspension \in Suspensions /\ run'.issued \in Nat /\ run'.issued >= run.issued
      BY <1>1, <2>2 DEF Runs
    <3> QED BY <1>2, <2>2, <3>1, PlansStay DEF GateInv, Kinds
  <2>7. StartsAreCleared' BY <1>1, <2>1, <2>2 DEF GateInv, StartsAreCleared
  <2>8. ResultsAreWhole' BY <1>1, <2>1, <2>2 DEF GateInv, ResultsAreWhole
  <2> QED BY <2>3, <2>4, <2>5, <2>6, <2>7, <2>8 DEF GateInv
<1>6. CASE run.state # "suspended" /\ ~FoldsBack /\ Started = {}
  <2> DEFINE S == {c \in Calls : run.progress[c] # "done"}
             w == [c \in Calls |-> "closed"]
  <2>1. /\ run.state = "running"
        /\ run' = [run EXCEPT !.state = "settled", !.suspension = NoSuspension]
        /\ log' = [log EXCEPT !.results = @ \cup {ResultFor(c, "closed") : c \in S}]
    BY <1>1, <1>6 DEF Crash
  <2>2. {ResultFor(c, "closed") : c \in S} = Given(S, w) BY DEF ResultFor, Given
  <2>3. /\ \A c \in S : w[c] \in Whats \ {"execute", "ran"}
        /\ \A c \in S : w[c] \in {"closed", "policy"} => c \notin run.begun
    BY <1>6 DEF Whats, Words, Started
  <2>4. run'.state = "settled" /\ run'.begun = run.begun BY <1>1, <2>1 DEF Runs
  <2> HIDE DEF w
  <2>5. log' \in Logs /\ ResultsAreWhole' /\ LogOnlyGrew
    BY <2>1, <2>2, <2>3, <2>4, SettlesAll
  <2> QED BY <1>1, <1>2, <2>1, <2>5, SettledStep
<1> QED BY <1>3, <1>4, <1>5, <1>6

LEMMA NextBatchStep ==
  ASSUME GateInv, NextBatch
  PROVE  GateInv'
<1>1. /\ run \in Runs /\ run.state = "settled" /\ log' = NoLog
      /\ UNCHANGED <<policy, asks, verdict, operator>>
      /\ run.batch \in Nat /\ run.issued \in Nat
  BY DEF NextBatch, GateInv, Typed, Runs
<1> DEFINE n == run.batch + 1
           none == [c \in Calls |-> "planned"]
           all == [c \in Calls |-> "execute"]
<1>2. run' = [run EXCEPT !.state = "gate", !.batch = n, !.suspension = NoSuspension,
                         !.progress = none, !.begun = {}, !.attempt = 0, !.decisions = all]
  BY <1>1 DEF NextBatch
<1>3. /\ n \in Nat /\ none \in [Calls -> Progress]
      /\ all \in [Calls -> Words] /\ \A c \in Calls : none[c] = "planned"
  BY <1>1 DEF Words, Progress
<1> HIDE DEF n, none, all
<1>5. NoSuspension \in Suspensions /\ NoLog \in Logs
  BY DEF NoSuspension, Suspensions, NoLog, Logs
<1>6. /\ run' \in Runs /\ run'.state = "gate" /\ run'.issued = run.issued
      /\ run'.suspension = NoSuspension /\ run'.progress = none
      /\ run'.begun = {} /\ run'.attempt = 0
  BY <1>1, <1>2, <1>3, <1>5 DEF Runs
<1>7. Typed' BY <1>1, <1>5, <1>6 DEF GateInv, Typed
<1>8. Judged' /\ Frontier' /\ Cleared'
  BY <1>1, <1>3, <1>6 DEF Judged, Frontier, Cleared, NoLog
<1>9. Numbered'
  <2>1. run'.issued >= run.issued BY <1>1, <1>6
  <2> QED BY <1>1, <1>5, <1>6, <2>1, PlansStay DEF GateInv
<1>10. StartsAreCleared' BY <1>1, <1>3, <1>6 DEF StartsAreCleared, NoLog
<1>11. ResultsAreWhole' BY <1>1, <1>3, <1>6 DEF ResultsAreWhole, One, Told, Has, NoLog
<1> QED BY <1>7, <1>8, <1>9, <1>10, <1>11 DEF GateInv

LEMMA NextInv ==
  ASSUME IsFiniteSet(Calls), GateInv, [GateNext]_gateVars
  PROVE  GateInv'
<1>1. CASE Judges BY <1>1, JudgesStep
<1>2. CASE EvaluateBatch BY <1>2, EvaluateStep
<1>3. CASE BatchEnds BY <1>3, BatchEndsStep
<1>4. CASE Crash BY <1>4, CrashStep
<1>5. CASE NextBatch BY <1>5, NextBatchStep
<1>6. CASE \E c \in Calls : Starts(c) \/ HandlerReturns(c) \/ CommitsResult(c)
  BY <1>6, StartsStep, ReturnsStep, CommitsStep
<1>9. CASE Announces BY <1>9, AnnouncesStep
<1>7. ASSUME NEW o \in Operators,
             \/ \E id \in 1..run.issued : Checks(o, id)
             \/ \E resolutions \in Resolutions : Plans(o, resolutions)
             \/ Accepts(o) \/ AcceptsIndeterminate(o) \/ Outdated(o)
      PROVE  GateInv'
  <2>1. CASE Accepts(o) BY <2>1, AcceptsStep
  <2>2. CASE AcceptsIndeterminate(o) BY <2>2, AcceptsIndeterminateStep
  <2> QED BY <1>7, <2>1, <2>2, OperatorSteps
<1>8. CASE UNCHANGED gateVars
  BY <1>8 DEF gateVars, GateInv, Typed, Judged, Frontier, Cleared, Numbered, StartsAreCleared,
              ResultsAreWhole, AskedFor, Announced, Asked, Started
<1> QED BY <1>1, <1>2, <1>3, <1>4, <1>5, <1>6, <1>7, <1>8, <1>9 DEF GateNext

LEMMA InvDecides ==
  ASSUME GateInv
  PROVE  OperatorsDecide
<1>1. NothingRunsUnapproved
  <2>1. ASSUME NEW start \in log.starts
        PROVE  /\ Denied = {} /\ (verdict[start[1]] = "allow" \/ start \in log.approved)
               /\ \A attempt \in log.announced : start[2] <= attempt
    <3>1. \A c \in Calls : verdict[c] \in {"allow", "ask"} BY DEF GateInv, Judged
    <3>2. Denied = {} BY <3>1 DEF Denied
    <3> QED BY <3>2 DEF GateInv, StartsAreCleared
  <2> QED BY <2>1 DEF GateInv, StartsAreCleared, NothingRunsUnapproved
<1>2. EveryCallIsSettledOnce
  <2> SUFFICES ASSUME NEW c \in Calls
               PROVE  LET results == {r \in log.results : r.call = c}
                          ran == \E start \in log.starts : start[1] = c
                      IN /\ \A r, x \in results : r = x
                         /\ run.state = "settled" => results # {}
                         /\ \A r \in results : /\ r.what # "execute"
                                               /\ r.what = "ran" => ran
                                               /\ r.what \in {"closed", "policy"} => ~ran
    BY DEF EveryCallIsSettledOnce
  <2> DEFINE results == {r \in log.results : r.call = c}
  <2>1. \A r, x \in results : r = x BY DEF GateInv, ResultsAreWhole, One
  <2>2. run.state = "settled" => results # {} BY DEF GateInv, ResultsAreWhole, Has
  <2>3. c \in run.begun <=> \E start \in log.starts : start[1] = c
    BY DEF GateInv, StartsAreCleared
  <2>4. \A r \in results : /\ r.what # "execute"
                           /\ r.what = "ran" => c \in run.begun
                           /\ r.what \in {"closed", "policy"} => c \notin run.begun
    BY DEF GateInv, ResultsAreWhole, Told
  <2> QED BY <2>1, <2>2, <2>3, <2>4
<1>3. NarrowerRuleWins BY NarrowerDecides DEF GateInv, Typed
<1> QED BY <1>1, <1>2, <1>3 DEF OperatorsDecide

(***************************************************************************)
(* The theorem.                                                            *)
(***************************************************************************)
\* Whatever operators, the driver and crashes do between check, plan and acceptance,
\* a call that needs an operator's word runs on that word only, each run of it on a
\* word of its own and none once a resumption was announced; every call of a batch
\* that is over has one result, which does not deny that it ran nor say that it did
\* when it did not; and of two rules the narrower decides (EvaluateBatch, PlanResume,
\* prepareResumeWithCommand, prepareResumeIndeterminateWithCommand).
THEOREM OperatorsHaveTheWord ==
  ASSUME IsFiniteSet(Calls)
  PROVE  GateSpec => []OperatorsDecide
<1>1. GateInit => GateInv BY InitInv
<1>2. GateInv /\ [GateNext]_gateVars => GateInv' BY NextInv
<1>3. GateInv => OperatorsDecide BY InvDecides
<1> QED BY <1>1, <1>2, <1>3, PTL DEF GateSpec
=============================================================================

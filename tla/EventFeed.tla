------------------------------ MODULE EventFeed ------------------------------
(***************************************************************************)
(* What a subscription to a session promises (harness/sessionloop/         *)
(* README.md, "Two-tier stream"): the reader gets the entries of the       *)
(* journal after the position it asked for, one by one and in order.       *)
(* The feed may end at any moment, but the reader learns of it, and until  *)
(* then no entry is missing.  Previews are not part of the promise.        *)
(***************************************************************************)
EXTENDS Naturals

CONSTANTS Subs

VARIABLES
  log,        \* entries of the journal, numbered 1..log
  status,     \* of each reader: "fresh", "open" or "ended"
  at          \* the last entry each reader got, or the position it asked for
feed == <<log, status, at>>

Init ==
  /\ log \in Nat
  /\ status = [s \in Subs |-> "fresh"] /\ at = [s \in Subs |-> 0]

Grow == log' \in Nat /\ log' > log /\ UNCHANGED <<status, at>>

Open(s, after) ==
  /\ status[s] = "fresh" /\ after <= log
  /\ status' = [status EXCEPT ![s] = "open"] /\ at' = [at EXCEPT ![s] = after]
  /\ UNCHANGED log

Take(s) ==
  /\ status[s] = "open" /\ at[s] < log
  /\ at' = [at EXCEPT ![s] = @ + 1]
  /\ UNCHANGED <<log, status>>

End(s) ==
  /\ status[s] = "open" /\ status' = [status EXCEPT ![s] = "ended"]
  /\ UNCHANGED <<log, at>>

Next ==
  \/ Grow
  \/ \E s \in Subs : Take(s) \/ End(s) \/ (\E after \in 0..log : Open(s, after))

Spec == Init /\ [][Next]_feed
=============================================================================

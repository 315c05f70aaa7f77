------------------------------ MODULE MCLoopView ------------------------------
EXTENDS LoopView
CONSTANTS c1, c2
C(kind, key, digest, target) == [kind |-> kind, key |-> key, digest |-> digest, target |-> target]
MCCommands ==
  {C("start", 1, 1, 0), C("steer", 2, 1, 1), C("resolve", 2, 2, 1), C("steer", 2, 3, 2),
   C("interrupt", 2, 4, 1)}

\* Callers are not left waiting: an idempotency claim is released and close ends.
CallersReturn == ClaimsReleased /\ CloseEnds
=============================================================================

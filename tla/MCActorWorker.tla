----------------------------- MODULE MCActorWorker -----------------------------
EXTENDS ActorWorker, TLC
CONSTANTS w1, w2, s1, s2, r1
MCKind == [c \in Commands |-> IF c = s2 THEN "steer" ELSE IF c = r1 THEN "resolve" ELSE "start"]
MCTarget == [c \in Commands |-> s1]

\* Under the fairness of FairSpec what was submitted is delivered and a run that
\* began comes to its end.
WorkEnds == SubmittedIsDelivered /\ UnfinishedEnds
=============================================================================

----------------------------- MODULE MCSession -----------------------------
(* Instances of Session for TLC. *)
EXTENDS Session, TLC

NoCalls == {}
OneCall == 1..1
TwoCalls == 1..2
Symmetry == Permutations(Inputs)

\* Under the fairness of FairSpec an accepted interrupt ends its run and an open
\* run ends or waits for an operator (turnHook, finishExecution, Recover).
RunsEnd == AcceptedInterruptSettles /\ OpenRunSettles
=============================================================================

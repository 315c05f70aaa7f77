------------------------------ MODULE RunLedger ------------------------------
(***************************************************************************)
(* What a session promises about its runs and the input it accepts, with   *)
(* handles, drives, budgets, tool calls and losses of the process taken    *)
(* away (harness/sessionloop/README.md, the laws of the loop).             *)
(*                                                                         *)
(* Runs are opened one at a time and numbered.  An open run may be         *)
(* interrupted, and settles once; if it was interrupted it settles as      *)
(* that.  An input that was accepted waits until it is given to a run that *)
(* is open, or is cancelled.  None of this is ever taken back.             *)
(***************************************************************************)
EXTENDS Naturals, Sequences

CONSTANTS
  Inputs

VARIABLES
  run,          \* the open run, None when there is none
  runs,         \* runs opened so far
  settled,      \* how each run that is over settled, by its number
  interrupted,  \* runs that durably accepted an interrupt
  waiting,      \* inputs accepted and neither given nor cancelled
  given,        \* the run each input was given to, <<>> when to none
  cancelled     \* inputs that no run will get
book == <<run, runs, settled, interrupted>>
inputs == <<waiting, given, cancelled>>

None == 0

Init ==
  /\ run = None /\ runs = 0 /\ settled = <<>> /\ interrupted = {}
  /\ waiting = {} /\ given = [i \in Inputs |-> <<>>] /\ cancelled = {}

\* waiting inputs are written into the transcript of the run that is open then
Give(ids) ==
  /\ ids \subseteq waiting /\ waiting' = waiting \ ids
  /\ given' = [i \in Inputs |-> IF i \in ids THEN <<run'>> ELSE given[i]]
  /\ UNCHANGED cancelled

Cancel(ids) ==
  /\ ids \subseteq waiting /\ waiting' = waiting \ ids
  /\ cancelled' = cancelled \cup ids
  /\ UNCHANGED given

\* a run opens with the inputs that waited for it
Open(ids) ==
  /\ run = None /\ run' = runs + 1 /\ runs' = runs + 1
  /\ UNCHANGED <<settled, interrupted>>
  /\ Give(ids)

Interrupt ==
  /\ run # None /\ interrupted' = interrupted \cup {run}
  /\ UNCHANGED <<run, runs, settled, inputs>>

\* the run is over; input that only it could get is cancelled
Settle(status, ids) ==
  /\ run # None /\ (run \in interrupted => status = "Interrupted")
  /\ run' = None /\ settled' = Append(settled, status)
  /\ UNCHANGED <<runs, interrupted>>
  /\ Cancel(ids)

\* an operator's results for a run that cannot go on open the next one
Replace ==
  /\ run # None /\ settled' = Append(settled, "Interrupted")
  /\ run' = runs + 1 /\ runs' = runs + 1
  /\ UNCHANGED <<interrupted, inputs>>

Accept(i) ==
  /\ i \notin waiting \cup cancelled /\ given[i] = <<>>
  /\ waiting' = waiting \cup {i}
  /\ UNCHANGED <<book, given, cancelled>>

Deliver(ids) == run # None /\ UNCHANGED book /\ Give(ids)

Next ==
  \/ \E ids \in SUBSET Inputs : Open(ids) \/ Deliver(ids)
  \/ \E status \in {"Completed", "Failed", "Interrupted"}, ids \in SUBSET Inputs :
       Settle(status, ids)
  \/ Interrupt \/ Replace
  \/ \E i \in Inputs : Accept(i)

Spec == Init /\ [][Next]_<<book, inputs>>
=============================================================================

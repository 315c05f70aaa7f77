-------------------------------- MODULE Mailbox --------------------------------
(***************************************************************************)
(* The store behind one session actor (sessionloop/actor/localchannel):    *)
(* commands that were submitted and are not yet acknowledged, the lease    *)
(* that lets one worker at a time write the session's journal, and the     *)
(* marker that an execution may be unfinished. One mutex makes each        *)
(* operation an atomic step.                                               *)
(***************************************************************************)
EXTENDS Naturals, Sequences, FiniteSets, SequencesExt

CONSTANTS
  Workers,       \* goroutines of workers that receive this actor
  Commands,      \* command identities that may be submitted
  Nobody,        \* the owner of no lease
  MaxGenerations \* bound on leases granted

ASSUME MailboxAssumption ==
  /\ Nobody \notin Workers
  /\ IsFiniteSet(Commands)
  /\ MaxGenerations \in Nat

VARIABLES
  history,     \* commands by sequence number: they outlive their delivery
  pending,     \* those not yet acknowledged
  generation,  \* the last fence granted
  lease,       \* [owner, fence]
  live,        \* the lease has not expired
  needs        \* execution may be unfinished
mailbox == <<history, pending, generation, lease, live, needs>>

NoLease == [owner |-> Nobody, fence |-> 0]

MailboxInit ==
  /\ history = <<>> /\ pending = {}
  /\ generation = 0 /\ lease = NoLease /\ live = FALSE /\ needs = FALSE

Submitted == {history[n] : n \in DOMAIN history}

\* a retry of a known command is answered from the history and changes nothing
Submit(command) ==
  /\ command \notin Submitted
  /\ history' = Append(history, command) /\ pending' = pending \cup {command}
  /\ UNCHANGED <<generation, lease, live, needs>>

\* fault: input that waits does not make the actor eligible
HasUnfinished == needs

HasWork == pending # {} \/ needs

Leased == lease # NoLease /\ live

\* Receive finds the actor, Acquire grants the lease
Acquirable == HasWork /\ ~Leased /\ generation < MaxGenerations

\* fault: the execution marker is left as it was
GrantUnmarked(worker) ==
  /\ Acquirable
  /\ generation' = generation + 1
  /\ lease' = [owner |-> worker, fence |-> generation'] /\ live' = TRUE
  /\ UNCHANGED <<history, pending, needs>>

Grant(worker) ==
  /\ Acquirable
  /\ generation' = generation + 1
  /\ lease' = [owner |-> worker, fence |-> generation'] /\ live' = TRUE
  /\ needs' = TRUE
  /\ UNCHANGED <<history, pending>>

Owned(worker, fence) == lease = [owner |-> worker, fence |-> fence] /\ live

Expire ==
  /\ Leased /\ live' = FALSE
  /\ UNCHANGED <<history, pending, generation, lease, needs>>

\* fault: releasing the lease empties the mailbox
ReleaseAll(worker, fence) ==
  /\ Owned(worker, fence)
  /\ lease' = NoLease /\ live' = FALSE /\ needs' = FALSE /\ pending' = {}
  /\ UNCHANGED <<history, generation>>

Release(worker, fence) ==
  /\ Owned(worker, fence)
  /\ lease' = NoLease /\ live' = FALSE /\ needs' = FALSE
  /\ UNCHANGED <<history, pending, generation>>

\* sequence numbers of at most limit pending commands, the first after a number
Page(after, limit) ==
  LET later == {n \in DOMAIN history : n > after /\ history[n] \in pending}
  IN {n \in later : Cardinality({m \in later : m <= n}) <= limit}

Acknowledge(command) ==
  /\ pending' = pending \ {command}
  /\ UNCHANGED <<history, generation, lease, live, needs>>
=============================================================================

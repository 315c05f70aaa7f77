----------------------------- MODULE JournalStore -----------------------------
(***************************************************************************)
(* The JSON-lines journal of one session (harness/store/jsonl), opened by  *)
(* processes that may fail while they write, under the grant of an         *)
(* external authority (harness/store/authority.go).                        *)
(*                                                                         *)
(*   lines   of the file: <<batch, part>>, or Partial at the end           *)
(*   synced  how many lines survive a loss of power                        *)
(*   lock    the process whose handle holds the file lock                  *)
(*   grant   the process the authority lets write                          *)
(*   handle  per process: where it is, the cursor its caller holds         *)
(*   told    batches whose Append returned a commit                        *)
(***************************************************************************)
EXTENDS Naturals, Sequences, FiniteSets, SequencesExt

CONSTANTS
  Processes,
  BatchSize,    \* entries of a batch
  MaxAppends,   \* bound on batches
  MaxFailures   \* bound on failed writes, crashes and losses of power

ASSUME StoreAssumption == {BatchSize, MaxAppends, MaxFailures} \subseteq Nat

VARIABLES lines, synced, lock, grant, handle, told, batches, failures
storeVars == <<lines, synced, lock, grant, handle, told, batches, failures>>

Nobody == "nobody"
Partial == <<0, 0>>
NoHandle == [state |-> "none", cursor |-> 0]

StoreInit ==
  /\ lines = <<>> /\ synced = 0
  /\ lock = Nobody /\ grant \in Processes
  /\ handle = [p \in Processes |-> NoHandle]
  /\ told = {} /\ batches = 0 /\ failures = 0

Entries(batch, count) == [part \in 1..count |-> <<batch, part>>]
\* odd batches ask for sync; sync covers the whole file
Syncs(batch) == batch % 2 = 1
Granted(p) == grant = p

\* fault: the partial tail stays
KeepsTail(file) == file

\* loadLocked keeps a partial tail aside and cuts it off
RecoverPartial(file) == IF file # <<>> /\ Last(file) = Partial THEN Front(file) ELSE file

Loads == /\ lines' = RecoverPartial(lines)
         /\ synced' = IF lines' = lines THEN synced ELSE Len(lines')   \* it syncs the cut

Open(p) ==
  /\ Granted(p) /\ handle[p].state = "none" /\ lock = Nobody
  /\ Loads /\ lock' = p
  /\ handle' = [handle EXCEPT ![p] = [state |-> "open", cursor |-> Len(lines')]]
  /\ UNCHANGED <<grant, told, batches, failures>>

Load(p) ==
  /\ Granted(p) /\ handle[p].state = "open"
  /\ Loads /\ handle' = [handle EXCEPT ![p].cursor = Len(lines')]
  /\ UNCHANGED <<lock, grant, told, batches, failures>>

\* Append loads, compares cursors, writes all lines with one call and syncs
Writes(p) ==
  /\ Granted(p) /\ handle[p].state = "open"
  /\ handle[p].cursor = Len(RecoverPartial(lines))
  /\ batches < MaxAppends /\ batches' = batches + 1

AppendCommits(p) ==
  /\ Writes(p)
  /\ lines' = RecoverPartial(lines) \o Entries(batches', BatchSize)
  /\ synced' = IF Syncs(batches') THEN Len(lines')
               ELSE IF RecoverPartial(lines) = lines THEN synced ELSE Len(lines) - 1
  /\ told' = told \union {batches'}
  /\ handle' = [handle EXCEPT ![p].cursor = Len(lines')]
  /\ UNCHANGED <<lock, grant, failures>>

\* a write that ends short: some of the lines, and perhaps a part of the next;
\* with all of them it is the sync that failed, or the process died after it
AppendFails(p) ==
  /\ Writes(p) /\ failures < MaxFailures /\ failures' = failures + 1
  /\ \E count \in 0..BatchSize :
       \E rest \in {<<>>} \union (IF count < BatchSize THEN {<<Partial>>} ELSE {}) :
         lines' = RecoverPartial(lines) \o Entries(batches', count) \o rest
  /\ synced' = IF RecoverPartial(lines) = lines THEN synced ELSE Len(lines) - 1
  /\ \E dies \in BOOLEAN :
       /\ handle' = IF dies THEN [handle EXCEPT ![p] = NoHandle] ELSE handle
       /\ lock' = IF dies THEN Nobody ELSE lock
  /\ UNCHANGED <<grant, told>>

\* Close leaves the registry of open journals, then releases the lock
CloseBegins(p) ==
  /\ handle[p].state = "open" /\ handle' = [handle EXCEPT ![p].state = "closing"]
  /\ UNCHANGED <<lines, synced, lock, grant, told, batches, failures>>
CloseEnds(p) ==
  /\ handle[p].state = "closing" /\ handle' = [handle EXCEPT ![p] = NoHandle]
  /\ lock' = Nobody
  /\ UNCHANGED <<lines, synced, grant, told, batches, failures>>

Revoke(p) ==
  /\ ~Granted(p) /\ grant' = p
  /\ UNCHANGED <<lines, synced, lock, handle, told, batches, failures>>

\* all processes go, and with them what was not synced
PowerLoss ==
  /\ failures < MaxFailures /\ failures' = failures + 1
  /\ \E kept \in synced..Len(lines) :
       \E rest \in {<<>>} \union (IF kept < Len(lines) THEN {<<Partial>>} ELSE {}) :
         lines' = SubSeq(lines, 1, kept) \o rest
  /\ lock' = Nobody /\ handle' = [p \in Processes |-> NoHandle]
  /\ UNCHANGED <<synced, grant, told, batches>>

StoreNext ==
  \/ \E p \in Processes : \/ Open(p) \/ Load(p) \/ AppendCommits(p) \/ AppendFails(p)
                          \/ CloseBegins(p) \/ CloseEnds(p) \/ Revoke(p)
  \/ PowerLoss

StoreSpec == StoreInit /\ [][StoreNext]_storeVars

(***************************************************************************)
(* Properties.                                                             *)
(***************************************************************************)
\* the lines of a batch, one after the other
Holds(file, batch) ==
  \E at \in 0..Len(file) : \A part \in 1..BatchSize :
    at + part <= Len(file) /\ file[at + part] = <<batch, part>>

\* A batch whose Append returned survives whole if it asked for sync, whatever
\* is torn, cut off or lost later, and batches never interleave or overtake each
\* other (Append, recoverPartial, the lock, the cursor and the grant).
CommittedIsKept ==
  /\ \A batch \in told : Syncs(batch) => Holds(lines, batch)
  /\ \A i \in DOMAIN lines : \A j \in 1..(i - 1) :
       \/ lines[j][1] < lines[i][1]
       \/ lines[j][1] = lines[i][1] /\ lines[j][2] < lines[i][2]
       \/ i = Len(lines) /\ lines[i] = Partial

Parts(batch) == SelectSeq(lines, LAMBDA line : line[1] = batch)

\* "Append commits the whole batch or none of it" (harness/store/store.go): once
\* the file was loaded, no batch is there in part.
BatchesAreWhole ==
  RecoverPartial(lines) = lines =>
    \A batch \in 1..batches : Len(Parts(batch)) \in {0, BatchSize}
=============================================================================

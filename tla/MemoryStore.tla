------------------------------ MODULE MemoryStore ------------------------------
(***************************************************************************)
(* Cross-session memory: the tools of harness/memory/capability.go over    *)
(* one scope of the JSON-lines store (harness/memory/jsonl), which several *)
(* processes open and which may fail at every step of a write.             *)
(*                                                                         *)
(*   log      complete lines; torn  a line without its end follows them    *)
(*   synced   how many lines survive a loss of power                       *)
(*   flock    the process that holds the scope's file lock                 *)
(*   caller   per process: the call it serves (s.mu serves one at a time)  *)
(*   versions what reads and writes have told the models                   *)
(*   written  results a caller got from the write it made itself           *)
(*   told     all results callers got for a mutation                       *)
(*                                                                         *)
(* Content is its length; a fingerprint is the mutation without its key.   *)
(***************************************************************************)
EXTENDS Integers, FiniteSets, Sequences, SequencesExt

CONSTANTS
  Processes, Paths, Keys,
  MainPath,              \* the file injected into every request
  MaxMainBytes, FailOpen, \* of the injection
  MaxLines,              \* bound on lines
  MaxFailures            \* bound on failed writes, crashes and losses of power

VARIABLES log, torn, synced, flock, caller, versions, written, told, failures
memoryVars == <<log, torn, synced, flock, caller, versions, written, told, failures>>

Nobody == "nobody"
NoVersion == <<>>          \* the file must not exist
NoFile == [bytes |-> -1, version |-> NoVersion]
NoMutation == [key |-> "", kind |-> "read", path |-> MainPath, bytes |-> 0, expected |-> NoVersion]
NoCaller == [phase |-> "idle", mutation |-> NoMutation, line |-> <<>>, clean |-> TRUE, answer |-> "done"]

Fingerprint(m) == [m EXCEPT !.key = ""]
makeVersion(sequence, m) == <<sequence, m.path, m.bytes>>

MemoryInit ==
  /\ log = <<>> /\ torn = FALSE /\ synced = 0 /\ flock = Nobody
  /\ caller = [p \in Processes |-> NoCaller]
  /\ versions = {} /\ written = {} /\ told = {} /\ failures = 0

--------------------------------------------------------------------------------
\* loadUnlocked: every line must follow from the ones before it
File(s, m) ==
  LET had == IF s.files[m.path] = NoFile THEN 0 ELSE s.files[m.path].bytes
  IN IF m.kind = "delete" THEN NoFile
     ELSE [version |-> makeVersion(s.next + 1, m),
           bytes |-> IF m.kind = "append" THEN had + m.bytes ELSE m.bytes]
Expected(s, m) ==
  /\ m.expected = s.files[m.path].version
  /\ m.kind = "delete" => s.files[m.path] # NoFile
Known(s, key) == {o \in s.ops : o.mutation.key = key}
Valid(s, line) ==
  /\ line.sequence = s.next + 1
  /\ Known(s, line.mutation.key) = {} /\ Expected(s, line.mutation)
  /\ line.file = File(s, line.mutation)

Garbage == [sequence |-> 0, mutation |-> NoMutation, file |-> NoFile]
NoState == [files |-> [x \in Paths |-> NoFile], ops |-> {}, next |-> 0, corrupt |-> FALSE]
Replay(s, line) ==
  IF s.corrupt \/ ~Valid(s, line) THEN [s EXCEPT !.corrupt = TRUE]
  ELSE [s EXCEPT !.files[line.mutation.path] = line.file, !.ops = @ \union {line},
                 !.next = line.sequence]
Loaded == FoldLeft(Replay, NoState, log)

\* fault: the torn tail stays
KeepsTail == torn

\* a torn tail is kept in a sidecar, cut off, and the file synced
recoverPartial == FALSE

--------------------------------------------------------------------------------
\* the tools: a mutation's key is the session and the call, and a call that is
\* run again (a retry, a resumed execution) comes with its key
Mutations ==
  [key : Keys, kind : {"append", "replace"}, path : Paths, bytes : {1}, expected : versions \union {NoVersion}]
    \union [key : Keys, kind : {"delete"}, path : Paths, bytes : {0}, expected : versions]

Asks(p, m) == caller' = [caller EXCEPT ![p] = [NoCaller EXCEPT !.phase = "locking", !.mutation = m]]

\* two calls of one key differ only if the model reused the id
Mutate(p) ==
  /\ caller[p].phase = "idle" /\ Len(log) < MaxLines
  /\ \E m \in Mutations : Asks(p, m)
  /\ UNCHANGED <<log, torn, synced, flock, versions, written, told, failures>>

Read(p) ==
  /\ caller[p].phase = "idle"
  \* a list is a search here: both tell paths and no version
  /\ \E kind \in {"read", "search", "inject"}, path \in Paths :
       /\ kind # "read" => path = MainPath
       /\ Asks(p, [NoMutation EXCEPT !.kind = kind, !.path = path])
  /\ UNCHANGED <<log, torn, synced, flock, versions, written, told, failures>>

Acquire(p) ==
  /\ caller[p].phase = "locking" /\ flock = Nobody
  /\ flock' = p /\ caller' = [caller EXCEPT ![p].phase = "loading"]
  /\ UNCHANGED <<log, torn, synced, versions, written, told, failures>>

Cancelled(p) ==
  /\ caller[p].phase = "locking"
  /\ caller' = [caller EXCEPT ![p] = [NoCaller EXCEPT !.answer = "error"]]
  /\ UNCHANGED <<log, torn, synced, flock, versions, written, told, failures>>

Returns(p, answer) ==
  /\ caller' = [caller EXCEPT ![p] = [NoCaller EXCEPT !.answer = answer]]
  /\ flock' = IF flock = p THEN Nobody ELSE flock

Recovered ==
  /\ torn' = recoverPartial
  /\ synced' = IF torn /\ ~torn' THEN Len(log) ELSE synced
  /\ UNCHANGED log

\* a read tells its version, a search and a list tell none; a file that has
\* outgrown the bound is an error, and the injection fails the request by it
\* unless it may fail open
Reads(p) ==
  LET m == caller[p].mutation
      file == Loaded.files[m.path]
  IN /\ caller[p].phase = "loading" /\ m.key = ""
     /\ Recovered
     /\ Returns(p, IF Loaded.corrupt \/ (m.kind = "read" /\ file = NoFile) THEN "error"
                   ELSE IF m.kind = "inject" /\ file.bytes > MaxMainBytes /\ ~FailOpen THEN "limit"
                   ELSE "done")
     /\ versions' = IF ~Loaded.corrupt /\ m.kind = "read" /\ file # NoFile
                    THEN versions \union {file.version} ELSE versions
     /\ UNCHANGED <<written, told, failures>>

\* a known key answers what it answered, a new one compares and swaps
Decides(p) ==
  LET m == caller[p].mutation
      s == Loaded
      prior == Known(s, m.key)
      same == IF s.corrupt THEN {} ELSE {o \in prior : Fingerprint(o.mutation) = Fingerprint(m)}
      line == [sequence |-> s.next + 1, mutation |-> m, file |-> File(s, m)]
  IN /\ caller[p].phase = "loading" /\ m.key # ""
     /\ Recovered
     /\ IF ~s.corrupt /\ prior = {} /\ Expected(s, m)
          THEN /\ caller' = [caller EXCEPT ![p].phase = "writing", ![p].line = line]
               /\ UNCHANGED <<flock, told>>
          ELSE /\ Returns(p, IF same = {} THEN "error" ELSE "done")
               /\ told' = told \union same
     /\ UNCHANGED <<versions, written, failures>>

--------------------------------------------------------------------------------
Failure == failures < MaxFailures /\ failures' = failures + 1

\* one line reaches the file in parts, behind whatever ends it
WriteStarts(p) ==
  /\ caller[p].phase = "writing"
  /\ torn' = TRUE
  /\ caller' = [caller EXCEPT ![p].phase = "written in part", ![p].clean = ~torn]
  /\ UNCHANGED <<log, synced, flock, versions, written, told, failures>>

WriteEnds(p) ==
  /\ caller[p].phase = "written in part"
  /\ log' = Append(log, IF caller[p].clean /\ torn THEN caller[p].line ELSE Garbage)
  /\ torn' = FALSE
  /\ caller' = [caller EXCEPT ![p].phase = "syncing"]
  /\ UNCHANGED <<synced, flock, versions, written, told, failures>>

\* a write that stops, or a sync that fails, is an error: the line, or a part
\* of it, stays in the file
WriteFails(p) ==
  /\ caller[p].phase \in {"writing", "written in part", "syncing"} /\ Failure
  /\ Returns(p, "error")
  /\ UNCHANGED <<log, torn, synced, versions, written, told>>

\* fault: the last line is not synced
SyncedBefore == Len(log) - 1

Synced == Len(log)

Syncs(p) ==
  /\ caller[p].phase = "syncing"
  /\ synced' = Synced
  /\ written' = written \union {caller[p].line} /\ told' = told \union {caller[p].line}
  /\ versions' = versions \union ({caller[p].line.file.version} \ {NoVersion})
  /\ Returns(p, "done")
  /\ UNCHANGED <<log, torn, failures>>

Crash(p) ==
  /\ caller[p].phase # "idle" /\ Failure
  /\ Returns(p, "error")
  /\ UNCHANGED <<log, torn, synced, versions, written, told>>

\* of what was not synced any number of lines survives, and a part of the next
PowerLoss ==
  /\ Failure
  /\ \E kept \in synced..Len(log) :
       /\ log' = SubSeq(log, 1, kept)
       /\ torn' \in (IF kept < Len(log) \/ torn THEN BOOLEAN ELSE {FALSE})
  /\ synced' = Len(log') /\ flock' = Nobody
  /\ caller' = [p \in Processes |-> NoCaller]
  /\ UNCHANGED <<versions, written, told>>

MemoryNext ==
  \/ \E p \in Processes :
       \/ Mutate(p) \/ Read(p) \/ Acquire(p) \/ Cancelled(p) \/ Reads(p) \/ Decides(p)
       \/ WriteStarts(p) \/ WriteEnds(p) \/ WriteFails(p) \/ Syncs(p) \/ Crash(p)
  \/ PowerLoss

MemorySpec == MemoryInit /\ [][MemoryNext]_memoryVars

--------------------------------------------------------------------------------
\* No mixture of writers, torn lines and crashes leaves a log its own load
\* refuses: sequences follow each other, no key is applied twice, and every
\* write replaced the version it expected.
LogStaysReadable == ~Loaded.corrupt

\* A write that was reported done is in the log for good.
WrittenIsKept == \A line \in written : \E i \in DOMAIN log : log[i] = line

\* The same of the answer a retry gets for a write made before it.
ToldIsKept == \A line \in told : \E i \in DOMAIN log : log[i] = line

\* What the tools write never stops the requests it is injected into.
InjectionGoesThrough == \A p \in Processes : caller[p].answer # "limit"
================================================================================

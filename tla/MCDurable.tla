------------------------------ MODULE MCDurable ------------------------------
(*****************************************************************************)
(* The smaller machines around a session that keep or hand on durable        *)
(* facts, side by side: a behaviour picks one of them and the others rest.   *)
(* Two of them share v1.. so that a state is as small as its machine.      *)
(*****************************************************************************)
EXTENDS
  EventHub, LocalHost, LoopProjection, ChildSessions, PermissionGate, JournalStore, TLC

VARIABLES part, v1, v2, v3, v4, v5, v6, v7, v8, v9
slots == <<v1, v2, v3, v4, v5, v6, v7, v8, v9>>

Unused == "unused"
UnusedSlots ==
  /\ v1 = Unused /\ v2 = Unused /\ v3 = Unused /\ v4 = Unused /\ v5 = Unused
  /\ v6 = Unused /\ v7 = Unused /\ v8 = Unused /\ v9 = Unused

\* The hub, the host, the stream, the children, the gate and the journal file have
\* variables of their own, which stay as they are while another machine runs.
HubRests == Init /\ top = 0
GateRests == GateInit /\ policy = NoPolicy /\ \A c \in Calls : asks[c] = Unresolvable
StoreRests == StoreInit /\ grant = CHOOSE p \in Processes : TRUE

Memory == INSTANCE MemoryStore WITH
  Processes <- {"p", "q"}, Paths <- {"m"}, Keys <- {"k", "l"},
  MainPath <- "m", MaxMainBytes <- 1, FailOpen <- FALSE, MaxLines <- 2,
  MaxFailures <- 2, log <- v1, torn <- v2, synced <- v3, flock <- v4,
  caller <- v5, versions <- v6, written <- v7, told <- v8, failures <- v9
MemoryInit ==
  /\ part = "memory" /\ Memory!MemoryInit
MemoryNext ==
  /\ part = "memory" /\ Memory!MemoryNext
  /\ UNCHANGED part

Context == INSTANCE ContextPolicy WITH
  Trigger <- 6, Target <- 5, RecentMessages <- 2, SystemVaries <- FALSE,
  MaxMessages <- 7, MaxExtras <- 2, MaxMishaps <- 2, journal <- v1,
  messages <- v2, markers <- v3, recipe <- v4, run <- v5, view <- v6,
  refused <- v7, prompted <- v8, mishaps <- v9
ContextInit ==
  /\ part = "context" /\ Context!ContextInit
ContextNext ==
  /\ part = "context" /\ Context!ContextNext
  /\ UNCHANGED part

DurableInit ==
  \/ /\ part = "hub" /\ Init /\ HostInit
     /\ ProjectionInit /\ ChildrenInit /\ GateRests /\ StoreRests /\ UnusedSlots
  \/ /\ part = "host" /\ HostInit /\ HubRests
     /\ ProjectionInit /\ ChildrenInit /\ GateRests /\ StoreRests /\ UnusedSlots
  \/ /\ part = "stream" /\ ProjectionInit /\ HubRests
     /\ HostInit /\ ChildrenInit /\ GateRests /\ StoreRests /\ UnusedSlots
  \/ /\ part = "children" /\ ChildrenInit /\ HubRests
     /\ HostInit /\ ProjectionInit /\ GateRests /\ StoreRests /\ UnusedSlots
  \/ /\ part = "gate" /\ GateInit /\ HubRests
     /\ HostInit /\ ProjectionInit /\ ChildrenInit /\ StoreRests /\ UnusedSlots
  \/ /\ part = "store" /\ StoreInit /\ HubRests
     /\ HostInit /\ ProjectionInit /\ ChildrenInit /\ GateRests /\ UnusedSlots
  \/ /\ MemoryInit \/ ContextInit
     /\ HubRests
     /\ HostInit /\ ProjectionInit /\ ChildrenInit /\ GateRests /\ StoreRests

DurableNext ==
  \/ /\ part = "hub" /\ Next
     /\ UNCHANGED <<part, slots, hostVars, projectionVars, childVars, gateVars, storeVars>>
  \/ /\ part = "host" /\ HostNext
     /\ UNCHANGED <<part, slots, vars, projectionVars, childVars, gateVars, storeVars>>
  \/ /\ part = "stream" /\ ProjectionNext
     /\ UNCHANGED <<part, slots, vars, hostVars, childVars, gateVars, storeVars>>
  \/ /\ part = "children" /\ ChildrenNext
     /\ UNCHANGED <<part, slots, vars, hostVars, projectionVars, gateVars, storeVars>>
  \/ /\ part = "gate" /\ GateNext
     /\ UNCHANGED <<part, slots, vars, hostVars, projectionVars, childVars, storeVars>>
  \/ /\ part = "store" /\ StoreNext
     /\ UNCHANGED <<part, slots, vars, hostVars, projectionVars, childVars, gateVars>>
  \/ /\ MemoryNext \/ ContextNext
     /\ UNCHANGED <<vars, hostVars, projectionVars, childVars, gateVars, storeVars>>

DurableSpec ==
  /\ DurableInit
  /\ [][DurableNext]_<<part, slots, vars, hostVars, projectionVars, childVars, gateVars, storeVars>>

\* No property tells one Start from another, nor one call.
Symmetry == Permutations(StartIds) \cup Permutations(Calls \cup Children)

\* What the model is shown of the past holds: the driver's history is the
\* session's and only grows, a compaction recipe keeps applying, and a provider
\* view holds a result with its call or neither; no mixture of writers, torn lines
\* and crashes makes a memory log unreadable or loses a line that a tool call
\* reported written.
PastIsKept ==
  /\ part = "context" => Context!HistoryIsAppendOnly /\ Context!ViewKeepsFrontiers
  /\ part = "memory" => Memory!LogStaysReadable /\ Memory!WrittenIsKept
=============================================================================

------------------------------ MODULE VoiceBridge ------------------------------
(***************************************************************************)
(* A live voice call bridged to a session (realtime/bridge.go). The watch  *)
(* goroutine folds session events into a map of runs, one goroutine per    *)
(* tool call dispatches and waits for its run, and the receive loop reads  *)
(* the provider. The provider and the session are modelled by what the     *)
(* bridge sees of them: the events of the voice model, the stream of the   *)
(* session. The end of the call, which ends every goroutine, is not        *)
(* modelled.                                                               *)
(*                                                                         *)
(*   voice   speaking?, events not yet read, results told and spoken       *)
(*   bridge  responding, deferred, the receive loop's unsent respond, runs *)
(*   call    per tool call: where its goroutine is, its run, its output    *)
(*   loop    the session: active run, its runs, its events not yet watched *)
(***************************************************************************)
EXTENDS Naturals, Sequences, FiniteSets, FiniteSetsExt

CONSTANTS
  ToolCalls,   \* tool calls the voice model may make
  MaxTurns,    \* bound on the responses the voice model starts by itself
  MaxEntries   \* bound on the assistant entries of a run

ASSUME BridgeAssumption == IsFiniteSet(ToolCalls)

VARIABLES voice, bridge, call, loop
bridgeVars == <<voice, bridge, call, loop>>

Runs == 1..Cardinality(ToolCalls)
NewRun == [answer |-> 0, outcome |-> "none", reported |-> FALSE]

BridgeInit ==
  /\ voice = [speaking |-> FALSE, turns |-> 0, events |-> <<>>,
              told |-> {}, heard |-> {}, rejected |-> FALSE]
  /\ bridge = [responding |-> FALSE, deferred |-> FALSE, owes |-> FALSE,
               runs |-> <<>>]
  /\ call = [c \in ToolCalls |-> [pc |-> "none", run |-> 0, output |-> <<>>]]
  /\ loop = [active |-> 0, last |-> 0, state |-> [r \in Runs |-> "none"],
             entries |-> [r \in Runs |-> 0], events |-> <<>>,
             told |-> [r \in Runs |-> <<>>]]

(***************************************************************************)
(* The voice model.                                                        *)
(***************************************************************************)
VoiceStarts ==
  /\ ~voice.speaking /\ voice.turns < MaxTurns
  /\ voice' = [voice EXCEPT !.speaking = TRUE, !.turns = @ + 1,
                            !.events = Append(@, [kind |-> "started"])]
  /\ UNCHANGED <<bridge, call, loop>>

VoiceCalls(c) ==
  /\ voice.speaking /\ call[c].pc = "none"
  /\ voice' = [voice EXCEPT !.events = Append(@, [kind |-> "call", id |-> c])]
  /\ call' = [call EXCEPT ![c].pc = "asked"]
  /\ UNCHANGED <<bridge, loop>>

VoiceEnds ==
  /\ voice.speaking
  /\ voice' = [voice EXCEPT !.speaking = FALSE, !.events = Append(@, [kind |-> "done"])]
  /\ UNCHANGED <<bridge, call, loop>>

\* taken as soon as it is sent: "Providers reject a second concurrent response."
Asked(v) ==
  IF v.speaking THEN [v EXCEPT !.rejected = TRUE]
  ELSE [v EXCEPT !.speaking = TRUE, !.heard = @ \cup v.told,
                 !.events = Append(@, [kind |-> "started"])]

(***************************************************************************)
(* The receive loop. responseDone asks for the deferred response itself.   *)
(***************************************************************************)
\* fault: a deferred answer is dropped
DropsDeferred(b) == [b EXCEPT !.responding = FALSE, !.deferred = FALSE]

ResponseDone(b) ==
  [b EXCEPT !.responding = b.deferred, !.deferred = FALSE, !.owes = b.deferred]

Recv ==
  /\ voice.events # <<>> /\ ~bridge.owes
  /\ LET e == Head(voice.events)
     IN /\ voice' = [voice EXCEPT !.events = Tail(@)]
        /\ bridge' = CASE e.kind = "started" -> [bridge EXCEPT !.responding = TRUE]
                       [] e.kind = "done" -> ResponseDone(bridge)
                       [] OTHER -> bridge
        /\ call' = IF e.kind = "call" THEN [call EXCEPT ![e.id].pc = "dispatch"] ELSE call
  /\ UNCHANGED loop

LoopAsks ==
  /\ bridge.owes
  /\ bridge' = [bridge EXCEPT !.owes = FALSE]
  /\ voice' = Asked(voice)
  /\ UNCHANGED <<call, loop>>

(***************************************************************************)
(* One tool call: delegate, steerActive, handle and respond.               *)
(***************************************************************************)
Stands(c, pc) == call[c].pc = pc
Outputs(c, output) == call' = [call EXCEPT ![c].pc = "result", ![c].output = output]

\* the goroutine handles an argument it refuses, or a Start that is refused
Refuse(c) ==
  /\ Stands(c, "dispatch") /\ Outputs(c, <<"refused">>) /\ UNCHANGED <<voice, bridge, loop>>

DispatchStart(c) ==
  /\ Stands(c, "dispatch") /\ loop.active = 0
  /\ LET r == loop.last + 1
     IN /\ loop' = [loop EXCEPT !.active = r, !.last = r, !.state[r] = "running"]
        /\ call' = [call EXCEPT ![c].pc = "accepted", ![c].run = r]
  /\ UNCHANGED <<voice, bridge>>

DispatchBusy(c) ==
  /\ Stands(c, "dispatch") /\ loop.active # 0
  /\ call' = [call EXCEPT ![c].pc = "busy"] /\ UNCHANGED <<voice, bridge, loop>>

\* the snapshot names the active run; the steer may find another, or none
Snapshot(c) ==
  /\ Stands(c, "busy")
  /\ IF loop.active = 0 THEN Outputs(c, <<"busy">>)
     ELSE call' = [call EXCEPT ![c].pc = "steer", ![c].run = loop.active]
  /\ UNCHANGED <<voice, bridge, loop>>

Steer(c) ==
  /\ Stands(c, "steer")
  /\ Outputs(c, IF loop.active = call[c].run THEN <<"added", call[c].run>> ELSE <<"busy">>)
  /\ UNCHANGED <<voice, bridge, loop>>

\* run: the entry the watcher made first, or a new one
Run(b, r) ==
  IF r \in DOMAIN b.runs THEN b
  ELSE [b EXCEPT !.runs = [x \in DOMAIN @ \cup {r} |-> IF x = r THEN NewRun ELSE @[x]]]

Await(c) ==
  /\ Stands(c, "accepted") /\ bridge' = Run(bridge, call[c].run)
  /\ call' = [call EXCEPT ![c].pc = "waiting"] /\ UNCHANGED <<voice, loop>>

ReportOf(state) ==
  CASE state.outcome = "none" -> <<"paused">>
    [] state.outcome = "completed" -> <<"answer", state.answer>>
    [] OTHER -> <<state.outcome>>

\* woken by ready; the state is read under the lock, later
Ready(c) ==
  /\ Stands(c, "waiting") /\ bridge.runs[call[c].run].reported
  /\ Outputs(c, ReportOf(bridge.runs[call[c].run]))
  /\ bridge' = [bridge EXCEPT !.runs = [x \in DOMAIN @ \ {call[c].run} |-> @[x]]]
  /\ UNCHANGED <<voice, loop>>

SendResult(c) ==
  /\ Stands(c, "result")
  /\ voice' = [voice EXCEPT !.told = @ \cup {c}]
  /\ call' = [call EXCEPT ![c].pc = "respond"] /\ UNCHANGED <<bridge, loop>>

\* respond: now, or after the response in progress
Respond(c) ==
  /\ Stands(c, "respond")
  /\ IF bridge.responding
     THEN /\ bridge' = [bridge EXCEPT !.deferred = TRUE]
          /\ call' = [call EXCEPT ![c].pc = "done"]
     ELSE /\ bridge' = [bridge EXCEPT !.responding = TRUE]
          /\ call' = [call EXCEPT ![c].pc = "ask"]
  /\ UNCHANGED <<voice, loop>>

Ask(c) ==
  /\ Stands(c, "ask")
  /\ voice' = Asked(voice)
  /\ call' = [call EXCEPT ![c].pc = "done"] /\ UNCHANGED <<bridge, loop>>

(***************************************************************************)
(* The session and the goroutine that watches it.                          *)
(***************************************************************************)
Emits(s, r, e) == [s EXCEPT !.events = Append(@, <<r>> \o e), !.told[r] = Append(@, e)]

LoopCommits ==
  /\ loop.active # 0 /\ loop.entries[loop.active] < MaxEntries
  /\ loop' = LET r == loop.active
                 n == loop.entries[r] + 1
             IN Emits([loop EXCEPT !.entries[r] = n], r, <<"entry", n>>)
  /\ UNCHANGED <<voice, bridge, call>>

LoopSuspends ==
  /\ loop.active # 0 /\ loop.state[loop.active] = "running"
  /\ loop' = Emits([loop EXCEPT !.state[loop.active] = "suspended"], loop.active, <<"suspended">>)
  /\ UNCHANGED <<voice, bridge, call>>

LoopSettles(outcome) ==
  /\ loop.active # 0
  /\ loop' = Emits([loop EXCEPT !.state[loop.active] = "settled", !.active = 0],
                   loop.active, <<"settled", outcome>>)
  /\ UNCHANGED <<voice, bridge, call>>

\* fault: settling forgets the answer
FoldForgetful(state, e) ==
  CASE e[2] = "entry" -> [state EXCEPT !.answer = e[3]]
    [] e[2] = "suspended" -> [state EXCEPT !.reported = TRUE]
    [] e[2] = "settled" -> [state EXCEPT !.outcome = e[3], !.answer = 0, !.reported = TRUE]

FoldEvent(state, e) ==
  CASE e[2] = "entry" -> [state EXCEPT !.answer = e[3]]
    [] e[2] = "suspended" -> [state EXCEPT !.reported = TRUE]
    [] e[2] = "settled" -> [state EXCEPT !.outcome = e[3], !.reported = TRUE]

Watch ==
  /\ loop.events # <<>>
  /\ LET e == Head(loop.events)
         b == Run(bridge, e[1])
     IN /\ bridge' = [b EXCEPT !.runs[e[1]] = FoldEvent(@, e)]
        /\ loop' = [loop EXCEPT !.events = Tail(@)]
  /\ UNCHANGED <<voice, call>>

BridgeNext ==
  \/ VoiceStarts \/ VoiceEnds \/ Recv \/ LoopAsks \/ Watch
  \/ \E c \in ToolCalls :
       \/ VoiceCalls(c) \/ Refuse(c) \/ DispatchStart(c) \/ DispatchBusy(c)
       \/ Snapshot(c) \/ Steer(c) \/ Await(c) \/ Ready(c) \/ SendResult(c)
       \/ Respond(c) \/ Ask(c)
  \/ LoopCommits \/ LoopSuspends
  \/ \E outcome \in {"completed", "interrupted"} : LoopSettles(outcome)

BridgeSpec == BridgeInit /\ [][BridgeNext]_bridgeVars

(***************************************************************************)
(* Properties.                                                             *)
(***************************************************************************)
\* the last answer a run committed before its n-th event
AnswerBefore(told, n) ==
  Max({0} \cup {told[m][2] : m \in {x \in 1..n : told[x][1] = "entry"}})

\* the outputs a run that told these events may be reported with
Reports(told) ==
  {<<"paused">> : n \in {x \in DOMAIN told : told[x][1] = "suspended"}}
    \cup {IF told[n][2] = "completed" THEN <<"answer", AnswerBefore(told, n)>> ELSE <<told[n][2]>> :
            n \in {x \in DOMAIN told : told[x][1] = "settled"}}

\* A delegate call is answered with an outcome its own run had, and with the
\* last answer committed before it, whichever of the watcher and the call's
\* goroutine met the run first; and one that waits for a run whose end or pause
\* the watcher has folded is woken (bridge.run, runState, report).
OutputIsOfItsRun ==
  \A c \in ToolCalls :
    /\ call[c].output # <<>> =>
         \/ call[c].output[1] \in {"refused", "busy", "added"}
         \/ call[c].output \in Reports(loop.told[call[c].run])
    /\ Stands(c, "waiting") /\ loop.events = <<>> /\ loop.state[call[c].run] # "running"
         => bridge.runs[call[c].run].reported

\* nothing is under way any more
Quiet ==
  /\ ~voice.speaking /\ voice.events = <<>> /\ ~bridge.owes
  /\ \A c \in ToolCalls : call[c].pc \in {"none", "done"}

\* No result is left unspoken: when the call is quiet, a response began after
\* each tool result, at once or when the response in progress was done
\* (respond, responseDone). The provider's rejection of a request that met a
\* response it had started by itself is the exception: nothing asks again.
ResultsAreSpoken ==
  Quiet /\ ~voice.rejected => voice.told \subseteq voice.heard

\* Speech that a run's answer prompts belongs to that run, and every answer the
\* voice model waits for is spoken.
VoiceIsCoherent == OutputIsOfItsRun /\ ResultsAreSpoken
=============================================================================

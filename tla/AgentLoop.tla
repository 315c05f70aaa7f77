------------------------------ MODULE AgentLoop ------------------------------
(***************************************************************************)
(* The agent loop (execution_loop.go, turn.go): requests, tool turns,      *)
(* output validation, the turn hook, suspension and resume, over one       *)
(* ToolScheduler.  The loop is a single goroutine; its steps interleave    *)
(* with the handlers of a batch and with the cancellation of the context.  *)
(*                                                                         *)
(*   pc        where the loop is                                           *)
(*   messages  the transcript: [role, calls, of], where calls are the      *)
(*             tools an assistant message calls and of is the call that a  *)
(*             tool message answers                                        *)
(*   sunk      what the event sink was told of it                          *)
(*   loop      loopState with the turn at hand (turnOutcome and            *)
(*             regularTurnState): counters, the results so far, and what   *)
(*             was decided of the turn                                     *)
(*   saved     the suspension and its payload                              *)
(*   since     where the run begins in the transcript                      *)
(*   status    of the execution that was returned                          *)
(*   stream    terminal events of the legacy stream (stream.go)            *)
(*   resumes   how often the run was resumed                               *)
(*                                                                         *)
(* A call is its place in its message.  Providers reuse identities across  *)
(* turns, which is the same here.                                          *)
(***************************************************************************)
EXTENDS ToolScheduler

CONSTANTS
  AnswerCalls,              \* sequences of calls an assistant message may have
  Histories,                \* transcripts a drive may be given
  MaxIterations, MaxRequests, MaxToolCalls,  \* limits of the configuration
  MaxValidationRetries, MaxRetries,
  EarlyEnd,                 \* EndStrategyEarly
  MaxResumes                \* bound

OutputTool == "output"

Message == [role : {"system", "user", "assistant", "tool"},
            calls : Seq(Tools \cup {OutputTool}), of : Nat]

ASSUME LoopAssumption ==
  /\ {MaxIterations, MaxRequests, MaxToolCalls, MaxValidationRetries, MaxRetries,
      MaxResumes} \subseteq Nat
  /\ EarlyEnd \in BOOLEAN
  /\ OutputTool \notin Tools /\ AnswerCalls \subseteq Seq(Tools \cup {OutputTool})
  /\ Histories \subseteq Seq(Message)

VARIABLES pc, messages, sunk, loop, saved, since, status, stream, resumes
loopVars == <<pc, messages, sunk, loop, saved, since, status, stream, resumes>>
vars == <<loopVars, schedulerVars>>

User == [role |-> "user", calls |-> <<>>, of |-> 0]
Assistant(calls) == [role |-> "assistant", calls |-> calls, of |-> 0]
ToolMessage(i) == [role |-> "tool", calls |-> <<>>, of |-> i]

(***************************************************************************)
(* transcript.go: the calls of the last assistant message that have no     *)
(* result, and whether the transcript is legal.                            *)
(***************************************************************************)
Inspected(m, each) ==
  IF ~each.valid THEN each
  ELSE IF m.calls # <<>>
  THEN [valid |-> m.role = "assistant" /\ each.open = {}, open |-> DOMAIN m.calls]
  ELSE IF m.of # 0
  THEN [valid |-> m.role = "tool" /\ m.of \in each.open, open |-> each.open \ {m.of}]
  ELSE [valid |-> each.open = {} \/ m.role = "tool", open |-> each.open]

NoneOpen == [valid |-> TRUE, open |-> {}]

\* what is known after the first n messages, for each n
Scanned(msgs) ==
  LET upTo[n \in 0..Len(msgs)] ==
        IF n = 0 THEN NoneOpen ELSE Inspected(msgs[n], upTo[n - 1])
  IN upTo

Inspect(msgs) == Scanned(msgs)[Len(msgs)]

Paired(msgs) == Inspect(msgs) = NoneOpen

\* validateDriveInput
Drivable(mode, msgs) ==
  /\ Paired(msgs)
  /\ mode # "start" =>
       /\ msgs # <<>>
       /\ \/ Last(msgs).role \in {"user", "tool"}
          \/ mode = "recover" /\ Last(msgs).role = "assistant" /\ Last(msgs).calls = <<>>

NoLoop == [requests |-> 0, tools |-> 0, retries |-> [t \in Tools |-> 0], again |-> 0,
           iteration |-> 0, results |-> <<>>, fatal |-> FALSE,
           continues |-> FALSE, candidate |-> FALSE, resumed |-> FALSE, prompt |-> FALSE]
NextTurn(l) == [NoLoop EXCEPT !.requests = l.requests, !.tools = l.tools,
                  !.retries = l.retries, !.again = l.again, !.iteration = l.iteration]
NoSuspension == [kind |-> "none", execute |-> {}, loop |-> NoLoop]

Init ==
  /\ SchedulerInit
  /\ pc = "idle" /\ messages \in Histories /\ sunk = messages /\ since = Len(messages)
  /\ loop = NoLoop /\ saved = NoSuspension
  /\ status = "none" /\ stream = <<>> /\ resumes = 0

(***************************************************************************)
(* How an execution ends.  The stream sends the terminal event it is told  *)
(* of, and after the execution returned an error unless it already sent    *)
(* one.                                                                    *)
(***************************************************************************)
\* fault: the stream does not remember what it sent
SentAgain(events, event) == Append(events, event)

SentOnce(events, event) == IF events = <<>> THEN <<event>> ELSE events

\* event is the terminal event the sink took, if it took one
Returns(outcome, event) ==
  /\ pc' = "idle" /\ status' = outcome /\ loop' = NoLoop
  /\ LET told == IF event = "none" THEN stream ELSE SentOnce(stream, event)
     IN stream' = IF outcome = "completed" THEN told ELSE SentOnce(told, "error")

Fails(sinkFailed) == Returns("failed", IF sinkFailed THEN "none" ELSE "error")
Interrupted == Returns("interrupted", "error")

\* RunCompleted and RunEnded are two events; took is how many the sink took
Completes(took) ==
  IF took = 2 THEN Returns("completed", "done")
  ELSE Returns("failed", IF took = 1 THEN "done" ELSE "none")
Stops(sent) == IF sent THEN Returns("stopped", "error") ELSE Fails(TRUE)
Suspends(sent) == IF sent THEN Returns("suspended", "error") ELSE Fails(TRUE)

(***************************************************************************)
(* The calls of the last assistant message.                                *)
(***************************************************************************)
Frontier == LET at == SelectLastInSeq(messages, LAMBDA m : m.role = "assistant")
            IN IF at = 0 THEN <<>> ELSE messages[at].calls
OutputCalls == {i \in DOMAIN Frontier : Frontier[i] = OutputTool}
IsCandidate(i) == i \in OutputCalls /\ \A j \in OutputCalls : i <= j
Regular(calls) == {i \in DOMAIN calls : calls[i] # OutputTool}

\* validateSuspendableBatch
Alone(execute, of) == \A i \in execute : Frontier[i] \in Suspendable =>
                        Cardinality(execute) = 1 /\ Cardinality(of) = 1

With(f, g) == [i \in DOMAIN f \cup DOMAIN g |-> IF i \in DOMAIN g THEN g[i] ELSE f[i]]
AllFailed(calls) == [i \in calls |-> "failed"]

\* what an operator or a gate decides of the calls: run it, or a result given
Decisions(calls) == [calls -> {"execute", "return"}]
Executed(calls, decide) == {i \in calls : decide[i] = "execute"}
Given(calls, decide) == [i \in calls \ Executed(calls, decide) |-> "given"]
ToolsOf(calls) == [i \in calls |-> Frontier[i]]

\* fault: only the calls of this batch are counted
OverToolLimitAlone(l, calls) == Cardinality(calls) > MaxToolCalls

\* checkToolCallLimits
OverToolLimit(l, calls) == l.tools + Cardinality(calls) > MaxToolCalls

(***************************************************************************)
(* Drive and Resume.                                                       *)
(***************************************************************************)
Drive(mode, sent) ==
  /\ pc = "idle" /\ status = "none" /\ Drivable(mode, messages)
  /\ LET started == IF mode = "start" THEN Append(messages, User) ELSE messages
     IN messages' = started /\ sunk' = started /\ since' = Len(started)
  /\ IF sent
     THEN /\ pc' = IF Last(messages').role = "assistant" THEN "evaluate" ELSE "top"
          /\ status' = "running" /\ UNCHANGED <<stream, loop>>
     ELSE Fails(TRUE)
  /\ UNCHANGED <<saved, resumes, schedulerVars>>

\* fault: the counters of the run start again at its resume
RestoredAnew(s) == NoLoop

Restored(s) == NextTurn(s.loop)

\* resumePreparedWithEvaluator up to the batch.  An invalid set of
\* resolutions, a tool limit and a batch that may not run fail the resume.
Resume(decide, prompt, valid, sent) ==
  /\ pc = "idle" /\ status = "suspended" /\ resumes < MaxResumes
  /\ resumes' = resumes + 1
  /\ LET run == Executed(saved.execute, decide)
         refused == \/ OverToolLimit(Restored(saved), run)
                    \/ ~Alone(run, saved.execute)
     IN IF ~valid \/ (run # {} /\ refused)
        THEN /\ pc' = "idle" /\ status' = "failed" /\ loop' = NoLoop /\ stream' = <<"error">>
             /\ UNCHANGED schedulerVars
        ELSE /\ loop' = [Restored(saved) EXCEPT
                  !.results = Given(saved.execute, decide),
                  !.resumed = TRUE, !.prompt = prompt]
             /\ status' = "running" /\ stream' = <<>>
             /\ IF run = {}
                THEN pc' = "announce" /\ UNCHANGED schedulerVars
                ELSE pc' = "tools" /\ Announce(ToolsOf(run), sent)
  /\ UNCHANGED <<messages, sunk, saved, since>>

\* the resumed run announces itself after its calls
ResumeStarts(sent) ==
  /\ pc = "announce"
  /\ IF ~sent THEN Fails(TRUE)
     ELSE pc' = "evaluate" /\ UNCHANGED <<status, stream, loop>>
  /\ UNCHANGED <<messages, sunk, saved, since, resumes, schedulerVars>>

(***************************************************************************)
(* A turn: the limits, the request, the committed message.                 *)
(***************************************************************************)
BeginTurn(sent) ==
  /\ pc = "top"
  /\ IF cancelled THEN Interrupted
     ELSE IF loop.iteration >= MaxIterations \/ loop.requests >= MaxRequests THEN Fails(FALSE)
     ELSE IF ~sent THEN Fails(TRUE)
     ELSE pc' = "request" /\ UNCHANGED <<status, stream, loop>>
  /\ UNCHANGED <<messages, sunk, saved, since, resumes, schedulerVars>>

\* An error of the request, or a response of no use: over a token limit, cut
\* off, empty.  A deadline counts as an interruption whoever set it.
ModelFails(deadline) ==
  /\ pc = "request"
  /\ IF deadline THEN Interrupted ELSE Fails(FALSE)
  /\ UNCHANGED <<messages, sunk, saved, since, resumes, schedulerVars>>

ModelAnswers(calls, sent) ==
  /\ pc = "request"
  /\ messages' = Append(messages, Assistant(calls))
  /\ IF ~sent THEN Fails(TRUE) /\ UNCHANGED sunk
     ELSE /\ sunk' = Append(sunk, Assistant(calls))
          /\ loop' = [NextTurn(loop) EXCEPT !.requests = @ + 1]
          /\ pc' = IF Regular(calls) = {} \/ (EarlyEnd /\ OutputTool \in ToSet(calls))
                   THEN "evaluate" ELSE "gate"
          /\ UNCHANGED <<status, stream>>
  /\ UNCHANGED <<saved, since, resumes, schedulerVars>>

(***************************************************************************)
(* executeRegularTurn.                                                     *)
(***************************************************************************)
\* the batch cannot be planned, or the gate fails or answers nonsense
GateFails ==
  /\ pc = "gate" /\ pc' = "evaluate"
  /\ loop' = [loop EXCEPT !.fatal = TRUE, !.results = AllFailed(Regular(Frontier))]
  /\ UNCHANGED <<messages, sunk, saved, since, status, stream, resumes, schedulerVars>>

Suspension(kind, execute) ==
  [kind |-> kind, execute |-> execute, loop |-> NextTurn(loop)]

GateSuspends(sent) ==
  /\ pc = "gate"
  /\ saved' = Suspension("gate", Regular(Frontier))
  /\ Suspends(sent)
  /\ UNCHANGED <<messages, sunk, since, resumes, schedulerVars>>

GateDecides(decide, continue, sent) ==
  /\ pc = "gate"
  /\ LET regular == Regular(Frontier)
         run == Executed(regular, decide)
         given == Given(regular, decide)
         refused == OverToolLimit(loop, run) \/ ~Alone(run, regular)
         decided == [loop EXCEPT !.results = given, !.continues = continue]
     IN IF run = {} THEN
             pc' = "evaluate" /\ loop' = decided /\ UNCHANGED schedulerVars
        ELSE IF refused THEN
             /\ pc' = "evaluate" /\ UNCHANGED schedulerVars
             /\ loop' = [decided EXCEPT !.fatal = TRUE, !.results = With(given, AllFailed(run))]
        ELSE pc' = "tools" /\ loop' = decided /\ Announce(ToolsOf(run), sent)
  /\ UNCHANGED <<messages, sunk, saved, since, status, stream, resumes>>

\* A batch the sink refused to announce has no results at all.
Ran == IF Missing = {} THEN DOMAIN batch ELSE {}

\* Each result that asks the model to try again counts for its tool, up to the
\* limit of the tool.
Retried(asking) ==
  [t \in Tools |->
     LET asked == loop.retries[t] + Cardinality({i \in asking : batch[i] = t})
     IN IF asked < MaxRetries THEN asked ELSE MaxRetries]

\* bad: results whose processor fails
ToolsReturn(bad, sent) ==
  /\ pc = "tools" /\ Release
  /\ IF deferred
     THEN /\ saved' = Suspension("handler", DOMAIN batch)
          /\ Suspends(sent)
     ELSE /\ LET counts == Retried({i \in Ran \ bad : results[i] = "retry"})
             IN loop' = [loop EXCEPT
                  !.retries = counts, !.tools = @ + Cardinality(Ran),
                  !.results = With(@, [i \in Ran |-> "answered"]),
                  !.fatal = failed \/ bad \cap Ran # {},
                  !.continues = @ \/ counts # loop.retries]
          /\ pc' = IF loop.resumed THEN "announce" ELSE "evaluate"
          /\ UNCHANGED <<saved, status, stream>>
  /\ UNCHANGED <<messages, sunk, since, resumes>>

(***************************************************************************)
(* completeAssistantTurn: one result for every call, and the candidate.    *)
(***************************************************************************)
\* fault: the results of calls after the candidate are left empty
ResultOfUnlessSkipped(i, output) ==
  IF i \in OutputCalls THEN IF IsCandidate(i) THEN output ELSE "none"
  ELSE IF i \in DOMAIN loop.results THEN loop.results[i] ELSE "failed"

ResultOf(i, output) ==
  IF i \in OutputCalls THEN IF IsCandidate(i) THEN output ELSE "skipped"
  ELSE IF i \in DOMAIN loop.results THEN loop.results[i]
  ELSE IF EarlyEnd /\ OutputCalls # {} THEN "skipped" ELSE "failed"

\* The results are an array with a place for every call.  One that was left
\* empty names no call.
Answer(i, output) == ToolMessage(IF ResultOf(i, output) = "none" THEN 0 ELSE i)

\* commitToolResults: all are in the transcript, those before an error of the
\* sink were told; took is how many
Committed(before, output, took) ==
  LET added == [i \in DOMAIN Frontier |-> Answer(i, output)]
  IN /\ messages' = before.messages \o added
     /\ sunk' = before.sunk \o SubSeq(added, 1, IF took < Len(added) THEN took ELSE Len(added))

Candidate == Frontier = <<>> \/ OutputCalls # {}
Overruled == loop.fatal \/ loop.continues \/ ~Candidate
Took == {0, Len(Frontier)} \cup {n \in {1} : n < Len(Frontier)}

\* fault: an error of the sink does not end the turn
Forgiven(took) == FALSE

Missed(took) == took < Len(Frontier)

\* no candidate, or one that another result overrules
EndTools(took) ==
  /\ pc = "evaluate" /\ pc' = "finish" /\ Overruled
  /\ Committed([messages |-> messages, sunk |-> sunk], "discarded", took)
  /\ loop' = [loop EXCEPT !.fatal = @ \/ Missed(took),
                          !.continues = @ \/ loop.fatal \/ OutputCalls # {}]
  /\ UNCHANGED <<saved, since, status, stream, resumes, schedulerVars>>

Accepts(sent, took) ==
  /\ pc = "evaluate" /\ pc' = "finish" /\ ~Overruled
  /\ Committed([messages |-> messages, sunk |-> sunk], "accepted", took)
  /\ loop' = [loop EXCEPT !.candidate = TRUE, !.fatal = ~sent \/ Missed(took)]
  /\ UNCHANGED <<saved, since, status, stream, resumes, schedulerVars>>

\* a text candidate is answered with a message, an output tool with its result
Rejects(sent, took) ==
  /\ pc = "evaluate" /\ pc' = "finish" /\ ~Overruled
  /\ LET feedback == IF OutputCalls = {} THEN <<User>> ELSE <<>>
     IN /\ Committed([messages |-> messages \o feedback,
                      sunk |-> IF sent THEN sunk \o feedback ELSE sunk], "invalid", took)
        /\ loop' = [loop EXCEPT !.continues = TRUE, !.again = @ + 1,
             !.fatal = \/ loop.again + 1 > MaxValidationRetries
                       \/ ~sent /\ feedback # <<>>
                       \/ Missed(took)]
  /\ UNCHANGED <<saved, since, status, stream, resumes, schedulerVars>>

(***************************************************************************)
(* finishTurn: the hook decides; a prompt given along with a resume goes   *)
(* in first.                                                               *)
(***************************************************************************)
Prompted(sent) ==
  /\ pc = "finish" /\ loop.prompt /\ ~loop.fatal
  /\ messages' = Append(messages, User)
  /\ sunk' = IF sent THEN Append(sunk, User) ELSE sunk
  /\ loop' = [loop EXCEPT !.prompt = FALSE, !.continues = TRUE, !.fatal = ~sent]
  /\ UNCHANGED <<pc, saved, since, status, stream, resumes, schedulerVars>>

\* the turn was fatal, or the sink, the hook or its decision fails now
TurnFails(sinkFailed) ==
  /\ pc = "finish" /\ (loop.fatal \/ ~loop.prompt)
  /\ Fails(sinkFailed)
  /\ UNCHANGED <<messages, sunk, saved, since, resumes, schedulerVars>>

TurnGoesOn == ~loop.prompt /\ ~loop.fatal

HookInjects(sent) ==
  /\ pc = "finish" /\ TurnGoesOn
  /\ messages' = Append(messages, User)
  /\ IF sent
     THEN /\ sunk' = Append(sunk, User)
          /\ pc' = "top" /\ loop' = NextTurn([loop EXCEPT !.iteration = @ + 1])
          /\ UNCHANGED <<status, stream>>
     ELSE Fails(TRUE) /\ UNCHANGED sunk
  /\ UNCHANGED <<saved, since, resumes, schedulerVars>>

HookStops(took) ==
  /\ pc = "finish" /\ TurnGoesOn
  /\ IF loop.candidate THEN Completes(took) ELSE Stops(took = 2)
  /\ UNCHANGED <<messages, sunk, saved, since, resumes, schedulerVars>>

HookDefault(took) ==
  /\ pc = "finish" /\ TurnGoesOn
  /\ IF loop.candidate /\ ~loop.continues
     THEN Completes(took)
     ELSE /\ pc' = "top" /\ loop' = NextTurn([loop EXCEPT !.iteration = @ + 1])
          /\ UNCHANGED <<status, stream>>
  /\ UNCHANGED <<messages, sunk, saved, since, resumes, schedulerVars>>

-----------------------------------------------------------------------------
Callers ==
  \E sent \in BOOLEAN :
    \/ \E mode \in {"start", "continue", "recover"} : Drive(mode, sent)
    \/ \E prompt, valid \in BOOLEAN, decide \in Decisions(saved.execute) :
         Resume(decide, prompt, valid, sent)

Turns ==
  \E sent \in BOOLEAN :
    \/ ResumeStarts(sent) \/ BeginTurn(sent) \/ GateSuspends(sent)
    \/ ModelFails(sent) \/ GateFails
    \/ \E calls \in AnswerCalls : ModelAnswers(calls, sent)
    \/ \E decide \in Decisions(Regular(Frontier)), continue \in BOOLEAN :
         GateDecides(decide, continue, sent)
    \/ \E bad \in SUBSET DOMAIN results : ToolsReturn(bad, sent)
    \/ \E took \in Took : EndTools(took) \/ Accepts(sent, took) \/ Rejects(sent, took)
    \/ Prompted(sent) \/ TurnFails(sent) \/ HookInjects(sent)
    \/ \E took \in 0..2 : HookStops(took) \/ HookDefault(took)

Loop == Turns \/ (Scheduler /\ UNCHANGED loopVars)

Next ==
  \/ Callers \/ Loop
  \/ (Handlers \/ Cancel) /\ UNCHANGED loopVars

Spec == Init /\ [][Next]_vars

\* The loop runs, the model answers or fails, the timer fires; nothing is
\* assumed of the handlers, which may never return.
FairSpec == Spec /\ WF_vars(Loop)

(***************************************************************************)
(* Properties.                                                             *)
(***************************************************************************)
LoopType ==
  /\ SchedulerType
  /\ pc \in {"idle", "announce", "top", "request", "gate", "tools", "evaluate", "finish"}
  /\ status \in {"none", "running", "completed", "suspended", "stopped", "interrupted", "failed"}
  /\ loop.requests <= MaxRequests /\ loop.tools <= MaxToolCalls
  /\ \A t \in Tools : loop.retries[t] <= MaxRetries
  /\ loop.again <= MaxValidationRetries + 1
  /\ loop.iteration <= MaxIterations \/ loop.iteration <= 1

\* What an execution returns is what its event sink recorded, message by
\* message, unless it failed.
SinkHasTranscript ==
  pc = "idle" /\ status \notin {"running", "failed"} => sunk = messages

\* No request is made with a call unanswered or answered twice, whichever of
\* gate, operator, handler, grace period, output rules or limits answered it.
RequestsArePaired == pc = "request" => Paired(messages)

\* A run makes no more requests than its limit, its suspensions included.
RequestsBounded ==
  Cardinality({n \in DOMAIN messages : n > since /\ messages[n].role = "assistant"})
    <= MaxRequests

\* The legacy stream ends with one event, and with "done" only for a run that
\* completed or whose last event was refused.
StreamTellsOutcome ==
  pc = "idle" /\ status # "none" =>
    /\ Len(stream) = 1
    /\ status = "completed" => stream = <<"done">>
    /\ stream = <<"done">> => status \in {"completed", "failed"}

\* Unless the context is cancelled the loop waits for every handler.
NothingLeftRunning == left => cancelled

\* The transcript the loop leaves to its caller and to the sink is one whole: the
\* sink has every message in order, and no request goes out with a call that has
\* no result (driveLoop, RepairTranscript).
TranscriptIsWhole == LoopType /\ SinkHasTranscript /\ RequestsArePaired

\* However a run ends, its stream tells one outcome as its last event, no handler
\* is left running unless the run was cancelled, and the limits held over every
\* suspension and resumption.
OutcomeIsTold == StreamTellsOutcome /\ NothingLeftRunning /\ RequestsBounded

\* A cancelled execution returns, though its handlers may never do.
CancelledReturns == cancelled ~> pc = "idle"
=============================================================================

-------------------------------- MODULE CodeMode --------------------------------
(***************************************************************************)
(* The code-execution tool (harness/codemode): one tool call runs a        *)
(* program that may call the tools selected for it. The executor, a        *)
(* subprocess or the Monty interpreter, stops at each batch of calls with  *)
(* a checkpoint; the handler plans the batch, puts it before the gate,     *)
(* performs it under write-ahead records and resumes the checkpoint. A     *)
(* batch with something to ask suspends the tool call with all it needs to *)
(* go on, in another process if need be.  A resumed handler runs before    *)
(* the resumed run is announced (RunStarted): a crash until then folds     *)
(* back to the suspension, which may be resumed again, effects and all.    *)
(*                                                                         *)
(*   program   the handler's state, [phase, step, ...]                     *)
(*   deferred  the program the last durable suspension holds               *)
(*   native    the interpreter's frontier at hand                          *)
(*   log       batches planned, calls started, effects and announcements,  *)
(*             in order, each with the number of resumptions before it     *)
(*             (attempt); the records nothing depends on are left out      *)
(***************************************************************************)
EXTENDS Naturals, Sequences, FiniteSets, SequencesExt

CONSTANTS
  NestedCalls,    \* the executor's names for its calls, the same in every step
  MaxSteps, MaxStdout, MaxCallsPerStep,
  MaxAttempts,    \* bound on resumptions
  Executors       \* "subprocess", "monty"

ASSUME CodeAssumption == {MaxSteps, MaxStdout, MaxCallsPerStep} \subseteq Nat

VARIABLES program, deferred, native, log
codeVars == <<program, deferred, native, log>>

Dispositions == {"execute", "return", "suspend"}
Step(done, calls, stdout) == [done |-> done, calls |-> calls, stdout |-> stdout]
NoStep == Step(FALSE, <<>>, 0)
NoProgram == [step |-> 0, calls |-> <<>>, dispositions |-> <<>>, stdout |-> 0]
NoResolutions == [id \in NestedCalls |-> "none"]

CodeInit ==
  /\ \E e \in Executors :
       program = [phase |-> "starts", executor |-> e, given |-> NoStep, attempt |-> 0,
                  step |-> 0, stdout |-> 0, calls |-> <<>>, dispositions |-> <<>>, resolutions |-> NoResolutions,
                  results |-> <<>>, printed |-> 0]
  /\ deferred = NoProgram
  /\ native = "none"
  /\ log = <<>>

\* the executor's answer is used up
Becomes(phase) == program' = [program EXCEPT !.phase = phase, !.given = NoStep]
Fails == Becomes("failed") /\ UNCHANGED <<deferred, log>>
Logged(entries) == log' = log \o entries
Entry(what, id) == [what |-> what, step |-> program.step, id |-> id, attempt |-> program.attempt]
Runnable == program.phase \in {"starts", "resumes"}
Given(step) == program' = [program EXCEPT !.phase = "given", !.given = step]

(***************************************************************************)
(* Executors. A subprocess answers with whatever it prints.                *)
(***************************************************************************)
Batches == UNION {[1..n -> NestedCalls] : n \in 0..MaxCallsPerStep + 1}
SubprocessAnswers ==
  /\ Runnable /\ program.executor = "subprocess"
  /\ \/ \E done \in BOOLEAN, calls \in Batches, stdout \in 0..MaxStdout : Given(Step(done, calls, stdout))
     \/ Becomes("failed")
  /\ UNCHANGED <<deferred, native, log>>

\* Monty's frontiers: each is resumed, which makes the next one, or abandoned
Frontiers == {"complete", "lookup", "call", "unsupported"}
MontyRuns ==
  /\ Runnable /\ program.executor = "monty"
  /\ native' \in Frontiers
  /\ Becomes("advances") /\ UNCHANGED <<deferred, log>>
ResolvesLookup ==
  /\ program.phase = "advances" /\ native = "lookup"
  /\ native' \in Frontiers /\ UNCHANGED <<program, deferred, log>>
Completes ==
  /\ program.phase = "advances" /\ native = "complete"
  /\ Given(Step(TRUE, <<>>, 0)) /\ native' = "none" /\ UNCHANGED <<deferred, log>>

\* fault: a failed program keeps its native frontier
AbandonsNothing == native' = native

Abandons == native' = "none"

\* the checkpoint holds all there is to the call: the frontier itself is let go
CheckpointsCall ==
  /\ program.phase = "advances" /\ native = "call"
  /\ Abandons
  /\ \/ \E id \in NestedCalls : Given(Step(FALSE, <<id>>, 0))
     \/ Becomes("failed")
  /\ UNCHANGED <<deferred, log>>
AbandonsFrontier ==
  /\ program.phase = "advances"
  /\ Abandons /\ Fails

(***************************************************************************)
(* The handler.                                                            *)
(***************************************************************************)
validateStep(step) ==
  /\ step.done # (step.calls # <<>>)
  /\ step.stdout <= MaxStdout
  /\ Len(step.calls) <= MaxCallsPerStep
  /\ IsInjective(step.calls)

\* fault: each step has the whole allowance
ExceedsInStep(stdout) == stdout > MaxStdout

Exceeds(stdout) == program.stdout + stdout > MaxStdout

Rejects ==
  /\ program.phase = "given"
  /\ \/ ~validateStep(program.given) \/ Exceeds(program.given.stdout)
     \/ ~program.given.done /\ program.step >= MaxSteps
  /\ Fails /\ UNCHANGED native
Finishes ==
  /\ program.phase = "given" /\ validateStep(program.given) /\ ~Exceeds(program.given.stdout)
  /\ program.given.done
  /\ program' = [program EXCEPT !.phase = "done", !.printed = @ + program.given.stdout,
                                !.stdout = @ + program.given.stdout, !.given = NoStep]
  /\ UNCHANGED <<deferred, native, log>>
PlansBatch ==
  /\ program.phase = "given" /\ validateStep(program.given) /\ ~Exceeds(program.given.stdout)
  /\ ~program.given.done /\ program.step < MaxSteps
  /\ program' = [program EXCEPT !.phase = "gate", !.calls = program.given.calls,
                   !.printed = @ + program.given.stdout, !.stdout = @ + program.given.stdout,
                   !.given = NoStep]
  /\ Logged(<<Entry("planned", "")>>) /\ UNCHANGED <<deferred, native>>

DeferredProgram(dispositions) ==
  [step |-> program.step, calls |-> program.calls, dispositions |-> dispositions, stdout |-> program.stdout]
\* a call that suspends returns: what it knows is in its deferral
EvaluateBatch ==
  /\ program.phase = "gate"
  /\ \E dispositions \in [DOMAIN program.calls -> Dispositions] :
       program' = [program EXCEPT !.dispositions = dispositions,
                     !.phase = IF "suspend" \in Range(dispositions) THEN "suspends" ELSE "batch"]
  /\ UNCHANGED <<deferred, native, log>>

\* the operator resolves what is required, no more, and the program goes on
Required == {deferred.calls[i] : i \in {j \in DOMAIN deferred.calls : deferred.dispositions[j] = "suspend"}}
PlanResume(resolutions) == {id \in NestedCalls : resolutions[id] # "none"} = Required
Resumed(resolutions) ==
  [program EXCEPT !.phase = "batch", !.attempt = @ + 1, !.step = deferred.step, !.stdout = deferred.stdout,
     !.calls = deferred.calls, !.dispositions = deferred.dispositions,
     !.resolutions = resolutions]

Resumes ==
  /\ program.phase = "suspended" /\ program.attempt < MaxAttempts
  /\ \E resolutions \in [NestedCalls -> {"none", "execute", "return"}] :
       PlanResume(resolutions) /\ program' = Resumed(resolutions)
  /\ UNCHANGED <<deferred, native, log>>

(***************************************************************************)
(* A batch, call by call: what is to be done is recorded, done, its result *)
(* recorded.                                                               *)
(***************************************************************************)
At == Len(program.results) + 1
InBatch == program.phase = "batch" /\ At <= Len(program.calls)
Action == IF program.dispositions[At] = "suspend" THEN program.resolutions[program.calls[At]]
          ELSE program.dispositions[At]
ResultOf(id, what) == [id |-> id, what |-> what]

\* fault: a start is not recorded
StartedUnrecorded == UNCHANGED log

Started == Logged(<<Entry("started", program.calls[At])>>)

StartsCall == InBatch /\ Action = "execute" /\ Becomes("runs") /\ Started /\ UNCHANGED <<deferred, native>>
ExecutesCall ==
  /\ program.phase = "runs" /\ Becomes("ran")
  /\ Logged(<<Entry("effect", program.calls[At])>>) /\ UNCHANGED <<deferred, native>>
ReturnsCall ==
  /\ InBatch /\ Action = "return" /\ Becomes("returned") /\ UNCHANGED <<deferred, native, log>>
RecordsResult ==
  /\ program.phase \in {"ran", "returned"}
  /\ program' = [program EXCEPT !.phase = "batch",
                   !.results = Append(@, ResultOf(program.calls[At], program.phase))]
  /\ UNCHANGED <<deferred, native, log>>
ResumesExecutor ==
  /\ program.phase = "batch" /\ At > Len(program.calls)
  /\ program' = [program EXCEPT !.phase = "resumes", !.step = @ + 1, !.calls = <<>>,
                   !.dispositions = <<>>, !.resolutions = NoResolutions, !.results = <<>>]
  /\ UNCHANGED <<deferred, native, log>>

\* a record the session refuses ends the tool call
RecordFails ==
  /\ program.phase \in {"given", "gate", "batch", "ran", "returned"}
  /\ Fails /\ UNCHANGED native

(***************************************************************************)
(* The run around the call: a resumed one is announced once the handler    *)
(* has returned, and then the result or the next suspension is committed.  *)
(***************************************************************************)
Kept == {0} \cup {log[j].attempt : j \in {k \in DOMAIN log : log[k].what = "announced"}}
Announced == program.attempt \in Kept

Announces ==
  /\ program.phase \in {"done", "failed", "suspends"} /\ ~Announced
  /\ Logged(<<Entry("announced", "")>>) /\ UNCHANGED <<program, deferred, native>>
CommitsResult ==
  /\ program.phase \in {"done", "failed"} /\ Announced
  /\ Becomes("settled") /\ UNCHANGED <<deferred, native, log>>

\* the handler keeps nothing of a suspended program
AtRest(stdout) ==
  [program EXCEPT !.phase = "suspended", !.step = 0, !.stdout = 0, !.calls = <<>>,
                  !.dispositions = <<>>, !.resolutions = NoResolutions, !.results = <<>>,
                  !.given = NoStep, !.printed = stdout]
CommitsSuspension ==
  /\ program.phase = "suspends" /\ Announced
  /\ deferred' = DeferredProgram(program.dispositions)
  /\ program' = AtRest(program.printed) /\ UNCHANGED <<native, log>>

\* fault: a resumption folds back to its suspension although it was announced
FoldsBackAlways == program.attempt > 0

FoldsBack == ~Announced

\* the suspension is found again and what was printed since is not; or the outcome of the
\* call is unknown and the program never goes on
Crash ==
  /\ program.phase \notin {"suspended", "settled", "lost"}
  /\ IF FoldsBack THEN program' = AtRest(deferred.stdout) ELSE Becomes("lost")
  /\ native' = "none" /\ UNCHANGED <<deferred, log>>

CodeNext ==
  \/ SubprocessAnswers \/ MontyRuns \/ ResolvesLookup \/ Completes \/ CheckpointsCall \/ AbandonsFrontier
  \/ Rejects \/ Finishes \/ PlansBatch \/ EvaluateBatch \/ Resumes
  \/ StartsCall \/ ExecutesCall \/ ReturnsCall \/ RecordsResult \/ ResumesExecutor
  \/ RecordFails \/ Announces \/ CommitsResult \/ CommitsSuspension \/ Crash
CodeSpec == CodeInit /\ [][CodeNext]_codeVars

(***************************************************************************)
(* Properties.                                                             *)
(***************************************************************************)
\* An effect of the program is planned with its batch and recorded as started right
\* before it is had (recordProgram, recordCall). Within a resumption it is the only one
\* of its name (nestedCallID); it is repeated only by a later resumption, when the one
\* that had it crashed before its run was announced.
EffectsAreWrittenAhead ==
  \A k \in DOMAIN log : log[k].what = "effect" =>
    /\ k > 1 /\ log[k - 1] = [log[k] EXCEPT !.what = "started"]
    /\ \E j \in 1..k : log[j].what = "planned" /\ log[j].step = log[k].step
    /\ \A j \in 1..k - 1 :
         log[j].what = "effect" /\ log[j].step = log[k].step /\ log[j].id = log[k].id =>
           log[j].attempt < log[k].attempt /\ log[j].attempt \notin Kept

\* "Once an outer suspension is durable, its checkpoint may be resumed without starting a
\* nested call twice" (docs/design/harness-phase5.md): refuted by a crash of a resumption
\* that was not announced.
NoRepetition ==
  \A j, k \in DOMAIN log :
    log[j].what = "effect" /\ log[k] = [log[j] EXCEPT !.attempt = log[k].attempt] => j = k

\* What a program prints into its result and how often its executor is resumed stays
\* within the limits, also when it is suspended and goes on elsewhere (drive,
\* deferredProgram.Stdout).
ProgramIsBounded == program.printed <= MaxStdout /\ program.step <= MaxSteps

\* The interpreter holds no frontier once the executor has answered (abandon).
FrontiersAreReleased == program.phase # "advances" => native = "none"

\* A call of a program has a durable start before its effect and no second one but in
\* a resumption that had to be repeated, a program stays within its limits, and no
\* frontier is left behind.
ProgramsAreAccountable == EffectsAreWrittenAhead /\ ProgramIsBounded /\ FrontiersAreReleased
=============================================================================

---------------------------- MODULE ToolScheduler ----------------------------
(***************************************************************************)
(* One admitted batch of tool calls (tool_scheduler.go,                    *)
(* executeAdmittedTools): every call is announced, then runs in a          *)
(* goroutine of its own; the loop collects completions from a channel.     *)
(* Once the context is cancelled the loop waits for a grace period and     *)
(* then answers for whoever has not come back.  A goroutine cannot be      *)
(* stopped: it may end long after the loop went on, and what it sends then *)
(* is read by nobody.                                                      *)
(*                                                                         *)
(*   batch      the tool of each call                                      *)
(*   phase      where executeAdmittedTools is                              *)
(*   handlers   the goroutine of each call                                 *)
(*   channel    completions sent and not yet received                      *)
(*   results    what the loop will report of each call                     *)
(*   failed     the first error of a completion (firstErr)                 *)
(*   deferred   a handler suspended its call                               *)
(*   cancelled  the context of the run is done                             *)
(*   left       a handler was still running when its batch was given up    *)
(***************************************************************************)
EXTENDS Naturals, Sequences, FiniteSets, SequencesExt

CONSTANTS
  Tools,          \* names of regular tools
  Suspendable     \* those whose handler declares that it may suspend

VARIABLES batch, phase, handlers, channel, results, failed, deferred, cancelled,
          left
schedulerVars == <<batch, phase, handlers, channel, results, failed, deferred, cancelled, left>>

\* What a handler's goroutine can send: a result, a result that asks the model
\* to retry, an error beside the result, a suspension.
Outcomes == {"ok", "retry", "error", "suspend"}

\* What a call is answered with; "late" is the answer of an expired grace
Reports == {"ok", "retry", "error", "late"}

Missing == {i \in DOMAIN batch : results[i] = "none"}

SchedulerInit ==
  /\ batch = <<>> /\ phase = "idle" /\ handlers = <<>> /\ channel = <<>>
  /\ results = <<>> /\ failed = FALSE /\ deferred = FALSE /\ cancelled = FALSE /\ left = FALSE

\* ToolStarted is emitted for every call before one of them runs; an error of
\* the sink ends the batch with no result at all.
Announce(calls, sent) ==
  /\ phase = "idle"
  /\ batch' = calls
  /\ results' = [i \in DOMAIN calls |-> "none"]
  /\ handlers' = [i \in DOMAIN calls |-> IF sent THEN "running" ELSE "idle"]
  /\ phase' = IF sent THEN "waiting" ELSE "returned"
  /\ channel' = <<>> /\ failed' = ~sent /\ deferred' = FALSE
  /\ UNCHANGED <<cancelled, left>>

\* A handler's goroutine ends.  A suspension of a handler that did not declare
\* it is an error.
Complete(i, outcome) ==
  /\ i \in DOMAIN handlers /\ handlers[i] = "running"
  /\ handlers' = [handlers EXCEPT ![i] = "ended"]
  /\ channel' = Append(channel,
       [index |-> i,
        outcome |-> IF outcome = "suspend" /\ batch[i] \notin Suspendable
                    THEN "error" ELSE outcome])
  /\ UNCHANGED <<batch, phase, results, failed, deferred, cancelled, left>>

\* acceptCompletion
Accepted(completion) ==
  IF results[completion.index] # "none"
  THEN UNCHANGED <<results, failed, deferred>>
  ELSE /\ results' = [results EXCEPT ![completion.index] =
                        IF completion.outcome = "suspend" THEN "ok" ELSE completion.outcome]
       /\ failed' = (failed \/ completion.outcome = "error")
       /\ deferred' = (deferred \/ completion.outcome = "suspend")

Collect ==
  /\ phase \in {"waiting", "grace"} /\ channel # <<>> /\ Missing # {}
  /\ Accepted(Head(channel))
  /\ channel' = Tail(channel)
  /\ UNCHANGED <<batch, phase, handlers, cancelled, left>>

\* fault: the context is only watched until the first answer
BeginGraceUnanswered ==
  /\ phase = "waiting" /\ cancelled /\ Missing = DOMAIN batch
  /\ phase' = "grace"
  /\ UNCHANGED <<batch, handlers, channel, results, failed, deferred, cancelled, left>>

\* select: the context is done.  Another completion may be chosen first.
BeginGrace ==
  /\ phase = "waiting" /\ cancelled /\ Missing # {}
  /\ phase' = "grace"
  /\ UNCHANGED <<batch, handlers, channel, results, failed, deferred, cancelled, left>>

\* fault: the expired grace answers for every call
ExpiredForAll == [i \in DOMAIN batch |-> "late"]

Expired == [i \in DOMAIN batch |-> IF i \in Missing THEN "late" ELSE results[i]]

\* the timer fires; completions in the channel may have lost the race
Expire ==
  /\ phase = "grace" /\ Missing # {}
  /\ results' = Expired
  /\ UNCHANGED <<batch, phase, handlers, channel, failed, deferred, cancelled, left>>

\* fault: an error ends the wait
AnsweredOrFailed == Missing = {} \/ failed

Answered == Missing = {}

Return ==
  /\ phase \in {"waiting", "grace"} /\ Answered
  /\ phase' = "returned"
  /\ UNCHANGED <<batch, handlers, channel, results, failed, deferred, cancelled, left>>

\* the loop has taken the results; handlers that still run are on their own
Release ==
  /\ phase = "returned" /\ phase' = "idle"
  /\ left' = (left \/ \E i \in DOMAIN handlers : handlers[i] = "running")
  /\ batch' = <<>> /\ handlers' = <<>> /\ channel' = <<>> /\ results' = <<>>
  /\ failed' = FALSE /\ deferred' = FALSE
  /\ UNCHANGED cancelled

Cancel ==
  /\ ~cancelled /\ cancelled' = TRUE
  /\ UNCHANGED <<batch, phase, handlers, channel, results, failed, deferred, left>>

Handlers == \E i \in DOMAIN handlers, outcome \in Outcomes : Complete(i, outcome)
Scheduler == Collect \/ BeginGrace \/ Expire \/ Return

SchedulerType ==
  /\ phase \in {"idle", "waiting", "grace", "returned"}
  /\ batch \in [DOMAIN batch -> Tools]
  /\ handlers \in [DOMAIN batch -> {"idle", "running", "ended"}]
  /\ results \in [DOMAIN batch -> Reports \cup {"none"}]
  /\ channel \in Seq([index : DOMAIN batch, outcome : Outcomes])
  /\ {failed, deferred, cancelled, left} \subseteq BOOLEAN

\* An answer once given is the answer of the batch: neither a completion that
\* comes late nor the end of the grace period changes it.
AnswerIsFinal ==
  [][ \A i \in DOMAIN results :
        results[i] # "none" /\ phase \in {"waiting", "grace"} => results'[i] = results[i]
    ]_schedulerVars
=============================================================================

----------------------------- MODULE PermissionGate -----------------------------
(***************************************************************************)
(* Governance of tool calls: the permission gate judges a batch by its     *)
(* policy (harness/permission), a batch with something to ask suspends the *)
(* run, operators resolve the suspension (harness/runtime/resume.go plans, *)
(* harness/session/resume.go accepts), the driver carries the decisions    *)
(* out, and a crash among them leaves calls whose effect is unknown.  A    *)
(* resumed driver runs the calls before it announces itself (resolve-      *)
(* SuspendedTools, then driveLoop): until RunStarted is in the journal, a  *)
(* crash folds back to the suspension that was answered, to be answered    *)
(* again.                                                                  *)
(*                                                                         *)
(*   policy    fallback and rules; forgotten once the batch is judged      *)
(*   asks      what each call wants: a request, or one that cannot be told *)
(*   verdict   the policy's decision for each call                         *)
(*   run       state, the suspension at hand [id, kind, required], how     *)
(*             often it was answered (attempt), the decisions being        *)
(*             carried out, how far each call is, and whose start the      *)
(*             journal has (begun)                                         *)
(*   operator  what each operator has in hand of a Resume                  *)
(*   log       of the batch: results, starts and approvals by call and     *)
(*             attempt, the attempts that were announced                   *)
(***************************************************************************)
EXTENDS Naturals, Sequences, FiniteSets, SequencesExt

CONSTANTS
  Calls,          \* the calls of a batch
  Operators,
  MaxBatches,     \* bound on batches of the run
  MaxAttempts,    \* bound on the answers a suspension is given
  MaxRules        \* bound on the rules of a policy

VARIABLES policy, asks, verdict, run, operator, log
gateVars == <<policy, asks, verdict, run, operator, log>>

(***************************************************************************)
(* Policies. A request is a path of segments; "*" and the class "[ab]"     *)
(* stand for one of them, "**" for all that remain.                        *)
(***************************************************************************)
Requests == {<<"a", "a">>, <<"a", "b">>, <<"b", "b">>}
Patterns == {<<"**">>, <<"a", "**">>, <<"a", "*">>, <<"a", "[ab]">>, <<"a", "a">>, <<"*", "b">>}
Decisions == {"allow", "ask", "deny"}
Rules == [pattern : Patterns, decision : Decisions]
Unresolvable == <<>>

matchSegment(segment, value) ==
  segment = "*" \/ segment = value \/ (segment = "[ab]" /\ value \in {"a", "b"})
matchPattern(pattern, value) ==
  \/ pattern # <<>> /\ Last(pattern) = "**" /\ Len(pattern) - 1 <= Len(value)
     /\ \A i \in 1..Len(pattern) - 1 : matchSegment(pattern[i], value[i])
  \/ Len(pattern) = Len(value) /\ \A i \in DOMAIN pattern : matchSegment(pattern[i], value[i])

\* fault: a wildcard counts as a character
LiteralsOfAny(segment) == CASE segment = "*" -> 1 [] segment \in {"**", "[ab]"} -> 2 [] OTHER -> 1

\* characters that are not wildcards, the members of a class among them
Literals(segment) == CASE segment \in {"*", "**"} -> 0 [] segment = "[ab]" -> 2 [] OTHER -> 1

Specificity(pattern) ==
  LET upTo[n \in 0..Len(pattern)] == IF n = 0 THEN 0 ELSE upTo[n - 1] + Literals(pattern[n])
  IN upTo[Len(pattern)]

Matching(p, request) == {i \in DOMAIN p.rules : matchPattern(p.rules[i].pattern, request)}

Evaluate(p, request) ==
  IF Matching(p, request) = {} THEN p.fallback
  ELSE LET Beats(i, j) == LET s == Specificity(p.rules[i].pattern)
                              t == Specificity(p.rules[j].pattern) IN s > t \/ (s = t /\ i >= j)
           best == CHOOSE i \in Matching(p, request) : \A j \in Matching(p, request) : Beats(i, j)
       IN p.rules[best].decision

(***************************************************************************)
(* The gate.                                                               *)
(***************************************************************************)
NoPolicy == [fallback |-> "deny", rules |-> <<>>]
NoSuspension == [id |-> 0, kind |-> "", required |-> {}]
Idle == [step |-> "idle", id |-> 0, decisions |-> <<>>, approves |-> {}]
NoLog == [results |-> {}, starts |-> {}, approved |-> {}, announced |-> {}, restarted |-> FALSE]

GateInit ==
  /\ policy \in UNION {[fallback : Decisions, rules : [1..n -> Rules]] : n \in 0..MaxRules}
  /\ asks \in [Calls -> Requests \cup {Unresolvable}]
  /\ verdict = [c \in Calls |-> "none"]
  /\ run = [state |-> "gate", batch |-> 1, issued |-> 0, suspension |-> NoSuspension,
            attempt |-> 0, progress |-> [c \in Calls |-> "planned"], begun |-> {},
            decisions |-> [c \in Calls |-> "execute"]]
  /\ operator = [o \in Operators |-> Idle]
  /\ log = NoLog

Judge(c) == IF asks[c] = Unresolvable THEN "deny" ELSE Evaluate(policy, asks[c])

Denied == {c \in Calls : verdict[c] = "deny"}
Asked == {c \in Calls : verdict[c] = "ask"}
Judges ==
  /\ run.state = "gate" /\ \A c \in Calls : verdict[c] = "none"
  /\ verdict' = [c \in Calls |-> Judge(c)]
  /\ policy' = NoPolicy /\ asks' = [c \in Calls |-> Unresolvable]
  /\ UNCHANGED <<run, operator, log>>

ResultFor(c, what) == [call |-> c, what |-> what]
Suspends(kind, required, base) ==
  [base EXCEPT !.state = "suspended", !.issued = @ + 1,
               !.suspension = [id |-> base.issued + 1, kind |-> kind, required |-> required]]

\* one denial denies the batch, one question suspends it
EvaluateBatch ==
  /\ run.state = "gate" /\ \A c \in Calls : verdict[c] # "none"
  /\ IF Denied # {}
     THEN run' = [run EXCEPT !.state = "settled"]
          /\ log' = [log EXCEPT !.results = @ \cup {ResultFor(c, "policy") : c \in Calls}]
     ELSE /\ UNCHANGED log
          /\ run' = IF Asked = {} THEN [run EXCEPT !.state = "running"]
                    ELSE Suspends("permission", Asked, run)
  /\ UNCHANGED <<policy, asks, verdict, operator>>

(***************************************************************************)
(* Resuming: checked under the lock, planned outside it, accepted under it *)
(* again.                                                                  *)
(***************************************************************************)
\* fault: a request is not matched with its suspension
resumeErrorOfState(id) == run.state # "suspended"

resumeError(id) == run.state # "suspended" \/ run.suspension.id # id

Checks(o, id) ==
  /\ operator[o].step = "idle" /\ ~resumeError(id)
  /\ operator' = [operator EXCEPT ![o] = [Idle EXCEPT !.step = "plans", !.id = id]]
  /\ UNCHANGED <<policy, asks, verdict, run, log>>

Actions == {"approve", "deny", "external", "invalid"}
Resolutions ==
  UNION {[1..n -> [call : Calls \cup {"unknown"}, action : Actions]] : n \in 0..Cardinality(Calls)}

\* what is asked of each resolution (a fault, if nothing else is)
ValidWithGaps(resolutions, required, kind) ==
  /\ \A i \in DOMAIN resolutions :
       /\ resolutions[i].call \in required /\ resolutions[i].action # "invalid"
       /\ kind = "indeterminate" => resolutions[i].action # "approve"
       /\ \A j \in DOMAIN resolutions : resolutions[i].call = resolutions[j].call => i = j

\* every required call resolved once, by a known action; nothing indeterminate approved
Valid(resolutions, required, kind) ==
  ValidWithGaps(resolutions, required, kind) /\ Len(resolutions) = Cardinality(required)

\* a decision per call; the ones allowed beforehand execute
PlanResume(resolutions) ==
  [c \in Calls |->
     IF \E i \in DOMAIN resolutions : resolutions[i].call = c
     THEN LET i == CHOOSE i \in DOMAIN resolutions : resolutions[i].call = c
          IN IF resolutions[i].action = "approve" THEN "execute" ELSE resolutions[i].action
     ELSE "execute"]

\* the suspension it copied, whatever became of the session since
Plans(o, resolutions) ==
  /\ operator[o].step = "plans"
  /\ operator' =
       [operator EXCEPT ![o] =
          IF run.suspension.id = operator[o].id
             /\ Valid(resolutions, run.suspension.required, run.suspension.kind)
          THEN [@ EXCEPT !.step = "accepts", !.decisions = PlanResume(resolutions),
                         !.approves = {r.call : r \in {x \in Range(resolutions) : x.action = "approve"}}]
          ELSE Idle]
  /\ UNCHANGED <<policy, asks, verdict, run, log>>

Outdated(o) ==
  /\ operator[o].step = "accepts" /\ resumeError(operator[o].id)
  /\ operator' = [operator EXCEPT ![o] = Idle]
  /\ UNCHANGED <<policy, asks, verdict, run, log>>
Accepts(o) ==
  /\ operator[o].step = "accepts" /\ ~resumeError(operator[o].id)
  /\ run.suspension.kind = "permission" /\ run.attempt < MaxAttempts
  /\ operator' = [operator EXCEPT ![o] = Idle]
  /\ run' = [run EXCEPT !.state = "running", !.attempt = @ + 1, !.decisions = operator[o].decisions]
  /\ log' = [log EXCEPT !.approved = @ \cup
               {<<c, run.attempt + 1>> :
                  c \in {x \in operator[o].approves : operator[o].id = run.suspension.id}}]
  /\ UNCHANGED <<policy, asks, verdict>>

\* an indeterminate suspension is closed by results alone, the calls that never
\* started with one that says so, and the run continues as a new one
ClosedBy(o) ==
  {ResultFor(c, IF c \in run.suspension.required THEN operator[o].decisions[c] ELSE "closed") :
     c \in {x \in Calls : run.progress[x] # "done"}}
AcceptsIndeterminate(o) ==
  /\ operator[o].step = "accepts" /\ ~resumeError(operator[o].id)
  /\ run.suspension.kind = "indeterminate"
  /\ operator' = [operator EXCEPT ![o] = Idle]
  /\ run' = [run EXCEPT !.state = "settled", !.suspension = NoSuspension]
  /\ log' = [log EXCEPT !.results = @ \cup ClosedBy(o)]
  /\ UNCHANGED <<policy, asks, verdict>>

(***************************************************************************)
(* The driver, a crash and the recovery after it. The calls to execute run *)
(* first; then a resumed driver announces itself; then the results are     *)
(* committed, what the handlers returned and what the operator said alike. *)
(***************************************************************************)
Starts(c) ==
  /\ run.state = "running" /\ run.progress[c] = "planned" /\ run.decisions[c] = "execute"
  /\ run' = [run EXCEPT !.progress[c] = "started", !.begun = @ \cup {c}]
  /\ log' = [log EXCEPT !.starts = @ \cup {<<c, run.attempt>>},
                        !.restarted = @ \/ <<c, run.attempt>> \in log.starts]
  /\ UNCHANGED <<policy, asks, verdict, operator>>
HandlerReturns(c) ==
  /\ run.state = "running" /\ run.progress[c] = "started"
  /\ run' = [run EXCEPT !.progress[c] = "returned"]
  /\ UNCHANGED <<policy, asks, verdict, operator, log>>

Executed == \A c \in Calls : run.decisions[c] = "execute" => run.progress[c] \in {"returned", "done"}
\* RunStarted is in the journal (a batch that nobody was asked about is in a run that
\* started long before)
Announced == run.attempt = 0 \/ run.attempt \in log.announced
Announces ==
  /\ run.state = "running" /\ Executed /\ ~Announced
  /\ log' = [log EXCEPT !.announced = @ \cup {run.attempt}]
  /\ UNCHANGED <<policy, asks, verdict, run, operator>>
CommitsResult(c) ==
  /\ run.state = "running" /\ Executed /\ Announced /\ run.progress[c] # "done"
  /\ run' = [run EXCEPT !.progress[c] = "done"]
  /\ log' = [log EXCEPT !.results = @ \cup {ResultFor(c, IF run.progress[c] = "returned" THEN "ran"
                                                       ELSE run.decisions[c])}]
  /\ UNCHANGED <<policy, asks, verdict, operator>>
BatchEnds ==
  /\ run.state = "running" /\ \A c \in Calls : run.progress[c] = "done"
  /\ run' = [run EXCEPT !.state = "settled", !.suspension = NoSuspension]
  /\ UNCHANGED <<policy, asks, verdict, operator, log>>

\* fault: a resumption folds back to its suspension although it was announced
FoldsBackAlways == run.attempt > 0

FoldsBack == ~Announced

\* the process dies; the open suspension is found again, or else what was started and
\* has no result cannot be known, or the run is closed
Started == {c \in run.begun : run.progress[c] # "done"}
Crash ==
  /\ run.state \in {"running", "suspended"}
  /\ operator' = [o \in Operators |-> Idle]
  /\ IF run.state = "suspended" THEN UNCHANGED <<run, log>>
     ELSE IF FoldsBack
     THEN run' = [run EXCEPT !.state = "suspended", !.progress = [c \in Calls |-> "planned"]]
          /\ UNCHANGED log
     ELSE IF Started # {} THEN run' = Suspends("indeterminate", Started, run) /\ UNCHANGED log
     ELSE /\ run' = [run EXCEPT !.state = "settled", !.suspension = NoSuspension]
          /\ log' = [log EXCEPT !.results = @ \cup
                       {ResultFor(c, "closed") : c \in {x \in Calls : run.progress[x] # "done"}}]
  /\ UNCHANGED <<policy, asks, verdict>>

\* the model goes on: the next batch is judged alike
NextBatch ==
  /\ run.state = "settled" /\ run.batch < MaxBatches
  /\ run' = [run EXCEPT !.state = "gate", !.batch = @ + 1, !.suspension = NoSuspension,
                        !.progress = [c \in Calls |-> "planned"], !.begun = {}, !.attempt = 0,
                        !.decisions = [c \in Calls |-> "execute"]]
  /\ log' = NoLog
  /\ UNCHANGED <<policy, asks, verdict, operator>>

GateNext ==
  \/ Judges \/ EvaluateBatch \/ Announces \/ BatchEnds \/ Crash \/ NextBatch
  \/ \E c \in Calls : Starts(c) \/ HandlerReturns(c) \/ CommitsResult(c)
  \/ \E o \in Operators : \/ \E id \in 1..run.issued : Checks(o, id)
                          \/ \E resolutions \in Resolutions : Plans(o, resolutions)
                          \/ Accepts(o) \/ AcceptsIndeterminate(o) \/ Outdated(o)
GateSpec == GateInit /\ [][GateNext]_gateVars

(***************************************************************************)
(* Properties.                                                             *)
(***************************************************************************)
\* "Default-deny governance": a call runs only if the policy allows it or an operator
\* approved it for this very run of it, never in a batch one call of which is denied,
\* and once for each answer its suspension is given, whatever two operators and a
\* crash do between check, plan and acceptance (EvaluateBatch,
\* prepareResumeWithCommand, PlanResume). It may run more than once: a process that
\* dies before its resumption announced itself leaves the suspension to be answered
\* again. Once an answer has been announced, no call of its batch runs for a later one.
NothingRunsUnapproved ==
  /\ ~log.restarted
  /\ \A start \in log.starts :
       /\ Denied = {}
       /\ verdict[start[1]] = "allow" \/ start \in log.approved
       /\ \A attempt \in log.announced : start[2] <= attempt

\* Every call of a batch the run is done with has one result, and an approval is no
\* answer for a call that may have run (PlanResume,
\* prepareResumeIndeterminateWithCommand): what is said to have run has, and what is
\* said never to have started has not, in any attempt. An operator's own word may
\* stand for a call that ran in an attempt that was lost.
EveryCallIsSettledOnce ==
  \A c \in Calls :
    LET results == {r \in log.results : r.call = c}
        ran == \E start \in log.starts : start[1] = c
    IN /\ \A r, x \in results : r = x
       /\ run.state = "settled" => results # {}
       /\ \A r \in results : /\ r.what # "execute"
                             /\ r.what = "ran" => ran
                             /\ r.what \in {"closed", "policy"} => ~ran

\* "Evaluate applies the most-specific matching rule": where one of two rules that
\* match a call stands for fewer requests than the other, its word counts.
Stands(pattern) == {r \in {"a", "b"} \X {"a", "b", "c"} : matchPattern(pattern, r)}
MostSpecificRuleWins ==
  Len(policy.rules) = 2 =>
    \A c \in Calls, i, j \in 1..2 :
      asks[c] # Unresolvable /\ {i, j} \subseteq Matching(policy, asks[c])
        /\ Stands(policy.rules[i].pattern) \subseteq Stands(policy.rules[j].pattern)
        /\ Stands(policy.rules[i].pattern) # Stands(policy.rules[j].pattern)
        => Judge(c) = policy.rules[i].decision
\* the same among rules without a class, and where the narrower names more or comes later
NarrowerRuleWins ==
  (\A i \in DOMAIN policy.rules : "[ab]" \notin Range(policy.rules[i].pattern))
  /\ Len(policy.rules) = 2
  /\ (\/ Specificity(policy.rules[1].pattern) # Specificity(policy.rules[2].pattern)
      \/ Stands(policy.rules[2].pattern) \subseteq Stands(policy.rules[1].pattern)) => MostSpecificRuleWins

\* Who decides, at the gate and after it.
OperatorsDecide ==
  /\ NothingRunsUnapproved
  /\ EveryCallIsSettledOnce
  /\ NarrowerRuleWins
=============================================================================

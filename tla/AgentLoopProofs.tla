---------------------------- MODULE AgentLoopProofs ----------------------------
(***************************************************************************)
(* What is proved of AgentLoop for every set of tools, every answer of the *)
(* model and all limits.                                                   *)
(*                                                                         *)
(*   AnswersAreFinal       an answer once given stays                      *)
(*   TranscriptWhole       limits hold, the sink has the transcript, and   *)
(*                         no request goes out with a call unanswered      *)
(*   OutcomeTold           one outcome is told, nothing is left running,   *)
(*                         and requests are bounded                        *)
(***************************************************************************)
EXTENDS AgentLoop, FiniteSetTheorems, WellFoundedInduction, TLAPS

-----------------------------------------------------------------------------
(***************************************************************************)
(* The scan of a transcript.  Scanned is defined by recursion over the     *)
(* messages; everything else uses it through the lemmas of this section.   *)
(***************************************************************************)
\* A nonempty set of numbers has a least one.
LEMMA Least ==
  ASSUME NEW I \in SUBSET Nat, I # {}
  PROVE  \E n \in I : \A m \in I : n <= m
<1> DEFINE R == OpToRel(<, Nat)
<1>1. IsWellFoundedOn(R, Nat) BY NatLessThanWellFounded
<1>2. PICK n \in I : \A m \in I : ~(<<m, n>> \in R)
  <2> HIDE DEF R
  <2> QED BY <1>1, WFMin
<1>3. \A m \in I : n <= m
  <2> SUFFICES ASSUME NEW m \in I PROVE ~(m < n)
    OBVIOUS
  <2>1. n \in Nat /\ m \in Nat /\ ~(<<m, n>> \in R) BY <1>2
  <2> QED BY <2>1 DEF OpToRel
<1> QED BY <1>3

\* What a scan of the first k messages is.
IsScan(f, msgs, k) ==
  f = [n \in 0..k |-> IF n = 0 THEN NoneOpen ELSE Inspected(msgs[n], f[n - 1])]

LEMMA ScanExists ==
  ASSUME NEW msgs, NEW len \in Nat
  PROVE  \E f : IsScan(f, msgs, len)
<1> DEFINE Bad == {k \in Nat : ~\E f : IsScan(f, msgs, k)}
<1>1. SUFFICES ASSUME Bad # {} PROVE FALSE
  OBVIOUS
<1>2. PICK k \in Bad : \A m \in Bad : k <= m
  <2>1. Bad \in SUBSET Nat
    OBVIOUS
  <2> HIDE DEF Bad
  <2> QED BY <1>1, <2>1, Least
<1>3. CASE k = 0
  <2> DEFINE f == [n \in 0..0 |-> NoneOpen]
  <2>1. IsScan(f, msgs, 0) BY DEF IsScan
  <2> HIDE DEF f
  <2> QED BY <1>2, <1>3, <2>1
<1>4. CASE k # 0
  <2>1. k \in Nat /\ k - 1 \in Nat /\ k - 1 \notin Bad BY <1>2, <1>4
  <2>2. PICK g : IsScan(g, msgs, k - 1) BY <2>1
  <2> DEFINE f == [n \in 0..k |-> IF n = k THEN Inspected(msgs[k], g[k - 1]) ELSE g[n]]
  <2>3. \A n \in 0..k :
          f[n] = IF n = 0 THEN NoneOpen ELSE Inspected(msgs[n], f[n - 1])
    <3> TAKE n \in 0..k
    <3>1. CASE n = k BY <1>4, <2>1, <3>1
    <3>2. CASE n # k
      <4>1. n \in 0..(k - 1) /\ (n # 0 => n - 1 \in 0..(k - 1) /\ n - 1 \in 0..k /\ n - 1 # k)
        BY <2>1, <3>2
      <4>2. g[n] = IF n = 0 THEN NoneOpen ELSE Inspected(msgs[n], g[n - 1])
        BY <2>2, <4>1 DEF IsScan
      <4>3. f[n] = g[n] /\ (n # 0 => f[n - 1] = g[n - 1]) BY <3>2, <4>1
      <4> HIDE DEF f
      <4> QED BY <4>2, <4>3
    <3> QED BY <3>1, <3>2
  <2>4. IsScan(f, msgs, k)
    <3>1. f = [n \in 0..k |-> f[n]]
      OBVIOUS
    <3> HIDE DEF f
    <3> QED BY <2>3, <3>1 DEF IsScan
  <2> HIDE DEF f
  <2> QED BY <1>2, <2>4
<1> QED BY <1>3, <1>4

LEMMA ScanSteps ==
  ASSUME NEW msgs \in Seq(Message)
  PROVE  /\ Scanned(msgs)[0] = NoneOpen
         /\ \A n \in 1..Len(msgs) :
              Scanned(msgs)[n] = Inspected(msgs[n], Scanned(msgs)[n - 1])
<1>1. Len(msgs) \in Nat
  OBVIOUS
<1>2. IsScan(Scanned(msgs), msgs, Len(msgs)) BY <1>1, ScanExists DEF Scanned, IsScan
<1>3. \A n \in 0..Len(msgs) :
        Scanned(msgs)[n] = IF n = 0 THEN NoneOpen
                           ELSE Inspected(msgs[n], Scanned(msgs)[n - 1])
  BY <1>2 DEF IsScan
<1> QED BY <1>1, <1>3

\* A scan of a longer transcript begins like the scan of the shorter one.
LEMMA ScanPrefix ==
  ASSUME NEW msgs \in Seq(Message), NEW more \in Seq(Message)
  PROVE  \A n \in 0..Len(msgs) : Scanned(msgs \o more)[n] = Scanned(msgs)[n]
<1> DEFINE all == msgs \o more
           Bad == {n \in 0..Len(msgs) : Scanned(all)[n] # Scanned(msgs)[n]}
<1>1. SUFFICES ASSUME Bad # {} PROVE FALSE
  OBVIOUS
<1>2. PICK k \in Bad : \A m \in Bad : k <= m
  <2>1. Bad \in SUBSET Nat
    OBVIOUS
  <2> HIDE DEF Bad
  <2> QED BY <1>1, <2>1, Least
<1>3. /\ all \in Seq(Message) /\ Len(all) = Len(msgs) + Len(more)
      /\ \A n \in 1..Len(msgs) : all[n] = msgs[n]
  OBVIOUS
<1>4. Len(msgs) \in Nat /\ Len(more) \in Nat
  OBVIOUS
<1> HIDE DEF all
<1>5. k # 0 BY <1>2, <1>3, ScanSteps
<1>6. k \in 1..Len(msgs) /\ k \in 1..Len(all) /\ k - 1 \in 0..Len(msgs) /\ k - 1 < k
  BY <1>2, <1>3, <1>4, <1>5
<1>7. Scanned(all)[k - 1] = Scanned(msgs)[k - 1] BY <1>2, <1>6
<1>8. Scanned(all)[k] = Inspected(all[k], Scanned(all)[k - 1]) BY <1>3, <1>6, ScanSteps
<1>9. Scanned(msgs)[k] = Inspected(msgs[k], Scanned(msgs)[k - 1]) BY <1>6, ScanSteps
<1> QED BY <1>2, <1>3, <1>6, <1>7, <1>8, <1>9

LEMMA InspectAppend ==
  ASSUME NEW msgs \in Seq(Message), NEW m \in Message
  PROVE  Inspect(Append(msgs, m)) = Inspected(m, Inspect(msgs))
<1>1. /\ <<m>> \in Seq(Message) /\ Append(msgs, m) = msgs \o <<m>>
      /\ Append(msgs, m) \in Seq(Message)
      /\ Len(Append(msgs, m)) = Len(msgs) + 1 /\ Append(msgs, m)[Len(msgs) + 1] = m
  OBVIOUS
<1>2. Len(msgs) \in 0..Len(msgs) /\ Len(msgs) + 1 \in 1..(Len(msgs) + 1)
      /\ (Len(msgs) + 1) - 1 = Len(msgs)
  OBVIOUS
<1>3. Scanned(Append(msgs, m))[Len(msgs)] = Scanned(msgs)[Len(msgs)]
  BY <1>1, <1>2, ScanPrefix
<1>4. Scanned(Append(msgs, m))[Len(msgs) + 1] = Inspected(m, Scanned(Append(msgs, m))[Len(msgs)])
  BY <1>1, <1>2, ScanSteps
<1> QED BY <1>1, <1>3, <1>4 DEF Inspect

\* A transcript whose last message has k open calls is whole once each of them
\* is answered, in any place of the array of results.
LEMMA InspectAnswers ==
  ASSUME NEW msgs \in Seq(Message), NEW k \in Nat, NEW answers \in Seq(Message),
         Inspect(msgs) = [valid |-> TRUE, open |-> 1..k], Len(answers) = k,
         \A i \in 1..k : answers[i] = ToolMessage(i)
  PROVE  Paired(msgs \o answers)
<1> DEFINE all == msgs \o answers
           At(n) == Scanned(all)[Len(msgs) + n]
           Good(n) == At(n) = [valid |-> TRUE, open |-> (n + 1)..k]
           Bad == {n \in 0..k : ~Good(n)}
<1>1. /\ all \in Seq(Message) /\ Len(all) = Len(msgs) + k
      /\ \A i \in 1..k : all[Len(msgs) + i] = ToolMessage(i)
  OBVIOUS
<1>2. Len(msgs) \in Nat
  OBVIOUS
<1>3. Good(0)
  <2>1. Scanned(all)[Len(msgs)] = Scanned(msgs)[Len(msgs)] BY <1>2, ScanPrefix
  <2>2. Len(msgs) + 0 = Len(msgs) /\ (0 + 1)..k = 1..k BY <1>2
  <2> HIDE DEF all
  <2> QED BY <2>1, <2>2 DEF Inspect
<1>4. ASSUME NEW n \in 1..k, Good(n - 1) PROVE Good(n)
  <2> DEFINE at == Len(msgs) + n
             m == all[at]
             before == [valid |-> TRUE, open |-> n..k]
  <2> HIDE DEF all
  <2>1. at \in 1..Len(all) /\ at - 1 = Len(msgs) + (n - 1) /\ (n - 1) + 1 = n BY <1>1, <1>2
  <2>2. Scanned(all)[at] = Inspected(m, Scanned(all)[at - 1]) BY <1>1, <2>1, ScanSteps
  <2>3. Scanned(all)[at - 1] = before BY <1>4, <2>1
  <2>4. m = [role |-> "tool", calls |-> <<>>, of |-> n] BY <1>1 DEF ToolMessage
  <2>5. n # 0 /\ n \in n..k /\ (n..k) \ {n} = (n + 1)..k
    OBVIOUS
  <2>6. Inspected([role |-> "tool", calls |-> <<>>, of |-> n], before)
          = [valid |-> TRUE, open |-> (n + 1)..k]
    BY <2>5 DEF Inspected
  <2> QED BY <2>2, <2>3, <2>4, <2>6
<1>5. Bad = {}
  <2> SUFFICES ASSUME Bad # {} PROVE FALSE
    OBVIOUS
  <2>1. PICK n \in Bad : \A m \in Bad : n <= m
    <3>1. Bad \in SUBSET Nat
      OBVIOUS
    <3> HIDE DEF Bad
    <3> QED BY <3>1, Least
  <2> HIDE DEF Good
  <2>2. n # 0 /\ n \in 1..k /\ n - 1 \in 0..k /\ ~(n <= n - 1) BY <1>3, <2>1
  <2>3. Good(n - 1) BY <2>1, <2>2
  <2> QED BY <1>4, <2>1, <2>2, <2>3
<1>6. At(k) = NoneOpen
  <2>1. Good(k)
    <3> HIDE DEF Good
    <3>1. k \in 0..k
      OBVIOUS
    <3> QED BY <1>5, <3>1
  <2>2. (k + 1)..k = {}
    OBVIOUS
  <2> HIDE DEF all, At
  <2> QED BY <2>1, <2>2 DEF NoneOpen
<1> QED BY <1>1, <1>6 DEF Paired, Inspect

-----------------------------------------------------------------------------
(***************************************************************************)
(* The inductive invariant.                                                *)
(***************************************************************************)
\* One batch: what is collected has come from a handler that ended, so that a
\* batch returned without a cancellation has no handler left.
Collected ==
  /\ \A n \in DOMAIN channel : handlers[channel[n].index] = "ended"
  /\ phase = "grace" \/ left => cancelled
  /\ ~cancelled /\ phase \in {"waiting", "returned"} =>
       \A i \in DOMAIN batch :
         phase = "returned" \/ results[i] # "none" => handlers[i] # "running"

Batch == SchedulerType /\ Collected

ResultMaps == UNION {[S -> {"failed", "given", "answered"}] : S \in SUBSET Nat}
LoopState ==
  [requests : 0..MaxRequests, tools : 0..MaxToolCalls, retries : [Tools -> 0..MaxRetries],
   again : 0..(MaxValidationRetries + 1), iteration : Nat, results : ResultMaps,
   fatal : BOOLEAN, continues : BOOLEAN, candidate : BOOLEAN, resumed : BOOLEAN,
   prompt : BOOLEAN]
Streams == {<<>>, <<"done">>, <<"error">>}
PlacesOfLoop == {"idle", "announce", "top", "request", "gate", "tools", "evaluate", "finish"}
Statuses == {"none", "running", "completed", "suspended", "stopped", "interrupted", "failed"}

Types ==
  /\ pc \in PlacesOfLoop /\ status \in Statuses /\ stream \in Streams
  /\ messages \in Seq(Message) /\ sunk \in Seq(Message) /\ since \in Nat
  /\ loop \in LoopState
  /\ saved \in [kind : {"none", "gate", "handler"}, execute : SUBSET Nat, loop : LoopState]
  /\ resumes \in Nat

\* A transcript that ends with an assistant message, none of whose calls has
\* been answered.
LastCalls(msgs) == msgs[Len(msgs)].calls
OpenAt(msgs) ==
  /\ msgs # <<>> /\ msgs[Len(msgs)].role = "assistant"
  /\ Inspect(msgs) = [valid |-> TRUE, open |-> DOMAIN LastCalls(msgs)]

\* Where the transcript has a frontier that the turn has to answer, and where it
\* has none.
Answering == pc \in {"announce", "gate", "tools", "evaluate"} \/ status = "suspended"
Transcripts ==
  /\ Answering => OpenAt(messages)
  /\ pc \in {"top", "request", "finish"} => Paired(messages)

\* The calls of a batch, and those a suspension waits with, are regular calls
\* of the frontier.
Batches ==
  /\ pc = "tools" <=> phase # "idle"
  /\ pc = "tools" => /\ DOMAIN batch \subseteq Regular(LastCalls(messages))
                     /\ loop.tools + Cardinality(DOMAIN batch) <= MaxToolCalls
  /\ status = "suspended" => saved.execute \subseteq Regular(LastCalls(messages))

\* The stream is silent until the execution returned.
Told ==
  /\ pc # "idle" <=> status = "running"
  /\ pc = "idle" => loop = NoLoop
  /\ pc # "idle" \/ status = "none" => stream = <<>>
  /\ StreamTellsOutcome

\* The sink has fallen behind only in a turn that is fatal for that.
Sunk ==
  /\ pc \notin {"idle", "finish"} => sunk = messages
  /\ pc = "finish" /\ ~loop.fatal => sunk = messages
  /\ pc = "idle" /\ status # "failed" => sunk = messages

\* Requests of the run, by their answers.
Asked(msgs, from) == {n \in DOMAIN msgs : n > from /\ msgs[n].role = "assistant"}
Counted ==
  /\ RequestsBounded
  /\ pc # "idle" => Cardinality(Asked(messages, since)) <= loop.requests
  /\ pc = "request" => loop.requests < MaxRequests
  /\ status = "suspended" => Cardinality(Asked(messages, since)) <= saved.loop.requests

\* A turn begins below the limit of iterations, but a recovered run may have one
\* answer to evaluate before its first.
Limits(l) ==
  /\ l.fatal \/ l.again <= MaxValidationRetries
  /\ l.iteration <= MaxIterations \/ l.iteration <= 1
InTurn(l) == l.iteration < MaxIterations \/ l.iteration = 0
Limited ==
  /\ Limits(loop) /\ Limits(saved.loop) /\ InTurn(saved.loop) /\ ~saved.loop.fatal
  /\ pc \notin {"idle", "top"} => InTurn(loop)
  /\ pc \in {"top", "request", "gate", "tools"} => ~loop.fatal

Inv ==
  /\ Batch /\ Types /\ Transcripts /\ Batches /\ Told /\ Sunk /\ Counted /\ Limited

-----------------------------------------------------------------------------
(***************************************************************************)
(* The scheduler.                                                          *)
(***************************************************************************)
LEMMA InitBatch == ASSUME Init PROVE Batch
<1>1. batch = <<>> /\ handlers = <<>> /\ channel = <<>> /\ results = <<>>
      /\ phase = "idle" /\ failed = FALSE /\ deferred = FALSE /\ cancelled = FALSE /\ left = FALSE
  BY DEF Init, SchedulerInit
<1>2. DOMAIN <<>> = {} /\ <<>> \in [{} -> Tools]
      /\ <<>> \in [{} -> {"idle", "running", "ended"}]
      /\ <<>> \in [{} -> Reports \cup {"none"}]
  OBVIOUS
<1>3. <<>> \in Seq([index : {}, outcome : Outcomes])
  OBVIOUS
<1>4. SchedulerType BY <1>1, <1>2, <1>3 DEF SchedulerType
<1>5. Collected BY <1>1, <1>2 DEF Collected
<1> QED BY <1>4, <1>5 DEF Batch

LEMMA AnnounceKeeps ==
  ASSUME Batch, NEW calls, calls \in [DOMAIN calls -> Tools], NEW sent \in BOOLEAN,
         Announce(calls, sent)
  PROVE  Batch'
<1>1. SchedulerType'
  <2>1. <<>> \in Seq([index : DOMAIN calls, outcome : Outcomes])
    OBVIOUS
  <2> QED BY <2>1 DEF Batch, SchedulerType, Announce
<1>2. Collected'
  <2>1. channel' = <<>> /\ DOMAIN <<>> = {} BY DEF Announce
  <2> QED BY <2>1 DEF Batch, SchedulerType, Collected, Announce
<1> QED BY <1>1, <1>2 DEF Batch

LEMMA ReleaseKeeps == ASSUME Batch, Release PROVE Batch'
<1>1. batch' = <<>> /\ handlers' = <<>> /\ channel' = <<>> /\ results' = <<>>
      /\ phase' = "idle" /\ failed' = FALSE /\ deferred' = FALSE
  BY DEF Release
<1>2. DOMAIN <<>> = {} /\ <<>> \in [{} -> Tools]
      /\ <<>> \in [{} -> {"idle", "running", "ended"}]
      /\ <<>> \in [{} -> Reports \cup {"none"}]
  OBVIOUS
<1>3. <<>> \in Seq([index : {}, outcome : Outcomes])
  OBVIOUS
<1>4. cancelled' = cancelled /\ cancelled \in BOOLEAN /\ left' \in BOOLEAN
  BY DEF Release, Batch, SchedulerType
<1>5. SchedulerType' BY <1>1, <1>2, <1>3, <1>4 DEF SchedulerType
<1>6. left' => cancelled BY DEF Release, Batch, SchedulerType, Collected
<1>7. Collected' BY <1>1, <1>2, <1>4, <1>6 DEF Collected
<1> QED BY <1>5, <1>7 DEF Batch

LEMMA CompleteKeeps ==
  ASSUME Batch, NEW i \in DOMAIN handlers, NEW outcome \in Outcomes, Complete(i, outcome)
  PROVE  Batch'
<1> DEFINE c == [index |-> i,
                 outcome |-> IF outcome = "suspend" /\ batch[i] \notin Suspendable
                             THEN "error" ELSE outcome]
<1>1. c \in [index : DOMAIN batch, outcome : Outcomes] /\ c.index = i
  BY DEF Batch, SchedulerType, Outcomes
<1>2. channel' = Append(channel, c) BY DEF Complete
<1> HIDE DEF c
<1>3. SchedulerType'
  <2>1. channel' \in Seq([index : DOMAIN batch, outcome : Outcomes])
    BY <1>1, <1>2 DEF Batch, SchedulerType
  <2> QED BY <2>1 DEF Batch, SchedulerType, Complete
<1>4. \A n \in DOMAIN channel' : handlers'[channel'[n].index] = "ended"
  <2> TAKE n \in DOMAIN channel'
  <2>1. CASE n \in DOMAIN channel
    <3> DEFINE C == [index : DOMAIN batch, outcome : Outcomes]
    <3>0. channel \in Seq(C) /\ DOMAIN handlers = DOMAIN batch BY DEF Batch, SchedulerType
    <3>01. \A d \in C : d.index \in DOMAIN batch
      OBVIOUS
    <3> HIDE DEF C
    <3>02. channel'[n] = channel[n] /\ channel[n] \in C BY <1>2, <2>1, <3>0
    <3>1. channel'[n] = channel[n] /\ channel[n].index \in DOMAIN handlers
      BY <3>0, <3>01, <3>02
    <3> QED BY <2>1, <3>1 DEF Batch, SchedulerType, Collected, Complete
  <2>2. CASE n \notin DOMAIN channel
    <3>1. channel'[n] = c BY <1>2, <2>2 DEF Batch, SchedulerType
    <3> QED BY <1>1, <3>1 DEF Batch, SchedulerType, Complete
  <2> QED BY <2>1, <2>2
<1>5. Collected' BY <1>4 DEF Batch, SchedulerType, Collected, Complete
<1> QED BY <1>3, <1>5 DEF Batch

LEMMA CollectKeeps == ASSUME Batch, Collect PROVE Batch'
<1> DEFINE c == Head(channel)
<1>1. c \in [index : DOMAIN batch, outcome : Outcomes] /\ 1 \in DOMAIN channel /\ c = channel[1]
  <2> DEFINE C == [index : DOMAIN batch, outcome : Outcomes]
  <2>1. channel \in Seq(C) /\ channel # <<>> BY DEF Batch, SchedulerType, Collect
  <2> HIDE DEF C
  <2>2. c \in C /\ 1 \in DOMAIN channel /\ c = channel[1] BY <2>1
  <2> QED BY <2>2 DEF C
<1>2. handlers[c.index] = "ended" BY <1>1 DEF Batch, Collected
<1>3. Accepted(c) /\ channel' = Tail(channel) /\ phase \in {"waiting", "grace"}
      /\ UNCHANGED <<batch, phase, handlers, cancelled, left>>
  BY DEF Collect
<1>4. channel' \in Seq([index : DOMAIN batch, outcome : Outcomes])
  BY <1>1, <1>3 DEF Batch, SchedulerType
<1>5. \A n \in DOMAIN channel' : handlers'[channel'[n].index] = "ended"
  <2> TAKE n \in DOMAIN channel'
  <2>1. n + 1 \in DOMAIN channel /\ channel'[n] = channel[n + 1]
    BY <1>1, <1>3 DEF Batch, SchedulerType
  <2> QED BY <1>3, <2>1 DEF Batch, Collected
<1>6. /\ results' \in [DOMAIN batch -> Reports \cup {"none"}]
      /\ failed' \in BOOLEAN /\ deferred' \in BOOLEAN
      /\ \A i \in DOMAIN batch : i # c.index => results'[i] = results[i]
  <2> HIDE DEF c
  <2>1. /\ results \in [DOMAIN batch -> Reports \cup {"none"}]
        /\ failed \in BOOLEAN /\ deferred \in BOOLEAN
    BY DEF Batch, SchedulerType
  <2>2. CASE results[c.index] # "none" BY <1>3, <2>1, <2>2 DEF Accepted
  <2>3. CASE results[c.index] = "none"
    <3> DEFINE answer == IF c.outcome = "suspend" THEN "ok" ELSE c.outcome
    <3>1. answer \in Reports BY <1>1 DEF Reports, Outcomes
    <3>2. /\ results' = [results EXCEPT ![c.index] = answer]
          /\ failed' = (failed \/ c.outcome = "error")
          /\ deferred' = (deferred \/ c.outcome = "suspend")
      BY <1>3, <2>3 DEF Accepted
    <3> HIDE DEF answer
    <3> QED BY <1>1, <2>1, <3>1, <3>2
  <2> QED BY <2>2, <2>3
<1> HIDE DEF c
<1>7. SchedulerType' BY <1>3, <1>4, <1>6 DEF Batch, SchedulerType
<1>8. Collected' BY <1>2, <1>3, <1>5, <1>6 DEF Batch, SchedulerType, Collected
<1> QED BY <1>7, <1>8 DEF Batch

LEMMA BatchWaits ==
  ASSUME Batch, BeginGrace \/ Expire \/ Return \/ Cancel
  PROVE  Batch'
<1>1. CASE BeginGrace BY <1>1 DEF Batch, SchedulerType, Collected, BeginGrace
<1>2. CASE Expire
  <2>1. results' \in [DOMAIN batch -> Reports \cup {"none"}]
    BY <1>2 DEF Batch, SchedulerType, Expire, Expired, Reports
  <2>2. cancelled BY <1>2 DEF Batch, Collected, Expire
  <2> QED BY <1>2, <2>1, <2>2 DEF Batch, SchedulerType, Collected, Expire
<1>3. CASE Return
  <2>1. \A i \in DOMAIN batch : results[i] # "none" BY <1>3 DEF Return, Answered, Missing
  <2> QED BY <1>3, <2>1 DEF Batch, SchedulerType, Collected, Return
<1>4. CASE Cancel BY <1>4 DEF Batch, SchedulerType, Collected, Cancel
<1> QED BY <1>1, <1>2, <1>3, <1>4

\* A step of the scheduler, of a handler or of the one who cancels.
LEMMA SchedulerKeeps ==
  ASSUME Batch, Scheduler \/ Handlers \/ Cancel
  PROVE  Batch' /\ batch' = batch /\ (phase' # "idle" <=> phase # "idle")
<1>1. CASE Collect BY <1>1, CollectKeeps DEF Collect
<1>2. CASE BeginGrace \/ Expire \/ Return \/ Cancel
  BY <1>2, BatchWaits DEF BeginGrace, Expire, Return, Cancel
<1>3. CASE Handlers BY <1>3, CompleteKeeps DEF Handlers, Complete
<1> QED BY <1>1, <1>2, <1>3 DEF Scheduler

-----------------------------------------------------------------------------
(***************************************************************************)
(* Messages, and what they add to a transcript.                            *)
(***************************************************************************)
LEMMA Numbers ==
  /\ MaxIterations \in Nat /\ MaxRequests \in Nat /\ MaxToolCalls \in Nat
  /\ MaxValidationRetries \in Nat /\ MaxRetries \in Nat /\ MaxResumes \in Nat
  /\ EarlyEnd \in BOOLEAN
BY LoopAssumption DEF LoopAssumption

LEMMA MessageTypes ==
  /\ User \in Message
  /\ \A calls \in Seq(Tools \cup {OutputTool}) : Assistant(calls) \in Message
  /\ \A i \in Nat : ToolMessage(i) \in Message
<1>1. <<>> \in Seq(Tools \cup {OutputTool})
  OBVIOUS
<1> QED BY <1>1 DEF User, Assistant, ToolMessage, Message

LEMMA PairedUser ==
  ASSUME NEW msgs \in Seq(Message), Paired(msgs)
  PROVE  Paired(Append(msgs, User))
<1>1. Inspect(Append(msgs, User)) = Inspected(User, NoneOpen)
  BY InspectAppend, MessageTypes DEF Paired
<1>2. Inspected(User, NoneOpen) = NoneOpen BY DEF Inspected, User, NoneOpen
<1> QED BY <1>1, <1>2 DEF Paired

LEMMA AnswerOpens ==
  ASSUME NEW msgs \in Seq(Message), Paired(msgs),
         NEW calls \in Seq(Tools \cup {OutputTool})
  PROVE  OpenAt(Append(msgs, Assistant(calls)))
<1> DEFINE m == Assistant(calls)
           all == Append(msgs, m)
<1>1. m \in Message BY MessageTypes
<1>2. m.role = "assistant" /\ m.calls = calls /\ m.of = 0 BY DEF Assistant
<1> HIDE DEF m
<1>3. all # <<>> /\ all[Len(all)] = m BY <1>1
<1>4. Inspect(all) = Inspected(m, NoneOpen) BY <1>1, InspectAppend DEF Paired
<1>5. Inspected(m, NoneOpen) = [valid |-> TRUE, open |-> DOMAIN calls]
  <2>1. calls = <<>> => DOMAIN calls = {}
    OBVIOUS
  <2> QED BY <1>2, <2>1 DEF Inspected, NoneOpen
<1> HIDE DEF all
<1>6. LastCalls(all) = calls BY <1>2, <1>3 DEF LastCalls
<1>7. OpenAt(all) BY <1>2, <1>3, <1>4, <1>5, <1>6 DEF OpenAt
<1> QED BY <1>7 DEF all, m

\* A message that is no answer of the model is no request of the run.
LEMMA AskedKept ==
  ASSUME NEW msgs \in Seq(Message), NEW more \in Seq(Message), NEW from \in Nat,
         \A n \in DOMAIN more : more[n].role # "assistant"
  PROVE  Asked(msgs \o more, from) = Asked(msgs, from)
<1>1. \A n \in DOMAIN msgs : n \in DOMAIN (msgs \o more) /\ (msgs \o more)[n] = msgs[n]
  OBVIOUS
<1>2. \A n \in DOMAIN (msgs \o more) : n \notin DOMAIN msgs =>
        (msgs \o more)[n].role # "assistant"
  <2> TAKE n \in DOMAIN (msgs \o more)
  <2> HAVE n \notin DOMAIN msgs
  <2>1. n - Len(msgs) \in DOMAIN more /\ (msgs \o more)[n] = more[n - Len(msgs)]
    OBVIOUS
  <2> QED BY <2>1
<1> QED BY <1>1, <1>2 DEF Asked

LEMMA AskedUser ==
  ASSUME NEW msgs \in Seq(Message), NEW from \in Nat
  PROVE  Asked(Append(msgs, User), from) = Asked(msgs, from)
<1>1. <<User>> \in Seq(Message) /\ Append(msgs, User) = msgs \o <<User>> BY MessageTypes
<1>2. \A n \in DOMAIN <<User>> : <<User>>[n].role # "assistant" BY DEF User
<1> QED BY <1>1, <1>2, AskedKept

LEMMA AskedFinite ==
  ASSUME NEW msgs \in Seq(Message), NEW from \in Nat
  PROVE  IsFiniteSet(Asked(msgs, from)) /\ Cardinality(Asked(msgs, from)) \in Nat
<1>1. Asked(msgs, from) \subseteq 1..Len(msgs) /\ Len(msgs) \in Nat BY DEF Asked
<1>2. IsFiniteSet(1..Len(msgs)) BY <1>1, FS_Interval
<1>3. IsFiniteSet(Asked(msgs, from)) BY <1>1, <1>2, FS_Subset
<1> QED BY <1>3, FS_CardinalityType

LEMMA AskedOnce ==
  ASSUME NEW msgs \in Seq(Message), NEW from \in Nat, NEW m \in Message
  PROVE  Cardinality(Asked(Append(msgs, m), from)) <= Cardinality(Asked(msgs, from)) + 1
<1> DEFINE old == Asked(msgs, from)
           more == old \cup {Len(msgs) + 1}
<1>1. IsFiniteSet(old) /\ Cardinality(old) \in Nat BY AskedFinite
<1>2. Asked(Append(msgs, m), from) \subseteq more
  <2>1. \A n \in DOMAIN Append(msgs, m) : n # Len(msgs) + 1 =>
          n \in DOMAIN msgs /\ Append(msgs, m)[n] = msgs[n]
    OBVIOUS
  <2> QED BY <2>1 DEF Asked
<1> HIDE DEF old
<1>3. IsFiniteSet(more) /\ Cardinality(more) \in {Cardinality(old), Cardinality(old) + 1}
  BY <1>1, FS_AddElement
<1>4. Cardinality(Asked(Append(msgs, m), from)) <= Cardinality(more)
  BY <1>2, <1>3, FS_Subset
<1>5. Append(msgs, m) \in Seq(Message)
  OBVIOUS
<1>6. Cardinality(Asked(Append(msgs, m), from)) \in Nat BY <1>5, AskedFinite
<1>7. Cardinality(old) <= Cardinality(old) + 1 BY <1>1
<1>8. Cardinality(more) <= Cardinality(old) + 1 /\ Cardinality(more) \in Nat BY <1>1, <1>3
<1> QED BY <1>1, <1>4, <1>6, <1>8 DEF old

\* The last assistant message is the last message where a frontier is open.
LEMMA FrontierIsLast ==
  ASSUME messages \in Seq(Message), OpenAt(messages)
  PROVE  /\ Frontier = LastCalls(messages) /\ Frontier \in Seq(Tools \cup {OutputTool})
         /\ LastCalls(messages) \in Seq(Tools \cup {OutputTool})
<1> DEFINE I == {i \in 1..Len(messages) : messages[i].role = "assistant"}
           at == SelectLastInSeq(messages, LAMBDA m : m.role = "assistant")
<1>1. Len(messages) \in Nat /\ Len(messages) \in I /\ I # {} BY DEF OpenAt
<1>2. Max(I) = Len(messages)
  <2>1. Max(I) \in I /\ \A i \in I : Max(I) >= i
    <3>1. \E x \in I : \A y \in I : x >= y BY <1>1
    <3> HIDE DEF I
    <3> QED BY <3>1 DEF Max
  <2> QED BY <1>1, <2>1
<1>3. at = Len(messages) BY <1>1, <1>2 DEF SelectLastInSeq
<1>4. Len(messages) # 0 /\ messages[Len(messages)] \in Message BY <1>1
<1> QED BY <1>3, <1>4 DEF Frontier, LastCalls, Message

\* The results of a turn answer the frontier, call by call.
LEMMA CommitAnswers ==
  ASSUME Types, OpenAt(messages), NEW before, NEW output \in {"discarded", "accepted", "invalid"},
         NEW took \in Took, Committed(before, output, took),
         before.messages \in Seq(Message), before.sunk \in Seq(Message),
         Inspect(before.messages) = [valid |-> TRUE, open |-> DOMAIN Frontier]
  PROVE  /\ messages' \in Seq(Message) /\ sunk' \in Seq(Message)
         /\ Paired(messages')
         /\ \A from \in Nat : Asked(messages', from) = Asked(before.messages, from)
         /\ ~Missed(took) /\ before.sunk = before.messages => sunk' = messages'
<1> DEFINE k == Len(Frontier)
           added == [i \in DOMAIN Frontier |-> Answer(i, output)]
           last == IF took < Len(added) THEN took ELSE Len(added)
           told == SubSeq(added, 1, last)
<1>1. k \in Nat /\ DOMAIN Frontier = 1..k BY FrontierIsLast DEF Types
<1>2. \A i \in 1..k : ResultOf(i, output) # "none"
  <2> TAKE i \in 1..k
  <2>1. \A j \in DOMAIN loop.results : loop.results[j] \in {"failed", "given", "answered"}
    <3>1. loop.results \in ResultMaps BY DEF Types, LoopState
    <3> QED BY <3>1 DEF ResultMaps
  <2> QED BY <2>1 DEF ResultOf
<1>3. \A i \in 1..k : Answer(i, output) = ToolMessage(i) BY <1>2 DEF Answer
<1>4. /\ added \in Seq(Message) /\ Len(added) = k
      /\ \A i \in 1..k : added[i] = ToolMessage(i) /\ added[i].role # "assistant"
  <2>1. \A i \in 1..k : ToolMessage(i) \in Message /\ ToolMessage(i).role # "assistant"
    <3>1. \A i \in 1..k : ToolMessage(i).role = "tool" BY DEF ToolMessage
    <3> QED BY <1>1, <3>1, MessageTypes
  <2>2. added \in [1..k -> Message] BY <1>1, <1>3, <2>1
  <2>3. added \in Seq(Message) /\ Len(added) = k
    <3> HIDE DEF added
    <3> QED BY <1>1, <2>2
  <2> QED BY <1>1, <1>3, <2>1, <2>3
<1>5. messages' = before.messages \o added /\ sunk' = before.sunk \o told BY DEF Committed
<1>6. told \in Seq(Message) /\ (~Missed(took) => told = added)
  <2> HIDE DEF added
  <2>1. took = 0 \/ took = k \/ took = 1 BY DEF Took
  <2>2. last \in 0..Len(added) /\ (~Missed(took) => last = Len(added))
    <3> HIDE DEF k
    <3>1. Missed(took) <=> took < k BY DEF Missed, k
    <3> QED BY <1>1, <1>4, <2>1, <3>1
  <2> HIDE DEF last
  <2>3. told \in Seq(Message) BY <1>4, <2>2
  <2>4. SubSeq(added, 1, Len(added)) = added BY <1>4
  <2> QED BY <2>2, <2>3, <2>4
<1> HIDE DEF added, last, told
<1>7. Paired(messages') BY <1>1, <1>4, <1>5, InspectAnswers
<1>8. \A from \in Nat : Asked(messages', from) = Asked(before.messages, from)
  <2>1. \A n \in DOMAIN added : added[n].role # "assistant" BY <1>1, <1>4
  <2> QED BY <1>4, <1>5, <2>1, AskedKept
<1>9. messages' \in Seq(Message) /\ sunk' \in Seq(Message) BY <1>4, <1>5, <1>6
<1>10. ~Missed(took) /\ before.sunk = before.messages => sunk' = messages' BY <1>5, <1>6
<1> QED BY <1>7, <1>8, <1>9, <1>10

-----------------------------------------------------------------------------
(***************************************************************************)
(* The state of the loop.                                                  *)
(***************************************************************************)
SavedType == [kind : {"none", "gate", "handler"}, execute : SUBSET Nat, loop : LoopState]

LEMMA NoLoopType == NoLoop \in LoopState /\ Limits(NoLoop) /\ InTurn(NoLoop)
<1>1. <<>> \in ResultMaps
  <2>1. <<>> \in [{} -> {"failed", "given", "answered"}] /\ {} \in SUBSET Nat
    OBVIOUS
  <2> QED BY <2>1 DEF ResultMaps
<1>2. /\ 0 \in 0..MaxRequests /\ 0 \in 0..MaxToolCalls /\ 0 \in 0..(MaxValidationRetries + 1)
      /\ [t \in Tools |-> 0] \in [Tools -> 0..MaxRetries] /\ 0 \in Nat
  BY Numbers
<1>3. NoLoop \in LoopState BY <1>1, <1>2 DEF NoLoop, LoopState
<1>4. NoLoop.again = 0 /\ NoLoop.iteration = 0 BY DEF NoLoop
<1> QED BY <1>3, <1>4, Numbers DEF Limits, InTurn

LEMMA NextTurnType ==
  ASSUME NEW l \in LoopState
  PROVE  /\ NextTurn(l) \in LoopState
         /\ NextTurn(l).requests = l.requests /\ NextTurn(l).tools = l.tools
         /\ NextTurn(l).again = l.again /\ NextTurn(l).iteration = l.iteration
         /\ NextTurn(l).fatal = FALSE
<1>1. NoLoop \in LoopState BY NoLoopType
<1> QED BY <1>1 DEF NextTurn, NoLoop, LoopState

LEMMA ResultMapTypes ==
  ASSUME NEW calls \in SUBSET Nat
  PROVE  /\ AllFailed(calls) \in ResultMaps
         /\ [i \in calls |-> "answered"] \in ResultMaps
         /\ \A decide : Given(calls, decide) \in ResultMaps
<1>1. \A S \in SUBSET Nat : \A v \in {"failed", "given", "answered"} :
        [i \in S |-> v] \in ResultMaps
  <2> TAKE S \in SUBSET Nat
  <2> TAKE v \in {"failed", "given", "answered"}
  <2>1. [i \in S |-> v] \in [S -> {"failed", "given", "answered"}]
    OBVIOUS
  <2> QED BY <2>1 DEF ResultMaps
<1>2. \A decide : calls \ Executed(calls, decide) \in SUBSET Nat
  OBVIOUS
<1> QED BY <1>1, <1>2 DEF AllFailed, Given

LEMMA WithType ==
  ASSUME NEW f \in ResultMaps, NEW g \in ResultMaps
  PROVE  With(f, g) \in ResultMaps
<1>1. PICK S \in SUBSET Nat : f \in [S -> {"failed", "given", "answered"}] BY DEF ResultMaps
<1>2. PICK T \in SUBSET Nat : g \in [T -> {"failed", "given", "answered"}] BY DEF ResultMaps
<1>3. With(f, g) \in [S \cup T -> {"failed", "given", "answered"}] /\ S \cup T \in SUBSET Nat
  BY <1>1, <1>2 DEF With
<1> QED BY <1>3 DEF ResultMaps

\* The calls of a frontier that are no output, and batches of them.
LEMMA RegularTypes ==
  ASSUME NEW calls \in Seq(Tools \cup {OutputTool}), NEW some \in SUBSET Regular(calls)
  PROVE  /\ some \in SUBSET Nat /\ IsFiniteSet(some) /\ Cardinality(some) \in Nat
         /\ \A i \in some : calls[i] \in Tools
<1>1. some \subseteq 1..Len(calls) /\ Len(calls) \in Nat BY DEF Regular
<1>2. IsFiniteSet(1..Len(calls)) BY <1>1, FS_Interval
<1>3. IsFiniteSet(some) BY <1>1, <1>2, FS_Subset
<1>4. Cardinality(some) \in Nat BY <1>3, FS_CardinalityType
<1>5. \A i \in some : calls[i] \in Tools BY DEF Regular
<1> QED BY <1>1, <1>3, <1>4, <1>5

-----------------------------------------------------------------------------
(***************************************************************************)
(* A step of the loop either returns or goes on with the turn.             *)
(***************************************************************************)
SavedKept(s) == s \in SavedType /\ Limits(s.loop) /\ InTurn(s.loop) /\ ~s.loop.fatal

LEMMA ReturnKeeps ==
  ASSUME NEW outcome \in Statuses \ {"none", "running"}, NEW event \in {"none", "done", "error"},
         Returns(outcome, event), stream = <<>>,
         outcome = "completed" => event = "done",
         event = "done" => outcome \in {"completed", "failed"},
         Batch', phase' = "idle",
         messages' \in Seq(Message), sunk' \in Seq(Message), since' \in Nat, resumes' \in Nat,
         SavedKept(saved'),
         outcome # "failed" => sunk' = messages',
         Cardinality(Asked(messages', since')) <= MaxRequests,
         outcome = "suspended" =>
           /\ OpenAt(messages') /\ saved'.execute \subseteq Regular(LastCalls(messages'))
           /\ Cardinality(Asked(messages', since')) <= saved'.loop.requests
  PROVE  Inv'
<1>1. pc' = "idle" /\ status' = outcome /\ loop' = NoLoop BY DEF Returns
<1>2. stream' = CASE outcome = "completed" -> <<"done">>
                  [] event = "done" /\ outcome # "completed" -> <<"done">>
                  [] OTHER -> <<"error">>
  <2>1. <<"done">> # <<>> /\ <<"error">> # <<>>
    OBVIOUS
  <2> QED BY <2>1 DEF Returns, SentOnce, Statuses
<1>3. Len(<<"done">>) = 1 /\ Len(<<"error">>) = 1 /\ <<"done">> # <<"error">>
  OBVIOUS
<1>4. Types'
  <2>1. stream' \in Streams BY <1>2 DEF Streams
  <2> QED BY <1>1, <2>1, NoLoopType DEF Types, PlacesOfLoop, SavedKept, SavedType
<1>5. Transcripts' BY <1>1 DEF Transcripts, Answering
<1>6. Batches' BY <1>1 DEF Batches
<1>7. Told'
  <2>1. StreamTellsOutcome' BY <1>1, <1>2, <1>3 DEF StreamTellsOutcome, Statuses
  <2> QED BY <1>1, <2>1 DEF Told, Statuses
<1>8. Sunk' BY <1>1 DEF Sunk
<1>9. Counted' BY <1>1 DEF Counted, RequestsBounded, Asked
<1>10. Limited' BY <1>1, NoLoopType DEF Limited, SavedKept
<1> QED BY <1>4, <1>5, <1>6, <1>7, <1>8, <1>9, <1>10 DEF Inv

LEMMA GoesOnKeeps ==
  ASSUME pc' \in PlacesOfLoop \ {"idle"}, status' = "running", stream' = <<>>,
         Batch', pc' = "tools" <=> phase' # "idle",
         messages' \in Seq(Message), sunk' \in Seq(Message), since' \in Nat, resumes' \in Nat,
         SavedKept(saved'), loop' \in LoopState, Limits(loop'), pc' # "top" => InTurn(loop'),
         pc' \in {"top", "request", "gate", "tools"} => ~loop'.fatal,
         pc' \in {"announce", "gate", "tools", "evaluate"} => OpenAt(messages'),
         pc' \in {"top", "request", "finish"} => Paired(messages'),
         pc' = "tools" => /\ DOMAIN batch' \subseteq Regular(LastCalls(messages'))
                          /\ loop'.tools + Cardinality(DOMAIN batch') <= MaxToolCalls,
         sunk' = messages' \/ (pc' = "finish" /\ loop'.fatal),
         Cardinality(Asked(messages', since')) <= loop'.requests,
         pc' = "request" => loop'.requests < MaxRequests
  PROVE  Inv'
<1>1. Types' BY DEF Types, PlacesOfLoop, Statuses, Streams, SavedKept, SavedType
<1>2. Transcripts' BY DEF Transcripts, Answering
<1>3. Batches' BY DEF Batches
<1>4. Told' BY DEF Told, StreamTellsOutcome
<1>5. Sunk' BY DEF Sunk
<1>6. Counted'
  <2>1. loop'.requests \in Nat /\ loop'.requests <= MaxRequests BY Numbers DEF LoopState
  <2>2. Cardinality(Asked(messages', since')) \in Nat BY AskedFinite
  <2>3. Cardinality(Asked(messages', since')) <= MaxRequests BY <2>1, <2>2, Numbers
  <2>4. RequestsBounded' BY <2>3 DEF RequestsBounded, Asked
  <2> QED BY <2>4 DEF Counted
<1>7. Limited' BY DEF Limited, SavedKept
<1> QED BY <1>1, <1>2, <1>3, <1>4, <1>5, <1>6, <1>7 DEF Inv

\* What every step of the loop finds.
LEMMA Finds ==
  ASSUME Inv, pc # "idle"
  PROVE  /\ stream = <<>> /\ status = "running"
         /\ messages \in Seq(Message) /\ sunk \in Seq(Message) /\ since \in Nat /\ resumes \in Nat
         /\ SavedKept(saved) /\ loop \in LoopState /\ Limits(loop)
         /\ (pc # "top" => InTurn(loop))
         /\ Cardinality(Asked(messages, since)) <= loop.requests
         /\ Cardinality(Asked(messages, since)) <= MaxRequests
         /\ (pc # "tools" => phase = "idle")
         /\ (pc # "finish" => sunk = messages)
BY DEF Inv, Types, Told, Limited, Counted, RequestsBounded, Asked, Batches, SavedKept,
       SavedType, Sunk

\* A step that only fails or is interrupted leaves everything as it is.
LEMMA FailKeeps ==
  ASSUME Inv, pc # "idle", pc # "tools", NEW outcome \in {"failed", "interrupted", "stopped"},
         NEW event \in {"none", "error"}, Returns(outcome, event),
         outcome # "failed" => sunk = messages,
         UNCHANGED <<messages, sunk, saved, since, resumes, schedulerVars>>
  PROVE  Inv'
<1>1. Batch' BY DEF Inv, Batch, SchedulerType, Collected, schedulerVars
<1>2. phase' = "idle" BY Finds DEF schedulerVars
<1> QED BY <1>1, <1>2, Finds, ReturnKeeps DEF Statuses

LEMMA Standing ==
  ASSUME Batch, UNCHANGED schedulerVars
  PROVE  Batch' /\ phase' = phase
BY DEF Batch, SchedulerType, Collected, schedulerVars

-----------------------------------------------------------------------------
(***************************************************************************)
(* The steps, one lemma for each.                                          *)
(***************************************************************************)
LEMMA ResumeStartsKeeps ==
  ASSUME Inv, NEW sent \in BOOLEAN, ResumeStarts(sent)
  PROVE  Inv'
<1>1. pc = "announce" /\ UNCHANGED <<messages, sunk, saved, since, resumes, schedulerVars>>
  BY DEF ResumeStarts
<1>2. CASE ~sent
  <2>1. Returns("failed", "none") BY <1>2 DEF ResumeStarts, Fails
  <2> QED BY <1>1, <2>1, FailKeeps
<1>3. CASE sent
  <2>1. pc' = "evaluate" /\ UNCHANGED <<status, stream, loop>> BY <1>3 DEF ResumeStarts
  <2>2. OpenAt(messages) BY <1>1 DEF Inv, Transcripts, Answering
  <2>3. Batch' /\ phase' = "idle" BY <1>1, Finds, Standing DEF Inv
  <2> QED BY <1>1, <2>1, <2>2, <2>3, Finds, GoesOnKeeps DEF PlacesOfLoop
<1> QED BY <1>2, <1>3

LEMMA BeginTurnKeeps ==
  ASSUME Inv, NEW sent \in BOOLEAN, BeginTurn(sent)
  PROVE  Inv'
<1>1. pc = "top" /\ UNCHANGED <<messages, sunk, saved, since, resumes, schedulerVars>>
  BY DEF BeginTurn
<1>2. \/ Returns("interrupted", "error") \/ Returns("failed", "error") \/ Returns("failed", "none")
      \/ /\ pc' = "request" /\ UNCHANGED <<status, stream, loop>>
         /\ ~(loop.iteration >= MaxIterations) /\ ~(loop.requests >= MaxRequests)
  BY DEF BeginTurn, Fails, Interrupted
<1>3. CASE pc' = "request" /\ UNCHANGED <<status, stream, loop>>
           /\ ~(loop.iteration >= MaxIterations) /\ ~(loop.requests >= MaxRequests)
  <2>1. loop.iteration \in Nat /\ loop.requests \in Nat
    BY <1>1, Finds, Numbers DEF LoopState
  <2>2. loop.requests < MaxRequests /\ InTurn(loop) BY <1>3, <2>1, Numbers DEF InTurn
  <2>3. Paired(messages) BY <1>1 DEF Inv, Transcripts
  <2>4. Batch' /\ phase' = "idle" BY <1>1, Finds, Standing DEF Inv
  <2>5. ~loop.fatal BY <1>1 DEF Inv, Limited
  <2> QED BY <1>1, <1>3, <2>2, <2>3, <2>4, <2>5, Finds, GoesOnKeeps DEF PlacesOfLoop
<1>4. sunk = messages BY <1>1, Finds
<1> QED BY <1>1, <1>2, <1>3, <1>4, FailKeeps

LEMMA ModelFailsKeeps ==
  ASSUME Inv, NEW deadline \in BOOLEAN, ModelFails(deadline)
  PROVE  Inv'
<1>1. pc = "request" /\ UNCHANGED <<messages, sunk, saved, since, resumes, schedulerVars>>
      /\ (Returns("interrupted", "error") \/ Returns("failed", "error"))
  BY DEF ModelFails, Interrupted, Fails
<1>2. sunk = messages BY <1>1, Finds
<1> QED BY <1>1, <1>2, FailKeeps

LEMMA ModelAnswersKeeps ==
  ASSUME Inv, NEW calls \in AnswerCalls, NEW sent \in BOOLEAN, ModelAnswers(calls, sent)
  PROVE  Inv'
<1> DEFINE m == Assistant(calls)
<1>1. pc = "request" /\ messages' = Append(messages, m)
      /\ UNCHANGED <<saved, since, resumes, schedulerVars>>
  BY DEF ModelAnswers
<1>2. calls \in Seq(Tools \cup {OutputTool}) BY LoopAssumption DEF LoopAssumption
<1>3. m \in Message BY <1>2, MessageTypes
<1>4. OpenAt(messages') /\ messages' \in Seq(Message)
  <2>1. Paired(messages) BY <1>1 DEF Inv, Transcripts
  <2>2. messages \in Seq(Message) BY <1>1, Finds
  <2>3. OpenAt(Append(messages, Assistant(calls))) BY <1>2, <2>1, <2>2, AnswerOpens
  <2> HIDE DEF m
  <2>4. Append(messages, m) \in Seq(Message) BY <1>3, <2>2
  <2> QED BY <1>1, <2>3, <2>4 DEF m
<1> HIDE DEF m
<1>5. /\ loop.requests \in Nat /\ loop.requests + 1 \in 0..MaxRequests
      /\ Cardinality(Asked(messages', since)) <= loop.requests + 1
      /\ Cardinality(Asked(messages', since)) <= MaxRequests
  <2>1. loop.requests \in Nat /\ loop.requests < MaxRequests
    BY <1>1, Numbers DEF Inv, Types, LoopState, Counted
  <2>2. Cardinality(Asked(messages', since)) <= Cardinality(Asked(messages, since)) + 1
    BY <1>1, <1>3, Finds, AskedOnce
  <2>3. /\ Cardinality(Asked(messages, since)) \in Nat
        /\ Cardinality(Asked(messages', since)) \in Nat
    BY <1>1, <1>4, Finds, AskedFinite
  <2>4. Cardinality(Asked(messages, since)) <= loop.requests BY <1>1, Finds
  <2> QED BY <2>1, <2>2, <2>3, <2>4, Numbers
<1>6. Batch' /\ phase' = "idle" BY <1>1, Finds, Standing DEF Inv
<1>7. CASE ~sent
  <2>1. Returns("failed", "none") /\ sunk' = sunk BY <1>7 DEF ModelAnswers, Fails
  <2> QED BY <1>1, <1>4, <1>5, <1>6, <2>1, Finds, ReturnKeeps DEF Statuses
<1>8. CASE sent
  <2>1. /\ sunk' = Append(sunk, m) /\ loop' = [NextTurn(loop) EXCEPT !.requests = @ + 1]
        /\ pc' \in {"evaluate", "gate"} /\ UNCHANGED <<status, stream>>
    BY <1>8 DEF ModelAnswers, m
  <2>2. loop \in LoopState /\ Limits(loop) /\ InTurn(loop) BY <1>1, Finds
  <2>3. NextTurn(loop) \in LoopState BY <2>2, NextTurnType
  <2>4. /\ loop' \in LoopState /\ loop'.requests = loop.requests + 1
        /\ loop'.again = loop.again /\ loop'.iteration = loop.iteration /\ loop'.fatal = FALSE
    BY <1>5, <2>1, <2>2, <2>3, NextTurnType DEF LoopState
  <2>5. loop.fatal = FALSE BY <1>1 DEF Inv, Limited
  <2>6. Limits(loop') /\ InTurn(loop') BY <2>2, <2>4, <2>5 DEF Limits, InTurn
  <2>7. sunk' = messages' BY <1>1, <2>1, Finds
  <2>8. /\ stream = <<>> /\ status = "running" /\ since \in Nat /\ resumes \in Nat
        /\ SavedKept(saved)
    BY <1>1, Finds
  <2>9. /\ stream' = <<>> /\ status' = "running" /\ since' \in Nat /\ resumes' \in Nat
        /\ SavedKept(saved') /\ sunk' \in Seq(Message)
        /\ Cardinality(Asked(messages', since')) <= loop'.requests
    BY <1>1, <1>4, <1>5, <2>1, <2>4, <2>7, <2>8
  <2> QED BY <1>4, <1>6, <2>1, <2>4, <2>6, <2>7, <2>9, GoesOnKeeps DEF PlacesOfLoop
<1> QED BY <1>7, <1>8

\* What the steps of an open frontier find.
LEMMA FrontierFound ==
  ASSUME Inv, pc \in {"gate", "tools"}
  PROVE  /\ OpenAt(messages) /\ Frontier = LastCalls(messages)
         /\ Frontier \in Seq(Tools \cup {OutputTool})
         /\ Limits(loop) /\ InTurn(loop) /\ ~loop.fatal /\ sunk = messages
         /\ \A l \in LoopState : l.again = loop.again /\ l.iteration = loop.iteration =>
              Limits(l) /\ InTurn(l)
<1>1. OpenAt(messages) /\ messages \in Seq(Message)
  BY DEF Inv, Transcripts, Answering, Types
<1>2. Limits(loop) /\ InTurn(loop) /\ ~loop.fatal /\ sunk = messages
  BY Finds DEF Inv, Limited
<1>3. \A l \in LoopState : l.again = loop.again /\ l.iteration = loop.iteration =>
         Limits(l) /\ InTurn(l)
  BY <1>2 DEF Limits, InTurn
<1> QED BY <1>1, <1>2, <1>3, FrontierIsLast

\* The turn goes on from the batch, or from the gate that started none.
LEMMA BatchOver ==
  ASSUME Inv, pc \in {"gate", "tools"}, pc' \in {"evaluate", "announce"},
         Batch', phase' = "idle", loop' \in LoopState,
         loop'.again = loop.again, loop'.iteration = loop.iteration,
         loop'.requests = loop.requests,
         UNCHANGED <<messages, sunk, saved, since, status, stream, resumes>>
  PROVE  Inv'
<1>1. OpenAt(messages') /\ Limits(loop') /\ InTurn(loop') /\ sunk' = messages'
  BY FrontierFound
<1> QED BY <1>1, Finds, GoesOnKeeps DEF PlacesOfLoop

\* The execution ends in a suspension, or fails to announce it.
LEMMA SuspendsKeeps ==
  ASSUME Inv, pc \in {"gate", "tools"}, NEW sent \in BOOLEAN, Suspends(sent),
         Batch', phase' = "idle", NEW kind \in {"gate", "handler"},
         NEW execute \in SUBSET Regular(Frontier), saved' = Suspension(kind, execute),
         UNCHANGED <<messages, sunk, since, resumes>>
  PROVE  Inv'
<1>1. /\ OpenAt(messages) /\ Frontier = LastCalls(messages) /\ sunk = messages
      /\ execute \in SUBSET Nat
  BY FrontierFound, RegularTypes
<1>2. loop \in LoopState BY Finds
<1>3. /\ NextTurn(loop) \in LoopState /\ Limits(NextTurn(loop)) /\ InTurn(NextTurn(loop))
      /\ NextTurn(loop).requests = loop.requests /\ ~NextTurn(loop).fatal
  BY <1>2, NextTurnType, FrontierFound
<1>4. SavedKept(saved') /\ saved'.execute = execute /\ saved'.loop.requests = loop.requests
  BY <1>1, <1>3 DEF SavedKept, SavedType, Suspension
<1>5. Returns("suspended", "error") \/ Returns("failed", "none") BY DEF Suspends, Fails
<1>6. /\ stream = <<>> /\ messages \in Seq(Message) /\ sunk \in Seq(Message)
      /\ since \in Nat /\ resumes \in Nat
      /\ Cardinality(Asked(messages, since)) <= loop.requests
      /\ Cardinality(Asked(messages, since)) <= MaxRequests
  BY Finds
<1>7. /\ messages' \in Seq(Message) /\ sunk' \in Seq(Message) /\ sunk' = messages'
      /\ since' \in Nat /\ resumes' \in Nat /\ OpenAt(messages')
      /\ saved'.execute \subseteq Regular(LastCalls(messages'))
      /\ Cardinality(Asked(messages', since')) <= MaxRequests
      /\ Cardinality(Asked(messages', since')) <= saved'.loop.requests
  BY <1>1, <1>4, <1>6
<1> QED BY <1>4, <1>5, <1>6, <1>7, ReturnKeeps DEF Statuses

LEMMA GateFailsKeeps ==
  ASSUME Inv, GateFails
  PROVE  Inv'
<1>1. /\ pc = "gate" /\ pc' = "evaluate"
      /\ loop' = [loop EXCEPT !.fatal = TRUE, !.results = AllFailed(Regular(Frontier))]
      /\ UNCHANGED <<messages, sunk, saved, since, status, stream, resumes, schedulerVars>>
  BY DEF GateFails
<1>2. Regular(Frontier) \in SUBSET Nat BY <1>1, FrontierFound, RegularTypes
<1>3. AllFailed(Regular(Frontier)) \in ResultMaps /\ loop \in LoopState
  BY <1>1, <1>2, ResultMapTypes, Finds
<1>4. /\ loop' \in LoopState /\ loop'.again = loop.again /\ loop'.iteration = loop.iteration
      /\ loop'.requests = loop.requests
  BY <1>1, <1>3 DEF LoopState
<1>5. Batch' /\ phase' = "idle" BY <1>1, Finds, Standing DEF Inv
<1> QED BY <1>1, <1>4, <1>5, BatchOver

LEMMA GateSuspendsKeeps ==
  ASSUME Inv, NEW sent \in BOOLEAN, GateSuspends(sent)
  PROVE  Inv'
<1>1. /\ pc = "gate" /\ saved' = Suspension("gate", Regular(Frontier)) /\ Suspends(sent)
      /\ UNCHANGED <<messages, sunk, since, resumes, schedulerVars>>
  BY DEF GateSuspends
<1>2. Batch' /\ phase' = "idle" BY <1>1, Finds, Standing DEF Inv
<1>3. Regular(Frontier) \in SUBSET Regular(Frontier)
  OBVIOUS
<1> QED BY <1>1, <1>2, <1>3, SuspendsKeeps

\* A batch that starts from regular calls of the frontier.
LEMMA BatchStarts ==
  ASSUME Batch, messages \in Seq(Message), OpenAt(messages),
         NEW run \in SUBSET Regular(Frontier), NEW sent \in BOOLEAN,
         Announce(ToolsOf(run), sent)
  PROVE  /\ Batch' /\ phase' # "idle" /\ DOMAIN batch' = run
         /\ run \subseteq Regular(LastCalls(messages))
<1>1. Frontier = LastCalls(messages) /\ \A i \in run : Frontier[i] \in Tools
  BY FrontierIsLast, RegularTypes
<1>2. DOMAIN ToolsOf(run) = run /\ ToolsOf(run) \in [DOMAIN ToolsOf(run) -> Tools]
  BY <1>1 DEF ToolsOf
<1>3. phase' # "idle" /\ batch' = ToolsOf(run) BY DEF Announce
<1>4. Batch' BY <1>2, AnnounceKeeps
<1> QED BY <1>1, <1>2, <1>3, <1>4

LEMMA GateDecidesKeeps ==
  ASSUME Inv, NEW decide \in Decisions(Regular(Frontier)), NEW continue \in BOOLEAN,
         NEW sent \in BOOLEAN, GateDecides(decide, continue, sent)
  PROVE  Inv'
<1> DEFINE regular == Regular(Frontier)
           run == Executed(regular, decide)
           given == Given(regular, decide)
           decided == [loop EXCEPT !.results = given, !.continues = continue]
<1>1. /\ pc = "gate"
      /\ UNCHANGED <<messages, sunk, saved, since, status, stream, resumes>>
  BY DEF GateDecides
<1>2. /\ regular \in SUBSET Nat /\ run \in SUBSET regular
      /\ run \in SUBSET Nat /\ IsFiniteSet(run) /\ Cardinality(run) \in Nat
  <2>1. Frontier \in Seq(Tools \cup {OutputTool}) BY <1>1, FrontierFound
  <2>2. run \in SUBSET regular BY DEF Executed
  <2> QED BY <2>1, <2>2, RegularTypes
<1>3. given \in ResultMaps /\ AllFailed(run) \in ResultMaps BY <1>2, ResultMapTypes
<1>4. loop \in LoopState BY <1>1, Finds
<1> HIDE DEF given, run
<1>5. /\ decided \in LoopState /\ decided.again = loop.again
      /\ decided.iteration = loop.iteration /\ decided.requests = loop.requests
      /\ decided.tools = loop.tools /\ decided.fatal = loop.fatal
  BY <1>3, <1>4 DEF LoopState
<1>6. \/ pc' = "evaluate" /\ loop' = decided /\ UNCHANGED schedulerVars
      \/ /\ pc' = "evaluate" /\ UNCHANGED schedulerVars
         /\ loop' = [decided EXCEPT !.fatal = TRUE, !.results = With(given, AllFailed(run))]
      \/ /\ pc' = "tools" /\ loop' = decided /\ Announce(ToolsOf(run), sent)
         /\ ~OverToolLimit(loop, run)
  BY DEF GateDecides, run, given
<1> HIDE DEF decided
<1>7. CASE pc' = "evaluate" /\ UNCHANGED schedulerVars
  <2>1. /\ loop' \in LoopState /\ loop'.again = loop.again
        /\ loop'.iteration = loop.iteration /\ loop'.requests = loop.requests
    <3>1. With(given, AllFailed(run)) \in ResultMaps BY <1>3, WithType
    <3>2. CASE loop' = decided BY <1>5, <3>2
    <3>3. CASE loop' = [decided EXCEPT !.fatal = TRUE, !.results = With(given, AllFailed(run))]
      BY <1>5, <3>1, <3>3 DEF LoopState
    <3> QED BY <1>6, <1>7, <3>2, <3>3
  <2>2. Batch' /\ phase' = "idle" BY <1>1, <1>7, Finds, Standing DEF Inv
  <2> QED BY <1>1, <1>7, <2>1, <2>2, BatchOver
<1>8. CASE /\ pc' = "tools" /\ loop' = decided /\ Announce(ToolsOf(run), sent)
           /\ ~OverToolLimit(loop, run)
  <2>1. OpenAt(messages) /\ Limits(decided) /\ InTurn(decided) /\ ~decided.fatal
    BY <1>1, <1>5, FrontierFound
  <2>2. Batch' /\ phase' # "idle" /\ DOMAIN batch' = run /\ run \subseteq Regular(LastCalls(messages))
    BY <1>1, <1>2, <1>8, <2>1, Finds, BatchStarts DEF Inv
  <2>3. loop.tools + Cardinality(run) <= MaxToolCalls
    BY <1>2, <1>4, <1>8, Numbers DEF OverToolLimit, LoopState
  <2> QED BY <1>1, <1>5, <1>8, <2>1, <2>2, <2>3, Finds, GoesOnKeeps DEF PlacesOfLoop
<1> QED BY <1>6, <1>7, <1>8

LEMMA ToolsReturnKeeps ==
  ASSUME Inv, NEW bad \in SUBSET DOMAIN results, NEW sent \in BOOLEAN, ToolsReturn(bad, sent)
  PROVE  Inv'
<1>1. pc = "tools" /\ Release /\ UNCHANGED <<messages, sunk, since, resumes>>
  BY DEF ToolsReturn
<1>2. Batch' /\ phase' = "idle" BY <1>1, ReleaseKeeps DEF Inv, Release
<1>3. /\ DOMAIN batch \in SUBSET Regular(Frontier)
      /\ loop.tools + Cardinality(DOMAIN batch) <= MaxToolCalls
      /\ Frontier \in Seq(Tools \cup {OutputTool})
  BY <1>1, FrontierFound DEF Inv, Batches
<1>4. CASE deferred
  <2>1. saved' = Suspension("handler", DOMAIN batch) /\ Suspends(sent)
    BY <1>4 DEF ToolsReturn
  <2> QED BY <1>1, <1>2, <1>3, <2>1, SuspendsKeeps
<1>5. CASE ~deferred
  <2> DEFINE asking == {i \in Ran \ bad : results[i] = "retry"}
             counts == Retried(asking)
             answered == [i \in Ran |-> "answered"]
  <2>1. /\ loop' = [loop EXCEPT
             !.retries = counts, !.tools = @ + Cardinality(Ran),
             !.results = With(@, answered),
             !.fatal = failed \/ bad \cap Ran # {},
             !.continues = @ \/ counts # loop.retries]
        /\ pc' \in {"announce", "evaluate"} /\ UNCHANGED <<saved, status, stream>>
    BY <1>5 DEF ToolsReturn
  <2>2. loop \in LoopState /\ loop.tools \in Nat /\ loop.tools <= MaxToolCalls
        /\ loop.retries \in [Tools -> 0..MaxRetries]
    BY <1>1, Finds, Numbers DEF LoopState
  <2>3. Ran \in SUBSET Regular(Frontier) /\ loop.tools + Cardinality(Ran) \in 0..MaxToolCalls
    <3>1. Ran = DOMAIN batch \/ Ran = {} BY DEF Ran
    <3>2. Cardinality({}) = 0 /\ Cardinality(DOMAIN batch) \in Nat
      BY <1>3, RegularTypes, FS_EmptySet
    <3>3. \A c, n \in Nat : n + c <= MaxToolCalls => n + c \in 0..MaxToolCalls
                                                /\ n + 0 \in 0..MaxToolCalls
      BY Numbers
    <3>4. loop.tools + Cardinality(Ran) \in 0..MaxToolCalls BY <1>3, <2>2, <3>1, <3>2, <3>3
    <3>5. Ran \in SUBSET Regular(Frontier) BY <1>3, <3>1
    <3> QED BY <3>4, <3>5
  <2>4. Ran \in SUBSET Nat /\ IsFiniteSet(Ran) BY <1>3, <2>3, RegularTypes
  <2>5. counts \in [Tools -> 0..MaxRetries]
    <3>1. \A t \in Tools : Cardinality({i \in asking : batch[i] = t}) \in Nat
      <4> TAKE t \in Tools
      <4>1. {i \in asking : batch[i] = t} \subseteq Ran
        OBVIOUS
      <4>2. IsFiniteSet({i \in asking : batch[i] = t}) BY <2>4, <4>1, FS_Subset
      <4> QED BY <4>2, FS_CardinalityType
    <3> HIDE DEF asking
    <3> QED BY <2>2, <3>1, Numbers DEF Retried
  <2>6. With(loop.results, answered) \in ResultMaps
    <3>1. answered \in ResultMaps /\ loop.results \in ResultMaps
      BY <2>2, <2>4, ResultMapTypes DEF LoopState
    <3> HIDE DEF answered
    <3> QED BY <3>1, WithType
  <2>7. failed \in BOOLEAN BY DEF Inv, Batch, SchedulerType
  <2> HIDE DEF counts, answered
  <2>8. /\ loop' \in LoopState /\ loop'.again = loop.again /\ loop'.iteration = loop.iteration
        /\ loop'.requests = loop.requests
    BY <2>1, <2>2, <2>3, <2>5, <2>6, <2>7 DEF LoopState
  <2> QED BY <1>1, <1>2, <2>1, <2>8, BatchOver
<1> QED BY <1>4, <1>5

\* The end of a turn: its results are committed.
LEMMA Commits ==
  ASSUME Inv, pc = "evaluate", pc' = "finish", NEW before,
         NEW output \in {"discarded", "accepted", "invalid"}, NEW took \in Took,
         Committed(before, output, took),
         before.messages \in Seq(Message), before.sunk \in Seq(Message),
         Inspect(before.messages) = [valid |-> TRUE, open |-> DOMAIN Frontier],
         Asked(before.messages, since) = Asked(messages, since),
         loop' \in LoopState, loop'.requests = loop.requests, Limits(loop'),
         loop'.iteration = loop.iteration,
         ~loop'.fatal => ~Missed(took) /\ before.sunk = before.messages,
         UNCHANGED <<saved, since, status, stream, resumes, schedulerVars>>
  PROVE  Inv'
<1>1. OpenAt(messages) BY DEF Inv, Transcripts, Answering
<1>2. /\ messages' \in Seq(Message) /\ sunk' \in Seq(Message) /\ Paired(messages')
      /\ \A from \in Nat : Asked(messages', from) = Asked(before.messages, from)
      /\ ~Missed(took) /\ before.sunk = before.messages => sunk' = messages'
  BY <1>1, CommitAnswers DEF Inv
<1>3. Batch' /\ phase' = "idle" BY Finds, Standing DEF Inv
<1>4. InTurn(loop') BY Finds DEF InTurn
<1>5. /\ stream = <<>> /\ status = "running" /\ since \in Nat /\ resumes \in Nat
      /\ SavedKept(saved) /\ Cardinality(Asked(messages, since)) <= loop.requests
  BY Finds
<1>6. sunk' = messages' \/ loop'.fatal BY <1>2
<1>7. Cardinality(Asked(messages', since')) <= loop'.requests BY <1>2, <1>5
<1> QED BY <1>2, <1>3, <1>4, <1>5, <1>6, <1>7, GoesOnKeeps DEF PlacesOfLoop

\* What an evaluation finds.
LEMMA EvaluateFinds ==
  ASSUME Inv, pc = "evaluate"
  PROVE  /\ messages \in Seq(Message) /\ sunk = messages /\ loop \in LoopState
         /\ Limits(loop)
         /\ Inspect(messages) = [valid |-> TRUE, open |-> DOMAIN Frontier]
         /\ loop.again \in Nat /\ MaxValidationRetries \in Nat
<1>1. OpenAt(messages) /\ messages \in Seq(Message)
  BY DEF Inv, Transcripts, Answering, Types
<1>2. Frontier = LastCalls(messages) BY <1>1, FrontierIsLast
<1>3. Inspect(messages) = [valid |-> TRUE, open |-> DOMAIN Frontier]
  BY <1>1, <1>2 DEF OpenAt
<1>4. loop \in LoopState BY Finds
<1>5. loop.again \in Nat BY <1>4, Numbers DEF LoopState
<1> QED BY <1>1, <1>3, <1>4, <1>5, Finds, Numbers

LEMMA EndToolsKeeps ==
  ASSUME Inv, NEW took \in Took, EndTools(took)
  PROVE  Inv'
<1> DEFINE before == [messages |-> messages, sunk |-> sunk]
<1>1. /\ pc = "evaluate" /\ pc' = "finish"
      /\ Committed(before, "discarded", took)
      /\ loop' = [loop EXCEPT !.fatal = @ \/ Missed(took),
                              !.continues = @ \/ loop.fatal \/ OutputCalls # {}]
      /\ UNCHANGED <<saved, since, status, stream, resumes, schedulerVars>>
  BY DEF EndTools
<1>2. before.messages = messages /\ before.sunk = sunk
  OBVIOUS
<1> HIDE DEF before
<1>3. loop \in LoopState /\ Limits(loop) /\ Missed(took) \in BOOLEAN
  BY <1>1, EvaluateFinds DEF Missed
<1>4. /\ loop' \in LoopState /\ loop'.requests = loop.requests /\ loop'.again = loop.again
      /\ loop'.iteration = loop.iteration /\ loop'.fatal = (loop.fatal \/ Missed(took))
  BY <1>1, <1>3 DEF LoopState
<1>5. Limits(loop') BY <1>3, <1>4 DEF Limits
<1>6. ~loop'.fatal => ~Missed(took) BY <1>4
<1> QED BY <1>1, <1>2, <1>4, <1>5, <1>6, EvaluateFinds, Commits

LEMMA AcceptsKeeps ==
  ASSUME Inv, NEW sent \in BOOLEAN, NEW took \in Took, Accepts(sent, took)
  PROVE  Inv'
<1> DEFINE before == [messages |-> messages, sunk |-> sunk]
<1>1. /\ pc = "evaluate" /\ pc' = "finish" /\ ~loop.fatal
      /\ Committed(before, "accepted", took)
      /\ loop' = [loop EXCEPT !.candidate = TRUE, !.fatal = ~sent \/ Missed(took)]
      /\ UNCHANGED <<saved, since, status, stream, resumes, schedulerVars>>
  BY DEF Accepts, Overruled
<1>2. before.messages = messages /\ before.sunk = sunk
  OBVIOUS
<1> HIDE DEF before
<1>3. loop \in LoopState /\ Limits(loop) /\ Missed(took) \in BOOLEAN
  BY <1>1, EvaluateFinds DEF Missed
<1>4. /\ loop' \in LoopState /\ loop'.requests = loop.requests /\ loop'.again = loop.again
      /\ loop'.iteration = loop.iteration /\ loop'.fatal = (~sent \/ Missed(took))
  BY <1>1, <1>3 DEF LoopState
<1>5. Limits(loop') BY <1>1, <1>3, <1>4 DEF Limits
<1>6. ~loop'.fatal => ~Missed(took) BY <1>4
<1> QED BY <1>1, <1>2, <1>4, <1>5, <1>6, EvaluateFinds, Commits

LEMMA RejectsKeeps ==
  ASSUME Inv, NEW sent \in BOOLEAN, NEW took \in Took, Rejects(sent, took)
  PROVE  Inv'
<1> DEFINE feedback == IF OutputCalls = {} THEN <<User>> ELSE <<>>
           before == [messages |-> messages \o feedback,
                      sunk |-> IF sent THEN sunk \o feedback ELSE sunk]
<1>1. /\ pc = "evaluate" /\ pc' = "finish" /\ ~loop.fatal /\ Candidate
      /\ Committed(before, "invalid", took)
      /\ loop' = [loop EXCEPT !.continues = TRUE, !.again = @ + 1,
           !.fatal = \/ loop.again + 1 > MaxValidationRetries
                     \/ ~sent /\ feedback # <<>>
                     \/ Missed(took)]
      /\ UNCHANGED <<saved, since, status, stream, resumes, schedulerVars>>
  BY DEF Rejects, Overruled
<1>2. /\ messages \in Seq(Message) /\ sunk = messages /\ loop \in LoopState /\ Limits(loop)
      /\ Inspect(messages) = [valid |-> TRUE, open |-> DOMAIN Frontier]
      /\ loop.again \in Nat /\ MaxValidationRetries \in Nat /\ since \in Nat
  BY <1>1, EvaluateFinds, Finds
<1>3. /\ before.messages \in Seq(Message) /\ before.sunk \in Seq(Message)
      /\ Inspect(before.messages) = [valid |-> TRUE, open |-> DOMAIN Frontier]
      /\ Asked(before.messages, since) = Asked(messages, since)
      /\ ~(~sent /\ feedback # <<>>) => before.sunk = before.messages
  <2>1. CASE OutputCalls = {}
    <3>1. Frontier = <<>> /\ feedback = <<User>> BY <1>1, <2>1 DEF Candidate
    <3>2. before.messages = Append(messages, User)
          /\ before.sunk = IF sent THEN Append(messages, User) ELSE messages
      <4>1. messages \o <<User>> = Append(messages, User) BY <1>2, MessageTypes
      <4>2. before.messages = messages \o feedback
            /\ before.sunk = IF sent THEN messages \o feedback ELSE messages
        BY <1>2
      <4> HIDE DEF before, feedback
      <4> QED BY <3>1, <4>1, <4>2
    <3>3. DOMAIN Frontier = {} BY <3>1
    <3>4. Paired(messages) BY <1>2, <3>3 DEF Paired, NoneOpen
    <3>5. Append(messages, User) \in Seq(Message) BY <1>2, MessageTypes
    <3>6. Inspect(Append(messages, User)) = [valid |-> TRUE, open |-> DOMAIN Frontier]
      BY <1>2, <3>3, <3>4, PairedUser DEF Paired, NoneOpen
    <3>7. Asked(Append(messages, User), since) = Asked(messages, since) BY <1>2, AskedUser
    <3>8. feedback # <<>> BY <3>1
    <3> HIDE DEF before, feedback
    <3> QED BY <1>2, <3>2, <3>5, <3>6, <3>7, <3>8
  <2>2. CASE OutputCalls # {}
    <3>1. before.messages = messages /\ before.sunk = messages BY <1>2, <2>2
    <3> HIDE DEF before
    <3> QED BY <1>2, <3>1
  <2> QED BY <2>1, <2>2
<1> DEFINE fatal == \/ loop.again + 1 > MaxValidationRetries
                    \/ ~sent /\ feedback # <<>>
                    \/ Missed(took)
<1>4. /\ loop'.requests = loop.requests /\ loop'.again = loop.again + 1
      /\ loop'.iteration = loop.iteration /\ loop'.fatal = fatal /\ loop' \in LoopState
  <2>1. loop.again + 1 \in 0..(MaxValidationRetries + 1) BY <1>1, <1>2 DEF Limits
  <2>2. fatal \in BOOLEAN
    OBVIOUS
  <2> HIDE DEF fatal
  <2>3. loop' = [loop EXCEPT !.continues = TRUE, !.again = @ + 1, !.fatal = fatal]
    BY <1>1 DEF fatal
  <2> QED BY <1>2, <2>1, <2>2, <2>3 DEF LoopState
<1>5. Limits(loop') BY <1>2, <1>4 DEF Limits
<1>6. ~loop'.fatal => ~Missed(took) /\ before.sunk = before.messages
  <2> HIDE DEF before, feedback
  <2> QED BY <1>3, <1>4
<1> HIDE DEF before, feedback, fatal
<1> QED BY <1>1, <1>3, <1>4, <1>5, <1>6, Commits

-----------------------------------------------------------------------------
(***************************************************************************)
(* The end of a turn, and how a run begins.                                *)
(***************************************************************************)
\* What follows a turn finds.
LEMMA FinishFinds ==
  ASSUME Inv, pc = "finish"
  PROVE  /\ messages \in Seq(Message) /\ Paired(messages) /\ loop \in LoopState
         /\ (~loop.fatal => sunk = messages) /\ sunk \in Seq(Message)
         /\ Append(messages, User) \in Seq(Message) /\ Paired(Append(messages, User))
         /\ Asked(Append(messages, User), since) = Asked(messages, since)
         /\ Append(sunk, User) \in Seq(Message)
<1>1. messages \in Seq(Message) /\ sunk \in Seq(Message) /\ Paired(messages)
      /\ loop \in LoopState /\ since \in Nat /\ (~loop.fatal => sunk = messages)
  BY DEF Inv, Types, Transcripts, Sunk
<1>2. Append(messages, User) \in Seq(Message) /\ Append(sunk, User) \in Seq(Message)
  BY <1>1, MessageTypes
<1> QED BY <1>1, <1>2, PairedUser, AskedUser

LEMMA PromptedKeeps ==
  ASSUME Inv, NEW sent \in BOOLEAN, Prompted(sent)
  PROVE  Inv'
<1>1. /\ pc = "finish" /\ ~loop.fatal /\ messages' = Append(messages, User)
      /\ sunk' = IF sent THEN Append(sunk, User) ELSE sunk
      /\ loop' = [loop EXCEPT !.prompt = FALSE, !.continues = TRUE, !.fatal = ~sent]
      /\ UNCHANGED <<pc, saved, since, status, stream, resumes, schedulerVars>>
  BY DEF Prompted
<1>2. loop \in LoopState /\ Limits(loop) /\ InTurn(loop) BY <1>1, Finds
<1>3. /\ loop' \in LoopState /\ loop'.requests = loop.requests /\ loop'.again = loop.again
      /\ loop'.iteration = loop.iteration /\ loop'.fatal = ~sent
  BY <1>1, <1>2 DEF LoopState
<1>4. Limits(loop') /\ InTurn(loop') BY <1>1, <1>2, <1>3 DEF Limits, InTurn
<1>5. Batch' /\ phase' = "idle" BY <1>1, Finds, Standing DEF Inv
<1>6. /\ messages' \in Seq(Message) /\ sunk' \in Seq(Message) /\ Paired(messages')
      /\ (sunk' = messages' \/ loop'.fatal)
      /\ Asked(messages', since) = Asked(messages, since)
  BY <1>1, <1>3, FinishFinds
<1>7. /\ stream' = <<>> /\ status' = "running" /\ since' \in Nat /\ resumes' \in Nat
      /\ SavedKept(saved') /\ Cardinality(Asked(messages', since')) <= loop'.requests
  BY <1>1, <1>3, <1>6, Finds
<1> QED BY <1>1, <1>3, <1>4, <1>5, <1>6, <1>7, GoesOnKeeps DEF PlacesOfLoop

LEMMA TurnFailsKeeps ==
  ASSUME Inv, NEW sinkFailed \in BOOLEAN, TurnFails(sinkFailed)
  PROVE  Inv'
<1>1. pc = "finish" /\ UNCHANGED <<messages, sunk, saved, since, resumes, schedulerVars>>
      /\ (Returns("failed", "none") \/ Returns("failed", "error"))
  BY DEF TurnFails, Fails
<1> QED BY <1>1, FailKeeps

\* The run goes on with another turn.
LEMMA NextTurnKeeps ==
  ASSUME Inv, pc = "finish", ~loop.fatal, pc' = "top",
         loop' = NextTurn([loop EXCEPT !.iteration = @ + 1]),
         messages' \in {messages, Append(messages, User)}, sunk' = messages',
         UNCHANGED <<status, stream, saved, since, resumes, schedulerVars>>
  PROVE  Inv'
<1> DEFINE l == [loop EXCEPT !.iteration = @ + 1]
<1>1. loop \in LoopState /\ Limits(loop) /\ InTurn(loop) /\ loop.iteration \in Nat
  BY Finds DEF LoopState
<1>2. /\ l \in LoopState /\ l.requests = loop.requests /\ l.again = loop.again
      /\ l.iteration = loop.iteration + 1
  BY <1>1 DEF LoopState
<1> HIDE DEF l
<1>3. /\ loop' \in LoopState /\ loop'.requests = loop.requests /\ loop'.again = loop.again
      /\ loop'.iteration = loop.iteration + 1 /\ loop'.fatal = FALSE
  BY <1>2, NextTurnType DEF l
<1>4. Limits(loop') BY <1>1, <1>3, Numbers DEF Limits, InTurn
<1>5. /\ messages' \in Seq(Message) /\ sunk' \in Seq(Message) /\ Paired(messages')
      /\ Asked(messages', since) = Asked(messages, since)
  BY FinishFinds
<1>6. Batch' /\ phase' = "idle" BY Finds, Standing DEF Inv
<1>7. /\ stream' = <<>> /\ status' = "running" /\ since' \in Nat /\ resumes' \in Nat
      /\ SavedKept(saved') /\ Cardinality(Asked(messages', since')) <= loop'.requests
  BY <1>3, <1>5, Finds
<1> QED BY <1>3, <1>4, <1>5, <1>6, <1>7, GoesOnKeeps DEF PlacesOfLoop

LEMMA HookInjectsKeeps ==
  ASSUME Inv, NEW sent \in BOOLEAN, HookInjects(sent)
  PROVE  Inv'
<1>1. /\ pc = "finish" /\ ~loop.fatal /\ messages' = Append(messages, User)
      /\ UNCHANGED <<saved, since, resumes, schedulerVars>>
  BY DEF HookInjects, TurnGoesOn
<1>2. CASE sent
  <2>1. /\ sunk' = Append(sunk, User) /\ pc' = "top"
        /\ loop' = NextTurn([loop EXCEPT !.iteration = @ + 1]) /\ UNCHANGED <<status, stream>>
    BY <1>2 DEF HookInjects
  <2>2. sunk' = messages' BY <1>1, <2>1, FinishFinds
  <2> QED BY <1>1, <2>1, <2>2, NextTurnKeeps
<1>3. CASE ~sent
  <2>1. Returns("failed", "none") /\ sunk' = sunk BY <1>3 DEF HookInjects, Fails
  <2>2. /\ messages' \in Seq(Message) /\ sunk' \in Seq(Message)
        /\ Asked(messages', since) = Asked(messages, since)
    BY <1>1, <2>1, FinishFinds
  <2>3. Batch' /\ phase' = "idle" BY <1>1, Finds, Standing DEF Inv
  <2>4. /\ stream = <<>> /\ since' \in Nat /\ resumes' \in Nat /\ SavedKept(saved')
        /\ Cardinality(Asked(messages', since')) <= MaxRequests
    BY <1>1, <2>2, Finds
  <2> QED BY <2>1, <2>2, <2>3, <2>4, ReturnKeeps DEF Statuses
<1> QED BY <1>2, <1>3

\* The run is over and says so.
LEMMA EndsKeeps ==
  ASSUME Inv, pc = "finish", ~loop.fatal,
         \/ \E took \in 0..2 : Completes(took)
         \/ \E sent \in BOOLEAN : Stops(sent),
         UNCHANGED <<messages, sunk, saved, since, resumes, schedulerVars>>
  PROVE  Inv'
<1>1. \/ Returns("completed", "done") \/ Returns("failed", "done") \/ Returns("failed", "none")
      \/ Returns("stopped", "error")
  BY DEF Completes, Stops, Fails
<1>2. Batch' /\ phase' = "idle" BY Finds, Standing DEF Inv
<1>3. sunk = messages BY FinishFinds
<1> QED BY <1>1, <1>2, <1>3, Finds, ReturnKeeps DEF Statuses

LEMMA HookEndsKeeps ==
  ASSUME Inv, NEW took \in 0..2, HookStops(took) \/ HookDefault(took)
  PROVE  Inv'
<1>1. /\ pc = "finish" /\ ~loop.fatal
      /\ UNCHANGED <<messages, sunk, saved, since, resumes, schedulerVars>>
  BY DEF HookStops, HookDefault, TurnGoesOn
<1>2. \/ Completes(took) \/ Stops(took = 2)
      \/ /\ pc' = "top" /\ loop' = NextTurn([loop EXCEPT !.iteration = @ + 1])
         /\ UNCHANGED <<status, stream>>
  BY DEF HookStops, HookDefault
<1>3. (took = 2) \in BOOLEAN
  OBVIOUS
<1>4. sunk = messages BY <1>1, FinishFinds
<1>5. CASE Completes(took) \/ Stops(took = 2) BY <1>1, <1>3, <1>5, EndsKeeps
<1>6. CASE /\ pc' = "top" /\ loop' = NextTurn([loop EXCEPT !.iteration = @ + 1])
           /\ UNCHANGED <<status, stream>>
  BY <1>1, <1>4, <1>6, NextTurnKeeps
<1> QED BY <1>2, <1>5, <1>6

LEMMA DriveKeeps ==
  ASSUME Inv, NEW mode \in {"start", "continue", "recover"}, NEW sent \in BOOLEAN,
         Drive(mode, sent)
  PROVE  Inv'
<1> DEFINE started == IF mode = "start" THEN Append(messages, User) ELSE messages
<1>1. /\ pc = "idle" /\ status = "none" /\ Drivable(mode, messages)
      /\ messages' = started /\ sunk' = started /\ since' = Len(started)
      /\ UNCHANGED <<saved, resumes, schedulerVars>>
  BY DEF Drive
<1>2. /\ messages \in Seq(Message) /\ Paired(messages) /\ loop = NoLoop /\ stream = <<>>
      /\ resumes \in Nat /\ SavedKept(saved) /\ phase = "idle" /\ Batch
  BY <1>1 DEF Inv, Types, Drivable, Told, SavedKept, SavedType, Limited, Batches
<1>3. started \in Seq(Message) /\ Paired(started) BY <1>2, MessageTypes, PairedUser
<1>4. started # <<>> /\ (mode # "recover" => started[Len(started)].role # "assistant")
      /\ (started[Len(started)].role = "assistant" => started[Len(started)].calls = <<>>)
  <2>1. CASE mode = "start"
    <3>1. started = Append(messages, User) BY <2>1
    <3>2. started # <<>> /\ started[Len(started)] = User BY <1>2, <3>1, MessageTypes
    <3> QED BY <3>2 DEF User
  <2>2. CASE mode # "start"
    <3>1. Last(messages) = messages[Len(messages)] BY DEF Last
    <3> QED BY <1>1, <2>2, <3>1 DEF Drivable
  <2> QED BY <2>1, <2>2
<1> HIDE DEF started
<1>5. Batch' /\ phase' = "idle" BY <1>1, <1>2, Standing
<1>6. Asked(messages', since') = {} BY <1>1, <1>3 DEF Asked
<1>7. Cardinality(Asked(messages', since')) = 0 BY <1>6, FS_EmptySet
<1>8. Len(started) \in Nat BY <1>3
<1>9. CASE ~sent
  <2>1. Returns("failed", "none") BY <1>9 DEF Drive, Fails
  <2> QED BY <1>1, <1>2, <1>3, <1>5, <1>7, <1>8, <2>1, Numbers, ReturnKeeps DEF Statuses
<1>10. CASE sent
  <2>1. /\ pc' = IF Last(messages').role = "assistant" THEN "evaluate" ELSE "top"
        /\ status' = "running" /\ stream' = stream /\ loop' = loop
    BY <1>10 DEF Drive
  <2>2. Last(messages') = started[Len(started)] BY <1>1 DEF Last
  <2>3. pc' = "evaluate" => OpenAt(started)
    <3> SUFFICES ASSUME started[Len(started)].role = "assistant"
                 PROVE  OpenAt(started)
      BY <2>1, <2>2
    <3>1. LastCalls(started) = <<>> BY <1>4 DEF LastCalls
    <3>2. DOMAIN LastCalls(started) = {} BY <3>1
    <3> QED BY <1>3, <1>4, <3>2 DEF OpenAt, Paired, NoneOpen
  <2>4. NoLoop.requests = 0 /\ NoLoop.fatal = FALSE BY DEF NoLoop
  <2>5. pc' \in {"evaluate", "top"} BY <2>1
  <2> QED BY <1>1, <1>2, <1>3, <1>5, <1>7, <1>8, <2>1, <2>3, <2>4, <2>5, NoLoopType,
             GoesOnKeeps DEF PlacesOfLoop
<1> QED BY <1>9, <1>10

LEMMA ResumeKeeps ==
  ASSUME Inv, NEW prompt \in BOOLEAN, NEW valid \in BOOLEAN, NEW sent \in BOOLEAN,
         NEW decide \in Decisions(saved.execute), Resume(decide, prompt, valid, sent)
  PROVE  Inv'
<1> DEFINE run == Executed(saved.execute, decide)
           given == Given(saved.execute, decide)
           restored == Restored(saved)
           l == [restored EXCEPT !.results = given, !.resumed = TRUE, !.prompt = prompt]
<1>1. /\ pc = "idle" /\ status = "suspended" /\ resumes' = resumes + 1
      /\ UNCHANGED <<messages, sunk, saved, since>>
  BY DEF Resume
<1>2. /\ messages \in Seq(Message) /\ sunk = messages /\ since \in Nat /\ OpenAt(messages)
      /\ resumes' \in Nat /\ SavedKept(saved) /\ phase = "idle" /\ Batch
      /\ saved.execute \subseteq Regular(LastCalls(messages))
      /\ Cardinality(Asked(messages, since)) <= saved.loop.requests
      /\ Cardinality(Asked(messages, since)) <= MaxRequests
  BY <1>1 DEF Inv, Types, Transcripts, Answering, Sunk, Told, SavedKept, SavedType, Limited,
     Batches, Counted, RequestsBounded, Asked
<1>3. Frontier = LastCalls(messages) /\ Frontier \in Seq(Tools \cup {OutputTool})
  BY <1>2, FrontierIsLast
<1>4. /\ run \in SUBSET saved.execute /\ run \in SUBSET Regular(Frontier)
      /\ run \in SUBSET Nat /\ Cardinality(run) \in Nat /\ saved.execute \in SUBSET Nat
  <2>1. run \in SUBSET saved.execute /\ run \in SUBSET Regular(Frontier)
    BY <1>2, <1>3 DEF Executed
  <2> QED BY <1>2, <1>3, <2>1, RegularTypes
<1>5. given \in ResultMaps BY <1>4, ResultMapTypes
<1>6. /\ restored \in LoopState /\ restored.requests = saved.loop.requests
      /\ restored.again = saved.loop.again /\ restored.iteration = saved.loop.iteration
      /\ restored.fatal = FALSE
  <2>1. saved.loop \in LoopState BY <1>2 DEF SavedKept, SavedType
  <2> QED BY <2>1, NextTurnType DEF Restored
<1>7. Limits(restored) /\ InTurn(restored) BY <1>2, <1>6 DEF SavedKept, Limits, InTurn
<1>8. \/ /\ pc' = "idle" /\ status' = "failed" /\ loop' = NoLoop /\ stream' = <<"error">>
         /\ UNCHANGED schedulerVars
      \/ /\ loop' = l /\ status' = "running" /\ stream' = <<>>
         /\ \/ pc' = "announce" /\ UNCHANGED schedulerVars
            \/ /\ pc' = "tools" /\ Announce(ToolsOf(run), sent)
               /\ ~OverToolLimit(restored, run)
  BY DEF Resume
<1> HIDE DEF given, restored, run
<1>9. /\ l \in LoopState /\ l.requests = saved.loop.requests /\ l.fatal = FALSE
      /\ l.tools = restored.tools /\ l.again = restored.again
      /\ l.iteration = restored.iteration
  BY <1>5, <1>6 DEF LoopState
<1> HIDE DEF l
<1>10. Limits(l) /\ InTurn(l) BY <1>7, <1>9, <1>6 DEF Limits, InTurn
<1>11. CASE /\ pc' = "idle" /\ status' = "failed" /\ loop' = NoLoop /\ stream' = <<"error">>
            /\ UNCHANGED schedulerVars
  <2>1. Batch' /\ phase' = "idle" BY <1>2, <1>11, Standing
  <2>2. Types'
    BY <1>1, <1>2, <1>11, NoLoopType
       DEF Types, PlacesOfLoop, Statuses, Streams, SavedKept, SavedType
  <2>3. Told'
    <3>1. Len(<<"error">>) = 1 /\ <<"error">> # <<"done">>
      OBVIOUS
    <3> QED BY <1>11, <3>1 DEF Told, StreamTellsOutcome
  <2>4. Transcripts' /\ Batches' /\ Sunk'
    BY <1>11, <2>1 DEF Transcripts, Answering, Batches, Sunk
  <2>5. Counted' BY <1>1, <1>2, <1>11 DEF Counted, RequestsBounded, Asked
  <2>6. Limited' BY <1>1, <1>2, <1>11, NoLoopType DEF Limited, SavedKept
  <2> QED BY <2>1, <2>2, <2>3, <2>4, <2>5, <2>6 DEF Inv
<1>12. CASE /\ loop' = l /\ status' = "running" /\ stream' = <<>>
            /\ pc' = "announce" /\ UNCHANGED schedulerVars
  <2>1. Batch' /\ phase' = "idle" BY <1>2, <1>12, Standing
  <2> QED BY <1>1, <1>2, <1>9, <1>10, <1>12, <2>1, GoesOnKeeps DEF PlacesOfLoop
<1>13. CASE /\ loop' = l /\ status' = "running" /\ stream' = <<>>
            /\ pc' = "tools" /\ Announce(ToolsOf(run), sent)
            /\ ~OverToolLimit(restored, run)
  <2>1. /\ Batch' /\ phase' # "idle" /\ DOMAIN batch' = run
        /\ run \subseteq Regular(LastCalls(messages))
    BY <1>2, <1>4, <1>13, BatchStarts
  <2>2. restored.tools + Cardinality(run) <= MaxToolCalls
    BY <1>4, <1>6, <1>13, Numbers DEF OverToolLimit, LoopState
  <2> QED BY <1>1, <1>2, <1>9, <1>10, <1>13, <2>1, <2>2, GoesOnKeeps DEF PlacesOfLoop
<1> QED BY <1>8, <1>11, <1>12, <1>13

-----------------------------------------------------------------------------
(***************************************************************************)
(* The invariant of the specification.                                     *)
(***************************************************************************)
LEMMA InitInv == ASSUME Init PROVE Inv
<1>1. /\ pc = "idle" /\ messages \in Seq(Message) /\ sunk = messages /\ since = Len(messages)
      /\ loop = NoLoop /\ saved = NoSuspension /\ status = "none" /\ stream = <<>>
      /\ resumes = 0 /\ phase = "idle"
  BY LoopAssumption DEF Init, SchedulerInit, LoopAssumption
<1>2. Batch BY InitBatch
<1>3. SavedKept(saved) /\ saved.loop = NoLoop
  <2>1. NoLoop.fatal = FALSE BY DEF NoLoop
  <2> QED BY <1>1, <2>1, NoLoopType DEF NoSuspension, SavedKept, SavedType
<1>4. Types
  BY <1>1, <1>3, NoLoopType DEF Types, PlacesOfLoop, Statuses, Streams, SavedKept, SavedType
<1>5. Transcripts /\ Batches /\ Told /\ Sunk
  BY <1>1 DEF Transcripts, Answering, Batches, Told, StreamTellsOutcome, Sunk
<1>6. Limited BY <1>1, <1>3, NoLoopType DEF Limited, SavedKept
<1>7. Counted
  <2>1. Asked(messages, since) = {} BY <1>1 DEF Asked
  <2>2. Cardinality(Asked(messages, since)) = 0 BY <2>1, FS_EmptySet
  <2> QED BY <1>1, <2>2, Numbers DEF Counted, RequestsBounded, Asked
<1> QED BY <1>2, <1>4, <1>5, <1>6, <1>7 DEF Inv

\* A step of the scheduler, of a handler, or of the one who cancels.
LEMMA SchedulerStep ==
  ASSUME Inv, Scheduler \/ Handlers \/ Cancel, UNCHANGED loopVars
  PROVE  Inv'
<1>1. Batch' /\ batch' = batch /\ (phase' # "idle" <=> phase # "idle")
  BY SchedulerKeeps DEF Inv
<1>2. /\ pc' = pc /\ messages' = messages /\ sunk' = sunk /\ loop' = loop /\ saved' = saved
      /\ since' = since /\ status' = status /\ stream' = stream /\ resumes' = resumes
  BY DEF loopVars
<1>3. Types' /\ Transcripts' BY <1>2 DEF Inv, Types, Transcripts, Answering
<1>4. Batches' BY <1>1, <1>2 DEF Inv, Batches
<1>5. Told' /\ Sunk' BY <1>2 DEF Inv, Told, StreamTellsOutcome, Sunk
<1>6. Counted' /\ Limited' BY <1>2 DEF Inv, Counted, RequestsBounded, Asked, Limited
<1> QED BY <1>1, <1>3, <1>4, <1>5, <1>6 DEF Inv

LEMMA StutterStep == ASSUME Inv, UNCHANGED vars PROVE Inv'
<1>1. /\ pc' = pc /\ messages' = messages /\ sunk' = sunk /\ loop' = loop /\ saved' = saved
      /\ since' = since /\ status' = status /\ stream' = stream /\ resumes' = resumes
  BY DEF vars, loopVars
<1>2. Batch' /\ phase' = phase /\ batch' = batch BY Standing DEF Inv, vars, schedulerVars
<1>3. Types' /\ Transcripts' BY <1>1 DEF Inv, Types, Transcripts, Answering
<1>4. Batches' BY <1>1, <1>2 DEF Inv, Batches
<1>5. Told' /\ Sunk' BY <1>1 DEF Inv, Told, StreamTellsOutcome, Sunk
<1>6. Counted' /\ Limited' BY <1>1 DEF Inv, Counted, RequestsBounded, Asked, Limited
<1> QED BY <1>2, <1>3, <1>4, <1>5, <1>6 DEF Inv

LEMMA TurnStep == ASSUME Inv, Turns PROVE Inv'
<1>1. PICK sent \in BOOLEAN :
    \/ ResumeStarts(sent) \/ BeginTurn(sent) \/ GateSuspends(sent)
    \/ ModelFails(sent) \/ GateFails
    \/ \E calls \in AnswerCalls : ModelAnswers(calls, sent)
    \/ \E decide \in Decisions(Regular(Frontier)), continue \in BOOLEAN :
         GateDecides(decide, continue, sent)
    \/ \E bad \in SUBSET DOMAIN results : ToolsReturn(bad, sent)
    \/ \E took \in Took : EndTools(took) \/ Accepts(sent, took) \/ Rejects(sent, took)
    \/ Prompted(sent) \/ TurnFails(sent) \/ HookInjects(sent)
    \/ \E took \in 0..2 : HookStops(took) \/ HookDefault(took)
  BY Zenon DEF Turns
<1>2. CASE ResumeStarts(sent) \/ BeginTurn(sent) \/ ModelFails(sent)
           \/ \E calls \in AnswerCalls : ModelAnswers(calls, sent)
  BY <1>2, ResumeStartsKeeps, BeginTurnKeeps, ModelFailsKeeps, ModelAnswersKeeps
<1>3. CASE \/ GateSuspends(sent) \/ GateFails
           \/ \E decide \in Decisions(Regular(Frontier)), continue \in BOOLEAN :
                GateDecides(decide, continue, sent)
           \/ \E bad \in SUBSET DOMAIN results : ToolsReturn(bad, sent)
  BY <1>3, GateSuspendsKeeps, GateFailsKeeps, GateDecidesKeeps, ToolsReturnKeeps
<1>4. CASE \E took \in Took : EndTools(took) \/ Accepts(sent, took) \/ Rejects(sent, took)
  BY <1>4, EndToolsKeeps, AcceptsKeeps, RejectsKeeps
<1>5. CASE \/ Prompted(sent) \/ TurnFails(sent) \/ HookInjects(sent)
           \/ \E took \in 0..2 : HookStops(took) \/ HookDefault(took)
  BY <1>5, PromptedKeeps, TurnFailsKeeps, HookInjectsKeeps, HookEndsKeeps
<1> QED BY <1>1, <1>2, <1>3, <1>4, <1>5

LEMMA StepInv == ASSUME Inv, [Next]_vars PROVE Inv'
<1>1. CASE Callers BY <1>1, DriveKeeps, ResumeKeeps DEF Callers
<1>2. CASE Turns BY <1>2, TurnStep
<1>3. CASE (Scheduler \/ Handlers \/ Cancel) /\ UNCHANGED loopVars BY <1>3, SchedulerStep
<1>4. CASE UNCHANGED vars BY <1>4, StutterStep
<1> QED BY <1>1, <1>2, <1>3, <1>4 DEF Next, Loop

LEMMA AlwaysInv == Spec => []Inv
<1>1. Init => Inv BY InitInv
<1>2. Inv /\ [Next]_vars => Inv' BY StepInv
<1> QED BY <1>1, <1>2, PTL DEF Spec

-----------------------------------------------------------------------------
(***************************************************************************)
(* The theorems.                                                           *)
(***************************************************************************)
\* The transcript the loop leaves to its caller and to the sink is one whole: the
\* limits hold, the sink has every message in order, and no request goes out with
\* a call unanswered or answered twice (driveLoop, commitToolResults).
THEOREM TranscriptWhole == Spec => []TranscriptIsWhole
<1>1. Inv => TranscriptIsWhole
  <2> SUFFICES ASSUME Inv PROVE TranscriptIsWhole
    OBVIOUS
  <2>1. LoopType
    <3>1. /\ loop.requests <= MaxRequests /\ loop.tools <= MaxToolCalls
          /\ \A t \in Tools : loop.retries[t] <= MaxRetries
          /\ loop.again <= MaxValidationRetries + 1
      BY Numbers DEF Inv, Types, LoopState
    <3>2. loop.iteration <= MaxIterations \/ loop.iteration <= 1 BY DEF Inv, Limited, Limits
    <3> QED BY <3>1, <3>2 DEF LoopType, Inv, Types, Batch, PlacesOfLoop, Statuses
  <2>2. SinkHasTranscript BY DEF Inv, Sunk, SinkHasTranscript
  <2>3. RequestsArePaired BY DEF Inv, Transcripts, RequestsArePaired
  <2> QED BY <2>1, <2>2, <2>3 DEF TranscriptIsWhole
<1> QED BY <1>1, AlwaysInv, PTL

\* However a run ends, its stream tells one outcome as its last event, no handler
\* is left running unless the run was cancelled, and the run made no more requests
\* than its limit, whatever it was suspended and resumed (legacyStreamSink,
\* executeAdmittedTools, checkBeforeRequest).
THEOREM OutcomeTold == Spec => []OutcomeIsTold
<1>1. Inv => OutcomeIsTold
  BY DEF Inv, Told, Batch, Collected, Counted, OutcomeIsTold, NothingLeftRunning
<1> QED BY <1>1, AlwaysInv, PTL

\* An answer once given is the answer of the batch: neither a completion that
\* comes late nor the end of the grace period changes it (acceptCompletion).
THEOREM AnswersAreFinal == Spec => AnswerIsFinal
<1> DEFINE Final == \A i \in DOMAIN results :
             results[i] # "none" /\ phase \in {"waiting", "grace"} => results'[i] = results[i]
<1>1. ASSUME Inv, [Next]_vars PROVE [Final]_schedulerVars
  <2> SUFFICES ASSUME NEW i \in DOMAIN results, results[i] # "none",
                      phase \in {"waiting", "grace"}, ~UNCHANGED schedulerVars
               PROVE  results'[i] = results[i]
    OBVIOUS
  <2>1. results \in [DOMAIN batch -> Reports \cup {"none"}]
    BY <1>1 DEF Inv, Batch, SchedulerType
  <2>2. /\ pc = "tools" /\ ~Release
        /\ \A calls : \A sent \in BOOLEAN : ~Announce(calls, sent)
    BY <1>1 DEF Inv, Batches, Release, Announce
  <2>3. \/ Scheduler \/ Handlers \/ Cancel \/ UNCHANGED schedulerVars
    <3>1. CASE Callers BY <2>2, <3>1 DEF Callers, Drive, Resume
    <3>2. CASE Turns
      BY <2>2, <3>2 DEF Turns, ResumeStarts, BeginTurn, GateSuspends, ModelFails, GateFails,
         ModelAnswers, GateDecides, ToolsReturn, EndTools, Accepts, Rejects, Prompted,
         TurnFails, HookInjects, HookStops, HookDefault
    <3> QED BY <1>1, <3>1, <3>2 DEF Next, Loop, vars
  <2>4. CASE Collect
    <3>1. Accepted(Head(channel)) BY <2>4 DEF Collect
    <3> QED BY <2>1, <3>1 DEF Accepted
  <2>5. CASE Expire BY <2>1, <2>5 DEF Expire, Expired, Missing
  <2>6. CASE BeginGrace \/ Return \/ Handlers \/ Cancel
    BY <2>6 DEF BeginGrace, Return, Handlers, Complete, Cancel
  <2> QED BY <2>3, <2>4, <2>5, <2>6 DEF Scheduler
<1> QED BY <1>1, AlwaysInv, PTL DEF Spec, AnswerIsFinal
=============================================================================

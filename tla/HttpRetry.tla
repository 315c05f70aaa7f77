------------------------------- MODULE HttpRetry -------------------------------
(***************************************************************************)
(* One Post of the transport the HTTP providers share                      *)
(* (internal/providerhttp/providerhttp.go): attempts, waits, the bounded   *)
(* read of the body, and what the caller is given, with the four clients   *)
(* that keep a copy of it and differ in what they bound and heed. The      *)
(* server answers each attempt as it likes and the caller's context may    *)
(* end at any time.                                                        *)
(***************************************************************************)
EXTENDS Integers, Sequences, SequencesExt

CONSTANTS
  MaxRetries,  \* maxRetries of the client
  Second,      \* a second as a Duration (10^9 in the code)
  Bits         \* the width of a Duration (64 in the code)
\* New refuses a negative number of retries
ASSUME RetryAssumption == MaxRetries \in Nat /\ Second \in Nat \ {0} /\ Bits \in Nat \ {0}

Statuses == {"200", "400", "429", "503"}
Bodies == {"whole", "torn", "oversize"}
RetryAfters == {"none", "past", "short", "long"}   \* of a non-200 response

\* bounded: reads no more than maxResponseBytes; heeds: Retry-After counts;
\* jitters: waits are spread
SharedClient == [bounded |-> TRUE, heeds |-> TRUE, jitters |-> TRUE]
DeepInfraClient == [bounded |-> TRUE, heeds |-> TRUE, jitters |-> TRUE]
PineconeClient == [bounded |-> TRUE, heeds |-> TRUE, jitters |-> TRUE]
VoyageClient == [bounded |-> FALSE, heeds |-> TRUE, jitters |-> TRUE]
CohereClient == [bounded |-> FALSE, heeds |-> FALSE, jitters |-> FALSE]
Clients == {SharedClient, DeepInfraClient, PineconeClient, VoyageClient, CohereClient}

VARIABLE post
retryVars == <<post>>

RetryInit ==
  post \in [pc : {"do"}, client : Clients, attempt : {0}, cancelled : {FALSE}, log : {<<>>},
            waits : {<<>>}, result : {"none"}]

Ends(result) == post' = [post EXCEPT !.pc = "returned", !.result = result]

\* fault: one attempt too many
LastAttemptPassed == post.attempt > MaxRetries

LastAttempt == post.attempt = MaxRetries

retryableStatus(status) == status \in {"429", "503"}   \* 500, 502 and 504 alike

\* 1 << n
Power(n) ==
  LET upTo[k \in 0..n] == IF k = 0 THEN 1 ELSE 2 * upTo[k - 1]
  IN upTo[n]

\* a product of Bits bits, two's complement: large attempts wrap
Wrapped(n) ==
  LET m == n % Power(Bits)
  IN IF m >= Power(Bits - 1) THEN m - Power(Bits) ELSE m

longest == 4 * Second

\* fault: the delay grows by one
retryDelayLinear(attempt) == IF attempt > 4 THEN longest ELSE attempt * Second

retryDelay(attempt) ==
  LET delay == Wrapped(Power(attempt) * Second)
  IN IF delay > longest THEN longest ELSE delay

maxRetryAfter == 30 * Second
parseRetryAfter(header) ==
  CASE header = "past" -> 0 [] header = "short" -> 3 * Second [] header = "long" -> maxRetryAfter

\* up to a quarter more, after whatever bounds the wait has passed
withJitter(d) == IF d <= 0 THEN {0} ELSE d..d + d \div 4

Heeded(header) == IF post.client.heeds THEN header ELSE "none"
retryWait(attempt, header) ==
  LET delay == IF header = "none" THEN retryDelay(attempt) ELSE parseRetryAfter(header)
  IN IF post.client.jitters \/ delay <= 0 THEN withJitter(delay) ELSE {delay}

Sleeps(header) ==
  \E wait \in retryWait(post.attempt, Heeded(header)) :
    post' = [post EXCEPT !.pc = "sleep",
                         !.waits = Append(@, [after |-> Heeded(header), wait |-> wait])]

\* the transport failed; with the context over, the error is the context's
DoFails ==
  /\ post.pc = "do"
  /\ IF post.cancelled THEN Ends("context")
     ELSE IF LastAttempt THEN Ends("transport") ELSE Sleeps("none")

DoAnswers(status, body, header) ==
  /\ post.pc = "do"
  /\ post' = [post EXCEPT !.pc = "read",
                          !.log = Append(@, [status |-> status, body |-> body, after |-> header])]

\* the body is read whole before its status is looked at
TooLong(body) == body = "oversize" /\ post.client.bounded
Reads ==
  /\ post.pc = "read"
  /\ LET got == Last(post.log)
     IN IF got.body = "torn" THEN Ends("read")
        ELSE IF TooLong(got.body) THEN Ends("oversize")
        ELSE IF got.status = "200" THEN Ends("payload")
        ELSE IF ~retryableStatus(got.status) \/ LastAttempt THEN Ends("api")
        ELSE Sleeps(got.after)

Wakes ==
  /\ post.pc = "sleep"
  /\ post' = [post EXCEPT !.pc = "do", !.attempt = @ + 1]
SleepEnds == post.pc = "sleep" /\ post.cancelled /\ Ends("context")

Cancel ==
  /\ ~post.cancelled /\ post.pc # "returned" /\ post' = [post EXCEPT !.cancelled = TRUE]

RetryNext ==
  \/ DoFails \/ Reads \/ Wakes \/ SleepEnds \/ Cancel
  \/ \E status \in Statuses, body \in Bodies, header \in RetryAfters :
       DoAnswers(status, body, header)

RetrySpec == RetryInit /\ [][RetryNext]_retryVars

(***************************************************************************)
(* Properties.                                                             *)
(***************************************************************************)
Readable(got) == got.body = "whole" \/ (got.body = "oversize" /\ ~post.client.bounded)
Transient(got) == got.status \in {"429", "503"} /\ Readable(got)

\* "bounded retry on 429 and transient 5xx": at most one attempt more than the
\* retries, each after a transient answer or a failed connection; the payload is
\* a whole 200; the provider's error is not given back while it was worth
\* another try; and "a caller's shutdown must not look like a transient outage",
\* nor an outage like a shutdown (Post).
RetriesOnlyTransient ==
  /\ post.attempt <= MaxRetries /\ Len(post.log) <= post.attempt + 1
  /\ \A n \in 1..Len(post.log) - 1 : Transient(post.log[n])
  /\ post.result = "payload" => Last(post.log).status = "200" /\ Readable(Last(post.log))
  /\ post.result \in {"api", "transport"} =>
       post.attempt = MaxRetries \/ (post.result = "api" /\ ~Transient(Last(post.log)))
  /\ post.result = "context" => post.cancelled

\* A server that names no time is asked again a second later at the earliest and
\* five at the latest, and a later wait is shorter than an earlier one by no more
\* than the jitter. One that names a time is not asked before it, unless it lies
\* beyond the cap, and cannot make a request wait for more than the cap and a
\* quarter of it; it is asked again at once only if the time has come (retryWait,
\* parseRetryAfter, withJitter). So it is while 2^attempt seconds fit a Duration.
WaitsAreSane ==
  LET Wait(n) == post.waits[n].wait
      After(n) == post.waits[n].after
  IN \A n \in DOMAIN post.waits :
       /\ Wait(n) \in 0..maxRetryAfter + maxRetryAfter \div 4
       /\ Wait(n) = 0 => After(n) = "past"
       /\ After(n) = "none" => Wait(n) \in Second..longest + Second
       /\ After(n) = "short" => Wait(n) >= 3 * Second
       /\ After(n) = "long" => Wait(n) >= maxRetryAfter
       /\ \A m \in 1..n - 1 : After(m) = "none" /\ After(n) = "none" =>
            IF post.client.jitters THEN 5 * Wait(n) >= 4 * Wait(m) ELSE Wait(n) >= Wait(m)

\* What "maxRetryAfter caps how long a server-supplied Retry-After header can park
\* a request" says (providerhttp.go:26): no wait is longer than the cap.
CapIsTheLongestWait == \A n \in DOMAIN post.waits : post.waits[n].wait <= maxRetryAfter

\* A request is posted again only after a failure that may pass, and its waits
\* are as long as the doubling delay or the server says, within a quarter (Post,
\* retryWait).
RetriesAreBounded == RetriesOnlyTransient /\ WaitsAreSane
=============================================================================

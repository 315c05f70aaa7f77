------------------------------- MODULE MCEdges -------------------------------
(*****************************************************************************)
(* The machines at the edges of the system (providers, embedding services,   *)
(* voice, terminal, generated programs), side by side as in MCDurable.       *)
(*****************************************************************************)
EXTENDS Integers, Sequences, CodeMode, VoiceBridge, HttpRetry

VARIABLES part, v1, v2, v3, v4, v5, v6
slots == <<v1, v2, v3, v4, v5, v6>>

Unused == "unused"
UnusedSlots ==
  /\ v1 = Unused /\ v2 = Unused /\ v3 = Unused /\ v4 = Unused /\ v5 = Unused /\ v6 = Unused

Streams == INSTANCE ProviderStreams WITH
  MaxBlocks <- 2, MaxDeltas <- 3, Buffer <- 2, provider <- v1, reply <- v2,
  fold <- v3, events <- v4, taken <- v5
StreamsInit ==
  /\ part = "streams" /\ Streams!StreamsInit
  /\ v6 = Unused
StreamsNext ==
  /\ part = "streams" /\ Streams!StreamsNext
  /\ UNCHANGED <<part, v6>>

Requests == INSTANCE ProviderRequests WITH
  MaxMessages <- 5, MaxTokens <- 3, transcript <- v1, settings <- v2
RequestsInit ==
  /\ part = "requests" /\ Requests!RequestsInit
  /\ v3 = Unused /\ v4 = Unused /\ v5 = Unused /\ v6 = Unused
RequestsNext ==
  /\ part = "requests" /\ Requests!RequestsNext
  /\ UNCHANGED <<part, v3, v4, v5, v6>>

Vectors == INSTANCE Retrieval WITH
  MaxInputs <- 3, config <- v1, service <- v2, cancelled <- v3, call <- v4,
  fan <- v5, ranking <- v6
VectorsInit ==
  /\ part = "vectors" /\ Vectors!RetrievalInit
VectorsNext ==
  /\ part = "vectors" /\ Vectors!RetrievalNext
  /\ UNCHANGED part

Screen == INSTANCE TerminalView WITH
  MaxSessions <- 2, Texts <- {"x"}, MaxRecords <- 3, MaxOps <- 2, Buffer <- 1,
  journal <- v1, closed <- v2, bridge <- v3, ops <- v4, view <- v5, queued <- v6
ScreenInit ==
  /\ part = "screen" /\ Screen!TerminalInit
ScreenNext ==
  /\ part = "screen" /\ Screen!TerminalNext
  /\ UNCHANGED part

\* Programs, voice calls and a post have their own variables, which stay as they
\* are while another machine runs.
CodeRests == CodeInit /\ program.executor = "monty"
RetryRests == RetryInit /\ post.client = SharedClient
OwnVars == <<codeVars, bridgeVars, retryVars>>

Init ==
  \/ part = "code" /\ CodeInit /\ BridgeInit /\ RetryRests /\ UnusedSlots
  \/ part = "voice" /\ BridgeInit /\ CodeRests /\ RetryRests /\ UnusedSlots
  \/ part = "retry" /\ RetryInit /\ CodeRests /\ BridgeInit /\ UnusedSlots
  \/ /\ \/ StreamsInit \/ RequestsInit \/ VectorsInit \/ ScreenInit
     /\ CodeRests /\ BridgeInit /\ RetryRests

Next ==
  \/ part = "code" /\ CodeNext /\ UNCHANGED <<part, slots, bridgeVars, retryVars>>
  \/ part = "voice" /\ BridgeNext /\ UNCHANGED <<part, slots, codeVars, retryVars>>
  \/ part = "retry" /\ RetryNext /\ UNCHANGED <<part, slots, codeVars, bridgeVars>>
  \/ /\ \/ StreamsNext \/ RequestsNext \/ VectorsNext \/ ScreenNext
     /\ UNCHANGED OwnVars

\* the names of a program's calls are alike
Symmetry == Permutations(NestedCalls)

Spec == Init /\ [][Next]_<<part, slots, OwnVars>>

\* What a provider streams folds to the response the loop takes, and a stream
\* that broke off is no answer.
StreamsFold ==
  part = "streams" =>
    /\ Streams!StreamedIsTheResponse
    /\ Streams!BrokenOffIsNoAnswer

\* A request carries signatures to the provider that issued them only, and others'
\* reasoning as text, as Gemini's thoughts or, where it names no provider, to
\* Responses; it answers every call it carries where a message holds one result;
\* and Anthropic's has a limit above its thinking budget.
RequestsAreValid ==
  part = "requests" =>
    /\ Requests!SignaturesGoHome
    /\ Requests!ReasoningIsReceivable
    /\ Requests!CallsAreAnswered
    /\ Requests!RequestIsAcceptable

\* A response of an embedding service holds vectors of one space, one for each
\* text but for those that Titan's and Voyage's embedders may leave out; a ranking
\* is ordered and of the request's documents.
VectorsAreWhole ==
  part = "vectors" =>
    /\ Vectors!ResponseIsOneSpace
    /\ Vectors!RankingIsOrdered

\* An answer is in the transcript on the screen once, and the transcript keeps up
\* with the session's; what is previewed beside it is another matter.
ScreenIsCoherent ==
  part = "screen" =>
    /\ Screen!AnswersShownOnce
    /\ Screen!ViewIsCurrent
=============================================================================

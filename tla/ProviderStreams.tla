---------------------------- MODULE ProviderStreams ----------------------------
(***************************************************************************)
(* One streamed model request: the goroutine each provider starts in       *)
(* RequestStream folds what the server sends into stream events, and       *)
(* consumeStream (execution_loop.go) folds those into the assistant's      *)
(* message. The same reply asked for without a stream goes through the     *)
(* provider's convertResponse; the two ways are written apart and have to  *)
(* agree.                                                                  *)
(*                                                                         *)
(*   reply   what the server produced: blocks [kind, id, size, signed],    *)
(*           size counting the deltas, sound saying whether a call's       *)
(*           arguments decode; its finish, its usage and how it ended      *)
(*   fold    what the goroutine remembers                                  *)
(*   events  the channel between the two                                   *)
(*   taken   what consumeStream gathered                                   *)
(***************************************************************************)
EXTENDS Naturals, Sequences, FiniteSets, SequencesExt

CONSTANTS
  MaxBlocks,  \* bound on the blocks of a reply
  MaxDeltas,  \* bound on the deltas of a reply
  Buffer      \* capacity of the event channel (64 in the code)

VARIABLES provider, reply, fold, events, taken
streamVars == <<provider, reply, fold, events, taken>>

(***************************************************************************)
(* RequestStream of each provider, by what its goroutine reads:            *)
(*   kinds     the blocks it takes from the wire besides text and calls    *)
(*   whole     chat completions: the reply has one of each, not in blocks  *)
(*   initial   the finish reason before the server gives one               *)
(*   signs     what ends a reasoning block with its signature: "block" once *)
(*             the block has text, "item" in any case, or nothing          *)
(*   parallel  whether calls' deltas carry the call they belong to         *)
(*   apart     whether usage comes after the finish reason                 *)
(***************************************************************************)
OpenAIStream ==
  [kinds |-> {"refusal"}, whole |-> TRUE, initial |-> "stop", signs |-> "none",
   parallel |-> TRUE, apart |-> TRUE]
ResponsesStream ==
  [kinds |-> {"refusal", "thinking"}, whole |-> FALSE, initial |-> "stop", signs |-> "item",
   parallel |-> TRUE, apart |-> FALSE]
AnthropicStream ==
  [kinds |-> {"thinking", "redacted"}, whole |-> FALSE, initial |-> "", signs |-> "block",
   parallel |-> FALSE, apart |-> FALSE]
GeminiStream ==
  [kinds |-> {"thinking"}, whole |-> FALSE, initial |-> "unknown", signs |-> "block",
   parallel |-> FALSE, apart |-> FALSE]
BedrockStream ==
  [kinds |-> {"thinking", "redacted"}, whole |-> FALSE, initial |-> "unknown", signs |-> "block",
   parallel |-> FALSE, apart |-> TRUE]
GrokStream ==
  [kinds |-> {"thinking"}, whole |-> TRUE, initial |-> "unknown", signs |-> "none",
   parallel |-> TRUE, apart |-> TRUE]
OpenRouterStream ==
  [kinds |-> {"thinking"}, whole |-> TRUE, initial |-> "unknown", signs |-> "none",
   parallel |-> TRUE, apart |-> TRUE]

Streams ==
  [openai |-> OpenAIStream, responses |-> ResponsesStream, anthropic |-> AnthropicStream,
   gemini |-> GeminiStream, bedrock |-> BedrockStream, grok |-> GrokStream,
   openrouter |-> OpenRouterStream]
Wire == Streams[provider]
Reasons == {"stop", "length", "filter", "odd"}

\* fault: a stream counts as stopped from the beginning
InitialFinishStop == "stop"

InitialFinish == Wire.initial

NoReasoning == [text |-> <<>>, id |-> "", signature |-> 0, by |-> ""]
StreamsInit ==
  /\ provider \in DOMAIN Streams
  /\ reply = [blocks |-> <<>>, ended |-> "", reason |-> "", usage |-> 0]
  /\ fold = [calls |-> <<>>, refused |-> FALSE]
  /\ events = <<>>
  /\ taken = [text |-> <<>>, thinking |-> NoReasoning, calls |-> <<>>, finish |-> "",
              usage |-> 0, state |-> "reading"]

Blocks(kind) == {n \in DOMAIN reply.blocks : reply.blocks[n].kind = kind}
DeltasSent == FoldSeq(LAMBDA b, n : b.size + n, 0, reply.blocks)
Open == reply.ended = ""

(***************************************************************************)
(* Stream events.                                                          *)
(***************************************************************************)
TextDelta(at) == [type |-> "text", delta |-> <<at>>]
\* Bedrock names itself only beside a signature
Names(signature) == IF provider = "bedrock" /\ signature = 0 THEN "" ELSE provider
ThinkingDelta(delta, signature, id) ==
  [type |-> "thinking", delta |-> delta, signature |-> signature, id |-> id, by |-> Names(signature)]
CallStart(id) == [type |-> "start", call |-> id]
CallDelta(id, at) == [type |-> "args", call |-> id, delta |-> <<at>>]
Done(finish, usage) == [type |-> "done", finish |-> finish, usage |-> usage]
Error == [type |-> "error"]

Emits(sent) == Len(events) + Len(sent) <= Buffer /\ events' = events \o sent

\* the id reasoning goes under: the item's own, or the field it came in
ItemId(n) == CASE provider = "responses" -> <<"item", n>>
               [] provider = "openrouter" -> "reasoning" [] OTHER -> ""

\* fault: fragments go to the latest call
LatestCall(n) == fold.calls[CHOOSE m \in DOMAIN fold.calls : \A k \in DOMAIN fold.calls : k <= m]

CallOf(n) == fold.calls[n]

(***************************************************************************)
(* The server and the goroutine that reads it.                             *)
(***************************************************************************)
Grow(block) ==
  /\ Open /\ reply.reason = "" /\ Len(reply.blocks) < MaxBlocks
  /\ reply' = [reply EXCEPT !.blocks = Append(@, block)]
  /\ UNCHANGED <<provider, taken>>
Block(kind, id) == [kind |-> kind, id |-> id, size |-> 0, signed |-> FALSE, sound |-> TRUE]

\* a call is announced once per index; gateways may repeat an id
CallStarts(id) ==
  /\ Grow(Block("call", id))
  /\ fold' = [fold EXCEPT !.calls = [n \in DOMAIN @ \cup {Len(reply.blocks) + 1} |->
                                       IF n \in DOMAIN @ THEN @[n] ELSE id]]
  /\ Emits(<<CallStart(id)>>)

\* nothing is sent for the start of any other block; a chat reply has one of each,
\* and a refusal comes instead of content
BlockStarts(kind) ==
  /\ kind \in {"text"} \cup (Wire.kinds \ {"redacted"})
  /\ Wire.whole => Blocks(kind) = {}
  /\ kind \in {"text", "refusal"} =>
       Blocks(CHOOSE k \in {"text", "refusal"} : k # kind) = {}
  /\ Grow(Block(kind, "")) /\ UNCHANGED <<fold, events>>

\* encrypted reasoning arrives whole; Anthropic's stream does not read it
RedactedStarts ==
  /\ "redacted" \in Wire.kinds
  /\ Grow([Block("redacted", "") EXCEPT !.signed = TRUE])
  /\ IF provider = "bedrock"
     THEN Emits(<<ThinkingDelta(<<>>, Len(reply.blocks) + 1, "redacted")>>) ELSE UNCHANGED events
  /\ UNCHANGED fold

Extends(n) ==
  /\ Open /\ reply.reason = "" /\ DeltasSent < MaxDeltas
  /\ reply.blocks[n].kind # "redacted" /\ ~reply.blocks[n].signed
  /\ n = Len(reply.blocks) \/ (Wire.parallel /\ reply.blocks[n].kind = "call")
                           \/ Wire.whole
  /\ provider = "gemini" => reply.blocks[n].size = 0     \* parts arrive whole
  /\ reply' = [reply EXCEPT !.blocks[n].size = @ + 1]
  /\ LET at == <<n, reply.blocks[n].size + 1>>
     IN CASE reply.blocks[n].kind = "text" -> Emits(<<TextDelta(at)>>) /\ UNCHANGED fold
          [] reply.blocks[n].kind = "refusal" ->
               Emits(<<TextDelta(at)>>) /\ fold' = [fold EXCEPT !.refused = TRUE]
          [] reply.blocks[n].kind = "thinking" ->
               Emits(<<ThinkingDelta(<<at>>, 0, ItemId(n))>>) /\ UNCHANGED fold
          [] reply.blocks[n].kind = "call" -> Emits(<<CallDelta(CallOf(n), at)>>) /\ UNCHANGED fold
  /\ UNCHANGED <<provider, taken>>

\* the signature ends the block; a Responses item may have nothing else
Signs(n) ==
  /\ Open /\ reply.reason = "" /\ Wire.signs # "none"
  /\ reply.blocks[n].kind = "thinking" /\ ~reply.blocks[n].signed
  /\ Wire.signs = "item" \/ (n = Len(reply.blocks) /\ reply.blocks[n].size > 0)
  /\ reply' = [reply EXCEPT !.blocks[n].signed = TRUE]
  /\ Emits(<<ThinkingDelta(<<>>, n, ItemId(n))>>)
  /\ UNCHANGED <<provider, fold, taken>>

\* a reply that stops early may leave the arguments of its calls unfinished
Unfinished(early) ==
  {[n \in DOMAIN reply.blocks |-> [reply.blocks[n] EXCEPT !.sound = n \notin broken]] :
     broken \in SUBSET (IF early THEN {n \in Blocks("call") : reply.blocks[n].size > 0} ELSE {})}

Finishes(reason) ==
  /\ Open /\ reply.reason = ""
  /\ \E blocks \in Unfinished(reason = "length") :
       reply' = [reply EXCEPT !.reason = IF reason = "stop" /\ Blocks("call") # {} THEN "tools" ELSE reason,
                              !.usage = IF Wire.apart THEN 0 ELSE 1, !.blocks = blocks]
  /\ IF provider = "responses" /\ reason # "stop" THEN Emits(<<Error>>) ELSE UNCHANGED events
  /\ UNCHANGED <<provider, fold, taken>>

\* usage in a chunk of its own after the last choice
Accounts ==
  /\ Open /\ reply.reason # "" /\ reply.usage = 0
  /\ reply' = [reply EXCEPT !.usage = 1] /\ UNCHANGED <<provider, fold, events, taken>>

\* the provider's finish reasons normalised; "odd" is one the code does not know
convertFinishReason(raw) == IF raw = "odd" THEN "unknown" ELSE raw

FinishOf ==
  IF fold.refused THEN "filter"
  ELSE IF reply.reason = "" THEN InitialFinish ELSE convertFinishReason(reply.reason)

\* the body ends where it should, or early but cleanly
StreamEnds ==
  /\ Open
  /\ \E blocks \in Unfinished(reply.reason = "") :
       reply' = [reply EXCEPT !.ended = IF reply.usage = 1 THEN "whole" ELSE "short", !.blocks = blocks]
  /\ Emits(<<Done(FinishOf, reply.usage)>>) /\ UNCHANGED <<provider, fold, taken>>

\* the connection breaks, or an error object arrives in band
StreamBreaks ==
  /\ Open /\ reply' = [reply EXCEPT !.ended = "broken"]
  /\ Emits(<<Error>>) /\ UNCHANGED <<provider, fold, taken>>

(***************************************************************************)
(* consumeStream.                                                          *)
(***************************************************************************)
CallIds == {taken.calls[i].id : i \in DOMAIN taken.calls}
Latest(new, old, none) == IF new = none THEN old ELSE new
Takes(event) ==
  CASE event.type = "text" -> [taken EXCEPT !.text = @ \o event.delta]
    [] event.type = "thinking" ->
         [taken EXCEPT !.thinking = [text |-> @.text \o event.delta, id |-> Latest(event.id, @.id, ""),
                                     signature |-> Latest(event.signature, @.signature, 0),
                                     by |-> Latest(event.by, @.by, "")]]
    [] event.type = "start" /\ event.call \in CallIds -> [taken EXCEPT !.state = "error"]
    [] event.type = "start" ->
         [taken EXCEPT !.calls = Append(@, [id |-> event.call, args |-> <<>>])]
    [] event.type = "args" ->
         [taken EXCEPT !.calls = [i \in DOMAIN @ |-> IF @[i].id = event.call
                                  THEN [@[i] EXCEPT !.args = @ \o event.delta] ELSE @[i]]]
    [] event.type = "done" -> [taken EXCEPT !.finish = event.finish, !.usage = event.usage]
    [] event.type = "error" -> [taken EXCEPT !.state = "error"]

Consume ==
  /\ taken.state = "reading" /\ events # <<>>
  /\ events' = Tail(events) /\ taken' = Takes(Head(events))
  /\ UNCHANGED <<provider, reply, fold>>

\* the channel is closed and empty: the arguments are decoded, and reasoning
\* without text is left out
Decodes == \A n \in Blocks("call") : reply.blocks[n].sound
Gather ==
  /\ taken.state = "reading" /\ events = <<>> /\ ~Open
  /\ taken' = [taken EXCEPT !.state = IF Decodes THEN "message" ELSE "error",
                            !.thinking = IF @.text = <<>> THEN NoReasoning ELSE @]
  /\ UNCHANGED <<provider, reply, fold, events>>

StreamsNext ==
  \/ \E id \in {"c", "d"} : CallStarts(id)
  \/ \E kind \in {"text", "refusal", "thinking"} : BlockStarts(kind)
  \/ RedactedStarts
  \/ \E n \in DOMAIN reply.blocks : Extends(n) \/ Signs(n)
  \/ \E reason \in Reasons : Finishes(reason)
  \/ Accounts \/ StreamEnds \/ StreamBreaks \/ Consume \/ Gather
StreamsSpec == StreamsInit /\ [][StreamsNext]_streamVars

(***************************************************************************)
(* The reply through convertResponse, in parts as the code appends them.   *)
(***************************************************************************)
Deltas(n) == [i \in 1..reply.blocks[n].size |-> <<n, i>>]
Concat(kinds) ==
  FoldLeft(LAMBDA text, n : IF reply.blocks[n].kind \in kinds THEN text \o Deltas(n) ELSE text,
           <<>>, [n \in DOMAIN reply.blocks |-> n])
Signature(n) == IF reply.blocks[n].signed THEN n ELSE 0

convertThinking(n) ==
  [text |-> Deltas(n), signature |-> Signature(n), by |-> Names(Signature(n)),
   id |-> IF reply.blocks[n].kind = "redacted" THEN "redacted" ELSE ItemId(n)]
ConvertedThinking == {convertThinking(n) : n \in Blocks("thinking") \cup Blocks("redacted")}
ConvertedText == Concat({"text", "refusal"})
ConvertedCalls ==
  LET calls == SetToSortSeq(Blocks("call"), <)
  IN [i \in DOMAIN calls |-> [id |-> reply.blocks[calls[i]].id, args |-> Deltas(calls[i])]]

convertFinish ==
  IF Blocks("refusal") # {} /\ \E n \in Blocks("refusal") : reply.blocks[n].size > 0 THEN "filter"
  ELSE convertFinishReason(reply.reason)

(***************************************************************************)
(* Properties.                                                             *)
(***************************************************************************)
Accepted == taken.state = "message"

\* A reply that came whole reads the same streamed as not: the text, the calls
\* with their own arguments however the deltas of parallel calls interleave, the
\* reason it ended, the usage and the reasoning's text; a refusal is not a clean
\* stop; and a turn with one reasoning block keeps the id, the signature and the
\* provider it needs to be sent back (RequestStream and convertResponse of each
\* provider, consumeStream). A whole reply is refused only for what Request lets
\* pass: arguments that do not decode, an id used twice, a Responses reply that
\* did not complete.
StreamedIsTheResponse ==
  reply.ended = "whole" =>
    /\ Accepted =>
         /\ taken.text = ConvertedText /\ taken.calls = ConvertedCalls
         /\ taken.finish = convertFinish /\ taken.usage = reply.usage
         /\ taken.thinking.text = Concat({"thinking"})
         /\ Cardinality(ConvertedThinking) = 1 /\ taken.thinking.text # <<>> =>
              ConvertedThinking = {taken.thinking}
    /\ taken.state = "error" =>
         \/ ~Decodes \/ (provider = "responses" /\ reply.reason \notin {"stop", "tools"})
         \/ Cardinality({reply.blocks[n].id : n \in Blocks("call")}) < Cardinality(Blocks("call"))

\* A reply that broke off is no answer: a broken connection or an error in band
\* fails the request whatever was streamed before, and a body that ends early
\* does not read as a clean stop. The two OpenAI streams start from "stop" and are
\* left out (openai.go:164, responses.go:132).
BrokenOffIsNoAnswer ==
  Accepted => /\ reply.ended # "broken"
              /\ reply.reason = "" /\ provider \notin {"openai", "responses"} => taken.finish # "stop"

\* "Emit it as a terminal event on the block so a streamed reasoning turn can be
\* replayed" (responses.go:168): what signs a reply's reasoning reaches the message.
ReasoningCanBeReplayed ==
  Accepted /\ reply.ended = "whole" /\ provider = "responses" =>
    {block.signature : block \in {b \in ConvertedThinking : b.signature # 0}}
      \subseteq {taken.thinking.signature}
=============================================================================

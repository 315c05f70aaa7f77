---------------------------- MODULE ProviderRequests ----------------------------
(***************************************************************************)
(* What a conversation becomes on the wire of the model that is asked next *)
(* (buildParams and convertMessage of the providers). A conversation may   *)
(* change models between turns: the transcript then holds reasoning that   *)
(* only its issuer accepts back, while calls and results have to reach     *)
(* every one of them.                                                      *)
(*                                                                         *)
(*   transcript  messages [role, by, parts]; parts are thinking, text, use *)
(*               and result. A signature is the number of the message it   *)
(*               was issued with, 0 for none                               *)
(*   settings    what the caller asks of the model: its family, thinking,  *)
(*               budget, max (0 for unset), temperature, choice of tools   *)
(***************************************************************************)
EXTENDS Naturals, Sequences, FiniteSets, SequencesExt

CONSTANTS
  MaxMessages,  \* bound on the transcript
  MaxTokens     \* bound on the token counts of a request

VARIABLES transcript, settings
requestVars == <<transcript, settings>>

Chat == {"openai", "grok", "openrouter"}
Providers == Chat \cup {"responses", "anthropic", "gemini", "bedrock"}

(***************************************************************************)
(* The parts of a message.                                                 *)
(***************************************************************************)
Part(kind, by, id, signature) == [kind |-> kind, by |-> by, id |-> id, signature |-> signature]
Text == Part("text", "", "", 0)
Use(call) == Part("use", "", call, 0)
Result(call) == Part("result", "", call, 0)
Thinking(by, id, signature) == Part("thinking", by, id, signature)

\* the reasoning a provider's conversion puts into message n: grok and openrouter
\* have none that is signed, Bedrock leaves what is not signed unnamed, a Responses
\* item has its encrypted content on the first of its summaries
Reasonings(p, n) ==
  CASE p = "openai" -> {<<>>}
    [] p \in {"grok", "openrouter"} -> {<<>>, <<Thinking(p, "", 0)>>}
    [] p = "responses" -> {<<>>, <<Thinking(p, "item", n)>>,
                           <<Thinking(p, "item", n), Thinking(p, "item", 0)>>}
    [] p = "anthropic" -> {<<>>, <<Thinking(p, "", n)>>, <<Thinking(p, "redacted", n)>>}
    [] p = "bedrock" -> {<<>>, <<Thinking(p, "", n)>>, <<Thinking(p, "redacted", n)>>,
                         <<Thinking("", "", 0)>>}
    [] p = "gemini" -> {<<>>, <<Thinking(p, "", n)>>, <<Thinking(p, "", 0)>>}
Answers == {<<Text>>, <<Use("c")>>, <<Text, Use("c"), Use("d")>>}

Ids(n, kind) == {part.id : part \in {q \in Range(transcript[n].parts) : q.kind = kind}}
LastTurn ==
  CHOOSE n \in 0..Len(transcript) :
    /\ n = 0 \/ transcript[n].role = "assistant"
    /\ \A m \in n+1..Len(transcript) : transcript[m].role # "assistant"
Unanswered ==
  IF LastTurn = 0 THEN {}
  ELSE Ids(LastTurn, "use") \ UNION {Ids(m, "result") : m \in LastTurn+1..Len(transcript)}

(***************************************************************************)
(* Settings.                                                               *)
(***************************************************************************)
Families == [anthropic |-> {"budget", "adaptive"}, openai |-> {"always", "optIn", "plain"},
             responses |-> {"always", "optIn", "plain"}, gemini |-> {"plain"}, bedrock |-> {"plain"},
             grok |-> {"grok-4.3", "grok-4.5", "grok-3-mini", "plain"}, openrouter |-> {"plain"}]
Asks ==
  UNION {[provider : {p}, family : Families[p], thinking : {"unset", "off", "on"},
          budget : 0..MaxTokens, max : 0..MaxTokens, temperature : BOOLEAN,
          choice : {"auto", "required"}] : p \in Providers}
Plain == [provider |-> "openai", family |-> "plain", thinking |-> "unset", budget |-> 0, max |-> 0,
          temperature |-> FALSE, choice |-> "auto"]

RequestsInit ==
  /\ transcript = <<[role |-> "user", by |-> "", parts |-> <<Text>>]>>
  /\ settings \in Asks

Add(role, by, parts) ==
  /\ settings = Plain      \* settings and transcript do not meet: one varies at a time
  /\ Len(transcript) < MaxMessages
  /\ transcript' = Append(transcript, [role |-> role, by |-> by, parts |-> parts])
  /\ UNCHANGED settings

\* any provider may be asked next
Answer(p) ==
  /\ transcript[Len(transcript)].role # "assistant" /\ Unanswered = {}
  /\ \E reasoning \in Reasonings(p, Len(transcript) + 1), answer \in Answers :
       Add("assistant", p, reasoning \o answer)

\* a message per result is what a run writes; a history may hold several in one
ToolsAnswer ==
  \E calls \in SUBSET Unanswered \ {{}} :
    Add("tool", "", [i \in 1..Cardinality(calls) |-> Result(SetToSeq(calls)[i])])

UserSpeaks ==
  /\ transcript[Len(transcript)].role = "assistant" /\ Unanswered = {}
  /\ Add("user", "", <<Text>>)

RequestsNext == (\E p \in Providers : Answer(p)) \/ ToolsAnswer \/ UserSpeaks
RequestsSpec == RequestsInit /\ [][RequestsNext]_requestVars

(***************************************************************************)
(* Messages on the wire: blocks [kind, key, signature].                    *)
(***************************************************************************)
Block(kind, key, signature) == [kind |-> kind, key |-> key, signature |-> signature]
IsRedacted(part) == part.id = "redacted"
Of(parts, kind) == SelectSeq(parts, LAMBDA part : part.kind = kind)

\* fault: only the first result is sent
convertChatFirst(parts) ==
  [i \in DOMAIN Of(parts, "text") |-> Block("text", "", 0)]
  \o [i \in DOMAIN Of(parts, "use") |-> Block("call", Of(parts, "use")[i].id, 0)]
  \o [i \in 1..(IF Of(parts, "result") = <<>> THEN 0 ELSE 1) |-> Block("result", Of(parts, "result")[i].id, 0)]

\* calls gather behind the text, reasoning has no place
convertChat(parts) ==
  [i \in DOMAIN Of(parts, "text") |-> Block("text", "", 0)]
  \o [i \in DOMAIN Of(parts, "use") |-> Block("call", Of(parts, "use")[i].id, 0)]
  \o [i \in DOMAIN Of(parts, "result") |-> Block("result", Of(parts, "result")[i].id, 0)]

\* grok and openrouter send the first result of a message
convertFirstResult(parts) ==
  IF Of(parts, "result") = <<>> THEN convertChat(parts)
  ELSE <<Block("result", Of(parts, "result")[1].id, 0)>>

Plainly(part) ==
  CASE part.kind = "text" -> <<Block("text", "", 0)>>
    [] part.kind = "use" -> <<Block("call", part.id, 0)>>
    [] part.kind = "result" -> <<Block("result", part.id, 0)>>

\* fault: any signature is sent anywhere
ReplayableAnywhere(part, p) == part.signature # 0

\* reasoning that is foreign or not signed is sent as the text it is
Replayable(part, p) == part.by = p /\ part.signature # 0

convertSigned(parts, p) ==
  FoldLeft(LAMBDA blocks, part :
             IF part.kind # "thinking" THEN blocks \o Plainly(part)
             ELSE IF Replayable(part, p)
                  THEN Append(blocks, Block(IF IsRedacted(part) THEN "redacted" ELSE "reasoning",
                                            "", part.signature))
             ELSE IF IsRedacted(part) THEN blocks ELSE Append(blocks, Block("text", "", 0)),
           <<>>, parts)

\* a signature goes with the part that follows; the first call has to have one;
\* reasoning that is foreign or not signed stays a thought
convertGemini(parts) ==
  LET Attach(made, block) ==
        [made EXCEPT !.blocks = Append(@, [block EXCEPT !.signature = made.pending]), !.pending = 0]
      Step(made, part) ==
        CASE part.kind = "thinking" /\ Replayable(part, "gemini") ->
               [made EXCEPT !.pending = part.signature]
          [] part.kind = "thinking" /\ ~Replayable(part, "gemini") ->
               IF IsRedacted(part) THEN made ELSE Attach(made, Block("thought", "", 0))
          [] part.kind = "use" ->
               [Attach(made, Block(IF made.pending = 0 /\ made.first THEN "skipped" ELSE "call", part.id, 0))
                  EXCEPT !.first = FALSE]
          [] OTHER -> Attach(made, Plainly(part)[1])
  IN FoldLeft(Step, [blocks |-> <<>>, pending |-> 0, first |-> TRUE], parts).blocks

\* the summaries of one item are joined, whatever stands between them
convertResponses(parts) ==
  LET Joined(blocks, part) ==
        {i \in DOMAIN blocks : blocks[i].kind = "reasoning" /\ blocks[i].key = part.id /\ part.id # ""}
      Step(blocks, part) ==
        IF part.kind # "thinking" THEN blocks \o Plainly(part)
        ELSE IF part.by \notin {"", "responses"} THEN blocks
        ELSE IF Joined(blocks, part) = {} THEN Append(blocks, Block("reasoning", part.id, part.signature))
        ELSE [i \in DOMAIN blocks |->
                IF i \in Joined(blocks, part) /\ blocks[i].signature = 0
                THEN [blocks[i] EXCEPT !.signature = part.signature] ELSE blocks[i]]
  IN FoldLeft(Step, <<>>, parts)

convert(parts, p) ==
  CASE p = "openai" -> convertChat(parts)
    [] p \in {"grok", "openrouter"} -> convertFirstResult(parts)
    [] p = "responses" -> convertResponses(parts)
    [] p \in {"anthropic", "bedrock"} -> convertSigned(parts, p)
    [] p = "gemini" -> convertGemini(parts)
Wire(p) == [n \in DOMAIN transcript |-> convert(transcript[n].parts, p)]

(***************************************************************************)
(* Parameters of the request: max, the thinking budget (0 for none), the   *)
(* sampling temperature, the reasoning effort and the choice of tools.     *)
(***************************************************************************)
defaultMaxTokens == 1
defaultThinkingBudget == 2
thinkingAnswerHeadroom == 1
Thinks(s) == s.thinking = "on"
Given(s) == IF s.temperature THEN "given" ELSE "unset"

\* a forced choice of tools is refused beside thinking
convertToolChoice(s) == IF s.choice = "required" /\ Thinks(s) THEN "auto" ELSE s.choice

\* fault: a limit equal to the budget is kept
RaisedBelow(max, budget) == IF max < budget THEN budget + thinkingAnswerHeadroom ELSE max

Raised(max, budget) == IF max <= budget THEN budget + thinkingAnswerHeadroom ELSE max

anthropicParams(s) ==
  LET budget == IF s.budget = 0 THEN defaultThinkingBudget ELSE s.budget
      max == IF s.max = 0 THEN defaultMaxTokens ELSE s.max
      adaptive == Thinks(s) /\ s.family = "adaptive"
      budgeted == Thinks(s) /\ ~adaptive
  IN [max |-> IF budgeted THEN Raised(max, budget) ELSE max,
      budget |-> IF budgeted THEN budget ELSE 0,
      temperature |-> IF budgeted THEN "one" ELSE IF adaptive THEN "unset" ELSE Given(s),
      effort |-> "", choice |-> convertToolChoice(s)]

\* thresholds of the budget are 5000 and 20000 tokens in the code
Effort(s) == IF s.budget = MaxTokens THEN "high" ELSE IF s.budget = 1 THEN "low" ELSE "medium"
supportsSamplingParams(s) ==
  CASE s.family = "plain" -> TRUE [] s.family = "always" -> FALSE [] s.family = "optIn" -> ~Thinks(s)
openaiParams(s) ==
  [max |-> s.max, budget |-> 0, temperature |-> IF supportsSamplingParams(s) THEN Given(s) ELSE "unset",
   effort |-> IF Thinks(s) THEN Effort(s) ELSE "", choice |-> s.choice]

reasoningEfforts(family) ==
  CASE family = "grok-4.3" -> {"none", "low", "medium", "high"}
    [] family = "grok-4.5" -> {"low", "medium", "high"}
    [] family = "grok-3-mini" -> {"low", "high"}
    [] OTHER -> {}
clampReasoningEffort(family, effort) ==
  LET supported == reasoningEfforts(family)
      nearest == IF effort \in {"minimal", "low"} THEN "low"
                 ELSE IF effort \in {"medium", "high"} THEN "high" ELSE ""
  IN IF effort \in supported THEN effort ELSE IF nearest \in supported THEN nearest ELSE ""
grokParams(s) ==
  [max |-> s.max, budget |-> 0, temperature |-> Given(s), choice |-> s.choice,
   effort |-> IF s.thinking = "unset" THEN ""
              ELSE clampReasoningEffort(s.family, IF s.thinking = "off" THEN "none" ELSE Effort(s))]

\* a budget without regard to max; its effort is "medium" when there is none
openrouterParams(s) ==
  [max |-> s.max, budget |-> IF Thinks(s) THEN s.budget ELSE 0, temperature |-> Given(s),
   effort |-> IF Thinks(s) /\ s.budget = 0 THEN "medium" ELSE "", choice |-> s.choice]
bedrockParams(s) ==
  [max |-> s.max, budget |-> IF Thinks(s) THEN s.budget ELSE 0, temperature |-> Given(s),
   effort |-> "", choice |-> convertToolChoice(s)]
geminiParams(s) ==
  [max |-> s.max, budget |-> IF Thinks(s) THEN s.budget ELSE 0, temperature |-> Given(s),
   effort |-> IF s.thinking = "off" THEN "none" ELSE "", choice |-> s.choice]

buildParams(s) ==
  CASE s.provider = "anthropic" -> anthropicParams(s)
    [] s.provider \in {"openai", "responses"} -> openaiParams(s)
    [] s.provider = "grok" -> grokParams(s)
    [] s.provider = "openrouter" -> openrouterParams(s)
    [] s.provider = "bedrock" -> bedrockParams(s)
    [] s.provider = "gemini" -> geminiParams(s)

(***************************************************************************)
(* Properties.                                                             *)
(***************************************************************************)
Signing == {"responses", "anthropic", "gemini", "bedrock"}
At(wire, n, signature) == {i \in DOMAIN wire[n] : wire[n][i].signature = signature}
Signed(n) == \E part \in Range(transcript[n].parts) : part.signature = n

\* A conversation may change models and come back: no signature goes to a provider
\* that did not issue it, and every one goes back to its issuer, once and ahead of
\* the calls it led to. (anthropic.go, bedrock.go, gemini.go convertMessage;
\* responses.go convertAssistantItems)
SignaturesGoHome ==
  \A p \in Providers : LET wire == Wire(p) IN
    \A n \in DOMAIN transcript :
      /\ \A i \in DOMAIN wire[n] :
           wire[n][i].signature # 0 => wire[n][i].signature = n /\ transcript[n].by = p
      /\ p \in Signing /\ transcript[n].by = p /\ Signed(n) =>
           /\ Cardinality(At(wire, n, n)) = 1
           /\ \A i \in At(wire, n, n), j \in DOMAIN wire[n] :
                wire[n][j].kind \in {"call", "skipped"} => i <= j

\* The text of reasoning goes further than its signature. As reasoning, Anthropic
\* and Bedrock are sent their own signed blocks only, and what else is readable as
\* text; Responses is sent its own, and what names no provider, unsigned
\* (responses.go:427); the chat providers are sent none. Gemini is sent all that is
\* not its own and signed as thoughts (gemini.go:408), and no other provider is
\* sent a thought.
ReasoningIsReceivable ==
  \A p \in Providers : LET wire == Wire(p) IN
    \A n \in DOMAIN transcript :
      LET thinking == Of(transcript[n].parts, "thinking")
          Sent(kinds) == {i \in DOMAIN wire[n] : wire[n][i].kind \in kinds}
          kept == {i \in DOMAIN thinking : thinking[i].by = p /\ thinking[i].signature # 0}
          readable == {i \in DOMAIN thinking : i \notin kept /\ thinking[i].id # "redacted"}
          texts == Cardinality({i \in DOMAIN transcript[n].parts : transcript[n].parts[i].kind = "text"})
      IN /\ p \in Chat => Sent({"reasoning", "redacted", "thought"}) = {}
         /\ p \in {"anthropic", "bedrock"} =>
              /\ Cardinality(Sent({"reasoning", "redacted"})) = Cardinality(kept)
              /\ \A i \in Sent({"reasoning", "redacted"}) : wire[n][i].signature # 0
              /\ Cardinality(Sent({"text"})) = texts + Cardinality(readable)
         /\ p = "responses" =>
              \A i \in Sent({"reasoning"}) :
                transcript[n].by = p \/ (wire[n][i].signature = 0 /\ \E k \in readable : thinking[k].by = "")
         /\ p = "gemini" => Cardinality(Sent({"thought"})) = Cardinality(readable)
         /\ p # "gemini" => Sent({"thought"}) = {}

\* "Only replay reasoning this provider issued" (responses.go:425): what names no
\* provider is replayed as well.
ReasoningGoesHome ==
  \A n \in DOMAIN transcript :
    transcript[n].by # "responses" => \A i \in DOMAIN Wire("responses")[n] :
                                        Wire("responses")[n][i].kind # "reasoning"

\* Whoever is asked sees the calls of every turn, in their order, and one result
\* for each before the next turn, keyed by the call it answers (convertMessages,
\* convertMessage, convertInputItems); but grok and openrouter send the first
\* result of a message and none of the others. A run writes one per message.
FirstOnly == {"grok", "openrouter"}
CallsAreAnswered ==
  \A p \in Providers : LET wire == Wire(p)
                           Keys(n, kinds) == SelectSeq(wire[n], LAMBDA block : block.kind \in kinds)
    IN /\ \A n \in DOMAIN transcript :
            LET calls == Keys(n, {"call", "skipped"}) IN
              /\ [i \in DOMAIN calls |-> calls[i].key] =
                   [i \in DOMAIN Of(transcript[n].parts, "use") |-> Of(transcript[n].parts, "use")[i].id]
       /\ Unanswered = {} =>
            \A n \in DOMAIN transcript, call \in {"c", "d"} :
              transcript[n].role = "assistant" =>
                LET ends == {m \in n+1..Len(transcript) : transcript[m].role = "assistant"}
                    upto == {m \in n+1..Len(transcript) : \A e \in ends : m < e}
                    results == {<<m, i>> \in upto \X (1..2) :
                                  i \in DOMAIN wire[m] /\ wire[m][i] = Block("result", call, 0)}
                    behind == p \in FirstOnly /\ \E m \in upto :
                                call \in Ids(m, "result") /\ Of(transcript[m].parts, "result")[1].id # call
                IN Cardinality(results) = IF call \in Ids(n, "use") /\ ~behind THEN 1 ELSE 0

\* The constraints each provider's conversion takes upon itself: Anthropic's
\* ceiling exceeds the thinking budget and is never lowered, its sampling is what
\* thinking leaves room for; a choice of tools is not forced while Anthropic or
\* Bedrock thinks; an OpenAI model of a reasoning family gets no sampling while it
\* reasons; grok gets an effort its family knows, at least what was asked, and
\* "none" where reasoning can be turned off (buildParams, clampReasoningEffort).
\* Bedrock, Gemini and OpenRouter are sent a budget as it is, whatever the limit,
\* so nothing is said of those.
RequestIsAcceptable ==
  LET s == settings
      sent == buildParams(settings)
      Rank(effort) == CASE effort = "none" -> 0 [] effort = "low" -> 1
                        [] effort = "medium" -> 2 [] effort = "high" -> 3
  IN /\ s.provider = "anthropic" =>
          /\ sent.budget > 0 => sent.max > sent.budget /\ sent.temperature = "one"
          /\ sent.max >= s.max /\ (~Thinks(s) => sent.max = s.max \/ s.max = 0)
          /\ Thinks(s) => sent.temperature # "given" /\ (sent.budget > 0 <=> s.family = "budget")
     /\ s.provider \in {"anthropic", "bedrock"} /\ Thinks(s) => sent.choice = "auto"
     /\ s.provider \in {"openai", "responses"} /\ sent.effort # "" /\ s.family # "plain" => sent.temperature = "unset"
     /\ s.provider = "grok" =>
          /\ sent.effort # "" => sent.effort \in reasoningEfforts(s.family)
          /\ Thinks(s) /\ s.family # "plain" => sent.effort # "" /\ Rank(sent.effort) >= Rank(Effort(s))
          /\ s.thinking = "off" => sent.effort = IF s.family = "grok-4.3" THEN "none" ELSE ""
     /\ ~Thinks(s) => sent.choice = s.choice /\ sent.budget = 0
=============================================================================

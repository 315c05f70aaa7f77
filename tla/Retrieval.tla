-------------------------------- MODULE Retrieval --------------------------------
(***************************************************************************)
(* One call of a retrieval model (internal/retrieval): the request is      *)
(* validated, encoded in chunks, groups or one text at a time, and what    *)
(* the service returned is decoded, merged and validated. The service may  *)
(* be redeployed between two replies, reply out of shape, or fail, and the *)
(* caller may give up. Rerankers follow at the end.                        *)
(*                                                                         *)
(*   config   the encoder and how it was built                             *)
(*   service  the deployment answering now                                 *)
(*   call     the call: where it is, its request, what it has merged       *)
(*   fan      the goroutine of each text, when one call takes one text     *)
(*   ranking  a reranker's answer                                          *)
(***************************************************************************)
EXTENDS Integers, Sequences, FiniteSets, SequencesExt

CONSTANT
  MaxInputs    \* bound on the texts of a request

VARIABLES config, service, cancelled, call, fan, ranking
retrievalVars == <<config, service, cancelled, call, fan, ranking>>

Kinds == {"dense", "sparse"}     \* multi-vector is checked as dense is, row by row
Space(dims, revision) == [dims |-> dims, revision |-> revision]

(***************************************************************************)
(* The encoders and what each declares.                                    *)
(***************************************************************************)
Capabilities(encoder) ==
  CASE encoder = "handler" ->     \* of an endpoint or of SageMaker
         [outputs |-> Kinds, types |-> {"", "query"}, truncation |-> TRUE, multi |-> TRUE]
    [] encoder = "deepinfra" ->
         [outputs |-> Kinds, types |-> {"", "query"}, truncation |-> FALSE, multi |-> TRUE]
    [] encoder = "pinecone" ->
         [outputs |-> {"sparse"}, types |-> {"", "query"}, truncation |-> TRUE, multi |-> FALSE]
    [] encoder = "huggingface" ->     \* built with no prompt names
         [outputs |-> {"dense"}, types |-> {""}, truncation |-> TRUE, multi |-> FALSE]
    [] encoder = "onnx" ->
         [outputs |-> {"sparse"}, types |-> {"", "query"}, truncation |-> FALSE, multi |-> FALSE]
    [] encoder \in {"adapter", "titan"} ->
         [outputs |-> {"dense"}, types |-> {"", "query"}, truncation |-> encoder = "adapter",
          multi |-> FALSE]
    [] encoder \in {"openai", "voyage", "cohere"} ->
         [outputs |-> {"dense"}, types |-> {"", "query"}, truncation |-> encoder # "openai",
          multi |-> FALSE]

\* embedders answer vectors alone: nothing describes or validates them
Embedders == {"titan", "openai", "voyage", "cohere"}

\* a handler may report its spaces, and the caller may pin them
Configs ==
  [encoder : {"handler"}, size : 0..MaxInputs, reports : BOOLEAN, pinned : BOOLEAN]
  \cup [encoder : {"deepinfra", "huggingface", "pinecone"}, size : 0..MaxInputs, reports : {FALSE},
        pinned : {FALSE}]
  \cup [encoder : {"onnx", "adapter", "titan"}, size : 1..MaxInputs, reports : {FALSE}, pinned : {FALSE}]
  \cup [encoder : {"openai", "voyage", "cohere"}, size : {1}, reports : {FALSE}, pinned : {FALSE}]

Pinned == [kind \in IF config.pinned THEN Kinds ELSE {} |-> Space(1, "r1")]

\* r2 has other weights at the same width, r3 is wider as well
Deployments == {Space(1, "r1"), Space(1, "r2"), Space(2, "r3")}

(***************************************************************************)
(* Requests.                                                               *)
(***************************************************************************)
Texts == {"", "text", "huge"}     \* "huge" is over a limit in bytes
Requests ==
  [texts : 0..MaxInputs, worst : Texts,     \* worst: the text that validates least
   outputs : UNION {[1..n -> Kinds] : n \in 0..2},
   type : {"", "query"}, truncate : {"default", "yes"}]

Wanted(request) == ToSet(request.outputs)

validateRequestShape(request) ==
  /\ request.texts > 0
  /\ request.worst # ""
  /\ request.outputs # <<>>
  /\ IsInjective(request.outputs)

validateRequestSize(request) == request.worst # "huge"

ValidateRequest(encoder, request) ==
  LET caps == Capabilities(encoder) IN
  /\ validateRequestShape(request)
  /\ request.type \in caps.types
  /\ Wanted(request) \subseteq caps.outputs
  /\ Len(request.outputs) > 1 => caps.multi
  /\ request.truncate # "default" => caps.truncation
  /\ validateRequestSize(request)

(***************************************************************************)
(* What the service sends for the texts at `texts`, in shape or out of it. *)
(***************************************************************************)
Shapes == {"whole", "short", "partial", "unasked", "unsound", "ragged"}

Vector(text, shape, last) ==
  [of |-> text, weights |-> service.revision, sound |-> ~(last /\ shape = "unsound"),
   width |-> IF last /\ shape = "ragged" THEN service.dims + 1 ELSE service.dims]

Sent(texts, wanted, shape) ==
  LET n == Len(texts)
      Has(k) == CASE shape = "unasked" -> Kinds
                  [] shape = "partial" /\ k = n -> wanted \ {CHOOSE kind \in wanted : TRUE}
                  [] OTHER -> wanted
  IN [k \in 1..(IF shape = "short" THEN n - 1 ELSE n) |->
        [kind \in Has(k) |-> Vector(texts[k], shape, k = n)]]

Reported(wanted, shape) ==
  [kind \in IF ~config.reports THEN {} ELSE IF shape = "unasked" THEN Kinds ELSE wanted |-> service]

(***************************************************************************)
(* Decoding a reply: Malformed, or data with spaces.                       *)
(***************************************************************************)
Malformed == [data |-> <<>>, spaces |-> <<>>, ok |-> FALSE]
Decoded(data, spaces) == [data |-> data, spaces |-> spaces, ok |-> TRUE]

\* a reported space must be the pinned one, and a pinned one stands in for none
decodeSpaces(items, wanted, reported) ==
  IF \E kind \in DOMAIN reported \cap DOMAIN Pinned : reported[kind] # Pinned[kind] THEN Malformed
  ELSE Decoded(items, [kind \in DOMAIN reported \cup (DOMAIN Pinned \cap wanted) |->
                         IF kind \in DOMAIN reported THEN reported[kind] ELSE Pinned[kind]])

FirstWidth(items, kind) == IF items # <<>> /\ kind \in DOMAIN items[1] THEN items[1][kind].width ELSE 0

\* deepinfra takes the kinds it wants, one row for each text and each of them
buildResponse(texts, items, wanted) ==
  IF Len(items) # Len(texts) \/ \E k \in DOMAIN items : ~(wanted \subseteq DOMAIN items[k]) THEN Malformed
  ELSE IF \E k \in DOMAIN items : "sparse" \in wanted /\ items[k]["sparse"].width # FirstWidth(items, "sparse")
    THEN Malformed
  ELSE Decoded([k \in DOMAIN items |-> [kind \in wanted |-> items[k][kind]]],
               [kind \in wanted |-> Space(FirstWidth(items, kind), "")])

\* pinecone and the router return one kind; pinecone verifies which
oneKind(texts, items, wanted) ==
  IF Len(items) # Len(texts) \/ \E k \in DOMAIN items : ~(DOMAIN items[k] \subseteq wanted) THEN Malformed
  ELSE Decoded(items, [kind \in wanted |->
         Space(IF config.encoder = "pinecone" THEN 2 ELSE FirstWidth(items, kind), "")])

encodeChunk(texts, wanted, shape) ==
  LET items == Sent(texts, wanted, shape) IN
  CASE config.encoder = "handler" -> decodeSpaces(items, wanted, Reported(wanted, shape))
    [] config.encoder = "deepinfra" -> buildResponse(texts, items, wanted)
    [] config.encoder \in {"pinecone", "huggingface"} -> oneKind(texts, items, wanted)

(***************************************************************************)
(* Validating the answer.                                                  *)
(***************************************************************************)
\* a sparse vector is told from its space by its coordinates, which must be below it
Fits(kind, vector, space) ==
  vector.sound /\ IF kind = "dense" THEN vector.width = space.dims ELSE vector.width <= space.dims

validateItem(item, wanted, spaces) ==
  DOMAIN item = wanted /\ \A kind \in wanted : Fits(kind, item[kind], spaces[kind])

ValidateResponse(texts, wanted, data, spaces) ==
  /\ Len(data) = texts
  /\ DOMAIN spaces = wanted
  /\ \A kind \in DOMAIN spaces : spaces[kind].dims > 0
  /\ \A i \in DOMAIN data : validateItem(data[i], wanted, spaces)

(***************************************************************************)
(* The call.                                                               *)
(***************************************************************************)
\* texts and wanted are what remains to know of a valid request
NoCall == [pc |-> "idle", texts |-> 0, wanted |-> {}, todo |-> <<>>, data |-> <<>>, spaces |-> <<>>,
           result |-> "none"]
NoFan == <<>>
NoRanking == [by |-> "", topN |-> 0, results |-> <<>>]

RetrievalInit ==
  /\ config \in Configs
  /\ service = Space(1, "r1") /\ cancelled = FALSE
  /\ call = NoCall /\ fan = NoFan /\ ranking = NoRanking

Fails == call' = [NoCall EXCEPT !.pc = "returned", !.result = "error"]

Answers(data, spaces) ==
  IF ValidateResponse(call.texts, call.wanted, data, spaces)
  THEN call' = [call EXCEPT !.pc = "returned", !.result = "answer", !.data = data, !.spaces = spaces]
  ELSE Fails

\* consecutive texts, size of them at a time; all at once when they fit
Chunks(n, size) ==
  IF size = 0 \/ size >= n THEN <<[k \in 1..n |-> k]>>
  ELSE [c \in 1..((n + size - 1) \div size) |->
          [k \in 1..(IF c * size > n THEN n - (c - 1) * size ELSE size) |-> (c - 1) * size + k]]

\* texts by length; a group closes at twice its shortest or over the budget
maxPadRatio == 2
groupByWidth(lengths, budget) ==
  LET order == SortSeq([i \in DOMAIN lengths |-> i],
                       LAMBDA a, b : lengths[a] < lengths[b] \/ (lengths[a] = lengths[b] /\ a < b))
      Closes(group, width) == width > lengths[group[1]] * maxPadRatio \/ (Len(group) + 1) * width > budget
  IN FoldLeft(LAMBDA groups, i :
                IF groups = <<>> \/ Closes(Last(groups), lengths[i]) THEN Append(groups, <<i>>)
                ELSE Append(Front(groups), Append(Last(groups), i)), <<>>, order)

FansOut == config.encoder \in {"adapter", "titan"}     \* the adapter is over such an embedder

Encode(request) ==
  /\ call.pc = "idle"
  /\ LET n == request.texts
         valid == [NoCall EXCEPT !.pc = "encoding", !.texts = n, !.wanted = Wanted(request)] IN
     IF ~ValidateRequest(config.encoder, request) THEN Fails /\ UNCHANGED fan
     ELSE IF FansOut
     THEN call' = [valid EXCEPT !.pc = "fanning"] /\ fan' = [i \in 1..n |-> "waiting"]
     ELSE IF config.encoder \in Embedders THEN call' = [valid EXCEPT !.pc = "placing"] /\ UNCHANGED fan
     ELSE IF config.encoder = "onnx"
     THEN \E lengths \in [1..n -> 1..3] :
            /\ call' = [valid EXCEPT !.data = [i \in 1..n |-> <<>>],
                                     !.todo = groupByWidth(lengths, 2 * config.size)]
            /\ UNCHANGED fan
     ELSE call' = [valid EXCEPT !.todo = Chunks(n, config.size)] /\ UNCHANGED fan
  /\ UNCHANGED <<config, service, cancelled, ranking>>

\* the loop's top: nothing is sent for a caller who has given up
GivesUp ==
  /\ call.pc = "encoding" /\ call.todo # <<>> /\ cancelled
  /\ Fails
  /\ UNCHANGED <<config, service, cancelled, fan, ranking>>

Sends ==
  /\ call.pc = "encoding" /\ call.todo # <<>> /\ ~cancelled
  /\ call' = [call EXCEPT !.pc = "flying"]
  /\ UNCHANGED <<config, service, cancelled, fan, ranking>>

Unanswered ==
  /\ call.pc = "flying"
  /\ Fails
  /\ UNCHANGED <<config, service, cancelled, fan, ranking>>

\* fault: spaces are compared by kind only
sameSpacesOfKinds(want, got) == DOMAIN want = DOMAIN got

sameSpaces(want, got) == want = got

Merged(reply) ==
  [call EXCEPT !.pc = "encoding", !.todo = Tail(@), !.data = @ \o reply.data,
               !.spaces = IF call.data = <<>> THEN reply.spaces ELSE @]

\* Chunked appends what it is sent, when it is as much and lies in the same spaces
ChunkAnswered(shape) ==
  LET texts == Head(call.todo)
      reply == encodeChunk(texts, call.wanted, shape) IN
  /\ call.pc = "flying" /\ config.encoder # "onnx"
  /\ IF \/ ~reply.ok \/ Len(reply.data) # Len(texts)
        \/ call.data # <<>> /\ ~sameSpaces(call.spaces, reply.spaces)
     THEN Fails
     ELSE call' = Merged(reply)
  /\ UNCHANGED <<config, service, cancelled, fan, ranking>>

\* a forward pass of the local model scatters its rows to their places
Scatter(group) == [i \in DOMAIN call.data |->
  IF i \in ToSet(group) THEN [kind \in {"sparse"} |-> Vector(i, "whole", FALSE)] ELSE call.data[i]]

GroupEncoded ==
  /\ call.pc = "flying" /\ config.encoder = "onnx"
  /\ call' = [call EXCEPT !.pc = "encoding", !.todo = Tail(@), !.data = Scatter(Head(call.todo)),
                          !.spaces = [kind \in {"sparse"} |-> Space(2, "")]]
  /\ UNCHANGED <<config, service, cancelled, fan, ranking>>

Finishes ==
  /\ call.pc = "encoding" /\ call.todo = <<>>
  /\ Answers(call.data, call.spaces)
  /\ UNCHANGED <<config, service, cancelled, fan, ranking>>

(***************************************************************************)
(* One call for each text (FanOut). A goroutine waits for a place or for   *)
(* the context; the first error cancels the others.                        *)
(***************************************************************************)
ContextDone == cancelled \/ \E i \in DOMAIN fan : fan[i] = "failed"

Fan(i, state) == fan' = [fan EXCEPT ![i] = state]

Enters(i) ==
  /\ call.pc = "fanning" /\ fan[i] = "waiting"
  /\ Cardinality({k \in DOMAIN fan : fan[k] = "calling"}) < config.size
  /\ Fan(i, "calling")
  /\ UNCHANGED <<config, service, cancelled, call, ranking>>

Leaves(i) ==
  /\ call.pc = "fanning" /\ fan[i] = "waiting" /\ ContextDone
  /\ Fan(i, "left")
  /\ UNCHANGED <<config, service, cancelled, call, ranking>>

TextEmbedded(i) ==
  /\ call.pc = "fanning" /\ fan[i] = "calling"
  /\ Fan(i, "done")
  /\ UNCHANGED <<config, service, cancelled, call, ranking>>

TextFails(i) ==
  /\ call.pc = "fanning" /\ fan[i] = "calling"
  /\ Fan(i, "failed")
  /\ UNCHANGED <<config, service, cancelled, call, ranking>>

\* a text whose goroutine left has no vector, and no error
Embedding(i) == [kind \in {"dense"} |-> [of |-> i, weights |-> "r1", sound |-> TRUE, width |-> 1]]
EmbeddedOf(i) == IF fan[i] = "done" THEN Embedding(i) ELSE <<>>

Gathers ==
  LET vectors == [i \in DOMAIN fan |-> EmbeddedOf(i)]
      resolved == Space(IF vectors[1] = <<>> THEN 0 ELSE 1, "")     \* resolveSpace
  IN
  /\ call.pc = "fanning"
  /\ \A i \in DOMAIN fan : fan[i] \in {"done", "left", "failed"}
  /\ IF \E i \in DOMAIN fan : fan[i] = "failed" THEN Fails
     ELSE IF config.encoder = "adapter" THEN Answers(vectors, [kind \in {"dense"} |-> resolved])
     ELSE call' = [call EXCEPT !.pc = "returned", !.result = "answer", !.data = vectors]
  /\ UNCHANGED <<config, service, cancelled, fan, ranking>>

(***************************************************************************)
(* One call for all texts, placed by the index each vector came with; in   *)
(* the order they came where there is none. A proxy may repeat an index.   *)
(***************************************************************************)
PlaceableInRange(indexes) == \A k \in DOMAIN indexes : indexes[k] \in 1..call.texts
Placeable(indexes) ==
  PlaceableInRange(indexes) /\ (config.encoder = "openai" => IsInjective(indexes))

PlacedAt(indexes, i) == IF i \in ToSet(indexes) THEN Embedding(i) ELSE <<>>

PlacesByIndex(indexes) ==
  /\ call.pc = "placing"
  /\ IF /\ Len(indexes) = call.texts
        /\ config.encoder # "cohere" => Placeable(indexes)
     THEN call' = [call EXCEPT !.pc = "returned", !.result = "answer",
            !.data = [i \in DOMAIN indexes |->
                        IF config.encoder = "cohere" THEN Embedding(i) ELSE PlacedAt(indexes, i)]]
     ELSE Fails
  /\ UNCHANGED <<config, service, cancelled, fan, ranking>>

(***************************************************************************)
(* Reranking: the service chooses indexes and scores, and may ignore topN. *)
(***************************************************************************)
Documents == 2
Results == UNION {[1..n -> [index : 0..Documents, score : 1..2]] : n \in 0..3}     \* 0 is out of range

InRange(results) == \A k \in DOMAIN results : results[k].index \in 1..Documents

\* fault: more results than asked for are kept
Uncapped(results, topN) == results

Capped(results, topN) ==
  IF topN > 0 /\ Len(results) > topN THEN SubSeq(results, 1, topN) ELSE results

\* equals stay as they came, or, with Voyage, by index
ByScore(by, results) ==
  LET Before(a, b) == IF by = "voyage" THEN results[a].index < results[b].index ELSE a < b
      order == SortSeq([k \in DOMAIN results |-> k],
                LAMBDA a, b : results[a].score > results[b].score
                              \/ (results[a].score = results[b].score /\ Before(a, b)))
  IN [k \in DOMAIN results |-> results[order[k]]]

Indexes(results) == [k \in DOMAIN results |-> results[k].index]

Accepted(by, results) ==
  /\ InRange(results)
  /\ by = "voyage" => results # <<>> /\ Len(results) <= Documents /\ IsInjective(Indexes(results))

Rerank(by, topN, results) ==
  /\ call.pc = "idle" /\ config.encoder = "deepinfra" /\ config.size = 0 /\ ranking = NoRanking
  /\ IF Accepted(by, results)
     THEN ranking' = [by |-> by, topN |-> topN,
            results |-> IF by = "voyage" THEN Capped(ByScore(by, results), topN)
                        ELSE ByScore(by, results)]
     ELSE ranking' = [NoRanking EXCEPT !.by = by]
  /\ UNCHANGED <<config, service, cancelled, call, fan>>

(***************************************************************************)
(* The environment and the whole.                                          *)
(***************************************************************************)
Cancel ==
  /\ call.pc \in {"encoding", "flying", "fanning"} /\ ~cancelled
  /\ cancelled' = TRUE
  /\ UNCHANGED <<config, service, call, fan, ranking>>

Roll(deployment) ==
  /\ call.pc \in {"encoding", "flying"} /\ call.data # <<>>
  /\ service = Space(1, "r1") /\ deployment # service     \* bound: once a call
  /\ service' = deployment
  /\ UNCHANGED <<config, cancelled, call, fan, ranking>>

Rerankings == \E by \in {"cohere", "voyage"}, topN \in 0..2, results \in Results : Rerank(by, topN, results)

RetrievalNext ==
  \/ \E request \in Requests : Encode(request)
  \/ GivesUp \/ Sends \/ Unanswered \/ GroupEncoded \/ Finishes
  \/ \E shape \in Shapes : ChunkAnswered(shape)
  \/ \E i \in DOMAIN fan : Enters(i) \/ Leaves(i) \/ TextEmbedded(i) \/ TextFails(i)
  \/ Gathers
  \/ \E n \in 1..MaxInputs : \E indexes \in [1..n -> 0..MaxInputs] : PlacesByIndex(indexes)
  \/ Rerankings
  \/ Cancel
  \/ \E deployment \in Deployments : Roll(deployment)

RetrievalSpec == RetrievalInit /\ [][RetrievalNext]_retrievalVars

(***************************************************************************)
(* Properties.                                                             *)
(***************************************************************************)
\* An answer has a place for every text, and what is there is the text's own: of
\* the kinds asked for and no others; an encoder's are sound and as wide as the
\* space declares, and where the service says which weights answered, all are of
\* the space declared. A place is empty only in an answer of Titan's embedder whose
\* caller gave up, or of Voyage's embedder, which takes an index twice
\* (ValidateResponse, sameSpaces, FanOut, placing by index).
MayLackVectors == (config.encoder = "titan" /\ cancelled) \/ config.encoder = "voyage"
ResponseIsOneSpace ==
  call.result = "answer" =>
    /\ Len(call.data) = call.texts
    /\ \A i \in DOMAIN call.data :
         \/ call.data[i] = <<>> /\ MayLackVectors
         \/ /\ DOMAIN call.data[i] = call.wanted
            /\ \A kind \in call.wanted :
                 LET vector == call.data[i][kind] IN
                 /\ vector.of = i
                 /\ config.encoder \notin Embedders => Fits(kind, vector, call.spaces[kind])
                 /\ config.reports => vector.weights = call.spaces[kind].revision

\* A ranking is ordered and of documents of the request. Voyage's is of distinct
\* ones, no more than were asked for; Cohere's is as long as the service makes it,
\* and neither is checked to be complete (Rerank of both).
RankingIsOrdered ==
  /\ \A k \in DOMAIN ranking.results :
       /\ ranking.results[k].index \in 1..Documents
       /\ k > 1 => ranking.results[k - 1].score >= ranking.results[k].score
  /\ ranking.by = "voyage" =>
       /\ IsInjective(Indexes(ranking.results))
       /\ ranking.topN > 0 => Len(ranking.results) <= ranking.topN

\* "When the request set TopN this holds at most TopN entries, otherwise one entry
\* per request document" (reranking.go:67).
RankingIsAsDocumented ==
  ranking.results # <<>> =>
    IF ranking.topN > 0 THEN Len(ranking.results) <= ranking.topN
    ELSE ToSet(Indexes(ranking.results)) = 1..Documents

\* An embedding answer has a vector for every text (FanOut, the Voyage embedder).
EveryTextIsEmbedded ==
  call.result = "answer" => \A i \in DOMAIN call.data : call.data[i] # <<>>
===============================================================================

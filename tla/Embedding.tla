----------------------------- MODULE Embedding -----------------------------
(***************************************************************************)
(* From texts to vectors: the providers behind the Embedder trait           *)
(* (src/embedder) and the indexer's pool of embedding tasks                *)
(* (src/engine/indexer.rs, index_project and index_files).                 *)
(*                                                                         *)
(* A text is its position in the list of new chunks, and its vector the     *)
(* same number; a vector that is nobody's is NoVector.  A batch is cut into *)
(* requests of at most RequestSize texts.  A service may answer in an order *)
(* of its own where the protocol numbers the vectors, leave one out, be     *)
(* busy, refuse, or not be there; time is how long a sleep lasts, and is    *)
(* left out.                                                                *)
(***************************************************************************)
EXTENDS Integers, FiniteSets, SequencesExt

CONSTANTS
  MaxTexts,        \* bound: texts of one run
  BatchSize,       \* Indexer::batch_size
  RequestSize,     \* GEMINI_BATCH_SIZE, OPENAI_BATCH_SIZE, ...
  MaxRetries,      \* http::MAX_RETRIES
  Concurrency,     \* IndexingConfig::concurrency
  LongTexts,       \* texts that may be longer than MAX_TOKENS * 4 bytes
  Tokens,          \* how many tokens each text has
  MaxTokens        \* OnnxEmbedder::MAX_TOKENS

TextIds     == 1 .. MaxTexts
NoVector  == 0
Providers == {"gemini", "openai", "openrouter", "ollama", "onnx"}

ASSUME EmbeddingAssumption ==
  /\ {MaxTexts, BatchSize, RequestSize, MaxRetries, Concurrency, MaxTokens}
       \subseteq Nat \ {0}
  /\ LongTexts \subseteq TextIds
  /\ Tokens \in [TextIds -> Nat \ {0}]

VARIABLES
  emb,      \* the run: its state, provider, configuration, mode, texts
  task,     \* the task of each batch
  stored,   \* the vector stored for each text, or returned to a search
  count,    \* embeddings_count
  short     \* an answer has left a text out

embVars == <<emb, task, stored, count, short>>

-----------------------------------------------------------------------------
(* Batches and requests. *)

Smaller(a, b) == IF a < b THEN a ELSE b

\* slice::chunks
Piece(s, size, k) == SubSeq(s, (k - 1) * size + 1, Smaller(k * size, Len(s)))
PieceCount(s, size) == (Len(s) + size - 1) \div size

AllTexts    == [i \in 1 .. emb.count |-> i]
Batches     == 1 .. PieceCount(AllTexts, BatchSize)
TextsOf(b)  == Piece(AllTexts, BatchSize, b)
Request(b)  == Piece(TextsOf(b), RequestSize, task[b].request)
IsLast(b)   == task[b].request = PieceCount(TextsOf(b), RequestSize)

Queued == [pc |-> "queued", request |-> 1, attempt |-> 0, asks |-> 0,
           got |-> <<>>]

\* What a service sends back for a request: the vectors of its texts, perhaps
\* with one missing.
Answers(q) == {q} \cup {RemoveAt(q, i) : i \in DOMAIN q}

-----------------------------------------------------------------------------
(* One request.  The providers differ in how often they ask, in what a      *)
(* failure of the transport means to them, and in how they read an answer.  *)

Asking(b) == emb.state = "embedding" /\ task[b].pc = "asking"

\* Mutant: the attempts are counted over the batch, not over the request.
KeepVectorsCountingOn(b, vs) ==
  task' = IF IsLast(b)
          THEN [task EXCEPT ![b].pc = "answered", ![b].got = @ \o vs, ![b].asks = @ + 1]
          ELSE [task EXCEPT ![b].request = @ + 1, ![b].got = @ \o vs, ![b].asks = 0]

KeepVectors(b, vs) ==
  task' = IF IsLast(b)
          THEN [task EXCEPT ![b].pc = "answered", ![b].got = @ \o vs, ![b].asks = @ + 1]
          ELSE [task EXCEPT ![b].request = @ + 1, ![b].got = @ \o vs,
                            ![b].attempt = 0, ![b].asks = 0]

\* 2xx with a body that parses: the loop goes on to the next request.
Success(b, vs) ==
  /\ KeepVectors(b, vs)
  /\ short' = (short \/ Len(vs) < Len(Request(b)))
  /\ UNCHANGED <<emb, stored, count>>

\* 429, 500 or 503: sleep and ask again, at most so many times.
Busy(b, last) ==
  /\ task' = [task EXCEPT ![b].pc      = IF task[b].attempt < last
                                         THEN "sleeping" ELSE "gaveUp",
                          ![b].asks    = @ + 1]
  /\ UNCHANGED <<emb, stored, count, short>>

\* Any other status, a body that cannot be read or parsed, a text that is too
\* long: the batch fails at once.
Refused(b) ==
  /\ task' = [task EXCEPT ![b].pc = "refused", ![b].asks = @ + 1]
  /\ UNCHANGED <<emb, stored, count, short>>

\* The requests of the three services that stop at a failure of the transport.
Asked(b, provider, answers) ==
  /\ Asking(b)
  /\ emb.provider = provider
  /\ \/ \E vs \in answers : Success(b, vs)
     \/ Busy(b, MaxRetries)
     \/ Refused(b)

\* calculate_backoff, read_retry_after: the delay ends, whatever it was.
WakeUp(b) ==
  /\ emb.state = "embedding"
  /\ task[b].pc = "sleeping"
  /\ task' = [task EXCEPT ![b].pc = "asking", ![b].attempt = @ + 1]
  /\ UNCHANGED <<emb, stored, count, short>>

-----------------------------------------------------------------------------
(* Gemini. *)

\* One vector and the loop is left.
GeminiEmbed(b) ==
  emb.mode = "query" /\ Asked(b, "gemini", {Request(b)})

\* batchEmbedContents answers by position.
GeminiParse(q) == Answers(q)

GeminiEmbedBatch(b) ==
  emb.mode = "index" /\ Asked(b, "gemini", GeminiParse(Request(b)))

(* OpenAI: the vectors are numbered and come in any order. *)

Numbered(q) == {[index |-> i, vector |-> q[i]] : i \in DOMAIN q}

Data(q) ==
  UNION {SetToSeqs(S) : S \in {Numbered(q)} \cup {Numbered(q) \ {d} : d \in Numbered(q)}}

\* Mutant: the vectors are taken in the order they come in.
ParseUnsorted(q) == {[i \in DOMAIN d |-> d[i].vector] : d \in Data(q)}

ByIndex(d) ==
  CHOOSE s \in SetToSeqs(Range(d)) : \A i, j \in DOMAIN s : i < j => s[i].index < s[j].index

\* parse_response sorts by index.
OpenAiParse(q) == {[i \in DOMAIN d |-> ByIndex(d)[i].vector] : d \in Data(q)}

SomeLong(b) == Range(TextsOf(b)) \cap emb.long # {}

\* The length of the text is looked at before anything is sent, and a list
\* that is empty is an error.
OpenAiEmbed(b) ==
  /\ emb.mode = "query"
  /\ IF SomeLong(b) THEN Asking(b) /\ emb.provider = "openai" /\ Refused(b)
     ELSE Asked(b, "openai", OpenAiParse(Request(b)) \ {<<>>})

OpenAiEmbedBatch(b) ==
  /\ emb.mode = "index"
  /\ IF SomeLong(b) THEN Asking(b) /\ emb.provider = "openai" /\ Refused(b)
     ELSE Asked(b, "openai", OpenAiParse(Request(b)))

(* OpenRouter: the protocol of OpenAI. *)

OpenRouterParse(q) == OpenAiParse(q)

OpenRouterEmbed(b) ==
  /\ emb.mode = "query"
  /\ IF SomeLong(b) THEN Asking(b) /\ emb.provider = "openrouter" /\ Refused(b)
     ELSE Asked(b, "openrouter", OpenRouterParse(Request(b)) \ {<<>>})

OpenRouterEmbedBatch(b) ==
  /\ emb.mode = "index"
  /\ IF SomeLong(b) THEN Asking(b) /\ emb.provider = "openrouter" /\ Refused(b)
     ELSE Asked(b, "openrouter", OpenRouterParse(Request(b)))

(* Ollama: asks MaxRetries times in all, and a transport that fails in a way *)
(* that is_retryable_error knows is asked again too.                         *)

OllamaUnreachable(b) == Busy(b, MaxRetries - 1)

\* A busy answer to the last attempt sleeps as well, and the loop ends.
OllamaChunk(b, answers) ==
  /\ Asking(b)
  /\ emb.provider = "ollama"
  /\ \/ \E vs \in answers : Success(b, vs)
     \/ Busy(b, MaxRetries)
     \/ OllamaUnreachable(b)
     \/ Refused(b)

OllamaGivesUp(b) ==
  /\ Asking(b)
  /\ emb.provider = "ollama"
  /\ task[b].attempt = MaxRetries
  /\ task' = [task EXCEPT ![b].pc = "gaveUp"]
  /\ UNCHANGED <<emb, stored, count, short>>

OllamaEmbed(b) ==
  /\ emb.mode = "query"
  /\ task[b].attempt < MaxRetries
  /\ OllamaChunk(b, Answers(Request(b)) \ {<<>>})

OllamaEmbedBatch(b) ==
  /\ emb.mode = "index"
  /\ task[b].attempt < MaxRetries
  /\ OllamaChunk(b, Answers(Request(b)))

-----------------------------------------------------------------------------
(* ONNX: the whole batch in one tensor, behind the mutex of the session. *)

Pad == <<NoVector, 0>>

\* tokenize: the first MaxTokens tokens of the text.
Tokenize(t) == [k \in 1 .. Smaller(Tokens[t], MaxTokens) |-> <<t, k>>]

Longest(q) == LET lens == {Len(Tokenize(q[i])) : i \in DOMAIN q}
              IN CHOOSE n \in lens : \A m \in lens : m <= n

Padded(q, i) ==
  [k \in 1 .. Longest(q) |->
     IF k <= Len(Tokenize(q[i])) THEN Tokenize(q[i])[k] ELSE Pad]

Mask(q, i) ==
  [k \in 1 .. Longest(q) |-> IF k <= Len(Tokenize(q[i])) THEN 1 ELSE 0]

\* Mutant: the mean is over the padding too.
PoolEverything(states, mask) == Range(states)

\* pooling_and_normalize: the mean over the tokens that are not masked, as the
\* set of tokens it is the mean of.
Pool(states, mask) == {states[k] : k \in {j \in DOMAIN states : mask[j] = 1}}

\* The vector of the text whose tokens were pooled.
VectorOver(cells) ==
  IF \E t \in TextIds : cells = Range(Tokenize(t))
  THEN CHOOSE t \in TextIds : cells = Range(Tokenize(t))
  ELSE NoVector

\* The hidden states come back as one vector; item i is the i-th slice of it.
OnnxVectors(q) ==
  LET states == FlattenSeq([i \in DOMAIN q |-> Padded(q, i)])
      masks  == FlattenSeq([i \in DOMAIN q |-> Mask(q, i)])
      Item(s, i) == SubSeq(s, (i - 1) * Longest(q) + 1, i * Longest(q))
  IN [i \in DOMAIN q |-> VectorOver(Pool(Item(states, i), Item(masks, i)))]

OnnxEmbedBatch(b) ==
  /\ Asking(b)
  /\ emb.provider = "onnx"
  /\ \/ /\ task' = [task EXCEPT ![b].pc = "answered",
                                ![b].got = OnnxVectors(TextsOf(b))]
        /\ UNCHANGED <<emb, stored, count, short>>
     \/ Refused(b)

-----------------------------------------------------------------------------
(* Building the embedder. *)

\* create_embedder_from_config: the provider the configuration names, with
\* settings its constructor accepts or not.
CreateEmbedder ==
  /\ emb.state = "idle"
  /\ \E p \in Providers, m \in {"index", "query"}, n \in 1 .. MaxTexts,
        ok \in BOOLEAN, long \in SUBSET LongTexts :
       /\ m = "query" => n = 1
       /\ emb' = [state |-> "building", provider |-> p, accepted |-> ok,
                  mode |-> m, count |-> n, long |-> long]
  /\ UNCHANGED <<task, stored, count, short>>

Fail == emb' = [emb EXCEPT !.state = "failed"]

\* index_project spawns one task per batch; a search asks at once.
Start ==
  /\ emb' = [emb EXCEPT !.state = "embedding"]
  /\ task' = [b \in Batches |->
                IF emb.mode = "index" THEN Queued
                ELSE [Queued EXCEPT !.pc = "asking"]]
  /\ UNCHANGED <<stored, count, short>>

Construct(provider) ==
  /\ emb.state = "building"
  /\ emb.provider = provider
  /\ IF emb.accepted THEN Start ELSE Fail /\ UNCHANGED <<task, stored, count, short>>

GeminiNew     == Construct("gemini")      \* a key, a size that Gemini has
OpenAiNew     == Construct("openai")      \* a key
OpenRouterNew == Construct("openrouter")  \* a key
OllamaNew     == Construct("ollama")      \* a URL and a model

\* load_model reads the files, if they are there; a thread of its own builds
\* the session.
OnnxRead ==
  /\ emb.state = "building"
  /\ emb.provider = "onnx"
  /\ IF emb.accepted THEN emb' = [emb EXCEPT !.state = "loading"] ELSE Fail
  /\ UNCHANGED <<task, stored, count, short>>

\* OnnxEmbedder::new on the thread, and its answer through the channel.
OnnxNew ==
  /\ emb.state = "loading"
  /\ Start \/ (Fail /\ UNCHANGED <<task, stored, count, short>>)

\* The thread hangs, and is left to itself.
OnnxTimesOut ==
  /\ emb.state = "loading"
  /\ Fail
  /\ UNCHANGED <<task, stored, count, short>>

-----------------------------------------------------------------------------
(* The indexer. *)

Holding == {c \in Batches : task[c].pc \in {"asking", "sleeping"}}

\* A task waits for one of the permits.
Acquire(b) ==
  /\ emb.state = "embedding"
  /\ task[b].pc = "queued"
  /\ Cardinality(Holding) < Concurrency
  /\ task' = [task EXCEPT ![b].pc = "asking"]
  /\ UNCHANGED <<emb, stored, count, short>>

\* Mutant: the batch that comes first is taken for the first one.
FirstTextByArrival(b) ==
  Cardinality({c \in Batches : task[c].pc = "joined"}) * BatchSize

FirstText(b) == (b - 1) * BatchSize

\* join_next: batches are committed as they come, each at its own place in the
\* list; the first that failed ends the run and drops the others.
JoinNext(b) ==
  LET first == FirstText(b)
      last  == Smaller(first + Len(task[b].got), emb.count)
  IN /\ emb.state = "embedding"
     /\ emb.mode = "index"
     /\ task[b].pc \in {"answered", "refused", "gaveUp"}
     /\ task' = [task EXCEPT ![b].pc = "joined"]
     /\ UNCHANGED short
     /\ IF task[b].pc = "answered" /\ last - first = Len(task[b].got)
        THEN /\ stored' = [t \in TextIds |->
                             IF t \in first + 1 .. last
                             THEN task[b].got[t - first] ELSE stored[t]]
             /\ count' = count + Len(task[b].got)
             /\ UNCHANGED emb
        ELSE Fail /\ UNCHANGED <<stored, count>>

\* Mutant: the vectors are not counted in the end.
ReportUncounted ==
  /\ emb.state = "embedding"
  /\ emb.mode = "index"
  /\ \A b \in Batches : task[b].pc = "joined"
  /\ emb' = [emb EXCEPT !.state = "done"]
  /\ UNCHANGED <<task, stored, count, short>>

\* Every batch is in, and there must be as many vectors as texts.
Report ==
  /\ emb.state = "embedding"
  /\ emb.mode = "index"
  /\ \A b \in Batches : task[b].pc = "joined"
  /\ IF count = emb.count THEN emb' = [emb EXCEPT !.state = "done"] ELSE Fail
  /\ UNCHANGED <<task, stored, count, short>>

\* A search gets the vector of its query, or the error.
AnswerQuery(b) ==
  /\ emb.state = "embedding"
  /\ emb.mode = "query"
  /\ task[b].pc \in {"answered", "refused", "gaveUp"}
  /\ IF task[b].pc = "answered"
     THEN /\ stored' = [stored EXCEPT ![1] = task[b].got[1]]
          /\ emb' = [emb EXCEPT !.state = "done"]
     ELSE Fail /\ UNCHANGED stored
  /\ UNCHANGED <<task, count, short>>

-----------------------------------------------------------------------------
EmbInit ==
  /\ emb = [state |-> "idle"]
  /\ task = <<>>
  /\ stored = [t \in TextIds |-> NoVector]
  /\ count = 0
  /\ short = FALSE

\* The tasks there are: none before the embedder is built.
Tasks == DOMAIN task

Provide(b) ==
  \/ GeminiEmbed(b) \/ GeminiEmbedBatch(b)
  \/ OpenAiEmbed(b) \/ OpenAiEmbedBatch(b)
  \/ OpenRouterEmbed(b) \/ OpenRouterEmbedBatch(b)
  \/ OllamaEmbed(b) \/ OllamaEmbedBatch(b) \/ OllamaGivesUp(b)
  \/ OnnxEmbedBatch(b)

EmbStep ==
  \/ GeminiNew \/ OpenAiNew \/ OpenRouterNew \/ OllamaNew
  \/ OnnxRead \/ OnnxNew \/ OnnxTimesOut
  \/ \E b \in Tasks : Acquire(b) \/ Provide(b) \/ WakeUp(b) \/ JoinNext(b) \/ AnswerQuery(b)
  \/ Report

EmbNext == CreateEmbedder \/ EmbStep

\* tokio runs the tasks and the client times out every request (60 s), the
\* service Retry-After names a time that passes, and the library's inference,
\* which nothing times out, is taken to return.
EmbSpec == EmbInit /\ [][EmbNext]_embVars /\ WF_embVars(EmbStep)

-----------------------------------------------------------------------------
(* Properties. *)

Phase == CASE emb.state = "idle" -> "idle"
           [] emb.state = "done" -> "done"
           [] emb.state = "failed" \/ (short /\ emb.state = "embedding") -> "givenUp"
           [] OTHER -> "asked"

Promise == INSTANCE EmbedAll WITH
             Texts  <- TextIds,
             phase  <- Phase,
             asked  <- IF emb.state = "idle" THEN {} ELSE 1 .. emb.count,
             vector <- stored

\* Whatever the provider, the order of its answers, the size of its requests
\* and the order the batches come in, a run that ends well has stored the own
\* vector of every text and no text ever has another's, unless an answer left a
\* text out, and then the run fails; and every run ends
\* (engine/indexer.rs:178-216).
EmbeddingKeepsItsPromise == Promise!Spec

\* A service that is only busy is given up after all the attempts a request
\* has, and not before, nor asked more often than that (http.rs:26).
RetriesAreSpent ==
  LET most == IF emb.state # "idle" /\ emb.provider = "ollama"
              THEN MaxRetries ELSE MaxRetries + 1
  IN \A b \in Tasks :
       /\ task[b].asks <= most
       /\ task[b].pc = "gaveUp" => task[b].asks = most
=============================================================================

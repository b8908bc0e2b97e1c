# Formal models of VectorCode

TLA+ modules for the parts of VectorCode (`src/src/`) whose correctness depends on the order in which things happen, on what fails in between, or on limits that a test would hardly hit: what is in the index while files are edited, runs fail, processes die and several of them write; what a search answers when parts of it fail; what commands leave behind when they are stopped. TLC checks the modules on small instances. TLAPS proves properties of fourteen of them, and two refinements, for every instance.

Paths below are relative to `src/src/`.

## The system

VectorCode cuts source files into chunks, has an embedder turn each chunk into a vector, and stores both in SQLite. A search embeds the query and joins the nearest vectors with their chunks, or asks the full-text index, or fuses both. `vectorcode index` fills the index; `vectorcode serve --mcp` serves searches to an agent and keeps the index up to date while the user edits.

| Component | State | Operations | Talks to | Module |
| --- | --- | --- | --- | --- |
| Chunk store (`store/{chunks,vectors,db}.rs`) | tables `chunks`, `chunk_vec_map`, `vec_chunks`, `chunks_fts` | insert, replace and delete chunks and vectors, clear, recreate the vector tables | SQLite; called by all below | `ChunkStore` |
| Store port (`store/{store,sqlite,lancedb}.rs`) | the tables, or Lance datasets | the calls of the trait `Store` | chunk store, LanceDB | `StoreContract`, `StorePort` |
| Index life cycle (`cli/{init,index}.rs`, `store/{db,meta}.rs`) | `.vectorcode`, its lock, `config.toml`, schema version, `meta` | init, index, index --full, change of provider, migration | all stores | `Lifecycle` |
| Indexer (`engine/indexer.rs`) | one run: tasks, chunks to embed, file records | `index_project`, `index_files` | reads the disk, calls chunker and embedder, writes the store in many transactions | `Indexer` |
| Watcher (`watcher/`) | held-back events, two channels, the pending list | debouncer callback, pending task, `clear_pending_paths` | sends batches to the worker | `AutoSync`, `Workspaces` |
| Server (`cli/serve.rs`) | worker, catch-up task | one batch after the other; one catch-up per start | indexer and store, on connections of their own | `AutoSync`, `Workspaces` |
| MCP handler (`mcp/handler.rs`) | `workspaces`, `known_roots` | lazy initialisation, roots from the client, the tools | server, searchers, indexer | `Workspaces`, `Search`, `Graph`, `Chunker`, `Lifecycle` |
| Search (`engine/{searcher,fusion,sparse_searcher,router}.rs`) | none | dense, sparse, hybrid, reranked | store, embedder, reranker | `Search` |
| Knowledge graph (`engine/{graph_extractor,graph_retriever}.rs`, `store/graph.rs`) | tables `graph_nodes`, `graph_edges` | extract, replace the part of a file, callers, dependents, imports | indexer, MCP handler | `Graph` |
| Chunker, outline (`engine/{chunker,outliner}.rs`) | none | tree-sitter chunks, line windows, outline | called by indexer and MCP handler | `Chunker` |
| Embedders (`embedder/`) | attempts of a request | embed with retries, order the answers, pad and pool | services, ONNX | `EmbedAll`, `Embedding` |
| Model download, reranker (`embedder/model_manager.rs`, `reranker/`) | model cache on disk | download, rename, load, score | network, ONNX | `ModelCache`, `Search` |
| install, uninstall, upgrade (`cli/`) | agents' configurations, skill files, the binary | write entries, take them out, replace the binary | files that others write; a release | `AgentConfig`, `Upgrade` |
| Benchmarks (`bench/`, `cli/{benchmark,bench_store}.rs`) | baselines | measure, compare, exit code | all of the above | `Quality`, `Bench` |

What is hard about it, and what must hold:

- **Many small transactions.** A run commits once per file, once per batch of vectors, once for its file records, and statement by statement in the cleanup; a change of provider and a migration are many autocommitted statements. A file that the next run skips is completely indexed; an index the server admits has vectors of one embedder only.
- **Several writers.** The worker, the catch-up, an MCP tool and the CLI each open the database, and one root may have several watchers. Vectors stay with the text they were made from; an indexed file that is out of date will be synced again.
- **Cascades and triggers.** `INSERT OR REPLACE` deletes rows without running every trigger. Mapping, vectors, postings and edges follow what they belong to.
- **A pipeline with no acknowledgements.** Debouncer, channel, worker and pending list are separate tasks, a failed batch is only logged, and a stop loses whatever is in them. An edit reaches the index, or is found again at the next start.
- **Fallbacks.** Searchers, rerankers and embedders fail on their own. What the others have found is not lost, and attempts are not given up early or for ever.
- **Files that others write.** Two processes download one model; agents and users write the configurations install edits; a release is published while it is fetched.

`PROJECT.json` lists every such hazard at its line with the properties about it.

## Modules

The modules form three groups.

**The index.** `ChunkStore` has the tables row by row and the statements one by one; it says what a stored or deleted chunk is. `Indexer` takes from it that a vector belongs to the present text of its chunk (`VectorMatchesText`) and only says whether there is one (`vecs`); it models runs. `AutoSync` EXTENDS `Indexer`: the worker and the catch-up are two of its runners, and every step of their runs is a step of `Indexer`. `Lifecycle` stands beside them: chunks do not change there, and the directory, the configuration, the schema and the metadata do.

**The server.** `Workspaces` has a root with several watchers, workers and catch-ups, and takes from `AutoSync` what one of them does. `Search` has one search over two workspaces while a file is edited.

**The components that work by themselves.** `Embedding` (with `EmbedAll`, which it implements), `Chunker`, `Graph`, `ModelCache`, `StorePort` (with `StoreContract`, which it implements twice), `AgentConfig`, `Upgrade`, `Bench` and `Quality` share no state. `MCTools` runs them in one model: `part` says which of them moves in a behaviour, the others stay as they are.

### ChunkStore

`db` is a record of the four tables and the AUTOINCREMENT counter of `vec_chunks`. Each SQL operation is an operator on databases (`InsertChunk`, `InsertVector`, `DeleteVecOf`, ...). A transaction is a composition of them in one action (`StoreChunk`, `DeleteChunk`, `ClearDatabase`, `RecreateVectorIndex`). `delete_chunks_for_file` and `delete_stale_chunks` have no transaction around them, so each of their statements is an action, `job[c]` is where connection `c` is in them, and `Abort` ends them anywhere. An embedding is represented by the text it was computed from. Foreign keys are on (`db.rs:62`) and `recursive_triggers` is off (SQLite's default), so a REPLACE cascades to the mapping and does not run `chunks_ad`.

### Indexer

`disk` is the project, `rows` the chunks, `vecs` the ids of those that have a vector, `rec` the files table, `run[r]` the run of runner `r`. A task goes through `StatFile`, `ReadFile`, `CheckFile` and `CommitFile`, any number of tasks side by side; when they are joined come `EmbedBatch` (any order), `UpsertRecords`, and for `index_project` `ListStale` and then, file by file, `DeleteStaleVectors` and `DeleteStaleChunks`: `delete_chunks_for_file` commits these on its own (`store/chunks.rs:147-172`). `cut` is a history variable, the files with a deletion that has begun and has not come to its end. `Fail` ends a run between any two steps. The user writes and removes files at any time, and brings those of `Returning` back with the mtime they had. A version of a file stands for its bytes and hash; `Layout` gives its chunks (slot, text, and a context, the lines, symbol and parent that the hash does not cover), `Size` its length, so that two versions may have the same size. The first two DELETEs of the function, of vectors and of mappings, are one step here: either way the chunk is not found by a dense search; `ChunkStore` has all three. The graph, whose errors are dropped, is in module `Graph`. That an ignore file or `max_file_size` comes to hide a file that stays is not modelled.

Assumption: the clock, in seconds, ticks between two writes (`IsNow`). Two writes of one second and one size are told apart by the hash but not by the catch-up.

### AutoSync

`ev` is what the debouncer holds back, `queue` the worker's channel, `worker` the loop of `run_watcher_background`, `server` whether there is one. `Flush` is the callback with `filter_paths`. `TakeBatch`, `RemoveVectors`, `RemoveChunks`, `ForgetFile`, `BeginSync`, `SyncStep` and `SyncFails` are the worker, `ListOutdated`, `CatchUpStep` and `CatchUpFails` the catch-up. `StartServer` starts the watcher before the catch-up as `try_init_workspace` does; `StopServer` loses everything that is not in the database. The debouncer is a library and modelled from its use: it keeps the kinds of events per path, a removal drops the earlier ones, and it hands over any set of paths. What the user may do while the server is up and down is a constant (`Online`, `Offline`), so that each run states the assumptions its property needs. The pending list is in `Workspaces`.

### Lifecycle

Every statement that is committed on its own is an action, and `run[p].at` is the one process `p` comes to next; `run[p].then` is where it goes after `init_schema`, which five commands call. `BeginSchema`, `CreateTable`, `SetDimensions`, `MigrateVectors`, `RebuildPostings` and `SetVersion` are `init_schema`; `WriteProvider`, `WriteModel`, `WriteDims` and `WriteStats` are `write_index_meta`, key by key. `StartInit` to `ReleaseLock` are `init`, with and without `--index`; `StartIndex`, `RemoveDatabase` (with `--full`), `RecreateVectorIndex`, `EmbedChunk`, `EndEmbedding` and `Finish` are `index`; `StartServer` and `CheckProvider` are `try_init_workspace`, and `Reindex` is `vec_reindex`, which with `full=true` empties the metadata (`Cleared`). `Halt` stops a process at any of its steps. A vector is named by the embedder that made it, the mock included, which `init --index` always uses and `index` where the configured one cannot be made; an embedder has the length its `dimensions()` declares and the length its embeddings have. `Init` has no index, or one of an older program with any width of its table and any `config.toml`. `Happens` says which events there are: a crash, an embedder that cannot be created, a probe that fails, `config.toml` edited by the user, the directory removed. The run `lifecycle` has all of them and all commands.

`past` is a history variable: what became of the `index.db` that is there and the code has no guard against. The properties except some of it each, and only that: `cleared` (`vec_reindex` with `full=true`), `removed` (`index --full` removed the file and has not written its metadata), `resized` (`CREATE ... IF NOT EXISTS` kept a `vec_chunks` of another width), `unlisted` (a server was let in while there was no metadata), `overtaken` (`index` changed the provider beside a process that had read the old one), `rebuilt` (`index --full` after a change of provider).

### Workspaces

`inbox` is the client's connection, read by one loop; `fetch` the task that `on_initialized` leaves its question to; `call[c]` a tool call, which sets all known roots up if it finds no workspace. Each of the three entries to `try_init_workspace` appends to `worker`, so that a root may have several watchers, each with its held-back event, its two channels, its worker and its catch-up. A sync is `index_files` in the transactions it has: `TakeBatch` or `ListChanged` reads the file, `CheckFile` asks for its record, `CommitFile` deletes what is in the way, `StoreChunks` stores the chunk when it is embedded, `UpsertRecord` records the file, and other syncs fall between these. Each worker has two tasks that sync, `watch` and `late` (the catch-up). A root has one file, known by its version, and a version one chunk, whose id `SpotOf` gives: two versions may have theirs at one place. Nobody edits before everything is set up (`Calm`), but a file may have changed before the server was started.

### Search

`ask` is the search, `turn` the workspace that is asked, `got` what its retrievers answered, `all` the lists so far, `fused` the list before reranking and `result` what is returned. Retrievers, loading the reranker and the reranker itself may fail, and inference may hang. The tables are `rows`: per workspace and key, whether the chunk is live, and its dense and sparse scores. Equal scores may come in any order, where SQL or a hash map leaves it open; fused scores that are no further apart than `Blur` count as equal, since `rrf_fuse` casts them to `f32` before it sorts (`engine/fusion.rs:52`). The command line fuses the lists of one workspace, the MCP tool those of all at once. One assumption is about SQLite: the join around the nearest-neighbour subquery has no `ORDER BY` (`store/vectors.rs:193`), and its rows are taken to come in the order of the subquery, which sqlite-vec answers as the outer loop. `EditStep` edits a file and has it synced while the search runs (`due`, `pending`).

### Embedding and EmbedAll

`EmbedAll` is what the indexer and a search rely on: a request over texts gives each text its own vector, a few at a time, and ends, or is given up. `Embedding` has the providers behind the trait: how Gemini, OpenAI, OpenRouter, Ollama and ONNX cut texts into requests, try again, put the answers in order, pad and pool, and the indexer's pool of embedding tasks with its semaphore. `EmbeddingKeepsItsPromise` is the refinement.

### StorePort and StoreContract

`StoreContract` is the trait: every chunk has a text and a vector, or none. `StorePort` makes every call on both adapters, with the databases of `ChunkStore` (`INSTANCE`) for SQLite and maps for LanceDB, and `answers` is what a call returns. `StoresKeepTheContract` says that each implements the contract, under the mapping that reads what a search would find (`SqliteText`, `SqliteVector`).

### Graph, Chunker, ModelCache, AgentConfig, Upgrade, Bench, Quality

- `Graph`: extraction of a file as operators (`NodesOf`, `EdgesOf`, `Innermost`), replacing a file's part as three statements any of which may fail with its error dropped (`IndexGraphOf`), and the queries of tools and router, whose answer is kept in `asked`.
- `Chunker`: a file is bytes, lines and nodes inside each other. `ChunkFile` is `chunk_file_with_overlap`, with the recursive split of large nodes and both kinds of line windows; `OutlineFile` and `VecReadLines` read the file back.
- `ModelCache`: directory entries, inodes and processes that download piece by piece to a temporary file, rename, and open the result. All of them use the same names.
- `AgentConfig`: the configuration of each agent as JSON or not, with what others put there; read, backed up, written to a temporary file and renamed (install) or written in place (uninstall), with others writing in between.
- `Upgrade`: a release whose tarball and checksums are uploaded and built again while they are fetched; check, download, verification, extraction, replacement.
- `Bench` and `Quality`: what `benchmark --compare` and `bench-store --compare` do with any measurements and any baseline, of whatever corpus and embedder, up to the exit code; values are thousandths, and `RoundsIn` has the pairs right at a tolerance whose difference is less than it in `f64`, as 0.11 - 0.1 < 0.01 is; and how a ranking of chunks becomes the measures.

## Runs

| Run | Expect | What it shows |
| --- | --- | --- |
| `chunk_store` | pass | Chunks, mappings, vectors and postings stay joined correctly under two connections, crashes, clears and provider changes; no operation takes another file's chunks out of search |
| `indexer` | pass | A file that is skipped is indexed; full runs leave a mirror; a file that came back has all of its chunks or none; nothing is embedded twice. Two files, failures anywhere, between the halves of a deletion too |
| `auto_sync` | pass | Under writes, removals and moves no change and no removal is lost between debouncer, channel, worker and catch-up; if the server stays up, the index is right in the end |
| `auto_sync_crash` | pass | After failed syncs, failed and half-done removals and kills, old chunks are found by the next catch-up |
| `auto_sync_rename` | violation | The old name of a moved file keeps its chunks |
| `lifecycle` | pass | With every command, each killed between any two statements, and every event: but for the pasts each property names, what the server admits has vectors of its own embedder or the mock only, metadata is complete or absent, a complete index takes vectors, what was indexed can be served, and a migration that was cut short is completed |
| `lifecycle_full` | violation | After a change of provider `index --full` leaves an index that the server does not admit |
| `workspaces` | pass | With several watchers, workers and catch-ups on one root, whose transactions fall between each other's, the record follows the file, and with one worker the chunks too; what leaves the pending list was handled, and every tool call is answered |
| `search` | pass | Fused rankings, of one workspace and of both, keep what both lists agree on, a dense search misses nothing nearer, failures keep what others found, reranking keeps all candidates, stale results are flagged, and a search ends |
| `search_shown` | violation | Of two workspaces with a chunk of the same relative path and lines only one is shown |
| `search_rerank` | violation | The reranker's timeout does not fire while its library runs |
| `tools` | pass | Embedders and stores implement what is promised of them; attempts are spent before a request is given up; chunks are where they say and neighbours stay together; graph, downloads, configurations, upgrade, exit codes of benchmarks and measures keep theirs |

Every violation contradicts a comment or document that its finding in `PROJECT.json` quotes.

What the properties leave out, and why:

- `SkippedFilesAreIndexed` excepts the files of `Returning`: `delete_stale_chunks` leaves their records, so that a file that comes back unchanged may stay without chunks for good. `ReturnedIsWholeOrHidden` says what is left. It compares ids and texts: a row whose text did not change is not stored again, so its lines, symbol and parent may be those of an older version (`engine/indexer.rs:541`).
- `SkippedFilesAreIndexed`, `FullRunMirrors` and `ReturnedIsWholeOrHidden` say of a file in `cut` that its chunks are there, not that they have vectors: a kill between the DELETEs of `delete_chunks_for_file` leaves chunks without, which `chunk_exists_with_hash` takes for unchanged when the file is indexed again (`engine/indexer.rs:541`), and its record then hides them from dense search for good.
- `indexer` has one runner. With two, `Clear` during the other's run leaves records of chunks that were cleared: this is `vec_reindex` with `full=true` (`mcp/handler.rs:470`) beside the worker. `AutoSync` has two, which do not clear.
- `StaleIsOnItsWay` needs that nobody edits before the catch-up is done (`CanRace`): otherwise the catch-up may overwrite what the worker stored with the older version it read. While the server is down files may only be written: the catch-up goes through the files table (`cli/serve.rs:241`) and finds neither new nor deleted files. And all files are text: one that becomes binary is skipped (`engine/indexer.rs:465`) and keeps the chunks and the record it had.
- `StaleIsOutdated` is about files that have a record and some chunks. A new file whose first sync fails has no record, and the catch-up does not find it. A file that is removed and created again while its removal is queued can lose its chunks and keep its new record if the server is killed between `delete_chunks_for_file` and `remove_file` (`cli/serve.rs:352`): TLC shows this when the condition `RowsOf(f) # {}` is dropped.
- `StaleIsBeingSynced` promises the record for any number of workers, the chunks for one. With two, one may store an old version's chunk after the other has deleted it and before the other writes the current record, and it stays. A root where a sync failed is left out, and so is an edit during a catch-up.
- `UnlistedIsHandled` is about a root with one worker: with two, each has a pending list of its own.
- The properties of `Lifecycle` except what `past` records (above) and a mock embedder's vectors, which nothing tells apart. `ConfiguredStaysReadable` excepts `cleared`: after it `index` refuses the metadata as corrupt and a server is let in with any provider.
- `FusionKeepsOrder` excepts a chunk that one of the lists has several times: over several workspaces the key is the relative path with the lines, every occurrence adds to the score (`engine/fusion.rs:40`), and a chunk may pass one that is ahead of it in both lists. It keeps the order only of scores further apart than `f32` can blur; that the higher one is computed is promised of all.
- `ExitTellsTheComparison` lets a value right at its tolerance go either way, leaves out `--mode all`, and promises nothing of a baseline's corpus and embedder.
- `CachedIsWhole` says nothing once one of two concurrent downloads of a part was stopped (`disturbed`): both write to one temporary name, and what is renamed may then be cut off for good.
- `OtherServersSurvive` excepts an agent that writes between a command's reading and its writing, whose edit is lost, and an uninstall stopped in the middle of its write, which has no temporary file as install has.
- `GraphIsOfTheFiles` is for files whose last three graph statements did not fail: their errors are dropped (`engine/indexer.rs:554`) and the chunks committed all the same.

Statements that no run claims, because TLC shows that they do not hold: `InitializedRootsAreServed` and `FoundIsReadable` of `Workspaces` (a root initialised later than the first call is not served; a path found in the second root is read in the first), and `IndexedIsSearchable` of `Lifecycle` (after a change of provider, files that are skipped keep no vector). Nor do the following, without the exceptions above:

- That dense search finds a file that is skipped, as the comment at `engine/indexer.rs:221` ("Now that all embeddings are safely stored") suggests: false after a deletion that was cut short.
- That no old chunk stays beside a current record, with two workers of one root.
- That what both lists agree on stays in that order over several workspaces.
- That metadata, once written, is complete: `vec_reindex` with `full=true` (`mcp/handler.rs:470`).
- That a baseline is of the corpus and embedder it is compared with (`benchmarks/baseline/SCHEMA.md:30-34`): neither `bench/verdict.rs:442-484` nor `cli/benchmark.rs:157-166` and `240-258` look. And that a difference that is exactly the tolerance is a regression (`SCHEMA.md:93`): in `f64` it may pass.

### What else reading the code showed

These are differences between code and comments, or surprises, that the models have as the code has them and that no run is about.

- Graph: `vec_find_callers` with a file names the file of the callee, not of the caller; the hint is compared as given; several definitions of one symbol use up the limit; the router lowercases the symbol it asks for; nodes of deleted files are never removed; an edge at the end of a definition counts as inside.
- Chunker: `extract_parent_context` is called with the large node itself; the comment on `MIN_CHUNK_SIZE` does not hold for children of large nodes and line windows; a chunk longer than 500 lines cannot be read back in one `vec_read_lines`; the outline skips declarations inside other declarations.
- LanceDB: the path filter is a prefix ending in a literal `%`; `get_callers` ignores the type of the edge; deletions leave edges; `fts_content` is read by nobody. A vector put before its chunk is an orphan row in SQLite and waits in LanceDB.
- Embedding: after an answer that was short by one vector the vectors already stored by a run that then fails stay where they are.
- Configuration: `Config::validate` (`config/schema.rs:74`) is called by tests only; with `concurrency = 0` the indexer's semaphore has no permit and `index_project` never ends; keys of `.env` do not override `config.toml` though `config/mod.rs:6` says so.
- Benchmarks: `--mode all --compare` compares nothing and exits 0 (`cli/benchmark.rs:83`); a baseline of another corpus or embedder is compared without a word, and one of the other kind fails only after indexing; an improvement of an absolute metric is a regression; `symbol_recall` may exceed 1; a later corpus that errors (exit 1) hides an earlier regression (exit 2).
- Upgrade: two at once may go back to the older version; gzip's own checksum is not read; an error after the replacement (`chmod`) leaves the new binary. install: a skill file that was cut off is repaired with `--force` only.

### Bounds

- `chunk_store`: three chunk ids in two files, two texts, two connections; `MaxVec` bounds the vector rowids, `MaxRowid` those of chunks. Enough for a rowid to be used again, for one chunk to be replaced while the other's file is being deleted, and for the counter to start again after `DROP TABLE`.
- `indexer`: two files, one of which may come back; two versions, of one size, that share a slot and lose a chunk; batches of two, so that a batch mixes files and the last one is short; `MaxMtime` bounds the writes. Two writes give a file that changes during a run and again after it.
- `auto_sync*`: in `auto_sync_crash` a third version is binary. Two files give batches with a modification and a removal; two writes (`MaxMtime`) a file that is held back, queued or synced in one version and written in another. Moves, which need no tick of the clock, happen only while fewer than `MaxBacklog` batches wait.
- `lifecycle*`: two embedders of different providers (the default; one whose vectors are longer than it declares, so that a failed probe makes a difference) and the mock, one chunk, one process that runs init, index and index --full and one server with vec_reindex, any older schema, any width. Each command may be stopped anywhere and others follow without bound. One chunk is enough since the statements about chunks are about each of them, and there are states with it stored, missing, and stored without its vector.
- `workspaces`: two roots, of which one is edited; two tool calls; the three ways to set up a root give it up to four workers. Two edits (`MaxVersion` is 4, and a file has version 2 at first) let a file be written while one worker syncs it and another has it queued; versions 1 and 2 have their chunk at one place, 3 and 4 at another, so that a chunk is replaced or deleted. A root is edited while it has no more than two workers (`MaxWorkers`), whose syncs interleave in every way; with more, it is edited no further.
- `search`: three keys in two workspaces; limits of one to three and `TopK` of two, so that a list is cut and a tail is not reranked; `RrfK` of one keeps weights apart that a larger one would keep apart too. Scores are whole numbers: `Scale`, here 420, is a multiple of every `RrfK + rank`, so that `1 / (k + rank)` is compared and added without rounding. `Blur` is 20 in `search`, which is less than one place in a list makes and makes some sums of two equal; the two violations need none (0).
- `tools`: five texts in batches of three and requests of two, so that the last batch and the last request are short, two retries, two tasks; files of eight bytes, chunks of two to four, windows of three lines, overlaps below and as large as the window; two files whose definitions nest, repeat and refer to what nobody defines; two processes and two pieces; two chunks in two files; one agent with two places and a project of its own; two versions and two builds; two corpora with measures on, just below and just above each tolerance, and at it both a pair that `f64` takes for less and one it does not.

Deadlock is not checked: the user may stop editing and everything then comes to rest, and the tools end.

### Fairness

- `auto_sync`: `WF` on `Flush`: the debouncer's timer fires. `WF` on `WorkerStep`, `ListOutdated` and `CatchUpStep`: the runtime polls its tasks, and a request to an embedder ends, since the HTTP clients have timeouts. In that run nothing fails.
- `workspaces`: `WF` on `Receive` and on each call's steps: the loop and its tasks are polled. The client need not answer the question it is asked.
- `search`: `WF` on `ServeStep`, the search's own steps without inference, which may hang.
- `tools`: `WF` on `EmbStep`: services answer, refuse or time out, sleeps end, and ONNX inference returns. The service may leave a vector out of its answer but adds none. `concurrency` is at least one.

Nothing is assumed of the user, of starting and stopping, or of failures. Weak fairness is enough because nothing disables a pending step of these tasks but the step itself.

## Proofs

Each theorem is proved from the assumption on the constants its module names.

- `ChunkStoreProofs`: `TypeOK`, `VectorMatchesText`, `MappingIsOwned`, `ChunkIsFindable` and `OnlyDeletionsHide`. None of the invariants is inductive by itself: `IInv` adds that chunk ids and rowids are unique and that no vector rowid in use is above the counter, so that a new vector cannot take the rowid a leftover mapping still names. Each operator on databases gets lemmas (what it preserves, what it leaves searchable), so the proof for an action is the composition of its operators' lemmas.
- `IndexerProofs`: the five properties of `indexer`, with at most one runner (`OneRunner`). `IInv` says of every stage of a run what has been stored: records found or made by the run name contents its file had (`Records`, `Seen`), a committed file's chunks are in `rows` or still to be embedded (`Built`, `Adds`), what the cleanup will delete (`Cleanup`), and that every chunk has its vector but those of files in `cut` (`VectorsAreEmbedded`). The key is that a file record is written only when nothing is left to embed, and that from the commit of a changed file on no record for its present contents exists. There is one lemma per action.
- `IndexerProofs` also has the three invariants of `AutoSync`. Nobody edits before the catch-up is done (`CanRace` is false), so worker and catch-up take turns (`ServedCalmly`: `Calm`) and the invariant of `Indexer` carries over: every step of a run is a step of `Indexer`, and what the worker does besides (deleting chunks and records of removed files) keeps it. `StaleIsOutdated` follows, for any failures and kills: a current record whose file has chunks is of those chunks, so a file that is wrong has a record older than the disk, which is what the catch-up looks for. Moves are excluded there, since a moved file keeps its mtime. `StaleIsOnItsWay` and `RemovedIsOnItsWay` are proved with moves while the server is up, under `Undisturbed`, which is what the run `auto_sync` assumes; its invariant `NothingLost` (TLC checked it on that instance first) needs more than either property. For a file that is there: whoever will delete its chunks will sync it afterwards (`ModFollows`), a run that read an older version will be followed by another (`ReadAgain`), and before the first start its mtime gives it away (`Known`). For one that is gone: after the last batch that would index it comes one that deletes (`Gone`).
- `PortProofs`: the two ports that have several implementations. `StoresKeepTheContract`, that both stores implement the contract. For SQLite the invariant `DInv` is that ids are keys, that a mapping names a vector that is there and is owned, that postings are those of the rows, and that the counter is above every vector; a lemma per operation says what a search finds in the database afterwards, and a lemma per call that it is the contract's. `RetriesAreSpent` of the embedders: a request's attempt and its place in it tell how often it was asked (`Counts`), and the number of attempts it has (`Most`) is the provider's, which stays the same for a run. And the safety part of `EmbeddingKeepsItsPromise` (`EmbeddingRefinesThePromise`): every step of `Embedding` is a step of `EmbedAll` or changes nothing it sees. Every way of reading an answer gives all the texts' own vectors or fewer vectors than texts (`Reply`): numbers that grow within 1..n in n places are 1..n, which is why sorting by index restores the order, and slices of equal length are where they were put when they were flattened, which is what ONNX's output relies on. The invariant (`Embeds`) says that a task has the vectors of the requests it has an answer to, in order, unless an answer left a text out, and then some task stays behind (`Lacking`); that a text has a vector exactly when its batch was joined (`Covered`); and that as many were counted. So a run that counts as many vectors as texts left none out. It rests on where batches and requests begin (`PieceIs`, `EachInItsBatch`). `FlattenSeq` is recursive; what it computes is found by a least number for which it does not.
- `FileProofs` is about what is derived from one file's text. The graph: `GraphIsOfTheFiles` and `AnswersAreOfTheFiles`. Ids begin with their file, an edge's source is a node (the foreign key), and the part of every file that is not refused is what is extracted from its last contents. One lemma per statement says that it leaves other files' parts alone. That a place has an innermost definition is by well-foundedness of the numbers. The answers follow from it: in a graph that is of the files every edge is a reference and has its source, and a node of the symbol is there if and only if a file defines it, so the rows a query finds before its limit name exactly the referrers. The chunker: `ChunksAreWhereTheySay` and `NeighboursStayTogether`, from `SourcesAssumption`, which is what tree-sitter promises of a tree: finitely many nodes, not empty, within the file, and of two nodes one inside the other or both apart. Three facts carry it. A line is the number of line starts up to a byte, so lines grow with bytes, and the offsets a node or file is cut at are its line starts in order (a finite set of numbers has one element at each rank). The walk over a node is recursive: what it yields is unfolded by a least node size for which it would not hold, and each chunk is then of the node itself, of a child, or a window of it, so that chunks of two children are as far apart as the children. And a window begins where the one before it ends, less the overlap, so that for any line there is a last window that begins at or before it, and that one reaches `overlap` lines further, or ends with the text.
- `CommandProofs` has one theorem each of five modules of commands. `CachedIsWhole`: two downloads share a temporary file, so the invariant is that a file the cache names is whole or has a writer that still has to write all that is missing. `OtherServersSurvive`: the invariant is that what a command has read is what others wrote last, unless they wrote since. `OnlyVerifiedReplaces`: by following what was downloaded, and what its checksum was compared with, to the replacement. `ExitTellsTheComparison`: what was compared and what is left are the corpora that were asked for, and the worst result so far is that of a comparison; a value inside its tolerance passes, one beyond it does not, and one right at it goes as `RoundsIn` says, which is arithmetic over natural numbers. `MeasuresAreFractions`, from `QualityAssumption` (discounts fall, scores, grades and latencies are not negative, a repository has finitely many files): no state but the last measurement matters, so the invariant is the property and what a corpus looks like (`Prepared`), and the work is in the measures. A sum over a finite set is unfolded by a set of least size for which it would not hold (`TotalOf`: every element counts once, whichever is taken first). Of sets of one size the one that leaves out nothing greater has the greatest total (`TopIsMost`), so after every number of places the ideal ranking is ahead of any other (`WorthOfPlaces`), and since discounts fall it stays ahead when they are applied, and is level only if it was level all the way (`Discounted`, a sum by parts). Recall counts an injective image; a percentile exists since the least sample with enough samples up to it has fewer below it (`AscendingIs`).
- `WorkspacesProofs`: `StaleIsBeingSynced` and `UnlistedIsHandled`, for any roots and calls and, the first, however many workers a root gets. Every watcher hears of every edit, so the invariant of the records (`IInv`, with `Follows`) is about each worker alone: what it is about to record is up to date, or it has an event or a batch of its own before it. Then whichever worker writes an old record last will sync again (`Attended`). A catch-up has no such batch; what it is about to store is up to date because the bound `Calm` lets nobody edit while one is under way. The chunks have an invariant beside it (`ChunksInv`) for a root with one worker, whose sync nobody disturbs: by the time it writes the record, the chunk of that version is the only one. The second adds what a worker knows that is about to take a path off the list (`Handled`): if its root has no other worker, the index is up to date or something is coming, and nobody else can change that in between. It is about one worker because two have lists of their own.
- `LifecycleProofs`: the four invariants of `lifecycle` and `UpgradeIsComplete`, each from an inductive invariant of its own beside the types (`LifecycleTypeOK`, whose `Place` says where each command can be): `UpgradeInv` (the version a migration started from is that of the database until one sets it, and what it has brought over stays), `StoreInv` (whoever has created the table and not yet set the dimensions has the width of the table), `ReadInv` (which keys are there at each step of `write_index_meta`), `ServeInv` (what they say at each step of `index`), and `PureInv` with `DirInv` (whoever builds the directory is alone in it; every vector and every process that embeds is of the embedder the metadata names). `UpgradesAreComplete`, `ReadableStores` and `StaysReadable` are for any processes at once. `IndexedServes` and `AdmittedIsPure` assume that one process runs init, index and index --full (`OneCommandLine`), beside any number of servers; `AdmittedIsPure` also that two models of one provider differ in their dimensions (`Distinguishable`): the meta table is not compared by model (`mcp/handler.rs`), so otherwise the code admits the other model's vectors. All commands and events are in, `init --index`, `vec_reindex` with `full=true` and an `index --full` that is killed too; the exceptions are those of `past`. Two things are in the module itself: the user removes `.vectorcode` only while nothing runs, and a process whose file `index --full` has removed is left out from there, since it goes on with a file nobody else sees.
- `SearchProofs`: the five invariants of `search`, for any workspaces, rows, limits, thresholds, `rrf_k` and `Blur`. Sorting, filtering and cutting are given by places in an order: a finite set with a total order has exactly one element at each place (by injections of finite sets), so a sorted list keeps the elements, and what a cut leaves out is behind what it leaves in. For the fusion, of one workspace or several: a chunk's score is the sum over all its occurrences, weights fall with the rank, and a chunk that no list has twice has one weight in each; what is ahead of it in both lists has the greater sum, and is fused ahead of it if the sums are further apart than `Blur`, whichever way the others fall. `IInv` has a part for each stage: a retriever's answer is the one that was asked for or nothing (`Answered`), whatever is out of date is on the list shown (`Noted`), and the list before reranking is the fusion of both (`Fused`). `FailureKeepsOthers` needs a limit above zero, which the code does not check.

Left to TLC: the violations and liveness: that of `AutoSync`, `Workspaces` and `Search`, and that an embedding ends (the fairness of `EmbedAll`), which are out of the prover's reach. Where a property depends on what a recursive definition computes (chunks of a tree, flattened answers, sums), its defining equation is proved instead of cited from a library, by least counterexamples, because the induction theorems take an operator the provers cannot instantiate.

## Not modelled

- tree-sitter's grammars and queries, ONNX inference, SQL's escaping and the scores of FTS5 and sqlite-vec: libraries. The models have them as any answer they could give.
- The `vectors_data` fallback, which is used only if sqlite-vec cannot be loaded.
- The metadata, file records and graph views of the trait `Store`, which pass calls through.
- The rules of `.gitignore` in the watcher (a library) and `vec_status` (it only reads).
- Merging the configuration files: sequential, and what it yields is a constant of `Lifecycle` and `Embedding`.
- `compare_reports`, `apply_slo` and `verdict_summary`, which only tests call; the reports' layout; `benchmarks/agent_eval`, a separate harness.
- Argument parsing and printing.

What would come next: `Indexer` as an implementation of an abstract index that changes one file at a time.

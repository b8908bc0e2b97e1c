------------------------------ MODULE Lifecycle ------------------------------
(***************************************************************************)
(* The life of one project's .vectorcode directory: `vectorcode init`,     *)
(* `index` and `index --full`, a server that starts on it, and the tool    *)
(* vec_reindex.  The database is migrated from older schemas, its vector   *)
(* tables are recreated when the configured provider changes, and its meta *)
(* table, which says which provider made the vectors, is written key by    *)
(* key.  A process may stop after any statement.                           *)
(*                                                                         *)
(* Every statement that is committed on its own is a step.  Chunks do      *)
(* not change here: a run embeds those that are not stored (Indexer has    *)
(* the rest), and a vector is named by the embedder that made it.          *)
(***************************************************************************)
EXTENDS Naturals, FiniteSets

CONSTANTS
  Proc,        \* processes
  May,         \* [Proc -> SUBSET Command]: the commands each of them runs
  Chunk,       \* chunks of the project's files
  Embedder,    \* what config.toml can name: a provider with a model
  Kind,        \* [Embedder -> [provider, declared, real]]: dimensions() and what embed() returns
  DefaultOf,   \* the embedder of Config::default()
  Mock,        \* MockEmbedder, used when the configured one cannot be created
  DefaultDims, \* get_embedding_dims without a meta table
  OldVersion,  \* schema versions of databases older programs left behind
  Happens,     \* what may happen besides: see Event
  None

Command == {"init", "index", "full", "serve", "reindex", "clear"}

Event ==
  {"crash",      \* a process stops after any of its statements
   "noembedder", \* the configured embedder cannot be created
   "noprobe",    \* it can, but probe_dimensions fails
   "edit",       \* the user names another embedder in config.toml
   "purge"}      \* the user removes .vectorcode/

(* What may have become of an index.db that the properties except: the     *)
(* code has no guard against any of these.                                 *)
Past ==
  {"cleared",    \* vec_reindex with full=true emptied the meta table
   "removed",    \* index --full removed the file, and has not written its metadata
   "resized",    \* init_schema was given other dimensions than vec_chunks has
   "unlisted",   \* a server was let in while there was no metadata
   "overtaken",  \* index changed the provider beside a process that had read the old one
   "rebuilt"}    \* index --full ran after a change of provider

Dims == {Kind[e].declared : e \in Embedder} \cup {Kind[e].real : e \in Embedder}
SchemaVersion == 4

ASSUME LifecycleAssumption ==
  /\ None \notin Embedder \cup {Mock} /\ Mock \notin Embedder /\ DefaultOf \in Embedder
  /\ May \in [Proc -> SUBSET Command] /\ Happens \subseteq Event
  /\ Dims \subseteq Nat \ {0} /\ DefaultDims \in Nat \ {0}
  /\ OldVersion \subseteq 1 .. SchemaVersion - 1

VARIABLES
  dir,     \* .vectorcode/ exists
  lock,    \* .vectorcode.init.lock exists
  config,  \* what config.toml names, or None
  db,      \* index.db, or None
  tree,    \* the chunks of the files that are there
  run,     \* what each process is doing
  past     \* of the index.db that is there: history, read by the properties only

vars == <<dir, lock, config, db, tree, run, past>>

Maker == Embedder \cup {Mock}
Provider == {Kind[e].provider : e \in Embedder}

(* The tables.  `stats` stands for the five meta keys written after the    *)
(* dimensions; edims is the key embedding_dims, which only init_schema and *)
(* recreate_vector_index write; 0 is a missing number.                     *)
Database ==
  [version: 0 .. SchemaVersion,
   provider: Provider \cup {None}, model: Maker \cup {None}, dims: Dims \cup {0}, stats: BOOLEAN,
   edims: Dims \cup {0},
   table: Dims \cup {0},                   \* dimensions of vec_chunks
   chunks: SUBSET Chunk, posted: SUBSET Chunk,
   vec: [Chunk -> Maker \cup {None}],       \* chunk_vec_map with vec_chunks
   json: [Chunk -> Embedder \cup {None}]]   \* vectors_data, of schema 1

EmptyDatabase ==
  [version |-> 0, provider |-> None, model |-> None, dims |-> 0, stats |-> FALSE, edims |-> 0,
   table |-> 0, chunks |-> {}, posted |-> {},
   vec |-> [c \in Chunk |-> None], json |-> [c \in Chunk |-> None]]

(* The index an older program made with embedder e: JSON vectors before    *)
(* schema 2, no full-text index before schema 3.  vec_chunks may be of a   *)
(* width that the metadata does not name.                                  *)
OldDatabase(v, e, cs, dims, width) ==
  LET made == [c \in Chunk |-> IF c \in cs THEN e ELSE None]
  IN [EmptyDatabase EXCEPT
        !.version = v, !.provider = Kind[e].provider, !.model = e, !.dims = dims,
        !.stats = TRUE, !.edims = dims, !.chunks = cs,
        !.table = IF v > 1 THEN width ELSE 0,
        !.vec = IF v > 1 THEN made ELSE @,
        !.json = IF v = 1 THEN made ELSE @,
        !.posted = IF v > 2 THEN cs ELSE {}]

ASSUME NoneAssumption == None \notin Provider /\ None \notin Database

Opened == IF db = None THEN EmptyDatabase ELSE db

-----------------------------------------------------------------------------
(* Reading the database. *)

\* read_index_meta returns Some
Complete(d) == d.provider # None /\ d.model # None /\ d.dims # 0 /\ d.stats

\* what insert_vector pads and cuts an embedding to
InsertDims(d) == IF d.edims = 0 THEN DefaultDims ELSE d.edims

\* vec0 refuses a vector of another length
CanStore(d) == d.table = InsertDims(d)

Configured == IF config = None THEN DefaultOf ELSE config

\* the checks of try_init_workspace: no meta at all passes, half of it is an error
Admits(e, d) ==
  \/ d.provider = None
  \/ Complete(d) /\ d.dims = Kind[e].declared /\ d.provider = Kind[e].provider

-----------------------------------------------------------------------------
NoMeta == [provider |-> None, model |-> None, dims |-> 0]

(* A process: the step it is at, and the one it goes to after init_schema, *)
(* which read the version `from` and was given `dims`; the embedder it     *)
(* uses, and what it writes to the meta table.                             *)
Idle ==
  [cmd |-> "none", at |-> "none", then |-> "none", from |-> 0, dims |-> 0,
   use |-> None, new |-> NoMeta]

\* dimensions() tells the truth
Exact(e) == Kind[e].declared = Kind[e].real

Init ==
  /\ tree \in SUBSET Chunk
  /\ lock = FALSE
  /\ run = [p \in Proc |-> Idle]
  /\ past = {}
  /\ \/ dir = FALSE /\ config = None /\ db = None
     \/ /\ dir = TRUE
        /\ config \in Embedder
        /\ \E v \in OldVersion, e \in Embedder, cs \in SUBSET Chunk, width \in Dims :
             \E dims \in {Kind[e].declared, Kind[e].real} :
               db = OldDatabase(v, e, cs, dims, width)

Resting == \A p \in Proc : run[p] = Idle
At(p, step) == run[p].at = step
Goto(p, step) == run' = [run EXCEPT ![p].at = step]
Stop(p) == run' = [run EXCEPT ![p] = Idle]

-----------------------------------------------------------------------------
(* `vectorcode init`.  The directory is looked for before the lock is      *)
(* taken; an error after that leaves the lock behind, as a crash does.     *)
(* With --index it embeds, always with the mock embedder.                  *)
StartInit(p, e, probed) ==
  /\ "init" \in May[p] /\ run[p] = Idle /\ ~dir
  /\ \E use \in {None, Mock} :
       run' = [run EXCEPT ![p] =
         [cmd |-> "init", at |-> "lock", then |-> "provider", from |-> 0, dims |-> probed, use |-> use,
          new |-> [provider |-> Kind[e].provider, model |-> e, dims |-> probed]]]
  /\ UNCHANGED <<dir, lock, config, db, tree, past>>

TakeLock(p) ==
  /\ At(p, "lock")
  /\ lock' = TRUE
  /\ IF lock THEN Stop(p) ELSE Goto(p, "mkdir")
  /\ UNCHANGED <<dir, config, db, tree, past>>

MakeDirectory(p) ==
  /\ At(p, "mkdir")
  /\ dir' = TRUE
  /\ Goto(p, "schema")
  /\ UNCHANGED <<lock, config, db, tree, past>>

WriteConfig(p) ==
  /\ At(p, "config")
  /\ config' = run[p].new.model
  /\ Goto(p, IF run[p].use = None THEN "unlock" ELSE "embed")
  /\ UNCHANGED <<dir, lock, db, tree, past>>

ReleaseLock(p) ==
  /\ At(p, "unlock")
  /\ lock' = FALSE
  /\ Stop(p)
  /\ UNCHANGED <<dir, config, db, tree, past>>

-----------------------------------------------------------------------------
(* init_schema, statement by statement. *)

SchemaIsDone(p) ==
  run' = [run EXCEPT ![p].at = run[p].then, ![p].then = "none", ![p].from = 0]

BeginSchema(p) ==
  /\ At(p, "schema")
  /\ db' = Opened
  /\ IF Opened.version >= SchemaVersion
     THEN SchemaIsDone(p)
     ELSE run' = [run EXCEPT ![p].at = "table", ![p].from = Opened.version]
  /\ UNCHANGED <<dir, lock, config, tree, past>>

\* CREATE ... IF NOT EXISTS: a table of another width is kept
CreateTable(p) ==
  /\ At(p, "table")
  /\ db' = [db EXCEPT !.table = IF @ = 0 THEN run[p].dims ELSE @]
  /\ past' = IF db.table \in {0, run[p].dims} THEN past ELSE past \cup {"resized"}
  /\ Goto(p, "edims")
  /\ UNCHANGED <<dir, lock, config, tree>>

SetDimensions(p) ==
  /\ At(p, "edims")
  /\ db' = [db EXCEPT !.edims = run[p].dims]
  /\ Goto(p, IF run[p].from = 1 THEN "json" ELSE "postings")
  /\ UNCHANGED <<dir, lock, config, tree, past>>

\* vectors_data to vec_chunks, in one transaction; embeddings are cut or padded
MigrateVectors(p) ==
  /\ At(p, "json")
  /\ IF db.table # run[p].dims /\ \E c \in Chunk : db.json[c] # None
     THEN Stop(p) /\ db' = db
     ELSE /\ Goto(p, "postings")
          /\ db' = [db EXCEPT !.vec = [c \in Chunk |-> IF db.json[c] = None THEN @[c] ELSE db.json[c]]]
  /\ UNCHANGED <<dir, lock, config, tree, past>>

OnlyOfTwo(v) == v = 2

LacksPostings(v) == v \in {1, 2}

RebuildPostings(p) ==
  /\ At(p, "postings")
  /\ db' = IF LacksPostings(run[p].from) THEN [db EXCEPT !.posted = db.chunks] ELSE db
  /\ Goto(p, "version")
  /\ UNCHANGED <<dir, lock, config, tree, past>>

SetVersion(p) ==
  /\ At(p, "version")
  /\ db' = [db EXCEPT !.version = SchemaVersion]
  /\ SchemaIsDone(p)
  /\ UNCHANGED <<dir, lock, config, tree, past>>

(* write_index_meta: one statement for each key. *)

WriteProvider(p) ==
  /\ At(p, "provider")
  /\ db' = [db EXCEPT !.provider = run[p].new.provider]
  /\ Goto(p, "model")
  /\ UNCHANGED <<dir, lock, config, tree, past>>

WriteModel(p) ==
  /\ At(p, "model")
  /\ db' = [db EXCEPT !.model = run[p].new.model]
  /\ Goto(p, "dims")
  /\ UNCHANGED <<dir, lock, config, tree, past>>

WriteDims(p) ==
  /\ At(p, "dims")
  /\ db' = [db EXCEPT !.dims = run[p].new.dims]
  /\ Goto(p, "stats")
  /\ UNCHANGED <<dir, lock, config, tree, past>>

WriteStats(p) ==
  /\ At(p, "stats")
  /\ db' = [db EXCEPT !.stats = TRUE]
  /\ past' = IF run[p].cmd = "full" THEN past \ {"removed"} ELSE past
  /\ Goto(p, IF run[p].cmd = "init" THEN "config" ELSE "embed")
  /\ UNCHANGED <<dir, lock, config, tree>>

-----------------------------------------------------------------------------
(* `vectorcode index`.  `use` is the embedder it gets, `actual` what       *)
(* probe_dimensions or, when that fails, dimensions() answers.             *)
Obtainable(e) == {e} \cup (IF "noembedder" \in Happens THEN {Mock} ELSE {})

Probed(e) == {Kind[e].real} \cup (IF "noprobe" \in Happens THEN {Kind[e].declared} ELSE {})

DimensionsChanged(e, actual) == Opened.dims # actual

ProviderChanged(e, actual) == Opened.dims # actual \/ Opened.provider # Kind[e].provider

\* index --full writes the metadata it found once more
StartIndex(p, full) ==
  /\ (IF full THEN "full" ELSE "index") \in May[p] /\ run[p] = Idle /\ dir
  /\ db' = Opened
  /\ IF Complete(Opened)
     THEN \E use \in Obtainable(Configured) :
          \E actual \in IF use = Mock THEN {db.dims} ELSE Probed(Configured) :
            run' = [run EXCEPT ![p] =
              [cmd |-> IF full THEN "full" ELSE "index", at |-> "schema",
               then |-> IF full THEN "remove"
                        ELSE IF ProviderChanged(Configured, actual) THEN "recreate" ELSE "embed",
               from |-> 0, dims |-> db.dims, use |-> use,
               new |-> IF full THEN [provider |-> db.provider, model |-> db.model, dims |-> db.dims]
                       ELSE [provider |-> Kind[Configured].provider, model |-> use, dims |-> actual]]]
     ELSE UNCHANGED run
  /\ UNCHANGED <<dir, lock, config, tree, past>>

\* what p embeds is not what it writes to the meta table
Mislabels(p) ==
  run[p].use # Mock
  /\ (run[p].new.dims # Kind[run[p].use].real \/ run[p].new.provider # Kind[run[p].use].provider)

\* index --full: whoever has the file open keeps a file nobody else sees, and is left out from here
RemoveDatabase(p) ==
  /\ At(p, "remove")
  /\ db' = None
  /\ run' = [q \in Proc |->
       IF q = p THEN [run[p] EXCEPT !.at = "schema", !.then = "provider"] ELSE Idle]
  /\ past' = {"removed"} \cup (IF Mislabels(p) THEN {"rebuilt"} ELSE {})
  /\ UNCHANGED <<dir, lock, config, tree>>

RecreatedForDims(d, dims) ==
  IF d.table = dims THEN d
  ELSE [d EXCEPT !.table = dims, !.edims = dims, !.vec = [c \in Chunk |-> None]]

RecreatedTable(d, dims) == [d EXCEPT !.table = dims, !.vec = [c \in Chunk |-> None]]

RecreatedAll(d, dims) ==
  [EmptyDatabase EXCEPT !.version = d.version, !.table = dims, !.edims = dims]

Recreated(d, dims) ==
  [d EXCEPT !.table = dims, !.edims = dims, !.vec = [c \in Chunk |-> None]]

InSchema(p) == run[p].at \in {"table", "edims", "json", "postings", "version"}

\* q was there before p changed the provider: with another embedder, or inside init_schema
Overtaken(p, q) == run[q] # Idle /\ (run[q].use # run[p].use \/ InSchema(q))

RecreateVectorIndex(p) ==
  /\ At(p, "recreate")
  /\ db' = Recreated(db, run[p].new.dims)
  /\ past' = IF \E q \in Proc \ {p} : Overtaken(p, q) THEN past \cup {"overtaken"} ELSE past
  /\ Goto(p, "provider")
  /\ UNCHANGED <<dir, lock, config, tree>>

\* the skips leave out what is stored
Missing == tree \ db.chunks

(* A chunk is stored with its vector; a run that cannot store one fails.   *)
EmbedChunk(p, c) ==
  /\ At(p, "embed") \/ At(p, "serving")
  /\ c \in Missing /\ CanStore(db)
  /\ db' = [db EXCEPT !.chunks = @ \cup {c}, !.posted = @ \cup {c}, !.vec[c] = run[p].use]
  /\ UNCHANGED <<dir, lock, config, tree, run, past>>

EndEmbedding(p) ==
  /\ At(p, "embed")
  /\ \/ Missing = {} /\ Goto(p, CASE run[p].cmd = "init" -> "unlock"
                                  [] run[p].cmd = "serve" -> "serving"
                                  [] OTHER -> "finish")
     \/ /\ Missing # {} /\ ~CanStore(db)
        /\ IF run[p].cmd = "serve" THEN Goto(p, "serving") ELSE Stop(p)
  /\ UNCHANGED <<dir, lock, config, db, tree, past>>

\* update_meta_stats, which also writes into an empty meta table
Finish(p) ==
  /\ At(p, "finish")
  /\ Stop(p)
  /\ UNCHANGED <<dir, lock, config, db, tree, past>>

-----------------------------------------------------------------------------
(* The server: try_init_workspace, and vec_reindex. *)

StartServer(p) ==
  /\ "serve" \in May[p] /\ run[p] = Idle /\ dir
  /\ run' = [run EXCEPT ![p] =
       [cmd |-> "serve", at |-> "schema", then |-> "check", from |-> 0,
        dims |-> Kind[Configured].declared, use |-> Configured, new |-> NoMeta]]
  /\ UNCHANGED <<dir, lock, config, db, tree, past>>

\* p has the metadata of a changed provider still to write
Changing(p) == run[p].cmd = "index" /\ run[p].at \in {"provider", "model", "dims"}

CheckProvider(p) ==
  /\ At(p, "check")
  /\ IF Admits(run[p].use, db)
     THEN /\ Goto(p, "serving")
          /\ past' = past \cup (IF db.provider = None THEN {"unlisted"} ELSE {})
                     \cup (IF \E q \in Proc : Changing(q) /\ run[q].use # run[p].use
                           THEN {"overtaken"} ELSE {})
     ELSE Stop(p) /\ past' = past
  /\ UNCHANGED <<dir, lock, config, db, tree>>

\* clear_database keeps the version and the vector table
Cleared(d) ==
  [EmptyDatabase EXCEPT !.version = d.version, !.table = d.table]

Reindex(p, full) ==
  /\ (IF full THEN "clear" ELSE "reindex") \in May[p] /\ At(p, "serving")
  /\ IF full
     THEN /\ db' = Cleared(db) /\ past' = past \cup {"cleared"}
          /\ run' = [run EXCEPT ![p].at = "schema", ![p].then = "embed"]
     ELSE Goto(p, "embed") /\ UNCHANGED <<db, past>>
  /\ UNCHANGED <<dir, lock, config, tree>>

-----------------------------------------------------------------------------
(* The user, and processes that stop. *)

Halt(p) ==
  /\ run[p] # Idle
  /\ At(p, "serving") \/ "crash" \in Happens
  /\ Stop(p)
  /\ UNCHANGED <<dir, lock, config, db, tree, past>>

EditConfig(e) ==
  /\ "edit" \in Happens /\ config # None
  /\ config' = e
  /\ UNCHANGED <<dir, lock, db, tree, run, past>>

\* rm -rf .vectorcode/, and the stale lock with it, while nothing runs
Purge ==
  /\ "purge" \in Happens /\ Resting
  /\ dir' = FALSE /\ lock' = FALSE /\ config' = None /\ db' = None
  /\ past' = {}
  /\ UNCHANGED <<tree, run>>

AddChunk(c) ==
  /\ c \notin tree
  /\ tree' = tree \cup {c}
  /\ UNCHANGED <<dir, lock, config, db, run, past>>

InitStep(p) ==
  \/ \E e \in Embedder : \E dims \in {Kind[e].declared, Kind[e].real} : StartInit(p, e, dims)
  \/ TakeLock(p) \/ MakeDirectory(p) \/ WriteConfig(p) \/ ReleaseLock(p)

SchemaStep(p) ==
  \/ BeginSchema(p) \/ CreateTable(p) \/ SetDimensions(p) \/ MigrateVectors(p)
  \/ RebuildPostings(p) \/ SetVersion(p)

MetaStep(p) == WriteProvider(p) \/ WriteModel(p) \/ WriteDims(p) \/ WriteStats(p)

IndexStep(p) ==
  \/ \E full \in BOOLEAN : StartIndex(p, full)
  \/ RemoveDatabase(p) \/ RecreateVectorIndex(p)
  \/ \E c \in Chunk : EmbedChunk(p, c)
  \/ EndEmbedding(p) \/ Finish(p)

ServerStep(p) ==
  \/ StartServer(p) \/ CheckProvider(p)
  \/ \E full \in BOOLEAN : Reindex(p, full)

UserStep == (\E e \in Embedder : EditConfig(e)) \/ Purge \/ \E c \in Chunk : AddChunk(c)

Next ==
  \/ \E p \in Proc :
       InitStep(p) \/ SchemaStep(p) \/ MetaStep(p) \/ IndexStep(p) \/ ServerStep(p) \/ Halt(p)
  \/ UserStep

Spec == Init /\ [][Next]_vars

-----------------------------------------------------------------------------
(* Properties. *)

(* An index that try_init_workspace would accept for an embedder holds no  *)
(* vector of another one, whatever processes stopped half way: vectors are *)
(* dropped before the meta table names the new provider, key by key.       *)
(* Vectors of the mock embedder do get in, which index and init --index    *)
(* fall back on.  Nothing in the code keeps a server from being let in     *)
(* before there is metadata or from going on while index changes the       *)
(* provider, nor index --full from embedding with a changed provider.      *)
AdmittedIndexIsPure ==
  db # None /\ db.provider # None /\ past \cap {"unlisted", "overtaken", "rebuilt"} = {} =>
    \A e \in Embedder : Admits(e, db) => \A c \in Chunk : db.vec[c] \in {e, Mock, None}

(* Once init has written config.toml, no stop of a later command leaves a  *)
(* meta table that `index` refuses as corrupt, but for an index --full     *)
(* stopped on its way.  vec_reindex with full=true empties the meta table, *)
(* and nothing fills it again.                                             *)
ConfiguredStaysReadable ==
  config # None /\ past \cap {"cleared", "removed"} = {} => db # None /\ Complete(db)

(* Whoever has a complete meta table in front of it inserts vectors of the *)
(* length vec_chunks was created with: embedding_dims and the table change *)
(* together, unless init_schema found a table of another width, worked on  *)
(* while index made the table anew, or the meta table was emptied.         *)
ReadableCanStore ==
  /\ db # None /\ Complete(db) /\ db.version = SchemaVersion
  /\ past \cap {"cleared", "resized", "overtaken"} = {}
  => CanStore(db)

(* When `index` is done, the server accepts the configuration it was run   *)
(* with, if the provider's dimensions() is the length of its embeddings.   *)
IndexedIsServable ==
  \A p \in Proc :
    /\ run[p].cmd = "index" /\ At(p, "finish")
    /\ run[p].use # Mock /\ Exact(run[p].use)
    => Admits(run[p].use, db)

(* What init_schema is to bring over is there when it sets the version:    *)
(* all chunks are in the full-text index, and the JSON vectors of schema 1 *)
(* in vec_chunks, also after any number of migrations that were cut short. *)
UpgradeIsComplete ==
  [][db # None /\ db' # None /\ db.version < SchemaVersion /\ db'.version = SchemaVersion =>
       \A c \in db'.chunks :
         c \in db'.posted /\ (db'.json[c] # None => db'.vec[c] = db'.json[c])]_vars

(* What the message of ProviderMismatch promises: after `index --full` the *)
(* configured provider is served.                                          *)
RebuiltIsServable ==
  \A p \in Proc :
    /\ run[p].cmd = "full" /\ At(p, "finish")
    /\ run[p].use # Mock /\ Exact(run[p].use)
    => Admits(run[p].use, db)

(* What recreate_vector_index promises: the run after it embeds all the    *)
(* chunks there are.                                                       *)
IndexedIsSearchable ==
  \A p \in Proc :
    run[p].cmd = "index" /\ At(p, "finish") => \A c \in db.chunks : db.vec[c] # None
=============================================================================

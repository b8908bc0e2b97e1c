-------------------------- MODULE LifecycleProofs --------------------------
(***************************************************************************)
(* Proofs about Lifecycle.  Each property has an inductive invariant of    *)
(* its own, which says for every step a process can be at what the         *)
(* database looks like; all of them rest on the type invariant, which says *)
(* at which steps a command can be.                                        *)
(***************************************************************************)
EXTENDS Lifecycle, TLAPS

(* At most one process is started from the command line; there may be any  *)
(* number of servers.                                                      *)
OneCommandLine ==
  \A p, q \in Proc : p # q =>
    May[p] \cap {"init", "index", "full"} = {} \/ May[q] \cap {"init", "index", "full"} = {}

(* Two models of one provider have no dimensions in common, neither those  *)
(* they declare nor those they have.                                       *)
DimsOf(e) == {Kind[e].declared, Kind[e].real}
Distinguishable ==
  \A e, f \in Embedder :
    Kind[e].provider = Kind[f].provider /\ DimsOf(e) \cap DimsOf(f) # {} => e = f

-----------------------------------------------------------------------------
(* Types. *)

Schema == {"table", "edims", "json", "postings", "version"}
Early  == {"schema"} \cup Schema
Writing == {"provider", "model", "dims", "stats"}
Step ==
  {"none", "lock", "mkdir", "config", "embed", "unlock", "recreate", "remove", "finish", "check",
   "serving"} \cup Early \cup Writing

Runs ==
  [cmd : Command \cup {"none"}, at : Step, then : Step, from : 0 .. SchemaVersion,
   dims : Dims \cup {0}, use : Maker \cup {None},
   new : [provider : Provider \cup {None}, model : Maker \cup {None}, dims : Dims \cup {0}]]

Described(r) == r.new.provider # None /\ r.new.model # None /\ r.new.dims # 0

\* Where a command can be.
Place(r) ==
  \/ r = Idle
  \/ /\ r.cmd = "init" /\ Described(r) /\ r.new.model \in Embedder /\ r.use \in {None, Mock}
     /\ \/ r.at \in {"lock", "mkdir"} \cup Early /\ r.then = "provider"
        \/ r.at \in Writing \cup {"config", "embed", "unlock"} /\ r.then = "none"
  \/ /\ r.cmd = "index" /\ Described(r) /\ r.use \in Maker
     /\ \/ r.at \in Early /\ r.then \in {"recreate", "embed"}
        \/ r.at \in Writing \cup {"recreate", "embed", "finish"} /\ r.then = "none"
  \/ /\ r.cmd = "full" /\ Described(r) /\ r.use \in Maker
     /\ \/ r.at \in Early /\ r.then \in {"remove", "provider"}
        \/ r.at \in Writing \cup {"remove", "embed", "finish"} /\ r.then = "none"
  \/ /\ r.cmd = "serve" /\ r.use \in Embedder
     /\ \/ r.at \in Early /\ r.then \in {"check", "embed"}
        \/ r.at \in {"check", "embed", "serving"} /\ r.then = "none"

\* The steps before there is a database.
Before == {"none", "lock", "mkdir", "schema"}

LifecycleTypeOK ==
  /\ dir \in BOOLEAN
  /\ lock \in BOOLEAN
  /\ config \in Embedder \cup {None}
  /\ db \in Database \cup {None}
  /\ tree \subseteq Chunk
  /\ run \in [Proc -> Runs]
  /\ past \subseteq Past
  /\ \A p \in Proc :
       /\ Place(run[p])
       /\ run[p] # Idle => run[p].dims # 0 /\ run[p].cmd \in May[p]
       /\ run[p].at \notin Before => db # None

LEMMA KindsAre ==
  ASSUME NEW e \in Embedder
  PROVE  /\ Kind[e].provider \in Provider /\ Kind[e].provider # None
         /\ Kind[e].declared \in Dims /\ Kind[e].declared # 0
         /\ Kind[e].real \in Dims /\ Kind[e].real # 0
         /\ e \in Maker /\ e # None /\ e # Mock
<1>1. Kind[e].provider \in Provider /\ Kind[e].declared \in Dims /\ Kind[e].real \in Dims
  BY DEF Provider, Dims
<1> QED
  BY <1>1, LifecycleAssumption, NoneAssumption DEF Maker

LEMMA IdleIsARun == Idle \in Runs /\ Idle.at = "none" /\ Idle.cmd = "none" /\ Idle.then = "none"
BY DEF Idle, Runs, Step, NoMeta, SchemaVersion

LEMMA EmptyIsADatabase ==
  EmptyDatabase \in Database /\ ~Complete(EmptyDatabase) /\ EmptyDatabase # None
<1>1. EmptyDatabase \in Database
  BY DEF EmptyDatabase, Database, SchemaVersion
<1>2. ~Complete(EmptyDatabase)
  BY DEF EmptyDatabase, Complete
<1> QED
  BY <1>1, <1>2, NoneAssumption

LEMMA OpenedIsADatabase ==
  ASSUME LifecycleTypeOK
  PROVE  /\ Opened \in Database /\ Opened # None
         /\ Complete(Opened) => db # None /\ Opened = db
BY EmptyIsADatabase, NoneAssumption DEF LifecycleTypeOK, Opened

LEMMA ConfiguredIs ==
  ASSUME LifecycleTypeOK PROVE Configured \in Embedder
BY LifecycleAssumption DEF LifecycleTypeOK, Configured

(* A step of one process. *)

LEMMA GotoKeeps ==
  ASSUME LifecycleTypeOK, NEW p \in Proc, run[p] # Idle,
         NEW r \in Runs, run' = [run EXCEPT ![p] = r], Place(r),
         r # Idle => r.dims = run[p].dims /\ r.cmd = run[p].cmd,
         dir' \in BOOLEAN, lock' \in BOOLEAN, config' \in Embedder \cup {None},
         db' \in Database \cup {None}, tree' \subseteq Chunk, past' \subseteq Past,
         db # None => db' # None, r.at \notin Before => db' # None
  PROVE  LifecycleTypeOK'
<1>1. run' \in [Proc -> Runs] /\ run'[p] = r /\ \A q \in Proc \ {p} : run'[q] = run[q]
  BY DEF LifecycleTypeOK
<1>2. ASSUME NEW q \in Proc
      PROVE  /\ Place(run'[q])
             /\ run'[q] # Idle => run'[q].dims # 0 /\ run'[q].cmd \in May[q]
             /\ run'[q].at \notin Before => db' # None
  BY <1>1 DEF LifecycleTypeOK
<1> QED
  BY <1>1, <1>2 DEF LifecycleTypeOK

LEMMA StopKeeps ==
  ASSUME LifecycleTypeOK, NEW p \in Proc, run[p] # Idle, Stop(p),
         UNCHANGED <<dir, config, db, tree, past>>, lock' \in BOOLEAN
  PROVE  LifecycleTypeOK'
<1>1. Place(Idle) /\ Idle.at \in Before
  BY IdleIsARun DEF Place, Before
<1> QED
  BY <1>1, IdleIsARun, GotoKeeps DEF Stop, LifecycleTypeOK

\* Where a process is, and what it goes to.
LEMMA GotoIs ==
  ASSUME LifecycleTypeOK, NEW p \in Proc, NEW step \in Step, Goto(p, step)
  PROVE  LET r == [run[p] EXCEPT !.at = step]
         IN r \in Runs /\ run' = [run EXCEPT ![p] = r]
BY DEF LifecycleTypeOK, Goto, Runs

LEMMA PlaceIs ==
  ASSUME LifecycleTypeOK, NEW p \in Proc, run[p].at # "none"
  PROVE  run[p] # Idle /\ Place(run[p]) /\ run[p] \in Runs /\ (run[p].at \notin Before => db # None /\ db \in Database)
BY IdleIsARun DEF LifecycleTypeOK

LEMMA InitStepTypes ==
  ASSUME LifecycleTypeOK, NEW p \in Proc, InitStep(p) PROVE LifecycleTypeOK'
<1>1. ASSUME NEW e \in Embedder, NEW d \in {Kind[e].declared, Kind[e].real}, StartInit(p, e, d)
      PROVE  LifecycleTypeOK'
  <2>1. PICK use \in {None, Mock} :
          run' = [run EXCEPT ![p] =
            [cmd |-> "init", at |-> "lock", then |-> "provider", from |-> 0, dims |-> d, use |-> use,
             new |-> [provider |-> Kind[e].provider, model |-> e, dims |-> d]]]
    BY <1>1 DEF StartInit
  <2> DEFINE r == [cmd |-> "init", at |-> "lock", then |-> "provider", from |-> 0, dims |-> d, use |-> use,
                   new |-> [provider |-> Kind[e].provider, model |-> e, dims |-> d]]
  <2>2. d \in Dims /\ d # 0 /\ Kind[e].provider \in Provider /\ Kind[e].provider # None /\ e \in Maker /\ e # None
    BY KindsAre
  <2>4. /\ use \in Maker \cup {None} /\ 0 \in 0 .. SchemaVersion /\ {"lock", "provider"} \subseteq Step
        /\ "init" \in Command
    BY DEF Maker, SchemaVersion, Step, Command, Writing
  <2>5. r \in Runs
    BY <2>2, <2>4 DEF Runs
  <2>6. Place(r) /\ r.dims # 0 /\ r.cmd = "init" /\ r.at \in Before
    BY <2>2 DEF Place, Described, Before
  <2>7. run' = [run EXCEPT ![p] = r] /\ UNCHANGED <<dir, lock, config, db, tree, past>> /\ "init" \in May[p]
    BY <1>1, <2>1 DEF StartInit
  <2> HIDE DEF r
  <2> QED
    BY <2>5, <2>6, <2>7 DEF LifecycleTypeOK
<1>2. ASSUME TakeLock(p) PROVE LifecycleTypeOK'
  <2>1. run[p] # Idle /\ Place(run[p]) /\ run[p] \in Runs /\ run[p].at = "lock"
    BY <1>2, PlaceIs DEF TakeLock, At
  <2>2. CASE lock
    BY <1>2, <2>1, <2>2, StopKeeps DEF TakeLock
  <2>3. CASE ~lock
    <3> DEFINE r == [run[p] EXCEPT !.at = "mkdir"]
    <3>1. r \in Runs /\ run' = [run EXCEPT ![p] = r]
      BY <1>2, <2>3, GotoIs DEF TakeLock, Step
    <3>2. Place(r) /\ r.dims = run[p].dims /\ r.cmd = run[p].cmd /\ r.at = "mkdir"
      BY <2>1 DEF Place, Described, Runs, Early, Writing, Schema, Idle
    <3> QED
      BY <1>2, <2>1, <3>1, <3>2, GotoKeeps DEF TakeLock, LifecycleTypeOK, Before
  <2> QED
    BY <2>2, <2>3 DEF LifecycleTypeOK
<1>3. ASSUME MakeDirectory(p) PROVE LifecycleTypeOK'
  <2>1. run[p] # Idle /\ Place(run[p]) /\ run[p] \in Runs /\ run[p].at = "mkdir"
    BY <1>3, PlaceIs DEF MakeDirectory, At
  <2> DEFINE r == [run[p] EXCEPT !.at = "schema"]
  <2>2. r \in Runs /\ run' = [run EXCEPT ![p] = r]
    BY <1>3, GotoIs DEF MakeDirectory, Step, Early
  <2>3. Place(r) /\ r.dims = run[p].dims /\ r.cmd = run[p].cmd /\ r.at = "schema"
    BY <2>1 DEF Place, Described, Runs, Early, Writing, Schema, Idle
  <2> QED
    BY <1>3, <2>1, <2>2, <2>3, GotoKeeps DEF MakeDirectory, LifecycleTypeOK, Before
<1>4. ASSUME WriteConfig(p) PROVE LifecycleTypeOK'
  <2>1. run[p] # Idle /\ Place(run[p]) /\ run[p] \in Runs /\ run[p].at = "config"
    BY <1>4, PlaceIs DEF WriteConfig, At
  <2>2. PICK s \in {"unlock", "embed"} : Goto(p, s)
    BY <1>4 DEF WriteConfig
  <2> DEFINE r == [run[p] EXCEPT !.at = s]
  <2>3. r \in Runs /\ run' = [run EXCEPT ![p] = r]
    BY <2>2, GotoIs DEF Step
  <2>4. Place(r) /\ r.dims = run[p].dims /\ r.cmd = run[p].cmd /\ config' \in Embedder
    BY <1>4, <2>1 DEF Place, Described, Runs, Early, Writing, Schema, Idle, WriteConfig
  <2>5. db # None
    BY <2>1 DEF LifecycleTypeOK, Before
  <2> QED
    BY <1>4, <2>1, <2>3, <2>4, <2>5, GotoKeeps DEF WriteConfig, LifecycleTypeOK
<1>5. ASSUME ReleaseLock(p) PROVE LifecycleTypeOK'
  BY <1>5, PlaceIs, StopKeeps DEF ReleaseLock, At
<1> QED
  BY <1>1, <1>2, <1>3, <1>4, <1>5 DEF InitStep

LEMMA SchemaIsDoneIs ==
  ASSUME LifecycleTypeOK, NEW p \in Proc, run[p].at \in Early, SchemaIsDone(p)
  PROVE  LET r == [run[p] EXCEPT !.at = run[p].then, !.then = "none", !.from = 0]
         IN r \in Runs /\ run' = [run EXCEPT ![p] = r] /\ Place(r) /\ r.dims = run[p].dims
            /\ r.cmd = run[p].cmd
<1>1. run[p] # Idle /\ Place(run[p]) /\ run[p] \in Runs
  BY PlaceIs DEF Early, Schema
<1>2. run' = [run EXCEPT ![p] = [run[p] EXCEPT !.at = run[p].then, !.then = "none", !.from = 0]]
  BY <1>1 DEF SchemaIsDone, LifecycleTypeOK, Runs
<1>3. [run[p] EXCEPT !.at = run[p].then, !.then = "none", !.from = 0] \in Runs
  <2>1. run[p].then \in Step /\ "none" \in Step /\ 0 \in 0 .. SchemaVersion
    BY <1>1 DEF Runs, SchemaVersion, Step
  <2> QED
    BY <1>1, <2>1 DEF Runs
<1>4. Place([run[p] EXCEPT !.at = run[p].then, !.then = "none", !.from = 0])
  BY <1>1 DEF Place, Described, Runs, Early, Writing, Schema
<1> QED
  BY <1>1, <1>2, <1>3, <1>4 DEF Runs

LEMMA SchemaStepTypes ==
  ASSUME LifecycleTypeOK, NEW p \in Proc, SchemaStep(p) PROVE LifecycleTypeOK'
<1>1. ASSUME BeginSchema(p) PROVE LifecycleTypeOK'
  <2>1. run[p] # Idle /\ Place(run[p]) /\ run[p] \in Runs /\ run[p].at = "schema"
    BY <1>1, PlaceIs DEF BeginSchema, At
  <2>2. db' \in Database /\ db' # None /\ UNCHANGED <<dir, lock, config, tree, past>>
    BY <1>1, OpenedIsADatabase DEF BeginSchema
  <2>3. CASE Opened.version >= SchemaVersion
    <3>1. SchemaIsDone(p)
      BY <1>1, <2>3 DEF BeginSchema
    <3> QED
      BY <2>1, <2>2, <3>1, SchemaIsDoneIs, GotoKeeps DEF LifecycleTypeOK, Early
  <2>4. CASE ~(Opened.version >= SchemaVersion)
    <3> DEFINE r == [run[p] EXCEPT !.at = "table", !.from = Opened.version]
    <3>1. run' = [run EXCEPT ![p] = r]
      BY <1>1, <2>1, <2>4 DEF BeginSchema, LifecycleTypeOK, Runs
    <3>2. Opened.version \in 0 .. SchemaVersion /\ "table" \in Step
      BY OpenedIsADatabase DEF Database, Step, Early, Schema
    <3>3. r \in Runs
      BY <2>1, <3>2 DEF Runs
    <3>4. Place(r) /\ r.dims = run[p].dims /\ r.cmd = run[p].cmd
      BY <2>1 DEF Place, Described, Runs, Early, Writing, Schema, Idle
    <3> QED
      BY <2>1, <2>2, <3>1, <3>3, <3>4, GotoKeeps DEF LifecycleTypeOK
  <2> QED
    BY <2>3, <2>4
<1>2. ASSUME NEW s \in {"edims", "json", "postings", "version"}, Goto(p, s),
             run[p].at \in Schema, db' \in Database, past' \subseteq Past,
             UNCHANGED <<dir, lock, config, tree>>
      PROVE  LifecycleTypeOK'
  <2>1. run[p] # Idle /\ Place(run[p]) /\ run[p] \in Runs /\ db # None
    BY <1>2, PlaceIs DEF Schema, Before
  <2> DEFINE r == [run[p] EXCEPT !.at = s]
  <2>2. r \in Runs /\ run' = [run EXCEPT ![p] = r]
    BY <1>2, GotoIs DEF Step, Early, Schema
  <2>3. Place(r) /\ r.dims = run[p].dims /\ r.cmd = run[p].cmd
    BY <1>2, <2>1 DEF Place, Described, Runs, Early, Writing, Schema, Idle
  <2>4. db' # None
    BY <1>2, NoneAssumption
  <2> QED
    BY <1>2, <2>1, <2>2, <2>3, <2>4, GotoKeeps DEF LifecycleTypeOK
<1>3. ASSUME run[p].at \in Schema
      PROVE  db \in Database /\ run[p].dims \in Dims /\ Place(run[p]) /\ run[p] \in Runs /\ run[p] # Idle
  BY <1>3, PlaceIs DEF Schema, Before, LifecycleTypeOK, Runs
<1>4. ASSUME CreateTable(p) PROVE LifecycleTypeOK'
  <2>1. run[p].at \in Schema /\ Goto(p, "edims") /\ UNCHANGED <<dir, lock, config, tree>>
    BY <1>4 DEF CreateTable, At, Schema
  <2>2. db' \in Database
    BY <1>3, <1>4, <2>1 DEF CreateTable, Database
  <2>3. past' \subseteq Past
    BY <1>4 DEF CreateTable, Past, LifecycleTypeOK
  <2> QED
    BY <1>2, <2>1, <2>2, <2>3
<1>5. ASSUME SetDimensions(p) PROVE LifecycleTypeOK'
  <2>1. PICK s \in {"json", "postings"} :
          run[p].at \in Schema /\ Goto(p, s) /\ UNCHANGED <<dir, lock, config, tree, past>>
    BY <1>5 DEF SetDimensions, At, Schema
  <2>2. db' \in Database
    BY <1>3, <1>5, <2>1 DEF SetDimensions, Database
  <2> QED
    BY <1>2, <2>1, <2>2 DEF LifecycleTypeOK
<1>6. ASSUME MigrateVectors(p) PROVE LifecycleTypeOK'
  <2>1. run[p].at \in Schema /\ UNCHANGED <<dir, lock, config, tree, past>>
    BY <1>6 DEF MigrateVectors, At, Schema
  <2>2. CASE Stop(p) /\ db' = db
    BY <1>3, <2>1, <2>2, StopKeeps DEF LifecycleTypeOK
  <2>3. CASE Goto(p, "postings") /\
             db' = [db EXCEPT !.vec = [c \in Chunk |-> IF db.json[c] = None THEN @[c] ELSE db.json[c]]]
    <3>1. \A c \in Chunk : db.json[c] \in Maker \cup {None} /\ db.vec[c] \in Maker \cup {None}
      BY <1>3, <2>1 DEF Database, Maker
    <3>2. db' = [db EXCEPT !.vec = [c \in Chunk |-> IF db.json[c] = None THEN db.vec[c] ELSE db.json[c]]]
      BY <2>3
    <3>3. db' \in Database
      BY <1>3, <2>1, <3>1, <3>2 DEF Database
    <3> QED
      BY <1>2, <2>1, <2>3, <3>3 DEF LifecycleTypeOK
  <2> QED
    BY <1>6, <2>2, <2>3 DEF MigrateVectors
<1>7. ASSUME RebuildPostings(p) PROVE LifecycleTypeOK'
  <2>1. run[p].at \in Schema /\ Goto(p, "version") /\ UNCHANGED <<dir, lock, config, tree, past>>
    BY <1>7 DEF RebuildPostings, At, Schema
  <2>2. db' \in Database
    BY <1>3, <1>7, <2>1 DEF RebuildPostings, Database
  <2> QED
    BY <1>2, <2>1, <2>2 DEF LifecycleTypeOK
<1>8. ASSUME SetVersion(p) PROVE LifecycleTypeOK'
  <2>1. run[p].at \in Schema /\ run[p].at \in Early /\ SchemaIsDone(p)
        /\ UNCHANGED <<dir, lock, config, tree, past>>
    BY <1>8 DEF SetVersion, At, Schema, Early
  <2>2. db' \in Database
    <3>1. SchemaVersion \in 0 .. SchemaVersion
      BY DEF SchemaVersion
    <3> QED
      BY <1>3, <1>8, <2>1, <3>1 DEF SetVersion, Database
  <2>3. db' # None
    BY <2>2, NoneAssumption
  <2> QED
    BY <1>3, <2>1, <2>2, <2>3, SchemaIsDoneIs, GotoKeeps DEF LifecycleTypeOK
<1> QED
  BY <1>1, <1>4, <1>5, <1>6, <1>7, <1>8 DEF SchemaStep

LEMMA MetaStepTypes ==
  ASSUME LifecycleTypeOK, NEW p \in Proc, MetaStep(p) PROVE LifecycleTypeOK'
<1>1. /\ run[p].at \in Writing /\ run[p].at # "none" /\ run[p].at \notin Before
      /\ UNCHANGED <<dir, lock, config, tree>>
  BY DEF MetaStep, WriteProvider, WriteModel, WriteDims, WriteStats, At, Writing, Before
<1>2. run[p] # Idle /\ Place(run[p]) /\ run[p] \in Runs /\ db \in Database
  BY <1>1, PlaceIs
<1>3. PICK s \in {"model", "dims", "stats", "config", "embed"} :
        Goto(p, s) /\ (s = "config" => run[p].cmd = "init") /\ (s = "embed" => run[p].cmd # "init")
  BY DEF MetaStep, WriteProvider, WriteModel, WriteDims, WriteStats
<1> DEFINE r == [run[p] EXCEPT !.at = s]
<1>4. r \in Runs /\ run' = [run EXCEPT ![p] = r]
  BY <1>3, GotoIs DEF Step, Writing
<1>5. Place(r) /\ r.dims = run[p].dims /\ r.cmd = run[p].cmd
  BY <1>1, <1>2, <1>3 DEF Place, Described, Runs, Early, Writing, Schema, Idle
<1>6. Described(run[p]) /\ run[p].new.provider \in Provider /\ run[p].new.model \in Maker /\ run[p].new.dims \in Dims
  BY <1>1, <1>2 DEF Place, Described, Runs, Early, Writing, Schema, Idle
<1>7. db' \in Database
  <2>1. ASSUME WriteProvider(p) PROVE db' \in Database
    BY <1>2, <1>6, <2>1 DEF WriteProvider, Database
  <2>2. ASSUME WriteModel(p) PROVE db' \in Database
    BY <1>2, <1>6, <2>2 DEF WriteModel, Database
  <2>3. ASSUME WriteDims(p) PROVE db' \in Database
    BY <1>2, <1>6, <2>3 DEF WriteDims, Database
  <2>4. ASSUME WriteStats(p) PROVE db' \in Database
    BY <1>2, <1>6, <2>4 DEF WriteStats, Database
  <2> QED
    BY <2>1, <2>2, <2>3, <2>4 DEF MetaStep
<1>8. past' \subseteq Past
  BY DEF MetaStep, WriteProvider, WriteModel, WriteDims, WriteStats, LifecycleTypeOK
<1>9. db' # None
  BY <1>7, NoneAssumption
<1> QED
  BY <1>1, <1>2, <1>4, <1>5, <1>7, <1>8, <1>9, GotoKeeps DEF LifecycleTypeOK

LEMMA StartIndexIs ==
  ASSUME LifecycleTypeOK, NEW p \in Proc, NEW full \in BOOLEAN, StartIndex(p, full)
  PROVE  /\ (IF full THEN "full" ELSE "index") \in May[p] /\ run[p] = Idle /\ dir
         /\ db' = Opened /\ UNCHANGED <<dir, lock, config, tree, past>>
         /\ \/ run' = run /\ ~Complete(Opened)
            \/ \E r \in Runs :
                 /\ run' = [run EXCEPT ![p] = r]
                 /\ Place(r) /\ r.at = "schema" /\ r.dims # 0 /\ r.cmd = (IF full THEN "full" ELSE "index")
                 /\ r.then # "provider"
                 /\ db \in Database /\ Complete(db) /\ db' = db
                 /\ r.use \in {Configured, Mock}
                 /\ ~full => /\ r.use # Mock => /\ r.new.provider = Kind[r.use].provider
                                                /\ r.new.dims \in DimsOf(r.use)
                             /\ r.then = "embed" => db.provider = r.new.provider /\ db.dims = r.new.dims
<1>1. /\ (IF full THEN "full" ELSE "index") \in May[p] /\ run[p] = Idle /\ dir
      /\ db' = Opened /\ UNCHANGED <<dir, lock, config, tree, past>>
  BY DEF StartIndex
<1>2. CASE ~Complete(Opened)
  BY <1>1, <1>2 DEF StartIndex
<1>3. CASE Complete(Opened)
  <2>1. PICK use \in Obtainable(Configured) :
        \E actual \in IF use = Mock THEN {db.dims} ELSE Probed(Configured) :
          run' = [run EXCEPT ![p] =
              [cmd |-> IF full THEN "full" ELSE "index", at |-> "schema",
               then |-> IF full THEN "remove"
                        ELSE IF ProviderChanged(Configured, actual) THEN "recreate" ELSE "embed",
               from |-> 0, dims |-> db.dims, use |-> use,
               new |-> IF full THEN [provider |-> db.provider, model |-> db.model, dims |-> db.dims]
                       ELSE [provider |-> Kind[Configured].provider, model |-> use, dims |-> actual]]]
    BY <1>3 DEF StartIndex
  <2>2. PICK actual \in IF use = Mock THEN {db.dims} ELSE Probed(Configured) :
          run' = [run EXCEPT ![p] =
              [cmd |-> IF full THEN "full" ELSE "index", at |-> "schema",
               then |-> IF full THEN "remove"
                        ELSE IF ProviderChanged(Configured, actual) THEN "recreate" ELSE "embed",
               from |-> 0, dims |-> db.dims, use |-> use,
               new |-> IF full THEN [provider |-> db.provider, model |-> db.model, dims |-> db.dims]
                       ELSE [provider |-> Kind[Configured].provider, model |-> use, dims |-> actual]]]
    BY <2>1
  <2>3. /\ Configured \in Embedder /\ use \in {Configured, Mock} /\ use # None /\ use \in Maker
        /\ use # Mock => use = Configured
    BY ConfiguredIs, LifecycleAssumption DEF Obtainable, Maker
  <2>4. db \in Database /\ Complete(db) /\ Opened = db /\ db # None
    BY <1>3, OpenedIsADatabase DEF LifecycleTypeOK
  <2>5. /\ db.provider \in Provider \cup {None} /\ db.provider # None
        /\ db.model \in Maker \cup {None} /\ db.model # None
        /\ db.dims \in Dims \cup {0} /\ db.dims # 0
    BY <2>4 DEF Database, Complete
  <2>6. actual \in Dims \cup {0} /\ actual # 0 /\ (use # Mock => actual \in DimsOf(use))
    BY <2>2, <2>3, <2>5, KindsAre DEF Probed, DimsOf
  <2>7. Kind[Configured].provider \in Provider /\ Kind[Configured].provider # None
    BY <2>3, KindsAre
  <2> DEFINE new == IF full THEN [provider |-> db.provider, model |-> db.model, dims |-> db.dims]
                    ELSE [provider |-> Kind[Configured].provider, model |-> use, dims |-> actual]
             then == IF full THEN "remove"
                     ELSE IF ProviderChanged(Configured, actual) THEN "recreate" ELSE "embed"
             r == [cmd |-> IF full THEN "full" ELSE "index", at |-> "schema", then |-> then,
                   from |-> 0, dims |-> db.dims, use |-> use, new |-> new]
  <2>8. /\ new \in [provider : Provider \cup {None}, model : Maker \cup {None}, dims : Dims \cup {0}]
        /\ new.provider # None /\ new.model # None /\ new.dims # 0
    BY <2>3, <2>5, <2>6, <2>7
  <2>9. then \in {"remove", "recreate", "embed"} /\ (full => then = "remove") /\ (~full => then # "remove")
    OBVIOUS
  <2>10. then = "embed" => db.provider = new.provider /\ db.dims = new.dims
    BY <2>4 DEF ProviderChanged
  <2>11. ~full /\ use # Mock => new.provider = Kind[use].provider /\ new.dims \in DimsOf(use)
    BY <2>3, <2>6
  <2> HIDE DEF new, then
  <2>12. r \in Runs
    <3>1. /\ (IF full THEN "full" ELSE "index") \in Command \cup {"none"} /\ {"schema"} \subseteq Step
          /\ 0 \in 0 .. SchemaVersion /\ {"remove", "recreate", "embed"} \subseteq Step
      BY DEF Command, Step, Early, SchemaVersion
    <3> QED
      BY <2>3, <2>5, <2>8, <2>9, <3>1 DEF Runs
  <2>13. Place(r) /\ r.at = "schema" /\ r.dims # 0 /\ r.then # "provider"
    BY <2>3, <2>5, <2>8, <2>9 DEF Place, Described, Early
  <2>14. run' = [run EXCEPT ![p] = r]
    BY <2>2 DEF new, then
  <2>15. db' = db
    BY <1>1, <2>4
  <2> QED
    BY <1>1, <2>3, <2>4, <2>10, <2>11, <2>12, <2>13, <2>14, <2>15
<1> QED
  BY <1>2, <1>3

LEMMA RemoveDatabaseIs ==
  ASSUME LifecycleTypeOK, NEW p \in Proc, RemoveDatabase(p)
  PROVE  LET r == [run[p] EXCEPT !.at = "schema", !.then = "provider"]
         IN /\ run[p].cmd = "full" /\ run[p].at = "remove" /\ Place(run[p])
            /\ r \in Runs /\ Place(r) /\ r # Idle /\ run' \in [Proc -> Runs]
            /\ run'[p] = r /\ \A q \in Proc : q # p => run'[q] = Idle
<1>1. run[p] # Idle /\ Place(run[p]) /\ run[p] \in Runs /\ run[p].at = "remove"
  BY PlaceIs DEF RemoveDatabase, At
<1>2. run[p].cmd = "full"
  BY <1>1 DEF Place, Early, Schema, Writing
<1> DEFINE r == [run[p] EXCEPT !.at = "schema", !.then = "provider"]
<1>3. r \in Runs
  <2>1. {"schema", "provider"} \subseteq Step
    BY DEF Step, Early, Writing
  <2> QED
    BY <1>1, <2>1 DEF Runs
<1>4. Place(r)
  BY <1>1, <1>2 DEF Place, Described, Runs, Early, Writing, Schema, Idle
<1>5. r # Idle
  BY <1>1 DEF Idle, Runs
<1>6. run' = [q \in Proc |-> IF q = p THEN r ELSE Idle]
  BY DEF RemoveDatabase
<1> QED
  BY <1>1, <1>2, <1>3, <1>4, <1>5, <1>6, IdleIsARun

LEMMA IndexStepTypes ==
  ASSUME LifecycleTypeOK, NEW p \in Proc, IndexStep(p) PROVE LifecycleTypeOK'
<1>1. ASSUME NEW full \in BOOLEAN, StartIndex(p, full) PROVE LifecycleTypeOK'
  <2>1. CASE run' = run
    BY <1>1, <2>1, StartIndexIs, OpenedIsADatabase DEF LifecycleTypeOK
  <2>2. ASSUME NEW r \in Runs, run' = [run EXCEPT ![p] = r], Place(r), r.at = "schema", r.dims # 0,
               r.cmd = (IF full THEN "full" ELSE "index")
        PROVE  LifecycleTypeOK'
    <3>1. /\ (IF full THEN "full" ELSE "index") \in May[p] /\ UNCHANGED <<dir, lock, config, tree, past>>
          /\ db' \in Database /\ db' # None
      BY <1>1, StartIndexIs, OpenedIsADatabase
    <3>2. run' \in [Proc -> Runs] /\ run'[p] = r /\ \A q \in Proc \ {p} : run'[q] = run[q]
      BY <2>2 DEF LifecycleTypeOK
    <3>3. ASSUME NEW q \in Proc
          PROVE  /\ Place(run'[q])
                 /\ run'[q] # Idle => run'[q].dims # 0 /\ run'[q].cmd \in May[q]
      BY <2>2, <3>1, <3>2 DEF LifecycleTypeOK
    <3> QED
      BY <3>1, <3>2, <3>3 DEF LifecycleTypeOK
  <2> QED
    BY <1>1, <2>1, <2>2, StartIndexIs
<1>2. ASSUME RemoveDatabase(p) PROVE LifecycleTypeOK'
  <2> DEFINE r == [run[p] EXCEPT !.at = "schema", !.then = "provider"]
  <2>1. /\ run[p] # Idle /\ r \in Runs /\ Place(r) /\ run' \in [Proc -> Runs] /\ run'[p] = r
        /\ \A q \in Proc : q # p => run'[q] = Idle
    BY <1>2, RemoveDatabaseIs, PlaceIs
  <2>2. r.dims = run[p].dims /\ r.cmd = run[p].cmd /\ r.at \in Before
    BY <2>1 DEF Runs, Before, LifecycleTypeOK
  <2> HIDE DEF r
  <2>3. Place(Idle) /\ Idle.at \in Before
    BY IdleIsARun DEF Place, Before
  <2>4. ASSUME NEW q \in Proc
        PROVE  /\ Place(run'[q])
               /\ run'[q] # Idle => run'[q].dims # 0 /\ run'[q].cmd \in May[q]
               /\ run'[q].at \in Before
    BY <2>1, <2>2, <2>3 DEF LifecycleTypeOK
  <2>5. past' \subseteq Past /\ db' = None /\ UNCHANGED <<dir, lock, config, tree>>
    BY <1>2 DEF RemoveDatabase, Past
  <2> QED
    BY <2>1, <2>4, <2>5 DEF LifecycleTypeOK
<1>3. ASSUME RecreateVectorIndex(p) PROVE LifecycleTypeOK'
  <2>1. run[p] # Idle /\ Place(run[p]) /\ run[p] \in Runs /\ run[p].at = "recreate" /\ db \in Database
    BY <1>3, PlaceIs DEF RecreateVectorIndex, At, Before
  <2> DEFINE r == [run[p] EXCEPT !.at = "provider"]
  <2>2. r \in Runs /\ run' = [run EXCEPT ![p] = r]
    BY <1>3, GotoIs DEF RecreateVectorIndex, Step, Writing
  <2>3. Place(r) /\ r.dims = run[p].dims /\ r.cmd = run[p].cmd
    BY <2>1 DEF Place, Described, Runs, Early, Writing, Schema, Idle
  <2>4. run[p].new.dims \in Dims \cup {0}
    BY <2>1 DEF Runs
  <2>5. db' \in Database
    BY <1>3, <2>1, <2>4 DEF RecreateVectorIndex, Recreated, Database
  <2>6. db' # None /\ past' \subseteq Past /\ UNCHANGED <<dir, lock, config, tree>>
    BY <1>3, <2>5, NoneAssumption DEF RecreateVectorIndex, Past, LifecycleTypeOK
  <2> QED
    BY <2>1, <2>2, <2>3, <2>5, <2>6, GotoKeeps DEF LifecycleTypeOK
<1>4. ASSUME NEW c \in Chunk, EmbedChunk(p, c) PROVE LifecycleTypeOK'
  <2>1. db \in Database /\ run[p] \in Runs
    BY <1>4, PlaceIs DEF EmbedChunk, At, Before
  <2>2. db' \in Database
    <3>1. run[p].use \in Maker \cup {None}
      BY <2>1 DEF Runs
    <3> QED
      BY <1>4, <2>1, <3>1 DEF EmbedChunk, Database
  <2> QED
    BY <1>4, <2>2, NoneAssumption DEF EmbedChunk, LifecycleTypeOK
<1>5. ASSUME EndEmbedding(p) PROVE LifecycleTypeOK'
  <2>1. run[p] # Idle /\ Place(run[p]) /\ run[p] \in Runs /\ run[p].at = "embed" /\ db \in Database /\ db # None
    BY <1>5, PlaceIs DEF EndEmbedding, At, Before
  <2>2. UNCHANGED <<dir, lock, config, db, tree, past>>
    BY <1>5 DEF EndEmbedding
  <2>3. CASE Stop(p)
    BY <2>1, <2>2, <2>3, StopKeeps DEF LifecycleTypeOK
  <2>4. ASSUME NEW s \in {"unlock", "serving", "finish"}, Goto(p, s),
               s = "unlock" <=> run[p].cmd = "init", s = "serving" <=> run[p].cmd = "serve"
        PROVE  LifecycleTypeOK'
    <3> DEFINE r == [run[p] EXCEPT !.at = s]
    <3>1. r \in Runs /\ run' = [run EXCEPT ![p] = r]
      BY <2>4, GotoIs DEF Step
    <3>2. Place(r) /\ r.dims = run[p].dims /\ r.cmd = run[p].cmd
      BY <2>1, <2>4 DEF Place, Described, Runs, Early, Writing, Schema, Idle
    <3> QED
      BY <2>1, <2>2, <3>1, <3>2, GotoKeeps DEF LifecycleTypeOK
  <2>5. CASE Goto(p, CASE run[p].cmd = "init" -> "unlock" [] run[p].cmd = "serve" -> "serving" [] OTHER -> "finish")
    BY <2>4, <2>5
  <2>6. CASE run[p].cmd = "serve" /\ Goto(p, "serving")
    BY <2>4, <2>6
  <2> QED
    BY <1>5, <2>3, <2>5, <2>6 DEF EndEmbedding
<1>6. ASSUME Finish(p) PROVE LifecycleTypeOK'
  BY <1>6, PlaceIs, StopKeeps DEF Finish, At, LifecycleTypeOK
<1> QED
  BY <1>1, <1>2, <1>3, <1>4, <1>5, <1>6 DEF IndexStep

LEMMA ServerStepTypes ==
  ASSUME LifecycleTypeOK, NEW p \in Proc, ServerStep(p) PROVE LifecycleTypeOK'
<1>1. ASSUME StartServer(p) PROVE LifecycleTypeOK'
  <2> DEFINE r == [cmd |-> "serve", at |-> "schema", then |-> "check", from |-> 0,
                   dims |-> Kind[Configured].declared, use |-> Configured, new |-> NoMeta]
  <2>1. /\ Configured \in Embedder /\ Configured \in Maker
        /\ Kind[Configured].declared \in Dims /\ Kind[Configured].declared # 0
    BY ConfiguredIs, KindsAre
  <2>2. r \in Runs
    <3>1. "serve" \in Command /\ {"schema", "check"} \subseteq Step /\ 0 \in 0 .. SchemaVersion
      BY DEF Command, Step, Early, SchemaVersion
    <3> QED
      BY <2>1, <3>1 DEF Runs, NoMeta
  <2>3. Place(r) /\ r.dims # 0 /\ r.at \in Before /\ r.cmd = "serve"
    BY <2>1 DEF Place, Early, Before
  <2>4. run' = [run EXCEPT ![p] = r] /\ UNCHANGED <<dir, lock, config, db, tree, past>> /\ "serve" \in May[p]
    BY <1>1 DEF StartServer
  <2> HIDE DEF r
  <2> QED
    BY <2>2, <2>3, <2>4 DEF LifecycleTypeOK
<1>2. ASSUME CheckProvider(p) PROVE LifecycleTypeOK'
  <2>1. run[p] # Idle /\ Place(run[p]) /\ run[p] \in Runs /\ run[p].at = "check" /\ db \in Database /\ db # None
    BY <1>2, PlaceIs DEF CheckProvider, At, Before
  <2>2. UNCHANGED <<dir, lock, config, db, tree>> /\ past' \subseteq Past
    BY <1>2 DEF CheckProvider, Past, LifecycleTypeOK
  <2>3. CASE Stop(p) /\ past' = past
    BY <2>1, <2>2, <2>3, StopKeeps DEF LifecycleTypeOK
  <2>4. CASE Goto(p, "serving")
    <3> DEFINE r == [run[p] EXCEPT !.at = "serving"]
    <3>1. r \in Runs /\ run' = [run EXCEPT ![p] = r]
      BY <2>4, GotoIs DEF Step
    <3>2. Place(r) /\ r.dims = run[p].dims /\ r.cmd = run[p].cmd
      BY <2>1 DEF Place, Described, Runs, Early, Writing, Schema, Idle
    <3> QED
      BY <2>1, <2>2, <3>1, <3>2, GotoKeeps DEF LifecycleTypeOK
  <2> QED
    BY <1>2, <2>3, <2>4 DEF CheckProvider
<1>3. ASSUME NEW full \in BOOLEAN, Reindex(p, full) PROVE LifecycleTypeOK'
  <2>1. run[p] # Idle /\ Place(run[p]) /\ run[p] \in Runs /\ run[p].at = "serving" /\ db \in Database /\ db # None
    BY <1>3, PlaceIs DEF Reindex, At, Before
  <2>2. db' \in Database
    <3>1. Cleared(db) \in Database
      BY <2>1, EmptyIsADatabase DEF Cleared, Database
    <3> QED
      BY <1>3, <2>1, <3>1 DEF Reindex
  <2>3. db' # None /\ UNCHANGED <<dir, lock, config, tree>> /\ past' \subseteq Past
    BY <1>3, <2>2, NoneAssumption DEF Reindex, Past, LifecycleTypeOK
  <2>4. CASE full
    <3> DEFINE r == [run[p] EXCEPT !.at = "schema", !.then = "embed"]
    <3>1. {"schema", "embed"} \subseteq Step
      BY DEF Step, Early
    <3>2. r \in Runs /\ run' = [run EXCEPT ![p] = r]
      BY <1>3, <2>1, <2>4, <3>1 DEF Reindex, LifecycleTypeOK, Runs
    <3>3. Place(r) /\ r.dims = run[p].dims /\ r.cmd = run[p].cmd
      BY <2>1 DEF Place, Described, Runs, Early, Writing, Schema, Idle
    <3> QED
      BY <2>1, <2>2, <2>3, <3>2, <3>3, GotoKeeps DEF LifecycleTypeOK
  <2>5. CASE ~full
    <3> DEFINE r == [run[p] EXCEPT !.at = "embed"]
    <3>1. r \in Runs /\ run' = [run EXCEPT ![p] = r]
      BY <1>3, <2>5, GotoIs DEF Step, Reindex
    <3>2. Place(r) /\ r.dims = run[p].dims /\ r.cmd = run[p].cmd
      BY <2>1 DEF Place, Described, Runs, Early, Writing, Schema, Idle
    <3> QED
      BY <2>1, <2>2, <2>3, <3>1, <3>2, GotoKeeps DEF LifecycleTypeOK
  <2> QED
    BY <2>4, <2>5
<1> QED
  BY <1>1, <1>2, <1>3 DEF ServerStep

LEMMA UserStepTypes ==
  ASSUME LifecycleTypeOK, UserStep PROVE LifecycleTypeOK'
<1>1. ASSUME NEW e \in Embedder, EditConfig(e) PROVE LifecycleTypeOK'
  BY <1>1 DEF EditConfig, LifecycleTypeOK
<1>2. ASSUME Purge PROVE LifecycleTypeOK'
  <2>1. \A p \in Proc : run'[p] = Idle /\ Idle.at \in Before /\ Place(run'[p])
    BY <1>2, IdleIsARun DEF Purge, Resting, Before, Place
  <2> QED
    BY <1>2, <2>1 DEF Purge, LifecycleTypeOK
<1>3. ASSUME NEW c \in Chunk, AddChunk(c) PROVE LifecycleTypeOK'
  BY <1>3 DEF AddChunk, LifecycleTypeOK
<1> QED
  BY <1>1, <1>2, <1>3 DEF UserStep

LEMMA OldIsADatabase ==
  ASSUME NEW v \in OldVersion, NEW e \in Embedder, NEW cs \in SUBSET Chunk, NEW width \in Dims,
         NEW dims \in {Kind[e].declared, Kind[e].real}
  PROVE  OldDatabase(v, e, cs, dims, width) \in Database /\ OldDatabase(v, e, cs, dims, width) # None
<1>1. v \in 0 .. SchemaVersion /\ dims \in Dims /\ Kind[e].provider \in Provider /\ e \in Maker
  BY LifecycleAssumption, KindsAre DEF SchemaVersion
<1>2. OldDatabase(v, e, cs, dims, width) \in Database
  BY <1>1, EmptyIsADatabase DEF OldDatabase, Database
<1> QED
  BY <1>2, NoneAssumption

LEMMA InitTypes ==
  ASSUME Init PROVE LifecycleTypeOK
<1>1. run \in [Proc -> Runs] /\ \A p \in Proc : run[p] = Idle /\ Idle.at \in Before /\ Place(run[p])
  BY IdleIsARun DEF Init, Before, Place
<1>2. db \in Database \cup {None}
  BY OldIsADatabase DEF Init
<1> QED
  BY <1>1, <1>2 DEF Init, LifecycleTypeOK, Past

LEMMA NextTypes ==
  ASSUME LifecycleTypeOK, [Next]_vars PROVE LifecycleTypeOK'
<1>1. ASSUME NEW p \in Proc, Halt(p) PROVE LifecycleTypeOK'
  BY <1>1, StopKeeps DEF Halt, LifecycleTypeOK
<1>2. CASE UNCHANGED vars
  BY <1>2 DEF vars, LifecycleTypeOK
<1> QED
  BY <1>1, <1>2, InitStepTypes, SchemaStepTypes, MetaStepTypes, IndexStepTypes, ServerStepTypes,
     UserStepTypes DEF Next

(* What every command does is of the types the module gives its state.     *)
THEOREM LifecycleTypes == Spec => []LifecycleTypeOK
<1> QED
  BY InitTypes, NextTypes, PTL DEF Spec

-----------------------------------------------------------------------------
(* UpgradeIsComplete.  While the version is an old one nobody but the      *)
(* steps of init_schema changes the database, and each of these has been   *)
(* done by whoever is past it.                                             *)

\* The steps that come after init_schema.
After == {"recreate", "remove", "config", "embed", "unlock", "finish", "check", "serving"} \cup Writing

\* The vectors of schema 1 are in vec_chunks.
Carried(d) == \A c \in Chunk : d.json[c] # None => d.vec[c] = d.json[c]

OldIs(d) ==
  /\ d.version = 0 => d.chunks = {}
  /\ d.version # 1 => \A c \in Chunk : d.json[c] = None
  /\ d.version = 3 => d.chunks \subseteq d.posted

MigratesTo(r, d) ==
  r.at \in Schema =>
    /\ r.from = d.version
    /\ r.at \in {"postings", "version"} => Carried(d)
    /\ r.at = "version" => d.chunks \subseteq d.posted

UpgradeInv ==
  /\ \A p \in Proc : run[p].at \in After => db.version = SchemaVersion
  /\ db # None /\ db.version # SchemaVersion =>
       OldIs(db) /\ \A p \in Proc : MigratesTo(run[p], db)

\* A step of p that leaves the database alone.
LEMMA UpgradeIdles ==
  ASSUME LifecycleTypeOK, UpgradeInv, NEW p \in Proc, db' = db, NEW r,
         run' = [run EXCEPT ![p] = r], r.at \in After => run[p].at \in After, r.at \notin Schema
  PROVE  UpgradeInv'
<1>1. run'[p] = r /\ \A q \in Proc : q # p => run'[q] = run[q]
  BY DEF LifecycleTypeOK
<1>2. \A q \in Proc : run'[q].at \in After => db'.version = SchemaVersion
  BY <1>1 DEF UpgradeInv
<1>3. ASSUME db' # None, db'.version # SchemaVersion, NEW q \in Proc PROVE MigratesTo(run'[q], db')
  BY <1>1, <1>3 DEF UpgradeInv, MigratesTo
<1> QED
  BY <1>2, <1>3 DEF UpgradeInv

\* A step of a process that comes after init_schema.
LEMMA UpgradeDone ==
  ASSUME LifecycleTypeOK, UpgradeInv, NEW p \in Proc, run[p].at \in After, NEW r,
         run' = [run EXCEPT ![p] = r], db'.version = db.version
  PROVE  UpgradeInv'
<1>1. db.version = SchemaVersion
  BY DEF UpgradeInv
<1> QED
  BY <1>1 DEF UpgradeInv

LEMMA UpgradeSchema ==
  ASSUME LifecycleTypeOK, UpgradeInv, NEW p \in Proc, SchemaStep(p)
  PROVE  UpgradeInv'
<1>1. ASSUME BeginSchema(p) PROVE UpgradeInv'
  <2>1. db' = Opened /\ run[p].at = "schema" /\ Opened \in Database
    BY <1>1, OpenedIsADatabase DEF BeginSchema, At
  <2>2. run \in [Proc -> Runs] /\ run[p] \in Runs
    BY DEF LifecycleTypeOK
  <2>3. CASE Opened.version >= SchemaVersion
    <3>1. Opened.version = SchemaVersion
      BY <2>1, <2>3 DEF Database, SchemaVersion
    <3> QED
      BY <2>1, <3>1 DEF UpgradeInv
  <2>4. CASE ~(Opened.version >= SchemaVersion)
    <3> DEFINE r == [run[p] EXCEPT !.at = "table", !.from = Opened.version]
    <3>1. run'[p] = r /\ \A q \in Proc : q # p => run'[q] = run[q]
      BY <1>1, <2>2, <2>4 DEF BeginSchema, Runs
    <3>2. r.at = "table" /\ r.from = Opened.version
      BY <2>2 DEF Runs
    <3> HIDE DEF r
    <3>3. Opened.version # SchemaVersion
      BY <2>4 DEF SchemaVersion
    <3>4. ASSUME NEW q \in Proc PROVE run'[q].at \notin After
      <4>1. CASE q = p
        BY <3>1, <3>2, <4>1 DEF After, Writing
      <4>2. CASE q # p /\ db = None
        BY <3>1, <4>2 DEF LifecycleTypeOK, Before, After, Writing
      <4>3. CASE q # p /\ db # None
        BY <3>1, <3>3, <4>3 DEF UpgradeInv, Opened
      <4> QED
        BY <4>1, <4>2, <4>3
    <3>5. OldIs(Opened)
      <4>1. CASE db = None
        BY <4>1 DEF Opened, OldIs, EmptyDatabase
      <4>2. CASE db # None
        BY <3>3, <4>2 DEF Opened, UpgradeInv
      <4> QED
        BY <4>1, <4>2
    <3>6. ASSUME NEW q \in Proc PROVE MigratesTo(run'[q], Opened)
      <4>1. CASE q = p
        BY <3>1, <3>2, <4>1 DEF MigratesTo
      <4>2. CASE q # p /\ db = None
        BY <3>1, <4>2 DEF LifecycleTypeOK, Before, MigratesTo, Schema
      <4>3. CASE q # p /\ db # None
        BY <3>1, <3>3, <4>3 DEF UpgradeInv, Opened
      <4> QED
        BY <4>1, <4>2, <4>3
    <3> QED
      BY <2>1, <3>4, <3>5, <3>6 DEF UpgradeInv
  <2> QED
    BY <2>3, <2>4
<1>2. ASSUME NEW s \in {"edims", "json", "postings", "version"}, Goto(p, s),
             run[p].at \in Schema, db \in Database, db # None, db' # None,
             db'.version = db.version,
             db.version # SchemaVersion =>
               /\ OldIs(db') /\ MigratesTo(run'[p], db')
               /\ \A q \in Proc : q # p => MigratesTo(run[q], db')
      PROVE  UpgradeInv'
  <2>1. /\ run'[p].at = s /\ s \notin After /\ \A q \in Proc : q # p => run'[q] = run[q]
    <3>1. s \notin After
      BY DEF After, Writing
    <3>2. run \in [Proc -> Runs]
      BY DEF LifecycleTypeOK
    <3> QED
      BY <1>2, <3>1, <3>2 DEF Goto, Runs
  <2>2. ASSUME NEW q \in Proc, run'[q].at \in After PROVE db'.version = SchemaVersion
    BY <1>2, <2>1, <2>2 DEF UpgradeInv
  <2>3. ASSUME db'.version # SchemaVersion, NEW q \in Proc PROVE MigratesTo(run'[q], db')
    BY <1>2, <2>1, <2>3
  <2> QED
    BY <1>2, <2>2, <2>3 DEF UpgradeInv
<1>3. ASSUME run[p].at \in Schema
      PROVE  /\ db \in Database /\ db # None /\ run[p] \in Runs /\ run \in [Proc -> Runs]
             /\ db.version # SchemaVersion => OldIs(db) /\ \A q \in Proc : MigratesTo(run[q], db)
  BY <1>3, PlaceIs DEF Schema, Before, LifecycleTypeOK, UpgradeInv
<1>4. ASSUME CreateTable(p) PROVE UpgradeInv'
  <2>1. run[p].at \in Schema /\ run[p].at = "table" /\ Goto(p, "edims")
    BY <1>4 DEF CreateTable, At, Schema
  <2>2. db' = [db EXCEPT !.table = IF @ = 0 THEN run[p].dims ELSE @]
    BY <1>4 DEF CreateTable
  <2>3. /\ db'.version = db.version /\ db'.chunks = db.chunks /\ db'.posted = db.posted
        /\ db'.vec = db.vec /\ db'.json = db.json
    BY <1>3, <2>1, <2>2 DEF Database
  <2>4. run'[p].at = "edims" /\ run'[p].from = run[p].from
    BY <1>3, <2>1 DEF Goto, Runs
  <2>5. db' # None
    BY <1>4, <2>1, SchemaStepTypes, <1>3, PlaceIs, <2>4, IdleIsARun DEF LifecycleTypeOK, SchemaStep, Before
  <2> QED
    BY <1>2, <1>3, <2>1, <2>3, <2>4, <2>5 DEF OldIs, MigratesTo, Carried
<1>5. ASSUME SetDimensions(p) PROVE UpgradeInv'
  <2>1. run[p].at \in Schema /\ run[p].at = "edims" /\ Goto(p, IF run[p].from = 1 THEN "json" ELSE "postings")
    BY <1>5 DEF SetDimensions, At, Schema
  <2>2. db' = [db EXCEPT !.edims = run[p].dims]
    BY <1>5 DEF SetDimensions
  <2>3. /\ db'.version = db.version /\ db'.chunks = db.chunks /\ db'.posted = db.posted
        /\ db'.vec = db.vec /\ db'.json = db.json
    BY <1>3, <2>1, <2>2 DEF Database
  <2>4. run'[p].at = (IF run[p].from = 1 THEN "json" ELSE "postings") /\ run'[p].from = run[p].from
    BY <1>3, <2>1 DEF Goto, Runs
  <2>5. db' # None
    BY <1>5, <2>1, SchemaStepTypes, <1>3, PlaceIs, <2>4, IdleIsARun DEF LifecycleTypeOK, SchemaStep, Before
  <2>6. db.version # SchemaVersion /\ run[p].from # 1 => Carried(db)
    BY <1>3, <2>1 DEF OldIs, MigratesTo, Carried
  <2> QED
    BY <1>2, <1>3, <2>1, <2>3, <2>4, <2>5, <2>6 DEF OldIs, MigratesTo, Carried
<1>6. ASSUME MigrateVectors(p) PROVE UpgradeInv'
  <2>1. run[p].at \in Schema /\ run[p].at = "json"
    BY <1>6 DEF MigrateVectors, At, Schema
  <2>2. CASE Stop(p) /\ db' = db
    BY <1>3, <2>1, <2>2, UpgradeIdles, IdleIsARun DEF Stop, After, Writing, Schema
  <2>3. CASE Goto(p, "postings") /\
             db' = [db EXCEPT !.vec = [c \in Chunk |-> IF db.json[c] = None THEN @[c] ELSE db.json[c]]]
    <3>1. /\ db'.version = db.version /\ db'.chunks = db.chunks /\ db'.posted = db.posted
          /\ db'.json = db.json
          /\ \A c \in Chunk : db'.vec[c] = IF db.json[c] = None THEN db.vec[c] ELSE db.json[c]
      BY <1>3, <2>1, <2>3 DEF Database
    <3>2. run'[p].at = "postings" /\ run'[p].from = run[p].from
      BY <1>3, <2>1, <2>3 DEF Goto, Runs
    <3>3. db' # None
      BY <1>6, <2>1, SchemaStepTypes, <1>3, PlaceIs, <3>2, IdleIsARun DEF LifecycleTypeOK, SchemaStep, Before
    <3>4. Carried(db')
      BY <3>1 DEF Carried
    <3> QED
      BY <1>2, <1>3, <2>1, <2>3, <3>1, <3>2, <3>3, <3>4 DEF OldIs, MigratesTo
  <2> QED
    BY <1>6, <2>2, <2>3 DEF MigrateVectors
<1>7. ASSUME RebuildPostings(p) PROVE UpgradeInv'
  <2>1. run[p].at \in Schema /\ run[p].at = "postings" /\ Goto(p, "version")
    BY <1>7 DEF RebuildPostings, At, Schema
  <2>2. db' = IF LacksPostings(run[p].from) THEN [db EXCEPT !.posted = db.chunks] ELSE db
    BY <1>7 DEF RebuildPostings
  <2>3. /\ db'.version = db.version /\ db'.chunks = db.chunks /\ db'.vec = db.vec /\ db'.json = db.json
        /\ db'.posted \in {db.posted, db.chunks} /\ (LacksPostings(run[p].from) => db'.posted = db.chunks)
    BY <1>3, <2>1, <2>2 DEF Database
  <2>4. run'[p].at = "version" /\ run'[p].from = run[p].from
    BY <1>3, <2>1 DEF Goto, Runs
  <2>5. db' # None
    BY <1>7, <2>1, SchemaStepTypes, <1>3, PlaceIs, <2>4, IdleIsARun DEF LifecycleTypeOK, SchemaStep, Before
  <2>6. db.version # SchemaVersion => db'.chunks \subseteq db'.posted
    <3>1. ASSUME db.version # SchemaVersion PROVE db.version \in 0 .. 3 /\ run[p].from = db.version /\ OldIs(db)
      BY <1>3, <2>1, <3>1 DEF Database, SchemaVersion, MigratesTo
    <3> QED
      BY <2>3, <3>1 DEF LacksPostings, OldIs
  <2> QED
    BY <1>2, <1>3, <2>1, <2>3, <2>4, <2>5, <2>6 DEF OldIs, MigratesTo, Carried
<1>8. ASSUME SetVersion(p) PROVE UpgradeInv'
  <2>1. db'.version = SchemaVersion
    BY <1>8, <1>3 DEF SetVersion, At, Schema, Database
  <2> QED
    BY <2>1 DEF UpgradeInv
<1> QED
  BY <1>1, <1>4, <1>5, <1>6, <1>7, <1>8 DEF SchemaStep

LEMMA UpgradeInit ==
  ASSUME Init PROVE UpgradeInv
<1>1. \A p \in Proc : run[p].at \notin After \cup Schema
  BY IdleIsARun DEF Init, After, Writing, Schema
<1>2. ASSUME db # None PROVE OldIs(db)
  <2>1. PICK v \in OldVersion, e \in Embedder, cs \in SUBSET Chunk, width \in Dims :
          \E dims \in {Kind[e].declared, Kind[e].real} : db = OldDatabase(v, e, cs, dims, width)
    BY <1>2 DEF Init
  <2>2. PICK dims \in {Kind[e].declared, Kind[e].real} : db = OldDatabase(v, e, cs, dims, width)
    BY <2>1
  <2>3. v \in 1 .. 3
    BY LifecycleAssumption DEF SchemaVersion
  <2>4. /\ db.version = v
        /\ db.json = IF v = 1 THEN [c \in Chunk |-> IF c \in cs THEN e ELSE None] ELSE [c \in Chunk |-> None]
        /\ db.posted = (IF v > 2 THEN cs ELSE {}) /\ db.chunks = cs
    BY <2>2 DEF OldDatabase, EmptyDatabase
  <2> QED
    BY <2>3, <2>4 DEF OldIs
<1>3. ASSUME NEW p \in Proc PROVE MigratesTo(run[p], db)
  BY <1>1 DEF MigratesTo
<1> QED
  BY <1>1, <1>2, <1>3 DEF UpgradeInv

LEMMA UpgradeNext ==
  ASSUME LifecycleTypeOK, UpgradeInv, [Next]_vars PROVE UpgradeInv'
<1> USE DEF At
<1>1. ASSUME NEW p \in Proc, InitStep(p) PROVE UpgradeInv'
  <2>1. ASSUME NEW e \in Embedder, NEW d \in {Kind[e].declared, Kind[e].real}, StartInit(p, e, d)
        PROVE  UpgradeInv'
    BY <2>1, UpgradeIdles DEF StartInit, After, Writing, Schema
  <2>2. ASSUME TakeLock(p) PROVE UpgradeInv'
    <3>1. run[p].at = "lock" /\ db' = db /\ run[p] \in Runs
      BY <2>2 DEF TakeLock, LifecycleTypeOK
    <3>2. CASE Stop(p)
      BY <3>1, <3>2, UpgradeIdles, IdleIsARun DEF Stop, After, Writing, Schema
    <3>3. CASE Goto(p, "mkdir")
      <4> DEFINE r == [run[p] EXCEPT !.at = "mkdir"]
      <4>1. r.at = "mkdir" /\ run' = [run EXCEPT ![p] = r]
        BY <3>1, <3>3 DEF Goto, Runs, LifecycleTypeOK
      <4> QED
        BY <3>1, <4>1, UpgradeIdles DEF After, Writing, Schema
    <3> QED
      BY <2>2, <3>2, <3>3 DEF TakeLock
  <2>3. ASSUME MakeDirectory(p) PROVE UpgradeInv'
    <3>1. run[p].at = "mkdir" /\ db' = db /\ run[p] \in Runs
      BY <2>3 DEF MakeDirectory, LifecycleTypeOK
    <3> DEFINE r == [run[p] EXCEPT !.at = "schema"]
    <3>2. r.at = "schema" /\ run' = [run EXCEPT ![p] = r]
      BY <2>3, <3>1 DEF MakeDirectory, Goto, Runs, LifecycleTypeOK
    <3> QED
      BY <3>1, <3>2, UpgradeIdles DEF After, Writing, Schema
  <2>4. ASSUME WriteConfig(p) PROVE UpgradeInv'
    BY <2>4, UpgradeDone DEF WriteConfig, After, Goto
  <2>5. ASSUME ReleaseLock(p) PROVE UpgradeInv'
    BY <2>5, UpgradeDone DEF ReleaseLock, After, Stop
  <2> QED
    BY <1>1, <2>1, <2>2, <2>3, <2>4, <2>5 DEF InitStep
<1>2. ASSUME NEW p \in Proc, MetaStep(p) PROVE UpgradeInv'
  <2>1. run[p].at \in After /\ run[p].at \notin Before
    BY <1>2 DEF MetaStep, WriteProvider, WriteModel, WriteDims, WriteStats, After, Writing, Before
  <2>2. db \in Database
    BY <2>1 DEF LifecycleTypeOK
  <2>3. db'.version = db.version
    BY <1>2, <2>2 DEF MetaStep, WriteProvider, WriteModel, WriteDims, WriteStats, Database
  <2>4. \E r : run' = [run EXCEPT ![p] = r]
    BY <1>2 DEF MetaStep, WriteProvider, WriteModel, WriteDims, WriteStats, Goto
  <2> QED
    BY <2>1, <2>3, <2>4, UpgradeDone
<1>3. ASSUME NEW p \in Proc, IndexStep(p) PROVE UpgradeInv'
  <2>1. ASSUME NEW full \in BOOLEAN, StartIndex(p, full) PROVE UpgradeInv'
    <3>1. run[p] = Idle /\ db' = Opened
      BY <2>1, StartIndexIs
    <3>2. CASE run' = run
      <4>1. CASE db # None
        BY <3>1, <3>2, <4>1 DEF Opened, UpgradeInv
      <4>2. CASE db = None
        <5>1. \A q \in Proc : run[q].at \notin After \cup Schema
          BY <4>2 DEF LifecycleTypeOK, Before, After, Writing, Schema
        <5>2. OldIs(EmptyDatabase)
          BY DEF OldIs, EmptyDatabase
        <5> QED
          BY <3>1, <3>2, <4>2, <5>1, <5>2 DEF Opened, UpgradeInv, MigratesTo
      <4> QED
        BY <4>1, <4>2
    <3>3. ASSUME NEW r \in Runs, run' = [run EXCEPT ![p] = r], r.at = "schema", db' = db
          PROVE  UpgradeInv'
      BY <3>3, UpgradeIdles DEF After, Writing, Schema
    <3> QED
      BY <2>1, <3>2, <3>3, StartIndexIs
  <2>2. ASSUME RemoveDatabase(p) PROVE UpgradeInv'
    <3>1. /\ run[p] \in Runs /\ run'[p] = [run[p] EXCEPT !.at = "schema", !.then = "provider"]
          /\ \A q \in Proc : q # p => run'[q] = Idle
      BY <2>2, RemoveDatabaseIs DEF LifecycleTypeOK
    <3>2. run'[p].at = "schema"
      BY <3>1 DEF Runs
    <3>3. \A q \in Proc : run'[q].at \notin After
      BY <3>1, <3>2, IdleIsARun DEF After, Writing
    <3> QED
      BY <2>2, <3>3 DEF RemoveDatabase, UpgradeInv
  <2>3. ASSUME RecreateVectorIndex(p) PROVE UpgradeInv'
    <3>1. run[p].at \in After /\ run[p].at \notin Before
      BY <2>3 DEF RecreateVectorIndex, After, Before
    <3>2. db \in Database
      BY <3>1 DEF LifecycleTypeOK
    <3>3. db'.version = db.version
      BY <2>3, <3>2 DEF RecreateVectorIndex, Recreated, Database
    <3> QED
      BY <2>3, <3>1, <3>3, UpgradeDone DEF RecreateVectorIndex, Goto
  <2>4. ASSUME NEW c \in Chunk, EmbedChunk(p, c) PROVE UpgradeInv'
    <3>1. run[p].at \in After /\ run[p].at \notin Before
      BY <2>4 DEF EmbedChunk, After, Before
    <3>2. db \in Database
      BY <3>1 DEF LifecycleTypeOK
    <3>3. db'.version = db.version /\ run' = run
      BY <2>4, <3>2 DEF EmbedChunk, Database
    <3> QED
      BY <3>1, <3>3 DEF UpgradeInv
  <2>5. ASSUME EndEmbedding(p) PROVE UpgradeInv'
    <3>1. run[p].at \in After /\ db' = db
      BY <2>5 DEF EndEmbedding, After
    <3>2. \E r : run' = [run EXCEPT ![p] = r]
      BY <2>5 DEF EndEmbedding, Goto, Stop
    <3> QED
      BY <3>1, <3>2, UpgradeDone
  <2>6. ASSUME Finish(p) PROVE UpgradeInv'
    BY <2>6, UpgradeDone DEF Finish, After, Stop
  <2> QED
    BY <1>3, <2>1, <2>2, <2>3, <2>4, <2>5, <2>6 DEF IndexStep
<1>4. ASSUME NEW p \in Proc, ServerStep(p) PROVE UpgradeInv'
  <2>1. ASSUME StartServer(p) PROVE UpgradeInv'
    BY <2>1, UpgradeIdles DEF StartServer, After, Writing, Schema
  <2>2. ASSUME CheckProvider(p) PROVE UpgradeInv'
    <3>1. run[p].at \in After /\ db' = db
      BY <2>2 DEF CheckProvider, After
    <3>2. \E r : run' = [run EXCEPT ![p] = r]
      BY <2>2 DEF CheckProvider, Goto, Stop
    <3> QED
      BY <3>1, <3>2, UpgradeDone
  <2>3. ASSUME NEW full \in BOOLEAN, Reindex(p, full) PROVE UpgradeInv'
    <3>1. run[p].at \in After /\ run[p].at \notin Before
      BY <2>3 DEF Reindex, After, Before
    <3>2. db \in Database /\ run \in [Proc -> Runs]
      BY <3>1 DEF LifecycleTypeOK
    <3>3. db'.version = db.version
      BY <2>3, <3>2 DEF Reindex, Cleared, EmptyDatabase, Database
    <3>4. \E r : run' = [run EXCEPT ![p] = r]
      <4>1. CASE full
        BY <2>3, <3>2, <4>1 DEF Reindex, Runs
      <4>2. CASE ~full
        BY <2>3, <4>2 DEF Reindex, Goto
      <4> QED
        BY <4>1, <4>2
    <3> QED
      BY <3>1, <3>3, <3>4, UpgradeDone
  <2> QED
    BY <1>4, <2>1, <2>2, <2>3 DEF ServerStep
<1>5. ASSUME NEW p \in Proc, Halt(p) PROVE UpgradeInv'
  BY <1>5, UpgradeIdles, IdleIsARun DEF Halt, Stop, After, Writing, Schema
<1>6. ASSUME UserStep PROVE UpgradeInv'
  <2>1. CASE UNCHANGED <<db, run>>
    BY <2>1 DEF UpgradeInv
  <2>2. CASE Purge
    BY <2>2, IdleIsARun DEF Purge, Resting, UpgradeInv, After, Writing
  <2> QED
    BY <1>6, <2>1, <2>2 DEF UserStep, EditConfig, AddChunk
<1>7. CASE UNCHANGED vars
  BY <1>7 DEF vars, UpgradeInv
<1> QED
  BY <1>1, <1>2, <1>3, <1>4, <1>5, <1>6, <1>7, UpgradeSchema DEF Next

\* Only SetVersion sets the version of a database that is there.
LEMMA OnlySetVersionUpgrades ==
  ASSUME LifecycleTypeOK, UpgradeInv, [Next]_vars,
         db # None, db' # None, db.version < SchemaVersion, db'.version = SchemaVersion
  PROVE  \E p \in Proc : SetVersion(p)
<1> USE DEF At
<1>1. db \in Database /\ db.version # SchemaVersion
  BY DEF LifecycleTypeOK, Database, SchemaVersion
<1>2. \A p \in Proc : run[p].at \notin After
  BY <1>1 DEF UpgradeInv
<1>3. db' # db
  BY <1>1
<1>4. Opened = db
  BY DEF Opened
<1>5. PICK p \in Proc : InitStep(p) \/ SchemaStep(p) \/ MetaStep(p) \/ IndexStep(p) \/ ServerStep(p) \/ Halt(p)
  BY <1>3 DEF Next, vars, UserStep, EditConfig, Purge, AddChunk
<1>6. ~InitStep(p) /\ ~Halt(p)
  BY <1>3 DEF InitStep, StartInit, TakeLock, MakeDirectory, WriteConfig, ReleaseLock, Halt
<1>7. ~MetaStep(p)
  BY <1>2 DEF MetaStep, WriteProvider, WriteModel, WriteDims, WriteStats, After, Writing
<1>8. ~IndexStep(p)
  BY <1>2, <1>3, <1>4 DEF IndexStep, StartIndex, RemoveDatabase, RecreateVectorIndex, EmbedChunk, EndEmbedding,
     Finish, After
<1>9. ~ServerStep(p)
  BY <1>2, <1>3 DEF ServerStep, StartServer, CheckProvider, Reindex, After
<1>10. ASSUME SchemaStep(p), ~SetVersion(p) PROVE FALSE
  <2>1. db'.version = db.version
    BY <1>1, <1>4, <1>10 DEF SchemaStep, BeginSchema, CreateTable, SetDimensions, MigrateVectors, RebuildPostings,
       Database
  <2> QED
    BY <1>1, <2>1
<1> QED
  BY <1>5, <1>6, <1>7, <1>8, <1>9, <1>10

(* When the version is set, the postings and the vectors of schema 1 are   *)
(* there, whatever processes there are and wherever each of them stops.    *)
THEOREM UpgradesAreComplete == Spec => UpgradeIsComplete
<1>1. ASSUME LifecycleTypeOK, UpgradeInv, [Next]_vars,
             db # None, db' # None, db.version < SchemaVersion, db'.version = SchemaVersion
      PROVE  \A c \in db'.chunks : c \in db'.posted /\ (db'.json[c] # None => db'.vec[c] = db'.json[c])
  <2>1. PICK p \in Proc : SetVersion(p)
    BY <1>1, OnlySetVersionUpgrades
  <2>2. db \in Database /\ db.version # SchemaVersion
    BY <1>1 DEF LifecycleTypeOK, Database, SchemaVersion
  <2>3. MigratesTo(run[p], db) /\ run[p].at = "version"
    BY <1>1, <2>1, <2>2 DEF UpgradeInv, SetVersion, At
  <2>4. Carried(db) /\ db.chunks \subseteq db.posted /\ db.chunks \subseteq Chunk
    BY <2>2, <2>3 DEF MigratesTo, Schema, Database
  <2>5. /\ db'.chunks = db.chunks /\ db'.posted = db.posted /\ db'.json = db.json /\ db'.vec = db.vec
    BY <2>1, <2>2 DEF SetVersion, Database
  <2> QED
    BY <2>4, <2>5 DEF Carried
<1> DEFINE Upgrade ==
      db # None /\ db' # None /\ db.version < SchemaVersion /\ db'.version = SchemaVersion =>
        \A c \in db'.chunks : c \in db'.posted /\ (db'.json[c] # None => db'.vec[c] = db'.json[c])
<1>2. LifecycleTypeOK /\ UpgradeInv /\ [Next]_vars => [Upgrade]_vars
  BY <1>1
<1>3. LifecycleTypeOK /\ UpgradeInv /\ [Next]_vars => UpgradeInv'
  BY UpgradeNext
<1>4. Init => UpgradeInv
  BY UpgradeInit
<1>5. Spec => [][Upgrade]_vars
  <2> HIDE DEF Upgrade
  <2> QED
    BY <1>2, <1>3, <1>4, LifecycleTypes, PTL DEF Spec
<1> QED
  BY <1>5 DEF UpgradeIsComplete

-----------------------------------------------------------------------------
(* What the steps do, for the invariants below. *)

Others(p) == \A q \in Proc : q # p => run'[q] = run[q]

Keeps(p) ==
  /\ run'[p].cmd = run[p].cmd /\ run'[p].dims = run[p].dims
  /\ run'[p].use = run[p].use /\ run'[p].new = run[p].new

Moved(p, step) ==
  run'[p].at = step /\ run'[p].then = run[p].then /\ run'[p].from = run[p].from /\ Keeps(p) /\ Others(p)

SameMeta(d, e) ==
  e.provider = d.provider /\ e.model = d.model /\ e.dims = d.dims /\ e.stats = d.stats
SameTable(d, e) == e.version = d.version /\ e.table = d.table /\ e.edims = d.edims
SameVectors(d, e) == e.vec = d.vec /\ e.json = d.json

LEMMA MovesTo ==
  ASSUME LifecycleTypeOK, NEW p \in Proc, NEW step, Goto(p, step) PROVE Moved(p, step)
<1>1. run \in [Proc -> Runs] /\ run[p] \in Runs
  BY DEF LifecycleTypeOK
<1>2. run' = [run EXCEPT ![p] = [run[p] EXCEPT !.at = step]]
  BY <1>1 DEF Goto, Runs
<1> QED
  BY <1>1, <1>2 DEF Moved, Keeps, Others, Runs

LEMMA StopsAt ==
  ASSUME LifecycleTypeOK, NEW p \in Proc, Stop(p) PROVE run'[p] = Idle /\ Others(p)
BY DEF LifecycleTypeOK, Stop, Others

LEMMA SchemaEnds ==
  ASSUME LifecycleTypeOK, NEW p \in Proc, run[p].at \in Early, SchemaIsDone(p)
  PROVE  /\ run'[p].at = run[p].then /\ run'[p].then = "none" /\ Keeps(p) /\ Others(p)
         /\ run'[p].at \in {"provider", "recreate", "embed", "remove", "check"}
<1>1. run[p] \in Runs /\ Place(run[p]) /\ run[p] # Idle
  BY PlaceIs DEF Early, Schema
<1>2. run' = [run EXCEPT ![p] = [run[p] EXCEPT !.at = run[p].then, !.then = "none", !.from = 0]]
  BY SchemaIsDoneIs
<1>3. run'[p] = [run[p] EXCEPT !.at = run[p].then, !.then = "none", !.from = 0] /\ Others(p)
  BY <1>2 DEF LifecycleTypeOK, Others
<1>4. run[p].then \in {"provider", "recreate", "embed", "remove", "check"}
  BY <1>1 DEF Place, Early, Schema, Writing
<1> QED
  BY <1>1, <1>3, <1>4 DEF Keeps, Runs

\* The steps that leave the database alone.
Quiet(p) ==
  InitStep(p) \/ EndEmbedding(p) \/ Finish(p) \/ StartServer(p) \/ CheckProvider(p) \/ Reindex(p, FALSE) \/ Halt(p)

LEMMA QuietSteps ==
  ASSUME LifecycleTypeOK, NEW p \in Proc, Quiet(p)
  PROVE  /\ db' = db /\ Others(p)
         /\ past \subseteq past' /\ past' \subseteq past \cup {"unlisted", "overtaken"}
         /\ run'[p].at \in {"none", "lock", "mkdir", "schema", "unlock", "embed", "serving", "finish"}
         /\ run'[p].cmd = "index" => run[p].at = "embed" /\ run'[p].at = "finish" /\ Keeps(p)
         /\ config' # config => config' # None /\ run[p].at = "config"
<1> USE DEF At
<1>1. ASSUME NEW e \in Embedder, NEW d, StartInit(p, e, d)
      PROVE  /\ db' = db /\ past' = past /\ config' = config /\ Others(p)
             /\ run'[p].at = "lock" /\ run'[p].cmd = "init"
  BY <1>1 DEF StartInit, LifecycleTypeOK, Others
<1>2. ASSUME NEW step, Goto(p, step)
      PROVE  Others(p) /\ run'[p].at = step /\ Keeps(p) /\ Others(p)
  BY <1>2, MovesTo DEF Moved
<1>3. ASSUME Stop(p) PROVE Others(p) /\ run'[p].at = "none" /\ run'[p].cmd = "none"
  BY <1>3, StopsAt, IdleIsARun
<1>4. ASSUME NEW step \in Step, run[p].at = step, step \in {"lock", "mkdir", "config", "unlock"}
      PROVE  run[p].cmd # "index"
  BY <1>4, PlaceIs, IdleIsARun DEF Place, Early, Schema, Writing
<1>5. ASSUME run[p].at \in {"check", "serving"} PROVE run[p].cmd # "index"
  BY <1>5, PlaceIs, IdleIsARun DEF Place, Early, Schema, Writing
<1>6. CASE InitStep(p)
  <2>1. ASSUME TakeLock(p) PROVE run[p].cmd # "index" /\ (Stop(p) \/ Goto(p, "mkdir"))
    BY <1>4, <2>1 DEF TakeLock, Step
  <2>2. CASE TakeLock(p)
    BY <1>2, <1>3, <2>1, <2>2 DEF TakeLock, Keeps
  <2>3. CASE MakeDirectory(p)
    <3>1. run[p].cmd # "index"
      BY <1>4, <2>3 DEF MakeDirectory, Step
    <3> QED
      BY <1>2, <2>3, <3>1 DEF MakeDirectory, Keeps
  <2>4. CASE WriteConfig(p)
    <3>1. run[p].cmd # "index" /\ run[p].new.model # None
      BY <2>4, PlaceIs, IdleIsARun DEF WriteConfig, Place, Early, Schema, Writing, Described
    <3>2. PICK step \in {"unlock", "embed"} : Goto(p, step)
      BY <2>4 DEF WriteConfig
    <3>3. Others(p) /\ run'[p].at \in {"unlock", "embed"} /\ run'[p].cmd = run[p].cmd
      BY <1>2, <3>2 DEF Keeps
    <3> QED
      BY <2>4, <3>1, <3>3 DEF WriteConfig
  <2>5. CASE ReleaseLock(p)
    BY <1>3, <2>5 DEF ReleaseLock
  <2> QED
    BY <1>1, <1>6, <2>2, <2>3, <2>4, <2>5 DEF InitStep
<1>7. CASE EndEmbedding(p)
  <2>1. run[p].at = "embed" /\ UNCHANGED <<config, db, past>>
    BY <1>7 DEF EndEmbedding
  <2>2. CASE Stop(p)
    BY <1>3, <2>1, <2>2
  <2>3. ASSUME NEW step \in {"unlock", "serving", "finish"}, Goto(p, step),
               run[p].cmd = "index" => step = "finish"
        PROVE  /\ Others(p) /\ run'[p].at \in {"unlock", "serving", "finish"}
               /\ run'[p].cmd = "index" => run'[p].at = "finish" /\ Keeps(p)
    BY <1>2, <2>3 DEF Keeps
  <2>4. Stop(p) \/ \E step \in {"unlock", "serving", "finish"} :
                      Goto(p, step) /\ (run[p].cmd = "index" => step = "finish")
    BY <1>7 DEF EndEmbedding
  <2> QED
    BY <2>1, <2>2, <2>3, <2>4
<1>8. CASE Finish(p)
  BY <1>3, <1>8 DEF Finish
<1>9. CASE StartServer(p)
  <2>1. Others(p) /\ run'[p].at = "schema" /\ run'[p].cmd = "serve"
    BY <1>9 DEF StartServer, LifecycleTypeOK, Others
  <2> QED
    BY <1>9, <2>1 DEF StartServer
<1>10. CASE CheckProvider(p)
  <2>1. run[p].cmd # "index" /\ (Stop(p) \/ Goto(p, "serving"))
    BY <1>5, <1>10 DEF CheckProvider
  <2> QED
    BY <1>2, <1>3, <1>10, <2>1 DEF CheckProvider, Keeps
<1>11. CASE Reindex(p, FALSE)
  <2>1. run[p].cmd # "index" /\ Goto(p, "embed")
    BY <1>5, <1>11 DEF Reindex
  <2> QED
    BY <1>2, <1>11, <2>1 DEF Reindex, Keeps
<1>12. CASE Halt(p)
  BY <1>3, <1>12 DEF Halt
<1> QED
  BY <1>6, <1>7, <1>8, <1>9, <1>10, <1>11, <1>12 DEF Quiet

LEMMA MetaEffects ==
  ASSUME LifecycleTypeOK, NEW p \in Proc, MetaStep(p)
  PROVE  /\ db \in Database /\ db # None /\ db' # None /\ config' = config
         /\ SameTable(db, db') /\ SameVectors(db, db')
         /\ Described(run[p]) /\ run[p] # Idle
         /\ \/ /\ run[p].at = "provider" /\ Moved(p, "model") /\ past' = past
               /\ db'.provider = run[p].new.provider
               /\ db'.model = db.model /\ db'.dims = db.dims /\ db'.stats = db.stats
            \/ /\ run[p].at = "model" /\ Moved(p, "dims") /\ past' = past
               /\ db'.model = run[p].new.model
               /\ db'.provider = db.provider /\ db'.dims = db.dims /\ db'.stats = db.stats
            \/ /\ run[p].at = "dims" /\ Moved(p, "stats") /\ past' = past
               /\ db'.dims = run[p].new.dims
               /\ db'.provider = db.provider /\ db'.model = db.model /\ db'.stats = db.stats
            \/ /\ run[p].at = "stats" /\ db'.stats = TRUE
               /\ Moved(p, IF run[p].cmd = "init" THEN "config" ELSE "embed")
               /\ past' = IF run[p].cmd = "full" THEN past \ {"removed"} ELSE past
               /\ db'.provider = db.provider /\ db'.model = db.model /\ db'.dims = db.dims
<1> USE DEF At
<1>1. run[p].at \in Writing /\ run[p].at # "none" /\ run[p].at \notin Before
  BY DEF MetaStep, WriteProvider, WriteModel, WriteDims, WriteStats, Writing, Before
<1>2. run[p] # Idle /\ Place(run[p]) /\ run[p] \in Runs /\ db \in Database /\ db # None
  BY <1>1, PlaceIs
<1>3. Described(run[p])
  BY <1>1, <1>2 DEF Place, Early, Schema, Writing
<1>4. LifecycleTypeOK'
  BY MetaStepTypes
<1>5. config' = config
  BY DEF MetaStep, WriteProvider, WriteModel, WriteDims, WriteStats
<1>6. ASSUME WriteProvider(p)
      PROVE  /\ run[p].at = "provider" /\ Moved(p, "model") /\ past' = past
             /\ db'.provider = run[p].new.provider
             /\ db'.model = db.model /\ db'.dims = db.dims /\ db'.stats = db.stats
             /\ SameTable(db, db') /\ SameVectors(db, db')
  BY <1>2, <1>6, MovesTo DEF WriteProvider, SameTable, SameVectors, Database
<1>7. ASSUME WriteModel(p)
      PROVE  /\ run[p].at = "model" /\ Moved(p, "dims") /\ past' = past
             /\ db'.model = run[p].new.model
             /\ db'.provider = db.provider /\ db'.dims = db.dims /\ db'.stats = db.stats
             /\ SameTable(db, db') /\ SameVectors(db, db')
  BY <1>2, <1>7, MovesTo DEF WriteModel, SameTable, SameVectors, Database
<1>8. ASSUME WriteDims(p)
      PROVE  /\ run[p].at = "dims" /\ Moved(p, "stats") /\ past' = past
             /\ db'.dims = run[p].new.dims
             /\ db'.provider = db.provider /\ db'.model = db.model /\ db'.stats = db.stats
             /\ SameTable(db, db') /\ SameVectors(db, db')
  BY <1>2, <1>8, MovesTo DEF WriteDims, SameTable, SameVectors, Database
<1>9. ASSUME WriteStats(p)
      PROVE  /\ run[p].at = "stats" /\ db'.stats = TRUE
             /\ Moved(p, IF run[p].cmd = "init" THEN "config" ELSE "embed")
             /\ past' = IF run[p].cmd = "full" THEN past \ {"removed"} ELSE past
             /\ db'.provider = db.provider /\ db'.model = db.model /\ db'.dims = db.dims
             /\ SameTable(db, db') /\ SameVectors(db, db')
  BY <1>2, <1>9, MovesTo DEF WriteStats, SameTable, SameVectors, Database
<1>10. db' # None
  <2>1. db' \in Database
    <3>1. run'[p].at \notin Before
      BY <1>6, <1>7, <1>8, <1>9 DEF MetaStep, Moved, Before
    <3> QED
      BY <1>4, <3>1 DEF LifecycleTypeOK
  <2> QED
    BY <2>1, NoneAssumption
<1> QED
  BY <1>2, <1>3, <1>5, <1>6, <1>7, <1>8, <1>9, <1>10 DEF MetaStep

LEMMA SchemaEffects ==
  ASSUME LifecycleTypeOK, NEW p \in Proc, SchemaStep(p)
  PROVE  /\ db' # None /\ config' = config /\ run[p].at \in Early /\ Others(p)
         /\ \/ run'[p] = Idle
            \/ Keeps(p) /\ run'[p].at \in Schema /\ run'[p].then = run[p].then
            \/ /\ Keeps(p) /\ run'[p].at = run[p].then
               /\ run'[p].at \in {"provider", "recreate", "embed", "remove", "check"}
         /\ run[p].at = "schema" => db' = Opened /\ run'[p].at \notin {"edims", "json", "postings", "version"}
         /\ run[p].at # "schema" => db \in Database /\ db # None /\ SameMeta(db, db')
         /\ past \subseteq past' /\ past' \subseteq past \cup {"resized"}
<1> USE DEF At
<1>1. ASSUME BeginSchema(p)
      PROVE  /\ run[p].at = "schema" /\ db' = Opened /\ past' = past /\ config' = config /\ Others(p)
             /\ \/ Keeps(p) /\ run'[p].at = "table" /\ run'[p].then = run[p].then
                \/ /\ Keeps(p) /\ run'[p].at = run[p].then
                   /\ run'[p].at \in {"provider", "recreate", "embed", "remove", "check"}
  <2>1. run[p].at = "schema" /\ db' = Opened /\ past' = past /\ config' = config
        /\ run \in [Proc -> Runs] /\ run[p] \in Runs
    BY <1>1 DEF BeginSchema, LifecycleTypeOK
  <2>2. CASE SchemaIsDone(p)
    BY <2>1, <2>2, SchemaEnds DEF Early
  <2>3. CASE run' = [run EXCEPT ![p].at = "table", ![p].from = Opened.version]
    <3>1. run' = [run EXCEPT ![p] = [run[p] EXCEPT !.at = "table", !.from = Opened.version]]
      BY <2>1, <2>3 DEF Runs
    <3> QED
      BY <2>1, <3>1 DEF Others, Keeps, Runs
  <2> QED
    BY <1>1, <2>1, <2>2, <2>3 DEF BeginSchema
<1>2. ASSUME run[p].at \in Schema PROVE db \in Database /\ db # None /\ run[p] \in Runs
  BY <1>2, PlaceIs DEF Schema, Before
<1>3. ASSUME NEW step, Goto(p, step) PROVE Keeps(p) /\ run'[p].at = step /\ Others(p) /\ run'[p].then = run[p].then
  BY <1>3, MovesTo DEF Moved
<1>4. ASSUME CreateTable(p)
      PROVE  /\ run[p].at \in Schema /\ config' = config /\ Goto(p, "edims") /\ SameMeta(db, db')
             /\ past \subseteq past' /\ past' \subseteq past \cup {"resized"}
  BY <1>2, <1>4 DEF CreateTable, Schema, SameMeta, Database
<1>5. ASSUME SetDimensions(p)
      PROVE  /\ run[p].at \in Schema /\ config' = config /\ past' = past /\ SameMeta(db, db')
             /\ Goto(p, "json") \/ Goto(p, "postings")
  BY <1>2, <1>5 DEF SetDimensions, Schema, SameMeta, Database
<1>6. ASSUME MigrateVectors(p)
      PROVE  /\ run[p].at \in Schema /\ config' = config /\ past' = past /\ SameMeta(db, db')
             /\ (Stop(p) /\ db' = db) \/ Goto(p, "postings")
  BY <1>2, <1>6 DEF MigrateVectors, Schema, SameMeta, Database
<1>7. ASSUME RebuildPostings(p)
      PROVE  /\ run[p].at \in Schema /\ config' = config /\ past' = past /\ SameMeta(db, db')
             /\ Goto(p, "version")
  BY <1>2, <1>7 DEF RebuildPostings, Schema, SameMeta, Database
<1>8. ASSUME SetVersion(p)
      PROVE  /\ run[p].at \in Schema /\ config' = config /\ past' = past /\ SameMeta(db, db')
             /\ SchemaIsDone(p)
  BY <1>2, <1>8 DEF SetVersion, Schema, SameMeta, Database
<1>9. LifecycleTypeOK'
  BY SchemaStepTypes
<1>10. CASE BeginSchema(p)
  BY <1>1, <1>10, OpenedIsADatabase DEF Schema, Early
<1>11. CASE ~BeginSchema(p)
  <2>1. /\ run[p].at \in Schema /\ config' = config /\ SameMeta(db, db')
        /\ past \subseteq past' /\ past' \subseteq past \cup {"resized"}
        /\ (Stop(p) /\ db' = db) \/ SchemaIsDone(p) \/ \E step \in Schema : Goto(p, step)
    BY <1>4, <1>5, <1>6, <1>7, <1>8, <1>11 DEF SchemaStep, Schema
  <2>2. db \in Database /\ db # None /\ db.version \in 0 .. SchemaVersion /\ run[p].at \in Early /\ run[p].at # "schema"
    BY <1>2, <2>1 DEF Database, Early, Schema
  <2>3. db' # None
    <3>1. db' = db \/ db' \in Database
      <4>1. CASE db' = db
        BY <4>1
      <4>2. CASE db' # db
        <5>1. run'[p].at \notin Before
          BY <1>3, <2>1, <2>2, <4>2, SchemaEnds DEF Schema, Before
        <5> QED
          BY <1>9, <5>1 DEF LifecycleTypeOK
      <4> QED
        BY <4>1, <4>2
    <3> QED
      BY <2>2, <3>1, NoneAssumption
  <2> QED
    BY <1>3, <2>1, <2>2, <2>3, StopsAt, SchemaEnds
<1> QED
  BY <1>10, <1>11

(* What remains: the steps that change the table or the file. *)

LEMMA StartEffects ==
  ASSUME LifecycleTypeOK, NEW p \in Proc, NEW full \in BOOLEAN, StartIndex(p, full)
  PROVE  /\ run[p] = Idle /\ db' = Opened /\ past' = past /\ config' = config
         /\ run' = run \/ (/\ Others(p) /\ run'[p].at = "schema" /\ db # None /\ db' = db
                           /\ run'[p].cmd = (IF full THEN "full" ELSE "index"))
<1>1. run[p] = Idle /\ db' = Opened /\ past' = past /\ config' = config
  BY StartIndexIs
<1>2. CASE run' = run
  BY <1>1, <1>2
<1>3. ASSUME NEW r \in Runs, run' = [run EXCEPT ![p] = r], r.at = "schema",
             r.cmd = (IF full THEN "full" ELSE "index"), db \in Database, db' = db
      PROVE  /\ Others(p) /\ run'[p].at = "schema" /\ db # None
             /\ run'[p].cmd = (IF full THEN "full" ELSE "index")
  BY <1>3, NoneAssumption DEF LifecycleTypeOK, Others
<1> QED
  BY <1>1, <1>2, <1>3, StartIndexIs

LEMMA RecreateEffects ==
  ASSUME LifecycleTypeOK, NEW p \in Proc, RecreateVectorIndex(p)
  PROVE  /\ run[p].at = "recreate" /\ run[p].cmd = "index" /\ Described(run[p]) /\ run[p] # Idle
         /\ Moved(p, "provider") /\ config' = config
         /\ db \in Database /\ db # None /\ db' # None /\ SameMeta(db, db')
         /\ db'.version = db.version /\ db'.json = db.json
         /\ db'.vec = [c \in Chunk |-> None]
         /\ db'.table = run[p].new.dims /\ db'.edims = run[p].new.dims
         /\ past' = IF \E q \in Proc \ {p} : Overtaken(p, q) THEN past \cup {"overtaken"} ELSE past
<1> USE DEF At
<1>1. run[p].at = "recreate" /\ Moved(p, "provider") /\ config' = config
  BY MovesTo DEF RecreateVectorIndex
<1>2. run[p] # Idle /\ Place(run[p]) /\ db \in Database /\ db # None
  BY <1>1, PlaceIs DEF Before
<1>3. run[p].cmd = "index" /\ Described(run[p])
  BY <1>1, <1>2 DEF Place, Early, Schema, Writing
<1>4. /\ SameMeta(db, db') /\ db'.version = db.version /\ db'.json = db.json
      /\ db'.vec = [c \in Chunk |-> None]
      /\ db'.table = run[p].new.dims /\ db'.edims = run[p].new.dims
  BY <1>2 DEF RecreateVectorIndex, Recreated, SameMeta, Database
<1>5. db' # None
  <2>1. LifecycleTypeOK'
    BY IndexStepTypes DEF IndexStep
  <2> QED
    BY <1>1, <2>1 DEF LifecycleTypeOK, Moved, Before
<1> QED
  BY <1>1, <1>2, <1>3, <1>4, <1>5 DEF RecreateVectorIndex

LEMMA ClearEffects ==
  ASSUME LifecycleTypeOK, NEW p \in Proc, Reindex(p, TRUE)
  PROVE  /\ run[p].at = "serving" /\ run[p].cmd = "serve" /\ run[p] # Idle /\ config' = config
         /\ run'[p].at = "schema" /\ run'[p].then = "embed" /\ Keeps(p) /\ Others(p)
         /\ db \in Database /\ db # None /\ db' # None
         /\ db'.provider = None /\ db'.model = None /\ db'.dims = 0
         /\ db'.version = db.version
         /\ db'.vec = [c \in Chunk |-> None] /\ db'.json = [c \in Chunk |-> None]
         /\ past' = past \cup {"cleared"}
<1> USE DEF At
<1>1. run[p].at = "serving"
  BY DEF Reindex
<1>2. run[p] # Idle /\ Place(run[p]) /\ run[p] \in Runs /\ run \in [Proc -> Runs] /\ db \in Database /\ db # None
  BY <1>1, PlaceIs DEF Before, LifecycleTypeOK
<1>3. run[p].cmd = "serve"
  BY <1>1, <1>2 DEF Place, Early, Schema, Writing
<1>4. run' = [run EXCEPT ![p] = [run[p] EXCEPT !.at = "schema", !.then = "embed"]]
  BY <1>2 DEF Reindex, Runs
<1>5. run'[p].at = "schema" /\ run'[p].then = "embed" /\ Keeps(p) /\ Others(p)
  BY <1>2, <1>4 DEF Runs, Keeps, Others
<1>6. Cleared(db) \in Database
  BY <1>2, EmptyIsADatabase DEF Cleared, Database
<1>7. db' = Cleared(db) /\ db' # None
  BY <1>6, NoneAssumption DEF Reindex
<1>8. /\ db'.provider = None /\ db'.model = None /\ db'.dims = 0 /\ db'.version = db.version
      /\ db'.vec = [c \in Chunk |-> None] /\ db'.json = [c \in Chunk |-> None]
  BY <1>7 DEF Cleared, EmptyDatabase
<1> QED
  BY <1>1, <1>2, <1>3, <1>5, <1>7, <1>8 DEF Reindex

LEMMA EmbedEffects ==
  ASSUME LifecycleTypeOK, NEW p \in Proc, NEW c \in Chunk, EmbedChunk(p, c)
  PROVE  /\ run[p].at \in {"embed", "serving"} /\ run' = run /\ past' = past /\ config' = config
         /\ db \in Database /\ db # None /\ db' # None
         /\ SameMeta(db, db') /\ SameTable(db, db') /\ db'.json = db.json
         /\ db'.vec = [db.vec EXCEPT ![c] = run[p].use]
<1>1. db \in Database /\ db # None
  BY PlaceIs DEF EmbedChunk, At, Before
<1>2. db' # None
  <2>1. LifecycleTypeOK'
    BY IndexStepTypes DEF IndexStep
  <2> QED
    BY <1>1, <2>1, NoneAssumption DEF LifecycleTypeOK, EmbedChunk, At, Before
<1> QED
  BY <1>1, <1>2 DEF EmbedChunk, At, SameMeta, SameTable, Database

\* Every step.
LEMMA Steps ==
  ASSUME LifecycleTypeOK, [Next]_vars
  PROVE  \/ \E p \in Proc :
              \/ Quiet(p) \/ SchemaStep(p) \/ MetaStep(p) \/ RemoveDatabase(p) \/ RecreateVectorIndex(p)
              \/ Reindex(p, TRUE)
              \/ \E full \in BOOLEAN : StartIndex(p, full)
              \/ \E c \in Chunk : EmbedChunk(p, c)
         \/ Purge
         \/ /\ UNCHANGED <<db, run, past>>
            /\ config' # config => config # None /\ config' # None
<1>1. ASSUME NEW e \in Embedder, EditConfig(e)
      PROVE  UNCHANGED <<db, run, past>> /\ (config' # config => config # None /\ config' # None)
  BY <1>1, KindsAre DEF EditConfig
<1> QED
  BY <1>1 DEF Next, vars, Quiet, IndexStep, ServerStep, UserStep, AddChunk

-----------------------------------------------------------------------------
(* ReadableCanStore.  Whoever is past the creation of the table has found  *)
(* it, or made it, of the width it was given.                              *)

Misfits == {"cleared", "resized", "overtaken"}

Fits(r, d) ==
  /\ r.at \in {"edims", "json", "postings", "version"} => d.table = r.dims
  /\ r.at \in {"json", "postings", "version"} => d.edims = d.table

StoreInv ==
  past \cap Misfits = {} /\ db # None =>
    /\ db.version = SchemaVersion => db.table = db.edims /\ db.edims # 0
    /\ \A p \in Proc : Fits(run[p], db)

\* A step that leaves the table alone, and p outside init_schema.
LEMMA StoreKept ==
  ASSUME LifecycleTypeOK, StoreInv, NEW p \in Proc, Others(p),
         run'[p].at \notin {"edims", "json", "postings", "version"},
         past' \cap Misfits = {} => past \cap Misfits = {},
         db # None, SameTable(db, db')
  PROVE  StoreInv'
<1> SUFFICES ASSUME past' \cap Misfits = {}
             PROVE  /\ db'.version = SchemaVersion => db'.table = db'.edims /\ db'.edims # 0
                    /\ \A q \in Proc : Fits(run'[q], db')
  BY DEF StoreInv
<1>1. \A q \in Proc : Fits(run'[q], db')
  BY DEF StoreInv, Fits, Others, SameTable
<1> QED
  BY <1>1 DEF StoreInv, SameTable

LEMMA StoreSchema ==
  ASSUME LifecycleTypeOK, StoreInv, NEW p \in Proc, SchemaStep(p) PROVE StoreInv'
<1> USE DEF At
<1>1. Others(p) /\ past \subseteq past'
  BY SchemaEffects
<1> SUFFICES ASSUME past' \cap Misfits = {}, db' # None
             PROVE  /\ db'.version = SchemaVersion => db'.table = db'.edims /\ db'.edims # 0
                    /\ \A q \in Proc : Fits(run'[q], db')
  BY DEF StoreInv
<1>2. past \cap Misfits = {}
  BY <1>1
<1>3. CASE run[p].at = "schema"
  <2>1. db' = Opened /\ run'[p].at \notin {"edims", "json", "postings", "version"}
    BY <1>3, SchemaEffects
  <2>2. CASE db = None
    <3>1. \A q \in Proc : run'[q].at \notin {"edims", "json", "postings", "version"}
      BY <1>1, <2>1, <2>2 DEF LifecycleTypeOK, Before, Others
    <3>2. db'.version = 0
      BY <2>1, <2>2 DEF Opened, EmptyDatabase
    <3> QED
      BY <3>1, <3>2 DEF Fits, SchemaVersion
  <2>3. CASE db # None
    <3>1. db' = db
      BY <2>1, <2>3 DEF Opened
    <3> QED
      BY <1>1, <1>2, <2>1, <2>3, <3>1 DEF StoreInv, Fits, Others
  <2> QED
    BY <2>2, <2>3
<1>4. CASE run[p].at # "schema"
  <2>1. /\ db \in Database /\ db # None /\ run[p] # Idle /\ run[p] \in Runs
        /\ run[p].dims \in Dims \cup {0} /\ run[p].dims # 0
        /\ db.version = SchemaVersion => db.table = db.edims /\ db.edims # 0
        /\ \A q \in Proc : Fits(run[q], db)
    BY <1>2, <1>4, SchemaEffects, PlaceIs DEF Early, Schema, LifecycleTypeOK, StoreInv, Runs
  <2>2. CASE CreateTable(p)
    <3>1. /\ run[p].at = "table" /\ Moved(p, "edims")
          /\ db'.table = (IF db.table = 0 THEN run[p].dims ELSE db.table)
          /\ db'.version = db.version /\ db'.edims = db.edims
      BY <2>1, <2>2, MovesTo DEF CreateTable, Database
    <3>2. db.table \in {0, run[p].dims}
      BY <2>2 DEF CreateTable, Misfits
    <3>3. \A q \in Proc : run[q].at \in {"edims", "json", "postings", "version"} => run[q].dims # 0
      BY IdleIsARun DEF LifecycleTypeOK
    <3>4. db'.table = run[p].dims
      BY <3>1, <3>2
    <3>5. ASSUME NEW q \in Proc PROVE Fits(run'[q], db')
      <4>1. CASE q = p
        BY <3>1, <3>4, <4>1 DEF Fits, Moved, Keeps
      <4>2. CASE q # p /\ run[q].at \in {"edims", "json", "postings", "version"}
        BY <1>1, <2>1, <3>1, <3>3, <4>2 DEF Fits, Others
      <4>3. CASE q # p /\ run[q].at \notin {"edims", "json", "postings", "version"}
        BY <1>1, <4>3 DEF Fits, Others
      <4> QED
        BY <4>1, <4>2, <4>3
    <3> QED
      BY <2>1, <3>1, <3>5
  <2>3. CASE SetDimensions(p)
    <3>1. PICK step \in {"json", "postings"} : Goto(p, step)
      BY <2>3 DEF SetDimensions
    <3>2. /\ run[p].at = "edims" /\ Moved(p, step)
          /\ db'.table = db.table /\ db'.version = db.version /\ db'.edims = run[p].dims
      BY <2>1, <2>3, <3>1, MovesTo DEF SetDimensions, Database
    <3>3. db.table = run[p].dims
      BY <2>1, <3>2 DEF Fits
    <3> QED
      BY <1>1, <2>1, <3>2, <3>3 DEF Fits, Others, Moved, Keeps
  <2>4. CASE MigrateVectors(p)
    <3>1. run[p].at = "json" /\ SameTable(db, db')
      BY <2>1, <2>4 DEF MigrateVectors, SameTable, Database
    <3>2. run'[p] = Idle \/ Moved(p, "postings")
      BY <2>4, MovesTo, StopsAt DEF MigrateVectors
    <3> QED
      BY <1>1, <2>1, <3>1, <3>2, IdleIsARun DEF Fits, Others, Moved, Keeps, SameTable
  <2>5. CASE RebuildPostings(p)
    <3>1. run[p].at = "postings" /\ SameTable(db, db') /\ Moved(p, "version")
      BY <2>1, <2>5, MovesTo DEF RebuildPostings, SameTable, Database
    <3> QED
      BY <1>1, <2>1, <3>1 DEF Fits, Others, Moved, Keeps, SameTable
  <2>6. CASE SetVersion(p)
    <3>1. run[p].at = "version" /\ db'.table = db.table /\ db'.edims = db.edims /\ SchemaIsDone(p)
      BY <2>1, <2>6 DEF SetVersion, Database
    <3>2. run'[p].at \in {"provider", "recreate", "embed", "remove", "check"}
      BY <3>1, SchemaEnds DEF Early, Schema
    <3> QED
      BY <1>1, <2>1, <3>1, <3>2 DEF Fits, Others
  <2> QED
    BY <1>4, <2>2, <2>3, <2>4, <2>5, <2>6 DEF SchemaStep, BeginSchema
<1> QED
  BY <1>3, <1>4

LEMMA StoreNext ==
  ASSUME LifecycleTypeOK, StoreInv, [Next]_vars PROVE StoreInv'
<1>1. ASSUME NEW p \in Proc, Quiet(p) PROVE StoreInv'
  <2>1. /\ db' = db /\ Others(p) /\ past \subseteq past'
        /\ run'[p].at \notin {"edims", "json", "postings", "version"}
    BY <1>1, QuietSteps
  <2> QED
    BY <2>1, StoreKept DEF SameTable, StoreInv
<1>2. ASSUME NEW p \in Proc, MetaStep(p) PROVE StoreInv'
  <2>1. /\ db # None /\ Others(p) /\ SameTable(db, db')
        /\ run'[p].at \in {"model", "dims", "stats", "config", "embed"}
        /\ past' \in {past, past \ {"removed"}}
    BY <1>2, MetaEffects DEF Moved
  <2>2. past' \cap Misfits = {} => past \cap Misfits = {}
    BY <2>1 DEF Misfits
  <2> QED
    BY <2>1, <2>2, StoreKept
<1>3. ASSUME NEW p \in Proc, RemoveDatabase(p) PROVE StoreInv'
  BY <1>3 DEF RemoveDatabase, StoreInv
<1>4. ASSUME NEW p \in Proc, RecreateVectorIndex(p) PROVE StoreInv'
  <2> SUFFICES ASSUME past' \cap Misfits = {}
               PROVE  /\ db'.version = SchemaVersion => db'.table = db'.edims /\ db'.edims # 0
                      /\ \A q \in Proc : Fits(run'[q], db')
    BY DEF StoreInv
  <2>1. /\ Moved(p, "provider") /\ Described(run[p])
        /\ db'.table = run[p].new.dims /\ db'.edims = run[p].new.dims
        /\ \A q \in Proc \ {p} : ~Overtaken(p, q)
    BY <1>4, RecreateEffects DEF Misfits
  <2>2. ASSUME NEW q \in Proc PROVE run'[q].at \notin {"edims", "json", "postings", "version"}
    BY <2>1, IdleIsARun DEF Overtaken, InSchema, Moved, Others
  <2> QED
    BY <2>1, <2>2 DEF Fits, Described
<1>5. ASSUME NEW p \in Proc, Reindex(p, TRUE) PROVE StoreInv'
  BY <1>5, ClearEffects DEF StoreInv, Misfits
<1>6. ASSUME NEW p \in Proc, NEW full \in BOOLEAN, StartIndex(p, full) PROVE StoreInv'
  <2>1. CASE db = None
    <3>1. db' = EmptyDatabase /\ run' = run
      BY <1>6, <2>1, StartEffects DEF Opened
    <3>2. \A q \in Proc : run'[q].at \notin {"edims", "json", "postings", "version"}
      BY <2>1, <3>1 DEF LifecycleTypeOK, Before
    <3> QED
      BY <3>1, <3>2 DEF StoreInv, Fits, EmptyDatabase, SchemaVersion
  <2>2. CASE db # None
    <3>1. db' = db /\ past' = past
      BY <1>6, <2>2, StartEffects DEF Opened
    <3>2. CASE run' = run
      BY <3>1, <3>2 DEF StoreInv
    <3>3. CASE Others(p) /\ run'[p].at = "schema"
      BY <2>2, <3>1, <3>3, StoreKept DEF SameTable
    <3> QED
      BY <1>6, <3>2, <3>3, StartEffects
  <2> QED
    BY <2>1, <2>2
<1>7. ASSUME NEW p \in Proc, NEW c \in Chunk, EmbedChunk(p, c) PROVE StoreInv'
  <2>1. /\ run[p].at \in {"embed", "serving"} /\ run' = run /\ past' = past /\ db # None /\ SameTable(db, db')
    BY <1>7, EmbedEffects
  <2> QED
    BY <2>1, StoreKept DEF Others
<1>8. ASSUME Purge PROVE StoreInv'
  BY <1>8 DEF Purge, StoreInv
<1>9. ASSUME UNCHANGED <<db, run, past>> PROVE StoreInv'
  BY <1>9 DEF StoreInv
<1> QED
  BY <1>1, <1>2, <1>3, <1>4, <1>5, <1>6, <1>7, <1>8, <1>9, StoreSchema, Steps

LEMMA StoreInit == Init => StoreInv
<1> SUFFICES ASSUME Init, db # None PROVE StoreInv
  BY DEF StoreInv
<1>1. PICK v \in OldVersion, e \in Embedder, cs \in SUBSET Chunk, width \in Dims :
        \E dims \in {Kind[e].declared, Kind[e].real} : db = OldDatabase(v, e, cs, dims, width)
  BY DEF Init
<1>2. db.version = v /\ v # SchemaVersion
  BY <1>1, LifecycleAssumption DEF OldDatabase, EmptyDatabase, SchemaVersion
<1>3. \A p \in Proc : run[p].at = "none"
  BY IdleIsARun DEF Init
<1> QED
  BY <1>2, <1>3 DEF StoreInv, Fits

(* Whoever finds a complete meta table can store vectors, whatever the     *)
(* processes are and wherever they stop, unless the table was emptied,     *)
(* found of another width, or made anew beside another process.            *)
THEOREM ReadableStores == Spec => []ReadableCanStore
<1>1. LifecycleTypeOK /\ StoreInv /\ [Next]_vars => StoreInv'
  BY StoreNext
<1>2. StoreInv => ReadableCanStore
  BY DEF StoreInv, ReadableCanStore, CanStore, InsertDims, Misfits
<1> QED
  BY <1>1, <1>2, StoreInit, LifecycleTypes, PTL DEF Spec

-----------------------------------------------------------------------------
(* ConfiguredStaysReadable.  Each key that is written stays, until the     *)
(* file is removed or the table emptied.                                   *)

Written(r, d) ==
  /\ r.at \in {"model", "dims", "stats"} => d.provider # None
  /\ r.at \in {"dims", "stats"} => d.model # None
  /\ r.at = "stats" => d.dims # 0
  /\ r.at = "config" => Complete(d)

ReadInv ==
  "cleared" \notin past =>
    /\ \A p \in Proc : Written(run[p], db)
    /\ "removed" \notin past /\ config # None => db # None /\ Complete(db)

LEMMA ReadKept ==
  ASSUME LifecycleTypeOK, ReadInv, NEW p \in Proc, Others(p),
         run'[p].at \notin {"model", "dims", "stats", "config"},
         past \subseteq past', db # None, SameMeta(db, db'), db' # None,
         config' # config => run[p].at = "config"
  PROVE  ReadInv'
<1> SUFFICES ASSUME "cleared" \notin past'
             PROVE  /\ \A q \in Proc : Written(run'[q], db')
                    /\ "removed" \notin past' /\ config' # None => db' # None /\ Complete(db')
  BY DEF ReadInv
<1>1. ASSUME NEW q \in Proc PROVE Written(run'[q], db')
  <2>1. CASE q = p
    BY <2>1 DEF Written
  <2>2. CASE q # p
    BY <2>2 DEF ReadInv, Written, Others, SameMeta, Complete
  <2> QED
    BY <2>1, <2>2
<1>2. "removed" \notin past' /\ config' # None => Complete(db)
  BY DEF ReadInv, Written
<1> QED
  BY <1>1, <1>2 DEF SameMeta, Complete

LEMMA ReadMeta ==
  ASSUME LifecycleTypeOK, ReadInv, NEW p \in Proc, MetaStep(p) PROVE ReadInv'
<1>1. /\ db' # None /\ config' = config /\ Described(run[p])
      /\ \/ /\ run[p].at = "provider" /\ Moved(p, "model") /\ past' = past
            /\ db'.provider = run[p].new.provider
            /\ db'.model = db.model /\ db'.dims = db.dims /\ db'.stats = db.stats
         \/ /\ run[p].at = "model" /\ Moved(p, "dims") /\ past' = past
            /\ db'.model = run[p].new.model
            /\ db'.provider = db.provider /\ db'.dims = db.dims /\ db'.stats = db.stats
         \/ /\ run[p].at = "dims" /\ Moved(p, "stats") /\ past' = past
            /\ db'.dims = run[p].new.dims
            /\ db'.provider = db.provider /\ db'.model = db.model /\ db'.stats = db.stats
         \/ /\ run[p].at = "stats" /\ db'.stats = TRUE
            /\ Moved(p, IF run[p].cmd = "init" THEN "config" ELSE "embed")
            /\ past' = IF run[p].cmd = "full" THEN past \ {"removed"} ELSE past
            /\ db'.provider = db.provider /\ db'.model = db.model /\ db'.dims = db.dims
  BY MetaEffects
<1> SUFFICES ASSUME "cleared" \notin past'
             PROVE  /\ \A q \in Proc : Written(run'[q], db')
                    /\ "removed" \notin past' /\ config' # None => db' # None /\ Complete(db')
  BY DEF ReadInv
<1>2. "cleared" \notin past
  BY <1>1
<1>3. \A q \in Proc : Written(run[q], db)
  BY <1>2 DEF ReadInv
<1>4. "removed" \notin past /\ config # None => Complete(db)
  BY <1>2 DEF ReadInv
\* What is written stays written.
<1>5. ASSUME NEW q \in Proc, Written(run[q], db), q # p PROVE Written(run'[q], db')
  <2>1. run'[q] = run[q]
    BY <1>1, <1>5 DEF Moved, Others
  <2> QED
    BY <1>1, <1>5, <2>1 DEF Written, Complete, Described
<1>6. Written(run'[p], db')
  <2>1. Written(run[p], db)
    BY <1>3
  <2> QED
    BY <1>1, <2>1 DEF Written, Complete, Described, Moved
<1>7. Complete(db) => Complete(db')
  BY <1>1 DEF Complete, Described
<1>8. run[p].at = "stats" => Complete(db')
  <2>1. Written(run[p], db)
    BY <1>3
  <2> QED
    BY <1>1, <2>1 DEF Written, Complete
<1>9. run[p].at # "stats" => past' = past
  BY <1>1
<1> QED
  BY <1>1, <1>3, <1>4, <1>5, <1>6, <1>7, <1>8, <1>9

LEMMA ReadNext ==
  ASSUME LifecycleTypeOK, ReadInv, [Next]_vars PROVE ReadInv'
<1>1. ASSUME NEW p \in Proc, Quiet(p) PROVE ReadInv'
  <2>1. /\ db' = db /\ Others(p) /\ past \subseteq past'
        /\ run'[p].at \notin {"model", "dims", "stats", "config"}
        /\ config' # config => run[p].at = "config"
    BY <1>1, QuietSteps
  <2>2. CASE db # None
    BY <2>1, <2>2, ReadKept DEF SameMeta
  <2>3. CASE db = None
    <3>1. \A q \in Proc : run[q].at \in Before
      BY <2>3 DEF LifecycleTypeOK
    <3>2. \A q \in Proc : run'[q].at \notin {"model", "dims", "stats", "config"}
      BY <2>1, <3>1 DEF Others, Before
    <3>3. config' = config
      BY <2>1, <3>1 DEF Before
    <3> QED
      BY <2>1, <2>3, <3>2, <3>3 DEF ReadInv, Written
  <2> QED
    BY <2>2, <2>3
<1>2. ASSUME NEW p \in Proc, SchemaStep(p) PROVE ReadInv'
  <2>1. /\ db' # None /\ config' = config /\ Others(p) /\ past \subseteq past'
        /\ run'[p].at \notin {"model", "dims", "stats", "config"}
        /\ run[p].at = "schema" => db' = Opened
        /\ run[p].at # "schema" => db # None /\ SameMeta(db, db')
    BY <1>2, SchemaEffects, IdleIsARun DEF Schema
  <2>2. CASE db # None
    <3>1. SameMeta(db, db')
      BY <2>1, <2>2 DEF Opened, SameMeta
    <3> QED
      BY <2>1, <2>2, <3>1, ReadKept
  <2>3. CASE db = None
    <3>1. \A q \in Proc : run'[q].at \notin {"model", "dims", "stats", "config"}
      BY <2>1, <2>3 DEF LifecycleTypeOK, Before, Others
    <3>2. "cleared" \notin past' /\ "removed" \notin past' => config = None
      BY <2>1, <2>3 DEF ReadInv
    <3> QED
      BY <2>1, <3>1, <3>2 DEF ReadInv, Written
  <2> QED
    BY <2>2, <2>3
<1>3. ASSUME NEW p \in Proc, RemoveDatabase(p) PROVE ReadInv'
  <2>1. /\ \A q \in Proc : q # p => run'[q] = Idle
        /\ run'[p] = [run[p] EXCEPT !.at = "schema", !.then = "provider"] /\ run[p] \in Runs
    BY <1>3, RemoveDatabaseIs DEF LifecycleTypeOK
  <2>2. run'[p].at = "schema"
    BY <2>1 DEF Runs
  <2>3. \A q \in Proc : run'[q].at \in {"schema", "none"}
    BY <2>1, <2>2, IdleIsARun
  <2> QED
    BY <1>3, <2>3 DEF ReadInv, Written, RemoveDatabase
<1>4. ASSUME NEW p \in Proc, RecreateVectorIndex(p) PROVE ReadInv'
  <2>1. /\ run'[p].at = "provider" /\ Others(p) /\ config' = config /\ db # None /\ db' # None
        /\ SameMeta(db, db') /\ past \subseteq past'
    BY <1>4, RecreateEffects DEF Moved
  <2> QED
    BY <2>1, ReadKept
<1>5. ASSUME NEW p \in Proc, Reindex(p, TRUE) PROVE ReadInv'
  BY <1>5, ClearEffects DEF ReadInv
<1>6. ASSUME NEW p \in Proc, NEW full \in BOOLEAN, StartIndex(p, full) PROVE ReadInv'
  <2>1. /\ db' = Opened /\ past' = past /\ config' = config
        /\ run' = run \/ (Others(p) /\ run'[p].at = "schema" /\ db # None /\ db' = db)
    BY <1>6, StartEffects
  <2>2. CASE db # None
    <3>1. db' = db
      BY <2>1, <2>2 DEF Opened
    <3>2. CASE run' = run
      BY <2>1, <3>1, <3>2 DEF ReadInv
    <3>3. CASE Others(p) /\ run'[p].at = "schema"
      BY <2>1, <2>2, <3>1, <3>3, ReadKept DEF SameMeta
    <3> QED
      BY <2>1, <3>2, <3>3
  <2>3. CASE db = None
    <3>1. run' = run /\ \A q \in Proc : run'[q].at \notin {"model", "dims", "stats", "config"}
      BY <2>1, <2>3 DEF LifecycleTypeOK, Before
    <3>2. "cleared" \notin past' /\ "removed" \notin past' => config = None
      BY <2>1, <2>3 DEF ReadInv
    <3> QED
      BY <2>1, <3>1, <3>2 DEF ReadInv, Written
  <2> QED
    BY <2>2, <2>3
<1>7. ASSUME NEW p \in Proc, NEW c \in Chunk, EmbedChunk(p, c) PROVE ReadInv'
  <2>1. /\ run' = run /\ past' = past /\ config' = config /\ SameMeta(db, db') /\ db # None /\ db' # None
        /\ run[p].at \in {"embed", "serving"}
    BY <1>7, EmbedEffects
  <2> QED
    BY <2>1, ReadKept DEF Others
<1>8. ASSUME Purge PROVE ReadInv'
  <2>1. \A q \in Proc : run'[q].at = "none"
    BY <1>8, IdleIsARun DEF Purge, Resting
  <2> QED
    BY <1>8, <2>1 DEF Purge, ReadInv, Written
<1>9. ASSUME UNCHANGED <<db, run, past>>, config' # config => config # None
      PROVE  ReadInv'
  BY <1>9 DEF ReadInv
<1> QED
  BY <1>1, <1>2, <1>3, <1>4, <1>5, <1>6, <1>7, <1>8, <1>9, ReadMeta, Steps

LEMMA ReadInit == Init => ReadInv
<1> SUFFICES ASSUME Init PROVE ReadInv
  OBVIOUS
<1>1. \A p \in Proc : run[p].at = "none"
  BY IdleIsARun DEF Init
<1>2. ASSUME config # None PROVE db # None /\ Complete(db)
  <2>1. PICK v \in OldVersion, e \in Embedder, cs \in SUBSET Chunk, width \in Dims :
          \E dims \in {Kind[e].declared, Kind[e].real} : db = OldDatabase(v, e, cs, dims, width)
    BY <1>2 DEF Init
  <2>2. PICK dims \in {Kind[e].declared, Kind[e].real} : db = OldDatabase(v, e, cs, dims, width)
    BY <2>1
  <2>3. /\ db.provider = Kind[e].provider /\ db.model = e /\ db.dims = dims /\ db.stats = TRUE
    BY <2>2 DEF OldDatabase, EmptyDatabase
  <2>4. Complete(db)
    BY <2>2, <2>3, KindsAre DEF Complete
  <2>5. db # None
    BY <2>2, OldIsADatabase
  <2> QED
    BY <2>4, <2>5
<1> QED
  BY <1>1, <1>2 DEF ReadInv, Written

(* Once there is a config.toml, `index` finds a complete meta table, of    *)
(* whatever processes and wherever they stop, unless vec_reindex emptied   *)
(* it or index --full has removed the file.                                *)
THEOREM StaysReadable == Spec => []ConfiguredStaysReadable
<1>1. LifecycleTypeOK /\ ReadInv /\ [Next]_vars => ReadInv'
  BY ReadNext
<1>2. ReadInv => ConfiguredStaysReadable
  BY DEF ReadInv, ConfiguredStaysReadable
<1> QED
  BY <1>1, <1>2, ReadInit, LifecycleTypes, PTL DEF Spec

-----------------------------------------------------------------------------
(* IndexedIsServable.  Beside `index` there are only servers, which can    *)
(* empty the meta table and change nothing else in it.                     *)

\* The metadata of p is as far as p has written it.
Agreed(r, d) == d.provider = r.new.provider /\ d.dims = r.new.dims

Recorded(r, d) ==
  r.cmd = "index" =>
    /\ r.use # Mock => /\ r.use \in Embedder /\ r.new.provider = Kind[r.use].provider
                       /\ r.new.dims \in DimsOf(r.use)
    /\ d # None
    /\ \/ d.provider = None
       \/ /\ r.at \in Early /\ r.then = "embed" => Complete(d) /\ Agreed(r, d)
          /\ r.at \in {"model", "dims", "stats"} => d.provider = r.new.provider
          /\ r.at \in {"dims", "stats"} => d.model # None
          /\ r.at = "stats" => d.dims = r.new.dims
          /\ r.at \in {"embed", "finish"} => Complete(d) /\ Agreed(r, d)

ServeInv == \A p \in Proc : Recorded(run[p], db)

\* A step of p, with the metadata as they are.
LEMMA ServeKept ==
  ASSUME LifecycleTypeOK, ServeInv, NEW p \in Proc, Others(p), Recorded(run'[p], db'),
         db # None => db' # None /\ SameMeta(db, db')
  PROVE  ServeInv'
<1>1. ASSUME NEW q \in Proc, q # p PROVE Recorded(run'[q], db')
  <2>1. run'[q] = run[q] /\ Recorded(run[q], db)
    BY <1>1 DEF Others, ServeInv
  <2> QED
    BY <2>1 DEF Recorded, Agreed, SameMeta, Complete
<1> QED
  BY <1>1 DEF ServeInv

\* Whoever else there is, is not `index`.
LEMMA Alone ==
  ASSUME OneCommandLine, LifecycleTypeOK, NEW p \in Proc, run[p].cmd \in {"init", "index", "full"},
         NEW q \in Proc, q # p
  PROVE  run[q].cmd \in {"none", "serve"}
<1>1. run[p].cmd \in May[p] /\ (run[q] # Idle => run[q].cmd \in May[q])
  BY IdleIsARun DEF LifecycleTypeOK
<1>2. run[q] = Idle \/ run[q].cmd \in {"init", "index", "full", "serve"}
  BY DEF LifecycleTypeOK, Place
<1> QED
  BY <1>1, <1>2, IdleIsARun DEF OneCommandLine

LEMMA ServeNext ==
  ASSUME OneCommandLine, LifecycleTypeOK, ServeInv, [Next]_vars PROVE ServeInv'
<1>1. ASSUME NEW p \in Proc, Quiet(p) PROVE ServeInv'
  <2>1. /\ db' = db /\ Others(p)
        /\ run'[p].cmd = "index" => run[p].at = "embed" /\ run'[p].at = "finish" /\ Keeps(p)
    BY <1>1, QuietSteps
  <2>2. Recorded(run'[p], db')
    <3>1. Recorded(run[p], db)
      BY DEF ServeInv
    <3> QED
      BY <2>1, <3>1 DEF Recorded, Agreed, Keeps, Early, Schema
  <2> QED
    BY <2>1, <2>2, ServeKept DEF SameMeta
<1>2. ASSUME NEW p \in Proc, SchemaStep(p) PROVE ServeInv'
  <2>1. /\ db' # None /\ Others(p) /\ run[p].at \in Early
        /\ \/ run'[p] = Idle
           \/ Keeps(p) /\ run'[p].at \in Schema /\ run'[p].then = run[p].then
           \/ /\ Keeps(p) /\ run'[p].at = run[p].then
              /\ run'[p].at \in {"provider", "recreate", "embed", "remove", "check"}
        /\ run[p].at = "schema" => db' = Opened
        /\ run[p].at # "schema" => db # None /\ SameMeta(db, db')
    BY <1>2, SchemaEffects
  <2>2. db # None => SameMeta(db, db')
    BY <2>1 DEF Opened, SameMeta
  <2>3. Recorded(run'[p], db')
    <3>1. Recorded(run[p], db)
      BY DEF ServeInv
    <3>2. CASE run'[p] = Idle
      BY <3>2, IdleIsARun DEF Recorded
    <3>3. CASE Keeps(p) /\ run'[p].at \in Schema /\ run'[p].then = run[p].then
      BY <2>1, <2>2, <3>1, <3>3 DEF Recorded, Agreed, Keeps, SameMeta, Complete, Early, Schema
    <3>4. CASE Keeps(p) /\ run'[p].at = run[p].then
               /\ run'[p].at \in {"provider", "recreate", "embed", "remove", "check"}
      BY <2>1, <2>2, <3>1, <3>4 DEF Recorded, Agreed, Keeps, SameMeta, Complete, Early, Schema
    <3> QED
      BY <2>1, <3>2, <3>3, <3>4
  <2> QED
    BY <2>1, <2>2, <2>3, ServeKept
<1>3. ASSUME NEW p \in Proc, MetaStep(p) PROVE ServeInv'
  <2>1. /\ db # None /\ db' # None /\ Described(run[p]) /\ run[p] # Idle /\ run[p].at \in Writing
        /\ \/ /\ run[p].at = "provider" /\ Moved(p, "model")
              /\ db'.provider = run[p].new.provider
              /\ db'.model = db.model /\ db'.dims = db.dims /\ db'.stats = db.stats
           \/ /\ run[p].at = "model" /\ Moved(p, "dims")
              /\ db'.model = run[p].new.model
              /\ db'.provider = db.provider /\ db'.dims = db.dims /\ db'.stats = db.stats
           \/ /\ run[p].at = "dims" /\ Moved(p, "stats")
              /\ db'.dims = run[p].new.dims
              /\ db'.provider = db.provider /\ db'.model = db.model /\ db'.stats = db.stats
           \/ /\ run[p].at = "stats" /\ db'.stats = TRUE
              /\ Moved(p, IF run[p].cmd = "init" THEN "config" ELSE "embed")
              /\ db'.provider = db.provider /\ db'.model = db.model /\ db'.dims = db.dims
    BY <1>3, MetaEffects DEF Writing
  <2>2. run[p].cmd \in {"init", "index", "full"}
    BY <2>1 DEF LifecycleTypeOK, Place, Writing, Early, Schema
  <2>3. ASSUME NEW q \in Proc, q # p PROVE Recorded(run'[q], db')
    <3>1. run[q].cmd \in {"none", "serve"}
      BY <2>2, <2>3, Alone
    <3>2. run'[q] = run[q]
      BY <2>1, <2>3 DEF Moved, Others
    <3> QED
      BY <3>1, <3>2 DEF Recorded
  <2>4. Recorded(run'[p], db')
    <3>1. Recorded(run[p], db)
      BY DEF ServeInv
    <3>2. CASE run[p].at = "provider"
      BY <2>1, <3>1, <3>2 DEF Recorded, Moved, Keeps, Early, Schema
    <3>3. CASE run[p].at = "model"
      BY <2>1, <3>1, <3>3 DEF Recorded, Moved, Keeps, Early, Schema, Described
    <3>4. CASE run[p].at = "dims"
      BY <2>1, <3>1, <3>4 DEF Recorded, Moved, Keeps, Early, Schema
    <3>5. CASE run[p].at = "stats"
      BY <2>1, <3>1, <3>5 DEF Recorded, Moved, Keeps, Early, Schema, Agreed, Complete, Described
    <3> QED
      BY <2>1, <3>2, <3>3, <3>4, <3>5
  <2> QED
    BY <2>3, <2>4 DEF ServeInv
<1>4. ASSUME NEW p \in Proc, RemoveDatabase(p) PROVE ServeInv'
  <2>1. /\ \A q \in Proc : q # p => run'[q] = Idle
        /\ run'[p] = [run[p] EXCEPT !.at = "schema", !.then = "provider"] /\ run[p] \in Runs
        /\ run[p].cmd = "full"
    BY <1>4, RemoveDatabaseIs DEF LifecycleTypeOK
  <2>2. \A q \in Proc : run'[q].cmd \in {"none", "full"}
    BY <2>1, IdleIsARun DEF Runs
  <2> QED
    BY <2>2 DEF ServeInv, Recorded
<1>5. ASSUME NEW p \in Proc, RecreateVectorIndex(p) PROVE ServeInv'
  <2>1. Moved(p, "provider") /\ db # None /\ db' # None /\ SameMeta(db, db')
    BY <1>5, RecreateEffects
  <2>2. Recorded(run'[p], db')
    <3>1. Recorded(run[p], db)
      BY DEF ServeInv
    <3> QED
      BY <2>1, <3>1 DEF Recorded, Moved, Keeps, Early, Schema, SameMeta
  <2> QED
    BY <2>1, <2>2, ServeKept DEF Moved
<1>6. ASSUME NEW p \in Proc, Reindex(p, TRUE) PROVE ServeInv'
  <2>1. Others(p) /\ Keeps(p) /\ run[p].cmd = "serve" /\ db' # None /\ db'.provider = None
    BY <1>6, ClearEffects
  <2>2. ASSUME NEW q \in Proc PROVE Recorded(run'[q], db')
    <3>1. CASE q = p
      BY <2>1, <3>1 DEF Keeps, Recorded
    <3>2. CASE q # p
      <4>1. run'[q] = run[q] /\ Recorded(run[q], db)
        BY <2>1, <3>2 DEF Others, ServeInv
      <4> QED
        BY <2>1, <4>1 DEF Recorded
    <3> QED
      BY <3>1, <3>2
  <2> QED
    BY <2>2 DEF ServeInv
<1>7. ASSUME NEW p \in Proc, NEW full \in BOOLEAN, StartIndex(p, full) PROVE ServeInv'
  <2>1. db' = Opened /\ (db # None => db' = db)
    BY <1>7, StartIndexIs DEF Opened
  <2>2. CASE run' = run
    <3>1. ASSUME NEW q \in Proc PROVE Recorded(run[q], db')
      <4>1. Recorded(run[q], db)
        BY DEF ServeInv
      <4>2. CASE db # None
        BY <2>1, <4>1, <4>2
      <4>3. CASE db = None
        BY <4>1, <4>3 DEF Recorded
      <4> QED
        BY <4>2, <4>3
    <3> QED
      BY <2>2, <3>1 DEF ServeInv
  <2>3. ASSUME NEW r \in Runs, run' = [run EXCEPT ![p] = r], r.at = "schema", r.then # "provider",
               r.cmd = (IF full THEN "full" ELSE "index"),
               db \in Database, Complete(db), db' = db, r.use \in {Configured, Mock},
               ~full => /\ r.use # Mock => /\ r.new.provider = Kind[r.use].provider
                                           /\ r.new.dims \in DimsOf(r.use)
                        /\ r.then = "embed" => db.provider = r.new.provider /\ db.dims = r.new.dims
        PROVE  ServeInv'
    <3>1. run'[p] = r /\ Others(p)
      BY <2>3 DEF LifecycleTypeOK, Others
    <3>2. db # None /\ Configured \in Embedder
      BY <2>3, NoneAssumption, ConfiguredIs
    <3>3. Recorded(r, db)
      BY <2>3, <3>2 DEF Recorded, Agreed
    <3> QED
      BY <2>3, <3>1, <3>2, <3>3, ServeKept DEF SameMeta
  <2> QED
    BY <1>7, <2>2, <2>3, StartIndexIs
<1>8. ASSUME NEW p \in Proc, NEW c \in Chunk, EmbedChunk(p, c) PROVE ServeInv'
  <2>1. run' = run /\ SameMeta(db, db') /\ db # None /\ db' # None
    BY <1>8, EmbedEffects
  <2>2. Recorded(run'[p], db')
    <3>1. Recorded(run[p], db)
      BY DEF ServeInv
    <3> QED
      BY <2>1, <3>1 DEF Recorded, SameMeta, Agreed, Complete
  <2> QED
    BY <2>1, <2>2, ServeKept DEF Others
<1>9. ASSUME Purge PROVE ServeInv'
  <2>1. \A q \in Proc : run'[q].cmd = "none"
    BY <1>9, IdleIsARun DEF Purge, Resting
  <2> QED
    BY <2>1 DEF ServeInv, Recorded
<1>10. ASSUME UNCHANGED <<db, run, past>> PROVE ServeInv'
  BY <1>10 DEF ServeInv
<1> QED
  BY <1>1, <1>2, <1>3, <1>4, <1>5, <1>6, <1>7, <1>8, <1>9, <1>10, Steps

LEMMA ServeInit == Init => ServeInv
BY IdleIsARun DEF Init, ServeInv, Recorded

(* With one command line process and any number of servers: what `index`   *)
(* has finished is served, after whatever was stopped before it.           *)
THEOREM IndexedServes == ASSUME OneCommandLine PROVE Spec => []IndexedIsServable
<1>1. LifecycleTypeOK /\ ServeInv /\ [Next]_vars => ServeInv'
  BY ServeNext
<1>2. LifecycleTypeOK /\ ServeInv => IndexedIsServable
  <2> SUFFICES ASSUME LifecycleTypeOK, ServeInv, NEW p \in Proc, run[p].cmd = "index", run[p].at = "finish",
                      run[p].use # Mock, Exact(run[p].use)
               PROVE  Admits(run[p].use, db)
    BY DEF IndexedIsServable, At
  <2>1. Recorded(run[p], db)
    BY DEF ServeInv
  <2> QED
    BY <2>1 DEF Recorded, Agreed, Admits, Exact, DimsOf
<1> QED
  BY <1>1, <1>2, ServeInit, LifecycleTypes, PTL DEF Spec

-----------------------------------------------------------------------------
(* AdmittedIndexIsPure.  The metadata name the embedder of every vector    *)
(* there is, as far as they are written; who embeds is named by them too,  *)
(* and while a provider is being changed there is no other embedder.       *)

Labels == {"unlisted", "overtaken", "rebuilt"}

\* A vector of m does not contradict the metadata.
Fitting(m, d) ==
  m # None /\ m # Mock => d.provider \in {None, Kind[m].provider} /\ d.dims \in DimsOf(m) \cup {0}

Rewrites(r) == r.at \in {"provider", "model", "dims"}

\* r embeds, or is going to without looking at the metadata again.
Works(r) ==
  \/ r.at \in {"stats", "config", "embed", "unlock", "finish", "serving"}
  \/ r.at \in Early /\ r.then = "embed"

\* r makes a new index.
Fresh(r) == r.cmd \in {"init", "full"} /\ (Rewrites(r) \/ (r.at \in Early /\ r.then = "provider"))

\* r has the vectors of schema 1 still to bring over.
Carries(r) == r.at = "json" \/ (r.at \in {"table", "edims"} /\ r.from = 1)

DirInv ==
  /\ ~dir => db = None
  /\ \A p \in Proc : /\ run[p].at \in {"lock", "mkdir"} => ~dir
                     /\ ~dir => run[p].at \in {"none", "lock", "mkdir"}

VectorsFit == db # None => \A c \in Chunk : Fitting(db.vec[c], db)

WorkersFit == \A p \in Proc : Works(run[p]) => db # None /\ Fitting(run[p].use, db)

IndexAlone ==
  \A p \in Proc : Changing(p) =>
    /\ \A c \in Chunk : db.vec[c] \in {None, Mock, run[p].use}
    /\ \A q \in Proc : (Works(run[q]) => run[q].use = run[p].use) /\ run[q].at \notin Schema

FreshIs(r, d) ==
  Fresh(r) =>
    /\ d # None => /\ d.dims = 0 /\ d.stats = FALSE
                   /\ \A c \in Chunk : d.vec[c] = None /\ d.json[c] = None
    /\ r.at \in {"model", "dims"} => d.provider \in {None, r.new.provider}
    /\ r.cmd = "full" /\ r.use # Mock =>
         r.new.provider = Kind[r.use].provider /\ r.new.dims \in DimsOf(r.use)

FreshAlone ==
  \A p \in Proc : FreshIs(run[p], db) /\ (Fresh(run[p]) => \A q \in Proc : ~Works(run[q]))

JsonFit ==
  db # None /\ (db.version = 1 \/ \E q \in Proc : Carries(run[q])) =>
    \A c \in Chunk : Fitting(db.json[c], db)

PureParts == VectorsFit /\ WorkersFit /\ IndexAlone /\ FreshAlone /\ JsonFit

PureInv == past \cap Labels = {} => PureParts

\* What PureInv rests on.
Base == OneCommandLine /\ LifecycleTypeOK /\ UpgradeInv /\ ServeInv /\ DirInv

LEMMA DirNext ==
  ASSUME OneCommandLine, LifecycleTypeOK, DirInv, [Next]_vars PROVE DirInv'
<1> USE DEF At
<1>1. ASSUME NEW p \in Proc, Others(p), dir' = dir, dir,
             run'[p].at \notin {"lock", "mkdir"}
      PROVE  DirInv'
  BY <1>1 DEF DirInv, Others
<1>2. ASSUME NEW p \in Proc, run[p].at \notin {"none", "lock", "mkdir"} PROVE dir
  BY <1>2 DEF DirInv
<1>3. ASSUME NEW p \in Proc, InitStep(p) PROVE DirInv'
  <2>1. ASSUME NEW e \in Embedder, NEW d, StartInit(p, e, d) PROVE DirInv'
    <3>1. Others(p) /\ run'[p].at = "lock" /\ ~dir /\ dir' = dir /\ db' = db
      BY <2>1 DEF StartInit, LifecycleTypeOK, Others
    <3> QED
      BY <3>1 DEF DirInv, Others
  <2>2. CASE TakeLock(p)
    <3>1. dir' = dir /\ db' = db /\ run[p].at = "lock" /\ (Stop(p) \/ Goto(p, "mkdir"))
      BY <2>2 DEF TakeLock
    <3>2. Others(p) /\ run'[p].at \in {"none", "mkdir"}
      BY <3>1, StopsAt, MovesTo, IdleIsARun DEF Moved
    <3> QED
      BY <3>1, <3>2 DEF DirInv, Others
  <2>3. CASE MakeDirectory(p)
    <3>1. dir' = TRUE /\ run[p].at = "mkdir" /\ Moved(p, "schema")
      BY <2>3, MovesTo DEF MakeDirectory
    <3>2. ASSUME NEW q \in Proc, q # p PROVE run[q].at \notin {"lock", "mkdir"}
      <4>1. run[p].cmd = "init"
        BY <3>1, PlaceIs, IdleIsARun DEF Place, Early, Schema, Writing
      <4>2. run[q].cmd \in {"none", "serve"}
        BY <3>2, <4>1, Alone
      <4> QED
        BY <4>2, PlaceIs, IdleIsARun DEF Place, Early, Schema, Writing
    <3> QED
      BY <3>1, <3>2 DEF DirInv, Moved, Others
  <2>4. CASE WriteConfig(p)
    <3>1. run[p].at = "config" /\ dir' = dir /\ \E step \in {"unlock", "embed"} : Goto(p, step)
      BY <2>4 DEF WriteConfig
    <3>2. Others(p) /\ run'[p].at \in {"unlock", "embed"}
      BY <3>1, MovesTo DEF Moved
    <3> QED
      BY <1>1, <1>2, <3>1, <3>2
  <2>5. CASE ReleaseLock(p)
    <3>1. run[p].at = "unlock" /\ dir' = dir /\ Others(p) /\ run'[p].at = "none"
      BY <2>5, StopsAt, IdleIsARun DEF ReleaseLock
    <3> QED
      BY <1>1, <1>2, <3>1
  <2> QED
    BY <1>3, <2>1, <2>2, <2>3, <2>4, <2>5 DEF InitStep
<1>4. ASSUME NEW p \in Proc, EndEmbedding(p) \/ Finish(p) \/ CheckProvider(p) \/ Reindex(p, FALSE)
      PROVE  DirInv'
  <2>1. /\ run[p].at \in {"embed", "finish", "check", "serving"} /\ dir' = dir
        /\ Others(p) /\ run'[p].at \notin {"lock", "mkdir"}
    <3>1. Others(p) /\ run'[p].at \notin {"lock", "mkdir"}
      BY <1>4, QuietSteps, MovesTo, StopsAt, IdleIsARun
      DEF Quiet, EndEmbedding, Finish, CheckProvider, Reindex, Moved
    <3> QED
      BY <1>4, <3>1 DEF EndEmbedding, Finish, CheckProvider, Reindex
  <2> QED
    BY <1>1, <1>2, <2>1
<1>5. ASSUME NEW p \in Proc, Halt(p) PROVE DirInv'
  <2>1. Others(p) /\ run'[p].at = "none" /\ dir' = dir /\ db' = db
    BY <1>5, StopsAt, IdleIsARun DEF Halt
  <2> QED
    BY <2>1 DEF DirInv, Others
<1>6. ASSUME NEW p \in Proc, StartServer(p) PROVE DirInv'
  <2>1. dir /\ dir' = dir /\ Others(p) /\ run'[p].at = "schema"
    BY <1>6 DEF StartServer, LifecycleTypeOK, Others
  <2> QED
    BY <1>1, <2>1
<1>7. ASSUME NEW p \in Proc, SchemaStep(p) PROVE DirInv'
  <2>1. dir' = dir
    BY <1>7 DEF SchemaStep, BeginSchema, CreateTable, SetDimensions, MigrateVectors, RebuildPostings, SetVersion
  <2>2. /\ Others(p) /\ run[p].at \in Early
        /\ run'[p].at \notin {"lock", "mkdir"}
    BY <1>7, SchemaEffects, IdleIsARun DEF Schema
  <2> QED
    BY <1>1, <1>2, <2>1, <2>2 DEF Early, Schema
<1>8. ASSUME NEW p \in Proc, MetaStep(p) PROVE DirInv'
  <2>1. dir' = dir
    BY <1>8 DEF MetaStep, WriteProvider, WriteModel, WriteDims, WriteStats
  <2>2. /\ Others(p) /\ run[p].at \in Writing /\ run'[p].at \notin {"lock", "mkdir"}
    BY <1>8, MetaEffects DEF Moved, Writing
  <2> QED
    BY <1>1, <1>2, <2>1, <2>2 DEF Writing
<1>9. ASSUME NEW p \in Proc, RemoveDatabase(p) PROVE DirInv'
  <2>1. run[p].at = "remove" /\ dir' = dir
    BY <1>9 DEF RemoveDatabase
  <2>2. /\ \A q \in Proc : q # p => run'[q] = Idle
        /\ run'[p] = [run[p] EXCEPT !.at = "schema", !.then = "provider"] /\ run[p] \in Runs
    BY <1>9, RemoveDatabaseIs DEF LifecycleTypeOK
  <2>3. \A q \in Proc : run'[q].at \in {"none", "schema"}
    BY <2>2, IdleIsARun DEF Runs
  <2> QED
    BY <1>2, <2>1, <2>3 DEF DirInv
<1>10. ASSUME NEW p \in Proc, RecreateVectorIndex(p) PROVE DirInv'
  <2>1. run[p].at = "recreate" /\ Others(p) /\ run'[p].at = "provider" /\ dir' = dir
    BY <1>10, RecreateEffects DEF Moved, RecreateVectorIndex
  <2> QED
    BY <1>1, <1>2, <2>1
<1>11. ASSUME NEW p \in Proc, Reindex(p, TRUE) PROVE DirInv'
  <2>1. run[p].at = "serving" /\ Others(p) /\ run'[p].at = "schema" /\ dir' = dir
    BY <1>11, ClearEffects DEF Reindex
  <2> QED
    BY <1>1, <1>2, <2>1
<1>12. ASSUME NEW p \in Proc, NEW full \in BOOLEAN, StartIndex(p, full) PROVE DirInv'
  <2>1. dir /\ dir' = dir /\ (run' = run \/ (Others(p) /\ run'[p].at = "schema"))
    BY <1>12, StartIndexIs, StartEffects
  <2>2. CASE run' = run
    BY <2>1, <2>2 DEF DirInv
  <2>3. CASE Others(p) /\ run'[p].at = "schema"
    BY <1>1, <2>1, <2>3
  <2> QED
    BY <2>1, <2>2, <2>3
<1>13. ASSUME NEW p \in Proc, NEW c \in Chunk, EmbedChunk(p, c) PROVE DirInv'
  <2>1. run' = run /\ run[p].at \in {"embed", "serving"} /\ dir' = dir
    BY <1>13, EmbedEffects DEF EmbedChunk
  <2>2. dir
    BY <1>2, <2>1
  <2> QED
    BY <2>1, <2>2 DEF DirInv
<1>14. ASSUME Purge PROVE DirInv'
  BY <1>14, IdleIsARun DEF Purge, Resting, DirInv
<1>15. ASSUME (\E e \in Embedder : EditConfig(e)) \/ (\E c \in Chunk : AddChunk(c)) \/ UNCHANGED vars
       PROVE  DirInv'
  BY <1>15 DEF EditConfig, AddChunk, vars, DirInv
<1> QED
  BY <1>3, <1>4, <1>5, <1>6, <1>7, <1>8, <1>9, <1>10, <1>11, <1>12, <1>13, <1>14, <1>15
  DEF Next, IndexStep, ServerStep, UserStep

\* d has the labels, the vectors and the JSON vectors of e.
SameIndex(d, e) ==
  e.provider = d.provider /\ e.dims = d.dims /\ e.vec = d.vec /\ e.json = d.json

LEMMA WorkersHaveIndex ==
  ASSUME LifecycleTypeOK, PureParts, db = None, NEW p \in Proc
  PROVE  ~Works(run[p]) /\ ~Changing(p) /\ run[p].at \in Before
BY DEF LifecycleTypeOK, PureParts, WorkersFit, Changing, Before

(* A step of p that starts none of the things the invariant is about.      *)
LEMMA PureKept ==
  ASSUME LifecycleTypeOK, PureInv, NEW p \in Proc, Others(p),
         past' \cap Labels = {} => past \cap Labels = {},
         Works(run'[p]) => Works(run[p]) /\ run'[p].use = run[p].use,
         Changing(p)' => Changing(p) /\ run'[p].use = run[p].use,
         run'[p].at \in Schema => run[p].at \in Schema \/ \A q \in Proc : ~Changing(q),
         Carries(run'[p]) => Carries(run[p]) \/ db.version = 1,
         Fresh(run'[p]) => Fresh(run[p]) /\ Keeps(p) /\ run'[p].at \notin {"model", "dims"},
         \/ db' = db
         \/ /\ db # None /\ db' # None /\ SameIndex(db, db')
            /\ db'.version = 1 => db.version = 1
            /\ db'.stats = db.stats \/ \A q \in Proc : ~Fresh(run'[q]),
         db = None => db' = None \/ ~Carries(run'[p])
  PROVE  PureInv'
<1> SUFFICES ASSUME past' \cap Labels = {} PROVE PureParts'
  BY DEF PureInv
<1>1. PureParts
  BY DEF PureInv
<1>2. \A q \in Proc : q # p => run'[q] = run[q]
  BY DEF Others
<1>3. \A m : Fitting(m, db) => Fitting(m, db')
  BY DEF Fitting, SameIndex
<1>4. (db' = None <=> db = None) /\ (db # None => SameIndex(db, db'))
  BY DEF SameIndex
<1>5. VectorsFit'
  BY <1>1, <1>3, <1>4 DEF PureParts, VectorsFit, SameIndex
<1>6. WorkersFit'
  <2>1. ASSUME NEW q \in Proc, Works(run'[q]) PROVE Works(run[q]) /\ run'[q].use = run[q].use
    BY <1>2, <2>1
  <2> QED
    BY <1>1, <1>3, <1>4, <2>1 DEF PureParts, WorkersFit
<1>7. IndexAlone'
  <2>1. ASSUME NEW q \in Proc, Changing(q)' PROVE Changing(q) /\ run'[q].use = run[q].use
    <3>1. CASE q = p
      BY <2>1, <3>1
    <3>2. CASE q # p
      BY <1>2, <2>1, <3>2 DEF Changing
    <3> QED
      BY <3>1, <3>2
  <2>2. ASSUME NEW q \in Proc, Works(run'[q]) PROVE Works(run[q]) /\ run'[q].use = run[q].use
    BY <1>2, <2>2
  <2>3. ASSUME NEW r \in Proc, Changing(r), NEW q \in Proc PROVE run'[q].at \notin Schema
    BY <1>1, <1>2, <2>3 DEF PureParts, IndexAlone
  <2>4. ASSUME NEW q \in Proc, Changing(q) PROVE db # None
    BY <2>4 DEF LifecycleTypeOK, Changing, Before
  <2>5. ASSUME NEW q \in Proc, Changing(q) PROVE \A c \in Chunk : db'.vec[c] \in {None, Mock, run[q].use}
    BY <1>1, <1>4, <2>4, <2>5 DEF PureParts, IndexAlone, SameIndex
  <2>6. ASSUME NEW q \in Proc, Changing(q), NEW r \in Proc, Works(run[r]) PROVE run[r].use = run[q].use
    BY <1>1, <2>6 DEF PureParts, IndexAlone
  <2> QED
    BY <2>1, <2>2, <2>3, <2>5, <2>6 DEF IndexAlone
<1>8. FreshAlone'
  <2>1. ASSUME NEW q \in Proc, Fresh(run'[q])
        PROVE  FreshIs(run'[q], db') /\ \A r \in Proc : ~Works(run'[r])
    <3>1. Fresh(run[q])
      BY <1>2, <2>1
    <3>2. FreshIs(run[q], db) /\ \A r \in Proc : ~Works(run[r])
      BY <1>1, <3>1 DEF PureParts, FreshAlone
    <3>3. db' # None => db # None /\ SameIndex(db, db') /\ db'.stats = db.stats
      BY <2>1, <1>4
    <3>4. FreshIs(run'[q], db')
      <4>1. CASE q = p
        BY <2>1, <3>1, <3>2, <3>3, <4>1 DEF FreshIs, Keeps, SameIndex
      <4>2. CASE q # p
        <5>1. db = None => run[q].at \in Before
          BY DEF LifecycleTypeOK
        <5> QED
          BY <1>2, <1>4, <3>1, <3>2, <3>3, <4>2, <5>1 DEF FreshIs, SameIndex, Before
      <4> QED
        BY <4>1, <4>2
    <3>5. \A r \in Proc : ~Works(run'[r])
      BY <1>2, <3>2
    <3> QED
      BY <3>4, <3>5
  <2> QED
    BY <2>1 DEF FreshAlone, FreshIs
<1>9. JsonFit'
  <2> SUFFICES ASSUME db' # None, db'.version = 1 \/ \E q \in Proc : Carries(run'[q])
               PROVE  \A c \in Chunk : Fitting(db'.json[c], db')
    BY DEF JsonFit
  <2>1. db # None /\ SameIndex(db, db')
    BY <1>4
  <2>2. db.version = 1 \/ \E q \in Proc : Carries(run[q])
    BY <1>2
  <2> QED
    BY <1>1, <1>3, <2>1, <2>2 DEF PureParts, JsonFit, SameIndex
<1> QED
  BY <1>5, <1>6, <1>7, <1>8, <1>9 DEF PureParts

LEMMA PureQuiet ==
  ASSUME Base, PureInv, NEW p \in Proc, Quiet(p) PROVE PureInv'
<1> USE DEF At
<1>1. LifecycleTypeOK /\ Others(p) /\ db' = db /\ past \subseteq past'
  BY QuietSteps DEF Base
<1>2. past' \cap Labels = {} => past \cap Labels = {}
  BY <1>1
<1>3. ASSUME run'[p].at \in {"none", "lock", "mkdir", "finish", "serving", "embed", "unlock"},
             Works(run'[p]) => Works(run[p]) /\ run'[p].use = run[p].use
      PROVE  PureInv'
  <2>1. ~Fresh(run'[p]) /\ ~Carries(run'[p]) /\ ~Changing(p)' /\ run'[p].at \notin Schema
    BY <1>3 DEF Fresh, Carries, Changing, Rewrites, Early, Schema
  <2> QED
    BY <1>1, <1>2, <1>3, <2>1, PureKept
<1>4. ASSUME Stop(p) PROVE PureInv'
  <2>1. run'[p].at = "none"
    BY <1>1, <1>4, StopsAt, IdleIsARun
  <2> QED
    BY <1>3, <2>1 DEF Works, Early, Schema
<1>5. ASSUME NEW step \in {"lock", "mkdir"}, Goto(p, step) PROVE PureInv'
  <2>1. run'[p].at = step
    BY <1>1, <1>5, MovesTo DEF Moved
  <2> QED
    BY <1>3, <2>1 DEF Works, Early, Schema
<1>6. ASSUME NEW step \in {"unlock", "embed", "finish", "serving"}, Goto(p, step), Works(run[p]) PROVE PureInv'
  <2>1. run'[p].at = step /\ run'[p].use = run[p].use
    BY <1>1, <1>6, MovesTo DEF Moved, Keeps
  <2> QED
    BY <1>3, <1>6, <2>1
<1>7. ASSUME NEW e \in Embedder, NEW d, StartInit(p, e, d) PROVE PureInv'
  <2>1. run'[p].at = "lock"
    BY <1>7 DEF StartInit, LifecycleTypeOK, Base
  <2> QED
    BY <1>3, <2>1 DEF Works, Early, Schema
<1>8. CASE TakeLock(p)
  BY <1>4, <1>5, <1>8 DEF TakeLock
<1>9. CASE MakeDirectory(p)
  <2>1. run[p].at = "mkdir" /\ past' = past /\ Moved(p, "schema")
    BY <1>1, <1>9, MovesTo DEF MakeDirectory
  <2>2. db = None /\ \A q \in Proc : run[q].at \in {"none", "lock", "mkdir"}
    BY <2>1 DEF Base, DirInv
  <2>3. run[p].cmd = "init" /\ run[p].then = "provider"
    BY <1>1, <2>1, PlaceIs, IdleIsARun DEF Place, Early, Schema, Writing
  <2>4. \A q \in Proc : run'[q].at \in {"none", "lock", "mkdir"} \/ (run'[q].at = "schema" /\ run'[q].then = "provider" /\ run'[q].cmd = "init")
    BY <2>1, <2>2, <2>3 DEF Moved, Others, Keeps
  <2>5. db' = None /\ \A q \in Proc : ~Works(run'[q]) /\ ~Changing(q)'
    BY <1>1, <2>2, <2>4 DEF Works, Changing, Early, Schema
  <2>6. ASSUME NEW q \in Proc PROVE FreshIs(run'[q], db')
    BY <2>4, <2>5 DEF FreshIs, Fresh, Rewrites, Early, Schema
  <2> QED
    BY <2>5, <2>6 DEF PureInv, PureParts, VectorsFit, WorkersFit, IndexAlone, FreshAlone, JsonFit
<1>10. CASE WriteConfig(p)
  <2>1. run[p].at = "config" /\ \E step \in {"unlock", "embed"} : Goto(p, step)
    BY <1>10 DEF WriteConfig
  <2> QED
    BY <1>6, <2>1 DEF Works
<1>11. CASE ReleaseLock(p) \/ Finish(p) \/ Halt(p)
  BY <1>4, <1>11 DEF ReleaseLock, Finish, Halt
<1>12. CASE EndEmbedding(p)
  <2>1. run[p].at = "embed" /\ (Stop(p) \/ \E step \in {"unlock", "finish", "serving"} : Goto(p, step))
    BY <1>12 DEF EndEmbedding
  <2> QED
    BY <1>4, <1>6, <2>1 DEF Works
<1>13. CASE StartServer(p)
  <2>1. run'[p].at = "schema" /\ run'[p].then = "check"
    BY <1>13 DEF StartServer, LifecycleTypeOK, Base
  <2>2. ~Works(run'[p]) /\ ~Fresh(run'[p]) /\ ~Carries(run'[p]) /\ ~Changing(p)' /\ run'[p].at \notin Schema
    BY <2>1 DEF Works, Fresh, Carries, Changing, Rewrites, Early, Schema
  <2> QED
    BY <1>1, <1>2, <2>2, PureKept
<1>14. CASE CheckProvider(p)
  <2>1. CASE Stop(p)
    BY <1>4, <2>1
  <2>2. CASE ~Stop(p)
    <3> SUFFICES ASSUME past' \cap Labels = {} PROVE PureParts'
      BY DEF PureInv
    <3>1. /\ run[p].at = "check" /\ Moved(p, "serving") /\ Admits(run[p].use, db)
          /\ past' = past \cup (IF db.provider = None THEN {"unlisted"} ELSE {})
                     \cup (IF \E q \in Proc : Changing(q) /\ run[q].use # run[p].use
                           THEN {"overtaken"} ELSE {})
      BY <1>1, <1>14, <2>2, MovesTo DEF CheckProvider
    <3>2. /\ db.provider # None /\ \A q \in Proc : Changing(q) => run[q].use = run[p].use
      BY <3>1 DEF Labels
    <3>3. PureParts
      BY <1>2 DEF PureInv
    <3>4. db # None /\ run[p].use \in Embedder
      BY <1>1, <3>1, PlaceIs, IdleIsARun DEF Before, Place, Early, Schema, Writing
    <3>5. Complete(db) /\ Fitting(run[p].use, db)
      BY <3>1, <3>2, <3>4 DEF Admits, Fitting, DimsOf
    <3>6. run'[p].at = "serving" /\ run'[p].use = run[p].use /\ \A q \in Proc : q # p => run'[q] = run[q]
      BY <3>1 DEF Moved, Keeps, Others
    <3>7. \A q \in Proc : ~Fresh(run[q])
      BY <3>3, <3>4, <3>5 DEF PureParts, FreshAlone, FreshIs, Complete
    <3>8. VectorsFit' /\ WorkersFit'
      BY <1>1, <3>3, <3>4, <3>5, <3>6 DEF PureParts, VectorsFit, WorkersFit
    <3>9. IndexAlone'
      <4>1. ASSUME NEW q \in Proc, Changing(q)' PROVE Changing(q) /\ q # p /\ run'[q] = run[q]
        BY <3>6, <4>1 DEF Changing
      <4>2. "serving" \notin Schema
        BY DEF Schema
      <4> QED
        BY <1>1, <3>2, <3>3, <3>6, <4>1, <4>2 DEF PureParts, IndexAlone
    <3>10. \A q \in Proc : ~Fresh(run'[q])
      BY <3>6, <3>7 DEF Fresh, Rewrites, Early, Schema
    <3>11. JsonFit'
      <4>1. ASSUME NEW q \in Proc, Carries(run'[q]) PROVE Carries(run[q])
        BY <3>6, <4>1 DEF Carries
      <4> QED
        BY <1>1, <3>3, <4>1 DEF PureParts, JsonFit
    <3> QED
      BY <3>8, <3>9, <3>10, <3>11 DEF PureParts, FreshAlone, FreshIs
  <2> QED
    BY <2>1, <2>2
<1>15. CASE Reindex(p, FALSE)
  <2>1. run[p].at = "serving" /\ Goto(p, "embed")
    BY <1>15 DEF Reindex
  <2> QED
    BY <1>6, <2>1 DEF Works
<1> QED
  BY <1>7, <1>8, <1>9, <1>10, <1>11, <1>12, <1>13, <1>14, <1>15 DEF Quiet, InitStep

LEMMA PureSchema ==
  ASSUME Base, PureInv, NEW p \in Proc, SchemaStep(p) PROVE PureInv'
<1> USE DEF At
<1>1. /\ LifecycleTypeOK /\ Others(p) /\ run[p].at \in Early /\ run[p] # Idle /\ Place(run[p]) /\ run[p] \in Runs
      /\ past \subseteq past' /\ past' \subseteq past \cup {"resized"}
  BY SchemaEffects, PlaceIs DEF Base, Early, Schema
<1>2. past' \cap Labels = {} => past \cap Labels = {}
  BY <1>1
<1>3. ASSUME run'[p] = Idle
      PROVE  /\ ~Works(run'[p]) /\ ~Changing(p)' /\ run'[p].at \notin Schema
             /\ ~Carries(run'[p]) /\ ~Fresh(run'[p])
  BY <1>3, IdleIsARun DEF Works, Changing, Carries, Fresh, Rewrites, Early, Schema
<1>4. ASSUME Keeps(p), run'[p].at \in Schema, run'[p].then = run[p].then
      PROVE  /\ Works(run'[p]) => Works(run[p]) /\ run'[p].use = run[p].use
             /\ ~Changing(p)'
             /\ Fresh(run'[p]) => Fresh(run[p]) /\ Keeps(p) /\ run'[p].at \notin {"model", "dims"}
  BY <1>1, <1>4 DEF Works, Changing, Fresh, Rewrites, Early, Schema, Keeps
<1>5. ASSUME SchemaIsDone(p)
      PROVE  /\ Works(run'[p]) => Works(run[p]) /\ run'[p].use = run[p].use
             /\ ~Changing(p)' /\ run'[p].at \notin Schema /\ ~Carries(run'[p])
             /\ Fresh(run'[p]) => Fresh(run[p]) /\ Keeps(p) /\ run'[p].at \notin {"model", "dims"}
  <2>1. /\ run'[p].at = run[p].then /\ run'[p].then = "none" /\ Keeps(p)
        /\ run'[p].at \in {"provider", "recreate", "embed", "remove", "check"}
    BY <1>1, <1>5, SchemaEnds
  <2>2. run[p].cmd = "index" => run[p].then # "provider"
    BY <1>1 DEF Place, Early, Schema, Writing
  <2> QED
    BY <1>1, <2>1, <2>2 DEF Works, Changing, Carries, Fresh, Rewrites, Early, Schema, Keeps
<1>6. CASE BeginSchema(p)
  <2>1. db' = Opened /\ past' = past
    BY <1>6 DEF BeginSchema
  <2>2. CASE SchemaIsDone(p) /\ db # None
    <3>1. db' = db
      BY <2>1, <2>2 DEF Opened
    <3> QED
      BY <1>1, <1>2, <1>5, <2>2, <3>1, PureKept
  <2>3. CASE ~SchemaIsDone(p) /\ db # None
    <3>1. db' = db /\ Opened = db
      BY <2>1, <2>3 DEF Opened
    <3>2. run' = [run EXCEPT ![p].at = "table", ![p].from = Opened.version] /\ ~(Opened.version >= SchemaVersion)
      BY <1>6, <2>3 DEF BeginSchema
    <3>3. run' = [run EXCEPT ![p] = [run[p] EXCEPT !.at = "table", !.from = db.version]]
      BY <1>1, <3>1, <3>2 DEF Runs, LifecycleTypeOK
    <3>4. run'[p].at = "table" /\ run'[p].from = db.version /\ Keeps(p) /\ run'[p].then = run[p].then
      BY <1>1, <3>3 DEF Runs, LifecycleTypeOK, Keeps
    <3>5. db.version # SchemaVersion
      BY <3>1, <3>2 DEF SchemaVersion
    <3>6. \A q \in Proc : ~Changing(q)
      BY <3>5 DEF Base, UpgradeInv, After, Writing, Changing
    <3>7. Carries(run'[p]) => db.version = 1
      BY <3>4 DEF Carries
    <3>8. run'[p].at \in Schema
      BY <3>4 DEF Schema
    <3> QED
      BY <1>1, <1>2, <1>4, <2>3, <3>1, <3>4, <3>6, <3>7, <3>8, PureKept
  <2>4. CASE db = None
    <3> SUFFICES ASSUME past' \cap Labels = {} PROVE PureParts'
      BY DEF PureInv
    <3>1. PureParts
      BY <1>2 DEF PureInv
    <3>2. \A q \in Proc : ~Works(run[q]) /\ run[q].at \in Before
      BY <1>1, <2>4, <3>1, WorkersHaveIndex
    <3>3. db' = EmptyDatabase /\ db'.version = 0
      BY <2>1, <2>4 DEF Opened, EmptyDatabase
    <3>4. run'[p].at = "table" /\ run'[p].from = 0 /\ run'[p].then = run[p].then /\ Keeps(p)
      <4>1. run' = [run EXCEPT ![p].at = "table", ![p].from = Opened.version] /\ Opened.version = 0
        BY <1>6, <2>4, <3>3 DEF BeginSchema, Opened, SchemaVersion
      <4>2. run' = [run EXCEPT ![p] = [run[p] EXCEPT !.at = "table", !.from = 0]]
        BY <1>1, <4>1 DEF Runs, LifecycleTypeOK
      <4> QED
        BY <1>1, <4>2 DEF Runs, LifecycleTypeOK, Keeps
    <3>5. ASSUME NEW q \in Proc
          PROVE  ~Works(run'[q]) /\ ~Changing(q)' /\ ~Carries(run'[q]) /\ run'[q].at \notin {"model", "dims"}
      <4>1. CASE q = p
        BY <1>1, <3>2, <3>4, <4>1 DEF Works, Changing, Carries, Early, Schema
      <4>2. CASE q # p
        BY <1>1, <3>2, <4>2 DEF Works, Changing, Carries, Early, Schema, Before, Others
      <4> QED
        BY <4>1, <4>2
    <3>6. /\ db'.dims = 0 /\ db'.stats = FALSE
          /\ \A c \in Chunk : db'.vec[c] = None /\ db'.json[c] = None
      BY <3>3 DEF EmptyDatabase
    <3>7. ASSUME NEW q \in Proc, Fresh(run'[q])
          PROVE  run'[q].cmd = "full" /\ run'[q].use # Mock =>
                   run'[q].new.provider = Kind[run'[q].use].provider /\ run'[q].new.dims \in DimsOf(run'[q].use)
      <4>1. Fresh(run[q]) /\ run'[q].cmd = run[q].cmd /\ run'[q].use = run[q].use /\ run'[q].new = run[q].new
        <5>1. CASE q = p
          BY <1>1, <1>4, <3>4, <3>7, <5>1 DEF Keeps, Schema
        <5>2. CASE q # p
          BY <1>1, <3>7, <5>2 DEF Others
        <5> QED
          BY <5>1, <5>2
      <4> QED
        BY <3>1, <4>1 DEF PureParts, FreshAlone, FreshIs
    <3>8. VectorsFit' /\ JsonFit' /\ WorkersFit' /\ IndexAlone'
      BY <3>3, <3>5, <3>6 DEF VectorsFit, JsonFit, WorkersFit, IndexAlone, Fitting
    <3>9. FreshAlone'
      BY <3>5, <3>6, <3>7 DEF FreshAlone, FreshIs
    <3> QED
      BY <3>8, <3>9 DEF PureParts
  <2> QED
    BY <2>2, <2>3, <2>4
<1>7. ASSUME ~BeginSchema(p)
      PROVE  run[p].at \in Schema /\ db \in Database /\ db # None /\ db' # None /\ SameMeta(db, db')
  BY <1>1, <1>7, SchemaEffects DEF SchemaStep, CreateTable, SetDimensions, MigrateVectors, RebuildPostings, SetVersion,
     Early, Schema
<1>8. ASSUME ~BeginSchema(p), db'.vec = db.vec, db'.json = db.json, db'.version = 1 => db.version = 1,
             run'[p].at \in Schema => Keeps(p) /\ run'[p].then = run[p].then,
             run'[p].at \notin Schema => run'[p] = Idle \/ SchemaIsDone(p),
             Carries(run'[p]) => Carries(run[p])
      PROVE  PureInv'
  <2>1. SameIndex(db, db') /\ db'.stats = db.stats /\ db # None /\ db' # None /\ run[p].at \in Schema
    BY <1>7, <1>8 DEF SameIndex, SameMeta
  <2> QED
    BY <1>1, <1>2, <1>3, <1>4, <1>5, <1>8, <2>1, PureKept
<1>9. CASE CreateTable(p)
  <2>1. ~BeginSchema(p) /\ run[p].at = "table" /\ Moved(p, "edims")
    BY <1>1, <1>9, MovesTo DEF CreateTable, BeginSchema
  <2>2. db'.vec = db.vec /\ db'.json = db.json /\ db'.version = db.version
    BY <1>7, <1>9, <2>1 DEF CreateTable, Database
  <2> QED
    BY <1>8, <2>1, <2>2 DEF Moved, Carries, Schema
<1>10. CASE SetDimensions(p)
  <2>1. ~BeginSchema(p) /\ run[p].at = "edims" /\ Moved(p, IF run[p].from = 1 THEN "json" ELSE "postings")
    BY <1>1, <1>10, MovesTo DEF SetDimensions, BeginSchema
  <2>2. db'.vec = db.vec /\ db'.json = db.json /\ db'.version = db.version
    BY <1>7, <1>10, <2>1 DEF SetDimensions, Database
  <2> QED
    BY <1>8, <2>1, <2>2 DEF Moved, Carries, Schema
<1>11. CASE MigrateVectors(p)
  <2>1. ~BeginSchema(p) /\ run[p].at = "json"
    BY <1>11 DEF MigrateVectors, BeginSchema
  <2>2. CASE Stop(p) /\ db' = db
    <3>1. run'[p] = Idle
      BY <1>1, <2>2, StopsAt
    <3> QED
      BY <1>3, <1>8, <2>1, <2>2, <3>1
  <2>3. CASE Goto(p, "postings") /\
             db' = [db EXCEPT !.vec = [c \in Chunk |-> IF db.json[c] = None THEN @[c] ELSE db.json[c]]]
    <3> SUFFICES ASSUME past' \cap Labels = {} PROVE PureParts'
      BY DEF PureInv
    <3>1. PureParts
      BY <1>2 DEF PureInv
    <3>2. /\ db # None /\ db' # None /\ SameMeta(db, db') /\ db'.json = db.json /\ db'.version = db.version
          /\ \A c \in Chunk : db'.vec[c] = IF db.json[c] = None THEN db.vec[c] ELSE db.json[c]
      BY <1>7, <2>1, <2>3 DEF Database
    <3>3. Moved(p, "postings")
      BY <1>1, <2>3, MovesTo
    <3>4. \A q \in Proc : ~Changing(q)
      <4>1. run[p].at \in Schema
        BY <2>1 DEF Schema
      <4> QED
        BY <3>1, <4>1 DEF PureParts, IndexAlone
    <3>5. \A c \in Chunk : Fitting(db.json[c], db)
      <4>1. Carries(run[p])
        BY <2>1 DEF Carries
      <4> QED
        BY <3>1, <3>2, <4>1 DEF PureParts, JsonFit
    <3>6. \A m : Fitting(m, db) => Fitting(m, db')
      BY <3>2 DEF Fitting, SameMeta
    <3>7. ASSUME NEW q \in Proc
          PROVE  /\ Works(run'[q]) => Works(run[q]) /\ run'[q].use = run[q].use
                 /\ ~Changing(q)' /\ (Carries(run'[q]) => Carries(run[q]))
                 /\ Fresh(run'[q]) => /\ Fresh(run[q]) /\ run'[q].use = run[q].use /\ run'[q].cmd = run[q].cmd
                                      /\ run'[q].new = run[q].new
                                      /\ run'[q].at \in {"model", "dims"} => run'[q].at = run[q].at
      <4>1. CASE q = p
        BY <1>1, <3>3, <4>1 DEF Moved, Keeps, Works, Changing, Carries, Fresh, Rewrites, Early, Schema
      <4>2. CASE q # p
        BY <1>1, <3>4, <4>2 DEF Others, Changing
      <4> QED
        BY <4>1, <4>2
    <3>8. VectorsFit'
      BY <3>1, <3>2, <3>5, <3>6 DEF PureParts, VectorsFit
    <3>9. WorkersFit' /\ IndexAlone'
      BY <3>1, <3>2, <3>6, <3>7 DEF PureParts, WorkersFit, IndexAlone
    <3>10. FreshAlone'
      <4>1. ASSUME NEW q \in Proc, Fresh(run'[q])
            PROVE  FreshIs(run'[q], db') /\ \A r \in Proc : ~Works(run'[r])
        <5>1. FreshIs(run[q], db) /\ Fresh(run[q]) /\ \A r \in Proc : ~Works(run[r])
          BY <3>1, <3>7, <4>1 DEF PureParts, FreshAlone
        <5> QED
          BY <3>2, <3>7, <4>1, <5>1 DEF FreshIs, SameMeta
      <4> QED
        BY <4>1 DEF FreshAlone, FreshIs
    <3>11. JsonFit'
      BY <3>2, <3>5, <3>6 DEF JsonFit
    <3> QED
      BY <3>8, <3>9, <3>10, <3>11 DEF PureParts
  <2> QED
    BY <1>11, <2>2, <2>3 DEF MigrateVectors
<1>12. CASE RebuildPostings(p)
  <2>1. ~BeginSchema(p) /\ run[p].at = "postings" /\ Moved(p, "version")
    BY <1>1, <1>12, MovesTo DEF RebuildPostings, BeginSchema
  <2>2. db'.vec = db.vec /\ db'.json = db.json /\ db'.version = db.version
    BY <1>7, <1>12, <2>1 DEF RebuildPostings, Database
  <2> QED
    BY <1>8, <2>1, <2>2 DEF Moved, Carries, Schema
<1>13. CASE SetVersion(p)
  <2>1. ~BeginSchema(p) /\ run[p].at = "version" /\ SchemaIsDone(p)
    BY <1>13 DEF SetVersion, BeginSchema
  <2>2. db'.vec = db.vec /\ db'.json = db.json /\ db'.version = SchemaVersion
    BY <1>7, <1>13, <2>1 DEF SetVersion, Database
  <2> QED
    BY <1>5, <1>8, <2>1, <2>2 DEF SchemaVersion
<1> QED
  BY <1>6, <1>9, <1>10, <1>11, <1>12, <1>13 DEF SchemaStep

\* Whoever writes metadata is the only command.
LEMMA WriterAlone ==
  ASSUME Base, NEW p \in Proc, run[p].at \in Writing \cup {"recreate", "remove"}, NEW q \in Proc, q # p
  PROVE  ~Changing(q) /\ ~Fresh(run[q]) /\ run[q].cmd \in {"none", "serve"}
<1>1. run[p].cmd \in {"init", "index", "full"}
  BY PlaceIs, IdleIsARun DEF Base, Writing, Place, Early, Schema
<1>2. run[q].cmd \in {"none", "serve"}
  BY <1>1, Alone DEF Base
<1> QED
  BY <1>2 DEF Changing, Fresh

LEMMA PureMeta ==
  ASSUME Base, PureInv, NEW p \in Proc, MetaStep(p) PROVE PureInv'
<1>1. /\ LifecycleTypeOK /\ db # None /\ db' # None /\ SameTable(db, db') /\ SameVectors(db, db')
      /\ Described(run[p]) /\ run[p] # Idle
      /\ \/ /\ run[p].at = "provider" /\ Moved(p, "model") /\ past' = past
            /\ db'.provider = run[p].new.provider
            /\ db'.model = db.model /\ db'.dims = db.dims /\ db'.stats = db.stats
         \/ /\ run[p].at = "model" /\ Moved(p, "dims") /\ past' = past
            /\ db'.model = run[p].new.model
            /\ db'.provider = db.provider /\ db'.dims = db.dims /\ db'.stats = db.stats
         \/ /\ run[p].at = "dims" /\ Moved(p, "stats") /\ past' = past
            /\ db'.dims = run[p].new.dims
            /\ db'.provider = db.provider /\ db'.model = db.model /\ db'.stats = db.stats
         \/ /\ run[p].at = "stats" /\ db'.stats = TRUE
            /\ Moved(p, IF run[p].cmd = "init" THEN "config" ELSE "embed")
            /\ past' = IF run[p].cmd = "full" THEN past \ {"removed"} ELSE past
            /\ db'.provider = db.provider /\ db'.model = db.model /\ db'.dims = db.dims
  BY MetaEffects DEF Base
<1>2. /\ run[p].at \in Writing /\ Others(p) /\ Keeps(p)
      /\ \A q \in Proc : q # p => run'[q] = run[q] /\ ~Changing(q) /\ ~Fresh(run[q]) /\ run[q].cmd \in {"none", "serve"}
  <2>1. run[p].at \in Writing /\ Others(p) /\ Keeps(p)
    BY <1>1 DEF Writing, Moved
  <2> QED
    BY <2>1, WriterAlone DEF Others
<1>3. past' \cap Labels = {} => past \cap Labels = {}
  BY <1>1 DEF Labels
<1>4. /\ Place(run[p]) /\ run[p].cmd \in {"init", "index", "full"} /\ run[p].new.dims # 0
      /\ run[p].cmd = "init" => run[p].use \in {None, Mock}
      /\ run[p].cmd # "init" => run[p].use \in Maker
  BY <1>1, <1>2, PlaceIs DEF Place, Writing, Early, Schema, Described, Idle
<1>5. CASE run[p].at = "stats"
  <2>1. /\ Works(run[p]) /\ run'[p].use = run[p].use /\ run'[p].at \in {"config", "embed"} /\ SameIndex(db, db')
    BY <1>1, <1>2, <1>5 DEF Works, Keeps, Moved, SameIndex, SameVectors
  <2>2. ~Changing(p)' /\ run'[p].at \notin Schema /\ ~Carries(run'[p]) /\ ~Fresh(run'[p])
    BY <2>1 DEF Changing, Carries, Fresh, Rewrites, Early, Schema
  <2>3. \A q \in Proc : ~Fresh(run'[q])
    BY <1>2, <2>2
  <2>4. db'.version = db.version
    BY <1>1 DEF SameTable
  <2> QED
    BY <1>1, <1>2, <1>3, <2>1, <2>2, <2>3, <2>4, PureKept
<1>6. CASE run[p].at # "stats"
  <2> SUFFICES ASSUME past' \cap Labels = {} PROVE PureParts'
    BY DEF PureInv
  <2>1. PureParts
    BY <1>3 DEF PureInv
  <2>2. /\ run[p].at \in {"provider", "model", "dims"} /\ Rewrites(run[p]) /\ ~Works(run[p])
        /\ run'[p].at \in {"model", "dims", "stats"}
        /\ run'[p].use = run[p].use /\ run'[p].new = run[p].new /\ run'[p].cmd = run[p].cmd
        /\ db'.vec = db.vec /\ db'.json = db.json /\ db'.stats = db.stats
    BY <1>1, <1>2, <1>6 DEF Writing, Rewrites, Works, Early, Schema, Moved, Keeps, SameVectors
  <2>3. CASE run[p].cmd = "index"
    <3>1. Recorded(run[p], db) /\ Changing(p)
      BY <2>2, <2>3 DEF Base, ServeInv, Changing
    <3>2. /\ \A c \in Chunk : db.vec[c] \in {None, Mock, run[p].use}
          /\ \A q \in Proc : (Works(run[q]) => run[q].use = run[p].use) /\ run[q].at \notin Schema
      BY <2>1, <3>1 DEF PureParts, IndexAlone
    <3>3. /\ run[p].use # Mock => /\ run[p].use \in Embedder /\ run[p].new.provider = Kind[run[p].use].provider
                                  /\ run[p].new.dims \in DimsOf(run[p].use)
          /\ run[p].at \in {"model", "dims"} => db.provider \in {None, run[p].new.provider}
      BY <2>3, <3>1 DEF Recorded
    \* What fitted still does.
    <3>4. Fitting(run[p].use, db) => Fitting(run[p].use, db')
      BY <1>1, <2>2, <3>3 DEF Fitting
    <3>5. run[p].at = "dims" => Fitting(run[p].use, db')
      BY <1>1, <3>3 DEF Fitting
    <3>6. VectorsFit'
      <4>1. ASSUME NEW c \in Chunk PROVE Fitting(db'.vec[c], db')
        <5>1. Fitting(db.vec[c], db) /\ db.vec[c] \in {None, Mock, run[p].use}
          BY <1>1, <2>1, <3>2 DEF PureParts, VectorsFit
        <5> QED
          BY <2>2, <3>4, <5>1 DEF Fitting
      <4> QED
        BY <4>1 DEF VectorsFit
    <3>7. WorkersFit'
      <4>1. ASSUME NEW q \in Proc, Works(run'[q]) PROVE Fitting(run'[q].use, db')
        <5>1. CASE q = p
          <6>1. run[p].at = "dims"
            BY <1>1, <1>6, <4>1, <5>1 DEF Works, Moved, Early, Schema
          <6> QED
            BY <2>2, <3>5, <5>1, <6>1
        <5>2. CASE q # p
          <6>1. Works(run[q]) /\ run[q].use = run[p].use /\ run'[q].use = run[p].use
            BY <1>2, <3>2, <4>1, <5>2
          <6>2. Fitting(run[p].use, db)
            BY <2>1, <6>1 DEF PureParts, WorkersFit
          <6> QED
            BY <3>4, <6>1, <6>2
        <5> QED
          BY <5>1, <5>2
      <4> QED
        BY <1>1, <4>1 DEF WorkersFit
    <3>8. IndexAlone'
      <4>1. ASSUME NEW q \in Proc, Changing(q)' PROVE q = p
        BY <1>2, <4>1 DEF Changing
      <4>2. ASSUME NEW q \in Proc
            PROVE  (Works(run'[q]) => run'[q].use = run[p].use) /\ run'[q].at \notin Schema
        <5>1. CASE q = p
          BY <2>2, <5>1 DEF Schema
        <5>2. CASE q # p
          BY <1>2, <3>2, <5>2
        <5> QED
          BY <5>1, <5>2
      <4> QED
        BY <2>2, <3>2, <4>1, <4>2 DEF IndexAlone
    <3>9. \A q \in Proc : ~Fresh(run'[q])
      BY <1>2, <2>2, <2>3 DEF Fresh
    <3>10. db'.version # 1 /\ \A q \in Proc : ~Carries(run'[q])
      <4>1. db.version = SchemaVersion
        BY <1>2 DEF Base, UpgradeInv, After
      <4>2. \A q \in Proc : run'[q].at \notin Schema
        BY <1>2, <2>2, <3>2 DEF Schema
      <4> QED
        BY <1>1, <4>1, <4>2 DEF SameTable, SchemaVersion, Carries, Schema
    <3> QED
      BY <3>6, <3>7, <3>8, <3>9, <3>10 DEF PureParts, FreshAlone, FreshIs, JsonFit
  <2>4. CASE run[p].cmd # "index"
    <3>1. Fresh(run[p])
      BY <1>4, <2>2, <2>4 DEF Fresh
    <3>2. /\ FreshIs(run[p], db) /\ \A q \in Proc : ~Works(run[q])
          /\ db.dims = 0 /\ db.stats = FALSE /\ \A c \in Chunk : db.vec[c] = None /\ db.json[c] = None
      BY <1>1, <2>1, <3>1 DEF PureParts, FreshAlone, FreshIs
    <3>3. VectorsFit' /\ JsonFit'
      BY <2>2, <3>2 DEF VectorsFit, JsonFit, Fitting
    <3>4. WorkersFit'
      <4>1. ASSUME NEW q \in Proc, Works(run'[q]) PROVE Fitting(run'[q].use, db')
        <5>1. q = p
          BY <1>2, <3>2, <4>1
        <5>2. run[p].at = "dims" /\ db'.provider = db.provider /\ db'.dims = run[p].new.dims
          BY <1>1, <1>6, <4>1, <5>1 DEF Works, Moved, Early, Schema
        <5>3. db.provider \in {None, run[p].new.provider}
          BY <3>1, <3>2, <5>2 DEF FreshIs
        <5>4. run[p].use # None /\ run[p].use # Mock =>
                run[p].new.provider = Kind[run[p].use].provider /\ run[p].new.dims \in DimsOf(run[p].use)
          BY <1>4, <2>4, <3>1, <3>2 DEF FreshIs
        <5> QED
          BY <2>2, <5>1, <5>2, <5>3, <5>4 DEF Fitting
      <4> QED
        BY <1>1, <4>1 DEF WorkersFit
    <3>5. IndexAlone'
      <4>1. \A q \in Proc : ~Changing(q)'
        BY <1>2, <2>2, <2>4 DEF Changing
      <4> QED
        BY <4>1 DEF IndexAlone
    <3>6. ASSUME NEW q \in Proc, Fresh(run'[q])
          PROVE  FreshIs(run'[q], db') /\ \A r \in Proc : ~Works(run'[r])
      <4>1. q = p /\ run[p].at # "dims"
        BY <1>1, <1>2, <3>6 DEF Fresh, Rewrites, Early, Schema, Moved
      <4>2. ~Works(run'[p])
        BY <1>1, <1>6, <4>1 DEF Works, Moved, Early, Schema
      <4>3. \A r \in Proc : ~Works(run'[r])
        BY <1>2, <3>2, <4>2
      <4>4. FreshIs(run'[p], db')
        BY <1>1, <1>6, <2>2, <3>1, <3>2, <4>1 DEF FreshIs, Moved
      <4> QED
        BY <4>1, <4>3, <4>4
    <3>7. FreshAlone'
      BY <3>6 DEF FreshAlone, FreshIs
    <3> QED
      BY <3>3, <3>4, <3>5, <3>7 DEF PureParts
  <2> QED
    BY <2>3, <2>4
<1> QED
  BY <1>5, <1>6

LEMMA PureRecreate ==
  ASSUME Base, PureInv, NEW p \in Proc, RecreateVectorIndex(p) PROVE PureInv'
<1> SUFFICES ASSUME past' \cap Labels = {} PROVE PureParts'
  BY DEF PureInv
<1>1. /\ LifecycleTypeOK /\ run[p].at = "recreate" /\ run[p].cmd = "index" /\ Moved(p, "provider")
      /\ db # None /\ db' # None /\ SameMeta(db, db') /\ db'.version = db.version
      /\ db'.vec = [c \in Chunk |-> None]
      /\ past' = IF \E q \in Proc \ {p} : Overtaken(p, q) THEN past \cup {"overtaken"} ELSE past
  BY RecreateEffects DEF Base
<1>2. PureParts /\ \A q \in Proc : q # p => ~Overtaken(p, q)
  BY <1>1 DEF PureInv, Labels
<1>3. /\ \A q \in Proc : q # p => run'[q] = run[q] /\ ~Changing(q) /\ ~Fresh(run[q])
      /\ run'[p].at = "provider" /\ run'[p].use = run[p].use /\ run'[p].cmd = "index"
  BY <1>1, WriterAlone DEF Moved, Keeps, Others
<1>4. ~Works(run'[p]) /\ ~Fresh(run'[p])
  BY <1>3 DEF Works, Fresh, Early, Schema
<1>5. \A m : Fitting(m, db) => Fitting(m, db')
  BY <1>1 DEF Fitting, SameMeta
<1>6. VectorsFit'
  BY <1>1 DEF VectorsFit, Fitting
<1>7. WorkersFit'
  BY <1>1, <1>2, <1>3, <1>4, <1>5 DEF PureParts, WorkersFit
<1>8. ASSUME NEW q \in Proc PROVE (Works(run'[q]) => run'[q].use = run[p].use) /\ run'[q].at \notin Schema
  <2>1. CASE q = p
    BY <1>3, <1>4, <2>1 DEF Schema
  <2>2. CASE q # p
    <3>1. run[q] = Idle \/ (run[q].use = run[p].use /\ ~InSchema(q))
      BY <1>2, <2>2 DEF Overtaken
    <3> QED
      BY <1>3, <2>2, <3>1, IdleIsARun DEF Works, InSchema, Early, Schema
  <2> QED
    BY <2>1, <2>2
<1>9. IndexAlone'
  <2>1. ASSUME NEW q \in Proc, Changing(q)' PROVE q = p
    BY <1>3, <2>1 DEF Changing
  <2> QED
    BY <1>1, <1>3, <1>8, <2>1 DEF IndexAlone
<1>10. FreshAlone'
  BY <1>3, <1>4 DEF FreshAlone, FreshIs
<1>11. JsonFit'
  <2>1. db.version = SchemaVersion
    BY <1>1 DEF Base, UpgradeInv, After
  <2>2. \A q \in Proc : ~Carries(run'[q])
    BY <1>8 DEF Carries, Schema
  <2> QED
    BY <1>1, <2>1, <2>2 DEF JsonFit, SchemaVersion
<1> QED
  BY <1>6, <1>7, <1>9, <1>10, <1>11 DEF PureParts

LEMMA PureRemove ==
  ASSUME Base, PureInv, NEW p \in Proc, RemoveDatabase(p) PROVE PureInv'
<1> SUFFICES ASSUME past' \cap Labels = {} PROVE PureParts'
  BY DEF PureInv
<1>1. /\ LifecycleTypeOK /\ run[p] \in Runs /\ run[p].cmd = "full" /\ Place(run[p])
      /\ run'[p] = [run[p] EXCEPT !.at = "schema", !.then = "provider"]
      /\ \A q \in Proc : q # p => run'[q] = Idle
  BY RemoveDatabaseIs DEF Base, LifecycleTypeOK
<1>2. /\ run'[p].at = "schema" /\ run'[p].then = "provider" /\ run'[p].cmd = "full"
      /\ run'[p].use = run[p].use /\ run'[p].new = run[p].new
  BY <1>1 DEF Runs
<1>3. db' = None /\ ~Mislabels(p)
  BY DEF RemoveDatabase, Labels
<1>4. ASSUME NEW q \in Proc PROVE ~Works(run'[q]) /\ ~Changing(q)'
  <2>1. CASE q = p
    BY <1>2, <2>1 DEF Works, Changing, Early, Schema
  <2>2. CASE q # p
    BY <1>1, <2>2, IdleIsARun DEF Works, Changing, Early, Schema
  <2> QED
    BY <2>1, <2>2
<1>5. ASSUME NEW q \in Proc, Fresh(run'[q]) PROVE FreshIs(run'[q], db')
  <2>1. q = p
    BY <1>1, <1>5, IdleIsARun DEF Fresh
  <2>2. run[p].use # Mock => run[p].new.provider = Kind[run[p].use].provider /\ run[p].new.dims \in DimsOf(run[p].use)
    BY <1>3 DEF Mislabels, DimsOf
  <2> QED
    BY <1>2, <1>3, <2>1, <2>2 DEF FreshIs
<1> QED
  BY <1>3, <1>4, <1>5 DEF PureParts, VectorsFit, WorkersFit, IndexAlone, FreshAlone, JsonFit, FreshIs

LEMMA PureClear ==
  ASSUME Base, PureInv, NEW p \in Proc, Reindex(p, TRUE) PROVE PureInv'
<1> SUFFICES ASSUME past' \cap Labels = {} PROVE PureParts'
  BY DEF PureInv
<1>1. /\ LifecycleTypeOK /\ run[p].at = "serving" /\ run[p].cmd = "serve"
      /\ run'[p].at = "schema" /\ run'[p].then = "embed" /\ Keeps(p) /\ Others(p)
      /\ db # None /\ db' # None
      /\ db'.provider = None /\ db'.dims = 0 /\ db'.version = db.version
      /\ db'.vec = [c \in Chunk |-> None] /\ db'.json = [c \in Chunk |-> None]
      /\ past' = past \cup {"cleared"}
  BY ClearEffects DEF Base
<1>2. PureParts
  BY <1>1 DEF PureInv
<1>3. /\ \A m : Fitting(m, db')
      /\ VectorsFit' /\ WorkersFit' /\ JsonFit'
  <2>1. \A m : Fitting(m, db')
    BY <1>1 DEF Fitting
  <2> QED
    BY <1>1, <2>1 DEF VectorsFit, WorkersFit, JsonFit
<1>4. Works(run[p])
  BY <1>1 DEF Works
<1>5. \A q \in Proc : ~Fresh(run[q])
  BY <1>2, <1>4 DEF PureParts, FreshAlone
<1>6. IndexAlone'
  <2>1. ASSUME NEW q \in Proc, Changing(q)' PROVE q # p /\ Changing(q) /\ run'[q] = run[q]
    BY <1>1, <2>1 DEF Changing, Others
  <2>2. ASSUME NEW q \in Proc, Changing(q), NEW r \in Proc
        PROVE  (Works(run'[r]) => run'[r].use = run[q].use) /\ run'[r].at \notin Schema
    <3>1. CASE r = p
      BY <1>1, <1>2, <1>4, <2>2, <3>1 DEF PureParts, IndexAlone, Keeps, Schema
    <3>2. CASE r # p
      BY <1>1, <1>2, <2>2, <3>2 DEF PureParts, IndexAlone, Others
    <3> QED
      BY <3>1, <3>2
  <2> QED
    BY <1>1, <2>1, <2>2 DEF IndexAlone
<1>7. FreshAlone'
  <2>1. \A q \in Proc : ~Fresh(run'[q])
    BY <1>1, <1>5 DEF Fresh, Keeps, Others
  <2> QED
    BY <2>1 DEF FreshAlone, FreshIs
<1> QED
  BY <1>3, <1>6, <1>7 DEF PureParts

LEMMA PureStart ==
  ASSUME Base, PureInv, NEW p \in Proc, NEW full \in BOOLEAN, StartIndex(p, full) PROVE PureInv'
<1>1. LifecycleTypeOK /\ past' = past
  BY StartIndexIs DEF Base
<1>2. CASE db = None
  <2> SUFFICES ASSUME past' \cap Labels = {} PROVE PureParts'
    BY DEF PureInv
  <2>1. PureParts /\ db' = EmptyDatabase /\ run' = run
    BY <1>1, <1>2, StartEffects DEF PureInv, Opened
  <2>2. ASSUME NEW q \in Proc
        PROVE  ~Works(run[q]) /\ ~Changing(q) /\ ~Carries(run[q]) /\ run[q].at \notin {"model", "dims"}
    BY <1>1, <1>2, <2>1, WorkersHaveIndex DEF Carries, Before
  <2>3. /\ db'.dims = 0 /\ db'.stats = FALSE /\ db'.version = 0
        /\ \A c \in Chunk : db'.vec[c] = None /\ db'.json[c] = None
    BY <2>1 DEF EmptyDatabase
  <2>4. VectorsFit' /\ WorkersFit' /\ JsonFit' /\ IndexAlone'
    BY <2>1, <2>2, <2>3 DEF VectorsFit, WorkersFit, JsonFit, IndexAlone, Fitting, Changing
  <2>5. FreshAlone'
    BY <2>1, <2>2, <2>3 DEF PureParts, FreshAlone, FreshIs
  <2> QED
    BY <2>4, <2>5 DEF PureParts
<1>3. CASE db # None /\ run' = run
  <2>1. db' = db
    BY <1>3, StartIndexIs DEF Base, Opened
  <2> QED
    BY <1>1, <1>3, <2>1 DEF PureInv, PureParts, VectorsFit, WorkersFit, IndexAlone, FreshAlone, JsonFit, Changing
<1>4. ASSUME NEW r \in Runs, run' = [run EXCEPT ![p] = r], r.at = "schema", r.then # "provider", Place(r),
             r.cmd = (IF full THEN "full" ELSE "index"),
             db \in Database, Complete(db), db' = db, r.use \in {Configured, Mock},
             ~full => /\ r.use # Mock => /\ r.new.provider = Kind[r.use].provider
                                         /\ r.new.dims \in DimsOf(r.use)
                      /\ r.then = "embed" => db.provider = r.new.provider /\ db.dims = r.new.dims,
             (IF full THEN "full" ELSE "index") \in May[p]
      PROVE  PureInv'
  <2> SUFFICES ASSUME past' \cap Labels = {} PROVE PureParts'
    BY DEF PureInv
  <2>1. PureParts /\ db # None /\ run'[p] = r /\ \A q \in Proc : q # p => run'[q] = run[q]
    BY <1>1, <1>4, NoneAssumption DEF PureInv, LifecycleTypeOK
  <2>2. ASSUME NEW q \in Proc, q # p PROVE run[q].cmd \in {"none", "serve"}
    <3>1. run[q] # Idle => run[q].cmd \in May[q]
      BY <1>1 DEF LifecycleTypeOK
    <3>2. run[q] = Idle \/ run[q].cmd \in {"init", "index", "full", "serve"}
      BY <1>1 DEF LifecycleTypeOK, Place
    <3> QED
      BY <1>4, <2>2, <3>1, <3>2, IdleIsARun DEF Base, OneCommandLine
  <2>3. \A q \in Proc : ~Changing(q)' /\ ~Fresh(run'[q])
    BY <1>4, <2>1, <2>2 DEF Changing, Fresh, Rewrites, Early, Schema
  <2>4. Works(r) => Fitting(r.use, db)
    <3>1. Works(r) => r.then = "embed" /\ ~full
      BY <1>4 DEF Works, Place, Early, Schema, Writing, Idle
    <3> QED
      BY <1>4, <3>1 DEF Fitting
  <2>5. VectorsFit' /\ WorkersFit'
    BY <1>4, <2>1, <2>4 DEF PureParts, VectorsFit, WorkersFit
  <2>6. JsonFit'
    <3>1. ~Carries(r)
      BY <1>4 DEF Carries
    <3>2. ASSUME NEW q \in Proc, Carries(run'[q]) PROVE Carries(run[q])
      BY <2>1, <3>1, <3>2
    <3> QED
      BY <1>4, <2>1, <3>2 DEF PureParts, JsonFit
  <2> QED
    BY <2>3, <2>5, <2>6 DEF PureParts, IndexAlone, FreshAlone, FreshIs
<1> QED
  BY <1>2, <1>3, <1>4, StartIndexIs DEF Base

LEMMA PureEmbed ==
  ASSUME Base, PureInv, NEW p \in Proc, NEW c \in Chunk, EmbedChunk(p, c) PROVE PureInv'
<1>1. /\ LifecycleTypeOK /\ run[p].at \in {"embed", "serving"} /\ run' = run /\ past' = past
      /\ db \in Database /\ db # None /\ db' # None
      /\ SameMeta(db, db') /\ SameTable(db, db') /\ db'.json = db.json
      /\ db'.vec = [db.vec EXCEPT ![c] = run[p].use]
  BY EmbedEffects DEF Base
<1> SUFFICES ASSUME past' \cap Labels = {} PROVE PureParts'
  BY DEF PureInv
<1>2. PureParts /\ Works(run[p])
  BY <1>1 DEF PureInv, Works
<1>3. \A m : Fitting(m, db) => Fitting(m, db')
  BY <1>1 DEF Fitting, SameMeta
<1>4. \A k \in Chunk : db'.vec[k] = IF k = c THEN run[p].use ELSE db.vec[k]
  BY <1>1 DEF Database
<1>5. VectorsFit' /\ WorkersFit'
  BY <1>1, <1>2, <1>3, <1>4 DEF PureParts, VectorsFit, WorkersFit
<1>6. IndexAlone'
  BY <1>1, <1>2, <1>4 DEF PureParts, IndexAlone, Changing
<1>7. FreshAlone'
  BY <1>1, <1>2 DEF PureParts, FreshAlone, FreshIs
<1>8. JsonFit'
  BY <1>1, <1>2, <1>3 DEF PureParts, JsonFit, SameTable
<1> QED
  BY <1>5, <1>6, <1>7, <1>8 DEF PureParts

LEMMA PureNext ==
  ASSUME Base, PureInv, [Next]_vars PROVE PureInv'
<1>1. CASE Purge
  <2>1. db' = None /\ \A q \in Proc : run'[q] = Idle
    BY <1>1 DEF Purge, Resting
  <2>2. \A q \in Proc : ~Works(run'[q]) /\ ~Changing(q)' /\ ~Fresh(run'[q])
    BY <2>1, IdleIsARun DEF Works, Changing, Fresh, Early, Schema
  <2> QED
    BY <2>1, <2>2 DEF PureInv, PureParts, VectorsFit, WorkersFit, IndexAlone, FreshAlone, FreshIs, JsonFit
<1>2. CASE UNCHANGED <<db, run, past>>
  BY <1>2 DEF PureInv, PureParts, VectorsFit, WorkersFit, IndexAlone, FreshAlone, JsonFit, Changing
<1> QED
  BY <1>1, <1>2, Steps, PureQuiet, PureSchema, PureMeta, PureRemove, PureRecreate, PureClear, PureStart, PureEmbed
  DEF Base

LEMMA PureInit == Init => PureInv /\ DirInv
<1> SUFFICES ASSUME Init PROVE PureParts /\ DirInv
  BY DEF PureInv
<1>1. \A p \in Proc : run[p].at = "none" /\ run[p].cmd = "none"
  BY IdleIsARun DEF Init
<1>2. \A p \in Proc : ~Works(run[p]) /\ ~Changing(p) /\ ~Fresh(run[p])
  BY <1>1 DEF Works, Changing, Fresh, Early, Schema
<1>3. DirInv
  BY <1>1 DEF Init, DirInv
<1>4. ASSUME db # None, NEW c \in Chunk PROVE Fitting(db.vec[c], db) /\ Fitting(db.json[c], db)
  <2>1. PICK v \in OldVersion, e \in Embedder, cs \in SUBSET Chunk, width \in Dims :
          \E dims \in {Kind[e].declared, Kind[e].real} : db = OldDatabase(v, e, cs, dims, width)
    BY <1>4 DEF Init
  <2>2. PICK dims \in {Kind[e].declared, Kind[e].real} : db = OldDatabase(v, e, cs, dims, width)
    BY <2>1
  <2>3. /\ db.provider = Kind[e].provider /\ db.dims \in DimsOf(e)
        /\ db.vec[c] \in {e, None} /\ db.json[c] \in {e, None}
    BY <2>2 DEF OldDatabase, EmptyDatabase, DimsOf
  <2> QED
    BY <2>3 DEF Fitting
<1> QED
  BY <1>2, <1>3, <1>4 DEF PureParts, VectorsFit, WorkersFit, IndexAlone, FreshAlone, FreshIs, JsonFit

(* With one command line process and any number of servers, and models     *)
(* that the metadata tell apart: what the server lets in holds no vectors  *)
(* of another embedder but the mock one, wherever each process stops,      *)
(* unless a server was let in without metadata, the provider was changed   *)
(* beside one, or index --full ran after a change of provider.             *)
THEOREM AdmittedIsPure ==
  ASSUME OneCommandLine, Distinguishable PROVE Spec => []AdmittedIndexIsPure
<1>1. LifecycleTypeOK /\ UpgradeInv /\ ServeInv /\ DirInv /\ PureInv /\ [Next]_vars => PureInv'
  BY PureNext DEF Base
<1>2. LifecycleTypeOK /\ DirInv /\ [Next]_vars => DirInv'
  BY DirNext
<1>3. LifecycleTypeOK /\ ServeInv /\ [Next]_vars => ServeInv'
  BY ServeNext
<1>4. LifecycleTypeOK /\ UpgradeInv /\ [Next]_vars => UpgradeInv'
  BY UpgradeNext
<1>5. Init => UpgradeInv /\ ServeInv /\ DirInv /\ PureInv
  BY UpgradeInit, ServeInit, PureInit
<1>6. LifecycleTypeOK /\ PureInv => AdmittedIndexIsPure
  <2> SUFFICES ASSUME LifecycleTypeOK, PureInv, db # None, db.provider # None, past \cap Labels = {},
                      NEW e \in Embedder, Admits(e, db), NEW c \in Chunk, db.vec[c] \notin {Mock, None}
               PROVE  db.vec[c] = e
    BY DEF AdmittedIndexIsPure, Labels
  <2>1. db \in Database /\ db.vec[c] \in Embedder
    BY DEF LifecycleTypeOK, Database, Maker
  <2>2. /\ db.provider = Kind[e].provider /\ db.dims \in DimsOf(e) /\ db.dims # 0
    BY KindsAre DEF Admits, DimsOf
  <2>3. Fitting(db.vec[c], db)
    BY DEF PureInv, PureParts, VectorsFit
  <2>4. db.provider = Kind[db.vec[c]].provider /\ db.dims \in DimsOf(db.vec[c])
    BY <2>2, <2>3 DEF Fitting
  <2> QED
    BY <2>1, <2>2, <2>4 DEF Distinguishable
<1> QED
  BY <1>1, <1>2, <1>3, <1>4, <1>5, <1>6, LifecycleTypes, PTL DEF Spec
=============================================================================

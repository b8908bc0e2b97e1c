----------------------------- MODULE ModelCache -----------------------------
(***************************************************************************)
(* The models in ~/.vectorcode/models: how init, the embedder and the       *)
(* reranker find, download and load them (src/embedder/model_manager.rs,    *)
(* src/reranker/onnx.rs).                                                   *)
(*                                                                         *)
(* The directory is shared by every process of the user.  A name is of a    *)
(* file that a process may have open under a name it no longer has; the     *)
(* contents of a file are the pieces that were written to it.               *)
(***************************************************************************)
EXTENDS Naturals, FiniteSets, Sequences

CONSTANTS
  Process,     \* processes that use one model
  Pieces       \* bound: the writes that a file takes

ASSUME CacheAssumption == Pieces \in Nat \ {0} /\ IsFiniteSet(Process)

\* model.onnx and then tokenizer.json
Parts == {1, 2}
Whole == 1 .. Pieces

VARIABLES
  dir,         \* the file of each name, 0 if there is none
  disk,        \* the contents of each file
  loader,      \* what each process is doing
  met,         \* processes that have downloaded while another one did
  disturbed    \* one of them was stopped before it was done

cacheVars == <<dir, disk, loader, met, disturbed>>

\* Mutant: a file is written under the name it is to have.
InPlace(part) == <<part, "final">>

Tmp(part)   == <<part, "tmp">>
Final(part) == <<part, "final">>
Names       == Parts \X {"tmp", "final"}

Idle == [pc |-> "idle", part |-> 1, file |-> 0, at |-> 1, read |-> <<>>]

IsDownloaded == \A part \in Parts : dir[Final(part)] # 0

\* Files that exist or are open; a new one has another number.
Files == {dir[n] : n \in Names} \cup {loader[p].file : p \in Process}
Numbers == 1 .. Cardinality(Names) + Cardinality(Process) + 1
NewFile == CHOOSE i \in Numbers : i \notin Files

Downloading(p) == loader[p].pc \in {"fetch", "create", "write", "rename", "remove"}

-----------------------------------------------------------------------------
CacheInit ==
  /\ dir = [n \in Names |-> 0]
  /\ disk = [i \in Numbers |-> {}]
  /\ loader = [p \in Process |-> Idle]
  /\ met = {}
  /\ disturbed = FALSE

\* from_cache_with_timeout, init: what is there is not downloaded.
BeginLoading(p) ==
  /\ loader[p].pc = "idle"
  /\ loader' = [loader EXCEPT ![p].pc = IF IsDownloaded THEN "load" ELSE "fetch"]
  /\ LET others == {q \in Process : ~IsDownloaded /\ Downloading(q)}
     IN met' = (met \ {p}) \cup others \cup {q \in {p} : others # {}}
  /\ UNCHANGED <<dir, disk, disturbed>>

\* fetch_with_progress: the whole body in memory; an answer that ends early is
\* an error.
Fetch(p) ==
  /\ loader[p].pc = "fetch"
  /\ loader' = [loader EXCEPT ![p].pc = "create"]
  /\ UNCHANGED <<dir, disk, met, disturbed>>

\* File::create: a file with this name is emptied, whoever has it open.
CreateTmp(p) ==
  /\ loader[p].pc = "create"
  /\ LET name == Tmp(loader[p].part)
         file == IF dir[name] = 0 THEN NewFile ELSE dir[name]
     IN /\ dir' = [dir EXCEPT ![name] = file]
        /\ disk' = [disk EXCEPT ![file] = {}]
        /\ loader' = [loader EXCEPT ![p].pc = "write", ![p].file = file, ![p].at = 1]
  /\ UNCHANGED <<met, disturbed>>

\* write_all at the process's own offset, and sync_all.
WritePiece(p) ==
  /\ loader[p].pc = "write"
  /\ disk' = [disk EXCEPT ![loader[p].file] = @ \cup {loader[p].at}]
  /\ loader' = [loader EXCEPT ![p].at = @ + 1,
                              ![p].pc = IF loader[p].at = Pieces THEN "rename" ELSE "write",
                              ![p].file = IF loader[p].at = Pieces THEN 0 ELSE @]
  /\ UNCHANGED <<dir, met, disturbed>>

\* rename: of whatever has the name now.
Rename(p) ==
  /\ loader[p].pc = "rename"
  /\ LET part == loader[p].part
     IN IF dir[Tmp(part)] = 0
        THEN /\ loader' = [loader EXCEPT ![p].pc = "remove"]
             /\ UNCHANGED dir
        ELSE /\ dir' = [dir EXCEPT ![Final(part)] = dir[Tmp(part)], ![Tmp(part)] = 0]
             /\ loader' = [loader EXCEPT ![p].pc = IF part = 1 THEN "fetch" ELSE "load",
                                         ![p].part = IF part = 1 THEN 2 ELSE 1]
  /\ UNCHANGED <<disk, met, disturbed>>

\* The clean-up after a rename that failed, and the error.
RemoveTmp(p) ==
  /\ loader[p].pc = "remove"
  /\ dir' = [dir EXCEPT ![Tmp(loader[p].part)] = 0]
  /\ loader' = [loader EXCEPT ![p] = Idle]
  /\ UNCHANGED <<disk, met, disturbed>>

\* load_model: both are there, and are read one after the other.
ReadPart(p) ==
  LET part == loader[p].part
  IN /\ loader[p].pc = "load"
     /\ dir[Final(part)] # 0
     /\ loader' = [loader EXCEPT ![p].read = Append(@, disk[dir[Final(part)]]),
                                 ![p].pc = IF part = 1 THEN "load" ELSE "open",
                                 ![p].part = 3 - part]
     /\ UNCHANGED <<dir, disk, met, disturbed>>

\* The session is made on a thread of its own, of contents that parse, in time.
OpenSession(p) ==
  /\ loader[p].pc = "open"
  /\ loader[p].read = <<Whole, Whole>>
  /\ loader' = [loader EXCEPT ![p] = [Idle EXCEPT !.pc = "ready"]]
  /\ UNCHANGED <<dir, disk, met, disturbed>>

\* The process ends or is killed, or a request, a write, the parsing of the
\* contents or the thread fails.
Interrupt(p) ==
  /\ loader[p].pc # "idle"
  /\ loader' = [loader EXCEPT ![p] = Idle]
  /\ disturbed' = (disturbed \/ (p \in met /\ Downloading(p)))
  /\ UNCHANGED <<dir, disk, met>>

\* Nothing is said of what follows a disturbed download, and it is left out.
CacheNext ==
  ~disturbed /\ \E p \in Process :
    \/ BeginLoading(p) \/ Fetch(p) \/ CreateTmp(p) \/ WritePiece(p) \/ Rename(p)
    \/ RemoveTmp(p) \/ ReadPart(p) \/ OpenSession(p) \/ Interrupt(p)

CacheSpec == CacheInit /\ [][CacheNext]_cacheVars

-----------------------------------------------------------------------------
\* What is in the cache under its name is whole, wherever a download was
\* stopped, so that is_downloaded does not take a part for a model for ever.
\* Two downloads at a time write to one temporary file, and one may rename what
\* the other has not written yet: but then the other is still writing, and it
\* is whole when that is done, unless one of them was stopped
\* (model_manager.rs:78-82, 111-138).
CachedIsWhole ==
  ~disturbed =>
    \A part \in Parts :
      \/ dir[Final(part)] = 0
      \/ disk[dir[Final(part)]] = Whole
      \/ \E p \in Process : Downloading(p) /\ loader[p].file = dir[Final(part)]
=============================================================================

------------------------------- MODULE Search -------------------------------
(***************************************************************************)
(* One search, by the MCP tool vec_search over several workspaces or by    *)
(* `vectorcode search` over one.  A workspace is asked by one or two       *)
(* retrievers, which may fail, and their lists are merged by score or      *)
(* fused by rank; the command line may have the fused list reranked by a   *)
(* model that may hang.  Meanwhile a file is edited and synced.            *)
(*                                                                         *)
(* A chunk is known by what search tells chunks apart with, path and       *)
(* lines: two workspaces may have the same.  Scores are small numbers,     *)
(* more for better; 1 / (k + rank) is scaled to a whole number.            *)
(***************************************************************************)
EXTENDS Naturals, Sequences, FiniteSets, SequencesExt, FiniteSetsExt

CONSTANTS
  Key,         \* (file_path, start_line, end_line) of chunks, one for each file
  KeyOrder,    \* the keys, in the order their rows are stored
  Matching,    \* the keys that pass a filter by language or path
  Workspace,   \* the workspaces' names, in the order of the map
  Row,         \* what an index may have of a key: [vec, words, live]
  Contents,    \* what the indexes may hold when the search begins
  PlainRow,    \* the row every key has while a file is edited
  Options,     \* records [limit, threshold, filter]
  Edited,      \* <<workspace, key>> of the file that is edited
  RrfK, TopK,  \* SearchConfig: rrf_k and rerank.top_k
  Scale,       \* what makes 1 / (RrfK + rank) a whole number
  Blur,        \* fused scores no further apart may be the same as f32
  MinFetch,    \* 50 in the code
  FetchFactor  \* 5 in the code

\* ranks of chunks in the lists of all workspaces
MaxRank == Len(Workspace) * Len(KeyOrder)

ASSUME SearchAssumption ==
  /\ KeyOrder \in Seq(Key) /\ Range(KeyOrder) = Key /\ IsInjective(KeyOrder)
  /\ Workspace \in Seq(Range(Workspace)) /\ Workspace # <<>>
  /\ Row \subseteq [vec : Nat, words : Nat, live : BOOLEAN] /\ PlainRow \in Row
  /\ Contents \subseteq [Range(Workspace) -> [Key -> Row]]
  /\ Options \subseteq [limit : Nat, threshold : Nat, filter : {"none", "path", "language"}]
  /\ Options # {}
  /\ RrfK \in Nat /\ TopK \in Nat /\ MinFetch \in Nat /\ FetchFactor \in Nat
  /\ Blur \in Nat /\ Scale \in Nat \ {0} /\ \A rank \in 1 .. MaxRank : Scale % (RrfK + rank) = 0

VARIABLES
  rows,    \* [workspace -> [key -> Row]]: what the query finds there
  edit,    \* the edited file: "none", "edited", "noted", "synced", "cleared"
  ask,     \* [client, mode, opt]: the request; client "none" before it
  at,      \* where the search is
  turn,    \* number of the workspace that is asked
  got,     \* lists of the workspace that is asked: [dense, sparse]
  began,   \* edit when the workspace's turn began
  all,     \* lists of the workspaces so far: [dense, sparse]
  pending, \* pending_files: the files the watchers had on their lists
  fused,   \* the merged list
  result   \* what the client gets

vars == <<rows, edit, ask, at, turn, got, began, all, pending, fused, result>>

-----------------------------------------------------------------------------
(* Lists. *)

Take(s, n) == SubSeq(s, 1, IF Len(s) <= n THEN Len(s) ELSE n)

\* the elements of s at the places P, by the scores of the places, and as they are where these are equal
Ahead(score, i, j) == score[i] > score[j] \/ (score[i] = score[j] /\ i < j)
Picked(s, P, score) ==
  LET Nth(n) == CHOOSE j \in P : Cardinality({i \in P : Ahead(score, i, j)}) = n - 1
  IN SubSeq([n \in 1 .. Cardinality(P) |-> s[Nth(n)]], 1, Cardinality(P))  \* has TLC evaluate it once

\* those of s that are in T
KeepIn(s, T) == Picked(s, {i \in DOMAIN s : s[i] \in T}, [i \in DOMAIN s |-> 0])

\* a stable sort by the score of the elements, best first
BestFirst(s, score) == Picked(s, DOMAIN s, [i \in DOMAIN s |-> score[s[i]]])

\* the rank 1 .. n of a chunk counts in proportion to 1 / (k + rank)
Weight(rank) == Scale \div (RrfK + rank)

Keys(lists) == UNION {{l[i].key : i \in DOMAIN l} : l \in Range(lists)}

\* every occurrence counts, those of other workspaces too; both callers have two lists
Votes(l, k) ==
  LET sum[rank \in 0 .. Len(l)] ==
        IF rank = 0 THEN 0
        ELSE sum[rank - 1] + (IF l[rank].key = k THEN Weight(rank) ELSE 0)
  IN sum[Len(l)]
RrfScore(lists, k) == Votes(lists[1], k) + Votes(lists[2], k)

\* the first list's first occurrence of a key gives the result's other fields
Position(l, k) == Min({i \in DOMAIN l : l[i].key = k})
FirstOf(lists, k) ==
  LET l == lists[IF k \in Keys(<<lists[1]>>) THEN 1 ELSE 2] IN l[Position(l, k)]

RrfFuseWorstFirst(lists, limit) ==
  {Take([i \in DOMAIN p |-> [FirstOf(lists, p[i]) EXCEPT !.score = RrfScore(lists, p[i])]], limit) :
     p \in {q \in SetToSeqs(Keys(lists)) :
              \A i, j \in DOMAIN q : i < j => RrfScore(lists, q[i]) <= RrfScore(lists, q[j]) + Blur}}

(* rrf_fuse: the scores are cast to f32 before the entries of a hash map   *)
(* are sorted, which leaves equal ones in any order, at the limit too.     *)
RrfFuse(lists, limit) ==
  {Take([i \in DOMAIN p |-> [FirstOf(lists, p[i]) EXCEPT !.score = RrfScore(lists, p[i])]], limit) :
     p \in {q \in SetToSeqs(Keys(lists)) :
              \A i, j \in DOMAIN q : i < j => RrfScore(lists, q[i]) + Blur >= RrfScore(lists, q[j])}}

\* sorted by score and cut, as vec_search does with the lists of workspaces
Sorted(list) == BestFirst(list, [x \in Range(list) |-> x.score])
Merge(list, limit) == Take(Sorted(list), limit)

-----------------------------------------------------------------------------
(* Retrievers. *)

Passes(opt, k) == opt.filter = "none" \/ k \in Matching

Item(w, k, score) ==
  [repo |-> w, key |-> k, score |-> score,
   due |-> <<w, k>> = Edited /\ began = "noted" /\ edit = "noted"]

FetchLimit(opt) ==
  Max({MinFetch, IF opt.filter = "none" THEN opt.limit ELSE FetchFactor * opt.limit})

Vectors(w) == KeepIn(KeyOrder, {k \in Key : rows[w][k].vec > 0})
Passing(opt) == {k \in Key : Passes(opt, k)}

(* search_similar: the nearest vectors are taken first; the join drops     *)
(* those without a chunk, then the path and the threshold are looked at.   *)
(* The outer SELECT has no ORDER BY.  The rows come in the order of the    *)
(* subquery because SQLite runs it first, and then looks for the mapping   *)
(* and the chunk of each of its rows.                                      *)
SearchSimilar(w, opt) ==
  KeepIn(Take(BestFirst(Vectors(w), [k \in Key |-> rows[w][k].vec]), FetchLimit(opt)),
         {k \in Key : /\ rows[w][k].live
                      /\ rows[w][k].vec >= opt.threshold
                      /\ opt.filter = "path" => k \in Matching})

DenseLimitFirst(w, opt) ==
  LET found == KeepIn(Take(SearchSimilar(w, opt), opt.limit), Passing(opt))
  IN [i \in DOMAIN found |-> Item(w, found[i], rows[w][found[i]].vec)]

Dense(w, opt) ==
  LET found == Take(KeepIn(SearchSimilar(w, opt), Passing(opt)), opt.limit)
  IN [i \in DOMAIN found |-> Item(w, found[i], rows[w][found[i]].vec)]

\* search_sparse: filters inside the query, before its LIMIT
Sparse(w, opt) ==
  LET hits == KeepIn(KeyOrder, {k \in Passing(opt) : rows[w][k].words > 0})
      found == Take(BestFirst(hits, [k \in Key |-> rows[w][k].words]), opt.limit)
  IN [i \in DOMAIN found |-> Item(w, found[i], rows[w][found[i]].words)]

Hybrid == {"hybrid", "hybrid-rerank"}
UsesDense == ask.mode \in Hybrid \cup {"dense"}
UsesSparse == ask.mode \in Hybrid \cup {"sparse"}

-----------------------------------------------------------------------------
(* The request. *)

Modes == {"dense", "sparse", "hybrid", "hybrid-rerank"}

(* vec_search: routing overrides the mode.  A structural query goes to the *)
(* graph, see module Graph; an unknown word is an error.                   *)
RoutedMode(routing, structural, mode) ==
  CASE routing = "hybrid" -> "hybrid"
    [] routing = "graph" -> "graph"
    [] routing = "auto" /\ structural -> "graph"
    [] routing = "unset" \/ (routing = "auto" /\ ~structural) ->
         (IF mode = "unset" THEN "dense" ELSE mode)
    [] OTHER -> "invalid"

NoList == [state |-> "none", list |-> <<>>]
Failed == [state |-> "failed", list |-> <<>>]
NoLists == [dense |-> <<>>, sparse |-> <<>>]

Init ==
  /\ \/ edit = "none" /\ rows \in Contents
     \/ edit = "quiet" /\ rows = [w \in Range(Workspace) |-> [k \in Key |-> PlainRow]]
  /\ ask = [client |-> "none", mode |-> "dense", opt |-> CHOOSE o \in Options : TRUE]
  /\ at = "ask" /\ turn = 1
  /\ got = [dense |-> NoList, sparse |-> NoList] /\ began = "none"
  /\ all = NoLists /\ pending = {} /\ fused = <<>> /\ result = <<>>

AskMcp ==
  /\ at = "ask"
  /\ \E routing \in {"unset", "auto", "hybrid", "other"}, structural \in BOOLEAN,
        mode \in Modes \cup {"unset"}, opt \in Options :
       LET m == RoutedMode(routing, structural, mode)
       IN /\ m # "graph"
          /\ ask' = [client |-> "mcp", mode |-> IF m = "invalid" THEN "dense" ELSE m, opt |-> opt]
          /\ at' = IF m = "invalid" THEN "failed" ELSE "turn"
  /\ UNCHANGED <<rows, edit, turn, got, began, all, pending, fused, result>>

(* `vectorcode search`: an index without metadata is refused, and one of   *)
(* another provider or another width is too, except for a sparse search,   *)
(* which needs no vectors.  An embedder that cannot be made is replaced by *)
(* a mock of the index's width, whose query any row may be near to.        *)
AskCli ==
  /\ at = "ask"
  /\ \E mode \in Modes, opt \in Options, hasMeta, matches, enabled \in BOOLEAN :
       /\ ask' = [client |-> "cli", mode |-> mode, opt |-> opt]
       /\ at' = IF ~hasMeta \/ (mode # "sparse" /\ ~matches) THEN "failed"
                ELSE IF mode = "hybrid-rerank" /\ enabled THEN "load" ELSE "plain"
  /\ UNCHANGED <<rows, edit, turn, got, began, all, pending, fused, result>>

(* build_strategy: the model may be missing, or its library may hang, for  *)
(* a minute at most.                                                       *)
LoadReranker ==
  /\ at = "load"
  /\ at' \in {"model", "plain"}
  /\ UNCHANGED <<rows, edit, ask, turn, got, began, all, pending, fused, result>>

-----------------------------------------------------------------------------
(* vec_search's loop, and DenseSearcher and SparseSearcher joined.  The    *)
(* command line has one turn and keeps its reranker in `at`.               *)

Asking == at \in {"plain", "model", "asked"}

Listed(w) == {k \in Key : <<w, k>> = Edited /\ edit \in {"noted", "synced"}}

BeginTurnFresh ==
  /\ at = "turn" /\ turn <= Len(Workspace)
  /\ at' = "asked" /\ began' = edit
  /\ pending' = Listed(Workspace[turn])
  /\ UNCHANGED <<rows, edit, ask, turn, got, all, fused, result>>

BeginTurn ==
  /\ at = "turn" /\ turn <= Len(Workspace)
  /\ at' = "asked" /\ began' = edit
  /\ pending' = pending \cup Listed(Workspace[turn])
  /\ UNCHANGED <<rows, edit, ask, turn, got, all, fused, result>>

RetrieveDense ==
  /\ Asking /\ UsesDense /\ got.dense.state = "none"
  /\ \/ got' = [got EXCEPT !.dense = Failed]
     \/ got' = [got EXCEPT !.dense = [state |-> "ok", list |-> Dense(Workspace[turn], ask.opt)]]
  /\ UNCHANGED <<rows, edit, ask, at, turn, began, all, pending, fused, result>>

RetrieveSparse ==
  /\ Asking /\ UsesSparse /\ got.sparse.state = "none"
  /\ \/ got' = [got EXCEPT !.sparse = Failed]
     \/ got' = [got EXCEPT !.sparse = [state |-> "ok", list |-> Sparse(Workspace[turn], ask.opt)]]
  /\ UNCHANGED <<rows, edit, ask, at, turn, began, all, pending, fused, result>>

RetrievedWell ==
  /\ UsesDense => got.dense.state = "ok"
  /\ UsesSparse => got.sparse.state = "ok"

Retrieved ==
  /\ UsesDense => got.dense.state # "none"
  /\ UsesSparse => got.sparse.state # "none"

\* a retriever that failed adds nothing
EndTurn ==
  /\ at = "asked" /\ Retrieved
  /\ all' = [dense |-> all.dense \o got.dense.list, sparse |-> all.sparse \o got.sparse.list]
  /\ got' = [dense |-> NoList, sparse |-> NoList]
  /\ turn' = turn + 1 /\ at' = "turn"
  /\ UNCHANGED <<rows, edit, ask, began, pending, fused, result>>

FinishMcp ==
  /\ at = "turn" /\ turn > Len(Workspace)
  /\ IF ask.mode \in Hybrid
     THEN \E dense \in {Sorted(all.dense)}, sparse \in {Sorted(all.sparse)} :
            fused' \in RrfFuse(<<dense, sparse>>, ask.opt.limit)
     ELSE fused' = Merge(all.dense \o all.sparse, ask.opt.limit)
  /\ result' = fused' /\ at' = "answered"
  /\ UNCHANGED <<rows, edit, ask, turn, got, began, all, pending>>

(* HybridSearcher: both lists are fused, one alone is taken as it is.      *)
FuseAlways(d, s, limit) ==
  IF d.state = "failed" \/ s.state = "failed" THEN {<<>>} ELSE RrfFuse(<<d.list, s.list>>, limit)

Fuse(d, s, limit) ==
  IF d.state = "failed" THEN {Take(s.list, limit)}
  ELSE IF s.state = "failed" THEN {Take(d.list, limit)}
  ELSE RrfFuse(<<d.list, s.list>>, limit)

FinishCli ==
  /\ at \in {"plain", "model"} /\ Retrieved
  /\ all' = [dense |-> got.dense.list, sparse |-> got.sparse.list]
  /\ IF \A l \in Range(got) : l.state # "ok"
     THEN at' = "failed" /\ UNCHANGED <<fused, result>>
     ELSE /\ IF ask.mode \in Hybrid
             THEN fused' \in Fuse(got.dense, got.sparse, ask.opt.limit)
             ELSE fused' = got.dense.list \o got.sparse.list
          /\ IF at = "model" /\ fused' # <<>> /\ TopK > 0
             THEN at' = "rerank" /\ UNCHANGED result
             ELSE at' = "answered" /\ result' = fused'
  /\ UNCHANGED <<rows, edit, ask, turn, got, began, pending>>

ReorderedHead(list, p) == [i \in DOMAIN p |-> list[p[i]]]

\* the scores come sorted: the candidates in the order of p
Reordered(list, p) == [i \in DOMAIN p |-> list[p[i]]] \o SubSeq(list, Len(p) + 1, Len(list))

(* apply_reranking waits for rerank() within a timeout.  Its only await is *)
(* for the session, which is free; from there to the scores the future     *)
(* does not give control back, so nobody looks at the timer before it is   *)
(* done, and then the scores are there.                                    *)
AskModel ==
  /\ at = "rerank" /\ at' = "inference"
  /\ UNCHANGED <<rows, edit, ask, turn, got, began, all, pending, fused, result>>

Rerank ==
  /\ at = "inference"
  /\ \E p \in SetToSeqs(1 .. Min({TopK, Len(fused)})) : result' = Reordered(fused, p)
  /\ at' = "answered"
  /\ UNCHANGED <<rows, edit, ask, turn, got, began, all, pending, fused>>

\* an error of the reranker
KeepOrder ==
  /\ at = "inference"
  /\ result' = fused /\ at' = "answered"
  /\ UNCHANGED <<rows, edit, ask, turn, got, began, all, pending, fused>>

-----------------------------------------------------------------------------
(* The file that is edited: see AutoSync and Workspaces. *)

EditStep ==
  /\ edit' = CASE edit = "quiet" -> "edited" [] edit = "edited" -> "noted"
               [] edit = "noted" -> "synced" [] edit = "synced" -> "cleared"
               [] OTHER -> "none"
  /\ edit \notin {"none", "cleared"}
  /\ UNCHANGED <<rows, ask, at, turn, got, began, all, pending, fused, result>>

ServeStep ==
  \/ LoadReranker \/ BeginTurn \/ RetrieveDense \/ RetrieveSparse \/ EndTurn
  \/ FinishMcp \/ FinishCli \/ AskModel

Next == AskMcp \/ AskCli \/ ServeStep \/ Rerank \/ KeepOrder \/ EditStep

(* Requests to retrievers end, and so does loading the model, on a thread   *)
(* of its own with a timeout.  The model need not answer.                  *)
Spec == Init /\ [][Next]_vars /\ WF_vars(ServeStep)

-----------------------------------------------------------------------------
(* Properties. *)

Lists ==
  IF ask.client = "mcp" THEN <<Sorted(all.dense), Sorted(all.sparse)>> ELSE <<all.dense, all.sparse>>

Precedes(l, a, b) ==
  a \in Keys(<<l>>) /\ (b \in Keys(<<l>>) => Position(l, a) < Position(l, b))

AtMostOnce(l, k) == \A i, j \in DOMAIN l : l[i].key = k /\ l[j].key = k => i = j

(* What both lists have above another chunk gets a higher score, and is    *)
(* not fused below it, nor cut off when the other one is kept, however the *)
(* map is sorted.  A chunk that a list has several times, as one whose     *)
(* path and lines several workspaces have, is excepted: every occurrence   *)
(* adds to its score (fusion.rs:40), and may lift it above what is ahead   *)
(* of it in both lists.  So are scores that f32 may not tell apart.        *)
FusionKeepsOrder ==
  /\ at \in {"rerank", "inference", "answered"} /\ ask.mode \in Hybrid
  /\ ask.client = "cli" => got.dense.state = "ok" /\ got.sparse.state = "ok"
  =>
    \A a, b \in Key :
      a # b /\ (\A i \in 1 .. 2 : Precedes(Lists[i], a, b) /\ AtMostOnce(Lists[i], b)) =>
        /\ RrfScore(Lists, a) > RrfScore(Lists, b)
        /\ \/ b \in Keys(<<fused>>) =>
                a \in Keys(<<fused>>) /\ Position(fused, a) < Position(fused, b)
           \/ RrfScore(Lists, a) <= RrfScore(Lists, b) + Blur

(* A dense search answers with the nearest chunks: none that passes the    *)
(* filters and is nearer than one it returns is missing, and none at all   *)
(* when the vectors it fetched were all there are.                         *)
DenseMissesNothing ==
  Asking /\ got.dense.state = "ok" =>
    LET w == Workspace[turn]
        found == Keys(<<got.dense.list>>)
    IN \A k \in Key \ found :
         rows[w][k].live /\ rows[w][k].vec >= Max({1, ask.opt.threshold}) /\ Passes(ask.opt, k) =>
           /\ \A f \in found : rows[w][f].vec >= rows[w][k].vec
           /\ Len(Vectors(w)) <= FetchLimit(ask.opt) => Cardinality(found) = ask.opt.limit

(* One retriever or one workspace that fails does not take away what the   *)
(* others have found, and only a search that found out nothing fails.      *)
FailureKeepsOthers ==
  /\ at = "answered" /\ ask.opt.limit > 0 /\ (all.dense # <<>> \/ all.sparse # <<>>) => result # <<>>
  /\ at = "failed" => all = NoLists

(* Reranking returns every fused chunk, whether the model answers or       *)
(* fails, and leaves those it was not shown behind the others.            *)
RerankKeepsCandidates ==
  at = "answered" =>
    /\ Len(result) = Len(fused) /\ Range(result) = Range(fused)
    /\ \A i \in DOMAIN fused : i > TopK => result[i] = fused[i]

(* A result that was out of date when it was read, of a file that was on   *)
(* the pending list all the while, is named in the staleness banner.       *)
StaleIsFlagged ==
  at = "answered" /\ ask.client = "mcp" =>
    \A i \in DOMAIN result : result[i].due => result[i].key \in pending

(* Every search ends, whatever fails, or is in the reranker's library.     *)
SearchEnds == (at # "ask") ~> (at \in {"answered", "failed", "inference"})

(* "On timeout or error, the reranker is skipped and RRF-ordered results   *)
(* are returned": a model that does not answer does not hold up the search.*)
RerankIsTimed == (at = "rerank") ~> (at = "answered")

(* A search with no filter by workspace searches all of them: what it      *)
(* found in one is not dropped for a chunk of the same path and lines in   *)
(* another, while there is room for it.                                    *)
EveryWorkspaceIsShown ==
  at = "answered" /\ ask.client = "mcp" /\ Len(result) < ask.opt.limit =>
    \A l \in Range(all) : \A i \in DOMAIN l :
      \E j \in DOMAIN result : result[j].repo = l[i].repo /\ result[j].key = l[i].key
=============================================================================

------------------------------ MODULE Quality ------------------------------
(***************************************************************************)
(* How the benchmark measures search: the corpus, the ranking of files out   *)
(* of a ranking of chunks, the measures of a query and the percentiles      *)
(* (src/bench/corpus.rs, runner.rs, metrics.rs).                            *)
(*                                                                         *)
(* A measure is a fraction, kept as its two parts.  A file is a path in a   *)
(* repository; search and the graph may answer anything about the files     *)
(* there are.                                                              *)
(***************************************************************************)
EXTENDS Integers, FiniteSets, SequencesExt

CONSTANTS
  Repos,         \* repositories of the configuration
  Paths,         \* files of a repository: [path, ext, dotGit]
  Extensions,    \* file_extensions
  Scores,        \* scores of chunks
  Grades,        \* grades of a judgement; 0 also for no judgement
  Symbols,       \* symbols that a structural query answers with
  Few, Many,     \* 5 and 10
  MaxChunks,     \* the limit of the search
  Discounts,     \* 1 / log2(i + 1), scaled
  Latencies,     \* what a query may take
  MaxSamples     \* bound: latencies of a sample

ASSUME QualityAssumption ==
  /\ {Few, Many, MaxChunks, MaxSamples} \subseteq Nat \ {0}
  /\ Few <= Many
  /\ Scores \cup Grades \cup Latencies \subseteq Nat
  /\ Discounts \in [1 .. Many -> Nat]
  /\ \A i, j \in 1 .. Many : i < j => Discounts[j] < Discounts[i]
  /\ IsFiniteSet(Repos) /\ IsFiniteSet(Paths) /\ IsFiniteSet(Symbols)

VARIABLES
  corpus,     \* the files, as they are named, and the source files they are
  measured    \* the query or the sample that was measured last

qualityVars == <<corpus, measured>>

-----------------------------------------------------------------------------
(* Corpora (corpus.rs). *)

Wanted(p) == Extensions = {} \/ p.ext \in Extensions

\* LocalCorpus takes what there is; GitCorpus leaves .git out.
LocalFiles == {p \in Paths : Wanted(p)}
GitFiles   == {p \in Paths : Wanted(p) /\ ~p.dotGit}

\* prepare: a file is named by its path in the directory it is copied to.
Copies(dir, repo, files) ==
  {[name |-> <<dir, p.path>>, source |-> <<repo, p.path>>] : p \in files}

\* Mutant: the repositories are put in one directory.
MultiCorpusFlat(files) == UNION {Copies(0, r, files[r]) : r \in DOMAIN files}

\* MultiCorpus puts each repository in corpus_<n>.
MultiCorpus(files) == UNION {Copies(r, r, files[r]) : r \in DOMAIN files}

\* build_corpus: one repository or a list of them, local or git; a corpus
\* without files is an error.
PrepareCorpus ==
  /\ corpus = {}
  /\ \E files \in [Repos -> {LocalFiles, GitFiles}] :
       \/ corpus' = MultiCorpus(files)
       \/ \E r \in Repos : corpus' = Copies(0, r, files[r])
  /\ corpus' # {}
  /\ UNCHANGED measured

FileNames == {f.name : f \in corpus}

-----------------------------------------------------------------------------
(* From chunks to files (runner.rs). *)

Best(scores) == CHOOSE s \in scores : \A t \in scores : t <= s

\* Mutant: the chunk that comes last gives the score of its file.
FileScoreOfLast(results, f) ==
  LET is == {i \in DOMAIN results : results[i].file = f}
  IN results[Best(is)].score

\* The highest score of the file's chunks.
FileScore(results, f) ==
  Best({0} \cup {results[i].score : i \in {j \in DOMAIN results : results[j].file = f}})

FilesOf(results) == {results[i].file : i \in DOMAIN results}

\* dedupe_to_file_rank: every order that the sort can leave them in; files of
\* equal scores come in the order of a hash map.
DedupeToFileRank(results) ==
  {rank \in SetToSeqs(FilesOf(results)) :
     \A i, j \in DOMAIN rank :
       i < j => FileScore(results, rank[i]) >= FileScore(results, rank[j])}

-----------------------------------------------------------------------------
(* Measures (metrics.rs). *)

None == <<0, 1>>

Top(predicted, k) == SubSeq(predicted, 1, IF k < Len(predicted) THEN k ELSE Len(predicted))

\* How many of the first k are among those that are wanted.
Found(predicted, wanted, k) ==
  Cardinality({i \in DOMAIN Top(predicted, k) : predicted[i] \in wanted})

\* recall_at_k, symbol_recall_at_k
RecallAtK(predicted, relevant, k) ==
  IF relevant = {} \/ predicted = <<>> THEN None
  ELSE <<Found(predicted, relevant, k), Cardinality(relevant)>>

\* symbol_precision_at_k
PrecisionAtK(predicted, expected, k) ==
  IF predicted = <<>> THEN None ELSE <<Found(predicted, expected, k), k>>

Sum(s) == FoldSeq(LAMBDA x, acc : x + acc, 0, s)

Dcg(gains) == Sum([i \in DOMAIN gains |-> gains[i] * Discounts[i]])

ComputeDcg(predicted, grades, k) ==
  Dcg([i \in DOMAIN Top(predicted, k) |-> grades[predicted[i]]])

\* All files that are judged, by descending grades.
IdealRank(grades) ==
  CHOOSE rank \in SetToSeqs(DOMAIN grades) :
    \A i, j \in DOMAIN rank : i < j => grades[rank[i]] >= grades[rank[j]]

ComputeIdealDcg(grades, k) == ComputeDcg(IdealRank(grades), grades, k)

NdcgAtK(predicted, grades, k) ==
  IF ComputeIdealDcg(grades, k) = 0 THEN None
  ELSE <<ComputeDcg(predicted, grades, k), ComputeIdealDcg(grades, k)>>

ReciprocalRank(predicted, relevant) ==
  LET hits == {i \in DOMAIN predicted : predicted[i] \in relevant}
  IN IF hits = {} THEN None ELSE <<1, CHOOSE i \in hits : \A j \in hits : i <= j>>

\* index_for_quantile: the nearest rank, one-based.
IndexForQuantile(n, percent) == (percent * n + 99) \div 100

\* What ascending order has in the n-th place.
Ascending(samples, n) ==
  CHOOSE x \in Range(samples) :
    /\ Cardinality({i \in DOMAIN samples : samples[i] < x}) < n
    /\ Cardinality({i \in DOMAIN samples : samples[i] <= x}) >= n

\* LatencyPercentiles::from_samples
Percentile(samples, percent) ==
  Ascending(samples, IndexForQuantile(Len(samples), percent))

\* compute_aggregate_metrics: (n - 1) * q, rounded half away from zero.
AggregatePercentile(samples, percent) ==
  Ascending(samples, 1 + ((2 * (Len(samples) - 1) * percent + 100) \div 200))

-----------------------------------------------------------------------------
(* The run. *)

QualityInit == corpus = {} /\ measured = [kind |-> "nothing"]

UpTo(S, n) == UNION {[1 .. m -> S] : m \in 0 .. n}

\* execute_query: search without a threshold, and the measures of the answer.
ExecuteQuery ==
  /\ corpus # {} /\ measured.kind = "nothing"
  /\ \E results \in UpTo([file : FileNames, score : Scores], MaxChunks),
        grades \in [FileNames -> Grades] :
       \E predicted \in DedupeToFileRank(results) :
         LET relevant == {f \in FileNames : grades[f] >= 1}
         IN measured' = [kind |-> "semantic", results |-> results, grades |-> grades,
                         predicted |-> predicted, wanted |-> relevant,
                         few  |-> RecallAtK(predicted, relevant, Few),
                         many |-> RecallAtK(predicted, relevant, Many),
                         ndcg |-> NdcgAtK(predicted, grades, Many),
                         mrr  |-> ReciprocalRank(predicted, relevant)]
  /\ UNCHANGED corpus

\* execute_structural_query: the nodes of the graph, in the order and as often
\* as they come.
ExecuteStructuralQuery ==
  /\ corpus # {} /\ measured.kind = "nothing"
  /\ \E predicted \in UpTo(FileNames \X Symbols, MaxChunks),
        expected \in SUBSET (FileNames \X Symbols) :
       measured' = [kind |-> "structural", predicted |-> predicted, wanted |-> expected,
                    few       |-> RecallAtK(predicted, expected, Few),
                    many      |-> RecallAtK(predicted, expected, Many),
                    precision |-> PrecisionAtK(predicted, expected, Few)]
  /\ UNCHANGED corpus

\* A sample of the store benchmark, or the latencies of the queries: some that
\* took one time, and some that took another.
MeasureLatency ==
  /\ measured.kind = "nothing"
  /\ \E n \in 1 .. MaxSamples, x, y \in Latencies : \E c \in 0 .. n :
       LET samples == [i \in 1 .. n |-> IF i <= c THEN x ELSE y]
       IN measured' = [kind |-> "latency", samples |-> samples,
                       store |-> <<Percentile(samples, 50), Percentile(samples, 95)>>,
                       queries |-> <<AggregatePercentile(samples, 50),
                                     AggregatePercentile(samples, 95)>>]
  /\ UNCHANGED corpus

NextQuery ==
  /\ measured.kind # "nothing"
  /\ measured' = [kind |-> "nothing"]
  /\ UNCHANGED corpus

QualityNext ==
  PrepareCorpus \/ ExecuteQuery \/ ExecuteStructuralQuery \/ MeasureLatency \/ NextQuery

QualitySpec == QualityInit /\ [][QualityNext]_qualityVars

-----------------------------------------------------------------------------
(* Properties. *)

Leq(a, b) == a[1] * b[2] <= b[1] * a[2]
One       == <<1, 1>>

\* What a file is found by: its best chunk.
FoundBy(f, s) ==
  \E i \in DOMAIN measured.results :
    measured.results[i].file = f /\ measured.results[i].score >= s

\* No file outside of the first k was found by a better chunk than one inside.
Ahead(k) ==
  LET p == measured.predicted
  IN \A i, j \in DOMAIN p : i <= k /\ k < j =>
       \A s \in Scores : FoundBy(p[j], s) => FoundBy(p[i], s)

\* Whatever the search answers, and however often it answers with a file, the
\* measures are fractions: the first few find no more than the first many, nDCG
\* is 1 only for a ranking without a lower grade ahead of a higher one, and they
\* count the files whose best chunks are best; names do not mix the files of two
\* repositories up; and a percentile is the least sample that so many samples
\* are not above.  Excepted is the recall of symbols when the graph answers with
\* one more than once (bench/runner.rs:111-280, metrics.rs:105-241).
MeasuresAreFractions ==
  /\ \A f, g \in corpus : f.name = g.name => f = g
  /\ measured.kind = "semantic" =>
       /\ Leq(measured.few, measured.many) /\ Leq(measured.many, One)
       /\ Leq(measured.ndcg, One) /\ Leq(measured.mrr, One)
       /\ Ahead(Few) /\ Ahead(Many)
       /\ measured.ndcg[1] = measured.ndcg[2] =>
            \A i, j \in 1 .. Len(Top(measured.predicted, Many)) : i < j =>
              measured.grades[measured.predicted[i]] >= measured.grades[measured.predicted[j]]
  /\ measured.kind = "structural" =>
       /\ Leq(measured.few, measured.many) /\ Leq(measured.precision, One)
       /\ IsInjective(measured.predicted) => Leq(measured.many, One)
  /\ measured.kind = "latency" =>
       /\ measured.queries[1] <= measured.queries[2]
       /\ \A q \in {<<50, measured.store[1]>>, <<95, measured.store[2]>>} :
            LET upTo(x) == Cardinality({i \in DOMAIN measured.samples : measured.samples[i] <= x})
                needed  == q[1] * Len(measured.samples)
            IN /\ 100 * upTo(q[2]) >= needed
               /\ \A x \in Range(measured.samples) : 100 * upTo(x) >= needed => q[2] <= x
=============================================================================

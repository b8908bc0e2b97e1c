------------------------------- MODULE Bench -------------------------------
(***************************************************************************)
(* The regression gates: benchmark --compare for the quality of search and  *)
(* bench-store --compare for the store (src/cli/benchmark.rs,               *)
(* bench_store.rs, src/bench/verdict.rs, store_bench.rs).                   *)
(*                                                                         *)
(* Quality and times are measured in thousandths.  The program computes     *)
(* with f64: a difference that is exactly the tolerance may be less than it *)
(* there, as 0.11 - 0.1 < 0.01 is, and RoundsIn holds the pairs of values   *)
(* for which it is.  A corpus, its queries and what is measured may be      *)
(* anything; the baseline file may be written at any time, as by a run that *)
(* records a new one.                                                       *)
(***************************************************************************)
EXTENDS Integers, FiniteSets, SequencesExt

CONSTANTS
  Corpora,      \* corpora of the configuration
  Bases,        \* values that metrics have
  Offsets,      \* how far a run may be off
  SloLimit,     \* --slo-secs
  RoundsIn      \* <<current, base, tolerance>> that are off by the tolerance,
                \* and by less than it in f64

ASSUME BenchAssumption ==
  /\ IsFiniteSet(Corpora)
  /\ Bases \subseteq Nat /\ Offsets \subseteq Int /\ SloLimit \in Nat

IrMetrics     == {"recall_at_5", "recall_at_10", "ndcg_at_10", "mrr"}
SymbolMetrics == {"symbol_recall_at_5", "symbol_recall_at_10", "symbol_precision_at_5"}
StoreMetrics  == {"indexing_secs", "peak_rss_bytes", "disk_size_bytes", "query_p95_ms"}

VARIABLES
  baseline,   \* the file that --compare names
  bench,      \* the command
  compared    \* history: the comparisons it has made, as <<corpus, how close>>

benchVars == <<baseline, bench, compared>>

-----------------------------------------------------------------------------
(* Comparing (verdict.rs). *)

\* The tolerance of a metric: 0.01 either way, or growth in percent.
Tolerance(m) == CASE m \in IrMetrics \cup SymbolMetrics -> [absolute |-> 10]
                  [] m = "indexing_secs" -> [relative |-> 50]
                  [] m = "query_p95_ms" -> [relative |-> 100]
                  [] m \in {"peak_rss_bytes", "disk_size_bytes"} -> [relative |-> 20]

\* evaluate_metric: less than the tolerance in f64.  An improvement is a
\* regression too where the tolerance is absolute.
EvaluateMetric(current, base, t) ==
  LET delta  == current - base
      rounds == <<current, base, t>> \in RoundsIn
  IN IF "absolute" \in DOMAIN t
     THEN \/ -t.absolute < delta /\ delta < t.absolute
          \/ rounds /\ delta \in {-t.absolute, t.absolute}
     ELSE IF base = 0 THEN delta = 0
          ELSE \/ delta * 100 < base * t.relative
               \/ rounds /\ delta * 100 = base * t.relative

\* compare_to_baseline, Comparison::passed
Passed(current, base) ==
  /\ DOMAIN current = DOMAIN base
  /\ \A m \in DOMAIN current : EvaluateMetric(current[m], base[m], Tolerance(m))

\* The metrics of the other kind are 0.
WithZeros(values) ==
  [m \in IrMetrics \cup SymbolMetrics |-> IF m \in DOMAIN values THEN values[m] ELSE 0]

\* IrBaseline::to_benchmark_result, StructuralBaseline::to_benchmark_result
ToBenchmarkResult(b) == WithZeros(b.values)

\* validate_baseline: it is there, is JSON, and its header is of version 1 and
\* names a corpus and an embedder.  Nothing compares these two with the run's.
ValidBaseline == baseline.is # "invalid"

-----------------------------------------------------------------------------
(* What a run measures. *)

Uniform(metrics, v) == [m \in metrics |-> v]

\* Values that are the same but for one metric.
OffIn(metrics, v) ==
  {[Uniform(metrics, v) EXCEPT ![m] = v + o] : m \in metrics, o \in {x \in Offsets : v + x >= 0}}

\* compute_aggregate_metrics: a set of queries is semantic or structural, and
\* the metrics of the other kind are 0.
BenchmarkResults ==
  {WithZeros(r) : r \in UNION {OffIn(f, v) : f \in {IrMetrics, SymbolMetrics}, v \in Bases}}

\* run_store_benchmark; without a sample the p95 is 0.
StoreReports ==
  LET all == UNION {OffIn(StoreMetrics, v) : v \in Bases}
  IN all \cup {[r EXCEPT !["query_p95_ms"] = 0] : r \in all}

SloPassed(report) == report["indexing_secs"] <= SloLimit

\* The corpus of the header is any: the values are compared all the same.
Baselines ==
  LET Kind(is, metrics) ==
        {[is |-> is, corpus |-> c, values |-> Uniform(metrics, v)] : c \in Corpora, v \in Bases}
  IN {[is |-> "invalid"]} \cup Kind("ir", IrMetrics) \cup Kind("structural", SymbolMetrics)
     \cup Kind("store", StoreMetrics)

-----------------------------------------------------------------------------
BenchInit == /\ baseline \in Baselines
             /\ bench = [pc |-> "idle"]
             /\ compared = {}

WriteBaseline == /\ baseline' \in Baselines \ {baseline}
                 /\ UNCHANGED <<bench, compared>>

Exit(code) == bench' = [pc |-> "exited", args |-> bench.args, code |-> code]
Goto(pc)   == bench' = [bench EXCEPT !.pc = pc]

\* A command, and the corpora it is to run on: all of them are taken in any
\* order.  Only benchmark has search modes.
BeginBench ==
  /\ bench.pc = "idle"
  /\ \E store, compare, mock, allModes \in BOOLEAN,
        cs \in {<<c>> : c \in Corpora} \cup SetToSeqs(Corpora) :
       /\ store => ~allModes /\ Len(cs) = 1
       /\ bench' = [pc |-> "config", corpora |-> cs, worst |-> FALSE,
                    args |-> [store |-> store, compare |-> compare, mock |-> mock,
                              allModes |-> allModes, corpora |-> Range(cs)]]
  /\ UNCHANGED <<baseline, compared>>

\* The corpus configuration, the corpus and the backend of bench-store.
LoadCorpusConfig ==
  /\ bench.pc = "config"
  /\ Goto("embedder") \/ Exit(1)
  /\ UNCHANGED <<baseline, compared>>

\* The embedder of the configuration or, but for a comparison, a mock.
MakeEmbedder ==
  /\ bench.pc = "embedder"
  /\ \/ Goto("validate")
     \/ ~bench.args.mock /\ bench.args.compare /\ Exit(1)
  /\ UNCHANGED <<baseline, compared>>

\* The baseline, before anything is indexed; and the modes are parsed.
ValidateUpFront ==
  /\ bench.pc = "validate"
  /\ \/ (bench.args.compare => ValidBaseline) /\ Goto("run")
     \/ Exit(1)
  /\ UNCHANGED <<baseline, compared>>

-----------------------------------------------------------------------------
(* benchmark *)

\* What the command knows once it has a result.
Measured(r) ==
  [pc |-> "output", args |-> bench.args, corpora |-> bench.corpora, worst |-> bench.worst,
   result |-> r]

\* The next corpus: built, its queries loaded, indexed and searched, with one
\* mode or with all of them.
RunBenchmark ==
  /\ bench.pc = "run" /\ ~bench.args.store /\ bench.corpora # <<>>
  /\ \/ \E r \in BenchmarkResults :
          bench' = Measured(r)
     \/ Exit(1)
  /\ UNCHANGED <<baseline, compared>>

NextCorpus(worst) ==
  bench' = [pc |-> "run", args |-> bench.args, corpora |-> Tail(bench.corpora), worst |-> worst]

\* output_single_result, output_multi_results: only a single mode is compared.
OutputResult ==
  /\ bench.pc = "output" /\ ~bench.args.store
  /\ \/ IF bench.args.compare /\ ~bench.args.allModes THEN Goto("compare")
        ELSE NextCorpus(bench.worst)
     \/ Exit(1)
  /\ UNCHANGED <<baseline, compared>>

\* Mutant: the corpus that comes last decides.
WorstOf(regressed) == regressed

Worst(regressed) == bench.worst \/ regressed

\* The tolerances that the documentation of the baselines gives
\* (benchmarks/baseline/SCHEMA.md:87-96): 0.01 either way, so many tenths of
\* the baseline.
Tenths == [indexing_secs |-> 15, peak_rss_bytes |-> 12, disk_size_bytes |-> 12,
           query_p95_ms |-> 20]

WithinTolerance(m, current, base) ==
  IF m \in StoreMetrics
  THEN current * 10 < base * Tenths[m] \/ (current = 0 /\ base = 0)
  ELSE current \in base - 9 .. base + 9

BeyondTolerance(m, current, base) ==
  IF m \in StoreMetrics THEN current * 10 > base * Tenths[m]
                        ELSE current \notin base - 10 .. base + 10

HowClose(current, base) ==
  CASE \A m \in DOMAIN current : WithinTolerance(m, current[m], base[m]) -> "inside"
    [] \E m \in DOMAIN current : BeyondTolerance(m, current[m], base[m]) -> "outside"
    [] OTHER -> "boundary"

\* run_ir_comparison: the file is read again, as one kind and then the other;
\* the report is written next to it.
RunIrComparison ==
  /\ bench.pc = "compare" /\ ~bench.args.store
  /\ \/ /\ baseline.is \in {"ir", "structural"}
        /\ LET base == ToBenchmarkResult(baseline)
           IN /\ compared' = compared \cup {<<Head(bench.corpora), HowClose(bench.result, base)>>}
              /\ NextCorpus(Worst(~Passed(bench.result, base)))
     \/ Exit(1) /\ UNCHANGED compared
  /\ UNCHANGED baseline

FinishBenchmark ==
  /\ bench.pc = "run" /\ ~bench.args.store /\ bench.corpora = <<>>
  /\ Exit(IF bench.worst THEN 2 ELSE 0)
  /\ UNCHANGED <<baseline, compared>>

-----------------------------------------------------------------------------
(* bench-store *)

RunStoreBenchmark ==
  /\ bench.pc = "run" /\ bench.args.store
  /\ \/ \E r \in StoreReports :
          bench' = Measured(r)
     \/ Exit(1)
  /\ UNCHANGED <<baseline, compared>>

\* The SLO comes before the comparison.
SloVerdict ==
  /\ bench.pc = "output" /\ bench.args.store
  /\ CASE ~SloPassed(bench.result) -> Exit(IF bench.args.compare THEN 2 ELSE 75)
       [] SloPassed(bench.result) /\ bench.args.compare -> Goto("compare")
       [] SloPassed(bench.result) /\ ~bench.args.compare -> Exit(0)
  /\ UNCHANGED <<baseline, compared>>

RunStoreComparison ==
  /\ bench.pc = "compare" /\ bench.args.store
  /\ \/ /\ baseline.is = "store"
        /\ compared' = compared \cup
             {<<Head(bench.corpora), HowClose(bench.result, baseline.values)>>}
        /\ Exit(IF Passed(bench.result, baseline.values) THEN 0 ELSE 2)
     \/ Exit(1) /\ UNCHANGED compared
  /\ UNCHANGED baseline

BenchNext ==
  \/ WriteBaseline
  \/ BeginBench \/ LoadCorpusConfig \/ MakeEmbedder \/ ValidateUpFront
  \/ RunBenchmark \/ OutputResult \/ RunIrComparison \/ FinishBenchmark
  \/ RunStoreBenchmark \/ SloVerdict \/ RunStoreComparison

BenchSpec == BenchInit /\ [][BenchNext]_benchVars

-----------------------------------------------------------------------------
(* Properties. *)

\* The exit status of a gate tells how the values compare with those of the
\* baseline file: 0 only when every corpus that was asked for was compared and
\* no value of it is beyond its tolerance, 2 only when a value is not inside its
\* tolerance or the SLO was missed, whatever the order of the corpora and whoever
\* writes the file meanwhile.  A value right at its tolerance may go either way.
\* Excepted is --mode all, which compares nothing and exits with 0
\* (cli/benchmark.rs:182-221).  That the baseline is one of the same corpus and
\* embedder is not promised: no code looks.
ExitTellsTheComparison ==
  LET args == bench.args
      verdicts == {c[2] : c \in compared}
  IN bench.pc = "exited" =>
       /\ bench.code = 0 /\ args.compare /\ ~args.allModes =>
            {c[1] : c \in compared} = args.corpora /\ "outside" \notin verdicts
       /\ bench.code = 2 =>
            args.compare /\ (verdicts \ {"inside"} # {} \/ (args.store /\ compared = {}))
       /\ bench.code = 75 => args.store /\ ~args.compare
=============================================================================

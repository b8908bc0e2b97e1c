------------------------------ MODULE MCTools ------------------------------
(***************************************************************************)
(* The components that work by themselves, each on a small instance.  They *)
(* share no state, so that one of them moves in a behaviour and the others *)
(* stay as they are: nothing would be learnt from their interleavings.     *)
(***************************************************************************)
EXTENDS Embedding, Chunker, Graph, ModelCache, StorePort, AgentConfig,
        Upgrade, Bench, Quality

VARIABLE part   \* the component that moves

toolVars == <<part, embVars, chunking, graphVars, cacheVars, portVars, agentVars,
              upgradeVars, benchVars, qualityVars>>

\* Embedding: how many tokens each text has.
MCTokens == <<2, 1, 3, 1, 2>>

\* Chunker: files of 8 characters, with up to three nodes inside each other, or
\* two beside each other; and files without a tree, the empty one too.  What is
\* outlined is chunkable; the declarations named 2 are of a chunkable type that
\* is not outlined (a Rust module, a TypeScript enum).
At(a, b, chunkable, name, wraps, scope) ==
  [from |-> a, to |-> b, chunkable |-> chunkable, outlined |-> chunkable /\ name # 2,
   name |-> name, wraps |-> wraps, scope |-> scope]
Outer  == {At(a, b, TRUE, 0, w, FALSE) : a \in {0, 1}, b \in {6, 8}, w \in BOOLEAN}
Middle == {At(a, b, c, 1, FALSE, s) : a \in {1, 2}, b \in {3, 6, 7}, c \in BOOLEAN, s \in BOOLEAN}
Inner  == {At(a, b, TRUE, 2, FALSE, FALSE) : a \in 2 .. 5, b \in 4 .. 7}
Beside == {At(0, 2, TRUE, 1, FALSE, FALSE), At(3, 8, TRUE, 2, FALSE, FALSE)}
IsTree(t) == \A m, n \in t : \/ m = n \/ m.to <= n.from \/ n.to <= m.from
                             \/ Inside(m, n) # Inside(n, m)
Trees == {t \in {{}, Beside} \cup {{o, i} : o \in Outer, i \in Middle}
                 \cup {{o, i, m} : o \in Outer, i \in Middle, m \in {n \in Inner : n.from < n.to}} :
            IsTree(t)}
Source(size, breaks, blank, parsed, tree) ==
  [size |-> size, breaks |-> breaks \cap 0 .. size - 1, blank |-> breaks \cup blank,
   parsed |-> parsed, nodes |-> tree]
MCSources ==
  {Source(8, c, b, TRUE, t) : c \in {{1, 3, 5}, {0, 1, 2, 3, 5, 6}, {2, 4, 5, 7}},
                              b \in {{}, {2, 3}}, t \in Trees}
  \cup {Source(s, c, b, FALSE, {}) : s \in {0, 1, 8}, c \in SUBSET (0 .. 7), b \in {{}, {2, 3}}}

\* Graph: two files, named "a" and "b"; definitions inside each other, one that
\* comes twice, references out of any definition and to what nobody defines.
MCSymbols == {"a", "b", "f", "New", "new", "x"}
MCStem    == [f \in GraphFiles |-> IF f = 1 THEN "a" ELSE "b"]
MCLowered == [s \in GraphSymbols |-> IF s = "New" THEN "new" ELSE s]
Def(s, a, b)  == [symbol |-> s, from |-> a, to |-> b]
Ref(s, t, at) == [target |-> s, type |-> t, at |-> at]
File(d, r)    == [supported |-> TRUE, defs |-> d, refs |-> r]
MCContents ==
  {File(<<Def("New", 1, 9), Def("f", 3, 5)>>,
        <<Ref("f", "Call", 4), Ref("New", "Call", 7), Ref("b", "Import", 0)>>),
   File(<<Def("f", 1, 3), Def("New", 4, 6)>>,
        <<Ref("New", "Call", 2), Ref("New", "Call", 3), Ref("f", "Import", 5)>>),
   File(<<Def("f", 0, 2), Def("f", 3, 5)>>, <<Ref("x", "Call", 4), Ref("x", "Import", 6)>>),
   [supported |-> FALSE, defs |-> <<>>, refs |-> <<>>]}

\* StorePort: a chunk of each file.
MCOwner == [i \in Ids |-> i]

\* AgentConfig, Upgrade, Bench, Quality.
MCAgents    == <<1>>
MCBadBuilds == {[build |-> 2, holds |-> "empty"]}
MCOffsets   == {-11, -10, 0, 9, 10, 11, 20, 50, 51, 100}
\* What f64 makes of these: 0.11 - 0.1 < 0.01 and 0.15 - 0.1 < 0.1 * 0.5, but not
\* 0.1 - 0.09 < 0.01, 0.01 - 0 < 0.01, 0.2 - 0.1 < 0.1 or 120 - 100 < 100 * 0.2.
MCRoundsIn  == {<<110, 100, [absolute |-> 10]>>, <<150, 100, [relative |-> 50]>>}
MCPaths     == {[path |-> 1, ext |-> "rs", dotGit |-> FALSE],
                [path |-> 2, ext |-> "rs", dotGit |-> TRUE],
                [path |-> 3, ext |-> "md", dotGit |-> FALSE]}
MCExtensions == {"rs"}
MCDiscounts  == <<100, 63>>

ToolInit ==
  /\ part \in {"embedding", "chunker", "graph", "cache", "port", "agents", "upgrade",
               "bench", "quality"}
  /\ EmbInit /\ ChunkInit /\ GraphInit /\ CacheInit /\ PortInit /\ AgentInit
  /\ UpgradeInit /\ BenchInit /\ QualityInit
  /\ part = "bench" \/ baseline = [is |-> "invalid"]

EmbeddingMoves ==
  /\ part = "embedding" /\ EmbNext
  /\ UNCHANGED <<part, chunking, graphVars, cacheVars, portVars, agentVars, upgradeVars,
                 benchVars, qualityVars>>
ChunkerMoves ==
  /\ part = "chunker" /\ ChunkNext
  /\ UNCHANGED <<part, embVars, graphVars, cacheVars, portVars, agentVars, upgradeVars,
                 benchVars, qualityVars>>
GraphMoves ==
  /\ part = "graph" /\ GraphNext
  /\ UNCHANGED <<part, embVars, chunking, cacheVars, portVars, agentVars, upgradeVars,
                 benchVars, qualityVars>>
CacheMoves ==
  /\ part = "cache" /\ CacheNext
  /\ UNCHANGED <<part, embVars, chunking, graphVars, portVars, agentVars, upgradeVars,
                 benchVars, qualityVars>>
PortMoves ==
  /\ part = "port" /\ PortNext
  /\ UNCHANGED <<part, embVars, chunking, graphVars, cacheVars, agentVars, upgradeVars,
                 benchVars, qualityVars>>
AgentsMove ==
  /\ part = "agents" /\ AgentNext
  /\ UNCHANGED <<part, embVars, chunking, graphVars, cacheVars, portVars, upgradeVars,
                 benchVars, qualityVars>>
UpgradeMoves ==
  /\ part = "upgrade" /\ UpgradeNext
  /\ UNCHANGED <<part, embVars, chunking, graphVars, cacheVars, portVars, agentVars,
                 benchVars, qualityVars>>
BenchMoves ==
  /\ part = "bench" /\ BenchNext
  /\ UNCHANGED <<part, embVars, chunking, graphVars, cacheVars, portVars, agentVars,
                 upgradeVars, qualityVars>>
QualityMoves ==
  /\ part = "quality" /\ QualityNext
  /\ UNCHANGED <<part, embVars, chunking, graphVars, cacheVars, portVars, agentVars,
                 upgradeVars, benchVars>>

ToolNext ==
  \/ EmbeddingMoves \/ ChunkerMoves \/ GraphMoves \/ CacheMoves \/ PortMoves
  \/ AgentsMove \/ UpgradeMoves \/ BenchMoves \/ QualityMoves

\* The fairness of EmbSpec.
ToolSpec == ToolInit /\ [][ToolNext]_toolVars /\ WF_embVars(EmbStep)
=============================================================================

------------------------------- MODULE Graph -------------------------------
(***************************************************************************)
(* The knowledge graph: what is extracted from a file                      *)
(* (src/engine/graph_extractor.rs), how the indexer replaces the part of a  *)
(* file (src/engine/indexer.rs), and what the queries of the tools and of   *)
(* the graph search answer (src/store/graph.rs, src/mcp/handler.rs,         *)
(* src/engine/graph_retriever.rs, src/engine/router.rs).                    *)
(*                                                                         *)
(* What a file contains is its definitions, each with a symbol and a range, *)
(* and its references, each with the symbol it is to, its type and its      *)
(* place.  The id of a node is a hash of its file and symbol, that of the   *)
(* module a hash of the file: here what is hashed.                          *)
(***************************************************************************)
EXTENDS Naturals, FiniteSetsExt, SequencesExt

CONSTANTS
  GraphFiles,     \* the files of a project
  GraphSymbols,   \* the symbols there are
  Stem,           \* the file stem of each file, a symbol
  Contents,       \* what a file may contain
  Limits,         \* limits a client gives
  Lowered         \* to_lowercase of a symbol

NoFile == 0

\* A file that is not indexed, as far as the graph is concerned.
NoContents == [supported |-> FALSE, defs |-> <<>>, refs |-> <<>>]

ASSUME GraphAssumption ==
  /\ Contents \subseteq
       [supported : BOOLEAN,
        defs : Seq([symbol : GraphSymbols, from : Nat, to : Nat]),
        refs : Seq([target : GraphSymbols, type : STRING, at : Nat])]
  /\ NoFile \notin GraphFiles
  /\ Stem \in [GraphFiles -> GraphSymbols]
  /\ Lowered \in [GraphSymbols -> GraphSymbols]
  /\ Limits \subseteq Nat

VARIABLES
  nodes,      \* graph_nodes
  edges,      \* graph_edges
  named,      \* the symbols of each file that chunks carry
  indexed,    \* what each file contained when it was last indexed
  refused,    \* files whose graph could not be replaced since
  asked       \* the last query, with what it answered

graphVars == <<nodes, edges, named, indexed, refused, asked>>

-----------------------------------------------------------------------------
(* Extraction. *)

ModuleId(f)    == <<f>>
NodeId(f, s)   == <<f, s>>
Node(id, s, f) == [id |-> id, symbol |-> s, file |-> f]

\* The module, and the definitions; two with one symbol have one id, and the
\* second replaces the first.
NodesOf(f, c) ==
  {Node(ModuleId(f), Stem[f], f)} \cup {Node(NodeId(f, d.symbol), d.symbol, f) : d \in Range(c.defs)}

\* The ranges are sorted by length, and the first that the place is in counts;
\* the end counts as inside.
Enclosing(c, at) == {i \in DOMAIN c.defs : c.defs[i].from <= at /\ at <= c.defs[i].to}

Innermost(c, at) ==
  LET Length(i) == c.defs[i].to - c.defs[i].from
  IN CHOOSE i \in Enclosing(c, at) :
       \A j \in Enclosing(c, at) : Length(i) < Length(j) \/ (Length(i) = Length(j) /\ i <= j)

SourceOf(f, c, at) ==
  IF Enclosing(c, at) = {} THEN ModuleId(f) ELSE NodeId(f, c.defs[Innermost(c, at)].symbol)

EdgesOf(f, c) ==
  {[source |-> SourceOf(f, c, r.at), target |-> r.target, type |-> r.type, at |-> r.at]
     : r \in Range(c.refs)}

\* Rust, TypeScript, JavaScript and Python have queries, other files no graph.
ExtractGraph(f, c) ==
  IF c.supported THEN [nodes |-> NodesOf(f, c), edges |-> EdgesOf(f, c)]
  ELSE [nodes |-> {}, edges |-> {}]

-----------------------------------------------------------------------------
(* The tables. *)

\* Mutant: as if the foreign key did not cascade.
WithoutNodesOfKeepingEdges(f, ns, es) ==
  [nodes |-> {n \in ns : n.file # f}, edges |-> es]

\* delete_nodes_by_file: the edges go with their source.
WithoutNodesOf(f, ns, es) ==
  LET gone == {n.id : n \in {m \in ns : m.file = f}}
  IN [nodes |-> {n \in ns : n.file # f}, edges |-> {e \in es : e.source \notin gone}]

\* insert_nodes: OR REPLACE, and what is replaced takes its edges along.
WithNodes(new, g) ==
  LET ids == {n.id : n \in new}
  IN [nodes |-> {n \in g.nodes : n.id \notin ids} \cup new,
      edges |-> {e \in g.edges : e.source \notin ids}]

\* insert_edges: up to the first one whose source is not there.
WithEdges(new, g) ==
  LET ids == {n.id : n \in g.nodes}
      bad == {e.at : e \in {x \in new : x.source \notin ids}}
  IN [g EXCEPT !.edges = @ \cup {e \in new : \A b \in bad : e.at < b}]

-----------------------------------------------------------------------------
GraphInit ==
  /\ nodes = {} /\ edges = {}
  /\ named = [f \in GraphFiles |-> {}]
  /\ indexed = [f \in GraphFiles |-> NoContents]
  /\ refused = {}
  /\ asked = [tool |-> "none"]

\* process_file_entries, for a file that is new or has changed: three
\* statements in a transaction that has only read so far, so that another
\* process that writes can make any of them fail.  Their errors are dropped,
\* and those after one that failed are made all the same.
IndexGraphOf(f, c, failed) ==
  LET new     == ExtractGraph(f, c)
      deleted == IF "delete" \in failed THEN [nodes |-> nodes, edges |-> edges]
                 ELSE WithoutNodesOf(f, nodes, edges)
      node    == IF "nodes" \in failed THEN deleted ELSE WithNodes(new.nodes, deleted)
      edge    == IF "edges" \in failed THEN node ELSE WithEdges(new.edges, node)
  IN /\ nodes' = edge.nodes
     /\ edges' = edge.edges
     /\ named' = [named EXCEPT ![f] = {d.symbol : d \in Range(c.defs)}]
     /\ indexed' = [indexed EXCEPT ![f] = c]
     /\ refused' = IF failed = {} THEN refused \ {f} ELSE refused \cup {f}
     /\ UNCHANGED asked

IndexGraph ==
  \E f \in GraphFiles, c \in Contents, failed \in SUBSET {"delete", "nodes", "edges"} :
    /\ failed # {} => refused = {}   \* bound: one file at a time
    /\ IndexGraphOf(f, c, failed)

\* delete_chunks_for_file, delete_stale_chunks: the graph is left as it is.
DeleteChunksOfFile(f) ==
  /\ named[f] # {}
  /\ named' = [named EXCEPT ![f] = {}]
  /\ UNCHANGED <<nodes, edges, indexed, refused, asked>>

\* clear_database
ClearGraph ==
  /\ nodes # {}
  /\ nodes' = {} /\ edges' = {}
  /\ named' = [f \in GraphFiles |-> {}]
  /\ indexed' = [f \in GraphFiles |-> NoContents]
  /\ refused' = {}
  /\ UNCHANGED asked

-----------------------------------------------------------------------------
(* Queries.  A row is a node with the rows it was joined with. *)

\* Database::get_callers: whether the callee is known or not.
GetCallers(s) ==
  {row \in nodes \X edges :
     row[1].id = row[2].source /\ row[2].target = s /\ row[2].type = "Call"}

\* Mutant: the hint is forgotten.
TargetsAnywhere(s, f) == {n \in nodes : n.symbol = s}

\* The definitions of a symbol, in the file if one is named.
Targets(s, f) == {n \in nodes : n.symbol = s /\ (f = NoFile \/ n.file = f)}

Referring(s, f, types) ==
  {row \in nodes \X edges \X Targets(s, f) :
     row[1].id = row[2].source /\ row[2].target = s /\ row[2].type \in types}

GetCallersFiltered(s, f) == Referring(s, f, {"Call"})
GetDependents(s, f)      == Referring(s, f, {"Import", "Extends", "Reference"})

External(s) == Node(NodeId(NoFile, s), s, NoFile)

\* get_imports: what is not defined in the project is named all the same.
GetImports(s, f) ==
  UNION {{<<t, e>> : t \in IF Targets(e.target, NoFile) = {} THEN {External(e.target)}
                           ELSE Targets(e.target, NoFile)}
           : e \in {x \in edges : x.type = "Import" /\ \E n \in Targets(s, f) : n.id = x.source}}

\* The rows come in no order, and the first of them are kept.
Answer(tool, s, f, hint, rows, limit) ==
  \E kept \in kSubset(IF Cardinality(rows) < limit THEN Cardinality(rows) ELSE limit, rows) :
    asked' = [tool |-> tool, symbol |-> s, file |-> f, hint |-> hint, all |-> kept = rows,
              found |-> {row[1].id : row \in kept}]

\* A hint that is not a path of a workspace makes the answer empty.
Hinted(valid, rows) == IF valid THEN rows ELSE {}

FindCallers(s, f, valid, limit) ==
  /\ Answer("callers", s, f, f = NoFile \/ valid,
            IF f = NoFile THEN GetCallers(s) ELSE Hinted(valid, GetCallersFiltered(s, f)), limit)
  /\ UNCHANGED <<nodes, edges, named, indexed, refused>>

FindDependents(s, f, valid, limit) ==
  /\ Answer("dependents", s, f, f = NoFile \/ valid, Hinted(f = NoFile \/ valid, GetDependents(s, f)), limit)
  /\ UNCHANGED <<nodes, edges, named, indexed, refused>>

TraceImports(s, f, valid, limit) ==
  /\ Answer("imports", s, f, f = NoFile \/ valid, Hinted(f = NoFile \/ valid, GetImports(s, f)), limit)
  /\ UNCHANGED <<nodes, edges, named, indexed, refused>>

\* classify_query: the kind of a question that has the form of one, about the
\* symbol in lower case; and nothing for any other.
Classify(kind, s) ==
  CASE kind = "callers"    -> GetCallers(Lowered[s])
    [] kind = "dependents" -> GetDependents(Lowered[s], NoFile)
    [] kind = "imports"    -> GetImports(Lowered[s], NoFile)
    [] kind = "hybrid"     -> {}

\* GraphRetriever::search: the nodes that a chunk of their file is named like.
GraphSearch(kind, s, limit) ==
  /\ LET Row(row) == row[1].file # NoFile /\ row[1].symbol \in named[row[1].file]
     IN Answer("search", Lowered[s], NoFile, TRUE, {row \in Classify(kind, s) : Row(row)}, limit)
  /\ UNCHANGED <<nodes, edges, named, indexed, refused>>

AskGraph ==
  /\ \E s \in GraphSymbols, limit \in Limits :
       \/ \E f \in GraphFiles \cup {NoFile}, valid \in BOOLEAN :
            \/ FindCallers(s, f, valid, limit)
            \/ FindDependents(s, f, valid, limit)
            \/ TraceImports(s, f, valid, limit)
       \/ \E kind \in {"callers", "dependents", "imports", "hybrid"} :
            GraphSearch(kind, s, limit)

\* A query changes nothing, and what follows it follows without it too.
GraphNext ==
  /\ asked.tool = "none"
  /\ \/ IndexGraph
     \/ \E f \in GraphFiles : DeleteChunksOfFile(f)
     \/ ClearGraph
     \/ AskGraph

GraphSpec == GraphInit /\ [][GraphNext]_graphVars

-----------------------------------------------------------------------------
(* Properties. *)

\* What the files contained when they were last indexed.
Present == {f \in GraphFiles : indexed[f].supported}

\* However often and in whatever order files were indexed again, the graph has
\* the definitions and references of what each file contained last and no
\* others: a file that is indexed again loses none of the references other
\* files make to it, and leaves none of its own behind
\* (engine/indexer.rs:553-556, store/graph.rs:16-24).
GraphIsOfTheFiles ==
  refused = {} =>
    /\ nodes = UNION {NodesOf(f, indexed[f]) : f \in Present}
    /\ edges = UNION {EdgesOf(f, indexed[f]) : f \in Present}

\* The nodes that have one of these references to a symbol, by the files.
Referrers(s, types) ==
  UNION {{SourceOf(f, indexed[f], r.at) : r \in {x \in Range(indexed[f].refs) :
                                                  x.target = s /\ x.type \in types}}
           : f \in Present}

\* A tool's answer names only nodes that do call or depend on the symbol, as
\* long as the limit is not reached all of them, and only if the symbol is
\* defined in the file that is named, or, for dependents, anywhere; callers are
\* found of symbols of other packages too (store/graph.rs:54-190,
\* mcp/handler.rs:666-750).
AnswersAreOfTheFiles ==
  (refused = {} /\ asked.tool \in {"callers", "dependents"}) =>
    LET types == IF asked.tool = "callers" THEN {"Call"} ELSE {"Import", "Extends", "Reference"}
        defined == {f \in Present : asked.symbol = Stem[f] \/
                                     \E d \in Range(indexed[f].defs) : d.symbol = asked.symbol}
        known == IF asked.file # NoFile THEN asked.file \in defined
                 ELSE asked.tool = "callers" \/ defined # {}
        all == IF known /\ asked.hint THEN Referrers(asked.symbol, types) ELSE {}
    IN asked.found \subseteq all /\ (asked.all => asked.found = all)
=============================================================================

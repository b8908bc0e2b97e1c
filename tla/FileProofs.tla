----------------------------- MODULE FileProofs ------------------------------
(***************************************************************************)
(* Proofs about what is made of a file: Graph and Chunker.                 *)
(*                                                                         *)
(* Graph: the part of a file in the tables is told by the ids, which begin *)
(* with the file; an edge is of the file of its source, and the foreign    *)
(* key makes it go with that file's nodes.                                 *)
(*                                                                         *)
(* Chunker: the starts of the lines of a stretch in ascending order are    *)
(* numbered as its lines are, so that a window is told by the lines it     *)
(* has; and what a node is split into, or outlined as, is found by the     *)
(* least node for which it would not be so.                                *)
(***************************************************************************)
EXTENDS Graph, Chunker, FiniteSetTheorems, WellFoundedInduction, TLAPS

Content    == Contents \cup {NoContents}
Definition == [symbol : GraphSymbols, from : Nat, to : Nat]
Reference  == [target : GraphSymbols, type : STRING, at : Nat]

\* The foreign key, and that ids are those of their files.
Sound(g) ==
  /\ \A n \in g.nodes : n.file \in GraphFiles /\ n.id[1] = n.file
  /\ \A e \in g.edges : \E n \in g.nodes : n.id = e.source

\* Two graphs are the same but for the part of a file.
SameElsewhere(f, g, h) ==
  /\ \A n : n.file # f => (n \in g.nodes <=> n \in h.nodes)
  /\ \A e : e.source[1] # f => (e \in g.edges <=> e \in h.edges)

\* A graph that is of one file.
IsOf(f, g) ==
  /\ \A n \in g.nodes : n.file = f /\ n.id[1] = f
  /\ \A e \in g.edges : e.source[1] = f /\ e.at \in Nat

\* The part of a file is what is extracted from c.
Has(f, g, c) ==
  /\ \A n : n.file = f => (n \in g.nodes <=> n \in ExtractGraph(f, c).nodes)
  /\ \A e : e.source[1] = f => (e \in g.edges <=> e \in ExtractGraph(f, c).edges)

Tables == [nodes |-> nodes, edges |-> edges]

IInv ==
  /\ indexed \in [GraphFiles -> Content]
  /\ Sound(Tables)
  /\ \A f \in GraphFiles \ refused : Has(f, Tables, indexed[f])

-----------------------------------------------------------------------------
\* A set of numbers has a least one.
LEMMA Least ==
  ASSUME NEW S \in SUBSET Nat, S # {}
  PROVE  \E m \in S : \A k \in S : m <= k
<1>1. PICK m \in S : \A k \in S : <<k, m>> \notin OpToRel(<, Nat)
  BY NatLessThanWellFounded, WFMin
<1>2. \A k \in S : ~(k < m)
  BY <1>1 DEF OpToRel
<1> QED
  BY <1>2

\* What is in a file.
LEMMA ContentIs ==
  ASSUME NEW c \in Contents
  PROVE  /\ \A i \in DOMAIN c.defs : i \in Nat /\ c.defs[i].from \in Nat /\ c.defs[i].to \in Nat
         /\ \A r \in Range(c.refs) : r.at \in Nat
<1>1. c.defs \in Seq(Definition) /\ c.refs \in Seq(Reference)
  BY GraphAssumption DEF Definition, Reference
<1>2. /\ \A i \in DOMAIN c.defs : i \in Nat /\ c.defs[i] \in Definition
      /\ \A i \in DOMAIN c.refs : c.refs[i] \in Reference
  BY <1>1
<1> QED
  BY <1>2 DEF Definition, Reference, Range

\* A place inside of definitions has an innermost one.
LEMMA InnermostEncloses ==
  ASSUME NEW c \in Contents, NEW at \in Nat, Enclosing(c, at) # {}
  PROVE  Innermost(c, at) \in Enclosing(c, at)
<1> DEFINE Length(i) == c.defs[i].to - c.defs[i].from
           Lengths == {Length(i) : i \in Enclosing(c, at)}
<1>1. /\ Enclosing(c, at) \subseteq Nat
      /\ \A i \in Enclosing(c, at) : Length(i) \in Nat
  BY ContentIs DEF Enclosing
<1>2. Lengths \in SUBSET Nat /\ Lengths # {}
  BY <1>1
<1>3. PICK l \in Lengths : \A k \in Lengths : l <= k
  BY <1>2, Least
<1> DEFINE Shortest == {i \in Enclosing(c, at) : Length(i) = l}
<1>4. Shortest \in SUBSET Nat /\ Shortest # {}
  BY <1>1
<1>5. PICK i \in Shortest : \A j \in Shortest : i <= j
  <2> HIDE DEF Shortest
  <2> QED
    BY <1>4, Least
<1>6. ASSUME NEW j \in Enclosing(c, at)
      PROVE  Length(i) < Length(j) \/ (Length(i) = Length(j) /\ i <= j)
  <2>1. Length(i) = l /\ l <= Length(j) /\ l \in Nat /\ Length(j) \in Nat
    BY <1>1, <1>2, <1>3, <1>6
  <2>2. CASE Length(j) = l
    BY <1>5, <1>6, <2>1, <2>2
  <2> QED
    BY <2>1, <2>2
<1>7. \E k \in Enclosing(c, at) :
        \A j \in Enclosing(c, at) : Length(k) < Length(j) \/ (Length(k) = Length(j) /\ k <= j)
  BY <1>6
<1> QED
  BY <1>7 DEF Innermost

\* What is extracted from a file is of that file, and has the source of every
\* edge.
LEMMA ExtractIs ==
  ASSUME NEW f \in GraphFiles, NEW c \in Content
  PROVE  /\ Sound(ExtractGraph(f, c))
         /\ IsOf(f, ExtractGraph(f, c))
<1>1. CASE c \notin Contents \/ ~c.supported
  BY <1>1 DEF ExtractGraph, Content, NoContents, Sound, IsOf
<1>2. CASE c \in Contents /\ c.supported
  <2>1. \A r \in Range(c.refs) : r.at \in Nat
    BY <1>2, ContentIs
  <2>2. \A i, s : Node(i, s, f).id = i /\ Node(i, s, f).file = f
    BY DEF Node
  <2>3. ASSUME NEW r \in Range(c.refs)
        PROVE  /\ SourceOf(f, c, r.at)[1] = f
               /\ \E n \in NodesOf(f, c) : n.id = SourceOf(f, c, r.at)
    <3>1. CASE Enclosing(c, r.at) = {}
      <4>1. SourceOf(f, c, r.at) = ModuleId(f) /\ ModuleId(f)[1] = f
        BY <3>1 DEF SourceOf, ModuleId
      <4>2. Node(ModuleId(f), Stem[f], f) \in NodesOf(f, c)
        BY DEF NodesOf
      <4> QED
        BY <2>2, <4>1, <4>2
    <3>2. CASE Enclosing(c, r.at) # {}
      <4> PICK d : d = c.defs[Innermost(c, r.at)]
        OBVIOUS
      <4>1. Innermost(c, r.at) \in DOMAIN c.defs
        BY <1>2, <2>1, <3>2, InnermostEncloses DEF Enclosing
      <4>2. d \in Range(c.defs)
        BY <4>1 DEF Range
      <4>3. SourceOf(f, c, r.at) = NodeId(f, d.symbol) /\ NodeId(f, d.symbol)[1] = f
        BY <3>2 DEF SourceOf, NodeId
      <4>4. Node(NodeId(f, d.symbol), d.symbol, f) \in NodesOf(f, c)
        BY <4>2 DEF NodesOf
      <4> QED
        BY <2>2, <4>3, <4>4
    <3> QED
      BY <3>1, <3>2
  <2>4. \A n \in NodesOf(f, c) : n.file = f /\ n.id[1] = f
    BY DEF NodesOf, Node, ModuleId, NodeId
  <2>5. \A e \in EdgesOf(f, c) : /\ e.source[1] = f /\ e.at \in Nat
                                 /\ \E n \in NodesOf(f, c) : n.id = e.source
    BY <2>1, <2>3 DEF EdgesOf
  <2> QED
    BY <1>2, <2>4, <2>5 DEF ExtractGraph, Sound, IsOf
<1> QED
  BY <1>1, <1>2

-----------------------------------------------------------------------------
(* The three statements. *)

\* delete_nodes_by_file takes the whole part of a file and nothing else.
LEMMA WithoutIs ==
  ASSUME NEW f \in GraphFiles, NEW ns, NEW es, Sound([nodes |-> ns, edges |-> es])
  PROVE  LET h == WithoutNodesOf(f, ns, es)
         IN /\ Sound(h) /\ SameElsewhere(f, [nodes |-> ns, edges |-> es], h)
            /\ \A n \in h.nodes : n.file # f
            /\ \A e \in h.edges : e.source[1] # f
<1> DEFINE h == WithoutNodesOf(f, ns, es)
<1>1. /\ h.nodes = {n \in ns : n.file # f}
      /\ h.edges = {e \in es : \A n \in ns : n.file = f => e.source # n.id}
  BY DEF WithoutNodesOf
<1>2. /\ \A n \in ns : n.file \in GraphFiles /\ n.id[1] = n.file
      /\ \A e \in es : \E n \in ns : n.id = e.source
  BY DEF Sound
<1>3. \A e \in es : e \in h.edges <=> e.source[1] # f
  BY <1>1, <1>2
<1>4. \A e \in h.edges : \E n \in h.nodes : n.id = e.source
  BY <1>1, <1>2, <1>3
<1> HIDE DEF h
<1>5. Sound(h)
  BY <1>1, <1>2, <1>4 DEF Sound
<1>6. SameElsewhere(f, [nodes |-> ns, edges |-> es], h)
  BY <1>1, <1>3 DEF SameElsewhere
<1> QED
  BY <1>1, <1>3, <1>5, <1>6 DEF h

\* insert_nodes leaves the other files alone, and the foreign key holds.
LEMMA WithNodesIs ==
  ASSUME NEW f \in GraphFiles, NEW g, Sound(g), NEW x, IsOf(f, x)
  PROVE  LET h == WithNodes(x.nodes, g)
         IN /\ Sound(h) /\ SameElsewhere(f, g, h)
            /\ x.nodes \subseteq h.nodes
            /\ \A n \in h.nodes : n \in g.nodes \/ n \in x.nodes
            /\ h.edges \subseteq g.edges
<1> DEFINE h == WithNodes(x.nodes, g)
<1>1. /\ h.nodes = {n \in g.nodes : \A m \in x.nodes : m.id # n.id} \cup x.nodes
      /\ h.edges = {e \in g.edges : \A m \in x.nodes : m.id # e.source}
  BY DEF WithNodes
<1>2. /\ \A n \in g.nodes : n.file \in GraphFiles /\ n.id[1] = n.file
      /\ \A e \in g.edges : \E n \in g.nodes : n.id = e.source
      /\ \A n \in x.nodes : n.file = f /\ n.id[1] = f
  BY DEF Sound, IsOf
<1> HIDE DEF h
<1>3. Sound(h)
  BY <1>1, <1>2 DEF Sound
<1>4. SameElsewhere(f, g, h)
  BY <1>1, <1>2 DEF SameElsewhere
<1> QED
  BY <1>1, <1>3, <1>4 DEF h

\* insert_edges: an edge whose source is missing is not among those before the
\* first one of that kind.
LEMMA WithEdgesIs ==
  ASSUME NEW f \in GraphFiles, NEW g, Sound(g), NEW x, IsOf(f, x),
         g = [nodes |-> g.nodes, edges |-> g.edges]
  PROVE  LET h == WithEdges(x.edges, g)
         IN /\ Sound(h) /\ SameElsewhere(f, g, h) /\ h.nodes = g.nodes
            /\ h.edges \subseteq g.edges \cup x.edges
            /\ x.nodes \subseteq g.nodes /\ Sound(x) => h.edges = g.edges \cup x.edges
<1> DEFINE h == WithEdges(x.edges, g)
           bad == {e.at : e \in {y \in x.edges : y.source \notin {n.id : n \in g.nodes}}}
           new == {e \in x.edges : \A b \in bad : e.at < b}
<1>1. h.nodes = g.nodes /\ h.edges = g.edges \cup new
  BY DEF WithEdges
<1>2. ASSUME NEW e \in new PROVE \E n \in g.nodes : n.id = e.source
  <2>1. e \in x.edges /\ e.at \in Nat
    BY DEF IsOf
  <2>2. \A b \in bad : e.at < b
    OBVIOUS
  <2>3. e.at \notin bad
    <3> HIDE DEF bad
    <3> QED
      BY <2>1, <2>2
  <2> QED
    BY <2>1, <2>3
<1>3. x.nodes \subseteq g.nodes /\ Sound(x) => new = x.edges
  BY DEF Sound
<1>4. new \subseteq x.edges /\ \A e \in x.edges : e.source[1] = f
  BY DEF IsOf
<1> HIDE DEF h, new
<1>5. Sound(h)
  BY <1>1, <1>2 DEF Sound
<1>6. SameElsewhere(f, g, h)
  BY <1>1, <1>4 DEF SameElsewhere
<1> QED
  BY <1>1, <1>3, <1>4, <1>5, <1>6 DEF h

-----------------------------------------------------------------------------
\* Nothing is indexed and nothing is in the tables.
LEMMA InitHolds ==
  ASSUME nodes = {}, edges = {}, indexed = [f \in GraphFiles |-> NoContents] PROVE IInv
BY DEF IInv, Tables, Sound, Has, ExtractGraph, NoContents, Content

\* A file is indexed: its part is replaced, or the file is refused and its part
\* is anything that is sound.
LEMMA IndexGraphKeeps ==
  ASSUME IInv, NEW f \in GraphFiles, NEW c \in Contents, NEW failed \in SUBSET {"delete", "nodes", "edges"},
         IndexGraphOf(f, c, failed)
  PROVE  IInv'
<1> PICK new : new = ExtractGraph(f, c)
  OBVIOUS
<1> PICK deleted : deleted = IF "delete" \in failed THEN Tables ELSE WithoutNodesOf(f, nodes, edges)
  OBVIOUS
<1> PICK node : node = IF "nodes" \in failed THEN deleted ELSE WithNodes(new.nodes, deleted)
  OBVIOUS
<1> PICK edge : edge = IF "edges" \in failed THEN node ELSE WithEdges(new.edges, node)
  OBVIOUS
<1>1. /\ nodes' = edge.nodes /\ edges' = edge.edges
      /\ indexed' = [indexed EXCEPT ![f] = c]
      /\ refused' = IF failed = {} THEN refused \ {f} ELSE refused \cup {f}
  BY DEF IndexGraphOf, Tables
<1>2. Sound(new) /\ IsOf(f, new)
  BY ExtractIs DEF Content
<1>3. /\ Sound(deleted) /\ SameElsewhere(f, Tables, deleted)
      /\ deleted = [nodes |-> deleted.nodes, edges |-> deleted.edges]
      /\ failed = {} => /\ \A n \in deleted.nodes : n.file # f
                        /\ \A e \in deleted.edges : e.source[1] # f
  <2>1. Sound(Tables)
    BY DEF IInv
  <2>2. CASE "delete" \in failed
    BY <2>1, <2>2 DEF Tables, SameElsewhere
  <2>3. CASE ~("delete" \in failed)
    <3>1. deleted = WithoutNodesOf(f, nodes, edges)
      BY <2>3
    <3>2. deleted = [nodes |-> deleted.nodes, edges |-> deleted.edges]
      BY <3>1 DEF WithoutNodesOf
    <3> QED
      BY <2>1, <3>1, <3>2, WithoutIs DEF Tables
  <2> QED
    BY <2>2, <2>3
<1>4. /\ Sound(node) /\ SameElsewhere(f, deleted, node)
      /\ node = [nodes |-> node.nodes, edges |-> node.edges]
      /\ failed = {} => /\ new.nodes \subseteq node.nodes
                        /\ \A n \in node.nodes : n \in deleted.nodes \/ n \in new.nodes
                        /\ node.edges \subseteq deleted.edges
  <2>1. CASE "nodes" \in failed
    BY <1>3, <2>1 DEF SameElsewhere
  <2>2. CASE ~("nodes" \in failed)
    <3>1. node = WithNodes(new.nodes, deleted)
      BY <2>2
    <3>2. node = [nodes |-> node.nodes, edges |-> node.edges]
      BY <3>1 DEF WithNodes
    <3> QED
      BY <1>2, <1>3, <3>1, <3>2, WithNodesIs
  <2> QED
    BY <2>1, <2>2
<1>5. /\ Sound(edge) /\ SameElsewhere(f, node, edge)
      /\ failed = {} => edge.nodes = node.nodes /\ edge.edges = node.edges \cup new.edges
  <2>1. CASE "edges" \in failed
    BY <1>4, <2>1 DEF SameElsewhere
  <2>2. CASE ~("edges" \in failed)
    <3>1. edge = WithEdges(new.edges, node)
      BY <2>2
    <3> QED
      BY <1>2, <1>4, <3>1, WithEdgesIs
  <2> QED
    BY <2>1, <2>2
<1>6. Sound(Tables')
  BY <1>1, <1>5 DEF Tables, Sound
<1>7. SameElsewhere(f, Tables, Tables')
  BY <1>1, <1>3, <1>4, <1>5 DEF Tables, SameElsewhere
<1>8. failed = {} => Has(f, Tables', c)
  <2> SUFFICES ASSUME failed = {} PROVE Has(f, Tables', c)
    OBVIOUS
  <2>1. \A n : n.file = f => (n \in nodes' <=> n \in new.nodes)
    BY <1>1, <1>3, <1>4, <1>5
  <2>2. \A e \in deleted.edges : e.source[1] # f
    BY <1>3
  <2>3. node.edges \subseteq deleted.edges
    BY <1>4
  <2>4. edges' = node.edges \cup new.edges
    BY <1>1, <1>5
  <2>5. \A e : e.source[1] = f => (e \in edges' <=> e \in new.edges)
    BY <2>2, <2>3, <2>4
  <2> QED
    BY <2>1, <2>5 DEF Has, Tables
<1>9. indexed' \in [GraphFiles -> Content]
  BY <1>1 DEF IInv, Content
<1>10. ASSUME NEW g \in GraphFiles \ refused' PROVE Has(g, Tables', indexed'[g])
  <2>1. CASE g = f
    BY <1>1, <1>8, <1>10, <2>1 DEF IInv
  <2>2. CASE g # f
    <3>1. indexed'[g] = indexed[g] /\ g \notin refused
      BY <1>1, <1>10, <2>2 DEF IInv
    <3>2. Has(g, Tables, indexed[g])
      BY <3>1 DEF IInv
    <3> QED
      BY <1>7, <2>2, <3>1, <3>2 DEF Has, SameElsewhere
  <2> QED
    BY <2>1, <2>2
<1> QED
  BY <1>6, <1>9, <1>10 DEF IInv

\* Every step; only indexing and clearing touch the tables.
LEMMA NextKeeps == IInv /\ [GraphNext]_graphVars => IInv'
<1> SUFFICES ASSUME IInv, [GraphNext]_graphVars PROVE IInv'
  OBVIOUS
<1>1. CASE UNCHANGED <<nodes, edges, indexed, refused>>
  BY <1>1 DEF IInv, Tables
<1>2. CASE IndexGraph
  BY <1>2, IndexGraphKeeps DEF IndexGraph
<1>3. CASE ClearGraph
  BY <1>3 DEF ClearGraph, IInv, Tables, Sound, Has, ExtractGraph, NoContents, Content
<1>4. CASE \E f \in GraphFiles : DeleteChunksOfFile(f)
  BY <1>1, <1>4 DEF DeleteChunksOfFile
<1>5. CASE AskGraph
  BY <1>1, <1>5 DEF AskGraph, FindCallers, FindDependents, TraceImports, GraphSearch
<1>6. CASE UNCHANGED graphVars
  BY <1>1, <1>6 DEF graphVars
<1> QED
  BY <1>2, <1>3, <1>4, <1>5, <1>6 DEF GraphNext

\* If no file's part is refused the tables have the parts of all files, and
\* nothing else.
LEMMA TogetherOfTheFiles == IInv => GraphIsOfTheFiles
<1> SUFFICES ASSUME IInv, refused = {} PROVE
      /\ nodes = UNION {NodesOf(f, indexed[f]) : f \in Present}
      /\ edges = UNION {EdgesOf(f, indexed[f]) : f \in Present}
  BY DEF GraphIsOfTheFiles
<1>1. ASSUME NEW f \in GraphFiles
      PROVE  /\ Has(f, Tables, indexed[f]) /\ IsOf(f, ExtractGraph(f, indexed[f]))
             /\ ExtractGraph(f, indexed[f]).nodes =
                  IF f \in Present THEN NodesOf(f, indexed[f]) ELSE {}
             /\ ExtractGraph(f, indexed[f]).edges =
                  IF f \in Present THEN EdgesOf(f, indexed[f]) ELSE {}
  <2>1. Has(f, Tables, indexed[f]) /\ indexed[f] \in Content
    BY DEF IInv
  <2> QED
    BY <2>1, ExtractIs DEF Present, ExtractGraph
<1>2. ASSUME NEW n PROVE n \in nodes <=> \E f \in Present : n \in NodesOf(f, indexed[f])
  <2>1. n \in nodes => n.file \in GraphFiles
    BY DEF IInv, Sound, Tables
  <2>2. ASSUME NEW f \in GraphFiles, n.file = f
        PROVE  n \in nodes <=> n \in ExtractGraph(f, indexed[f]).nodes
    BY <1>1, <2>2 DEF Has, Tables
  <2>3. ASSUME NEW f \in Present, n \in NodesOf(f, indexed[f]) PROVE n \in nodes
    <3>1. f \in GraphFiles
      BY DEF Present
    <3> QED
      BY <1>1, <2>2, <2>3, <3>1 DEF IsOf
  <2>4. ASSUME n \in nodes PROVE \E f \in Present : n \in NodesOf(f, indexed[f])
    BY <1>1, <2>1, <2>2, <2>4
  <2> QED
    BY <2>3, <2>4
<1>3. ASSUME NEW e PROVE e \in edges <=> \E f \in Present : e \in EdgesOf(f, indexed[f])
  <2>1. e \in edges => e.source[1] \in GraphFiles
    BY DEF IInv, Sound, Tables
  <2>2. ASSUME NEW f \in GraphFiles, e.source[1] = f
        PROVE  e \in edges <=> e \in ExtractGraph(f, indexed[f]).edges
    BY <1>1, <2>2 DEF Has, Tables
  <2>3. ASSUME NEW f \in Present, e \in EdgesOf(f, indexed[f]) PROVE e \in edges
    <3>1. f \in GraphFiles
      BY DEF Present
    <3> QED
      BY <1>1, <2>2, <2>3, <3>1 DEF IsOf
  <2>4. ASSUME e \in edges PROVE \E f \in Present : e \in EdgesOf(f, indexed[f])
    BY <1>1, <2>1, <2>2, <2>4
  <2> QED
    BY <2>3, <2>4
<1> QED
  BY <1>2, <1>3

\* The graph has what the files contained last, for any files, contents and
\* order in which they are indexed, cleared and indexed again.
THEOREM GraphOfFiles == GraphSpec => []GraphIsOfTheFiles
<1>1. GraphInit => IInv
  BY InitHolds DEF GraphInit
<1> QED
  BY <1>1, NextKeeps, TogetherOfTheFiles, PTL DEF GraphSpec

-----------------------------------------------------------------------------
(* The answers of the tools. *)

Defined(s) ==
  {f \in Present : s = Stem[f] \/ \E d \in Range(indexed[f].defs) : d.symbol = s}

Dependent == {"Import", "Extends", "Reference"}

\* Every edge has its source, and says who refers to what.
LEMMA EdgesAreReferences ==
  ASSUME IInv, refused = {}, NEW s, NEW types
  PROVE  /\ {e.source : e \in {x \in edges : x.target = s /\ x.type \in types}}
              = Referrers(s, types)
         /\ \A e \in edges : \E n \in nodes : n.id = e.source
<1>1. edges = UNION {EdgesOf(f, indexed[f]) : f \in Present}
  BY TogetherOfTheFiles DEF GraphIsOfTheFiles
<1>2. ASSUME NEW i PROVE
        i \in {e.source : e \in {x \in edges : x.target = s /\ x.type \in types}}
          <=> i \in Referrers(s, types)
  <2>1. ASSUME NEW f \in Present, NEW r \in Range(indexed[f].refs), r.target = s, r.type \in types
        PROVE  \E e \in edges : e.target = s /\ e.type \in types /\ e.source = SourceOf(f, indexed[f], r.at)
    <3> DEFINE e == [source |-> SourceOf(f, indexed[f], r.at), target |-> r.target,
                     type |-> r.type, at |-> r.at]
    <3>1. e \in edges
      BY <1>1 DEF EdgesOf
    <3> QED
      BY <2>1, <3>1
  <2>2. ASSUME NEW e \in edges, e.target = s, e.type \in types
        PROVE  e.source \in Referrers(s, types)
    <3>1. PICK f \in Present : e \in EdgesOf(f, indexed[f])
      BY <1>1
    <3>2. PICK r \in Range(indexed[f].refs) :
            e = [source |-> SourceOf(f, indexed[f], r.at), target |-> r.target,
                 type |-> r.type, at |-> r.at]
      BY <3>1 DEF EdgesOf
    <3>3. r.target = s /\ r.type \in types /\ e.source = SourceOf(f, indexed[f], r.at)
      BY <2>2, <3>2
    <3> QED
      BY <3>3 DEF Referrers
  <2>3. ASSUME i \in Referrers(s, types)
        PROVE  \E f \in Present : \E r \in Range(indexed[f].refs) :
                 r.target = s /\ r.type \in types /\ i = SourceOf(f, indexed[f], r.at)
    BY <2>3 DEF Referrers
  <2> QED
    BY <2>1, <2>2, <2>3
<1> QED
  BY <1>2 DEF IInv, Sound, Tables

\* A symbol has a node where it is defined.
LEMMA TargetsAreDefined ==
  ASSUME IInv, refused = {}, NEW s, NEW f \in GraphFiles \cup {NoFile}
  PROVE  Targets(s, f) # {} <=> IF f = NoFile THEN Defined(s) # {} ELSE f \in Defined(s)
<1>1. nodes = UNION {NodesOf(g, indexed[g]) : g \in Present}
  BY TogetherOfTheFiles DEF GraphIsOfTheFiles
<1>2. ASSUME NEW g
      PROVE  /\ \A n \in NodesOf(g, indexed[g]) : n.file = g
             /\ (\E n \in NodesOf(g, indexed[g]) : n.symbol = s) <=>
                  (s = Stem[g] \/ \E d \in Range(indexed[g].defs) : d.symbol = s)
  <2>1. \A i, t : Node(i, t, g).file = g /\ Node(i, t, g).symbol = t
    BY DEF Node
  <2>2. \A n : n \in NodesOf(g, indexed[g]) <=>
               \/ n = Node(ModuleId(g), Stem[g], g)
               \/ \E d \in Range(indexed[g].defs) : n = Node(NodeId(g, d.symbol), d.symbol, g)
    BY DEF NodesOf
  <2> QED
    BY <2>1, <2>2
<1>3. ASSUME NEW g PROVE g \in Defined(s) <=> \E n \in nodes : n.symbol = s /\ n.file = g
  BY <1>1, <1>2 DEF Defined
<1>4. NoFile \notin GraphFiles /\ \A n \in nodes : n.file \in GraphFiles
  BY GraphAssumption DEF IInv, Sound, Tables
<1> QED
  BY <1>3, <1>4 DEF Targets

\* Who the rows of an answer name, before any is cut off.
LEMMA RowsName ==
  ASSUME IInv, refused = {}, NEW s, NEW f \in GraphFiles \cup {NoFile}
  PROVE  /\ {row[1].id : row \in GetCallers(s)} = Referrers(s, {"Call"})
         /\ \A types : {row[1].id : row \in Referring(s, f, types)} =
              IF Targets(s, f) = {} THEN {} ELSE Referrers(s, types)
<1>1. ASSUME NEW types, NEW i
      PROVE  i \in Referrers(s, types) <=>
               \E n \in nodes, e \in edges :
                 n.id = i /\ n.id = e.source /\ e.target = s /\ e.type \in types
  BY EdgesAreReferences
<1>2. ASSUME NEW i
      PROVE  i \in {row[1].id : row \in GetCallers(s)} <=> i \in Referrers(s, {"Call"})
  <2>1. i \in {row[1].id : row \in GetCallers(s)} <=>
          \E n \in nodes, e \in edges :
            n.id = i /\ n.id = e.source /\ e.target = s /\ e.type \in {"Call"}
    <3>1. ASSUME NEW n \in nodes, NEW e \in edges,
                 n.id = i, n.id = e.source, e.target = s, e.type \in {"Call"}
          PROVE  i \in {row[1].id : row \in GetCallers(s)}
      <4>1. /\ <<n, e>> \in nodes \X edges /\ <<n, e>>[1] = n /\ <<n, e>>[2] = e
            /\ e.type = "Call"
        BY <3>1
      <4>2. <<n, e>> \in GetCallers(s)
        BY <3>1, <4>1 DEF GetCallers
      <4> QED
        BY <3>1, <4>1, <4>2
    <3>2. ASSUME NEW row \in GetCallers(s)
          PROVE  /\ row[1] \in nodes /\ row[2] \in edges /\ row[1].id = row[2].source
                 /\ row[2].target = s /\ row[2].type \in {"Call"}
      BY DEF GetCallers
    <3> QED
      BY <3>1, <3>2
  <2> QED
    BY <1>1, <2>1
<1>3. ASSUME NEW types, NEW i
      PROVE  i \in {row[1].id : row \in Referring(s, f, types)} <=>
               Targets(s, f) # {} /\ i \in Referrers(s, types)
  <2>1. i \in {row[1].id : row \in Referring(s, f, types)} <=>
          \E n \in nodes, e \in edges, t \in Targets(s, f) :
            n.id = i /\ n.id = e.source /\ e.target = s /\ e.type \in types
    <3>1. ASSUME NEW n \in nodes, NEW e \in edges, NEW t \in Targets(s, f),
                 n.id = i, n.id = e.source, e.target = s, e.type \in types
          PROVE  i \in {row[1].id : row \in Referring(s, f, types)}
      <4>1. /\ <<n, e, t>> \in nodes \X edges \X Targets(s, f)
            /\ <<n, e, t>>[1] = n /\ <<n, e, t>>[2] = e
        OBVIOUS
      <4>2. <<n, e, t>> \in Referring(s, f, types)
        BY <3>1, <4>1 DEF Referring
      <4> QED
        BY <3>1, <4>1, <4>2
    <3>2. ASSUME NEW row \in Referring(s, f, types)
          PROVE  /\ row[1] \in nodes /\ row[2] \in edges /\ row[3] \in Targets(s, f)
                 /\ row[1].id = row[2].source /\ row[2].target = s /\ row[2].type \in types
      BY DEF Referring
    <3> QED
      BY <3>1, <3>2
  <2> QED
    BY <1>1, <2>1
<1> QED
  BY <1>2, <1>3

\* What is kept of the rows.
LEMMA AnswerIs ==
  ASSUME NEW tool, NEW s, NEW f, NEW hint, NEW rows, NEW limit,
         Answer(tool, s, f, hint, rows, limit)
  PROVE  /\ asked'.tool = tool /\ asked'.symbol = s /\ asked'.file = f /\ asked'.hint = hint
         /\ asked'.found \subseteq {row[1].id : row \in rows}
         /\ asked'.all => asked'.found = {row[1].id : row \in rows}
<1>1. PICK kept \in SUBSET rows :
        asked' = [tool |-> tool, symbol |-> s, file |-> f, hint |-> hint, all |-> kept = rows,
                  found |-> {row[1].id : row \in kept}]
  BY DEF Answer, kSubset
<1> QED
  BY <1>1

\* The answer of a tool that was just asked.
LEMMA AnswersOf ==
  ASSUME IInv, AskGraph PROVE AnswersAreOfTheFiles'
<1> SUFFICES ASSUME refused = {}, asked'.tool \in {"callers", "dependents"}
             PROVE  AnswersAreOfTheFiles'
  BY DEF AskGraph, FindCallers, FindDependents, TraceImports, GraphSearch, AnswersAreOfTheFiles
<1>1. UNCHANGED <<nodes, edges, named, indexed, refused>>
  BY DEF AskGraph, FindCallers, FindDependents, TraceImports, GraphSearch
<1>2. Present' = Present /\ \A s, types : Referrers(s, types)' = Referrers(s, types)
  BY <1>1 DEF Present, Referrers
<1>3. PICK s \in GraphSymbols, limit \in Limits, f \in GraphFiles \cup {NoFile},
           valid \in BOOLEAN :
        FindCallers(s, f, valid, limit) \/ FindDependents(s, f, valid, limit)
  <2>1. ASSUME NEW s \in GraphSymbols, NEW limit \in Limits, NEW f \in GraphFiles \cup {NoFile},
               NEW valid \in BOOLEAN
        PROVE  ~TraceImports(s, f, valid, limit)
    <3>1. TraceImports(s, f, valid, limit) => asked'.tool = "imports"
      BY AnswerIs DEF TraceImports
    <3> QED
      BY <3>1
  <2>2. ASSUME NEW s \in GraphSymbols, NEW limit \in Limits, NEW kind
        PROVE  ~GraphSearch(kind, s, limit)
    <3>1. GraphSearch(kind, s, limit) => asked'.tool = "search"
      BY AnswerIs DEF GraphSearch
    <3> QED
      BY <3>1
  <2> QED
    BY <2>1, <2>2 DEF AskGraph
<1>4. NoFile \notin GraphFiles
  BY GraphAssumption
<1>5. CASE FindCallers(s, f, valid, limit)
  <2> DEFINE rows == IF f = NoFile THEN GetCallers(s) ELSE Hinted(valid, GetCallersFiltered(s, f))
  <2>1. /\ asked'.tool = "callers" /\ asked'.symbol = s /\ asked'.file = f
        /\ asked'.hint = (f = NoFile \/ valid)
        /\ asked'.found \subseteq {row[1].id : row \in rows}
        /\ asked'.all => asked'.found = {row[1].id : row \in rows}
    BY <1>5, AnswerIs DEF FindCallers
  <2>2. {row[1].id : row \in rows} =
          IF (f # NoFile => f \in Defined(s)) /\ (f = NoFile \/ valid)
          THEN Referrers(s, {"Call"}) ELSE {}
    <3>1. CASE f = NoFile
      BY <3>1, RowsName
    <3>2. CASE f # NoFile /\ valid
      BY <3>2, RowsName, TargetsAreDefined DEF Hinted, GetCallersFiltered
    <3>3. CASE f # NoFile /\ ~valid
      BY <3>3 DEF Hinted
    <3> QED
      BY <3>1, <3>2, <3>3
  <2> HIDE DEF rows
  <2> QED
    BY <1>1, <1>2, <2>1, <2>2 DEF AnswersAreOfTheFiles, Defined
<1>6. CASE FindDependents(s, f, valid, limit)
  <2> DEFINE rows == Hinted(f = NoFile \/ valid, GetDependents(s, f))
  <2>1. /\ asked'.tool = "dependents" /\ asked'.symbol = s /\ asked'.file = f
        /\ asked'.hint = (f = NoFile \/ valid)
        /\ asked'.found \subseteq {row[1].id : row \in rows}
        /\ asked'.all => asked'.found = {row[1].id : row \in rows}
    BY <1>6, AnswerIs DEF FindDependents
  <2>2. {row[1].id : row \in rows} =
          IF (IF f = NoFile THEN Defined(s) # {} ELSE f \in Defined(s)) /\ (f = NoFile \/ valid)
          THEN Referrers(s, Dependent) ELSE {}
    <3>1. CASE f = NoFile \/ valid
      BY <3>1, RowsName, TargetsAreDefined DEF Hinted, GetDependents, Dependent
    <3>2. CASE ~(f = NoFile \/ valid)
      BY <3>2 DEF Hinted
    <3> QED
      BY <3>1, <3>2
  <2> HIDE DEF rows
  <2> QED
    BY <1>1, <1>2, <2>1, <2>2 DEF AnswersAreOfTheFiles, Defined, Dependent
<1> QED
  BY <1>3, <1>5, <1>6

\* The graph tools name exactly who calls or depends on the symbol, or some of
\* them if a limit was reached: for any files, contents, questions and limits.
THEOREM AnswersAreRight == GraphSpec => []AnswersAreOfTheFiles
<1> DEFINE Inv == IInv /\ AnswersAreOfTheFiles
<1>1. GraphInit => Inv
  BY InitHolds DEF GraphInit, AnswersAreOfTheFiles
<1>2. Inv /\ [GraphNext]_graphVars => Inv'
  <2> SUFFICES ASSUME Inv, [GraphNext]_graphVars PROVE AnswersAreOfTheFiles'
    BY NextKeeps
  <2>1. CASE AskGraph
    BY <2>1, AnswersOf
  <2>2. CASE UNCHANGED graphVars
    BY <2>2 DEF graphVars, AnswersAreOfTheFiles, Present, Referrers
  <2>3. CASE GraphNext /\ ~AskGraph
    <3>1. asked'.tool = "none"
      BY <2>3 DEF GraphNext, IndexGraph, IndexGraphOf, DeleteChunksOfFile, ClearGraph
    <3> QED
      BY <3>1 DEF AnswersAreOfTheFiles
  <2> QED
    BY <2>1, <2>2, <2>3
<1> QED
  BY <1>1, <1>2, PTL DEF GraphSpec

-----------------------------------------------------------------------------
(* Chunker. *)

\* Where the lines of a stretch start, and the numbers under one of them.
Starts(f, from, to) == {from} \cup {p \in from + 1 .. to - 1 : p - 1 \in f.breaks}
Under(S, p) == {q \in S : q < p}
UpTo(S, p)  == {q \in S : q <= p}

\* o is S in ascending order.
Ascends(o, S, n) ==
  /\ n \in Nat /\ o \in [1 .. n -> S]
  /\ \A p \in S : \E i \in 1 .. n : o[i] = p
  /\ \A i, j \in 1 .. n : i < j => o[i] < o[j]
  /\ \A i \in 1 .. n : Cardinality(Under(S, o[i])) = i - 1

\* o are the starts of the n lines from one byte up to another.
Lines(f, from, to, o, n) ==
  /\ n \in Nat \ {0} /\ o \in [1 .. n -> from .. to - 1] /\ o[1] = from
  /\ \A i, j \in 1 .. n : i < j => o[i] < o[j]
  /\ n = LineAt(f, to - 1) - LineAt(f, from) + 1
  /\ \A i \in 1 .. n : LineAt(f, o[i]) = LineAt(f, from) + i - 1
  /\ \A i \in 1 .. n : \A p \in from .. to - 1 :
       o[i] <= p <=> LineAt(f, from) + i - 1 <= LineAt(f, p)

\* c is the window of a stretch whose first line is k that begins with its i-th
\* line: it has LineWindow lines of the stretch, or those that are left.
IsWindow(f, from, to, k, i, c) ==
  /\ c.from \in from .. to - 1 /\ c.to \in c.from + 1 .. to
  /\ c.startLine = LineAt(f, c.from) /\ c.endLine = LineAt(f, c.to - 1)
  /\ LineAt(f, c.from) = k + i - 1
  /\ \A p \in from .. to - 1 : c.from <= p <=> k + i - 1 <= LineAt(f, p)
  /\ \A p \in from .. to - 1 : p < c.to <=> LineAt(f, p) <= k + i + LineWindow - 2

\* How many lines in a row are found together.
Run(overlap) == IF overlap >= LineWindow THEN LineWindow ELSE overlap + 1

\* Two ranges that share no byte.
Disjoint(m, n) == m.to <= n.from \/ n.to <= m.from

\* m is n or inside it.
Within(m, n) == m = n \/ Inside(m, n)

\* What a chunkable child is made into, where g has what its children are.
ChildMade(f, g, m, c) ==
  IF Size(c) <= MaxChunk THEN {MakeChunk(f, c, ExtractParentContext(f, m))} ELSE g[c]

Made(f, g, m) == UNION {ChildMade(f, g, m, c) : c \in Chunkable(f, Children(f, m))}

SplitOf(f, overlap, g, m) ==
  IF Made(f, g, m) = {} THEN SplitIntoWindows(f, m, overlap, ExtractParentContext(f, m))
  ELSE Made(f, g, m)

\* The items of a node, where g has those of its children.
ItemsOf(f, g, m) ==
  IF m.wraps THEN UNION {g[c] : c \in Children(f, m)}
  ELSE IF m.outlined THEN {[name |-> m.name, startLine |-> LineAt(f, m.from)]}
  ELSE {}

UpToSize(f, k) == {m \in f.nodes : Size(m) <= k}

\* A chunk is where it says it is.
IsPlaced(f, c) ==
  /\ c.from \in Nat /\ c.to \in Nat /\ c.from < c.to /\ c.to <= f.size
  /\ c.startLine = LineAt(f, c.from)
  /\ c.endLine = LineAt(f, IF c.kind = "node" THEN c.to ELSE c.to - 1)

\* Two chunks have not the id of one, and only windows share text.
AreTwo(c, d) ==
  \/ c = d
  \/ c.to <= d.from \/ d.to <= c.from
  \/ c.kind # "node" /\ d.kind # "node" /\ c.from # d.from

\* c is of the windows of n, which are all in C.
IsOfWindows(f, overlap, C, n, c) ==
  /\ n \in f.nodes /\ n.from <= c.from /\ c.to <= n.to
  /\ \E context : SplitIntoWindows(f, n, overlap, context) \subseteq C

\* C is what m may be split into; what is around a node that is cut into
\* windows has chunkable children.
IsSplit(f, overlap, m, C) ==
  /\ \A c \in C : /\ IsPlaced(f, c) /\ c.kind \in {"node", "window"}
                  /\ m.from <= c.from /\ c.to <= m.to
  /\ \A c, d \in C : AreTwo(c, d)
  /\ \A c \in C : c.kind = "window" => \E n \in f.nodes :
       /\ IsOfWindows(f, overlap, C, n, c) /\ Within(n, m)
       /\ \A o \in f.nodes : Inside(n, o) /\ Within(o, m) => Chunkable(f, Children(f, o)) # {}

\* C is what a file with nodes may be made into.
IsOfTree(f, overlap, C) ==
  /\ \A c \in C : IsPlaced(f, c) /\ c.kind \in {"node", "window"}
  /\ \A c, d \in C : AreTwo(c, d)
  /\ \A c \in C : c.kind = "window" => \E n \in f.nodes :
       /\ IsOfWindows(f, overlap, C, n, c)
       /\ \A o \in f.nodes : Inside(n, o) => Chunkable(f, Children(f, o)) # {}

\* C is what a file may be cut into by its lines.
IsOfLines(f, C) ==
  /\ \A c \in C : IsPlaced(f, c) /\ c.kind = "line_block"
  /\ \A c, d \in C : AreTwo(c, d)

\* The declarations that no other is around, up to a node.
DeclaredIn(f, m) ==
  {n \in f.nodes : /\ Within(n, m) /\ n.outlined /\ ~n.wraps
                   /\ \A o \in f.nodes : Inside(n, o) /\ Within(o, m) => o.wraps}

Declared(f) ==
  {n \in f.nodes : n.outlined /\ ~n.wraps /\ \A o \in f.nodes : Inside(n, o) => o.wraps}

Item(f, n) == [name |-> n.name, startLine |-> LineAt(f, n.from)]

\* What was chunked is a file that was looked at.
ChunkInv ==
  chunking.file # <<>> =>
    \E f \in Sources, o \in Overlaps :
      chunking = [file |-> f, overlap |-> o, chunks |-> ChunkFile(f, o)]

\* The lines of a run, of those of a stretch, from the i-th.
RunEnd(o, n, run, i, to) == IF i + run <= n THEN o[i + run] ELSE to

-----------------------------------------------------------------------------
\* The numbers under a greater one are more.
LEMMA UnderIs ==
  ASSUME NEW S \in SUBSET Nat, IsFiniteSet(S), NEW p \in S, NEW q \in Int, p < q
  PROVE  /\ Cardinality(Under(S, p)) \in Nat /\ Cardinality(Under(S, q)) \in Nat
         /\ Cardinality(Under(S, p)) < Cardinality(Under(S, q))
         /\ Cardinality(Under(S, p)) < Cardinality(S)
<1>1. /\ IsFiniteSet(Under(S, p)) /\ IsFiniteSet(Under(S, q)) /\ IsFiniteSet(S)
      /\ Cardinality(Under(S, q)) <= Cardinality(S)
  BY FS_Subset DEF Under
<1>2. Under(S, p) \subseteq Under(S, q) /\ p \in Under(S, q) /\ p \notin Under(S, p)
  <2>1. \A x \in S : x \in Int
    OBVIOUS
  <2>2. \A x \in Under(S, p) : x \in S /\ x < p
    BY DEF Under
  <2>3. \A x \in S : x < q => x \in Under(S, q)
    BY DEF Under
  <2>4. \A x \in Int : x < p => x < q /\ x # p
    BY <2>1
  <2> QED
    BY <2>1, <2>2, <2>3, <2>4
<1>3. /\ Cardinality(Under(S, p)) <= Cardinality(Under(S, q))
      /\ Cardinality(Under(S, p)) # Cardinality(Under(S, q))
  BY <1>1, <1>2, FS_Subset
<1>4. /\ Cardinality(Under(S, p)) \in Nat /\ Cardinality(Under(S, q)) \in Nat
      /\ Cardinality(S) \in Nat
  BY <1>1, FS_CardinalityType
<1> QED
  BY <1>1, <1>3, <1>4

\* Choosing by the number of smaller ones puts a set in order.
LEMMA InOrder ==
  ASSUME NEW S \in SUBSET Nat, IsFiniteSet(S)
  PROVE  Ascends([i \in 1 .. Cardinality(S) |->
                    CHOOSE p \in S : Cardinality({q \in S : q < p}) = i - 1],
                 S, Cardinality(S))
<1>1. PICK n \in Nat : n = Cardinality(S)
  BY FS_CardinalityType
<1>2. PICK r : r = [p \in S |-> Cardinality(Under(S, p)) + 1]
  OBVIOUS
<1>3. \A p \in S : r[p] \in 1 .. n /\ r[p] = Cardinality(Under(S, p)) + 1
  <2> SUFFICES ASSUME NEW p \in S PROVE r[p] \in 1 .. n /\ r[p] = Cardinality(Under(S, p)) + 1
    OBVIOUS
  <2>1. p + 1 \in Int /\ p < p + 1
    OBVIOUS
  <2>2. Cardinality(Under(S, p)) \in Nat /\ Cardinality(Under(S, p)) < n
    BY <1>1, <2>1, UnderIs
  <2> QED
    BY <1>2, <2>2
<1>4. \A p, q \in S : p < q => r[p] < r[q]
  <2> SUFFICES ASSUME NEW p \in S, NEW q \in S, p < q PROVE r[p] < r[q]
    OBVIOUS
  <2>1. q \in Int
    OBVIOUS
  <2>2. /\ Cardinality(Under(S, p)) < Cardinality(Under(S, q))
        /\ Cardinality(Under(S, p)) \in Nat /\ Cardinality(Under(S, q)) \in Nat
    BY <2>1, UnderIs
  <2> QED
    BY <1>3, <2>2
<1>5. \A p, q \in S : r[p] = r[q] => p = q
  <2> SUFFICES ASSUME NEW p \in S, NEW q \in S, r[p] = r[q] PROVE p = q
    OBVIOUS
  <2>1. r[p] \in Nat /\ r[q] \in Nat
    BY <1>3
  <2> QED
    BY <1>4, <2>1
<1>6. r \in Surjection(S, 1 .. n)
  <2>1. r \in Injection(S, 1 .. n)
    BY <1>2, <1>3, <1>5 DEF Injection, IsInjective
  <2>2. IsFiniteSet(1 .. n) /\ Cardinality(1 .. n) = n
    BY FS_Interval
  <2> QED
    BY <1>1, <2>1, <2>2, FS_Injection
<1>7. \A i \in 1 .. n : \E p \in S : r[p] = i
  BY <1>6 DEF Surjection
<1>8. PICK o : o = [i \in 1 .. n |-> CHOOSE p \in S : Cardinality({q \in S : q < p}) = i - 1]
  OBVIOUS
<1>9. \A i \in 1 .. n : o[i] \in S /\ Cardinality(Under(S, o[i])) = i - 1 /\ r[o[i]] = i
  <2> SUFFICES ASSUME NEW i \in 1 .. n
               PROVE  o[i] \in S /\ Cardinality(Under(S, o[i])) = i - 1 /\ r[o[i]] = i
    OBVIOUS
  <2>1. PICK p \in S : r[p] = i
    BY <1>7
  <2>2. Cardinality(Under(S, p)) = i - 1
    <3>1. Cardinality(Under(S, p)) \in Nat
      <4>1. p + 1 \in Int /\ p < p + 1
        OBVIOUS
      <4> QED
        BY <4>1, UnderIs
    <3> QED
      BY <1>3, <2>1, <3>1
  <2>3. o[i] \in S /\ Cardinality(Under(S, o[i])) = i - 1
    BY <1>8, <2>2 DEF Under
  <2>4. r[o[i]] = (i - 1) + 1
    BY <1>3, <2>3
  <2> QED
    BY <2>3, <2>4
<1>10. \A p \in S : \E i \in 1 .. n : o[i] = p
  BY <1>3, <1>5, <1>9
<1>11. \A i, j \in 1 .. n : i < j => o[i] < o[j]
  <2> SUFFICES ASSUME NEW i \in 1 .. n, NEW j \in 1 .. n, i < j PROVE o[i] < o[j]
    OBVIOUS
  <2>1. o[i] \in Nat /\ o[j] \in Nat /\ o[i] \in S /\ o[j] \in S
    BY <1>9
  <2>2. o[i] # o[j]
    BY <1>9
  <2>3. ~(o[j] < o[i])
    BY <1>4, <1>9, <2>1
  <2> QED
    BY <2>1, <2>2, <2>3
<1>12. o \in [1 .. n -> S]
  BY <1>8, <1>9
<1> QED
  BY <1>1, <1>8, <1>9, <1>10, <1>11, <1>12 DEF Ascends

\* The i-th is not above p if there are at least i up to p.
LEMMA OrderIs ==
  ASSUME NEW S \in SUBSET Nat, IsFiniteSet(S), NEW n, NEW o, Ascends(o, S, n),
         NEW i \in 1 .. n, NEW p \in Int
  PROVE  o[i] <= p <=> i <= Cardinality(UpTo(S, p))
<1>0. \A x \in S : x \in Int
  OBVIOUS
<1>1. o[i] \in S /\ Cardinality(Under(S, o[i])) = i - 1 /\ n \in Nat /\ i \in Int
  BY DEF Ascends
<1>11. PICK a \in Int : a = o[i]
  BY <1>0, <1>1
<1>12. \A x : x \in Under(S, a) <=> x \in S /\ x < a
  BY DEF Under
<1>13. \A x : x \in UpTo(S, p) <=> x \in S /\ x <= p
  BY DEF UpTo
<1>2. IsFiniteSet(Under(S, o[i])) /\ IsFiniteSet(UpTo(S, p)) /\ IsFiniteSet(Under(S, o[i]) \cup {o[i]})
  BY FS_Subset, FS_AddElement DEF Under, UpTo
<1>3. Cardinality(Under(S, o[i]) \cup {o[i]}) = i
  <2>1. o[i] \notin Under(S, o[i])
    BY <1>11, <1>12
  <2> QED
    BY <1>1, <1>2, <2>1, FS_AddElement
<1>4. Cardinality(UpTo(S, p)) \in Nat
  BY <1>2, FS_CardinalityType
<1>5. CASE o[i] <= p
  <2>0. \A x \in Int : x < a \/ x = a => x <= p
    BY <1>5, <1>11
  <2>1. Under(S, o[i]) \cup {o[i]} \subseteq UpTo(S, p)
    BY <1>0, <1>1, <1>11, <1>12, <1>13, <2>0
  <2>2. i <= Cardinality(UpTo(S, p))
    BY <1>2, <1>3, <2>1, FS_Subset
  <2> QED
    BY <1>5, <2>2
<1>6. CASE ~(o[i] <= p)
  <2>0. \A x \in Int : x <= p => x < a
    BY <1>6, <1>11
  <2>1. UpTo(S, p) \subseteq Under(S, o[i])
    BY <1>0, <1>11, <1>12, <1>13, <2>0
  <2>2. Cardinality(UpTo(S, p)) <= i - 1
    BY <1>1, <1>2, <2>1, FS_Subset
  <2> QED
    BY <1>4, <1>6, <2>2
<1> QED
  BY <1>5, <1>6

\* What is in one of two sets that share nothing.
LEMMA Apart ==
  ASSUME NEW S, NEW T, IsFiniteSet(S), IsFiniteSet(T), S \cap T = {}
  PROVE  Cardinality(S \cup T) = Cardinality(S) + Cardinality(T)
<1>1. Cardinality(S \cup T) = Cardinality(S) + Cardinality(T) - Cardinality(S \cap T)
  BY FS_Union
<1>2. PICK c \in Nat, d \in Nat : c = Cardinality(S) /\ d = Cardinality(T)
  BY FS_CardinalityType
<1>3. Cardinality(S \cap T) = 0
  BY FS_EmptySet
<1> QED
  BY <1>1, <1>2, <1>3

\* The line ends of a file are numbers, and so many.
LEMMA BreaksAre ==
  ASSUME NEW f \in Sources
  PROVE  IsFiniteSet(f.breaks) /\ \A x \in f.breaks : x \in Nat
<1>1. f.size - 1 \in Int /\ 0 \in Int /\ f.breaks \subseteq 0 .. f.size - 1
  BY SourcesAssumption
<1>2. IsFiniteSet(0 .. f.size - 1)
  BY <1>1, FS_Interval
<1> QED
  BY <1>1, <1>2, FS_Subset

\* A later byte is not on an earlier line.
LEMMA LineAtIs ==
  ASSUME NEW f \in Sources, NEW p \in Int, NEW q \in Int, p <= q
  PROVE  /\ LineAt(f, p) \in Nat \ {0} /\ LineAt(f, q) \in Nat \ {0}
         /\ LineAt(f, p) <= LineAt(f, q)
<1>1. f.size \in Nat /\ f.breaks \subseteq 0 .. f.size - 1
  BY SourcesAssumption
<1>2. PICK b : b = f.breaks
  OBVIOUS
<1>3. IsFiniteSet(b)
  BY <1>2, BreaksAre
<1>4. PICK s, t : s = Under(b, p) /\ t = Under(b, q)
  OBVIOUS
<1>5. s \subseteq t /\ t \subseteq b
  <2>1. \A x \in b : x \in Int
    BY <1>1, <1>2
  <2>2. \A x \in Int : x < p => x < q
    OBVIOUS
  <2> QED
    BY <1>4, <2>1, <2>2 DEF Under
<1>6. IsFiniteSet(t) /\ IsFiniteSet(s) /\ Cardinality(s) <= Cardinality(t)
  <2>1. IsFiniteSet(t)
    BY <1>3, <1>5, FS_Subset
  <2> QED
    BY <1>5, <2>1, FS_Subset
<1>7. Cardinality(s) \in Nat /\ Cardinality(t) \in Nat
  BY <1>6, FS_CardinalityType
<1>8. LineAt(f, p) = 1 + Cardinality(s) /\ LineAt(f, q) = 1 + Cardinality(t)
  BY <1>2, <1>4 DEF LineAt, Under
<1> QED
  BY <1>6, <1>7, <1>8

\* The first line is line 1.
LEMMA FirstLine ==
  ASSUME NEW f \in Sources
  PROVE  LineAt(f, 0) = 1
<1>1. f.size \in Nat /\ f.breaks \subseteq 0 .. f.size - 1
  BY SourcesAssumption
<1>2. {b \in f.breaks : b < 0} = {}
  BY <1>1
<1> QED
  BY <1>2, FS_EmptySet DEF LineAt

\* As many lines start in a stretch up to a byte as lines lie between.
LEMMA LinesBetween ==
  ASSUME NEW f \in Sources, NEW from \in Nat, NEW to \in Nat, NEW p \in from .. to - 1
  PROVE  Cardinality(UpTo(Starts(f, from, to), p)) = LineAt(f, p) - LineAt(f, from) + 1
<1>1. f.size \in Nat /\ f.breaks \subseteq 0 .. f.size - 1
  BY SourcesAssumption
<1>2. PICK b : b = f.breaks
  OBVIOUS
<1>3. IsFiniteSet(b) /\ \A x \in b : x \in Int
  BY <1>2, BreaksAre
<1>4. PICK s, t, m : /\ s = Under(b, from) /\ t = Under(b, p)
                     /\ m = {x \in b : from <= x /\ x < p}
  OBVIOUS
<1>5. p \in Int /\ from \in Int /\ from <= p /\ p <= to - 1
  OBVIOUS
<1>6. s \cup m = t /\ s \cap m = {}
  <2>1. \A x \in Int : x < p <=> (x < from \/ (from <= x /\ x < p))
    BY <1>5
  <2>2. \A x \in Int : ~(x < from /\ from <= x)
    BY <1>5
  <2> QED
    BY <1>3, <1>4, <2>1, <2>2 DEF Under
<1>7. IsFiniteSet(s) /\ IsFiniteSet(m)
  BY <1>3, <1>4, FS_Subset DEF Under
<1>8. Cardinality(s) \in Nat /\ Cardinality(m) \in Nat
  BY <1>7, FS_CardinalityType
<1>9. Cardinality(t) = Cardinality(s) + Cardinality(m)
  BY <1>6, <1>7, Apart
<1>10. LineAt(f, p) - LineAt(f, from) = Cardinality(m)
  <2>1. LineAt(f, p) = 1 + Cardinality(t) /\ LineAt(f, from) = 1 + Cardinality(s)
    BY <1>2, <1>4 DEF LineAt, Under
  <2> QED
    BY <1>8, <1>9, <2>1
<1>11. PICK a : a = {x + 1 : x \in m}
  OBVIOUS
<1>12. IsFiniteSet(a) /\ Cardinality(a) = Cardinality(m)
  <2>1. PICK g : g = [x \in m |-> x + 1]
    OBVIOUS
  <2>2. g \in Bijection(m, a)
    <3>1. \A x \in m : x \in Int
      BY <1>3, <1>4
    <3>2. \A x, y \in m : g[x] = g[y] => x = y
      BY <2>1, <3>1
    <3>3. \A y \in a : \E x \in m : g[x] = y
      BY <1>11, <2>1
    <3>4. g \in [m -> a]
      BY <1>11, <2>1
    <3> QED
      BY <3>2, <3>3, <3>4 DEF Bijection, Injection, Surjection, IsInjective
  <2> QED
    BY <1>7, <2>2, FS_Bijection DEF ExistsBijection
<1>13. from \notin a /\ UpTo(Starts(f, from, to), p) = a \cup {from}
  <2>1. \A x : x \in m <=> (x \in b /\ from <= x /\ x < p)
    BY <1>4
  <2>2. \A x : x \in a <=> (x \in Int /\ x - 1 \in m)
    <3>1. \A x \in m : x \in Int
      BY <1>3, <1>4
    <3> QED
      BY <1>11, <3>1
  <2>3. from \notin a
    BY <1>5, <2>1, <2>2
  <2>4. \A x : x \in Starts(f, from, to) <=>
               (x = from \/ (x \in from + 1 .. to - 1 /\ x - 1 \in b))
    BY <1>2 DEF Starts
  <2>5. \A x \in Int : (x = from \/ (x \in from + 1 .. to - 1 /\ x - 1 \in b)) /\ x <= p
                       <=> x = from \/ (x - 1 \in b /\ from <= x - 1 /\ x - 1 < p)
    BY <1>5
  <2>6. \A x : x \in UpTo(Starts(f, from, to), p) <=> x \in Starts(f, from, to) /\ x <= p
    BY DEF UpTo
  <2>7. \A x : x \in UpTo(Starts(f, from, to), p) <=> x = from \/ x \in a
    BY <1>5, <2>1, <2>2, <2>4, <2>5, <2>6
  <2> QED
    BY <2>3, <2>7
<1>14. Cardinality(a \cup {from}) = Cardinality(a) + 1
  BY <1>12, <1>13, FS_AddElement
<1> QED
  BY <1>8, <1>10, <1>12, <1>13, <1>14

\* The starts of the lines of a stretch, in order, and the lines they are of.
LEMMA LinesAre ==
  ASSUME NEW f \in Sources, NEW from \in Nat, NEW to \in Nat, from < to
  PROVE  Lines(f, from, to, LineOffsets(f, from, to), Len(LineOffsets(f, from, to)))
<1>1. PICK S : S = Starts(f, from, to)
  OBVIOUS
<1>2. S \in SUBSET (from .. to - 1) /\ from \in S
  BY <1>1 DEF Starts
<1>15. \A x \in S : x \in Int /\ from <= x
  BY <1>2
<1>3. S \in SUBSET Nat /\ IsFiniteSet(S)
  <2>1. \A x \in from .. to - 1 : x \in Nat
    OBVIOUS
  <2>2. from \in Int /\ to - 1 \in Int
    OBVIOUS
  <2>3. IsFiniteSet(from .. to - 1)
    BY <2>2, FS_Interval
  <2> QED
    BY <1>2, <2>1, <2>3, FS_Subset
<1>4. PICK n \in Nat : n = Cardinality(S)
  BY <1>3, FS_CardinalityType
<1>5. PICK o : o = LineOffsets(f, from, to)
  OBVIOUS
<1>6. Ascends(o, S, n)
  BY <1>1, <1>3, <1>4, <1>5, InOrder DEF LineOffsets, Starts
<1>7. /\ o \in [1 .. n -> S] /\ \A p \in S : \E i \in 1 .. n : o[i] = p
      /\ \A i, j \in 1 .. n : i < j => o[i] < o[j]
  BY <1>6 DEF Ascends
<1>8. Len(o) = n
  BY <1>5, <1>1, <1>4 DEF LineOffsets, Starts
<1>9. PICK k \in Nat \ {0} : k = LineAt(f, from)
  BY LineAtIs
<1>10. \A i \in 1 .. n : \A p \in from .. to - 1 : o[i] <= p <=> k + i - 1 <= LineAt(f, p)
  <2> SUFFICES ASSUME NEW i \in 1 .. n, NEW p \in from .. to - 1
               PROVE  o[i] <= p <=> k + i - 1 <= LineAt(f, p)
    OBVIOUS
  <2>1. Cardinality(UpTo(S, p)) = LineAt(f, p) - k + 1
    BY <1>1, <1>9, LinesBetween
  <2>2. o[i] <= p <=> i <= Cardinality(UpTo(S, p))
    BY <1>3, <1>6, OrderIs
  <2>3. LineAt(f, p) \in Nat
    BY LineAtIs
  <2> QED
    BY <2>1, <2>2, <2>3
<1>11. n # 0 /\ o[1] = from
  <2>1. PICK i \in 1 .. n : o[i] = from
    BY <1>2, <1>7
  <2>2. 1 \in 1 .. n
    BY <2>1
  <2>4. o[1] \in S
    BY <1>7, <2>2
  <2>5. o[1] \in Int /\ from <= o[1]
    BY <1>15, <2>4
  <2>3. ~(1 < i)
    BY <1>7, <2>1, <2>2, <2>5
  <2> QED
    BY <2>1, <2>2, <2>3, <2>5
<1>12. n = LineAt(f, to - 1) - k + 1
  <2>1. Cardinality(UpTo(S, to - 1)) = LineAt(f, to - 1) - k + 1
    BY <1>1, <1>9, LinesBetween
  <2>2. UpTo(S, to - 1) = S
    <3>1. \A x \in S : x <= to - 1
      BY <1>2
    <3> QED
      BY <3>1 DEF UpTo
  <2> QED
    BY <1>4, <2>1, <2>2
<1>13. \A i \in 1 .. n : LineAt(f, o[i]) = k + i - 1
  <2> SUFFICES ASSUME NEW i \in 1 .. n PROVE LineAt(f, o[i]) = k + i - 1
    OBVIOUS
  <2>1. PICK a \in from .. to - 1 : a = o[i]
    BY <1>2, <1>7
  <2>2. LineAt(f, a) \in Nat /\ k + i - 1 <= LineAt(f, a)
    BY <1>10, <2>1, LineAtIs
  <2>3. CASE i < n
    <3>1. i + 1 \in 1 .. n /\ i < i + 1
      BY <2>3
    <3>4. o[i + 1] \in S /\ o[i] < o[i + 1]
      BY <1>7, <3>1
    <3>2. o[i + 1] \in Int /\ a < o[i + 1]
      BY <1>15, <2>1, <3>4
    <3>3. ~(k + (i + 1) - 1 <= LineAt(f, a))
      BY <1>10, <2>1, <3>1, <3>2
    <3> QED
      BY <2>1, <2>2, <3>3
  <2>4. CASE i = n
    <3>1. LineAt(f, a) <= LineAt(f, to - 1) /\ LineAt(f, to - 1) \in Nat
      BY LineAtIs
    <3> QED
      BY <1>12, <2>1, <2>2, <2>4, <3>1
  <2> QED
    BY <2>3, <2>4
<1>14. o \in [1 .. n -> from .. to - 1]
  BY <1>2, <1>7
<1> QED
  BY <1>5, <1>7, <1>8, <1>9, <1>10, <1>11, <1>12, <1>13, <1>14 DEF Lines

\* What a window has.
LEMMA WindowIs ==
  ASSUME NEW f \in Sources, NEW from \in Nat, NEW to \in Nat, from < to, NEW kind, NEW context,
         NEW i \in 1 .. Len(LineOffsets(f, from, to)), NEW first, first = LineAt(f, from)
  PROVE  /\ IsWindow(f, from, to, LineAt(f, from), i, Window(f, from, to, i, first, kind, context))
         /\ Window(f, from, to, i, first, kind, context).kind = kind
<1>1. PICK o, n : /\ o = LineOffsets(f, from, to) /\ n = Len(o) /\ i \in 1 .. n
                  /\ Lines(f, from, to, o, n)
  BY LinesAre
<1>2. PICK k \in Nat \ {0} : k = LineAt(f, from)
  BY LineAtIs
<1>3. /\ n \in Nat \ {0} /\ o \in [1 .. n -> from .. to - 1]
      /\ \A x, y \in 1 .. n : x < y => o[x] < o[y]
      /\ n = LineAt(f, to - 1) - k + 1
      /\ \A x \in 1 .. n : LineAt(f, o[x]) = k + x - 1
      /\ \A x \in 1 .. n : \A p \in from .. to - 1 : o[x] <= p <=> k + x - 1 <= LineAt(f, p)
  BY <1>1, <1>2 DEF Lines
<1>4. LineWindow \in Nat \ {0} /\ i \in Nat \ {0}
  BY <1>1, ChunkerAssumption
<1>5. PICK e : e = IF i + LineWindow - 1 < n THEN i + LineWindow - 1 ELSE n
  OBVIOUS
<1>6. e \in Nat /\ i \in Nat /\ n \in Nat /\ i <= e /\ 1 <= e /\ e <= n /\ e \in 1 .. n
  BY <1>1, <1>3, <1>4, <1>5
<1>18. Window(f, from, to, i, first, kind, context) =
         [from |-> o[i], to |-> IF e < n THEN o[e + 1] ELSE to,
          startLine |-> first + i - 1, endLine |-> first + e - 1,
          kind |-> kind, symbol |-> NoName, context |-> context]
  BY <1>1, <1>5 DEF Window
<1>7. PICK c : /\ c = Window(f, from, to, i, first, kind, context)
               /\ c.from = o[i] /\ c.to = (IF e < n THEN o[e + 1] ELSE to)
               /\ c.startLine = first + i - 1 /\ c.endLine = first + e - 1 /\ c.kind = kind
  BY <1>18
<1>8. c.from \in from .. to - 1
  BY <1>1, <1>3, <1>7
<1>9. PICK a \in from .. to - 1 : a = o[e]
  BY <1>3, <1>6
<1>10. c.to \in a + 1 .. to
  <2>1. CASE e < n
    <3>1. e + 1 \in 1 .. n /\ e < e + 1
      BY <1>6, <2>1
    <3>2. o[e + 1] \in from .. to - 1 /\ o[e] < o[e + 1]
      BY <1>3, <1>6, <3>1
    <3> QED
      BY <1>7, <1>9, <2>1, <3>2
  <2>2. CASE ~(e < n)
    BY <1>7, <1>9, <2>2
  <2> QED
    BY <2>1, <2>2
<1>11. c.from <= a
  <2>1. CASE e = i
    BY <1>7, <1>8, <1>9, <2>1
  <2>2. CASE i < e
    BY <1>1, <1>3, <1>6, <1>7, <1>8, <1>9, <2>2
  <2> QED
    BY <1>4, <1>6, <2>1, <2>2
<1>12. c.to \in c.from + 1 .. to
  BY <1>8, <1>9, <1>10, <1>11
<1>13. \A p \in from .. to - 1 : p < c.to <=> LineAt(f, p) <= k + e - 1
  <2> SUFFICES ASSUME NEW p \in from .. to - 1 PROVE p < c.to <=> LineAt(f, p) <= k + e - 1
    OBVIOUS
  <2>1. /\ LineAt(f, p) \in Nat /\ LineAt(f, to - 1) \in Nat
        /\ LineAt(f, p) <= LineAt(f, to - 1)
    BY LineAtIs
  <2>2. CASE e < n
    <3>1. e + 1 \in 1 .. n
      BY <1>6, <2>2
    <3>2. c.to <= p <=> k + (e + 1) - 1 <= LineAt(f, p)
      BY <1>3, <1>7, <2>2, <3>1
    <3> QED
      BY <1>6, <1>12, <2>1, <3>2
  <2>3. CASE ~(e < n)
    <3>1. c.to = to /\ e = n
      BY <1>6, <1>7, <2>3
    <3> QED
      BY <1>3, <2>1, <3>1
  <2> QED
    BY <2>2, <2>3
<1>14. \A p \in from .. to - 1 : p < c.to <=> LineAt(f, p) <= k + i + LineWindow - 2
  <2> SUFFICES ASSUME NEW p \in from .. to - 1
               PROVE  p < c.to <=> LineAt(f, p) <= k + i + LineWindow - 2
    OBVIOUS
  <2>1. /\ LineAt(f, p) \in Nat /\ LineAt(f, to - 1) \in Nat
        /\ LineAt(f, p) <= LineAt(f, to - 1)
    BY LineAtIs
  <2>2. p < c.to <=> LineAt(f, p) <= k + e - 1
    BY <1>13
  <2>3. CASE i + LineWindow - 1 < n
    BY <1>4, <1>5, <2>1, <2>2, <2>3
  <2>4. CASE ~(i + LineWindow - 1 < n)
    <3>1. e = n
      BY <1>5, <2>4
    <3> QED
      BY <1>3, <1>4, <2>1, <2>2, <2>4, <3>1
  <2> QED
    BY <2>3, <2>4
<1>15. c.endLine = LineAt(f, c.to - 1)
  <2>1. c.to - 1 \in from .. to - 1 /\ a <= c.to - 1 /\ c.to - 1 < c.to
    BY <1>9, <1>10
  <2>2. LineAt(f, c.to - 1) <= k + e - 1
    BY <1>13, <2>1
  <2>3. k + e - 1 <= LineAt(f, c.to - 1)
    BY <1>3, <1>6, <1>9, <2>1
  <2>4. LineAt(f, c.to - 1) \in Nat
    BY <2>1, LineAtIs
  <2> QED
    BY <1>2, <1>6, <1>7, <2>2, <2>3, <2>4
<1>16. c.startLine = LineAt(f, c.from) /\ LineAt(f, c.from) = k + i - 1
  BY <1>1, <1>2, <1>3, <1>7
<1>17. \A p \in from .. to - 1 : c.from <= p <=> k + i - 1 <= LineAt(f, p)
  BY <1>1, <1>3, <1>7
<1> QED
  BY <1>2, <1>7, <1>8, <1>12, <1>14, <1>15, <1>16, <1>17 DEF IsWindow

\* Windows are a step apart, and the step and the run make up a window.
LEMMA StepIs ==
  ASSUME NEW overlap \in Overlaps
  PROVE  /\ Step(overlap) \in Nat \ {0} /\ Run(overlap) \in Nat \ {0}
         /\ Step(overlap) + Run(overlap) = LineWindow + 1
<1>1. overlap \in Nat /\ LineWindow \in Nat \ {0}
  BY ChunkerAssumption
<1> QED
  BY <1>1 DEF Step, Run

\* The first window that has the line j, or that reaches the end, has all that
\* are in a run with j; and none before it reaches the end.
LEMMA StartFor ==
  ASSUME NEW overlap \in Overlaps, NEW n \in Nat, NEW j \in 1 .. n
  PROVE  \E i \in WindowStarts(n, overlap) :
           /\ i <= j
           /\ j + Run(overlap) - 1 <= i + LineWindow - 1 \/ n <= i + LineWindow - 1
           /\ i = 1 \/ i - Step(overlap) + LineWindow - 1 < n
<1>1. PICK s \in Nat \ {0}, r \in Nat \ {0}, w \in Nat \ {0} :
        s = Step(overlap) /\ r = Run(overlap) /\ w = LineWindow /\ s + r = w + 1
  BY StepIs, ChunkerAssumption
<1>2. PICK S : S = {k \in Nat : 1 + k * s + s > j \/ 1 + k * s + w - 1 >= n}
  OBVIOUS
<1>3. S # {}
  <2>1. j \in Nat /\ j * s >= j
    BY <1>1
  <2>2. j * s \in Nat
    BY <1>1, <2>1
  <2>3. 1 + j * s + s > j
    BY <1>1, <2>1, <2>2
  <2>4. j \in S
    BY <1>2, <2>1, <2>3
  <2> QED
    BY <2>4
<1>4. PICK k \in S : \A x \in S : k <= x
  BY <1>2, <1>3, Least
<1>5. k \in Nat /\ (1 + k * s + s > j \/ 1 + k * s + w - 1 >= n)
  BY <1>2, <1>4
<1>6. PICK i \in Nat \ {0} : i = 1 + k * s /\ k <= k * s
  <2>1. k * s \in Nat /\ k <= k * s
    BY <1>1, <1>5
  <2> QED
    BY <2>1
<1>7. i + s > j \/ i + w - 1 >= n
  BY <1>5, <1>6
<1>8. i <= j /\ (i = 1 \/ i - s + w - 1 < n)
  <2>1. CASE k = 0
    <3>1. k * s = 0
      BY <1>1, <2>1
    <3> QED
      BY <1>6, <3>1
  <2>2. CASE k # 0
    <3>1. k - 1 \in Nat /\ ~(k <= k - 1)
      BY <1>5, <2>2
    <3>2. ~(1 + (k - 1) * s + s > j) /\ ~(1 + (k - 1) * s + w - 1 >= n)
      BY <1>2, <1>4, <3>1
    <3>3. (k - 1) * s = k * s - s
      BY <1>1, <1>5
    <3>4. 1 + (k - 1) * s = i - s
      BY <1>1, <1>5, <1>6, <3>3
    <3>5. ~(i - s + s > j) /\ ~(i - s + w - 1 >= n)
      BY <3>2, <3>4
    <3> QED
      BY <1>1, <1>6, <3>5
  <2> QED
    BY <2>1, <2>2
<1>9. j + r - 1 <= i + w - 1 \/ n <= i + w - 1
  BY <1>1, <1>7
<1>10. i \in WindowStarts(n, overlap)
  <2>1. i \in 1 .. n /\ k \in 0 .. n
    <3>1. k <= i
      <4>1. k * s \in Nat
        BY <1>1, <1>5
      <4> QED
        BY <1>5, <1>6, <4>1
    <3> QED
      BY <1>5, <1>8, <3>1
  <2> QED
    BY <1>1, <1>6, <2>1 DEF WindowStarts
<1> QED
  BY <1>1, <1>8, <1>9, <1>10

\* What is on the lines of a run is in one window.
LEMMA RunIsCovered ==
  ASSUME NEW f \in Sources, NEW from \in Nat, NEW to \in Nat, from < to,
         NEW overlap \in Overlaps, NEW a \in from .. to - 1, NEW b \in a + 1 .. to,
         LineAt(f, b - 1) - LineAt(f, a) < Run(overlap)
  PROVE  \E i \in WindowStarts(Len(LineOffsets(f, from, to)), overlap) :
           /\ i = 1 \/ i - Step(overlap) + LineWindow - 1 < Len(LineOffsets(f, from, to))
           /\ \A c : IsWindow(f, from, to, LineAt(f, from), i, c) => c.from <= a /\ b <= c.to
<1>1. PICK n : n = Len(LineOffsets(f, from, to)) /\ Lines(f, from, to, LineOffsets(f, from, to), n)
  BY LinesAre
<1>2. PICK k \in Nat \ {0} : k = LineAt(f, from)
  BY LineAtIs
<1>3. n \in Nat \ {0} /\ n = LineAt(f, to - 1) - k + 1
  BY <1>1, <1>2 DEF Lines
<1>4. PICK x \in Nat, y \in Nat, z \in Nat :
        /\ x = LineAt(f, a) /\ y = LineAt(f, b - 1) /\ z = LineAt(f, to - 1)
        /\ k <= x /\ x <= y /\ y <= z
  <2>1. from \in Int /\ a \in Int /\ b - 1 \in Int /\ to - 1 \in Int
    OBVIOUS
  <2>2. from <= a /\ a <= b - 1 /\ b - 1 <= to - 1
    OBVIOUS
  <2> QED
    BY <1>2, <2>1, <2>2, LineAtIs
<1>5. PICK r \in Nat \ {0}, w \in Nat \ {0} : r = Run(overlap) /\ w = LineWindow
  BY StepIs, ChunkerAssumption
<1>6. PICK j \in 1 .. n : j = x - k + 1
  BY <1>3, <1>4
<1>7. PICK i \in WindowStarts(n, overlap) :
        /\ i <= j
        /\ j + r - 1 <= i + w - 1 \/ n <= i + w - 1
        /\ i = 1 \/ i - Step(overlap) + LineWindow - 1 < n
  BY <1>3, <1>5, <1>6, StartFor
<1>8. i \in 1 .. n
  BY <1>7 DEF WindowStarts
<1>9. k + i - 1 <= x
  BY <1>6, <1>7, <1>8
<1>10. y <= k + i + w - 2
  <2>1. y - x < r
    BY <1>4, <1>5
  <2> QED
    BY <1>3, <1>4, <1>6, <1>7, <1>8, <2>1
<1>11. \A c : IsWindow(f, from, to, k, i, c) => c.from <= a /\ b <= c.to
  <2> SUFFICES ASSUME NEW c, IsWindow(f, from, to, k, i, c) PROVE c.from <= a /\ b <= c.to
    OBVIOUS
  <2>1. c.from <= a <=> k + i - 1 <= x
    BY <1>4 DEF IsWindow
  <2>2. b - 1 \in from .. to - 1
    OBVIOUS
  <2>3. b - 1 < c.to <=> y <= k + i + w - 2
    BY <1>4, <1>5, <2>2 DEF IsWindow
  <2>4. c.to \in Int
    BY DEF IsWindow
  <2> QED
    BY <1>9, <1>10, <2>1, <2>3, <2>4
<1> QED
  BY <1>1, <1>2, <1>7, <1>11

\* A node inside another has fewer bytes.
LEMMA NodesAre ==
  ASSUME NEW f \in Sources, NEW n \in f.nodes
  PROVE  /\ n.from \in Nat /\ n.to \in Nat /\ n.from < n.to /\ n.to <= f.size /\ f.size \in Nat
         /\ Size(n) \in Nat \ {0} /\ Size(n) <= f.size
<1>1. f.size \in Nat /\ n.from \in Nat /\ n.to \in n.from + 1 .. f.size
  BY SourcesAssumption
<1> QED
  BY <1>1 DEF Size

\* A node inside another has fewer bytes, and does not have it inside.
LEMMA InsideIs ==
  ASSUME NEW f \in Sources, NEW m \in f.nodes, NEW n \in f.nodes, Inside(m, n)
  PROVE  /\ Size(m) < Size(n) /\ ~Inside(n, m) /\ m # n
         /\ n.from <= m.from /\ m.to <= n.to
         /\ \A o \in f.nodes : Inside(n, o) => Inside(m, o)
<1>1. /\ m.from \in Nat /\ m.to \in Nat /\ m.from < m.to
      /\ n.from \in Nat /\ n.to \in Nat /\ n.from < n.to
  BY NodesAre
<1>2. n.from <= m.from /\ m.to <= n.to /\ m # n
  BY DEF Inside
<1>3. ~(m.from = n.from /\ m.to = n.to)
  BY <1>2, ChunkerAssumption
<1>4. Size(m) < Size(n) /\ ~Inside(n, m)
  BY <1>1, <1>2, <1>3 DEF Size, Inside
<1>5. ASSUME NEW o \in f.nodes, Inside(n, o) PROVE Inside(m, o)
  <2>1. o.from \in Nat /\ o.to \in Nat
    BY NodesAre
  <2>2. o.from <= n.from /\ n.to <= o.to /\ m # o
    BY <1>4, <1>5 DEF Inside
  <2> QED
    BY <1>1, <1>2, <2>1, <2>2 DEF Inside
<1> QED
  BY <1>2, <1>4, <1>5

\* Two nodes that share a byte are inside each other, or the same.
LEMMA Nested ==
  ASSUME NEW f \in Sources, NEW m \in f.nodes, NEW n \in f.nodes
  PROVE  m = n \/ Inside(m, n) \/ Inside(n, m) \/ Disjoint(m, n)
BY SourcesAssumption DEF Inside, Disjoint

\* Nodes around a range of bytes are inside each other, or the same.
LEMMA AroundIs ==
  ASSUME NEW f \in Sources, NEW m \in f.nodes, NEW n \in f.nodes, NEW a \in Int, NEW b \in Int, a < b,
         m.from <= a, b <= m.to, n.from <= a, b <= n.to
  PROVE  m = n \/ Inside(m, n) \/ Inside(n, m)
<1>1. m.from \in Nat /\ m.to \in Nat /\ n.from \in Nat /\ n.to \in Nat
  BY NodesAre
<1>2. ~Disjoint(m, n)
  BY <1>1 DEF Disjoint
<1> QED
  BY <1>2, Nested

\* Nodes around a node are inside each other, or the same.
LEMMA Around ==
  ASSUME NEW f \in Sources, NEW m \in f.nodes, NEW n \in f.nodes, NEW o \in f.nodes,
         Within(o, m), Within(o, n)
  PROVE  m = n \/ Inside(m, n) \/ Inside(n, m)
<1>1. o.from \in Nat /\ o.to \in Nat /\ o.from < o.to
  BY NodesAre
<1>2. m.from \in Nat /\ m.to \in Nat /\ n.from \in Nat /\ n.to \in Nat
  BY NodesAre
<1>3. m.from <= o.from /\ o.to <= m.to /\ n.from <= o.from /\ o.to <= n.to
  BY <1>1 DEF Within, Inside
<1>4. o.from \in Int /\ o.to \in Int
  BY <1>1
<1> QED
  BY <1>1, <1>3, <1>4, AroundIs

\* Of some nodes, one is inside none of the others.
LEMMA Greatest ==
  ASSUME NEW f \in Sources, NEW N \in SUBSET f.nodes, N # {}
  PROVE  \E c \in N : \A o \in N : ~Inside(c, o)
<1>1. PICK S : S = {f.size - Size(n) : n \in N}
  OBVIOUS
<1>2. \A n \in N : f.size - Size(n) \in Nat
  <2> SUFFICES ASSUME NEW n \in N PROVE f.size - Size(n) \in Nat
    OBVIOUS
  <2>1. f.size \in Nat /\ Size(n) \in Nat /\ Size(n) <= f.size
    BY NodesAre
  <2> QED
    BY <2>1
<1>3. S \in SUBSET Nat /\ S # {}
  BY <1>1, <1>2
<1>4. PICK k \in S : \A x \in S : k <= x
  BY <1>3, Least
<1>5. PICK c \in N : k = f.size - Size(c)
  BY <1>1, <1>4
<1>6. ASSUME NEW o \in N, Inside(c, o) PROVE FALSE
  <2>1. Size(c) < Size(o) /\ Size(c) \in Nat /\ Size(o) \in Nat /\ f.size \in Nat
    BY <1>6, InsideIs, NodesAre
  <2>2. f.size - Size(c) <= f.size - Size(o)
    BY <1>1, <1>4, <1>5
  <2> QED
    BY <2>1, <2>2
<1> QED
  BY <1>6

\* What is inside a node is in one of its children.
LEMMA ChildOver ==
  ASSUME NEW f \in Sources, NEW m \in f.nodes, NEW n \in f.nodes, Inside(m, n)
  PROVE  \E c \in Children(f, n) : Within(m, c)
<1>1. PICK N : N = {o \in f.nodes : Inside(o, n) /\ Within(m, o)}
  OBVIOUS
<1>2. m \in N
  BY <1>1 DEF Within
<1>3. PICK c \in N : \A o \in N : ~Inside(c, o)
  BY <1>1, <1>2, Greatest
<1>4. c \in f.nodes /\ Inside(c, n) /\ Within(m, c)
  BY <1>1
<1>5. ASSUME NEW o \in f.nodes, Inside(c, o), Inside(o, n) PROVE FALSE
  <2>1. Inside(m, o)
    BY <1>4, <1>5, InsideIs DEF Within
  <2>2. o \in N
    BY <1>1, <1>5, <2>1 DEF Within
  <2> QED
    BY <1>3, <1>5, <2>2
<1> QED
  BY <1>4, <1>5 DEF Children

\* Every node is in one that is at the top.
LEMMA TopOver ==
  ASSUME NEW f \in Sources, NEW m \in f.nodes
  PROVE  \E t \in TopLevel(f) : Within(m, t)
<1>1. PICK N : N = {o \in f.nodes : Within(m, o)}
  OBVIOUS
<1>2. m \in N
  BY <1>1 DEF Within
<1>3. PICK c \in N : \A o \in N : ~Inside(c, o)
  BY <1>1, <1>2, Greatest
<1>4. c \in f.nodes /\ Within(m, c)
  BY <1>1
<1>5. ASSUME NEW o \in f.nodes, Inside(c, o) PROVE FALSE
  <2>1. Inside(m, o)
    BY <1>4, <1>5, InsideIs DEF Within
  <2>2. o \in N
    BY <1>1, <1>5, <2>1 DEF Within
  <2> QED
    BY <1>3, <1>5, <2>2
<1> QED
  BY <1>4, <1>5 DEF TopLevel

\* The children of a node share no byte.
LEMMA ChildrenAre ==
  ASSUME NEW f \in Sources, NEW n \in f.nodes
  PROVE  /\ \A c \in Children(f, n) : c \in f.nodes /\ Inside(c, n) /\ Size(c) < Size(n)
         /\ \A c, d \in Children(f, n) : c # d => Disjoint(c, d)
<1>1. \A c \in Children(f, n) : c \in f.nodes /\ Inside(c, n)
  BY DEF Children
<1>2. \A c, d \in Children(f, n) : ~Inside(c, d)
  BY <1>1 DEF Children
<1> QED
  BY <1>1, <1>2, Nested, InsideIs

\* Nor do the nodes at the top.
LEMMA TopAre ==
  ASSUME NEW f \in Sources
  PROVE  /\ \A c \in TopLevel(f) : c \in f.nodes
         /\ \A c, d \in TopLevel(f) : c # d => Disjoint(c, d)
<1>1. \A c \in TopLevel(f) : c \in f.nodes
  BY DEF TopLevel
<1>2. \A c, d \in TopLevel(f) : ~Inside(c, d)
  BY <1>1 DEF TopLevel
<1> QED
  BY <1>1, <1>2, Nested

\* What a node is made into depends on its children alone.
LEMMA SplitLooks ==
  ASSUME NEW f, NEW overlap, NEW m, NEW g, NEW h,
         \A c \in Children(f, m) : g[c] = h[c]
  PROVE  SplitOf(f, overlap, g, m) = SplitOf(f, overlap, h, m)
<1>1. \A c \in Chunkable(f, Children(f, m)) : ChildMade(f, g, m, c) = ChildMade(f, h, m, c)
  BY DEF Chunkable, ChildMade
<1>2. Made(f, g, m) = Made(f, h, m)
  BY <1>1 DEF Made
<1> QED
  BY <1>2 DEF SplitOf

\* There is a function that splits the nodes up to a size.
LEMMA SplitExists ==
  ASSUME NEW f \in Sources, NEW overlap, NEW k \in Nat
  PROVE  \E g : g = [m \in UpToSize(f, k) |-> SplitOf(f, overlap, g, m)]
<1> DEFINE Is(g, j) == g = [m \in UpToSize(f, j) |-> SplitOf(f, overlap, g, m)]
<1>1. PICK Bad : Bad = {j \in Nat : ~\E g : Is(g, j)}
  OBVIOUS
<1>2. SUFFICES ASSUME Bad # {} PROVE FALSE
  BY <1>1
<1>3. PICK j \in Bad : \A i \in Bad : j <= i
  BY <1>1, <1>2, Least
<1>4. j \in Nat /\ ~\E g : Is(g, j)
  BY <1>1
<1>5. \A m \in UpToSize(f, j) : m \in f.nodes /\ \A c \in Children(f, m) :
        c \in f.nodes /\ Size(c) \in Nat \ {0} /\ Size(c) < Size(m) /\ Size(m) \in Nat /\ Size(m) <= j
  BY ChildrenAre, NodesAre DEF UpToSize
<1>6. CASE j = 0
  <2>1. \A m \in f.nodes : ~(Size(m) <= j)
    BY <1>6, NodesAre
  <2>2. UpToSize(f, j) = {}
    BY <2>1 DEF UpToSize
  <2>3. PICK g : g = [m \in UpToSize(f, j) |-> {}]
    OBVIOUS
  <2>4. Is(g, j)
    BY <2>2, <2>3
  <2> QED
    BY <1>4, <2>4
<1>7. CASE j # 0
  <2>1. j - 1 \in Nat /\ ~(j <= j - 1)
    BY <1>4, <1>7
  <2>2. j - 1 \notin Bad
    BY <1>3, <2>1
  <2>3. PICK g : Is(g, j - 1)
    BY <1>1, <2>1, <2>2
  <2>4. PICK h : h = [m \in UpToSize(f, j) |-> SplitOf(f, overlap, g, m)]
    OBVIOUS
  <2>5. \A m \in UpToSize(f, j) : \A c \in Children(f, m) : g[c] = h[c]
    <3> SUFFICES ASSUME NEW m \in UpToSize(f, j), NEW c \in Children(f, m) PROVE g[c] = h[c]
      OBVIOUS
    <3>1. c \in f.nodes /\ Size(c) <= j - 1 /\ Size(c) <= j
      BY <1>4, <1>5
    <3>2. c \in UpToSize(f, j - 1) /\ c \in UpToSize(f, j)
      BY <3>1 DEF UpToSize
    <3>3. g[c] = SplitOf(f, overlap, g, c)
      BY <2>3, <3>2
    <3>4. h[c] = SplitOf(f, overlap, g, c)
      BY <2>4, <3>2
    <3> QED
      BY <3>3, <3>4
  <2>6. \A m \in UpToSize(f, j) : SplitOf(f, overlap, g, m) = SplitOf(f, overlap, h, m)
    BY <2>5, SplitLooks
  <2>7. Is(h, j)
    BY <2>4, <2>6
  <2> QED
    BY <1>4, <2>7
<1> QED
  BY <1>6, <1>7

\* All nodes have a size up to that of the file.
LEMMA AllNodes ==
  ASSUME NEW f \in Sources
  PROVE  UpToSize(f, f.size) = f.nodes /\ f.size \in Nat
<1>1. \A m \in f.nodes : Size(m) <= f.size
  BY NodesAre
<1>2. f.size \in Nat
  BY SourcesAssumption
<1> QED
  BY <1>1, <1>2 DEF UpToSize

\* What a large node is split into is told by what its children are.
LEMMA SplitUnfolds ==
  ASSUME NEW f \in Sources, NEW overlap
  PROVE  \E g : /\ g = [m \in f.nodes |-> SplitOf(f, overlap, g, m)]
                /\ \A n : SplitLargeNode(f, n, overlap) = g[n]
<1>1. PICK g : g = CHOOSE h : h = [m \in f.nodes |-> SplitOf(f, overlap, h, m)]
  OBVIOUS
<1>2. \E h : h = [m \in f.nodes |-> SplitOf(f, overlap, h, m)]
  <2>1. f.size \in Nat /\ UpToSize(f, f.size) = f.nodes
    BY AllNodes
  <2>2. \E h : h = [m \in UpToSize(f, f.size) |-> SplitOf(f, overlap, h, m)]
    BY <2>1, SplitExists
  <2> QED
    BY <2>1, <2>2
<1>3. g = [m \in f.nodes |-> SplitOf(f, overlap, g, m)]
  BY <1>1, <1>2
<1>4. \A n : SplitLargeNode(f, n, overlap) = g[n]
  BY <1>1 DEF SplitLargeNode, SplitOf, Made, ChildMade
<1> QED
  BY <1>3, <1>4

\* The items of a node depend on its children alone.
LEMMA ItemsLook ==
  ASSUME NEW f, NEW m, NEW g, NEW h, \A c \in Children(f, m) : g[c] = h[c]
  PROVE  ItemsOf(f, g, m) = ItemsOf(f, h, m)
BY DEF ItemsOf

\* There is a function that has the items of the nodes up to a size.
LEMMA ItemsExist ==
  ASSUME NEW f \in Sources, NEW k \in Nat
  PROVE  \E g : g = [m \in UpToSize(f, k) |-> ItemsOf(f, g, m)]
<1> DEFINE Is(g, j) == g = [m \in UpToSize(f, j) |-> ItemsOf(f, g, m)]
<1>1. PICK Bad : Bad = {j \in Nat : ~\E g : Is(g, j)}
  OBVIOUS
<1>2. SUFFICES ASSUME Bad # {} PROVE FALSE
  BY <1>1
<1>3. PICK j \in Bad : \A i \in Bad : j <= i
  BY <1>1, <1>2, Least
<1>4. j \in Nat /\ ~\E g : Is(g, j)
  BY <1>1
<1>5. \A m \in UpToSize(f, j) : m \in f.nodes /\ \A c \in Children(f, m) :
        c \in f.nodes /\ Size(c) \in Nat \ {0} /\ Size(c) < Size(m) /\ Size(m) \in Nat /\ Size(m) <= j
  BY ChildrenAre, NodesAre DEF UpToSize
<1>6. CASE j = 0
  <2>1. \A m \in f.nodes : ~(Size(m) <= j)
    BY <1>6, NodesAre
  <2>2. UpToSize(f, j) = {}
    BY <2>1 DEF UpToSize
  <2>3. PICK g : g = [m \in UpToSize(f, j) |-> {}]
    OBVIOUS
  <2>4. Is(g, j)
    BY <2>2, <2>3
  <2> QED
    BY <1>4, <2>4
<1>7. CASE j # 0
  <2>1. j - 1 \in Nat /\ ~(j <= j - 1)
    BY <1>4, <1>7
  <2>2. j - 1 \notin Bad
    BY <1>3, <2>1
  <2>3. PICK g : Is(g, j - 1)
    BY <1>1, <2>1, <2>2
  <2>4. PICK h : h = [m \in UpToSize(f, j) |-> ItemsOf(f, g, m)]
    OBVIOUS
  <2>5. \A m \in UpToSize(f, j) : \A c \in Children(f, m) : g[c] = h[c]
    <3> SUFFICES ASSUME NEW m \in UpToSize(f, j), NEW c \in Children(f, m) PROVE g[c] = h[c]
      OBVIOUS
    <3>1. c \in f.nodes /\ Size(c) <= j - 1 /\ Size(c) <= j
      BY <1>4, <1>5
    <3>2. c \in UpToSize(f, j - 1) /\ c \in UpToSize(f, j)
      BY <3>1 DEF UpToSize
    <3>3. g[c] = ItemsOf(f, g, c)
      BY <2>3, <3>2
    <3>4. h[c] = ItemsOf(f, g, c)
      BY <2>4, <3>2
    <3> QED
      BY <3>3, <3>4
  <2>6. \A m \in UpToSize(f, j) : ItemsOf(f, g, m) = ItemsOf(f, h, m)
    BY <2>5, ItemsLook
  <2>7. Is(h, j)
    BY <2>4, <2>6
  <2> QED
    BY <1>4, <2>7
<1> QED
  BY <1>6, <1>7

\* The items of a node are told by those of its children.
LEMMA ItemsUnfold ==
  ASSUME NEW f \in Sources
  PROVE  \E g : /\ g = [m \in f.nodes |-> ItemsOf(f, g, m)]
                /\ \A n : ProcessNode(f, n) = g[n]
<1>1. PICK g : g = CHOOSE h : h = [m \in f.nodes |-> ItemsOf(f, h, m)]
  OBVIOUS
<1>2. \E h : h = [m \in f.nodes |-> ItemsOf(f, h, m)]
  BY ItemsExist, AllNodes
<1>3. g = [m \in f.nodes |-> ItemsOf(f, g, m)]
  BY <1>1, <1>2
<1>4. \A n : ProcessNode(f, n) = g[n]
  BY <1>1 DEF ProcessNode, ItemsOf
<1> QED
  BY <1>3, <1>4

\* A node as one chunk.
LEMMA NodeChunk ==
  ASSUME NEW f \in Sources, NEW overlap, NEW m \in f.nodes, NEW context
  PROVE  IsSplit(f, overlap, m, {MakeChunk(f, m, context)})
<1>1. PICK c : /\ c = MakeChunk(f, m, context) /\ c.from = m.from /\ c.to = m.to /\ c.kind = "node"
               /\ c.startLine = LineAt(f, m.from) /\ c.endLine = LineAt(f, m.to)
  <2>1. MakeChunk(f, m, context) =
          [from |-> m.from, to |-> m.to,
           startLine |-> LineAt(f, m.from), endLine |-> LineAt(f, m.to),
           kind |-> "node", symbol |-> ExtractSymbol(f, m), context |-> context]
    BY DEF MakeChunk
  <2> QED
    BY <2>1
<1>2. /\ m.from \in Nat /\ m.to \in Nat /\ m.from < m.to /\ m.to <= f.size
  BY NodesAre
<1>3. IsPlaced(f, c) /\ AreTwo(c, c)
  BY <1>1, <1>2 DEF IsPlaced, AreTwo
<1>4. m.from <= c.from /\ c.to <= m.to
  BY <1>1, <1>2
<1> QED
  BY <1>1, <1>3, <1>4 DEF IsSplit

\* Windows of a stretch are where they say they are, and they are two.
LEMMA WindowsArePlaced ==
  ASSUME NEW f \in Sources, NEW from \in Nat, NEW to \in Nat, from < to, to <= f.size,
         NEW k \in Nat, NEW i \in Nat, NEW j \in Nat, NEW c, NEW d, c.kind # "node", d.kind # "node",
         IsWindow(f, from, to, k, i, c), IsWindow(f, from, to, k, j, d), i = j => c = d
  PROVE  IsPlaced(f, c) /\ from <= c.from /\ c.to <= to /\ AreTwo(c, d)
<1>1. f.size \in Nat
  BY SourcesAssumption
<1>2. c.from \in from .. to - 1 /\ c.to \in c.from + 1 .. to
  BY DEF IsWindow
<1>3. IsPlaced(f, c)
  BY <1>1, <1>2 DEF IsWindow, IsPlaced
<1>4. AreTwo(c, d)
  <2>1. LineAt(f, c.from) = k + i - 1 /\ LineAt(f, d.from) = k + j - 1
    BY DEF IsWindow
  <2>2. i # j => c.from # d.from
    BY <2>1
  <2> QED
    BY <2>2 DEF AreTwo
<1> QED
  BY <1>2, <1>3, <1>4

\* A node as windows.
LEMMA WindowsSplit ==
  ASSUME NEW f \in Sources, NEW overlap, NEW m \in f.nodes, NEW context
  PROVE  IsSplit(f, overlap, m, SplitIntoWindows(f, m, overlap, context))
<1>1. /\ m.from \in Nat /\ m.to \in Nat /\ m.from < m.to /\ m.to <= f.size
  BY NodesAre
<1>2. PICK k \in Nat : k = LineAt(f, m.from)
  <2>1. m.from \in Int /\ m.from <= m.from
    BY <1>1
  <2>2. LineAt(f, m.from) \in Nat \ {0}
    BY <2>1, LineAtIs
  <2> QED
    BY <2>2
<1>3. PICK starts : starts = WindowStarts(Len(LineOffsets(f, m.from, m.to)), overlap)
  OBVIOUS
<1>4. starts \subseteq 1 .. Len(LineOffsets(f, m.from, m.to))
  BY <1>3 DEF WindowStarts
<1>5. PICK C : C = SplitIntoWindows(f, m, overlap, context)
  OBVIOUS
<1>6. \A c \in C : \E i \in starts : c = Window(f, m.from, m.to, i, k, "window", context)
  BY <1>2, <1>3, <1>5 DEF SplitIntoWindows
<1>7. \A i \in starts : LET w == Window(f, m.from, m.to, i, k, "window", context)
                        IN i \in Nat /\ IsWindow(f, m.from, m.to, k, i, w) /\ w.kind = "window"
  BY <1>1, <1>2, <1>4, WindowIs
<1>8. \A c, d \in C : IsPlaced(f, c) /\ c.kind = "window" /\ m.from <= c.from /\ c.to <= m.to
                      /\ AreTwo(c, d)
  <2> SUFFICES ASSUME NEW c \in C, NEW d \in C
               PROVE  IsPlaced(f, c) /\ c.kind = "window" /\ m.from <= c.from /\ c.to <= m.to
                      /\ AreTwo(c, d)
    OBVIOUS
  <2>1. PICK i \in starts : c = Window(f, m.from, m.to, i, k, "window", context)
    BY <1>6
  <2>2. PICK j \in starts : d = Window(f, m.from, m.to, j, k, "window", context)
    BY <1>6
  <2>3. /\ i \in Nat /\ IsWindow(f, m.from, m.to, k, i, c) /\ c.kind = "window"
        /\ j \in Nat /\ IsWindow(f, m.from, m.to, k, j, d) /\ d.kind = "window"
    BY <1>7, <2>1, <2>2
  <2>4. i = j => c = d
    BY <2>1, <2>2
  <2> HIDE <2>1, <2>2
  <2>5. c.kind # "node" /\ d.kind # "node"
    BY <2>3
  <2> QED
    BY <1>1, <2>3, <2>4, <2>5, WindowsArePlaced
<1>9. \A c \in C : IsOfWindows(f, overlap, C, m, c)
  BY <1>5, <1>8 DEF IsOfWindows
<1>10. \A o \in f.nodes : ~(Inside(m, o) /\ Within(o, m))
  BY InsideIs DEF Within
<1>11. Within(m, m)
  BY DEF Within
<1> QED
  BY <1>5, <1>8, <1>9, <1>10, <1>11 DEF IsSplit

\* What is made of the parts of a node is made of the node.
LEMMA PartsAreOf ==
  ASSUME NEW f \in Sources, NEW overlap, NEW C, NEW P, P \subseteq C, NEW n, NEW c,
         IsOfWindows(f, overlap, P, n, c)
  PROVE  IsOfWindows(f, overlap, C, n, c)
BY DEF IsOfWindows

\* Chunks of nodes that share no byte are two.
LEMMA PartsAreTwo ==
  ASSUME NEW f \in Sources, NEW overlap, NEW x \in f.nodes, NEW y \in f.nodes,
         NEW P, NEW Q, IsSplit(f, overlap, x, P), IsSplit(f, overlap, y, Q),
         NEW c \in P, NEW d \in Q, x = y => P = Q, x # y => Disjoint(x, y)
  PROVE  AreTwo(c, d)
<1>1. CASE x = y
  BY <1>1 DEF IsSplit
<1>2. CASE x # y
  <2>1. x.from \in Nat /\ x.to \in Nat /\ y.from \in Nat /\ y.to \in Nat
    BY NodesAre
  <2>2. /\ c.from \in Nat /\ c.to \in Nat /\ x.from <= c.from /\ c.to <= x.to
        /\ d.from \in Nat /\ d.to \in Nat /\ y.from <= d.from /\ d.to <= y.to
    BY DEF IsSplit, IsPlaced
  <2>3. x.to <= y.from \/ y.to <= x.from
    BY <1>2 DEF Disjoint
  <2> QED
    BY <2>1, <2>2, <2>3 DEF AreTwo
<1> QED
  BY <1>1, <1>2

\* What is made of the chunkable children of a node is made of the node.
LEMMA Gathered ==
  ASSUME NEW f \in Sources, NEW overlap, NEW m \in f.nodes, NEW P, NEW X, NEW C,
         X = Chunkable(f, Children(f, m)), C = UNION {P[x] : x \in X},
         \A x \in X : IsSplit(f, overlap, x, P[x])
  PROVE  IsSplit(f, overlap, m, C)
<1>1. X = Chunkable(f, Children(f, m)) /\ \A x \in X : IsSplit(f, overlap, x, P[x])
  OBVIOUS
<1>2. C = UNION {P[x] : x \in X}
  OBVIOUS
<1>3. \A x \in X : x \in Children(f, m) /\ x \in f.nodes /\ Inside(x, m) /\ P[x] \subseteq C
  BY <1>1, <1>2, ChildrenAre DEF Chunkable
<1>4. \A c \in C : \E x \in X : c \in P[x]
  BY <1>2
<1>5. ASSUME NEW c \in C
      PROVE  IsPlaced(f, c) /\ c.kind \in {"node", "window"} /\ m.from <= c.from /\ c.to <= m.to
  <2>1. PICK x \in X : c \in P[x]
    BY <1>4
  <2>2. IsPlaced(f, c) /\ c.kind \in {"node", "window"} /\ x.from <= c.from /\ c.to <= x.to
    BY <1>1, <2>1 DEF IsSplit
  <2>3. m.from <= x.from /\ x.to <= m.to
    BY <1>3 DEF Inside
  <2>4. x.from \in Nat /\ x.to \in Nat /\ m.from \in Nat /\ m.to \in Nat /\ c.from \in Nat /\ c.to \in Nat
    BY <1>3, <2>2, NodesAre DEF IsPlaced
  <2> QED
    BY <2>2, <2>3, <2>4
<1>6. ASSUME NEW c \in C, NEW d \in C PROVE AreTwo(c, d)
  <2>1. PICK x \in X, y \in X : c \in P[x] /\ d \in P[y]
    BY <1>4
  <2>2. x # y => Disjoint(x, y)
    BY <1>3, ChildrenAre
  <2> QED
    BY <1>1, <1>3, <2>1, <2>2, PartsAreTwo
<1>7. ASSUME NEW c \in C, c.kind = "window"
      PROVE  \E n \in f.nodes :
               /\ IsOfWindows(f, overlap, C, n, c) /\ Within(n, m)
               /\ \A o \in f.nodes : Inside(n, o) /\ Within(o, m) => Chunkable(f, Children(f, o)) # {}
  <2>1. PICK x \in X : c \in P[x]
    BY <1>4
  <2>2. PICK n \in f.nodes :
          /\ IsOfWindows(f, overlap, P[x], n, c) /\ Within(n, x)
          /\ \A o \in f.nodes : Inside(n, o) /\ Within(o, x) => Chunkable(f, Children(f, o)) # {}
    BY <1>1, <1>7, <2>1 DEF IsSplit
  <2>3. IsOfWindows(f, overlap, C, n, c)
    BY <1>3, <2>2, PartsAreOf
  <2>4. Inside(n, m)
    BY <1>3, <2>2, InsideIs DEF Within
  <2>5. ASSUME NEW o \in f.nodes, Inside(n, o), Within(o, m)
        PROVE  Chunkable(f, Children(f, o)) # {}
    <3>1. CASE o = m
      BY <1>1, <3>1
    <3>2. CASE Inside(o, m)
      <4>1. o = x \/ Inside(o, x) \/ Inside(x, o)
        BY <1>3, <2>2, <2>5, Around DEF Within
      <4>2. ~Inside(x, o)
        BY <1>3, <3>2 DEF Children
      <4> QED
        BY <2>2, <2>5, <4>1, <4>2 DEF Within
    <3> QED
      BY <2>5, <3>1, <3>2 DEF Within
  <2> QED
    BY <2>1, <2>3, <2>4, <2>5 DEF Within
<1> QED
  BY <1>1, <1>2, <1>5, <1>6, <1>7 DEF IsSplit

\* What a large node is split into.
LEMMA SplitIs ==
  ASSUME NEW f \in Sources, NEW overlap, NEW m \in f.nodes
  PROVE  IsSplit(f, overlap, m, SplitLargeNode(f, m, overlap))
<1>1. PICK g : /\ g = [n \in f.nodes |-> SplitOf(f, overlap, g, n)]
               /\ \A n : SplitLargeNode(f, n, overlap) = g[n]
  BY SplitUnfolds
<1>2. PICK Bad : Bad = {n \in f.nodes : ~IsSplit(f, overlap, n, g[n])}
  OBVIOUS
<1>3. SUFFICES ASSUME Bad # {} PROVE FALSE
  BY <1>1, <1>2
<1>4. PICK S : S = {Size(n) : n \in Bad}
  OBVIOUS
<1>5. S \in SUBSET Nat /\ S # {}
  BY <1>2, <1>3, <1>4, NodesAre
<1>6. PICK k \in S : \A x \in S : k <= x
  BY <1>5, Least
<1>7. PICK n \in Bad : k = Size(n)
  BY <1>4
<1>8. n \in f.nodes /\ ~IsSplit(f, overlap, n, g[n]) /\ g[n] = SplitOf(f, overlap, g, n)
  BY <1>1, <1>2
<1>9. ASSUME NEW c \in Chunkable(f, Children(f, n))
      PROVE  IsSplit(f, overlap, c, ChildMade(f, g, n, c))
  <2>1. c \in f.nodes /\ Size(c) < Size(n)
    BY <1>8, ChildrenAre DEF Chunkable
  <2>2. Size(c) \in Nat /\ Size(n) \in Nat
    BY <1>8, <2>1, NodesAre
  <2>3. c \notin Bad
    BY <1>4, <1>6, <1>7, <2>1, <2>2
  <2>4. IsSplit(f, overlap, c, g[c])
    BY <1>2, <2>1, <2>3
  <2> QED
    BY <2>1, <2>4, NodeChunk DEF ChildMade
<1>10. CASE Made(f, g, n) = {}
  <2>1. g[n] = SplitIntoWindows(f, n, overlap, ExtractParentContext(f, n))
    BY <1>8, <1>10 DEF SplitOf
  <2> QED
    BY <1>8, <2>1, WindowsSplit
<1>11. CASE Made(f, g, n) # {}
  <2>1. PICK P : P = [c \in Chunkable(f, Children(f, n)) |-> ChildMade(f, g, n, c)]
    OBVIOUS
  <2>2. g[n] = UNION {P[c] : c \in Chunkable(f, Children(f, n))}
    BY <1>8, <1>11, <2>1 DEF SplitOf, Made
  <2>3. \A c \in Chunkable(f, Children(f, n)) : IsSplit(f, overlap, c, P[c])
    BY <1>9, <2>1
  <2>4. IsSplit(f, overlap, n, g[n])
    BY <1>8, <2>2, <2>3, Gathered
  <2> QED
    BY <1>8, <2>4
<1> QED
  BY <1>10, <1>11

\* What a file with nodes is made into.
LEMMA TreeIs ==
  ASSUME NEW f \in Sources, NEW overlap
  PROVE  IsOfTree(f, overlap, ChunksOfTree(f, overlap))
<1>1. PICK X : X = {n \in Chunkable(f, TopLevel(f)) : Size(n) >= MinChunk}
  OBVIOUS
<1>2. PICK P : P = [n \in X |-> IF Size(n) <= MaxChunk THEN {MakeChunk(f, n, NoName)}
                                ELSE SplitLargeNode(f, n, overlap)]
  OBVIOUS
<1>3. PICK C : C = ChunksOfTree(f, overlap)
  OBVIOUS
<1>4. C = UNION {P[x] : x \in X}
  BY <1>1, <1>2, <1>3 DEF ChunksOfTree
<1>5. \A x \in X : x \in TopLevel(f) /\ x \in f.nodes /\ P[x] \subseteq C
  BY <1>1, <1>4, TopAre DEF Chunkable
<1>6. \A x \in X : IsSplit(f, overlap, x, P[x])
  <2> SUFFICES ASSUME NEW x \in X PROVE IsSplit(f, overlap, x, P[x])
    OBVIOUS
  <2>1. x \in f.nodes
    BY <1>5
  <2> QED
    BY <1>2, <2>1, NodeChunk, SplitIs
<1>7. \A c \in C : \E x \in X : c \in P[x]
  BY <1>4
<1>8. \A c \in C : IsPlaced(f, c) /\ c.kind \in {"node", "window"}
  BY <1>6, <1>7 DEF IsSplit
<1>9. ASSUME NEW c \in C, NEW d \in C PROVE AreTwo(c, d)
  <2>1. PICK x \in X, y \in X : c \in P[x] /\ d \in P[y]
    BY <1>7
  <2>2. x # y => Disjoint(x, y)
    BY <1>5, TopAre
  <2> QED
    BY <1>5, <1>6, <2>1, <2>2, PartsAreTwo
<1>10. ASSUME NEW c \in C, c.kind = "window"
       PROVE  \E n \in f.nodes :
                /\ IsOfWindows(f, overlap, C, n, c)
                /\ \A o \in f.nodes : Inside(n, o) => Chunkable(f, Children(f, o)) # {}
  <2>1. PICK x \in X : c \in P[x]
    BY <1>7
  <2>2. PICK n \in f.nodes :
          /\ IsOfWindows(f, overlap, P[x], n, c) /\ Within(n, x)
          /\ \A o \in f.nodes : Inside(n, o) /\ Within(o, x) => Chunkable(f, Children(f, o)) # {}
    BY <1>6, <1>10, <2>1 DEF IsSplit
  <2>3. IsOfWindows(f, overlap, C, n, c)
    BY <1>5, <2>2, PartsAreOf
  <2>4. ASSUME NEW o \in f.nodes, Inside(n, o) PROVE Chunkable(f, Children(f, o)) # {}
    <3>1. o = x \/ Inside(o, x) \/ Inside(x, o)
      BY <1>5, <2>2, <2>4, Around DEF Within
    <3>2. ~Inside(x, o)
      BY <1>5 DEF TopLevel
    <3> QED
      BY <2>2, <2>4, <3>1, <3>2 DEF Within
  <2> QED
    BY <2>3, <2>4
<1> QED
  BY <1>3, <1>8, <1>9, <1>10 DEF IsOfTree

\* Every byte is on a line.
LEMMA LineAtIn ==
  ASSUME NEW f \in Sources, NEW p \in Int
  PROVE  LineAt(f, p) \in Nat \ {0}
BY LineAtIs

\* A file as windows.
LEMMA LinesSplit ==
  ASSUME NEW f \in Sources, NEW overlap
  PROVE  IsOfLines(f, LineBased(f, overlap))
<1>1. PICK C : C = LineBased(f, overlap)
  OBVIOUS
<1>2. CASE f.size = 0
  <2>1. C = {}
    BY <1>1, <1>2 DEF LineBased
  <2> QED
    BY <1>1, <2>1 DEF IsOfLines
<1>3. CASE f.size # 0
  <2>1. f.size \in Nat /\ 0 \in Nat /\ 0 < f.size /\ f.size <= f.size
    BY <1>3, SourcesAssumption
  <2>2. LineAt(f, 0) = 1 /\ 1 \in Nat
    BY FirstLine
  <2>3. PICK n : n = Len(LineOffsets(f, 0, f.size))
    OBVIOUS
  <2>4. \A c \in C : \E i \in 1 .. n : c = Window(f, 0, f.size, i, 1, "line_block", NoName)
    BY <1>1, <1>3, <2>3 DEF LineBased, WindowStarts
  <2>5. \A i \in 1 .. n : LET w == Window(f, 0, f.size, i, 1, "line_block", NoName)
                          IN i \in Nat /\ IsWindow(f, 0, f.size, 1, i, w) /\ w.kind = "line_block"
    BY <2>1, <2>2, <2>3, WindowIs
  <2>6. \A c, d \in C : IsPlaced(f, c) /\ c.kind = "line_block" /\ AreTwo(c, d)
    <3> SUFFICES ASSUME NEW c \in C, NEW d \in C
                 PROVE  IsPlaced(f, c) /\ c.kind = "line_block" /\ AreTwo(c, d)
      OBVIOUS
    <3>1. PICK i \in 1 .. n : c = Window(f, 0, f.size, i, 1, "line_block", NoName)
      BY <2>4
    <3>2. PICK j \in 1 .. n : d = Window(f, 0, f.size, j, 1, "line_block", NoName)
      BY <2>4
    <3>3. /\ i \in Nat /\ IsWindow(f, 0, f.size, 1, i, c) /\ c.kind = "line_block"
          /\ j \in Nat /\ IsWindow(f, 0, f.size, 1, j, d) /\ d.kind = "line_block"
      BY <2>5, <3>1, <3>2
    <3>4. (i = j => c = d) /\ c.kind # "node" /\ d.kind # "node"
      BY <3>1, <3>2, <3>3
    <3> HIDE <3>1, <3>2
    <3> QED
      BY <2>1, <2>2, <3>3, <3>4, WindowsArePlaced
  <2> QED
    BY <1>1, <2>6 DEF IsOfLines
<1> QED
  BY <1>2, <1>3

\* The lines of some bytes, if they are not too many, show these bytes.
LEMMA ReadShows ==
  ASSUME NEW f \in Sources, NEW a \in Nat, NEW b \in Nat, a < b, b <= f.size,
         NEW e \in Nat, LineAt(f, b - 1) <= e, e - LineAt(f, a) < MaxLines
  PROVE  /\ VecReadLines(f, LineAt(f, a), e).from <= a
         /\ b <= VecReadLines(f, LineAt(f, a), e).to
<1>1. f.size \in Nat /\ 0 < f.size /\ MaxLines \in Nat
  BY SourcesAssumption, ChunkerAssumption
<1>2. PICK o, n : /\ o = LineOffsets(f, 0, f.size) /\ n = Len(o)
                  /\ Lines(f, 0, f.size, o, n)
  BY <1>1, LinesAre
<1>3. LineAt(f, 0) = 1
  BY FirstLine
<1>4. /\ n \in Nat \ {0} /\ o \in [1 .. n -> 0 .. f.size - 1]
      /\ n = LineAt(f, f.size - 1)
      /\ \A i \in 1 .. n : \A p \in 0 .. f.size - 1 : o[i] <= p <=> i <= LineAt(f, p)
  <2>1. /\ n \in Nat \ {0} /\ o \in [1 .. n -> 0 .. f.size - 1]
        /\ n = LineAt(f, f.size - 1) - 1 + 1
        /\ \A i \in 1 .. n : \A p \in 0 .. f.size - 1 : o[i] <= p <=> 1 + i - 1 <= LineAt(f, p)
    BY <1>2, <1>3 DEF Lines
  <2>2. f.size - 1 \in Int
    BY <1>1
  <2>3. LineAt(f, f.size - 1) \in Nat
    BY <2>2, LineAtIn
  <2>4. \A i \in 1 .. n : 1 + i - 1 = i
    OBVIOUS
  <2> QED
    BY <2>1, <2>3, <2>4
<1>5. PICK start \in Nat \ {0} : start = LineAt(f, a)
  BY LineAtIn
<1>6. /\ LineAt(f, b - 1) \in Nat /\ start <= LineAt(f, b - 1) /\ LineAt(f, b - 1) <= n
  <2>1. a \in Int /\ b - 1 \in Int /\ f.size - 1 \in Int /\ a <= b - 1 /\ b - 1 <= f.size - 1
    BY <1>1
  <2> QED
    BY <1>4, <1>5, <2>1, LineAtIs
<1>7. start <= n /\ start <= e /\ e - start + 1 <= MaxLines
  BY <1>1, <1>4, <1>5, <1>6
<1>8. VecReadLines(f, start, e) = [from |-> o[start], to |-> IF e < n THEN o[e + 1] ELSE f.size]
  <2>1. f.size # 0
    BY <1>1
  <2>2. ~(start = 0 \/ e < start \/ e - start + 1 > MaxLines \/ start > n)
    BY <1>1, <1>4, <1>5, <1>7
  <2> QED
    BY <1>2, <2>1, <2>2 DEF VecReadLines
<1>9. o[start] <= a
  <2>1. start \in 1 .. n /\ a \in 0 .. f.size - 1 /\ start <= LineAt(f, a)
    BY <1>1, <1>4, <1>5, <1>7
  <2> QED
    BY <1>4, <2>1
<1>10. b <= (IF e < n THEN o[e + 1] ELSE f.size)
  <2>1. CASE e < n
    <3>1. e + 1 \in 1 .. n /\ b - 1 \in 0 .. f.size - 1
      BY <1>1, <1>4, <2>1
    <3>2. ~(e + 1 <= LineAt(f, b - 1))
      BY <1>6
    <3>3. ~(o[e + 1] <= b - 1) /\ o[e + 1] \in 0 .. f.size - 1
      BY <1>4, <3>1, <3>2
    <3> QED
      BY <2>1, <3>3
  <2>2. CASE ~(e < n)
    BY <2>2
  <2> QED
    BY <2>1, <2>2
<1> QED
  BY <1>5, <1>8, <1>9, <1>10

\* What is declared in a wrapper is declared in one of its children.
LEMMA DeclaredOfChildren ==
  ASSUME NEW f \in Sources, NEW m \in f.nodes, m.wraps
  PROVE  DeclaredIn(f, m) = UNION {DeclaredIn(f, c) : c \in Children(f, m)}
<1>1. \A c \in Children(f, m) : c \in f.nodes /\ Inside(c, m)
  BY ChildrenAre
<1>2. ASSUME NEW n \in DeclaredIn(f, m)
      PROVE  \E c \in Children(f, m) : n \in DeclaredIn(f, c)
  <2>1. /\ n \in f.nodes /\ Within(n, m) /\ n.outlined /\ ~n.wraps
        /\ \A o \in f.nodes : Inside(n, o) /\ Within(o, m) => o.wraps
    BY DEF DeclaredIn
  <2>2. Inside(n, m)
    BY <2>1 DEF Within
  <2>3. PICK c \in Children(f, m) : Within(n, c)
    BY <2>1, <2>2, ChildOver
  <2>4. ASSUME NEW o \in f.nodes, Inside(n, o), Within(o, c) PROVE o.wraps
    <3>1. Within(o, m)
      BY <1>1, <2>4, InsideIs DEF Within
    <3> QED
      BY <2>1, <2>4, <3>1
  <2> QED
    BY <2>1, <2>3, <2>4 DEF DeclaredIn
<1>3. ASSUME NEW c \in Children(f, m), NEW n \in DeclaredIn(f, c)
      PROVE  n \in DeclaredIn(f, m)
  <2>1. /\ n \in f.nodes /\ Within(n, c) /\ n.outlined /\ ~n.wraps
        /\ \A o \in f.nodes : Inside(n, o) /\ Within(o, c) => o.wraps
    BY DEF DeclaredIn
  <2>2. Within(n, m)
    BY <1>1, <2>1, InsideIs DEF Within
  <2>3. ASSUME NEW o \in f.nodes, Inside(n, o), Within(o, m) PROVE o.wraps
    <3>1. CASE o = m
      BY <3>1
    <3>2. CASE Inside(o, m)
      <4>1. o = c \/ Inside(o, c) \/ Inside(c, o)
        BY <1>1, <2>1, <2>3, Around DEF Within
      <4>2. ~Inside(c, o)
        BY <3>2 DEF Children
      <4> QED
        BY <2>1, <2>3, <4>1, <4>2 DEF Within
    <3> QED
      BY <2>3, <3>1, <3>2 DEF Within
  <2> QED
    BY <2>1, <2>2, <2>3 DEF DeclaredIn
<1> QED
  BY <1>2, <1>3

\* What is declared in a file is declared in a node at the top.
LEMMA DeclaredOfTop ==
  ASSUME NEW f \in Sources
  PROVE  Declared(f) = UNION {DeclaredIn(f, t) : t \in TopLevel(f)}
<1>1. \A t \in TopLevel(f) : t \in f.nodes
  BY TopAre
<1>2. ASSUME NEW n \in Declared(f)
      PROVE  \E t \in TopLevel(f) : n \in DeclaredIn(f, t)
  <2>1. /\ n \in f.nodes /\ n.outlined /\ ~n.wraps
        /\ \A o \in f.nodes : Inside(n, o) => o.wraps
    BY DEF Declared
  <2>2. PICK t \in TopLevel(f) : Within(n, t)
    BY <2>1, TopOver
  <2> QED
    BY <2>1, <2>2 DEF DeclaredIn
<1>3. ASSUME NEW t \in TopLevel(f), NEW n \in DeclaredIn(f, t)
      PROVE  n \in Declared(f)
  <2>1. /\ n \in f.nodes /\ Within(n, t) /\ n.outlined /\ ~n.wraps
        /\ \A o \in f.nodes : Inside(n, o) /\ Within(o, t) => o.wraps
    BY DEF DeclaredIn
  <2>2. ASSUME NEW o \in f.nodes, Inside(n, o) PROVE o.wraps
    <3>1. o = t \/ Inside(o, t) \/ Inside(t, o)
      BY <1>1, <2>1, <2>2, Around DEF Within
    <3>2. ~Inside(t, o)
      BY DEF TopLevel
    <3> QED
      BY <2>1, <2>2, <3>1, <3>2 DEF Within
  <2> QED
    BY <2>1, <2>2 DEF Declared
<1> QED
  BY <1>2, <1>3

\* The items of a node are what is declared in it.
LEMMA ItemsAre ==
  ASSUME NEW f \in Sources, NEW m \in f.nodes
  PROVE  ProcessNode(f, m) = {Item(f, n) : n \in DeclaredIn(f, m)}
<1>1. PICK g : /\ g = [n \in f.nodes |-> ItemsOf(f, g, n)]
               /\ \A n : ProcessNode(f, n) = g[n]
  BY ItemsUnfold
<1>2. PICK Bad : Bad = {x \in f.nodes : g[x] # {Item(f, n) : n \in DeclaredIn(f, x)}}
  OBVIOUS
<1>3. SUFFICES ASSUME Bad # {} PROVE FALSE
  BY <1>1, <1>2
<1>4. PICK S : S = {Size(x) : x \in Bad}
  OBVIOUS
<1>5. S \in SUBSET Nat /\ S # {}
  BY <1>2, <1>3, <1>4, NodesAre
<1>6. PICK k \in S : \A y \in S : k <= y
  BY <1>5, Least
<1>7. PICK x \in Bad : k = Size(x)
  BY <1>4
<1>8. x \in f.nodes /\ g[x] # {Item(f, n) : n \in DeclaredIn(f, x)} /\ g[x] = ItemsOf(f, g, x)
  BY <1>1, <1>2
<1>9. \A c \in Children(f, x) : g[c] = {Item(f, n) : n \in DeclaredIn(f, c)}
  <2> SUFFICES ASSUME NEW c \in Children(f, x)
               PROVE  g[c] = {Item(f, n) : n \in DeclaredIn(f, c)}
    OBVIOUS
  <2>1. c \in f.nodes /\ Size(c) < Size(x)
    BY <1>8, ChildrenAre
  <2>2. Size(c) \in Nat /\ Size(x) \in Nat
    BY <1>8, <2>1, NodesAre
  <2>3. c \notin Bad
    BY <1>4, <1>6, <1>7, <2>1, <2>2
  <2> QED
    BY <1>2, <2>1, <2>3
<1>10. CASE x.wraps
  <2>1. g[x] = UNION {g[c] : c \in Children(f, x)}
    BY <1>8, <1>10 DEF ItemsOf
  <2>2. DeclaredIn(f, x) = UNION {DeclaredIn(f, c) : c \in Children(f, x)}
    BY <1>8, <1>10, DeclaredOfChildren
  <2>3. \A y : y \in g[x] <=> \E c \in Children(f, x) : \E n \in DeclaredIn(f, c) : y = Item(f, n)
    BY <1>9, <2>1
  <2>4. \A y : y \in {Item(f, n) : n \in DeclaredIn(f, x)}
               <=> \E c \in Children(f, x) : \E n \in DeclaredIn(f, c) : y = Item(f, n)
    BY <2>2
  <2> QED
    BY <1>8, <2>3, <2>4
<1>11. CASE ~x.wraps
  <2>1. \A n \in f.nodes : n \in DeclaredIn(f, x) <=> n = x /\ x.outlined
    <3> SUFFICES ASSUME NEW n \in f.nodes
                 PROVE  n \in DeclaredIn(f, x) <=> n = x /\ x.outlined
      OBVIOUS
    <3>1. Within(x, x)
      BY DEF Within
    <3>2. CASE n = x
      <4>1. \A o \in f.nodes : ~(Inside(x, o) /\ Within(o, x))
        BY <1>8, InsideIs DEF Within
      <4> QED
        BY <1>8, <1>11, <3>1, <3>2, <4>1 DEF DeclaredIn
    <3>3. CASE n # x
      BY <1>8, <1>11, <3>1, <3>3 DEF DeclaredIn, Within
    <3> QED
      BY <3>2, <3>3
  <2>2. DeclaredIn(f, x) = IF x.outlined THEN {x} ELSE {}
    <3>1. DeclaredIn(f, x) \subseteq f.nodes
      BY DEF DeclaredIn
    <3> QED
      BY <1>8, <2>1, <3>1
  <2>3. g[x] = IF x.outlined THEN {Item(f, x)} ELSE {}
    BY <1>8, <1>11 DEF ItemsOf, Item
  <2> QED
    BY <1>8, <2>2, <2>3
<1> QED
  BY <1>10, <1>11

\* The outline is of the declarations that no other is around.
LEMMA OutlineIs ==
  ASSUME NEW f \in Sources, f.parsed
  PROVE  OutlineFile(f) = {Item(f, n) : n \in Declared(f)}
<1>1. OutlineFile(f) = UNION {ProcessNode(f, t) : t \in TopLevel(f)}
  BY DEF OutlineFile
<1>2. \A t \in TopLevel(f) : ProcessNode(f, t) = {Item(f, n) : n \in DeclaredIn(f, t)}
  BY TopAre, ItemsAre
<1>3. \A y : y \in OutlineFile(f)
             <=> \E t \in TopLevel(f) : \E n \in DeclaredIn(f, t) : y = Item(f, n)
  BY <1>1, <1>2
<1>4. \A y : y \in {Item(f, n) : n \in Declared(f)}
             <=> \E t \in TopLevel(f) : \E n \in DeclaredIn(f, t) : y = Item(f, n)
  BY DeclaredOfTop
<1> QED
  BY <1>3, <1>4

\* Chunks are of the nodes of a file, or of its lines.
LEMMA ChunkFileIs ==
  ASSUME NEW f \in Sources, NEW overlap
  PROVE  \/ IsOfTree(f, overlap, ChunkFile(f, overlap))
         \/ IsOfLines(f, ChunkFile(f, overlap)) /\ ChunkFile(f, overlap) = LineBased(f, overlap)
BY TreeIs, LinesSplit DEF ChunkFile

\* A chunk can be read by its lines.
LEMMA PlacedIsRead ==
  ASSUME NEW f \in Sources, NEW c, IsPlaced(f, c), ~(c.endLine - c.startLine >= MaxLines)
  PROVE  /\ VecReadLines(f, c.startLine, c.endLine).from <= c.from
         /\ c.to <= VecReadLines(f, c.startLine, c.endLine).to
<1>1. PICK a \in Nat, b \in Nat : /\ a = c.from /\ b = c.to /\ a < b /\ b <= f.size
                                  /\ c.startLine = LineAt(f, a)
                                  /\ c.endLine = LineAt(f, IF c.kind = "node" THEN b ELSE b - 1)
  BY DEF IsPlaced
<1>2. a \in Int /\ b \in Int /\ b - 1 \in Int /\ b - 1 <= b
  OBVIOUS
<1>3. LineAt(f, a) \in Nat /\ LineAt(f, b) \in Nat /\ LineAt(f, b - 1) \in Nat
      /\ LineAt(f, b - 1) <= LineAt(f, b)
  BY <1>2, LineAtIs
<1>4. PICK e \in Nat : e = c.endLine /\ LineAt(f, b - 1) <= e
  BY <1>1, <1>3
<1>5. e - LineAt(f, a) < MaxLines
  <2>1. MaxLines \in Nat
    BY ChunkerAssumption
  <2> QED
    BY <1>1, <1>3, <1>4, <2>1
<1>6. VecReadLines(f, LineAt(f, a), e).from <= a /\ b <= VecReadLines(f, LineAt(f, a), e).to
  BY <1>1, <1>4, <1>5, ReadShows
<1> QED
  BY <1>1, <1>4, <1>6

\* So can the start of a node.
LEMMA NodeIsRead ==
  ASSUME NEW f \in Sources, NEW n \in f.nodes, NEW line, line = LineAt(f, n.from)
  PROVE  /\ VecReadLines(f, line, line).from <= n.from
         /\ n.from + 1 <= VecReadLines(f, line, line).to
<1>1. PICK a \in Nat : a = n.from /\ a + 1 <= f.size
  BY NodesAre
<1>2. PICK b \in Nat : b = a + 1 /\ b - 1 = a /\ a < b /\ b <= f.size
  <2>1. a + 1 \in Nat /\ (a + 1) - 1 = a /\ a < a + 1
    OBVIOUS
  <2> QED
    BY <1>1, <2>1
<1>3. a \in Int
  OBVIOUS
<1>4. PICK e \in Nat : e = LineAt(f, a)
  BY <1>3, LineAtIn
<1>5. LineAt(f, b - 1) <= e /\ e - LineAt(f, a) < MaxLines
  <2>1. MaxLines \in Nat \ {0}
    BY ChunkerAssumption
  <2> QED
    BY <1>2, <1>4, <2>1
<1>6. VecReadLines(f, LineAt(f, a), e).from <= a /\ b <= VecReadLines(f, LineAt(f, a), e).to
  BY <1>2, <1>4, <1>5, ReadShows
<1> QED
  BY <1>1, <1>2, <1>4, <1>6

\* Only files are chunked.
LEMMA ChunkInvHolds == ChunkSpec => []ChunkInv
<1>1. ChunkInit => ChunkInv
  <2> SUFFICES ASSUME ChunkInit PROVE chunking.file = <<>>
    BY DEF ChunkInv
  <2> QED
    BY DEF ChunkInit
<1>2. ChunkInv /\ [ChunkNext]_chunking => ChunkInv'
  BY DEF ChunkInv, ChunkNext, Chunk
<1> QED
  BY <1>1, <1>2, PTL DEF ChunkSpec

\* The chunks of a file are where they say.
LEMMA ChunksArePlaced ==
  ASSUME NEW f \in Sources, NEW overlap
  PROVE  /\ \A c \in ChunkFile(f, overlap) : IsPlaced(f, c)
         /\ \A c, d \in ChunkFile(f, overlap) : AreTwo(c, d)
BY ChunkFileIs DEF IsOfTree, IsOfLines

\* Chunks are where they say they are and can be read there, no two share an id,
\* and the outline is of the declarations that no other is around: for any files
\* and trees, overlaps and sizes.
THEOREM ChunksAreRight == ChunkSpec => []ChunksAreWhereTheySay
<1>1. ChunkInv => ChunksAreWhereTheySay
  <2> SUFFICES ASSUME NEW f \in Sources, NEW o \in Overlaps,
                      chunking = [file |-> f, overlap |-> o, chunks |-> ChunkFile(f, o)]
               PROVE  ChunksAreWhereTheySay
    BY DEF ChunkInv, ChunksAreWhereTheySay
  <2>1. chunking.file = f /\ chunking.chunks = ChunkFile(f, o)
    OBVIOUS
  <2>2. ASSUME NEW c \in ChunkFile(f, o)
        PROVE  /\ 0 <= c.from /\ c.from < c.to /\ c.to <= f.size
               /\ c.startLine = LineAt(f, c.from)
               /\ c.endLine = LineAt(f, IF c.kind = "node" THEN c.to ELSE c.to - 1)
               /\ \/ c.endLine - c.startLine >= MaxLines
                  \/ /\ VecReadLines(f, c.startLine, c.endLine).from <= c.from
                     /\ c.to <= VecReadLines(f, c.startLine, c.endLine).to
    <3>1. IsPlaced(f, c)
      BY ChunksArePlaced
    <3>2. 0 <= c.from
      BY <3>1 DEF IsPlaced
    <3> QED
      BY <3>1, <3>2, PlacedIsRead DEF IsPlaced
  <2>3. \A c, d \in ChunkFile(f, o) :
          \/ c = d
          \/ c.to <= d.from \/ d.to <= c.from
          \/ c.kind # "node" /\ d.kind # "node" /\ c.from # d.from
    BY ChunksArePlaced DEF AreTwo
  <2>4. f.parsed => OutlineFile(f) = {Item(f, n) : n \in Declared(f)}
    BY OutlineIs
  <2>5. \A n \in Declared(f) : LET line == LineAt(f, n.from)
                               IN /\ VecReadLines(f, line, line).from <= n.from
                                  /\ n.from + 1 <= VecReadLines(f, line, line).to
    BY NodeIsRead DEF Declared
  <2> QED
    BY <2>1, <2>2, <2>3, <2>4, <2>5 DEF ChunksAreWhereTheySay, Item, Declared
<1> QED
  BY <1>1, ChunkInvHolds, PTL
-----------------------------------------------------------------------------
\* A run of lines is of so many lines.
LEMMA RunIs ==
  ASSUME NEW f \in Sources, NEW from \in Nat, NEW to \in Nat, from < to, NEW run \in Nat \ {0},
         NEW o, o = LineOffsets(f, from, to), NEW i \in DOMAIN o
  PROVE  /\ o[i] \in from .. to - 1
         /\ RunEnd(o, Len(o), run, i, to) \in o[i] + 1 .. to
         /\ LineAt(f, RunEnd(o, Len(o), run, i, to) - 1) - LineAt(f, o[i]) < run
<1>1. PICK n : n = Len(o) /\ Lines(f, from, to, o, n)
  BY LinesAre
<1>2. PICK k \in Nat \ {0} : k = LineAt(f, from)
  BY LineAtIn
<1>3. /\ n \in Nat \ {0} /\ o \in [1 .. n -> from .. to - 1]
      /\ \A x, y \in 1 .. n : x < y => o[x] < o[y]
      /\ n = LineAt(f, to - 1) - k + 1
      /\ \A x \in 1 .. n : LineAt(f, o[x]) = k + x - 1
      /\ \A x \in 1 .. n : \A p \in from .. to - 1 : o[x] <= p <=> k + x - 1 <= LineAt(f, p)
  BY <1>1, <1>2 DEF Lines
<1>4. i \in 1 .. n /\ LineAt(f, o[i]) = k + i - 1
  BY <1>3
<1>5. PICK a \in from .. to - 1 : a = o[i]
  BY <1>3, <1>4
<1>6. PICK b : b = RunEnd(o, n, run, i, to)
  OBVIOUS
<1>7. CASE i + run <= n
  <2>1. i + run \in 1 .. n /\ i < i + run
    BY <1>3, <1>4, <1>7
  <2>2. o[i + run] \in from .. to - 1 /\ o[i] < o[i + run]
    BY <1>3, <1>4, <2>1
  <2>3. PICK e \in from .. to - 1 : e = o[i + run] /\ a < e /\ b = e
    BY <1>5, <1>6, <1>7, <2>2 DEF RunEnd
  <2>4. e - 1 \in from .. to - 1 /\ ~(e <= e - 1) /\ e - 1 \in Int
    BY <1>5, <2>3
  <2>5. ~(k + (i + run) - 1 <= LineAt(f, e - 1))
    BY <1>3, <2>1, <2>3, <2>4
  <2>6. LineAt(f, e - 1) \in Nat
    BY <2>4, LineAtIn
  <2>7. b \in a + 1 .. to
    BY <1>5, <2>3
  <2>8. LineAt(f, b - 1) - (k + i - 1) < run
    BY <1>4, <2>3, <2>5, <2>6
  <2> QED
    BY <1>1, <1>4, <1>5, <1>6, <2>7, <2>8
<1>8. CASE ~(i + run <= n)
  <2>1. b = to
    BY <1>6, <1>8 DEF RunEnd
  <2>2. to - 1 \in Int
    OBVIOUS
  <2>3. LineAt(f, to - 1) \in Nat
    BY <2>2, LineAtIn
  <2>4. LineAt(f, to - 1) - (k + i - 1) < run
    BY <1>3, <1>4, <1>8, <2>3
  <2>5. b \in a + 1 .. to
    BY <1>5, <2>1
  <2> QED
    BY <1>1, <1>4, <1>5, <1>6, <2>1, <2>4, <2>5
<1> QED
  BY <1>7, <1>8

\* Less text has no more when it is joined.
LEMMA JoinedIs ==
  ASSUME NEW f, NEW a \in Int, NEW b \in Int, NEW x \in Int, NEW y \in Int, x <= a, b <= y
  PROVE  Joined(f, a, b) - a <= Joined(f, x, y) - x
<1>1. CASE b = y
  BY <1>1 DEF Joined
<1>2. CASE b # y
  <2>1. Joined(f, a, b) \in {b - 1, b} /\ Joined(f, x, y) \in {y - 1, y}
    BY DEF Joined
  <2>2. b <= y - 1
    BY <1>2
  <2> QED
    BY <2>1, <2>2
<1> QED
  BY <1>1, <1>2

\* In a file that is cut by its lines, a run is blank or in one chunk.
LEMMA RunOfLines ==
  ASSUME NEW f \in Sources, NEW overlap \in Overlaps, f.size # 0,
         NEW a \in 0 .. f.size - 1, NEW b \in a + 1 .. f.size,
         LineAt(f, b - 1) - LineAt(f, a) < Run(overlap)
  PROVE  \/ Blank(f, a, b)
         \/ \E c \in LineBased(f, overlap) : c.from <= a /\ b <= c.to
<1>1. 0 \in Nat /\ f.size \in Nat /\ 0 < f.size
  BY SourcesAssumption
<1>2. PICK n : n = Len(LineOffsets(f, 0, f.size))
  OBVIOUS
<1>3. PICK i \in WindowStarts(n, overlap) :
        /\ i = 1 \/ i - Step(overlap) + LineWindow - 1 < n
        /\ \A c : IsWindow(f, 0, f.size, LineAt(f, 0), i, c) => c.from <= a /\ b <= c.to
  BY <1>1, <1>2, RunIsCovered
<1>4. i \in 1 .. n
  BY DEF WindowStarts
<1>5. PICK c : c = Window(f, 0, f.size, i, 1, "line_block", NoName)
  OBVIOUS
<1>6. IsWindow(f, 0, f.size, LineAt(f, 0), i, c)
  <2>1. LineAt(f, 0) = 1
    BY FirstLine
  <2> QED
    BY <1>1, <1>2, <1>4, <1>5, <2>1, WindowIs
<1>7. c.from <= a /\ b <= c.to /\ c.from \in Int /\ c.to \in Int
  <2>1. c.from \in 0 .. f.size - 1 /\ c.to \in c.from + 1 .. f.size
    BY <1>6 DEF IsWindow
  <2> QED
    BY <1>1, <1>3, <1>6, <2>1
<1>8. CASE Blank(f, c.from, c.to)
  <2>1. a .. b - 1 \subseteq c.from .. c.to - 1
    BY <1>1, <1>7
  <2> QED
    BY <1>8, <2>1 DEF Blank
<1>9. CASE ~Blank(f, c.from, c.to)
  <2>1. c \in LineBased(f, overlap)
    BY <1>2, <1>3, <1>5, <1>9 DEF LineBased
  <2> QED
    BY <1>7, <2>1
<1> QED
  BY <1>8, <1>9

\* In a node that is cut into windows, a run is too small or in one chunk.
LEMMA RunOfNode ==
  ASSUME NEW f \in Sources, NEW overlap \in Overlaps, NEW m \in f.nodes, NEW context,
         NEW a \in m.from .. m.to - 1, NEW b \in a + 1 .. m.to,
         LineAt(f, b - 1) - LineAt(f, a) < Run(overlap)
  PROVE  \/ Joined(f, a, b) - a < MinChunk
         \/ \E c \in SplitIntoWindows(f, m, overlap, context) : c.from <= a /\ b <= c.to
<1>1. PICK x \in Nat, y \in Nat : x = m.from /\ y = m.to /\ x < y
  BY NodesAre
<1>2. PICK n : n = Len(LineOffsets(f, x, y))
  OBVIOUS
<1>3. a \in x .. y - 1 /\ b \in a + 1 .. y /\ a \in Int /\ b \in Int
  BY <1>1
<1>4. PICK i \in WindowStarts(n, overlap) :
        \A c : IsWindow(f, x, y, LineAt(f, x), i, c) => c.from <= a /\ b <= c.to
  BY <1>1, <1>2, <1>3, RunIsCovered
<1>5. i \in 1 .. n
  BY DEF WindowStarts
<1>6. PICK c : c = Window(f, x, y, i, LineAt(f, x), "window", context)
  OBVIOUS
<1>7. IsWindow(f, x, y, LineAt(f, x), i, c)
  BY <1>1, <1>2, <1>5, <1>6, WindowIs
<1>8. c.from <= a /\ b <= c.to /\ c.from \in Int /\ c.to \in Int
  <2>1. c.from \in x .. y - 1 /\ c.to \in c.from + 1 .. y
    BY <1>7 DEF IsWindow
  <2> QED
    BY <1>1, <1>4, <1>7, <2>1
<1>9. Joined(f, a, b) - a <= Joined(f, c.from, c.to) - c.from
  BY <1>3, <1>8, JoinedIs
<1>10. CASE Joined(f, c.from, c.to) - c.from >= MinChunk
  <2>1. c \in SplitIntoWindows(f, m, overlap, context)
    BY <1>1, <1>2, <1>4, <1>6, <1>10 DEF SplitIntoWindows
  <2> QED
    BY <1>8, <2>1
<1>11. CASE ~(Joined(f, c.from, c.to) - c.from >= MinChunk)
  <2>1. Joined(f, a, b) \in Int /\ Joined(f, c.from, c.to) \in Int /\ MinChunk \in Int
    BY <1>3, <1>8, ChunkerAssumption DEF Joined
  <2> QED
    BY <1>3, <1>8, <1>9, <1>11, <2>1
<1> QED
  BY <1>10, <1>11

\* A run in a node that is cut, or in one around which a node is, is too small
\* or in one chunk of the windows.
LEMMA RunOfTree ==
  ASSUME NEW f \in Sources, NEW overlap \in Overlaps, NEW C, IsOfTree(f, overlap, C),
         NEW n \in f.nodes, Chunkable(f, Children(f, n)) = {},
         NEW w \in C, w.kind = "window", n.from <= w.from, w.to <= n.to,
         NEW a \in n.from .. n.to - 1, NEW b \in a + 1 .. n.to,
         LineAt(f, b - 1) - LineAt(f, a) < Run(overlap)
  PROVE  \/ Joined(f, a, b) - a < MinChunk
         \/ \E c \in C : c.from <= a /\ b <= c.to
<1>1. PICK m \in f.nodes :
        /\ IsOfWindows(f, overlap, C, m, w)
        /\ \A o \in f.nodes : Inside(m, o) => Chunkable(f, Children(f, o)) # {}
  BY DEF IsOfTree
<1>2. ~Inside(m, n)
  BY <1>1
<1>3. m.from <= w.from /\ w.to <= m.to /\ w.from \in Int /\ w.to \in Int /\ w.from < w.to
  BY <1>1 DEF IsOfWindows, IsOfTree, IsPlaced
<1>4. m = n \/ Inside(n, m)
  BY <1>2, <1>3, AroundIs
<1>5. m.from <= n.from /\ n.to <= m.to
  <2>1. m.from \in Nat /\ m.to \in Nat
    BY NodesAre
  <2> QED
    BY <1>4, <2>1 DEF Inside
<1>6. a \in m.from .. m.to - 1 /\ b \in a + 1 .. m.to
  <2>1. m.from \in Nat /\ m.to \in Nat /\ n.from \in Nat /\ n.to \in Nat
    BY NodesAre
  <2> QED
    BY <1>5, <2>1
<1>7. PICK context : SplitIntoWindows(f, m, overlap, context) \subseteq C
  BY <1>1 DEF IsOfWindows
<1> QED
  BY <1>6, <1>7, RunOfNode

\* Lines in a row, one more than windows share, are together in one chunk where
\* a file or a node is cut into windows, unless they are blank or too small: for
\* any files, overlaps and window sizes.
THEOREM NeighboursAreTogether == ChunkSpec => []NeighboursStayTogether
<1>1. ChunkInv => NeighboursStayTogether
  <2> SUFFICES ASSUME NEW f \in Sources, NEW overlap \in Overlaps,
                      chunking = [file |-> f, overlap |-> overlap, chunks |-> ChunkFile(f, overlap)]
               PROVE  NeighboursStayTogether
    BY DEF ChunkInv, NeighboursStayTogether
  <2> DEFINE C == ChunkFile(f, overlap)
             run == Run(overlap)
             Kept(a, b) == \/ Blank(f, a, b)
                           \/ Joined(f, a, b) - a < MinChunk
                           \/ \E c \in C : c.from <= a /\ b <= c.to
             InRuns(from, to) ==
               LET o == LineOffsets(f, from, to)
               IN \A i \in DOMAIN o : Kept(o[i], RunEnd(o, Len(o), run, i, to))
  <2>1. chunking.file = f /\ chunking.overlap = overlap /\ chunking.chunks = C
    OBVIOUS
  <2>2. run \in Nat \ {0}
    BY StepIs
  <2>3. ASSUME NEW d \in C, d.kind = "line_block" PROVE InRuns(0, f.size)
    <3>1. C = LineBased(f, overlap)
      <4>1. ~IsOfTree(f, overlap, C)
        BY <2>3 DEF IsOfTree
      <4> QED
        BY <4>1, ChunkFileIs
    <3>2. f.size # 0 /\ f.size \in Nat /\ 0 \in Nat /\ 0 < f.size
      <4>1. f.size # 0
        BY <2>3, <3>1 DEF LineBased
      <4> QED
        BY <4>1, SourcesAssumption
    <3>3. PICK o : o = LineOffsets(f, 0, f.size)
      OBVIOUS
    <3>4. ASSUME NEW i \in DOMAIN o PROVE Kept(o[i], RunEnd(o, Len(o), run, i, f.size))
      <4>1. PICK a, b : a = o[i] /\ b = RunEnd(o, Len(o), run, i, f.size)
        OBVIOUS
      <4>2. a \in 0 .. f.size - 1 /\ b \in a + 1 .. f.size /\ LineAt(f, b - 1) - LineAt(f, a) < run
        BY <2>2, <3>2, <3>3, <3>4, <4>1, RunIs
      <4>3. Blank(f, a, b) \/ \E c \in LineBased(f, overlap) : c.from <= a /\ b <= c.to
        BY <3>2, <4>2, RunOfLines
      <4> QED
        BY <3>1, <4>1, <4>3
    <3> QED
      BY <3>3, <3>4
  <2>4. ASSUME NEW n \in f.nodes, Chunkable(f, Children(f, n)) = {},
               NEW w \in C, w.kind = "window", n.from <= w.from, w.to <= n.to
        PROVE  InRuns(n.from, n.to)
    <3>1. IsOfTree(f, overlap, C)
      <4>1. ~IsOfLines(f, C)
        BY <2>4 DEF IsOfLines
      <4> QED
        BY <4>1, ChunkFileIs
    <3>2. n.from \in Nat /\ n.to \in Nat /\ n.from < n.to
      BY NodesAre
    <3>3. PICK o : o = LineOffsets(f, n.from, n.to)
      OBVIOUS
    <3>4. ASSUME NEW i \in DOMAIN o PROVE Kept(o[i], RunEnd(o, Len(o), run, i, n.to))
      <4>1. PICK a, b : a = o[i] /\ b = RunEnd(o, Len(o), run, i, n.to)
        OBVIOUS
      <4>2. /\ a \in n.from .. n.to - 1 /\ b \in a + 1 .. n.to
            /\ LineAt(f, b - 1) - LineAt(f, a) < run
        BY <2>2, <3>2, <3>3, <3>4, <4>1, RunIs
      <4>3. Joined(f, a, b) - a < MinChunk \/ \E c \in C : c.from <= a /\ b <= c.to
        BY <2>4, <3>1, <4>2, RunOfTree
      <4> QED
        BY <4>1, <4>3
    <3> QED
      BY <3>3, <3>4
  <2> HIDE DEF C, run
  <2>5. run = IF overlap >= LineWindow THEN LineWindow ELSE overlap + 1
    BY DEF run, Run
  <2>6. PICK whole : whole = {[from |-> 0, to |-> f.size] : c \in {d \in C : d.kind = "line_block"}}
    OBVIOUS
  <2>7. PICK cut : cut = {n \in f.nodes : /\ Chunkable(f, Children(f, n)) = {}
                                          /\ \E c \in C : c.kind = "window" /\ n.from <= c.from /\ c.to <= n.to}
    OBVIOUS
  <2>8. ASSUME NEW s \in whole \cup {[from |-> n.from, to |-> n.to] : n \in cut}
        PROVE  InRuns(s.from, s.to)
    <3>1. CASE s \in whole
      <4>1. s.from = 0 /\ s.to = f.size /\ \E d \in C : d.kind = "line_block"
        BY <2>6, <3>1
      <4> QED
        BY <2>3, <4>1
    <3>2. CASE s \in {[from |-> n.from, to |-> n.to] : n \in cut}
      <4>1. PICK n \in cut : s.from = n.from /\ s.to = n.to
        BY <3>2
      <4>2. n \in f.nodes /\ Chunkable(f, Children(f, n)) = {}
            /\ \E c \in C : c.kind = "window" /\ n.from <= c.from /\ c.to <= n.to
        BY <2>7
      <4> QED
        BY <2>4, <4>1, <4>2
    <3> QED
      BY <2>8, <3>1, <3>2
  <2> QED
    BY <2>1, <2>5, <2>6, <2>7, <2>8 DEF NeighboursStayTogether, RunEnd
<1> QED
  BY <1>1, ChunkInvHolds, PTL
=============================================================================

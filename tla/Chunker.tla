------------------------------ MODULE Chunker ------------------------------
(***************************************************************************)
(* From a source file to chunks (src/engine/chunker.rs), and back: the     *)
(* outline (src/engine/outliner.rs) and the lines (src/mcp/handler.rs) that *)
(* an agent asks for.                                                      *)
(*                                                                         *)
(* A file is a number of bytes, of which some end a line and some are       *)
(* blank, and what tree-sitter makes of it: nothing, or nodes.  A node is a *)
(* range of bytes <<from, to>> (to excluded), whether its type is one of    *)
(* chunkable_node_types and of outlineable_node_types, its name (NoName if  *)
(* no child is an identifier),                                              *)
(* whether it wraps a declaration (export_statement, decorated_definition), *)
(* and whether it is a scope (a class or an impl).  A node's children are   *)
(* the greatest nodes inside it; no two nodes have the same range.          *)
(***************************************************************************)
EXTENDS Integers, FiniteSets, Sequences

CONSTANTS
  Sources,       \* the files looked at
  Overlaps,      \* IndexingConfig::chunk_overlap
  MinChunk,      \* MIN_CHUNK_SIZE
  MaxChunk,      \* MAX_CHUNK_SIZE
  LineWindow,    \* LINE_WINDOW_SIZE
  MaxLines       \* the most lines that vec_read_lines shows

NoName == 0

ASSUME ChunkerAssumption ==
  /\ {MinChunk, MaxChunk, LineWindow, MaxLines} \subseteq Nat \ {0}
  /\ MinChunk <= MaxChunk
  /\ Overlaps \subseteq Nat
  /\ \A f \in Sources : \A m, n \in f.nodes : m.from = n.from /\ m.to = n.to => m = n

\* Line ends are bytes of the file.  A node has some (what tree-sitter makes up
\* for a missing token has none, and is no node here), and two nodes are inside
\* each other or share none.
ASSUME SourcesAssumption ==
  \A f \in Sources :
    /\ f.size \in Nat /\ f.breaks \subseteq 0 .. f.size - 1 /\ IsFiniteSet(f.nodes)
    /\ \A n \in f.nodes : n.from \in Nat /\ n.to \in n.from + 1 .. f.size
    /\ \A m, n \in f.nodes :
         \/ n.from <= m.from /\ m.to <= n.to
         \/ m.from <= n.from /\ n.to <= m.to
         \/ m.to <= n.from \/ n.to <= m.from

VARIABLE chunking   \* what was chunked: the file, the overlap and the chunks

-----------------------------------------------------------------------------
(* Lines. *)

\* The row, from 1, of a position.
LineAt(f, p) == 1 + Cardinality({b \in f.breaks : b < p})

\* line_offsets: where the lines of a stretch of the file start.
LineOffsets(f, from, to) ==
  LET starts == {from} \cup {p \in from + 1 .. to - 1 : p - 1 \in f.breaks}
  IN [i \in 1 .. Cardinality(starts) |->
        CHOOSE p \in starts : Cardinality({q \in starts : q < p}) = i - 1]

Blank(f, from, to) == from .. to - 1 \subseteq f.blank

\* A window is joined again without the end of its last line.
Joined(f, from, to) == IF to - 1 \in f.breaks THEN to - 1 ELSE to

-----------------------------------------------------------------------------
(* The tree. *)

Inside(m, n) == n.from <= m.from /\ m.to <= n.to /\ m # n

Children(f, n) ==
  {m \in f.nodes : Inside(m, n) /\ ~\E o \in f.nodes : Inside(m, o) /\ Inside(o, n)}

TopLevel(f) == {m \in f.nodes : ~\E o \in f.nodes : Inside(m, o)}

\* The children that are taken: of a chunkable type, and not only blanks.
Chunkable(f, ns) == {m \in ns : m.chunkable /\ ~Blank(f, m.from, m.to)}

Size(n) == n.to - n.from

\* extract_symbol: what a wrapper wraps names it, the first that has a name.
ExtractSymbol(f, n) ==
  LET Symbol[m \in f.nodes] ==
        LET named == {c \in Children(f, m) : Symbol[c] # NoName}
        IN IF ~m.wraps THEN m.name
           ELSE IF named = {} THEN NoName
           ELSE Symbol[CHOOSE c \in named : \A d \in named : c.from <= d.from]
  IN Symbol[n]

\* extract_parent_context: the scope the node is in, if it has a name.
ExtractParentContext(f, n) ==
  LET scopes == {p \in f.nodes : n \in Children(f, p) /\ p.scope}
  IN IF scopes = {} THEN NoName ELSE ExtractSymbol(f, CHOOSE p \in scopes : TRUE)

-----------------------------------------------------------------------------
(* Chunks.  The id of a chunk is its range (and the file's path). *)

MakeChunk(f, n, context) ==
  [from |-> n.from, to |-> n.to,
   startLine |-> LineAt(f, n.from), endLine |-> LineAt(f, n.to),
   kind |-> "node", symbol |-> ExtractSymbol(f, n), context |-> context]

\* Mutant: as if windows shared one line more than they do.
StepTooFar(overlap) ==
  IF overlap >= LineWindow THEN 1 ELSE LineWindow - overlap + 1

Step(overlap) == IF overlap >= LineWindow THEN 1 ELSE LineWindow - overlap

\* The window that starts at line i of a stretch, and is cut at its end.
Window(f, from, to, i, firstLine, kind, context) ==
  LET offsets == LineOffsets(f, from, to)
      end == IF i + LineWindow - 1 < Len(offsets) THEN i + LineWindow - 1 ELSE Len(offsets)
  IN [from |-> offsets[i],
      to   |-> IF end < Len(offsets) THEN offsets[end + 1] ELSE to,
      startLine |-> firstLine + i - 1, endLine |-> firstLine + end - 1,
      kind |-> kind, symbol |-> NoName, context |-> context]

\* Windows of a stretch, one step apart.
WindowStarts(n, overlap) ==
  {i \in 1 .. n : \E k \in 0 .. n : i = 1 + k * Step(overlap)}

\* line_based_chunks: up to the first window that reaches the end, and not
\* those that are only blanks.
LineBased(f, overlap) ==
  LET n == Len(LineOffsets(f, 0, f.size))
      starts == {i \in WindowStarts(n, overlap) :
                   i = 1 \/ i - Step(overlap) + LineWindow - 1 < n}
      all == {Window(f, 0, f.size, i, 1, "line_block", NoName) : i \in starts}
  IN IF f.size = 0 THEN {} ELSE {c \in all : ~Blank(f, c.from, c.to)}

\* Mutant: the lines of a window are counted from the node.
SplitIntoWindowsFromOne(f, n, overlap, context) ==
  LET starts == WindowStarts(Len(LineOffsets(f, n.from, n.to)), overlap)
      all == {Window(f, n.from, n.to, i, 1, "window", context) : i \in starts}
  IN {c \in all : Joined(f, c.from, c.to) - c.from >= MinChunk}

\* The end of split_large_node: all windows to the last line, and not those
\* that are too small.
SplitIntoWindows(f, n, overlap, context) ==
  LET starts == WindowStarts(Len(LineOffsets(f, n.from, n.to)), overlap)
      all == {Window(f, n.from, n.to, i, LineAt(f, n.from), "window", context) : i \in starts}
  IN {c \in all : Joined(f, c.from, c.to) - c.from >= MinChunk}

\* split_large_node: the chunkable children, however small, and the chunks of
\* those that are large; windows, if that makes none.
SplitLargeNode(f, n, overlap) ==
  LET Split[m \in f.nodes] ==
        LET context == ExtractParentContext(f, m)
            made == UNION {IF Size(c) <= MaxChunk THEN {MakeChunk(f, c, context)} ELSE Split[c]
                             : c \in Chunkable(f, Children(f, m))}
        IN IF made = {} THEN SplitIntoWindows(f, m, overlap, context) ELSE made
  IN Split[n]

ChunksOfTree(f, overlap) ==
  UNION {IF Size(n) <= MaxChunk THEN {MakeChunk(f, n, NoName)} ELSE SplitLargeNode(f, n, overlap)
           : n \in {m \in Chunkable(f, TopLevel(f)) : Size(m) >= MinChunk}}

\* chunk_file_with_overlap
ChunkFile(f, overlap) ==
  IF ~f.parsed \/ ChunksOfTree(f, overlap) = {} THEN LineBased(f, overlap)
  ELSE ChunksOfTree(f, overlap)

-----------------------------------------------------------------------------
(* What an agent reads: a file of at most 2 MB, in a workspace. *)

\* process_node: a wrapper is gone through, any other node is an item or not.
ProcessNode(f, n) ==
  LET Items[m \in f.nodes] ==
        IF m.wraps THEN UNION {Items[c] : c \in Children(f, m)}
        ELSE IF m.outlined THEN {[name |-> m.name, startLine |-> LineAt(f, m.from)]}
        ELSE {}
  IN Items[n]

\* outline_file
OutlineFile(f) ==
  IF f.parsed THEN UNION {ProcessNode(f, n) : n \in TopLevel(f)} ELSE {}

NoLines == [from |-> 0, to |-> -1]

\* vec_read_lines: the lines that are there of those that are asked for.
VecReadLines(f, start, end) ==
  LET offsets == LineOffsets(f, 0, f.size)
      count   == IF f.size = 0 THEN 0 ELSE Len(offsets)
  IN IF start = 0 \/ end < start \/ end - start + 1 > MaxLines \/ start > count THEN NoLines
     ELSE [from |-> offsets[start], to |-> IF end < count THEN offsets[end + 1] ELSE f.size]

-----------------------------------------------------------------------------
ChunkInit == chunking = [file |-> <<>>]

\* chunk_file uses an overlap of 10 lines, the indexer that of its settings.
Chunk ==
  /\ chunking.file = <<>>
  /\ \E f \in Sources, o \in Overlaps :
       chunking' = [file |-> f, overlap |-> o, chunks |-> ChunkFile(f, o)]

ChunkNext == Chunk

ChunkSpec == ChunkInit /\ [][ChunkNext]_chunking

-----------------------------------------------------------------------------
(* Properties. *)

\* A chunk is where it says it is: its lines are those of its bytes (a node
\* that ends with the end of a line names the next line too), no two chunks
\* have the id of one, and only windows share text (chunker.rs:178-193,
\* 316-337), for the store replaces chunks by these ids.  What a search hit or
\* the outline names can be read by its lines: vec_read_lines shows all of a
\* chunk, unless it has too many lines, and the start of every item, and the
\* items are the declarations that no other declaration is around
\* (handler.rs:551-583, outliner.rs:227-276).
ChunksAreWhereTheySay ==
  chunking.file # <<>> =>
    LET f == chunking.file
        Shows(lines, from, to) == lines.from <= from /\ to <= lines.to
        declared == {n \in f.nodes : /\ n.outlined /\ ~n.wraps
                                     /\ \A o \in f.nodes : Inside(n, o) => o.wraps}
    IN /\ \A c \in chunking.chunks :
            /\ 0 <= c.from /\ c.from < c.to /\ c.to <= f.size
            /\ c.startLine = LineAt(f, c.from)
            /\ c.endLine = LineAt(f, IF c.kind = "node" THEN c.to ELSE c.to - 1)
            /\ \/ c.endLine - c.startLine >= MaxLines
               \/ Shows(VecReadLines(f, c.startLine, c.endLine), c.from, c.to)
       /\ \A c, d \in chunking.chunks :
            \/ c = d
            \/ c.to <= d.from \/ d.to <= c.from
            \/ c.kind # "node" /\ d.kind # "node" /\ c.from # d.from
       /\ f.parsed => OutlineFile(f) =
            {[name |-> n.name, startLine |-> LineAt(f, n.from)] : n \in declared}
       /\ \A n \in declared :
            LET line == LineAt(f, n.from)
            IN Shows(VecReadLines(f, line, line), n.from, n.from + 1)

\* Lines that are near each other are found together: where a file, or a node
\* without chunkable children, is cut into windows, any overlap + 1 lines in a
\* row (any LineWindow lines, if the overlap is as large) are together in one
\* chunk, unless they are blank or less than a chunk may be
\* (chunker.rs:345-350, 423-429).
NeighboursStayTogether ==
  chunking.file # <<>> =>
    LET f == chunking.file
        run == IF chunking.overlap >= LineWindow THEN LineWindow ELSE chunking.overlap + 1
        whole == {[from |-> 0, to |-> f.size] : c \in {d \in chunking.chunks : d.kind = "line_block"}}
        cut == {n \in f.nodes : /\ Chunkable(f, Children(f, n)) = {}
                                /\ \E c \in chunking.chunks :
                                     c.kind = "window" /\ n.from <= c.from /\ c.to <= n.to}
    IN \A s \in whole \cup {[from |-> n.from, to |-> n.to] : n \in cut} :
         LET offsets == LineOffsets(f, s.from, s.to)
             End(i) == IF i + run <= Len(offsets) THEN offsets[i + run] ELSE s.to
         IN \A i \in DOMAIN offsets :
              \/ Blank(f, offsets[i], End(i))
              \/ Joined(f, offsets[i], End(i)) - offsets[i] < MinChunk
              \/ \E c \in chunking.chunks : c.from <= offsets[i] /\ End(i) <= c.to
=============================================================================

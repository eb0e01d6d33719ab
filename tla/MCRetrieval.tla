----------------------------- MODULE MCRetrieval -----------------------------
(***************************************************************************)
(* Chunking and retrieval over every short input: a document that is       *)
(* written line by line, a store of chunks that grows by one at a time.    *)
(***************************************************************************)
EXTENDS MarkdownChunker, KeywordRetrieval

CONSTANTS
  MaxLines,  \* bound on the lines of a document
  MaxStored  \* bound on the stored chunks

VARIABLES document, stored

vars == <<document, stored>>

\* Headings of three levels, short and long text, blank lines.
Lines == [level : 1..3, len : {2}] \cup [level : {0}, len : {0, 1, 5}]

StoredChunks == [matches : 0..2, preferred : BOOLEAN, hash : {"h1", "h2"}]

Init == document = <<>> /\ stored = <<>>

WriteLine ==
  /\ Len(document) < MaxLines /\ stored = <<>>
  /\ \E line \in Lines : document' = Append(document, line)
  /\ UNCHANGED stored

StoreChunk ==
  /\ Len(stored) < MaxStored /\ document = <<>>
  /\ \E chunk \in StoredChunks : stored' = Append(stored, chunk)
  /\ UNCHANGED document

Next == WriteLine \/ StoreChunk

Spec == Init /\ [][Next]_vars

\* Chunking loses no text and keeps its order (knowledge.py, _chunk_section).
ChunksKeepText == KeepsText(document)

\* Chunks are within the limit, and none is shorter than it had to be.
ChunksFit == Fits(document)

\* Chunks stand under the headings their section names, in a document whose
\* headings skip no level (knowledge.py, _sections).
SectionsEnclose == Nested(document) => IsUnderItsHeadings(document)

\* A Context holds the best chunks there are, each content once (knowledge.py,
\* retrieve and build_for_mission).
ContextHoldsTheBest == HoldsTheBest(stored)
=============================================================================

---------------------------- MODULE MarkdownChunker ----------------------------
(***************************************************************************)
(* How a markdown document is cut into chunks.  A document is a sequence   *)
(* of lines; of a line only its level as a heading (0: it is none) and its *)
(* length (0: it is blank) matter.  Sections, paragraphs and chunks are    *)
(* made of the numbers of lines; a heading is known by its line's number.  *)
(***************************************************************************)
EXTENDS Naturals, Sequences, SequencesExt, Functions

CONSTANT MaxChars  \* MAX_CHUNK_CHARS

ASSUME MaxCharsAssumption == MaxChars \in Nat

Numbers(document) == [n \in DOMAIN document |-> n]

(* _sections: every heading starts a section *)

\* Mutant: the headings of the same level stay on the path.
KeptAndPeers(path, level) == SubSeq(path, 1, IF level < Len(path) THEN level ELSE Len(path))

\* headings[: level - 1]
Kept(path, level) == SubSeq(path, 1, IF level - 1 < Len(path) THEN level - 1 ELSE Len(path))

Closed(scan) ==
  IF scan.body = <<>> THEN scan.done
  ELSE Append(scan.done, [path |-> scan.path, body |-> scan.body])

ScanLine(document, scan, n) ==
  IF document[n].level = 0 THEN [scan EXCEPT !.body = Append(@, n)]
  ELSE [done |-> Closed(scan),
        path |-> Append(Kept(scan.path, document[n].level), n),
        body |-> <<n>>]

Sections(document) ==
  Closed(FoldLeft(LAMBDA scan, n : ScanLine(document, scan, n),
                  [done |-> <<>>, path |-> <<>>, body |-> <<>>], Numbers(document)))

(* _chunk_section: paragraphs, divided by blank lines, are packed in order *)

Ended(cut) == IF cut.open = <<>> THEN cut.done ELSE Append(cut.done, cut.open)

CutLine(document, cut, n) ==
  IF document[n].len = 0 THEN [done |-> Ended(cut), open |-> <<>>]
  ELSE [cut EXCEPT !.open = Append(@, n)]

Paragraphs(document, body) ==
  Ended(FoldLeft(LAMBDA cut, n : CutLine(document, cut, n),
                 [done |-> <<>>, open |-> <<>>], body))

Total(lengths) == FoldLeft(+, 0, lengths)

\* Lines and paragraphs are joined by one and two newlines.
LengthOf(document, p) == Total([i \in DOMAIN p |-> document[p[i]].len]) + Len(p) - 1

\* Mutant: the newlines between two paragraphs are forgotten.
JointNone(open) == 0

Joint(open) == IF open = <<>> THEN 0 ELSE 2

Pack(document, pack, p) ==
  LET projected == pack.length + LengthOf(document, p) + Joint(pack.open) IN
  IF pack.open # <<>> /\ projected > MaxChars
    THEN [done |-> Append(pack.done, pack.open), open |-> <<p>>,
          length |-> LengthOf(document, p)]
    ELSE [pack EXCEPT !.open = Append(@, p), !.length = projected]

\* Mutant: what is still open at the end of the section is lost.
PackedClosed(pack) == pack.done

Packed(pack) == IF pack.open = <<>> THEN pack.done ELSE Append(pack.done, pack.open)

ChunkSection(document, section) ==
  LET packs == Packed(FoldLeft(LAMBDA pack, p : Pack(document, pack, p),
                               [done |-> <<>>, open |-> <<>>, length |-> 0],
                               Paragraphs(document, section.body)))
  IN  [i \in DOMAIN packs |-> [section |-> section.path, paragraphs |-> packs[i]]]

\* A document with text has a chunk: what chunk() does without one never happens.
Chunk(document) ==
  LET sections == Sections(document) IN
  FlattenSeq([i \in DOMAIN sections |-> ChunkSection(document, sections[i])])

-----------------------------------------------------------------------------
(* What the chunks of a document are to be *)

LinesOf(chunks) == FlattenSeq([i \in DOMAIN chunks |-> FlattenSeq(chunks[i].paragraphs)])

\* Every line with text is in one chunk, in the order of the document.
KeepsText(document) ==
  LET lines == LinesOf(Chunk(document)) IN
  /\ IsSorted(lines, <)
  /\ ToSet(lines) = {n \in DOMAIN document : document[n].len > 0}

ChunkLength(document, ps) ==
  Total([i \in DOMAIN ps |-> LengthOf(document, ps[i])]) + 2 * (Len(ps) - 1)

\* A chunk is within the limit or one paragraph, and could not take the next one.
Fits(document) ==
  LET chunks == Chunk(document) IN
  \A i \in DOMAIN chunks :
    /\ ChunkLength(document, chunks[i].paragraphs) <= MaxChars \/ Len(chunks[i].paragraphs) = 1
    /\ i > 1 /\ chunks[i - 1].section = chunks[i].section
         => ChunkLength(document, Append(chunks[i - 1].paragraphs, Head(chunks[i].paragraphs)))
              > MaxChars

Headings(document) == {n \in DOMAIN document : document[n].level > 0}

\* No heading is more than one level below the one before it.
Nested(document) ==
  \A n \in Headings(document) :
    \/ document[n].level = 1
    \/ \E m \in Headings(document) :
         /\ m < n /\ document[n].level <= document[m].level + 1
         /\ \A k \in Headings(document) : ~(m < k /\ k < n)

\* The headings down to a line that no later heading of their level or above ends.
Enclosing(document, line) ==
  {n \in Headings(document) : n <= line /\
     ~\E m \in Headings(document) :
        n < m /\ m <= line /\ document[m].level <= document[n].level}

\* The section of a chunk is the path of the headings it stands under.
IsUnderItsHeadings(document) ==
  \A c \in Range(Chunk(document)) :
    /\ IsSorted(c.section, <)
    /\ ToSet(c.section) = Enclosing(document, Head(Head(c.paragraphs)))
=============================================================================

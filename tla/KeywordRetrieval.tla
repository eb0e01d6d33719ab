--------------------------- MODULE KeywordRetrieval ---------------------------
(***************************************************************************)
(* Which stored chunks a Context holds.  The chunks come ordered by source *)
(* and position; of a chunk only how often the query's terms occur in it,  *)
(* whether its source is one the Mission names, and its hash matter.       *)
(***************************************************************************)
EXTENDS Naturals, Sequences, FiniteSets, FiniteSetsExt, SequencesExt

CONSTANT Limit  \* DEFAULT_CONTEXT_LIMIT

ASSUME LimitAssumption == Limit \in Nat

\* The elements of a finite set, each once, as an order of theirs has them.
InOrder(S, Precedes(_, _)) == CHOOSE s \in SetToSeqs(S) : IsSorted(s, Precedes)

Score(chunk) == chunk.matches + (IF chunk.preferred THEN 1 ELSE 0)

\* The chunks that score, by their place among the stored ones.
Scoring(stored) == {i \in DOMAIN stored : Score(stored[i]) > 0}

\* The higher score first, then the order of the sources.
RanksBefore(stored, i, j) ==
  \/ Score(stored[i]) > Score(stored[j])
  \/ Score(stored[i]) = Score(stored[j]) /\ i < j

Retrieved(stored) ==
  LET ranked == InOrder(Scoring(stored), LAMBDA i, j : RanksBefore(stored, i, j))
  IN  SubSeq(ranked, 1, IF Limit < Len(ranked) THEN Limit ELSE Len(ranked))

\* Mutant: of equal chunks the first in the sources is kept.
FirstInSources(stored, ranked, k) ==
  \A l \in DOMAIN ranked : stored[ranked[l]].hash = stored[ranked[k]].hash => ranked[l] >= ranked[k]

\* Of equal chunks the first in rank is kept.
FirstOfItsHash(stored, ranked, k) ==
  \A l \in 1..k - 1 : stored[ranked[l]].hash # stored[ranked[k]].hash

Unique(stored, ranked) == {ranked[k] : k \in {l \in DOMAIN ranked : FirstOfItsHash(stored, ranked, l)}}

\* The chunks of the Context, in the order of the sources again.
ContextChunks(stored) == InOrder(Unique(stored, Retrieved(stored)), <)

-----------------------------------------------------------------------------
(* What the Context is to hold *)

\* The chunks that rank before this one.
Before(stored, i) == {j \in Scoring(stored) : RanksBefore(stored, j, i)}

\* The best chunks, as many as the limit allows, each content once and from
\* where it scores best.
HoldsTheBest(stored) ==
  ToSet(ContextChunks(stored)) =
    {i \in Scoring(stored) :
       /\ Cardinality(Before(stored, i)) < Limit
       /\ \A j \in Before(stored, i) : stored[j].hash # stored[i].hash}
=============================================================================

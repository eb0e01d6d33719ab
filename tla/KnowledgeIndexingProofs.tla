------------------------ MODULE KnowledgeIndexingProofs ------------------------
(***************************************************************************)
(* Proofs about KnowledgeIndexing: types, and that readers get the chunks  *)
(* of the documents that the index names, for any sources and contents,    *)
(* any number of changes and of ends of the process.                       *)
(***************************************************************************)
EXTENDS KnowledgeIndexing, TLAPS

-----------------------------------------------------------------------------
(* Documents *)

LEMMA DocumentsAre ==
  ASSUME NEW d
  PROVE  d \in Documents <=>
           /\ d = [s \in DOMAIN d |-> d[s]]
           /\ DOMAIN d \subseteq Sources
           /\ \A s \in DOMAIN d : d[s] \in Contents
<1>1. ASSUME d \in Documents
      PROVE  /\ d = [s \in DOMAIN d |-> d[s]]
             /\ DOMAIN d \subseteq Sources
             /\ \A s \in DOMAIN d : d[s] \in Contents
  <2>1. PICK ss \in SUBSET Sources : d \in [ss -> Contents]
    BY <1>1 DEF Documents
  <2> QED
    BY <2>1
<1>2. ASSUME d = [s \in DOMAIN d |-> d[s]], DOMAIN d \subseteq Sources,
             \A s \in DOMAIN d : d[s] \in Contents
      PROVE  d \in Documents
  <2>1. d \in [DOMAIN d -> Contents]
    BY <1>2
  <2> QED
    BY <1>2, <2>1 DEF Documents
<1> QED
  BY <1>1, <1>2

LEMMA NothingIsDocuments == Nothing \in Documents /\ DOMAIN Nothing = {}
<1>1. DOMAIN Nothing = {} /\ Nothing = [s \in DOMAIN Nothing |-> Nothing[s]]
  BY DEF Nothing
<1> QED
  BY <1>1, DocumentsAre

LEMMA CutIsDocuments ==
  ASSUME NEW d \in Documents
  PROVE  Cut(d) \in Documents /\ DOMAIN Cut(d) \subseteq DOMAIN d
<1>1. /\ DOMAIN Cut(d) = {r \in DOMAIN d : d[r] \notin Blank}
      /\ \A s \in DOMAIN Cut(d) : Cut(d)[s] = d[s]
      /\ Cut(d) = [s \in DOMAIN Cut(d) |-> Cut(d)[s]]
  BY DEF Cut
<1> QED
  BY <1>1, DocumentsAre

\* The chunks of a source are not those of the document the index names.
Differs(s) ==
  \/ s \in DOMAIN chunks /\ chunks[s] # hashes[s]
  \/ s \in DOMAIN chunks <=> hashes[s] \in Blank

LEMMA NoDifference ==
  ASSUME TypeOK, DOMAIN chunks \subseteq DOMAIN hashes,
         \A s \in DOMAIN hashes : ~Differs(s)
  PROVE  chunks = Cut(hashes)
<1>1. chunks = [s \in DOMAIN chunks |-> chunks[s]]
  BY DocumentsAre DEF TypeOK
<1>2. DOMAIN chunks = {r \in DOMAIN hashes : hashes[r] \notin Blank}
  BY DEF Differs
<1>3. \A s \in DOMAIN chunks : chunks[s] = hashes[s]
  BY DEF Differs
<1> QED
  BY <1>1, <1>2, <1>3 DEF Cut

-----------------------------------------------------------------------------
(* Types *)

LEMMA LoadKeepsTypes == TypeOK /\ Load => loaded' \in Documents
<1> SUFFICES ASSUME TypeOK, Load PROVE loaded' \in Documents
  OBVIOUS
<1>1. PICK s \in sources \ DOMAIN loaded :
        \/ UNCHANGED loaded
        \/ /\ files[s] # Missing
           /\ loaded' = [r \in DOMAIN loaded \cup {s} |-> IF r = s THEN files[s] ELSE loaded[r]]
  BY DEF Load
<1>2. /\ DOMAIN loaded \subseteq Sources /\ \A r \in DOMAIN loaded : loaded[r] \in Contents
      /\ s \in Sources /\ files[s] \in Contents \cup {Missing}
  BY DocumentsAre DEF TypeOK
<1>3. CASE UNCHANGED loaded
  BY <1>3 DEF TypeOK
<1>4. CASE /\ files[s] # Missing
           /\ loaded' = [r \in DOMAIN loaded \cup {s} |-> IF r = s THEN files[s] ELSE loaded[r]]
  <2>1. /\ DOMAIN loaded' = DOMAIN loaded \cup {s}
        /\ \A r \in DOMAIN loaded' : loaded'[r] \in Contents
        /\ loaded' = [r \in DOMAIN loaded' |-> loaded'[r]]
    BY <1>2, <1>4
  <2> QED
    BY <1>2, <2>1, DocumentsAre
<1> QED
  BY <1>1, <1>3, <1>4

LEMMA TypesInductive == TypeOK /\ [Next]_vars => TypeOK'
<1> SUFFICES ASSUME TypeOK, [Next]_vars PROVE TypeOK'
  OBVIOUS
<1> USE DEF TypeOK
<1>1. CASE Load
  BY <1>1, LoadKeepsTypes DEF Load, index
<1>2. CASE Compare
  BY <1>2 DEF Compare, Indexed, index
<1>3. CASE Replace
  BY <1>3, CutIsDocuments DEF Replace
<1>4. CASE Record
  BY <1>4 DEF Record, Indexed, Named
<1>5. CASE Fail
  BY <1>5 DEF Fail
<1>6. CASE WakeUp \/ NoAgentDue \/ NoIndex
  BY <1>6 DEF WakeUp, NoAgentDue, NoIndex, index
<1>7. CASE AgentDue
  BY <1>7 DEF AgentDue
<1>8. CASE IndexPass \/ Search
  BY <1>8, NothingIsDocuments, DeclaredAssumption DEF IndexPass, Search, Begin
<1>9. CASE ContextPass
  BY <1>9 DEF ContextPass, index
<1>10. CASE DeleteIndex
  BY <1>10, NothingIsDocuments, EditsAssumption DEF DeleteIndex
<1>11. CASE Crash
  BY <1>11, NothingIsDocuments, EditsAssumption DEF Crash, index, Reverted
<1>12. ASSUME NEW s \in Sources, Edit(s)
       PROVE  TypeOK'
  BY <1>12, EditsAssumption DEF Edit, index, Reverted
<1>13. CASE UNCHANGED vars
  BY <1>13 DEF vars
<1> QED
  BY <1>1, <1>2, <1>3, <1>4, <1>5, <1>6, <1>7, <1>8, <1>9, <1>10, <1>11, <1>12, <1>13
  DEF Next, LoopStep

\* Every variable keeps its type.
THEOREM SpecTypeOK == Spec => []TypeOK
<1>1. ASSUME Init PROVE TypeOK
  <2>1. served \in BOOLEAN /\ reverted \in BOOLEAN
    BY <1>1, Zenon DEF Init
  <2>2. edits \in 0..MaxEdits /\ crashes \in 0..MaxCrashes
    BY <1>1, EditsAssumption DEF Init
  <2>3. hashes \in Documents /\ chunks \in Documents /\ loaded \in Documents
    BY <1>1, NothingIsDocuments DEF Init
  <2>4. files \in [Sources -> Contents \cup {Missing}] /\ sources \subseteq Sources
    BY <1>1 DEF Init
  <2> QED
    BY <1>1, <2>1, <2>2, <2>3, <2>4, Zenon DEF Init, TypeOK
<1> QED
  BY <1>1, TypesInductive, PTL DEF Spec

-----------------------------------------------------------------------------
(* What the chunks, the hashes and the loaded documents have to do with each *)
(* other, wherever ensure_indexed is.                                        *)

\* All of them are of sources of the index.
OfSources ==
  /\ DOMAIN hashes \subseteq sources /\ DOMAIN chunks \subseteq sources
  /\ step # "Idle" => DOMAIN loaded \subseteq sources

\* Agents and Contexts get their turn when nothing is being indexed.
OneAtATime ==
  /\ at \in {"agents", "contexts"} => step = "Idle"
  /\ step # "Idle" => phase # "Absent"

ChunksOfLoaded == step = "Record" => chunks = Cut(loaded)

\* Chunks of something else are found out: their file is not what its hash says,
RevertedIsNoticed == Reverted => reverted

\* nor was it when it was loaded.
LoadedDiffers ==
  step = "Load" /\ phase = "Ready" /\ ~reverted =>
    \A s \in DOMAIN loaded \cap DOMAIN hashes : Differs(s) => loaded[s] # hashes[s]

ContextsGetNamed ==
  at = "contexts" /\ phase = "Ready" /\ ~reverted => chunks = Cut(hashes)

IndexInvariant ==
  /\ OfSources /\ OneAtATime /\ ChunksOfLoaded
  /\ RevertedIsNoticed /\ LoadedDiffers /\ ContextsGetNamed
  /\ ServedAsNamed

\* Whatever is taken for current has the chunks its hashes name.
LEMMA CurrentIsNamed ==
  ASSUME TypeOK, IndexInvariant, step = "Load", DOMAIN loaded = sources, Current, ~reverted
  PROVE  chunks = Cut(hashes)
<1>1. DOMAIN hashes = sources /\ hashes = loaded /\ phase = "Ready"
  BY DEF Current
<1>2. \A s \in DOMAIN hashes : ~Differs(s)
  BY <1>1 DEF IndexInvariant, LoadedDiffers
<1> QED
  BY <1>1, <1>2, NoDifference DEF IndexInvariant, OfSources

LEMMA LoadKeepsInvariant == TypeOK /\ IndexInvariant /\ Load => IndexInvariant'
<1> SUFFICES ASSUME TypeOK, IndexInvariant, Load PROVE IndexInvariant'
  OBVIOUS
<1>1. PICK s \in sources \ DOMAIN loaded :
        \/ step' = "Fail" /\ UNCHANGED loaded
        \/ /\ UNCHANGED step
           /\ loaded' = [r \in DOMAIN loaded \cup {s} |-> IF r = s THEN files[s] ELSE loaded[r]]
  BY DEF Load
<1>2. /\ step = "Load" /\ step' \in {"Load", "Fail"}
      /\ UNCHANGED <<files, sources, phase, hashes, chunks, at, served, reverted>>
  BY <1>1 DEF Load, index
<1>3. OfSources'
  BY <1>1, <1>2 DEF IndexInvariant, OfSources
<1>4. LoadedDiffers'
  <2> SUFFICES ASSUME step' = "Load", phase = "Ready", ~reverted,
                      NEW r \in DOMAIN loaded' \cap DOMAIN hashes, Differs(r)
               PROVE  loaded'[r] # hashes[r]
    BY <1>2 DEF LoadedDiffers, Differs
  <2>1. loaded' = [q \in DOMAIN loaded \cup {s} |-> IF q = s THEN files[s] ELSE loaded[q]]
    BY <1>1
  <2>2. CASE r = s
    <3>1. files[s] # hashes[s]
      BY <1>2, <2>2 DEF IndexInvariant, RevertedIsNoticed, Reverted, Differs
    <3> QED
      BY <2>1, <2>2, <3>1
  <2>3. CASE r # s
    <3>1. r \in DOMAIN loaded /\ loaded'[r] = loaded[r]
      BY <2>1, <2>3
    <3> QED
      BY <1>2, <3>1 DEF IndexInvariant, LoadedDiffers
  <2> QED
    BY <2>2, <2>3
<1> QED
  BY <1>2, <1>3, <1>4 DEF IndexInvariant, OneAtATime, ChunksOfLoaded, RevertedIsNoticed, Reverted,
     ContextsGetNamed, ServedAsNamed, Cut

LEMMA CompareKeepsInvariant == TypeOK /\ IndexInvariant /\ Compare => IndexInvariant'
<1> SUFFICES ASSUME TypeOK, IndexInvariant, Compare PROVE IndexInvariant'
  OBVIOUS
<1>1. /\ step = "Load" /\ DOMAIN loaded = sources
      /\ UNCHANGED <<files, sources, phase, hashes, chunks, loaded, reverted>>
  BY DEF Compare, index
<1>2. CASE ~Current
  BY <1>1, <1>2 DEF Compare, IndexInvariant, OfSources, OneAtATime, ChunksOfLoaded,
     RevertedIsNoticed, Reverted, LoadedDiffers, ContextsGetNamed, ServedAsNamed
<1>3. CASE Current
  <2>1. /\ step' = "Idle" /\ at' = (IF at = "indexes" THEN "contexts" ELSE at)
        /\ served' = (served /\ (at = "indexes" \/ chunks' = Cut(hashes')))
    BY <1>3 DEF Compare, Indexed
  <2>2. ~reverted => chunks = Cut(hashes)
    BY <1>1, <1>3, CurrentIsNamed
  <2>3. chunks' = Cut(hashes') <=> chunks = Cut(hashes)
    BY <1>1 DEF Cut
  <2>4. ServedAsNamed'
    BY <1>1, <2>1, <2>2, <2>3 DEF IndexInvariant, ServedAsNamed
  <2>5. ContextsGetNamed'
    BY <1>1, <2>2, <2>3 DEF ContextsGetNamed
  <2>6. OfSources' /\ OneAtATime' /\ ChunksOfLoaded' /\ RevertedIsNoticed' /\ LoadedDiffers'
    BY <1>1, <2>1 DEF IndexInvariant, OfSources, OneAtATime, ChunksOfLoaded, RevertedIsNoticed,
       Reverted, LoadedDiffers
  <2> QED
    BY <2>4, <2>5, <2>6 DEF IndexInvariant
<1> QED
  BY <1>2, <1>3

LEMMA ReplaceKeepsInvariant == TypeOK /\ IndexInvariant /\ Replace => IndexInvariant'
<1> SUFFICES ASSUME TypeOK, IndexInvariant, Replace PROVE IndexInvariant'
  OBVIOUS
<1>1. /\ step = "Replace" /\ step' = "Record" /\ chunks' = Cut(loaded)
      /\ UNCHANGED <<sources, phase, hashes, at, loaded, served, reverted>>
  BY DEF Replace
<1>2. ChunksOfLoaded'
  BY <1>1 DEF ChunksOfLoaded, Cut
<1>3. OfSources'
  BY <1>1, CutIsDocuments DEF IndexInvariant, OfSources, TypeOK
<1> QED
  BY <1>1, <1>2, <1>3 DEF IndexInvariant, OneAtATime, RevertedIsNoticed, Reverted, LoadedDiffers,
     ContextsGetNamed, ServedAsNamed

LEMMA RecordKeepsInvariant == TypeOK /\ IndexInvariant /\ Record => IndexInvariant'
<1> SUFFICES ASSUME TypeOK, IndexInvariant, Record PROVE IndexInvariant'
  OBVIOUS
<1>1. /\ step = "Record" /\ step' = "Idle" /\ phase' = "Ready" /\ hashes' = loaded
      /\ at' = (IF at = "indexes" THEN "contexts" ELSE at)
      /\ served' = (served /\ (at = "indexes" \/ chunks' = Cut(hashes')))
      /\ UNCHANGED <<files, sources, chunks, loaded, reverted>>
  BY DEF Record, Indexed, Named
<1>2. chunks' = Cut(hashes')
  BY <1>1 DEF IndexInvariant, ChunksOfLoaded
<1>3. /\ DOMAIN chunks' = {r \in DOMAIN hashes' : hashes'[r] \notin Blank}
      /\ \A s \in DOMAIN chunks' : chunks'[s] = hashes'[s]
  BY <1>2 DEF Cut
<1>4. ~Reverted'
  BY <1>3 DEF Reverted
<1>5. OfSources'
  BY <1>1 DEF IndexInvariant, OfSources
<1> QED
  BY <1>1, <1>2, <1>4, <1>5 DEF IndexInvariant, OneAtATime, ChunksOfLoaded, RevertedIsNoticed,
     LoadedDiffers, ContextsGetNamed, ServedAsNamed

LEMMA InvariantInductive == TypeOK /\ IndexInvariant /\ [Next]_vars => IndexInvariant'
<1> SUFFICES ASSUME TypeOK, IndexInvariant, [Next]_vars PROVE IndexInvariant'
  OBVIOUS
<1> USE DEF IndexInvariant, OfSources, OneAtATime, ChunksOfLoaded, RevertedIsNoticed,
        LoadedDiffers, ContextsGetNamed, ServedAsNamed
<1>1. CASE Fail
  BY <1>1 DEF Fail, Reverted
<1>2. CASE WakeUp \/ NoAgentDue \/ NoIndex
  BY <1>2 DEF WakeUp, NoAgentDue, NoIndex, index, Reverted
<1>3. CASE AgentDue
  BY <1>3 DEF AgentDue, Reverted
<1>4. CASE IndexPass \/ Search
  <2>1. /\ step = "Idle" /\ step' = "Load" /\ loaded' = Nothing
        /\ sources \subseteq sources' /\ phase' # "Absent" /\ (phase' = "Ready" <=> phase = "Ready")
        /\ at \notin {"agents", "contexts"}
        /\ UNCHANGED <<files, hashes, chunks, at, served, reverted>>
    BY <1>4 DEF IndexPass, Search, Begin
  <2> QED
    BY <2>1, NothingIsDocuments DEF Reverted
<1>5. CASE ContextPass
  BY <1>5 DEF ContextPass, index, Reverted
<1>6. CASE DeleteIndex
  BY <1>6, NothingIsDocuments DEF DeleteIndex, Reverted
<1>7. CASE Crash
  BY <1>7 DEF Crash, index, Reverted
<1>8. ASSUME NEW s \in Sources, Edit(s)
      PROVE  IndexInvariant'
  BY <1>8 DEF Edit, index, Differs
<1>9. CASE UNCHANGED vars
  BY <1>9 DEF vars, Reverted, Differs
<1> QED
  BY <1>1, <1>2, <1>3, <1>4, <1>5, <1>6, <1>7, <1>8, <1>9, LoadKeepsInvariant,
     CompareKeepsInvariant, ReplaceKeepsInvariant, RecordKeepsInvariant
  DEF Next, LoopStep

\* Readers get the chunks of exactly the documents whose hashes the index names.
THEOREM SpecServedAsNamed == Spec => []ServedAsNamed
<1>1. Init => IndexInvariant
  BY NothingIsDocuments DEF Init, IndexInvariant, OfSources, OneAtATime, ChunksOfLoaded,
     RevertedIsNoticed, Reverted, LoadedDiffers, ContextsGetNamed, ServedAsNamed
<1>2. TypeOK /\ IndexInvariant /\ [Next]_vars => IndexInvariant'
  BY InvariantInductive
<1>3. Spec => []IndexInvariant
  BY <1>1, <1>2, SpecTypeOK, PTL DEF Spec
<1> QED
  BY <1>3, PTL DEF IndexInvariant
=============================================================================

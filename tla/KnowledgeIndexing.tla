--------------------------- MODULE KnowledgeIndexing ---------------------------
(***************************************************************************)
(* The KnowledgeIndex of one Workspace, the Context built from it for one  *)
(* AgentRun, and the markdown files both come from.                        *)
(*                                                                         *)
(* One process serves the control loop and the API.  Tools and people      *)
(* write the files at any time, the process may end between any two        *)
(* sessions of its store.  Chunks and status are written in two sessions:  *)
(* the documents the chunks were cut from and the documents the status     *)
(* names are what must not drift apart.                                    *)
(*                                                                         *)
(* A content stands for its hash and for the chunks cut from it            *)
(* (MarkdownChunker); which chunks a Context holds is KeywordRetrieval's.  *)
(***************************************************************************)
EXTENDS Naturals

CONSTANTS
  Sources,    \* the references to knowledge
  Contents,   \* the contents a file may have
  Blank,      \* those of them without text
  Missing,    \* a file that is not there
  Declared,   \* the sources of the Workspace's Knowledge resources
  MaxEdits,   \* bound on the changes of files and the deletions of the index
  MaxCrashes  \* bound on the ends of the process

ASSUME ContentsAssumption == Missing \notin Contents /\ Blank \subseteq Contents
ASSUME DeclaredAssumption == Declared \subseteq Sources
ASSUME EditsAssumption == MaxEdits \in Nat /\ MaxCrashes \in Nat

VARIABLES
  files,    \* Sources -> the content of the file
  sources,  \* spec.sources of the KnowledgeIndex
  phase,    \* status.phase of the KnowledgeIndex; Absent: there is none
  hashes,   \* status.data.sourceHashes: source -> content
  chunks,   \* the stored chunks: source -> the content they were cut from
  context,  \* the phase of the Context
  at,       \* the loop's controller: agents, indexes or contexts; or asleep
  step,     \* what ensure_indexed does next; Idle: it is not running
  loaded,   \* the documents it has loaded
  served,   \* history: every reader got the chunks of the documents named
  reverted, \* history: Reverted has been the case
  edits,    \* changes so far
  crashes   \* ends of the process so far

index == <<sources, phase, hashes, chunks>>
vars == <<files, sources, phase, hashes, chunks, context, at, step, loaded, served,
          reverted, edits, crashes>>

Nothing == [s \in {} |-> Missing]
Documents == UNION {[ss -> Contents] : ss \in SUBSET Sources}

\* The documents among these that give chunks.
Cut(documents) ==
  [s \in {r \in DOMAIN documents : documents[r] \notin Blank} |-> documents[s]]

TypeOK ==
  /\ files \in [Sources -> Contents \cup {Missing}]
  /\ sources \subseteq Sources
  /\ phase \in {"Absent", "Pending", "Ready", "Failed"}
  /\ hashes \in Documents /\ chunks \in Documents /\ loaded \in Documents
  /\ context \in {"Absent", "Pending", "Ready", "Failed"}
  /\ at \in {"asleep", "agents", "indexes", "contexts"}
  /\ step \in {"Idle", "Load", "Replace", "Record", "Fail"}
  /\ served \in BOOLEAN /\ reverted \in BOOLEAN
  /\ edits \in 0..MaxEdits /\ crashes \in 0..MaxCrashes

Init ==
  /\ files \in [Sources -> Contents \cup {Missing}]
  /\ sources = {} /\ phase = "Absent"
  /\ hashes = Nothing /\ chunks = Nothing /\ loaded = Nothing
  /\ context = "Absent"
  /\ at = "asleep" /\ step = "Idle"
  /\ served = TRUE /\ reverted = FALSE
  /\ edits = 0 /\ crashes = 0

-----------------------------------------------------------------------------
(* KnowledgeIndexer.ensure_indexed, one session of the store at a time *)

\* The index covers its own sources, or else the Knowledge that is declared.
Begin ==
  /\ step = "Idle"
  /\ sources' = IF sources = {} THEN Declared ELSE sources
  /\ phase' = IF phase = "Absent" THEN "Pending" ELSE phase
  /\ step' = "Load" /\ loaded' = Nothing

Load ==
  /\ step = "Load"
  /\ \E s \in sources \ DOMAIN loaded :
       IF files[s] = Missing
         THEN step' = "Fail" /\ UNCHANGED loaded
         ELSE /\ loaded' = [r \in DOMAIN loaded \cup {s} |->
                              IF r = s THEN files[s] ELSE loaded[r]]
              /\ UNCHANGED step
  /\ UNCHANGED <<files, index, context, at, served, reverted, edits, crashes>>

\* The controller goes on to the Contexts, a search reads the chunks.
Indexed ==
  /\ step' = "Idle"
  /\ at' = IF at = "indexes" THEN "contexts" ELSE at
  /\ served' = (served /\ (at = "indexes" \/ chunks' = Cut(hashes')))

\* Mutant: whatever is Ready is taken for current.
CurrentIfReady == phase = "Ready"

\* The status names what was loaded, and there are chunks if there are documents.
Current == phase = "Ready" /\ hashes = loaded /\ (chunks # Nothing \/ loaded = Nothing)

Compare ==
  /\ step = "Load" /\ DOMAIN loaded = sources
  /\ IF Current THEN UNCHANGED index /\ Indexed
                ELSE step' = "Replace" /\ UNCHANGED <<index, at, served>>
  /\ UNCHANGED <<files, context, loaded, reverted, edits, crashes>>

\* All chunks are replaced in one session.
Replace ==
  /\ step = "Replace"
  /\ chunks' = Cut(loaded)
  /\ step' = "Record"
  /\ UNCHANGED <<files, sources, phase, hashes, context, at, loaded, served, reverted, edits,
                 crashes>>

\* Mutant: the hashes are those of the files as they are now.
NamedNow == [s \in DOMAIN loaded |-> IF files[s] = Missing THEN loaded[s] ELSE files[s]]

\* The hashes are those of the documents that were loaded.
Named == loaded

Record ==
  /\ step = "Record"
  /\ phase' = "Ready" /\ hashes' = Named
  /\ UNCHANGED <<sources, chunks>>
  /\ Indexed
  /\ UNCHANGED <<files, context, loaded, reverted, edits, crashes>>

\* A source could not be loaded. Hashes and chunks stay as they are.
Fail ==
  /\ step = "Fail"
  /\ phase' = "Failed"
  /\ step' = "Idle"
  /\ at' = IF at = "indexes" THEN "contexts" ELSE at
  /\ UNCHANGED <<files, sources, hashes, chunks, context, loaded, served, reverted, edits,
                 crashes>>

-----------------------------------------------------------------------------
(* The control loop *)

WakeUp ==
  /\ at = "asleep" /\ step = "Idle"
  /\ at' = "agents"
  /\ UNCHANGED <<files, index, context, step, loaded, served, reverted, edits, crashes>>

\* An Agent is due: its Mission's references become sources of the index, and
\* its AgentRun gets a Context.
AgentDue ==
  /\ at = "agents"
  /\ \E refs \in SUBSET Sources : sources' = sources \cup refs
  /\ phase' = IF phase = "Absent" THEN "Pending" ELSE phase
  /\ context' = IF context = "Absent" THEN "Pending" ELSE context
  /\ at' = "indexes"
  /\ UNCHANGED <<files, hashes, chunks, step, loaded, served, reverted, edits, crashes>>

NoAgentDue ==
  /\ at = "agents"
  /\ at' = "indexes"
  /\ UNCHANGED <<files, index, context, step, loaded, served, reverted, edits, crashes>>

IndexPass ==
  /\ at = "indexes" /\ phase # "Absent"
  /\ Begin
  /\ UNCHANGED <<files, hashes, chunks, context, at, served, reverted, edits, crashes>>

NoIndex ==
  /\ at = "indexes" /\ phase = "Absent"
  /\ at' = "contexts"
  /\ UNCHANGED <<files, index, context, step, loaded, served, reverted, edits, crashes>>

\* Mutant: a Context that has failed is left alone.
ContextDueOnce == context = "Pending"

\* A Context that is not Ready is built, or built again.
ContextDue == context \in {"Pending", "Failed"}

ContextPass ==
  /\ at = "contexts"
  /\ IF ContextDue
       THEN /\ context' = IF phase = "Ready" THEN "Ready" ELSE "Failed"
            /\ served' = (served /\ (phase = "Ready" => chunks = Cut(hashes)))
       ELSE UNCHANGED <<context, served>>
  /\ at' = "asleep"
  /\ UNCHANGED <<files, index, step, loaded, reverted, edits, crashes>>

-----------------------------------------------------------------------------
(* The API, the files and the end of the process *)

Search ==
  /\ at = "asleep"
  /\ Begin
  /\ UNCHANGED <<files, hashes, chunks, context, at, served, reverted, edits, crashes>>

\* The chunks go with the KnowledgeIndex.
DeleteIndex ==
  /\ at = "asleep" /\ step = "Idle" /\ phase # "Absent"
  /\ edits < MaxEdits
  /\ edits' = edits + 1
  /\ sources' = {} /\ phase' = "Absent" /\ hashes' = Nothing /\ chunks' = Nothing
  /\ UNCHANGED <<files, context, at, step, loaded, served, reverted, crashes>>

\* A source whose new chunks were stored, whose new hash was not recorded
\* before the process ended, and whose file has its old content again: the index
\* is taken for current and stays Ready on chunks of another content.
Reverted ==
  /\ phase = "Ready" /\ step # "Record"
  /\ \E s \in DOMAIN hashes :
       /\ files[s] = hashes[s]
       /\ \/ s \in DOMAIN chunks /\ chunks[s] # hashes[s]
          \/ s \in DOMAIN chunks <=> hashes[s] \in Blank

Edit(s) ==
  /\ edits < MaxEdits
  /\ edits' = edits + 1
  /\ \E c \in (Contents \cup {Missing}) \ {files[s]} : files' = [files EXCEPT ![s] = c]
  /\ UNCHANGED <<index, context, at, step, loaded, served, crashes>>
  /\ reverted' = (reverted \/ Reverted')

\* The process ends and is started again.
Crash ==
  /\ crashes < MaxCrashes
  /\ crashes' = crashes + 1
  /\ at' = "asleep" /\ step' = "Idle" /\ loaded' = Nothing
  /\ UNCHANGED <<files, index, context, served, edits>>
  /\ reverted' = (reverted \/ Reverted')

-----------------------------------------------------------------------------
LoopStep ==
  \/ WakeUp \/ AgentDue \/ NoAgentDue \/ IndexPass \/ NoIndex \/ ContextPass
  \/ Load \/ Compare \/ Replace \/ Record \/ Fail

Next == LoopStep \/ Search \/ DeleteIndex \/ Crash \/ \E s \in Sources : Edit(s)

Spec == Init /\ [][Next]_vars

\* The loop goes on, whatever the API is asked.
FairSpec == Spec /\ WF_vars(LoopStep) /\ SF_vars(WakeUp)

-----------------------------------------------------------------------------
(* Properties *)

\* Contexts and searches get the chunks of exactly the documents whose hashes
\* the index names, whatever was edited and wherever the process ended, but for
\* the one case that hashes cannot tell.
ServedAsNamed == served \/ reverted

\* The index has what it needs.
Indexable == phase # "Absent" /\ \A s \in sources : files[s] # Missing

\* Its status names the files as they are, and so do its chunks.
Fresh ==
  /\ phase = "Ready"
  /\ hashes = [s \in sources |-> files[s]]
  /\ chunks = Cut(hashes)

\* Once the files stay as they are, the index gets to them and stays there, but for
\* that case.
IndexGetsFresh == <>[]Indexable => <>[](Fresh \/ reverted)

\* A Context that failed for want of an index gets Ready.
ContextGetsReady == <>[]Indexable => (context = "Failed" ~> context = "Ready")
=============================================================================

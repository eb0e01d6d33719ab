------------------------ MODULE ApprovalHandoverProofs ------------------------
(***************************************************************************)
(* Proofs about ApprovalHandover: types; the number of approvals, for any  *)
(* number of processes and crashes; and that what was performed stays      *)
(* approved, for one control plane and one approver who goes by the run.   *)
(***************************************************************************)
EXTENDS ApprovalHandover, FiniteSetTheorems, TLAPS

-----------------------------------------------------------------------------
(* Types *)

RunType ==
  [phase : States \cup {"Absent", "WaitingForApproval"}, state : States,
   pending : Approvals \cup {NoApproval}]
ApprovalType == [Approvals -> {"None", "Pending"} \cup Decisions]
Places == {"idle", "asking", "creating", "marking", "pausing", "performing", "fencing", "settling"}
WorkerType == [at : Places, approval : Approvals \cup {NoApproval}, outcome : Over]
DeciderType ==
  [at : {"idle", "loaded", "recorded", "returning"},
   approval : Approvals \cup {NoApproval}, decision : Decisions, phase : States]

LEMMA TypesAre ==
  TypeOK <=>
    /\ run \in RunType /\ approval \in ApprovalType
    /\ worker \in [Workers -> WorkerType] /\ decider \in [Deciders -> DeciderType]
    /\ performed \in BOOLEAN /\ disturbed \in BOOLEAN
    /\ crashes \in 0..MaxCrashes /\ deletions \in 0..MaxDeletions
BY Zenon DEF TypeOK, RunType, ApprovalType, Places, WorkerType, DeciderType

\* What steps do to the records of a worker, a decider and the run.
LEMMA WorkerGoes ==
  ASSUME NEW f \in [Workers -> WorkerType], NEW w \in Workers, NEW place \in Places
  PROVE  [f EXCEPT ![w].at = place] \in [Workers -> WorkerType]
BY DEF WorkerType

LEMMA WorkerGoesWith ==
  ASSUME NEW f \in [Workers -> WorkerType], NEW w \in Workers, NEW place \in Places,
         NEW a \in Approvals
  PROVE  [f EXCEPT ![w].at = place, ![w].approval = a] \in [Workers -> WorkerType]
BY DEF WorkerType

LEMMA WorkerGoesFor ==
  ASSUME NEW f \in [Workers -> WorkerType], NEW w \in Workers, NEW place \in Places,
         NEW o \in Over
  PROVE  [f EXCEPT ![w].at = place, ![w].outcome = o] \in [Workers -> WorkerType]
BY DEF WorkerType

LEMMA WorkerRests ==
  ASSUME NEW f \in [Workers -> WorkerType], NEW w \in Workers
  PROVE  [f EXCEPT ![w] = IdleWorker] \in [Workers -> WorkerType]
<1>1. IdleWorker \in WorkerType
  BY DEF WorkerType, IdleWorker, Places, Over
<1> QED
  BY <1>1

LEMMA DeciderLoads ==
  ASSUME NEW f \in [Deciders -> DeciderType], NEW d \in Deciders, NEW a \in Approvals,
         NEW decision \in Decisions
  PROVE  [f EXCEPT ![d].at = "loaded", ![d].approval = a, ![d].decision = decision]
           \in [Deciders -> DeciderType]
BY DEF DeciderType

LEMMA DeciderRecords ==
  ASSUME NEW f \in [Deciders -> DeciderType], NEW d \in Deciders
  PROVE  [f EXCEPT ![d].at = "recorded"] \in [Deciders -> DeciderType]
BY DEF DeciderType

LEMMA DeciderReturns ==
  ASSUME NEW f \in [Deciders -> DeciderType], NEW d \in Deciders, NEW phase \in States
  PROVE  [f EXCEPT ![d].at = "returning", ![d].phase = phase] \in [Deciders -> DeciderType]
BY DEF DeciderType

LEMMA DeciderDone ==
  ASSUME NEW f \in [Deciders -> DeciderType], NEW d \in Deciders
  PROVE  [f EXCEPT ![d] = IdleDecider] \in [Deciders -> DeciderType]
<1>1. IdleDecider \in DeciderType
  BY DEF DeciderType, IdleDecider, Decisions, States, Over
<1> QED
  BY <1>1

LEMMA RunWrites ==
  ASSUME NEW r \in RunType, NEW a \in Approvals \cup {NoApproval}, NEW phase \in States,
         NEW state \in States
  PROVE  /\ [r EXCEPT !.phase = "WaitingForApproval", !.pending = a] \in RunType
         /\ [r EXCEPT !.phase = phase, !.pending = NoApproval] \in RunType
         /\ [r EXCEPT !.phase = phase, !.state = state] \in RunType
BY DEF RunType

LEMMA NewRuns == NewRun \in RunType /\ [NewRun EXCEPT !.phase = "Absent"] \in RunType
BY DEF RunType, NewRun, States

LEMMA WorkerStepKeepsTypes ==
  ASSUME TypeOK, NEW w \in Workers, WorkerStep(w) \/ Die(w)
  PROVE  TypeOK'
<1>1. /\ run \in RunType /\ approval \in ApprovalType /\ worker[w] \in WorkerType
      /\ worker \in [Workers -> WorkerType]
  BY TypesAre
<1>2. worker[w].approval \in Approvals \cup {NoApproval} /\ worker[w].outcome \in States
  BY <1>1 DEF WorkerType, States
<1>3. worker' \in [Workers -> WorkerType]
  <2>1. CASE Enter(w) \/ Granted(w) \/ NotAskedYet(w) \/ MarkPending(w)
    <3>1. PICK place \in Places : worker' = [worker EXCEPT ![w].at = place]
      BY <2>1 DEF Enter, Granted, NotAskedYet, MarkPending, Goes, Places
    <3> QED
      BY <1>1, <3>1, WorkerGoes
  <2>2. CASE Reuse(w) \/ CreateApproval(w)
    <3>1. PICK place \in Places, a \in Approvals :
            worker' = [worker EXCEPT ![w].at = place, ![w].approval = a]
      BY <2>2, Zenon DEF Reuse, Open, In, CreateApproval, Places
    <3> QED
      BY <1>1, <3>1, WorkerGoesWith
  <2>3. CASE Refused(w) \/ Perform(w)
    <3>1. PICK place \in Places, o \in Over :
            worker' = [worker EXCEPT ![w].at = place, ![w].outcome = o]
      BY <2>3, Zenon DEF Refused, Perform, Places, Over
    <3> QED
      BY <1>1, <3>1, WorkerGoesFor
  <2>4. CASE PauseRun(w) \/ Settle(w) \/ Die(w)
    BY <1>1, <2>4, WorkerRests DEF PauseRun, Settle, Die, Rests
  <2>5. CASE Fence(w)
    <3>1. \/ worker' = [worker EXCEPT ![w] = IdleWorker]
          \/ worker' = [worker EXCEPT ![w].at = "settling"]
      BY <2>5 DEF Fence, Rests, Goes
    <3>2. "settling" \in Places
      BY DEF Places
    <3> QED
      BY <1>1, <3>1, <3>2, WorkerRests, WorkerGoes
  <2>6. CASE Recreate(w)
    BY <1>1, <2>6 DEF Recreate
  <2> QED
    BY <2>1, <2>2, <2>3, <2>4, <2>5, <2>6 DEF WorkerStep
<1>4. run' \in RunType
  <2>1. CASE UNCHANGED run
    BY <1>1, <2>1
  <2>2. CASE PauseRun(w)
    <3>1. "Failed" \in States
      BY DEF States, Over
    <3> QED
      BY <1>1, <1>2, <2>2, <3>1, RunWrites DEF PauseRun
  <2>3. CASE Settle(w)
    BY <1>1, <1>2, <2>3, RunWrites DEF Settle
  <2>4. CASE Recreate(w)
    BY <2>4, NewRuns DEF Recreate
  <2> QED
    BY <2>1, <2>2, <2>3, <2>4 DEF WorkerStep, Enter, Granted, NotAskedYet, MarkPending, Reuse,
       CreateApproval, Refused, Perform, Die, Fence
<1>5. approval' \in ApprovalType
  BY <1>1 DEF WorkerStep, Enter, Granted, NotAskedYet, MarkPending, Reuse, CreateApproval, Refused,
     Perform, Die, Fence, PauseRun, Settle, Recreate, ApprovalType
<1>6. performed' \in BOOLEAN
  <2>1. performed \in BOOLEAN
    BY TypesAre
  <2>2. performed' = TRUE \/ performed' = performed
    BY DEF WorkerStep, Enter, Granted, NotAskedYet, MarkPending, Reuse, CreateApproval, Refused,
       Perform, Die, Fence, PauseRun, Settle, Recreate
  <2> QED
    BY <2>1, <2>2, Zenon
<1>7. crashes' \in 0..MaxCrashes
  BY BoundsAssumption, TypesAre DEF WorkerStep, Enter, Granted, NotAskedYet, MarkPending, Reuse,
     CreateApproval, Refused, Perform, Die, Fence, PauseRun, Settle, Recreate
<1>8. UNCHANGED <<decider, disturbed, deletions>>
  BY DEF WorkerStep, Enter, Granted, NotAskedYet, MarkPending, Reuse, CreateApproval, Refused,
     Perform, Die, Fence, PauseRun, Settle, Recreate
<1>9. decider' \in [Deciders -> DeciderType] /\ disturbed' \in BOOLEAN
      /\ deletions' \in 0..MaxDeletions
  BY <1>8, TypesAre
<1> QED
  BY <1>3, <1>4, <1>5, <1>6, <1>7, <1>9, Zenon
  DEF TypeOK, RunType, ApprovalType, Places, WorkerType, DeciderType

LEMMA DeciderStepKeepsTypes ==
  ASSUME TypeOK, NEW d \in Deciders,
         \/ DeciderStep(d) \/ Abandon(d)
         \/ \E a \in Approvals, decision \in Decisions : Load(d, a, decision)
  PROVE  TypeOK'
<1>1. /\ run \in RunType /\ approval \in ApprovalType /\ decider[d] \in DeciderType
      /\ decider \in [Deciders -> DeciderType]
  BY TypesAre
<1>2. decider' \in [Deciders -> DeciderType]
  <2>1. CASE \E a \in Approvals, decision \in Decisions : Load(d, a, decision)
    <3>1. PICK a \in Approvals, decision \in Decisions : Load(d, a, decision)
      BY <2>1
    <3>2. decider' = [decider EXCEPT ![d].at = "loaded", ![d].approval = a,
                                     ![d].decision = decision]
      BY <3>1, Zenon DEF Load
    <3> QED
      BY <1>1, <3>2, DeciderLoads
  <2>2. CASE Record(d)
    BY <1>1, <2>2, DeciderRecords DEF Record
  <2>3. CASE ReadRun(d)
    <3>1. PhaseAfter(d) \in States
      BY <1>1 DEF PhaseAfter, RunType, States, Over
    <3>2. \/ decider' = [decider EXCEPT ![d] = IdleDecider]
          \/ decider' = [decider EXCEPT ![d].at = "returning", ![d].phase = PhaseAfter(d)]
      BY <2>3, Zenon DEF ReadRun, Done
    <3> HIDE DEF PhaseAfter
    <3> QED
      BY <1>1, <3>1, <3>2, DeciderReturns, DeciderDone
  <2>4. CASE WriteRun(d) \/ Abandon(d)
    BY <1>1, <2>4, DeciderDone DEF WriteRun, Abandon, Done
  <2> QED
    BY <2>1, <2>2, <2>3, <2>4 DEF DeciderStep
<1>3. run' \in RunType
  <2>1. CASE UNCHANGED run
    BY <1>1, <2>1
  <2>2. CASE WriteRun(d)
    <3>1. decider[d].phase \in States
      BY <1>1 DEF DeciderType
    <3> QED
      BY <1>1, <2>2, <3>1, RunWrites DEF WriteRun
  <2> QED
    BY <2>1, <2>2 DEF DeciderStep, Load, Record, ReadRun, Abandon
<1>4. approval' \in ApprovalType
  BY <1>1 DEF DeciderStep, Load, Record, ReadRun, WriteRun, Abandon, ApprovalType, DeciderType
<1>5. UNCHANGED <<worker, performed, crashes, deletions>>
  BY DEF DeciderStep, Load, Record, ReadRun, WriteRun, Abandon
<1>6. disturbed' \in BOOLEAN
  <2>1. disturbed \in BOOLEAN
    BY TypesAre
  <2>2. disturbed' = disturbed \/ disturbed' = (disturbed \/ ~Is(d, "loaded"))
    BY DEF DeciderStep, Load, Record, ReadRun, WriteRun, Abandon
  <2> QED
    BY <2>1, <2>2, Zenon
<1>7. /\ worker' \in [Workers -> WorkerType] /\ performed' \in BOOLEAN
      /\ crashes' \in 0..MaxCrashes /\ deletions' \in 0..MaxDeletions
  BY <1>5, TypesAre
<1> QED
  BY <1>2, <1>3, <1>4, <1>6, <1>7, Zenon
  DEF TypeOK, RunType, ApprovalType, Places, WorkerType, DeciderType

LEMMA TypesInductive == TypeOK /\ [Next]_vars => TypeOK'
<1> SUFFICES ASSUME TypeOK, [Next]_vars PROVE TypeOK'
  OBVIOUS
<1>1. CASE DeleteRun
  BY <1>1, BoundsAssumption DEF DeleteRun, TypeOK, NewRun, States, Over, Is
<1>2. CASE UNCHANGED vars
  BY <1>2 DEF vars, TypeOK
<1> QED
  BY <1>1, <1>2, WorkerStepKeepsTypes, DeciderStepKeepsTypes DEF Next

\* Every variable keeps its type.
THEOREM SpecTypeOK == Spec => []TypeOK
<1>1. ASSUME Init PROVE TypeOK
  <2>1. performed \in BOOLEAN /\ disturbed \in BOOLEAN
    BY <1>1, Zenon DEF Init
  <2>2. crashes \in 0..MaxCrashes /\ deletions \in 0..MaxDeletions
    BY <1>1, BoundsAssumption DEF Init
  <2> QED
    BY <1>1, <2>1, <2>2
    DEF Init, TypeOK, NewRun, IdleWorker, IdleDecider, States, Over, Decisions
<1> QED
  BY <1>1, TypesInductive, PTL DEF Spec

-----------------------------------------------------------------------------
(* Nobody asks twice: whoever is about to ask began before the first approval *)
(* was there, and asks for one.                                               *)

Creators == {w \in Workers : At(w, "creating")}

\* The approvals that a status is about to be written for are there.
CarriedAreAsked ==
  /\ \A w \in Workers : At(w, "marking") => worker[w].approval \in Asked
  /\ \A d \in Deciders : Is(d, "loaded") => decider[d].approval \in Asked

AskingInvariant ==
  /\ CarriedAreAsked
  /\ IsFiniteSet(Asked)
  /\ Cardinality(Asked) + Cardinality(Creators) <= Cardinality(Workers)

LEMMA CreatorsFinite ==
  /\ IsFiniteSet(Workers) /\ Cardinality(Workers) \in Nat
  /\ IsFiniteSet(Creators) /\ Cardinality(Creators) \in Nat
  /\ Cardinality(Creators) <= Cardinality(Workers)
BY NamesAssumption, FS_Subset, FS_CardinalityType DEF Creators

\* As long as nobody new is about to ask and no approval is new.
LEMMA NoNewCreator ==
  ASSUME AskingInvariant, Asked' = Asked, Creators' \subseteq Creators
  PROVE  /\ IsFiniteSet(Asked)'
         /\ (Cardinality(Asked) + Cardinality(Creators) <= Cardinality(Workers))'
<1>1. Cardinality(Creators') \in Nat /\ Cardinality(Creators') <= Cardinality(Creators)
  BY CreatorsFinite, FS_Subset, FS_CardinalityType
<1>2. Cardinality(Asked) \in Nat
  BY FS_CardinalityType DEF AskingInvariant
<1> QED
  BY <1>1, <1>2, CreatorsFinite DEF AskingInvariant

LEMMA CreationCounts ==
  ASSUME TypeOK, AskingInvariant, NEW w \in Workers, CreateApproval(w)
  PROVE  AskingInvariant'
<1>1. PICK a \in Approvals \ Asked :
        /\ approval' = [approval EXCEPT ![a] = "Pending"]
        /\ worker' = [worker EXCEPT ![w].at = "marking", ![w].approval = a]
  BY DEF CreateApproval
<1>2. Asked' = Asked \cup {a} /\ a \notin Asked
  BY <1>1 DEF Asked, TypeOK
<1>3. Creators' = Creators \ {w} /\ w \in Creators
  BY <1>1 DEF Creators, At, CreateApproval, TypeOK
<1>4. /\ IsFiniteSet(Asked') /\ Cardinality(Asked') = Cardinality(Asked) + 1
      /\ Cardinality(Asked) \in Nat
  BY <1>2, FS_AddElement, FS_CardinalityType DEF AskingInvariant
<1>5. Cardinality(Creators') = Cardinality(Creators) - 1
  BY <1>3, FS_RemoveElement, CreatorsFinite
<1>6. CarriedAreAsked'
  BY <1>1, <1>2 DEF AskingInvariant, CarriedAreAsked, At, Is, CreateApproval, TypeOK
<1> QED
  BY <1>4, <1>5, <1>6, CreatorsFinite DEF AskingInvariant

LEMMA AskingCounts ==
  ASSUME TypeOK, AskingInvariant, NEW w \in Workers, NotAskedYet(w)
  PROVE  AskingInvariant'
<1>1. Asked = {} /\ Asked' = {}
  BY DEF NotAskedYet, Open, Granting, In, Asked, TypeOK, Decisions
<1>2. Cardinality(Asked') = 0 /\ IsFiniteSet(Asked')
  BY <1>1, FS_EmptySet
<1>3. Creators' \subseteq Workers
  BY DEF Creators
<1>4. Cardinality(Creators') \in Nat /\ Cardinality(Creators') <= Cardinality(Workers)
  BY <1>3, CreatorsFinite, FS_Subset, FS_CardinalityType
<1>5. CarriedAreAsked'
  BY <1>1 DEF AskingInvariant, CarriedAreAsked, NotAskedYet, Goes, At, Is, TypeOK
<1> QED
  BY <1>2, <1>4, <1>5 DEF AskingInvariant

LEMMA WorkerKeepsAsking ==
  ASSUME TypeOK, AskingInvariant, NEW w \in Workers, WorkerStep(w) \/ Die(w)
  PROVE  AskingInvariant'
<1>1. CASE CreateApproval(w)
  BY <1>1, CreationCounts
<1>2. CASE NotAskedYet(w)
  BY <1>2, AskingCounts
<1>3. CASE MarkPending(w)
  <2>1. /\ worker[w].approval \in Asked
        /\ approval' = [approval EXCEPT ![worker[w].approval] = "Pending"]
        /\ worker' = [worker EXCEPT ![w].at = "pausing"]
        /\ UNCHANGED decider
    BY <1>3 DEF MarkPending, Goes, AskingInvariant, CarriedAreAsked
  <2>2. Asked' = Asked
    BY <2>1 DEF Asked, TypeOK
  <2>3. Creators' \subseteq Creators
    BY <2>1 DEF Creators, At, TypeOK
  <2>4. CarriedAreAsked'
    BY <2>1, <2>2 DEF AskingInvariant, CarriedAreAsked, At, Is, TypeOK
  <2> QED
    BY <2>2, <2>3, <2>4, NoNewCreator DEF AskingInvariant
<1>4. CASE \/ Enter(w) \/ Reuse(w) \/ Granted(w) \/ Refused(w) \/ PauseRun(w)
           \/ Perform(w) \/ Fence(w) \/ Settle(w) \/ Recreate(w) \/ Die(w)
  <2>1. /\ UNCHANGED <<approval, decider>>
        /\ \A v \in Workers : worker'[v].at \in {"creating", "marking"} => worker'[v] = worker[v]
    BY <1>4 DEF Enter, Reuse, Granted, Refused, PauseRun, Perform, Fence, Settle, Recreate, Die,
       Goes, Rests, IdleWorker, TypeOK
  <2>2. Asked' = Asked
    BY <2>1 DEF Asked
  <2>3. Creators' \subseteq Creators
    BY <2>1 DEF Creators, At
  <2>4. CarriedAreAsked'
    BY <2>1, <2>2 DEF AskingInvariant, CarriedAreAsked, At, Is
  <2> QED
    BY <2>2, <2>3, <2>4, NoNewCreator DEF AskingInvariant
<1> QED
  BY <1>1, <1>2, <1>3, <1>4 DEF WorkerStep

LEMMA DeciderKeepsAsking ==
  ASSUME TypeOK, AskingInvariant, NEW d \in Deciders,
         \/ DeciderStep(d) \/ Abandon(d)
         \/ \E a \in Approvals, decision \in Decisions : Load(d, a, decision)
  PROVE  AskingInvariant'
<1>1. UNCHANGED worker
  BY DEF DeciderStep, Record, ReadRun, WriteRun, Abandon, Load
<1>2. Asked' = Asked
  <2>1. CASE Record(d)
    <3>1. /\ decider[d].approval \in Asked /\ decider[d].decision # "None"
          /\ approval' = [approval EXCEPT ![decider[d].approval] = decider[d].decision]
      BY <2>1 DEF Record, AskingInvariant, CarriedAreAsked, TypeOK, Decisions
    <3> QED
      BY <3>1 DEF Asked, TypeOK
  <2>2. CASE ~Record(d)
    BY <2>2 DEF DeciderStep, ReadRun, WriteRun, Abandon, Load, Asked
  <2> QED
    BY <2>1, <2>2
<1>3. Creators' = Creators
  BY <1>1 DEF Creators, At
<1>4. ASSUME NEW e \in Deciders, decider'[e].at = "loaded"
      PROVE  decider'[e].approval \in Asked
  <2>1. CASE decider'[e] = decider[e]
    BY <1>4, <2>1 DEF AskingInvariant, CarriedAreAsked, Is
  <2>2. CASE decider'[e] # decider[e]
    <3>1. PICK a \in Approvals, decision \in Decisions : Load(d, a, decision)
      BY <1>4, <2>2 DEF DeciderStep, Record, ReadRun, WriteRun, Abandon, Done, IdleDecider, TypeOK
    <3>2. a \in Asked
      BY <3>1 DEF Load, In, Asked
    <3>3. e = d /\ decider'[d].approval = a
      <4>1. decider' = [decider EXCEPT ![d].at = "loaded", ![d].approval = a,
                                       ![d].decision = decision]
        BY <3>1, Zenon DEF Load
      <4>2. decider \in [Deciders -> DeciderType]
        BY TypesAre
      <4> QED
        BY <2>2, <4>1, <4>2 DEF DeciderType
    <3> QED
      BY <3>2, <3>3
  <2> QED
    BY <2>1, <2>2
<1>5. CarriedAreAsked'
  BY <1>1, <1>2, <1>4 DEF AskingInvariant, CarriedAreAsked, At, Is
<1> QED
  BY <1>2, <1>3, <1>5, NoNewCreator DEF AskingInvariant

LEMMA AskingInductive == TypeOK /\ AskingInvariant /\ [Next]_vars => AskingInvariant'
<1> SUFFICES ASSUME TypeOK, AskingInvariant, [Next]_vars PROVE AskingInvariant'
  OBVIOUS
<1>1. CASE DeleteRun \/ UNCHANGED vars
  <2>1. UNCHANGED <<approval, worker, decider>>
    BY <1>1 DEF DeleteRun, vars
  <2> QED
    BY <2>1 DEF AskingInvariant, CarriedAreAsked, Asked, Creators, At, Is
<1> QED
  BY <1>1, WorkerKeepsAsking, DeciderKeepsAsking DEF Next

\* However often workers die and runs are created again, a process asks at most
\* once for the action.
THEOREM SpecAskedOnce == Spec => []AskedOnce
<1>1. ASSUME Init PROVE AskingInvariant
  <2>1. Asked = {} /\ Creators = {}
    BY <1>1 DEF Init, Asked, Creators, At, IdleWorker
  <2>2. CarriedAreAsked
    BY <1>1 DEF Init, CarriedAreAsked, At, Is, IdleWorker, IdleDecider
  <2> QED
    BY <2>1, <2>2, FS_EmptySet, CreatorsFinite DEF AskingInvariant
<1>2. ASSUME AskingInvariant PROVE AskedOnce
  BY <1>2, CreatorsFinite, FS_CardinalityType DEF AskingInvariant, AskedOnce
<1>3. TypeOK /\ AskingInvariant /\ [Next]_vars => AskingInvariant'
  BY AskingInductive
<1> QED
  BY <1>1, <1>2, <1>3, SpecTypeOK, PTL DEF Spec

-----------------------------------------------------------------------------
(* One control plane and one approver who goes by what the run waits for: the *)
(* one approval is undecided as long as somebody is about to write it.        *)

AlonePremise(w, d) == Workers = {w} /\ Deciders = {d} /\ ~EarlyDecisions

HandoverInvariant(w, d) ==
  /\ \A a, b \in Asked : a = b
  /\ At(w, "creating") => Asked = {}
  /\ At(w, "marking") => worker[w].approval \in In("Pending")
  /\ Is(d, "loaded") =>
       /\ decider[d].approval \in In("Pending")
       /\ ~At(w, "creating") /\ ~At(w, "marking")
  /\ run.phase = "WaitingForApproval" => At(w, "idle")
  /\ performed \/ At(w, "performing") => In("Approved") # {}

LEMMA WritesKeepHandover ==
  ASSUME TypeOK, NEW w, NEW d, AlonePremise(w, d), HandoverInvariant(w, d),
         CreateApproval(w) \/ MarkPending(w) \/ Record(d)
  PROVE  HandoverInvariant(w, d)'
<1> USE DEF AlonePremise, HandoverInvariant
<1>1. CASE CreateApproval(w)
  <2>1. PICK a \in Approvals \ Asked :
          /\ approval' = [approval EXCEPT ![a] = "Pending"]
          /\ worker' = [worker EXCEPT ![w].at = "marking", ![w].approval = a]
    BY <1>1 DEF CreateApproval
  <2>2. /\ Asked = {} /\ ~Is(d, "loaded") /\ ~performed /\ run.phase # "WaitingForApproval"
        /\ UNCHANGED <<run, decider, performed>>
    BY <1>1 DEF CreateApproval, At, In, Asked
  <2>3. Asked' = {a} /\ In("Pending")' = {a}
    BY <2>1, <2>2 DEF Asked, In, TypeOK
  <2>4. worker'[w].at = "marking" /\ worker'[w].approval = a
    <3>1. worker \in [Workers -> WorkerType]
      BY TypesAre
    <3> QED
      BY <2>1, <3>1 DEF WorkerType
  <2> QED
    BY <2>2, <2>3, <2>4 DEF At, Is
<1>2. CASE MarkPending(w)
  <2>1. /\ worker[w].approval \in In("Pending")
        /\ approval' = [approval EXCEPT ![worker[w].approval] = "Pending"]
        /\ UNCHANGED <<run, decider, performed>>
        /\ At(w, "marking")
    BY <1>2 DEF MarkPending
  <2>2. approval' = approval
    BY <2>1 DEF In, TypeOK
  <2>3. worker'[w].at = "pausing"
    BY <1>2 DEF MarkPending, Goes, TypeOK
  <2> QED
    BY <2>1, <2>2, <2>3 DEF At, Is, In, Asked
<1>3. CASE Record(d)
  <2>1. /\ decider[d].approval \in In("Pending")
        /\ approval' = [approval EXCEPT ![decider[d].approval] = decider[d].decision]
        /\ decider[d].decision \in Decisions
        /\ ~At(w, "creating") /\ ~At(w, "marking")
        /\ UNCHANGED <<run, worker, performed>>
    BY <1>3 DEF Record, TypeOK
  <2>2. Asked' = Asked
    BY <2>1 DEF Asked, In, TypeOK, Decisions
  <2>3. In("Approved") = {}
    BY <2>1 DEF Asked, In, TypeOK
  <2>4. decider'[d].at = "recorded"
    BY <1>3 DEF Record, TypeOK
  <2> QED
    BY <2>1, <2>2, <2>3, <2>4 DEF At, Is
<1> QED
  BY <1>1, <1>2, <1>3

LEMMA HandoverInductive ==
  ASSUME TypeOK, NEW w, NEW d, AlonePremise(w, d), HandoverInvariant(w, d), [Next]_vars
  PROVE  HandoverInvariant(w, d)'
<1> USE DEF AlonePremise, HandoverInvariant
<1>1. CASE CreateApproval(w) \/ MarkPending(w) \/ Record(d)
  BY <1>1, WritesKeepHandover
<1>2. CASE /\ UNCHANGED <<approval, decider>>
           /\ \/ Enter(w) \/ Reuse(w) \/ Granted(w) \/ Refused(w) \/ NotAskedYet(w)
              \/ PauseRun(w) \/ Perform(w) \/ Fence(w) \/ Settle(w) \/ Recreate(w) \/ Die(w)
  <2> USE DEF At, Is, In, Asked
  <2>1. CASE NotAskedYet(w)
    <3>1. Asked = {} /\ worker'[w].at = "creating" /\ UNCHANGED <<run, performed>>
          /\ worker[w].at = "asking"
      BY <2>1 DEF NotAskedYet, Goes, Open, Granting, TypeOK, Decisions
    <3> QED
      BY <1>2, <3>1
  <2>2. CASE Granted(w)
    <3>1. In("Approved") # {} /\ worker'[w].at = "performing" /\ UNCHANGED <<run, performed>>
          /\ worker[w].at = "asking"
      BY <2>2 DEF Granted, Goes, Granting, TypeOK
    <3> QED
      BY <1>2, <3>1
  <2>3. CASE Perform(w)
    <3>1. worker'[w].at = "fencing" /\ UNCHANGED run /\ worker[w].at = "performing"
      BY <2>3 DEF Perform, TypeOK
    <3> QED
      BY <1>2, <3>1
  <2>4. CASE PauseRun(w) \/ Settle(w) \/ Recreate(w) \/ Die(w)
    <3>1. worker'[w].at = "idle" /\ UNCHANGED performed
      BY <2>4 DEF PauseRun, Settle, Recreate, Die, Rests, IdleWorker, TypeOK
    <3> QED
      BY <1>2, <3>1
  <2>5. CASE Enter(w) \/ Reuse(w) \/ Refused(w) \/ Fence(w)
    <3>1. /\ worker'[w].at \in {"asking", "pausing", "fencing", "settling", "idle"}
          /\ run.phase = "WaitingForApproval" => worker'[w].at = "idle"
          /\ UNCHANGED <<run, performed>>
      BY <2>5 DEF Enter, Reuse, Refused, Fence, Goes, Rests, IdleWorker, TypeOK
    <3> QED
      BY <1>2, <3>1
  <2> QED
    BY <1>2, <2>1, <2>2, <2>3, <2>4, <2>5
<1>3. ASSUME NEW a \in Approvals, NEW decision \in Decisions, Load(d, a, decision)
      PROVE  HandoverInvariant(w, d)'
  <2>1. /\ a \in In("Pending") /\ At(w, "idle")
        /\ UNCHANGED <<run, approval, worker, performed>>
    BY <1>3 DEF Load, Known
  <2>2. decider'[d].approval = a
    <3>1. decider \in [Deciders -> DeciderType]
      BY TypesAre
    <3>2. decider' = [decider EXCEPT ![d].at = "loaded", ![d].approval = a,
                                     ![d].decision = decision]
      BY <1>3, Zenon DEF Load
    <3> QED
      BY <3>1, <3>2 DEF DeciderType
  <2> QED
    BY <2>1, <2>2 DEF At, Is, In, Asked
<1>4. CASE ReadRun(d) \/ WriteRun(d) \/ Abandon(d)
  <2>1. /\ decider'[d].at # "loaded"
        /\ run'.phase = "WaitingForApproval" => run.phase = "WaitingForApproval"
        /\ UNCHANGED <<approval, worker, performed>>
    <3>1. decider[d].phase \in States /\ decider \in [Deciders -> DeciderType] /\ run \in RunType
      BY TypesAre DEF DeciderType
    <3>2. "WaitingForApproval" \notin States
      BY DEF States, Over
    <3>3. CASE ReadRun(d)
      BY <3>1, <3>3 DEF ReadRun, Done, IdleDecider, DeciderType
    <3>4. CASE WriteRun(d)
      <4>1. /\ decider' = [decider EXCEPT ![d] = IdleDecider]
            /\ UNCHANGED <<approval, worker, performed>>
            /\ \/ run' = run
               \/ run' = [run EXCEPT !.phase = decider[d].phase, !.pending = NoApproval]
        BY <3>4 DEF WriteRun, Done
      <4>2. decider'[d].at # "loaded"
        BY <3>1, <4>1 DEF IdleDecider
      <4>3. run' = run \/ run'.phase = decider[d].phase
        BY <3>1, <4>1 DEF RunType
      <4> QED
        BY <3>1, <3>2, <4>1, <4>2, <4>3
    <3>5. CASE Abandon(d)
      BY <3>1, <3>5 DEF Abandon, Done, IdleDecider
    <3> QED
      BY <1>4, <3>3, <3>4, <3>5
  <2> QED
    BY <2>1 DEF At, Is, In, Asked
<1>5. CASE DeleteRun \/ UNCHANGED vars
  <2>1. /\ run'.phase = "WaitingForApproval" => run.phase = "WaitingForApproval"
        /\ UNCHANGED <<approval, worker, decider, performed>>
    BY <1>5 DEF DeleteRun, vars, NewRun
  <2> QED
    BY <2>1 DEF At, Is, In, Asked
<1>6. \/ WorkerStep(w) \/ Die(w) \/ DeciderStep(d) \/ Abandon(d) \/ DeleteRun \/ UNCHANGED vars
      \/ \E a \in Approvals, decision \in Decisions : Load(d, a, decision)
  BY DEF Next
<1>7. ASSUME \/ Enter(w) \/ Reuse(w) \/ Granted(w) \/ Refused(w) \/ NotAskedYet(w)
             \/ PauseRun(w) \/ Perform(w) \/ Fence(w) \/ Settle(w) \/ Recreate(w) \/ Die(w)
      PROVE  UNCHANGED <<approval, decider>>
  BY <1>7 DEF Enter, Reuse, Granted, Refused, NotAskedYet, PauseRun, Perform, Fence, Settle,
     Recreate, Die
<1> QED
  BY <1>1, <1>2, <1>3, <1>4, <1>5, <1>6, <1>7 DEF WorkerStep, DeciderStep

\* With one control plane and one approver who goes by the run, no approval that
\* something was performed on is taken back.
THEOREM SpecPerformedIsApproved ==
  ASSUME NEW w, NEW d, AlonePremise(w, d)
  PROVE  Spec => []PerformedIsApproved
<1>1. Init => HandoverInvariant(w, d)
  BY DEF Init, HandoverInvariant, AlonePremise, Asked, In, At, Is, IdleWorker, IdleDecider, NewRun
<1>2. TypeOK /\ HandoverInvariant(w, d) /\ [Next]_vars => HandoverInvariant(w, d)'
  BY HandoverInductive
<1>3. HandoverInvariant(w, d) => PerformedIsApproved
  BY DEF HandoverInvariant, PerformedIsApproved, Asked, In
<1> QED
  BY <1>1, <1>2, <1>3, SpecTypeOK, PTL DEF Spec
=============================================================================

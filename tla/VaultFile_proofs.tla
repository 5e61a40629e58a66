-------------------------- MODULE VaultFile_proofs --------------------------
(***************************************************************************)
(* Theorems of VaultFile, for every set of processes, paths, variables,     *)
(* values and origins.                                                      *)
(***************************************************************************)
EXTENDS VaultFile, TLAPS

------------------------------------------------------------------------------
\* Types.

LEMMA AppliedType ==
    ASSUME NEW change \in Changes, NEW vals \in Vals
    PROVE  Applied(change, vals) \in Vals
BY DEF Changes, Vals, Applied

LEMMA SingleChange ==
    ASSUME NEW v \in Vars, NEW x \in Values \cup {None}
    PROVE  [w \in {v} |-> x] \in Changes
<1>1. {v} \in SUBSET Vars
  OBVIOUS
<1>2. [w \in {v} |-> x] \in [{v} -> Values \cup {None}]
  OBVIOUS
<1>3. [{v} -> Values \cup {None}] \in {[S -> Values \cup {None}] : S \in SUBSET Vars}
  BY <1>1
<1> QED
  BY <1>2, <1>3 DEF Changes

LEMMA FreshType ==
    ASSUME TypeOK, NEW p \in Procs, Fresh(p)
    PROVE  /\ vault' \in [Procs -> Contents \cup {None}]
           /\ minted' \in SUBSET Origins
<1>1. PICK origin \in Origins \ minted :
        /\ vault'  = [vault EXCEPT ![p] = [origin |-> origin, vals |-> [v \in Vars |-> None]]]
        /\ minted' = minted \cup {origin}
  BY DEF Fresh
<1>2. [origin |-> origin, vals |-> [v \in Vars |-> None]] \in Contents
  BY DEF Contents, Vals
<1> QED
  BY <1>1, <1>2 DEF TypeOK

LEMMA BeginType ==
    ASSUME TypeOK, NEW p \in Procs, NEW path \in Paths,
           NEW step \in {"acquire", "compare"}, NEW expected \in Contents \cup {None},
           Begin(p, step, path, expected)
    PROVE  /\ save' \in [Procs -> Saves \cup {None}]
           /\ pc' \in [Procs -> {"idle", "acquire", "compare", "publish"}]
<1>1. [path |-> path, expected |-> expected] \in Saves
  BY DEF Saves
<1> QED
  BY <1>1 DEF TypeOK, Begin

LEMMA StoreChangeType ==
    ASSUME TypeOK, NEW p \in Procs, NEW path \in Paths,
           NEW op \in {"set", "insert", "unset", "replace"}, NEW change \in Changes,
           StoreChange(p, path, op, change)
    PROVE  TypeOK'
<1>1. file[path] \in Contents
  BY DEF StoreChange, TypeOK
<1>2. [file[path] EXCEPT !.vals = Applied(change, file[path].vals)] \in Contents
  BY <1>1, AppliedType DEF Contents
<1>3. [op |-> op, change |-> change] \in Jobs
  BY DEF Jobs
<1>4. Begin(p, "acquire", path, file[path])
  BY DEF StoreChange
<1>5. /\ save' \in [Procs -> Saves \cup {None}]
      /\ pc' \in [Procs -> {"idle", "acquire", "compare", "publish"}]
  BY <1>1, <1>4, BeginType
<1> QED
  BY <1>1, <1>2, <1>3, <1>5 DEF StoreChange, TypeOK

LEMMA EditType ==
    ASSUME TypeOK, NEW p \in Procs, Edit(p)
    PROVE  TypeOK'
<1>1. PICK v \in Vars, x \in Values \cup {None} : vault' = [vault EXCEPT ![p].vals[v] = x]
  BY DEF Edit
<1>2. vault[p] \in Contents
  BY DEF Edit, TypeOK
<1>3. [vault[p] EXCEPT !.vals[v] = x] \in Contents
  BY <1>2 DEF Contents, Vals
<1>4. vault' \in [Procs -> Contents \cup {None}]
  BY <1>1, <1>3 DEF TypeOK
<1> QED
  BY <1>4 DEF Edit, TypeOK

\* The types are inductive by themselves.
LEMMA TypeStep == TypeOK /\ [Next]_vars => TypeOK'
<1> SUFFICES ASSUME TypeOK, [Next]_vars PROVE TypeOK'
  OBVIOUS
<1>0. CASE UNCHANGED vars
  BY <1>0 DEF TypeOK, vars
<1>1. ASSUME NEW p \in Procs, NEW path \in Paths, Store(p, path) PROVE TypeOK'
  <2>1. CASE StoreInit(p, path)
    <3>1. Begin(p, "acquire", path, None) /\ Fresh(p)
      BY <2>1 DEF StoreInit
    <3> QED
      BY <2>1, <3>1, FreshType, BeginType DEF StoreInit, TypeOK
  <2>2. CASE SetSecret(p, path)
    <3>1. PICK v \in Vars, x \in Values : StoreChange(p, path, "set", [w \in {v} |-> x])
      BY <2>2 DEF SetSecret
    <3>2. [w \in {v} |-> x] \in Changes
      BY SingleChange
    <3> QED
      BY <3>1, <3>2, StoreChangeType
  <2>3. CASE InsertSecretIfAbsent(p, path)
    <3>1. PICK v \in Vars, x \in Values : StoreChange(p, path, "insert", [w \in {v} |-> x])
      BY <2>3 DEF InsertSecretIfAbsent
    <3>2. [w \in {v} |-> x] \in Changes
      BY SingleChange
    <3> QED
      BY <3>1, <3>2, StoreChangeType
  <2>4. CASE UnsetSecret(p, path)
    <3>1. PICK v \in Vars : StoreChange(p, path, "unset", [w \in {v} |-> None])
      BY <2>4 DEF UnsetSecret
    <3>2. [w \in {v} |-> None] \in Changes
      BY SingleChange
    <3> QED
      BY <3>1, <3>2, StoreChangeType
  <2>5. CASE ReplaceProfile(p, path)
    <3>1. PICK vals \in Vals : StoreChange(p, path, "replace", vals)
      BY <2>5 DEF ReplaceProfile
    <3>2. vals \in Changes
      BY DEF Changes, Vals
    <3> QED
      BY <3>1, <3>2, StoreChangeType
  <2> QED
    BY <1>1, <2>1, <2>2, <2>3, <2>4, <2>5 DEF Store
<1>2. ASSUME NEW p \in Procs, NEW path \in Paths, Api(p, path) PROVE TypeOK'
  <2>1. CASE Load(p, path)
    BY <2>1 DEF Load, TypeOK
  <2>2. CASE Save(p, path)
    BY <2>2, BeginType DEF Save, TypeOK
  <2>3. CASE SaveAsNew(p, path)
    BY <2>3, BeginType DEF SaveAsNew, TypeOK
  <2>4. CASE WriterAcquire(p, path)
    BY <2>4 DEF WriterAcquire, TypeOK
  <2> QED
    BY <1>2, <2>1, <2>2, <2>3, <2>4 DEF Api
<1>3. ASSUME NEW p \in Procs, Memory(p) PROVE TypeOK'
  <2>1. CASE Create(p)
    BY <2>1, FreshType DEF Create, TypeOK
  <2>2. CASE Edit(p)
    BY <2>2, EditType
  <2>3. CASE Close(p)
    BY <2>3 DEF Close, TypeOK
  <2>4. CASE WriterSave(p)
    <3>1. retained[p] \in Paths /\ digest[p] \in Contents \cup {None}
      BY <2>4 DEF WriterSave, TypeOK
    <3> QED
      BY <2>4, <3>1, BeginType DEF WriterSave, TypeOK
  <2>5. CASE WriterDrop(p)
    BY <2>5 DEF WriterDrop, TypeOK
  <2> QED
    BY <1>3, <2>1, <2>2, <2>3, <2>4, <2>5 DEF Memory
<1>4. ASSUME NEW p \in Procs, Acquire(p) PROVE TypeOK'
  BY <1>4 DEF Acquire, TypeOK
<1>5. ASSUME NEW p \in Procs, Advance(p) PROVE TypeOK'
  <2>1. CASE Compare(p)
    BY <2>1 DEF Compare, TypeOK
  <2>2. CASE Conflict(p)
    BY <2>2 DEF Conflict, Unlock, EndSave, TypeOK
  <2>3. CASE Publish(p)
    BY <2>3 DEF Publish, Rename, Unlock, EndSave, TypeOK
  <2>4. CASE PublishUnrestricted(p)
    BY <2>4 DEF PublishUnrestricted, Rename, Unlock, EndSave, TypeOK
  <2> QED
    BY <1>5, <2>1, <2>2, <2>3, <2>4 DEF Advance
<1>6. ASSUME NEW p \in Procs, Fail(p) PROVE TypeOK'
  BY <1>6 DEF Fail, Unlock, EndSave, TypeOK
<1>7. ASSUME NEW p \in Procs, Crash(p) PROVE TypeOK'
  BY <1>7 DEF Crash, EndSave, TypeOK
<1> QED
  BY <1>0, <1>1, <1>2, <1>3, <1>4, <1>5, <1>6, <1>7 DEF Next

\* Every variable of the model keeps its type, whatever the processes do.
THEOREM Typing == Spec => []TypeOK
<1>1. Init => TypeOK
  BY DEF Init, TypeOK
<1> QED
  BY <1>1, TypeStep, PTL DEF Spec

------------------------------------------------------------------------------
\* The inductive invariant, action by action.

LEMMA StoreChangeKeeps ==
    ASSUME IInv, TypeOK', NEW p \in Procs, NEW path \in Paths,
           NEW op \in {"set", "insert", "unset", "replace"}, NEW change \in Changes,
           op = "insert" => \A v \in DOMAIN change : file[path].vals[v] = None,
           StoreChange(p, path, op, change)
    PROVE  IInv'
<1>1. /\ NoVault(p) /\ retained[p] = None
      /\ file[path] \in Contents
      /\ Begin(p, "acquire", path, file[path])
      /\ UNCHANGED <<file, writer, retained, torn, minted>>
  BY DEF StoreChange, IInv, TypeOK
<1>2. [op |-> op, change |-> change] # None
  BY NoneIsDistinct DEF Jobs
<1>3. /\ digest'[p] = file[path]
      /\ job'[p] = [op |-> op, change |-> change]
      /\ save'[p] = [path |-> path, expected |-> file[path]]
      /\ pc'[p] = "acquire"
  BY DEF StoreChange, Begin, IInv, TypeOK
<1>4. /\ vault'[p].origin = file[path].origin
      /\ vault'[p].vals = Applied(change, file[path].vals)
      /\ file[path] # None /\ vault'[p] # None /\ save'[p] # None
  <2>1. vault'[p] = [file[path] EXCEPT !.vals = Applied(change, file[path].vals)]
    BY DEF StoreChange, IInv, TypeOK
  <2>2. Applied(change, file[path].vals) \in Vals
    BY <1>1, AppliedType DEF Contents
  <2>3. save'[p] \in Saves
    BY <1>1, <1>3 DEF Saves
  <2> QED
    BY <1>1, <2>1, <2>2, <2>3, NoneIsDistinct DEF Contents
<1>5. \A q \in Procs \ {p} :
        /\ vault'[q] = vault[q] /\ digest'[q] = digest[q] /\ job'[q] = job[q]
        /\ save'[q] = save[q] /\ pc'[q] = pc[q]
  BY <1>1 DEF StoreChange, Begin, IInv, TypeOK
<1>6. ProcessesAreCoherent'
  BY <1>1, <1>2, <1>3, <1>5, <1>4 DEF IInv, ProcessesAreCoherent
<1>7. ExpectationsAreGrounded'
  <2> SUFFICES ASSUME NEW q \in Procs
               PROVE  /\ pc'[q] # "idle" => save'[q].expected \in {digest'[q], None}
                      /\ digest'[q] # None => vault'[q] # None /\ vault'[q].origin = digest'[q].origin
    BY DEF ExpectationsAreGrounded
  <2>1. CASE q = p
    BY <1>3, <1>4, <2>1
  <2>2. CASE q # p
    BY <1>5, <2>2 DEF IInv, ExpectationsAreGrounded
  <2> QED
    BY <2>1, <2>2
<1>8. JobsAreOnCourse'
  <2> SUFFICES ASSUME NEW q \in Procs, pc'[q] # "idle", job'[q] # None
               PROVE  /\ digest'[q] # None
                      /\ save'[q].expected = digest'[q]
                      /\ vault'[q].vals = Applied(job'[q].change, digest'[q].vals)
                      /\ job'[q].op = "insert" =>
                            \A v \in DOMAIN job'[q].change : digest'[q].vals[v] = None
    BY DEF JobsAreOnCourse
  <2>1. CASE q = p
    BY <1>3, <1>4, <2>1
  <2>2. CASE q # p
    BY <1>5, <2>2 DEF IInv, JobsAreOnCourse
  <2> QED
    BY <2>1, <2>2
<1>9. LockDiscipline' /\ ComparisonStands' /\ RetainedViewIsCurrent'
  BY <1>1, <1>3, <1>5
     DEF IInv, NoVault, LockDiscipline, ComparisonStands, RetainedViewIsCurrent
<1> QED
  BY <1>6, <1>7, <1>8, <1>9 DEF IInv

LEMMA StoreInitKeeps ==
    ASSUME IInv, TypeOK', NEW p \in Procs, NEW path \in Paths, StoreInit(p, path)
    PROVE  IInv'
<1>1. /\ NoVault(p) /\ retained[p] = None
      /\ Fresh(p) /\ Begin(p, "acquire", path, None)
      /\ UNCHANGED <<file, writer, digest, retained, job, torn>>
  BY DEF StoreInit
<1>2. digest[p] = None /\ job[p] = None
  BY <1>1 DEF NoVault, IInv, ProcessesAreCoherent
<1>3. /\ vault'[p] # None
      /\ save'[p] = [path |-> path, expected |-> None]
      /\ save'[p] # None
      /\ pc'[p] = "acquire"
  BY <1>1, NoneIsDistinct DEF Fresh, Begin, IInv, TypeOK, Contents, Vals, Saves
<1>4. \A q \in Procs \ {p} :
        vault'[q] = vault[q] /\ save'[q] = save[q] /\ pc'[q] = pc[q]
  BY <1>1 DEF Fresh, Begin, IInv, TypeOK
<1>5. ProcessesAreCoherent'
  BY <1>1, <1>2, <1>3, <1>4 DEF IInv, ProcessesAreCoherent
<1>6. ExpectationsAreGrounded'
  BY <1>1, <1>2, <1>3, <1>4 DEF IInv, ExpectationsAreGrounded
<1>7. JobsAreOnCourse'
  BY <1>1, <1>2, <1>3, <1>4 DEF IInv, JobsAreOnCourse
<1>8. LockDiscipline' /\ ComparisonStands' /\ RetainedViewIsCurrent'
  BY <1>1, <1>3, <1>4
     DEF IInv, NoVault, LockDiscipline, ComparisonStands, RetainedViewIsCurrent
<1> QED
  BY <1>5, <1>6, <1>7, <1>8 DEF IInv

LEMMA EditKeeps ==
    ASSUME IInv, TypeOK', NEW p \in Procs, Edit(p)
    PROVE  IInv'
<1>1. /\ pc[p] = "idle" /\ vault[p] # None /\ job[p] = None
      /\ UNCHANGED <<file, writer, digest, save, pc, retained, job, torn, minted>>
  BY DEF Edit
<1>2. PICK v \in Vars, x \in Values \cup {None} : vault' = [vault EXCEPT ![p].vals[v] = x]
  BY DEF Edit
<1>3. vault[p] \in Contents /\ vault'[p] = [vault[p] EXCEPT !.vals[v] = x]
  BY <1>1, <1>2 DEF IInv, TypeOK
<1>4. vault'[p] # None /\ vault'[p].origin = vault[p].origin
  BY <1>3, NoneIsDistinct DEF Contents, Vals
<1>5. \A q \in Procs \ {p} : vault'[q] = vault[q]
  BY <1>2 DEF IInv, TypeOK
<1>6. ProcessesAreCoherent' /\ ExpectationsAreGrounded'
  BY <1>1, <1>4, <1>5 DEF IInv, ProcessesAreCoherent, ExpectationsAreGrounded
<1>7. JobsAreOnCourse'
  BY <1>1, <1>5 DEF IInv, JobsAreOnCourse
<1>8. LockDiscipline' /\ ComparisonStands' /\ RetainedViewIsCurrent'
  BY <1>1 DEF IInv, LockDiscipline, ComparisonStands, RetainedViewIsCurrent
<1> QED
  BY <1>6, <1>7, <1>8 DEF IInv

LEMMA LoadKeeps ==
    ASSUME IInv, TypeOK', NEW p \in Procs, NEW path \in Paths, Load(p, path)
    PROVE  IInv'
<1>1. ProcessesAreCoherent'
  BY NoneIsDistinct DEF Load, NoVault, IInv, TypeOK, ProcessesAreCoherent,
     Saves
<1>2. ExpectationsAreGrounded'
  BY NoneIsDistinct DEF Load, NoVault, IInv, TypeOK, ProcessesAreCoherent,
     ExpectationsAreGrounded, Contents
<1>3. JobsAreOnCourse'
  BY NoneIsDistinct DEF Load, NoVault, IInv, TypeOK, ProcessesAreCoherent,
     JobsAreOnCourse
<1>4. LockDiscipline'
  BY NoneIsDistinct DEF Load, NoVault, IInv, TypeOK, ProcessesAreCoherent,
     LockDiscipline
<1>5. ComparisonStands'
  BY NoneIsDistinct DEF Load, NoVault, IInv, TypeOK, ProcessesAreCoherent,
     LockDiscipline, ComparisonStands
<1>6. RetainedViewIsCurrent'
  BY NoneIsDistinct DEF Load, NoVault, IInv, TypeOK, ProcessesAreCoherent,
     LockDiscipline, RetainedViewIsCurrent
<1> QED
  BY <1>1, <1>2, <1>3, <1>4, <1>5, <1>6 DEF IInv

LEMMA SaveKeeps ==
    ASSUME IInv, TypeOK', NEW p \in Procs, NEW path \in Paths, Save(p, path)
    PROVE  IInv'
<1>1. ProcessesAreCoherent'
  BY NoneIsDistinct DEF Save, Begin, IInv, TypeOK, ProcessesAreCoherent, Saves
<1>2. ExpectationsAreGrounded'
  BY NoneIsDistinct DEF Save, Begin, IInv, TypeOK, ProcessesAreCoherent,
     ExpectationsAreGrounded, Contents
<1>3. JobsAreOnCourse'
  BY NoneIsDistinct DEF Save, Begin, IInv, TypeOK, ProcessesAreCoherent,
     JobsAreOnCourse
<1>4. LockDiscipline'
  BY NoneIsDistinct DEF Save, Begin, IInv, TypeOK, ProcessesAreCoherent,
     LockDiscipline
<1>5. ComparisonStands'
  BY NoneIsDistinct DEF Save, Begin, IInv, TypeOK, ProcessesAreCoherent,
     LockDiscipline, ComparisonStands
<1>6. RetainedViewIsCurrent'
  BY NoneIsDistinct DEF Save, Begin, IInv, TypeOK, ProcessesAreCoherent,
     LockDiscipline, RetainedViewIsCurrent
<1> QED
  BY <1>1, <1>2, <1>3, <1>4, <1>5, <1>6 DEF IInv

LEMMA SaveAsNewKeeps ==
    ASSUME IInv, TypeOK', NEW p \in Procs, NEW path \in Paths, SaveAsNew(p, path)
    PROVE  IInv'
<1>1. ProcessesAreCoherent'
  BY NoneIsDistinct DEF SaveAsNew, Begin, IInv, TypeOK, ProcessesAreCoherent,
     Saves
<1>2. ExpectationsAreGrounded'
  BY NoneIsDistinct DEF SaveAsNew, Begin, IInv, TypeOK, ProcessesAreCoherent,
     ExpectationsAreGrounded, Contents
<1>3. JobsAreOnCourse'
  BY NoneIsDistinct DEF SaveAsNew, Begin, IInv, TypeOK, ProcessesAreCoherent,
     JobsAreOnCourse
<1>4. LockDiscipline'
  BY NoneIsDistinct DEF SaveAsNew, Begin, IInv, TypeOK, ProcessesAreCoherent,
     LockDiscipline
<1>5. ComparisonStands'
  BY NoneIsDistinct DEF SaveAsNew, Begin, IInv, TypeOK, ProcessesAreCoherent,
     LockDiscipline, ComparisonStands
<1>6. RetainedViewIsCurrent'
  BY NoneIsDistinct DEF SaveAsNew, Begin, IInv, TypeOK, ProcessesAreCoherent,
     LockDiscipline, RetainedViewIsCurrent
<1> QED
  BY <1>1, <1>2, <1>3, <1>4, <1>5, <1>6 DEF IInv

LEMMA WriterAcquireKeeps ==
    ASSUME IInv, TypeOK', NEW p \in Procs, NEW path \in Paths, WriterAcquire(p, path)
    PROVE  IInv'
<1>1. ProcessesAreCoherent'
  BY NoneIsDistinct DEF WriterAcquire, NoVault, IInv, TypeOK,
     ProcessesAreCoherent, Saves
<1>2. ExpectationsAreGrounded'
  BY NoneIsDistinct DEF WriterAcquire, NoVault, IInv, TypeOK,
     ProcessesAreCoherent, ExpectationsAreGrounded, Contents
<1>3. JobsAreOnCourse'
  BY NoneIsDistinct DEF WriterAcquire, NoVault, IInv, TypeOK,
     ProcessesAreCoherent, JobsAreOnCourse
<1>4. LockDiscipline'
  BY NoneIsDistinct DEF WriterAcquire, NoVault, IInv, TypeOK,
     ProcessesAreCoherent, LockDiscipline
<1>5. ComparisonStands'
  BY NoneIsDistinct DEF WriterAcquire, NoVault, IInv, TypeOK,
     ProcessesAreCoherent, LockDiscipline, ComparisonStands
<1>6. RetainedViewIsCurrent'
  BY NoneIsDistinct DEF WriterAcquire, NoVault, IInv, TypeOK,
     ProcessesAreCoherent, LockDiscipline, RetainedViewIsCurrent
<1> QED
  BY <1>1, <1>2, <1>3, <1>4, <1>5, <1>6 DEF IInv

LEMMA CreateKeeps ==
    ASSUME IInv, TypeOK', NEW p \in Procs, Create(p)
    PROVE  IInv'
<1>1. ProcessesAreCoherent'
  BY NoneIsDistinct DEF Create, Fresh, NoVault, IInv, TypeOK,
     ProcessesAreCoherent, Saves
<1>2. ExpectationsAreGrounded'
  BY NoneIsDistinct DEF Create, Fresh, NoVault, IInv, TypeOK,
     ProcessesAreCoherent, ExpectationsAreGrounded, Contents
<1>3. JobsAreOnCourse'
  BY NoneIsDistinct DEF Create, Fresh, NoVault, IInv, TypeOK,
     ProcessesAreCoherent, JobsAreOnCourse
<1>4. LockDiscipline'
  BY NoneIsDistinct DEF Create, Fresh, NoVault, IInv, TypeOK,
     ProcessesAreCoherent, LockDiscipline
<1>5. ComparisonStands'
  BY NoneIsDistinct DEF Create, Fresh, NoVault, IInv, TypeOK,
     ProcessesAreCoherent, LockDiscipline, ComparisonStands
<1>6. RetainedViewIsCurrent'
  BY NoneIsDistinct DEF Create, Fresh, NoVault, IInv, TypeOK,
     ProcessesAreCoherent, LockDiscipline, RetainedViewIsCurrent
<1> QED
  BY <1>1, <1>2, <1>3, <1>4, <1>5, <1>6 DEF IInv

LEMMA CloseKeeps ==
    ASSUME IInv, TypeOK', NEW p \in Procs, Close(p)
    PROVE  IInv'
<1>1. ProcessesAreCoherent'
  BY NoneIsDistinct DEF Close, IInv, TypeOK, ProcessesAreCoherent, Saves
<1>2. ExpectationsAreGrounded'
  BY NoneIsDistinct DEF Close, IInv, TypeOK, ProcessesAreCoherent,
     ExpectationsAreGrounded, Contents
<1>3. JobsAreOnCourse'
  BY NoneIsDistinct DEF Close, IInv, TypeOK, ProcessesAreCoherent,
     JobsAreOnCourse
<1>4. LockDiscipline'
  BY NoneIsDistinct DEF Close, IInv, TypeOK, ProcessesAreCoherent,
     LockDiscipline
<1>5. ComparisonStands'
  BY NoneIsDistinct DEF Close, IInv, TypeOK, ProcessesAreCoherent,
     LockDiscipline, ComparisonStands
<1>6. RetainedViewIsCurrent'
  BY NoneIsDistinct DEF Close, IInv, TypeOK, ProcessesAreCoherent,
     LockDiscipline, RetainedViewIsCurrent
<1> QED
  BY <1>1, <1>2, <1>3, <1>4, <1>5, <1>6 DEF IInv

LEMMA WriterSaveKeeps ==
    ASSUME IInv, TypeOK', NEW p \in Procs, WriterSave(p)
    PROVE  IInv'
<1>1. ProcessesAreCoherent'
  BY NoneIsDistinct DEF WriterSave, Begin, IInv, TypeOK, ProcessesAreCoherent,
     Saves
<1>2. ExpectationsAreGrounded'
  BY NoneIsDistinct DEF WriterSave, Begin, IInv, TypeOK, ProcessesAreCoherent,
     ExpectationsAreGrounded, Contents
<1>3. JobsAreOnCourse'
  BY NoneIsDistinct DEF WriterSave, Begin, IInv, TypeOK, ProcessesAreCoherent,
     JobsAreOnCourse
<1>4. LockDiscipline'
  BY NoneIsDistinct DEF WriterSave, Begin, IInv, TypeOK, ProcessesAreCoherent,
     LockDiscipline
<1>5. ComparisonStands'
  BY NoneIsDistinct DEF WriterSave, Begin, IInv, TypeOK, ProcessesAreCoherent,
     LockDiscipline, ComparisonStands
<1>6. RetainedViewIsCurrent'
  BY NoneIsDistinct DEF WriterSave, Begin, IInv, TypeOK, ProcessesAreCoherent,
     LockDiscipline, RetainedViewIsCurrent
<1> QED
  BY <1>1, <1>2, <1>3, <1>4, <1>5, <1>6 DEF IInv

LEMMA WriterDropKeeps ==
    ASSUME IInv, TypeOK', NEW p \in Procs, WriterDrop(p)
    PROVE  IInv'
<1>1. ProcessesAreCoherent'
  BY NoneIsDistinct DEF WriterDrop, IInv, TypeOK, ProcessesAreCoherent, Saves
<1>2. ExpectationsAreGrounded'
  BY NoneIsDistinct DEF WriterDrop, IInv, TypeOK, ProcessesAreCoherent,
     ExpectationsAreGrounded, Contents
<1>3. JobsAreOnCourse'
  BY NoneIsDistinct DEF WriterDrop, IInv, TypeOK, ProcessesAreCoherent,
     JobsAreOnCourse
<1>4. LockDiscipline'
  BY NoneIsDistinct DEF WriterDrop, IInv, TypeOK, ProcessesAreCoherent,
     LockDiscipline
<1>5. ComparisonStands'
  BY NoneIsDistinct DEF WriterDrop, IInv, TypeOK, ProcessesAreCoherent,
     LockDiscipline, ComparisonStands
<1>6. RetainedViewIsCurrent'
  BY NoneIsDistinct DEF WriterDrop, IInv, TypeOK, ProcessesAreCoherent,
     LockDiscipline, RetainedViewIsCurrent
<1> QED
  BY <1>1, <1>2, <1>3, <1>4, <1>5, <1>6 DEF IInv

LEMMA AcquireKeeps ==
    ASSUME IInv, TypeOK', NEW p \in Procs, Acquire(p)
    PROVE  IInv'
<1>1. ProcessesAreCoherent'
  BY NoneIsDistinct DEF Acquire, IInv, TypeOK, ProcessesAreCoherent, Saves
<1>2. ExpectationsAreGrounded'
  BY NoneIsDistinct DEF Acquire, IInv, TypeOK, ProcessesAreCoherent,
     ExpectationsAreGrounded, Contents
<1>3. JobsAreOnCourse'
  BY NoneIsDistinct DEF Acquire, IInv, TypeOK, ProcessesAreCoherent,
     JobsAreOnCourse
<1>4. LockDiscipline'
  BY NoneIsDistinct DEF Acquire, IInv, TypeOK, ProcessesAreCoherent,
     LockDiscipline
<1>5. ComparisonStands'
  BY NoneIsDistinct DEF Acquire, IInv, TypeOK, ProcessesAreCoherent,
     LockDiscipline, ComparisonStands
<1>6. RetainedViewIsCurrent'
  BY NoneIsDistinct DEF Acquire, IInv, TypeOK, ProcessesAreCoherent,
     LockDiscipline, RetainedViewIsCurrent
<1> QED
  BY <1>1, <1>2, <1>3, <1>4, <1>5, <1>6 DEF IInv

LEMMA CompareKeeps ==
    ASSUME IInv, TypeOK', NEW p \in Procs, Compare(p)
    PROVE  IInv'
<1>1. ProcessesAreCoherent'
  BY NoneIsDistinct DEF Compare, IInv, TypeOK, ProcessesAreCoherent, Saves
<1>2. ExpectationsAreGrounded'
  BY NoneIsDistinct DEF Compare, IInv, TypeOK, ProcessesAreCoherent,
     ExpectationsAreGrounded, Contents
<1>3. JobsAreOnCourse'
  BY NoneIsDistinct DEF Compare, IInv, TypeOK, ProcessesAreCoherent,
     JobsAreOnCourse
<1>4. LockDiscipline'
  BY NoneIsDistinct DEF Compare, IInv, TypeOK, ProcessesAreCoherent,
     LockDiscipline
<1>5. ComparisonStands'
  BY NoneIsDistinct DEF Compare, IInv, TypeOK, ProcessesAreCoherent,
     LockDiscipline, ComparisonStands
<1>6. RetainedViewIsCurrent'
  BY NoneIsDistinct DEF Compare, IInv, TypeOK, ProcessesAreCoherent,
     LockDiscipline, RetainedViewIsCurrent
<1> QED
  BY <1>1, <1>2, <1>3, <1>4, <1>5, <1>6 DEF IInv

LEMMA ConflictKeeps ==
    ASSUME IInv, TypeOK', NEW p \in Procs, Conflict(p)
    PROVE  IInv'
<1>1. ProcessesAreCoherent'
  BY NoneIsDistinct DEF Conflict, Unlock, EndSave, IInv, TypeOK,
     ProcessesAreCoherent, Saves
<1>2. ExpectationsAreGrounded'
  BY NoneIsDistinct DEF Conflict, Unlock, EndSave, IInv, TypeOK,
     ProcessesAreCoherent, ExpectationsAreGrounded, Contents
<1>3. JobsAreOnCourse'
  BY NoneIsDistinct DEF Conflict, Unlock, EndSave, IInv, TypeOK,
     ProcessesAreCoherent, JobsAreOnCourse
<1>4. LockDiscipline'
  BY NoneIsDistinct DEF Conflict, Unlock, EndSave, IInv, TypeOK,
     ProcessesAreCoherent, LockDiscipline
<1>5. ComparisonStands'
  BY NoneIsDistinct DEF Conflict, Unlock, EndSave, IInv, TypeOK,
     ProcessesAreCoherent, LockDiscipline, ComparisonStands
<1>6. RetainedViewIsCurrent'
  BY NoneIsDistinct DEF Conflict, Unlock, EndSave, IInv, TypeOK,
     ProcessesAreCoherent, LockDiscipline, RetainedViewIsCurrent
<1> QED
  BY <1>1, <1>2, <1>3, <1>4, <1>5, <1>6 DEF IInv

LEMMA PublishKeeps ==
    ASSUME IInv, TypeOK', NEW p \in Procs, Publish(p)
    PROVE  IInv'
<1>1. ProcessesAreCoherent'
  BY NoneIsDistinct DEF Publish, Rename, Unlock, EndSave, IInv, TypeOK,
     ProcessesAreCoherent, Saves
<1>2. ExpectationsAreGrounded'
  BY NoneIsDistinct DEF Publish, Rename, Unlock, EndSave, IInv, TypeOK,
     ProcessesAreCoherent, ExpectationsAreGrounded, Contents
<1>3. JobsAreOnCourse'
  BY NoneIsDistinct DEF Publish, Rename, Unlock, EndSave, IInv, TypeOK,
     ProcessesAreCoherent, JobsAreOnCourse
<1>4. LockDiscipline'
  BY NoneIsDistinct DEF Publish, Rename, Unlock, EndSave, IInv, TypeOK,
     ProcessesAreCoherent, LockDiscipline
<1>5. ComparisonStands'
  BY NoneIsDistinct DEF Publish, Rename, Unlock, EndSave, IInv, TypeOK,
     ProcessesAreCoherent, LockDiscipline, ComparisonStands
<1>6. RetainedViewIsCurrent'
  BY NoneIsDistinct DEF Publish, Rename, Unlock, EndSave, IInv, TypeOK,
     ProcessesAreCoherent, LockDiscipline, RetainedViewIsCurrent
<1> QED
  BY <1>1, <1>2, <1>3, <1>4, <1>5, <1>6 DEF IInv

LEMMA PublishUnrestrictedKeeps ==
    ASSUME IInv, TypeOK', NEW p \in Procs, PublishUnrestricted(p)
    PROVE  IInv'
<1>1. ProcessesAreCoherent'
  BY NoneIsDistinct DEF PublishUnrestricted, Rename, Unlock, EndSave, IInv,
     TypeOK, ProcessesAreCoherent, Saves
<1>2. ExpectationsAreGrounded'
  BY NoneIsDistinct DEF PublishUnrestricted, Rename, Unlock, EndSave, IInv,
     TypeOK, ProcessesAreCoherent, ExpectationsAreGrounded, Contents
<1>3. JobsAreOnCourse'
  BY NoneIsDistinct DEF PublishUnrestricted, Rename, Unlock, EndSave, IInv,
     TypeOK, ProcessesAreCoherent, JobsAreOnCourse
<1>4. LockDiscipline'
  BY NoneIsDistinct DEF PublishUnrestricted, Rename, Unlock, EndSave, IInv,
     TypeOK, ProcessesAreCoherent, LockDiscipline
<1>5. ComparisonStands'
  BY NoneIsDistinct DEF PublishUnrestricted, Rename, Unlock, EndSave, IInv,
     TypeOK, ProcessesAreCoherent, LockDiscipline, ComparisonStands
<1>6. RetainedViewIsCurrent'
  BY NoneIsDistinct DEF PublishUnrestricted, Rename, Unlock, EndSave, IInv,
     TypeOK, ProcessesAreCoherent, LockDiscipline, RetainedViewIsCurrent
<1> QED
  BY <1>1, <1>2, <1>3, <1>4, <1>5, <1>6 DEF IInv

LEMMA FailKeeps ==
    ASSUME IInv, TypeOK', NEW p \in Procs, Fail(p)
    PROVE  IInv'
<1>1. ProcessesAreCoherent'
  BY NoneIsDistinct DEF Fail, Unlock, EndSave, IInv, TypeOK,
     ProcessesAreCoherent, Saves
<1>2. ExpectationsAreGrounded'
  BY NoneIsDistinct DEF Fail, Unlock, EndSave, IInv, TypeOK,
     ProcessesAreCoherent, ExpectationsAreGrounded, Contents
<1>3. JobsAreOnCourse'
  BY NoneIsDistinct DEF Fail, Unlock, EndSave, IInv, TypeOK,
     ProcessesAreCoherent, JobsAreOnCourse
<1>4. LockDiscipline'
  BY NoneIsDistinct DEF Fail, Unlock, EndSave, IInv, TypeOK,
     ProcessesAreCoherent, LockDiscipline
<1>5. ComparisonStands'
  BY NoneIsDistinct DEF Fail, Unlock, EndSave, IInv, TypeOK,
     ProcessesAreCoherent, LockDiscipline, ComparisonStands
<1>6. RetainedViewIsCurrent'
  BY NoneIsDistinct DEF Fail, Unlock, EndSave, IInv, TypeOK,
     ProcessesAreCoherent, LockDiscipline, RetainedViewIsCurrent
<1> QED
  BY <1>1, <1>2, <1>3, <1>4, <1>5, <1>6 DEF IInv

LEMMA CrashKeeps ==
    ASSUME IInv, TypeOK', NEW p \in Procs, Crash(p)
    PROVE  IInv'
<1>1. ProcessesAreCoherent'
  BY NoneIsDistinct DEF Crash, EndSave, IInv, TypeOK, ProcessesAreCoherent,
     Saves
<1>2. ExpectationsAreGrounded'
  BY NoneIsDistinct DEF Crash, EndSave, IInv, TypeOK, ProcessesAreCoherent,
     ExpectationsAreGrounded, Contents
<1>3. JobsAreOnCourse'
  BY NoneIsDistinct DEF Crash, EndSave, IInv, TypeOK, ProcessesAreCoherent,
     JobsAreOnCourse
<1>4. LockDiscipline'
  BY NoneIsDistinct DEF Crash, EndSave, IInv, TypeOK, ProcessesAreCoherent,
     LockDiscipline
<1>5. ComparisonStands'
  BY NoneIsDistinct DEF Crash, EndSave, IInv, TypeOK, ProcessesAreCoherent,
     LockDiscipline, ComparisonStands
<1>6. RetainedViewIsCurrent'
  BY NoneIsDistinct DEF Crash, EndSave, IInv, TypeOK, ProcessesAreCoherent,
     LockDiscipline, RetainedViewIsCurrent
<1> QED
  BY <1>1, <1>2, <1>3, <1>4, <1>5, <1>6 DEF IInv

LEMMA StoreKeeps ==
    ASSUME IInv, TypeOK', NEW p \in Procs, NEW path \in Paths, Store(p, path)
    PROVE  IInv'
<1>1. CASE StoreInit(p, path)
  BY <1>1, StoreInitKeeps
<1>2. CASE SetSecret(p, path)
  <2>1. PICK v \in Vars, x \in Values : StoreChange(p, path, "set", [w \in {v} |-> x])
    BY <1>2 DEF SetSecret
  <2> QED
    BY <2>1, SingleChange, StoreChangeKeeps
<1>3. CASE InsertSecretIfAbsent(p, path)
  <2>1. PICK v \in Vars, x \in Values :
          /\ file[path].vals[v] = None
          /\ StoreChange(p, path, "insert", [w \in {v} |-> x])
    BY <1>3 DEF InsertSecretIfAbsent
  <2>2. \A w \in DOMAIN [w \in {v} |-> x] : file[path].vals[w] = None
    BY <2>1
  <2> QED
    BY <2>1, <2>2, SingleChange, StoreChangeKeeps
<1>4. CASE UnsetSecret(p, path)
  <2>1. PICK v \in Vars : StoreChange(p, path, "unset", [w \in {v} |-> None])
    BY <1>4 DEF UnsetSecret
  <2> QED
    BY <2>1, SingleChange, StoreChangeKeeps
<1>5. CASE ReplaceProfile(p, path)
  <2>1. PICK vals \in Vals : StoreChange(p, path, "replace", vals)
    BY <1>5 DEF ReplaceProfile
  <2>2. vals \in Changes
    BY DEF Changes, Vals
  <2> QED
    BY <2>1, <2>2, StoreChangeKeeps
<1> QED
  BY <1>1, <1>2, <1>3, <1>4, <1>5 DEF Store

LEMMA InductionStep == IInv /\ [Next]_vars => IInv'
<1> SUFFICES ASSUME IInv, [Next]_vars PROVE IInv'
  OBVIOUS
<1>0. TypeOK'
  BY TypeStep DEF IInv
<1>1. CASE UNCHANGED vars
  BY <1>0, <1>1
     DEF vars, IInv, ProcessesAreCoherent, ExpectationsAreGrounded, JobsAreOnCourse,
         LockDiscipline, ComparisonStands, RetainedViewIsCurrent
<1>2. ASSUME NEW p \in Procs, NEW path \in Paths, Store(p, path) PROVE IInv'
  BY <1>0, <1>2, StoreKeeps
<1>3. ASSUME NEW p \in Procs, NEW path \in Paths, Api(p, path) PROVE IInv'
  BY <1>0, <1>3, LoadKeeps, SaveKeeps, SaveAsNewKeeps, WriterAcquireKeeps DEF Api
<1>4. ASSUME NEW p \in Procs, Memory(p) PROVE IInv'
  BY <1>0, <1>4, CreateKeeps, EditKeeps, CloseKeeps, WriterSaveKeeps, WriterDropKeeps
     DEF Memory
<1>5. ASSUME NEW p \in Procs, Advance(p) PROVE IInv'
  BY <1>0, <1>5, CompareKeeps, ConflictKeeps, PublishKeeps, PublishUnrestrictedKeeps
     DEF Advance
<1>6. ASSUME NEW p \in Procs, Acquire(p) \/ Fail(p) \/ Crash(p) PROVE IInv'
  BY <1>0, <1>6, AcquireKeeps, FailKeeps, CrashKeeps
<1> QED
  BY <1>1, <1>2, <1>3, <1>4, <1>5, <1>6 DEF Next

LEMMA InitiallyInv == Init => IInv
<1> SUFFICES ASSUME Init PROVE IInv
  OBVIOUS
<1>1. TypeOK
  BY DEF Init, TypeOK
<1>2. ProcessesAreCoherent /\ ExpectationsAreGrounded /\ JobsAreOnCourse
  BY DEF Init, ProcessesAreCoherent, ExpectationsAreGrounded, JobsAreOnCourse
<1>3. LockDiscipline
  BY NoneIsDistinct DEF Init, LockDiscipline
<1>4. ComparisonStands /\ RetainedViewIsCurrent
  BY DEF Init, ComparisonStands, RetainedViewIsCurrent
<1> QED
  BY <1>1, <1>2, <1>3, <1>4 DEF IInv

LEMMA Invariance == Spec => []IInv
  BY InitiallyInv, InductionStep, PTL DEF Spec

------------------------------------------------------------------------------
\* The results.

\* The writer lock is held exactly by the process between its comparison and
\* its rename, or by the owner of a VaultWriter: nobody else, and nobody dead.
THEOREM LockSafety == Spec => []LockDiscipline
<1>1. IInv => LockDiscipline
  BY DEF IInv
<1> QED
  BY <1>1, Invariance, PTL

\* What the owner of a VaultWriter loaded is what is on disk when it saves.
THEOREM RetainedViewSafety == Spec => []RetainedViewIsCurrent
<1>1. IInv => RetainedViewIsCurrent
  BY DEF IInv
<1> QED
  BY <1>1, Invariance, PTL

\* Where a rename takes place, the content it replaces is the one expected.
LEMMA RenameReplacesExpected ==
    ASSUME IInv, NEW p \in Procs, Rename(p)
    PROVE  /\ save[p].path \in Paths
           /\ vault[p] \in Contents
           /\ file[save[p].path] = save[p].expected
           /\ file' = [file EXCEPT ![save[p].path] = vault[p]]
           /\ file'[save[p].path] = vault[p]
<1>1. pc[p] = "publish" /\ save[p] \in Saves /\ vault[p] \in Contents
  BY DEF Rename, IInv, TypeOK, ProcessesAreCoherent
<1>2. save[p].path \in Paths
  BY <1>1 DEF Saves
<1>3. file[save[p].path] = save[p].expected
  BY <1>1 DEF IInv, ComparisonStands
<1> QED
  BY <1>1, <1>2, <1>3 DEF Rename, IInv, TypeOK

\* A store operation changes what it was asked to change and nothing else, in
\* the very content it replaces.
THEOREM StoreIsolation == Spec => StoreChangesAreIsolated
<1> DEFINE Isolated(p) ==
      LET path == save[p].path IN
      Rename(p) /\ job[p] # None =>
          /\ file[path] # None
          /\ \A v \in Vars \ DOMAIN job[p].change :
                 file'[path].vals[v] = file[path].vals[v]
          /\ \A v \in DOMAIN job[p].change :
                 /\ file'[path].vals[v] = job[p].change[v]
                 /\ job[p].op = "insert" => file[path].vals[v] = None
<1>1. IInv /\ [Next]_vars => [\A p \in Procs : Isolated(p)]_vars
  <2> SUFFICES ASSUME IInv, NEW p \in Procs, Rename(p), job[p] # None
               PROVE  Isolated(p)
    OBVIOUS
  <2>1. /\ file[save[p].path] = save[p].expected
        /\ file'[save[p].path] = vault[p]
    BY RenameReplacesExpected
  <2>2. /\ digest[p] # None
        /\ save[p].expected = digest[p]
        /\ vault[p].vals = Applied(job[p].change, digest[p].vals)
        /\ job[p].op = "insert" =>
              \A v \in DOMAIN job[p].change : digest[p].vals[v] = None
    BY DEF Rename, IInv, JobsAreOnCourse
  <2>3. DOMAIN job[p].change \subseteq Vars
    BY DEF IInv, TypeOK, Jobs, Changes
  <2> QED
    BY <2>1, <2>2, <2>3 DEF Applied
<1> QED
  BY <1>1, Invariance, PTL DEF Spec, StoreChangesAreIsolated

\* Only the rename of a save touches a vault file.
LEMMA FilesChangeByRename ==
    ASSUME [Next]_vars
    PROVE  UNCHANGED file \/ \E p \in Procs : Publish(p) \/ PublishUnrestricted(p)
<1>1. CASE UNCHANGED vars
  BY <1>1 DEF vars
<1>2. ASSUME NEW p \in Procs, NEW path \in Paths, Store(p, path) PROVE UNCHANGED file
  BY <1>2
     DEF Store, StoreInit, SetSecret, InsertSecretIfAbsent, UnsetSecret, ReplaceProfile,
         StoreChange
<1>3. ASSUME NEW p \in Procs, NEW path \in Paths, Api(p, path) PROVE UNCHANGED file
  BY <1>3 DEF Api, Load, Save, SaveAsNew, WriterAcquire
<1>4. ASSUME NEW p \in Procs, Memory(p) PROVE UNCHANGED file
  BY <1>4 DEF Memory, Create, Edit, Close, WriterSave, WriterDrop
<1>5. ASSUME NEW p \in Procs, Acquire(p) \/ Fail(p) \/ Crash(p) PROVE UNCHANGED file
  BY <1>5 DEF Acquire, Fail, Crash
<1>6. ASSUME NEW p \in Procs, Compare(p) \/ Conflict(p) PROVE UNCHANGED file
  BY <1>6 DEF Compare, Conflict
<1> QED
  BY <1>1, <1>2, <1>3, <1>4, <1>5, <1>6 DEF Next, Advance

\* A vault file never turns into another vault and never disappears.
THEOREM OriginStability == Spec => VaultKeepsItsOrigin
<1> DEFINE Kept(path) ==
      file[path] # None => file'[path] # None /\ file'[path].origin = file[path].origin
<1>1. IInv /\ [Next]_vars => [\A path \in Paths : Kept(path)]_vars
  <2> SUFFICES ASSUME IInv, [Next]_vars, NEW path \in Paths, file[path] # None
               PROVE  file'[path] # None /\ file'[path].origin = file[path].origin
    OBVIOUS
  <2>1. CASE UNCHANGED file
    BY <2>1
  <2>2. ASSUME NEW p \in Procs, Rename(p)
        PROVE  file'[path] # None /\ file'[path].origin = file[path].origin
    <3>1. /\ vault[p] \in Contents
          /\ file[save[p].path] = save[p].expected
          /\ file' = [file EXCEPT ![save[p].path] = vault[p]]
          /\ file'[save[p].path] = vault[p]
      BY <2>2, RenameReplacesExpected
    <3>2. CASE save[p].path = path
      <4>1. save[p].expected = digest[p]
        BY <2>2, <3>1, <3>2 DEF Rename, IInv, ExpectationsAreGrounded
      <4> QED
        BY <3>1, <3>2, <4>1, NoneIsDistinct DEF IInv, ExpectationsAreGrounded
    <3>3. CASE save[p].path # path
      BY <3>1, <3>3 DEF IInv, TypeOK
    <3> QED
      BY <3>2, <3>3
  <2> QED
    BY <2>1, <2>2, FilesChangeByRename DEF Publish, PublishUnrestricted
<1> QED
  BY <1>1, Invariance, PTL DEF Spec, VaultKeepsItsOrigin

LEMMA RegisterInitially == Init => Register!Init
  BY DEF Init, Register!Init

\* A rename is a compare-and-swap of the content the vault was loaded from.
LEMMA RenameSwaps ==
    ASSUME IInv, NEW p \in Procs, Rename(p),
           digest' \in {digest, [digest EXCEPT ![p] = vault[p]]}
    PROVE  Register!Next
<1>1. /\ save[p].path \in Paths
      /\ vault[p] \in Contents
      /\ file[save[p].path] = save[p].expected
      /\ file' = [file EXCEPT ![save[p].path] = vault[p]]
  BY RenameReplacesExpected
<1>2. save[p].expected \in {digest[p], None}
  BY DEF Rename, IInv, ExpectationsAreGrounded
<1>3. Register!CompareAndSwap(p, save[p].path, vault[p])
  BY <1>1, <1>2 DEF Register!CompareAndSwap
<1> QED
  BY <1>1, <1>3 DEF Register!Next

LEMMA RegisterStep == IInv /\ [Next]_vars => [Register!Next]_(Register!vars)
<1> SUFFICES ASSUME IInv, [Next]_vars, ~ UNCHANGED <<file, digest>>
             PROVE  Register!Next
  BY DEF Register!vars
<1>1. ASSUME NEW p \in Procs, NEW path \in Paths,
             file[path] # None, UNCHANGED file, digest' = [digest EXCEPT ![p] = file[path]]
      PROVE  Register!Next
  BY <1>1 DEF Register!Next, Register!Observe
<1>2. ASSUME NEW p \in Procs, UNCHANGED file, digest' = [digest EXCEPT ![p] = None]
      PROVE  Register!Next
  BY <1>2 DEF Register!Next, Register!Forget
<1>3. ASSUME NEW p \in Procs, NEW path \in Paths, Store(p, path)
      PROVE  Register!Next
  BY <1>1, <1>3
     DEF Store, StoreInit, SetSecret, InsertSecretIfAbsent, UnsetSecret, ReplaceProfile,
         StoreChange
<1>4. ASSUME NEW p \in Procs, NEW path \in Paths, Api(p, path)
      PROVE  Register!Next
  BY <1>1, <1>4 DEF Api, Load, Save, SaveAsNew, WriterAcquire
<1>5. ASSUME NEW p \in Procs, Memory(p)
      PROVE  Register!Next
  BY <1>2, <1>5 DEF Memory, Create, Edit, Close, WriterSave, WriterDrop
<1>6. ASSUME NEW p \in Procs, Acquire(p) \/ Fail(p) \/ Crash(p)
      PROVE  Register!Next
  BY <1>2, <1>6 DEF Acquire, Fail, Crash
<1>7. ASSUME NEW p \in Procs, Advance(p)
      PROVE  Register!Next
  BY <1>7, RenameSwaps DEF Advance, Compare, Conflict, Publish, PublishUnrestricted
<1> QED
  BY <1>3, <1>4, <1>5, <1>6, <1>7 DEF Next, vars

\* Whatever the interleaving, errors and deaths, every vault file behaves as a
\* compare-and-swap register for the users of the library: the digest check
\* under the writer lock loses no update.
THEOREM Refinement == Spec => RefinesRegister
  BY RegisterInitially, RegisterStep, Invariance, PTL
     DEF Spec, RefinesRegister, Register!Spec
==============================================================================

-------------------------- MODULE ProposalsProofs --------------------------
(***************************************************************************)
(* Theorems about Proposals, for any number of commands and proposals, any *)
(* configuration tree, any accepted action lists and any bound on trouble: *)
(* the types, the locks, and that a command only ever comes nearer to its  *)
(* end.                                                                    *)
(***************************************************************************)
EXTENDS Proposals, SequenceTheorems, TLAPS

-----------------------------------------------------------------------------
(* Facts about the operators of the model.                                 *)

(* The initial state of a process has the type of a process. *)
LEMMA IdleType == Idle \in Process
  BY DEF Idle, Process, Strategies, PromotionSteps, Starting, ApplySteps, Operations, Applied

(* parse_definition: an accepted action list has a first action, and each  *)
(* of its actions names a path.                                            *)
LEMMA DefinitionType ==
  ASSUME NEW d \in Definitions
  PROVE  /\ d \in Seq(Action) /\ 1 \in DOMAIN d /\ Len(d) \in Nat \ {0}
         /\ DOMAIN d = 1..Len(d)
         /\ \A i \in DOMAIN d : d[i] \in Action /\ d[i].path \in Paths
         /\ \A i \in DOMAIN d : d[i].type = "write" => d[i].content \in FsValues
  <1>1. d \in Seq(Action) /\ d # <<>>
    BY DefinitionsAssumption
  <1>2. Len(d) \in Nat \ {0} /\ DOMAIN d = 1..Len(d)
    BY <1>1
  <1>3. \A i \in DOMAIN d : d[i] \in Action
    BY <1>1, <1>2
  <1>4. \A i \in DOMAIN d : d[i].path \in Paths
    BY <1>3 DEF Action
  <1>5. QED
    BY <1>1, <1>2, <1>3, <1>4, DefinitionsAssumption DEF FsValues

(* A lifecycle step of a record is a record again. *)
LEMMA TransitionType ==
  ASSUME NEW r \in Record, NEW s \in ProposalStates
  PROVE  /\ Transition(r, s) \in Record
         /\ Transition(r, s).state = s
         /\ Transition(r, s).history = Append(r.history, s)
         /\ Transition(r, s).actions = r.actions
         /\ Transition(r, s).classified = r.classified
         /\ Transition(r, s).approved = r.approved
         /\ Transition(r, s).recovery = r.recovery
  <1>1. Append(r.history, s) \in Seq(ProposalStates)
    BY DEF Record
  <1>2. QED
    BY <1>1 DEF Record, Transition

(* The list of actions to undo has an entry for each complete action. *)
LEMMA RollbackPlanType ==
  ASSUME NEW s \in Seq(Applied)
  PROVE  RollbackPlan(s) \in Seq(Applied) /\ (s # <<>> => RollbackPlan(s) # <<>>)
  <1> DEFINE n == Len(s)
  <1>1. n \in Nat /\ \A i \in 1..n : s[(n - i) + 1] \in Applied
    OBVIOUS
  <1>2. RollbackPlan(s) = [i \in 1..n |-> s[(n - i) + 1]]
    BY DEF RollbackPlan, Reverse
  <1>3. RollbackPlan(s) \in [1..n -> Applied]
    BY <1>1, <1>2
  <1>4. RollbackPlan(s) \in Seq(Applied)
    BY <1>1, <1>3, SeqDef
  <1>5. ASSUME s # <<>> PROVE RollbackPlan(s) # <<>>
    <2>1. 1 \in DOMAIN RollbackPlan(s)
      BY <1>1, <1>3, <1>5, EmptySeq
    <2>2. QED
      BY <2>1
  <1>6. QED
    BY <1>4, <1>5

(* The steps that change the local state of a command keep its type. *)
LEMMA CompletedType ==
  ASSUME NEW q \in Process, WellFormed(q), q.pc \in ApplySteps, NEW s \in Strategies
  PROVE  Completed(q, s) \in Process /\ WellFormed(Completed(q, s))
  <1> DEFINE d == q.copy.actions
             a == [path |-> d[q.next].path, recovery |-> s]
             r == Completed(q, s)
  <1>1. q.copy \in Record /\ q.on \in Proposals /\ q.next \in DOMAIN d
    BY DEF WellFormed, ApplySteps
  <1>2. d \in Definitions
    BY <1>1 DEF Record
  <1>3. a \in Applied /\ Len(d) \in Nat /\ q.next \in 1..Len(d)
    BY <1>1, <1>2, DefinitionType DEF Applied
  <1>4. Append(q.applied, a) \in Seq(Applied)
    BY <1>3 DEF Process
  <1>5. /\ r.applied = Append(q.applied, a) /\ r.next = q.next + 1
        /\ r.pc = IF q.next = Len(d) THEN "verify" ELSE "apply"
        /\ r.copy = q.copy /\ r.on = q.on
    BY DEF Completed, Process
  <1>6. r \in Process
    <2> DEFINE list == Append(q.applied, a)
               pc   == IF q.next = Len(d) THEN "verify" ELSE "apply"
    <2>1. /\ list \in Seq(Applied) /\ q.next + 1 \in Nat
          /\ pc \in {"idle", "create"} \cup Operations \cup PromotionSteps
      BY <1>3, <1>4 DEF PromotionSteps, Starting, ApplySteps
    <2>2. r = [q EXCEPT !.applied = list, !.next = q.next + 1, !.pc = pc]
      BY DEF Completed
    <2> HIDE DEF list, pc, r
    <2>3. QED
      BY <2>1, <2>2 DEF Process
  <1>7. r.pc = "apply" => r.next \in DOMAIN d
    BY <1>2, <1>3, <1>5, DefinitionType
  <1>8. QED
    BY <1>1, <1>5, <1>6, <1>7 DEF WellFormed, Operations, Starting, ApplySteps

(* A command that turns to its rollback stays well-formed. *)
LEMMA RollingBackType ==
  ASSUME NEW q \in Process, WellFormed(q), q.pc # "idle"
  PROVE  RollingBack(q) \in Process /\ WellFormed(RollingBack(q))
  <1>1. q.applied \in Seq(Applied)
    BY DEF Process
  <1>2. /\ RollbackPlan(q.applied) \in Seq(Applied)
        /\ q.applied # <<>> => RollbackPlan(q.applied) # <<>>
    BY <1>1, RollbackPlanType
  <1>3. RollingBack(q) \in Process
    <2> DEFINE pc == IF q.applied = <<>> THEN "finish" ELSE "rollback"
               undo == RollbackPlan(q.applied)
    <2>1. pc \in PromotionSteps /\ undo \in Seq(Applied)
      BY <1>2 DEF PromotionSteps
    <2>2. RollingBack(q) = [q EXCEPT !.undo = undo, !.pc = pc]
      BY DEF RollingBack
    <2> HIDE DEF pc, undo
    <2>3. QED
      BY <2>1, <2>2 DEF Process
  <1>4. /\ RollingBack(q).pc \in {"finish", "rollback"}
        /\ RollingBack(q).pc = "rollback" => RollingBack(q).undo # <<>>
        /\ RollingBack(q).on = q.on /\ RollingBack(q).copy = q.copy
    BY <1>2 DEF RollingBack, Process
  <1>5. QED
    BY <1>3, <1>4 DEF WellFormed, Operations, Starting, ApplySteps

(* One step of the rollback leaves a well-formed command. *)
LEMMA AfterUndoType ==
  ASSUME NEW q \in Process, WellFormed(q), q.pc = "rollback", NEW ok \in BOOLEAN
  PROVE  AfterUndo(q, ok) \in Process /\ WellFormed(AfterUndo(q, ok))
  <1>1. q.undo \in Seq(Applied) /\ q.undo # <<>>
    BY DEF Process, WellFormed
  <1>2. /\ Tail(q.undo) \in Seq(Applied)
        /\ Len(q.undo) # 1 => Tail(q.undo) # <<>>
    <2>1. /\ Tail(q.undo) \in Seq(Applied) /\ Len(Tail(q.undo)) = Len(q.undo) - 1
          /\ Len(q.undo) \in Nat /\ Len(q.undo) # 0
      BY <1>1, HeadTailProperties, EmptySeq
    <2>2. Tail(q.undo) = <<>> => Len(Tail(q.undo)) = 0
      BY EmptySeq
    <2>3. QED
      BY <2>1, <2>2
  <1>3. AfterUndo(q, ok) \in Process
    <2> DEFINE clean == q.clean /\ ok
               pc    == IF Len(q.undo) = 1 THEN "finish" ELSE "rollback"
    <2>1. q.clean \in BOOLEAN
      BY DEF Process
    <2>2. clean \in BOOLEAN
      BY <2>1, Zenon
    <2>3. pc \in PromotionSteps
      BY DEF PromotionSteps, Starting
    <2>4. AfterUndo(q, ok) = [q EXCEPT !.undo = Tail(q.undo), !.clean = clean, !.pc = pc]
      BY Zenon DEF AfterUndo
    <2> HIDE DEF clean, pc
    <2>5. QED
      BY <1>2, <2>2, <2>3, <2>4 DEF Process
  <1>4. /\ AfterUndo(q, ok).pc \in {"finish", "rollback"}
        /\ AfterUndo(q, ok).pc = "rollback" => AfterUndo(q, ok).undo # <<>>
        /\ AfterUndo(q, ok).on = q.on /\ AfterUndo(q, ok).copy = q.copy
    BY <1>2 DEF AfterUndo, Process
  <1>5. QED
    BY <1>3, <1>4 DEF WellFormed, Operations, Starting, ApplySteps

(* Only the state of the acting command changes. *)
LEMMA BecomeType ==
  ASSUME proc \in [Procs -> Process], \A e \in Procs : WellFormed(proc[e]),
         NEW c \in Procs, NEW q \in Process, WellFormed(q), Become(c, q)
  PROVE  proc' \in [Procs -> Process] /\ \A e \in Procs : WellFormed(proc'[e])
  BY DEF Become

(* A change at one path keeps the configuration tree a tree of values. *)
LEMMA SetPathType ==
  ASSUME TypeOK, NEW p, NEW x \in Paths, NEW v \in FsValues, SetPath(p, x, v)
  PROVE  fs' \in [Paths -> FsValues] /\ disturbed' \in [Proposals -> SUBSET Paths]
  <1>1. fs' \in [Paths -> FsValues]
    BY DEF TypeOK, SetPath
  <1>2. \A q \in Proposals : disturbed'[q] \in SUBSET Paths
    BY DEF TypeOK, SetPath
  <1>3. QED
    BY <1>1, <1>2 DEF SetPath

(* A command that ends leaves well-formed locks and processes behind. *)
LEMMA ReleaseType ==
  ASSUME TypeOK, NEW c \in Procs, Release(c)
  PROVE  /\ lock' \in [Proposals -> Procs \cup {None}]
         /\ proc' \in [Procs -> Process] /\ \A e \in Procs : WellFormed(proc'[e])
  <1>1. WellFormed(Idle)
    BY DEF Idle, WellFormed, Operations, Starting, ApplySteps
  <1>2. Become(c, Idle)
    BY DEF Release
  <1>3. lock' \in [Proposals -> Procs \cup {None}]
    BY DEF TypeOK, Release
  <1>4. QED
    BY <1>1, <1>2, <1>3, IdleType, BecomeType DEF TypeOK

-----------------------------------------------------------------------------
(* The type invariant.                                                     *)

(* The program starts with its variables in their types. *)
LEMMA InitType == Init => TypeOK
  <1> SUFFICES ASSUME Init PROVE TypeOK
    OBVIOUS
  <1>1. WellFormed(Idle)
    BY DEF Idle, WellFormed, Operations, Starting, ApplySteps
  <1>2. \A c \in Procs : proc[c] = Idle
    BY DEF Init
  <1>3. backup \in [Proposals -> [Paths -> FsValues]]
    BY DEF Init, FsValues
  <1>4. fs \in [Paths -> FsValues] /\ trouble \in Nat
    BY ConstantsAssumption DEF Init
  <1>5. QED
    BY <1>1, <1>2, <1>3, <1>4, IdleType DEF Init, TypeOK

(* The first save of a proposal and the end of every command that saves. *)
LEMMA ConcludeType ==
  ASSUME TypeOK, NEW c \in Procs, proc[c].pc # "idle", NEW r \in Record, Conclude(c, r),
         fs' \in [Paths -> FsValues], disturbed' \in [Proposals -> SUBSET Paths],
         trouble' \in Nat
  PROVE  TypeOK'
  <1>1. proc[c].on \in Proposals
    BY DEF TypeOK, WellFormed
  <1>2. store' \in [Proposals -> Record \cup {None}]
    BY <1>1 DEF TypeOK, Conclude, Save
  <1>3. QED
    BY <1>2, ReleaseType DEF TypeOK, Conclude

(* A command that ends without a save. *)
LEMMA QuitType ==
  ASSUME TypeOK, NEW c \in Procs, Release(c), trouble' \in Nat,
         UNCHANGED <<dir, store, backup, fs, disturbed>>
  PROVE  TypeOK'
  BY ReleaseType DEF TypeOK

(* A step inside a command that saves nothing. *)
LEMMA AdvanceType ==
  ASSUME TypeOK, NEW c \in Procs, NEW q \in Process, WellFormed(q), Become(c, q),
         trouble' \in Nat, backup' \in [Proposals -> [Paths -> FsValues]],
         fs' \in [Paths -> FsValues], disturbed' \in [Proposals -> SUBSET Paths],
         UNCHANGED <<dir, store, lock>>
  PROVE  TypeOK'
  <1>1. proc' \in [Procs -> Process] /\ \A e \in Procs : WellFormed(proc'[e])
    BY BecomeType DEF TypeOK
  <1>2. QED
    BY <1>1 DEF TypeOK

(* The action at which the apply loop stands. *)
LEMMA CurrentType ==
  ASSUME TypeOK, NEW c \in Procs, proc[c].pc \in ApplySteps
  PROVE  /\ Current(c) \in Action /\ Current(c).path \in Paths
         /\ Current(c).type = "write" => Current(c).content \in FsValues
         /\ proc[c] \in Process /\ WellFormed(proc[c]) /\ proc[c].on \in Proposals
  <1>1. /\ proc[c] \in Process /\ WellFormed(proc[c]) /\ proc[c].on \in Proposals
        /\ proc[c].copy \in Record /\ proc[c].next \in DOMAIN proc[c].copy.actions
    BY DEF TypeOK, WellFormed, ApplySteps
  <1>2. proc[c].copy.actions \in Definitions
    BY <1>1 DEF Record
  <1>3. QED
    BY <1>1, <1>2, DefinitionType DEF Current

(* The record of a running command, and the commands it may be at. *)
LEMMA RunningType ==
  ASSUME TypeOK, NEW c \in Procs, proc[c].pc # "idle"
  PROVE  /\ proc[c] \in Process /\ WellFormed(proc[c])
         /\ proc[c].on \in Proposals /\ proc[c].copy \in Record
         /\ proc[c].copy.actions \in Definitions
  BY DEF TypeOK, WellFormed, Record

(* inspect_actions observes one value for each action. *)
LEMMA ObservedType ==
  ASSUME fs \in [Paths -> FsValues], NEW d \in Definitions
  PROVE  Observed(d) \in Seq(FsValues)
  <1> DEFINE n == Len(d)
  <1>1. n \in Nat /\ DOMAIN d = 1..n /\ \A i \in 1..n : d[i].path \in Paths
    BY DefinitionType
  <1>2. \A i \in 1..n : fs[d[i].path] \in FsValues
    BY <1>1
  <1>3. Observed(d) = [i \in 1..n |-> fs[d[i].path]]
    BY <1>1 DEF Observed
  <1> HIDE DEF n
  <1>4. Observed(d) \in [1..n -> FsValues]
    BY <1>2, <1>3
  <1>5. QED
    BY <1>1, <1>4, SeqDef

(* The steps that start a command. *)
LEMMA StartType ==
  ASSUME TypeOK, NEW c \in Procs, NEW p \in Proposals
  PROVE  /\ \A d \in Definitions : ClaimId(c, p, d) => TypeOK'
         /\ \A op \in Operations : Open(c, op, p) => TypeOK'
  <1>1. ASSUME NEW d \in Definitions, ClaimId(c, p, d) PROVE TypeOK'
    <2> DEFINE q == [Idle EXCEPT !.pc = "create", !.on = p, !.copy = NewRecord(d)]
    <2>1. NewRecord(d) \in Record
      <3>1. <<"draft">> \in Seq(ProposalStates) /\ <<>> \in Seq(FsValues)
        BY DEF ProposalStates
      <3>2. QED
        BY <3>1 DEF NewRecord, Record, ProposalStates
    <2>2. q \in Process /\ WellFormed(q)
      <3>1. q.pc = "create" /\ q.on = p /\ q.copy = NewRecord(d) /\ q.next = 1
        BY DEF Idle
      <3>2. q \in Process
        BY <2>1, IdleType DEF Process
      <3>3. QED
        BY <2>1, <3>1, <3>2 DEF WellFormed, Operations, Starting, ApplySteps
    <2>3. proc' \in [Procs -> Process] /\ \A e \in Procs : WellFormed(proc'[e])
      <3> HIDE DEF q
      <3>1. QED
        BY <1>1, <2>2, BecomeType DEF ClaimId, TypeOK, q
    <2>4. QED
      BY <1>1, <2>3 DEF TypeOK, ClaimId
  <1>2. ASSUME NEW op \in Operations, Open(c, op, p) PROVE TypeOK'
    <2> DEFINE q == [Idle EXCEPT !.pc = op, !.on = p, !.copy = store[p]]
    <2>1. store[p] \in Record
      BY <1>2 DEF Open, StateOf, Required, Operations, TypeOK
    <2>2. q \in Process /\ WellFormed(q)
      <3>1. q.pc = op /\ q.on = p /\ q.copy = store[p] /\ q.next = 1
        BY DEF Idle
      <3>2. q \in Process
        BY <2>1, IdleType DEF Process
      <3>3. QED
        BY <2>1, <3>1, <3>2 DEF WellFormed, Operations, Starting, ApplySteps
    <2>3. proc' \in [Procs -> Process] /\ \A e \in Procs : WellFormed(proc'[e])
      BY <1>2, <2>2, BecomeType DEF Open, TypeOK
    <2>4. lock' \in [Proposals -> Procs \cup {None}]
      BY <1>2 DEF Open, TypeOK
    <2>5. QED
      BY <1>2, <2>3, <2>4 DEF TypeOK, Open
  <1>3. QED
    BY <1>1, <1>2

(* The commands that change only the record. *)
LEMMA RecordStepType ==
  ASSUME TypeOK, NEW c \in Procs,
         \/ WriteDraft(c) \/ Classify(c) \/ Approve(c) \/ Reject(c)
         \/ Commit(c) \/ Finish(c)
  PROVE  TypeOK'
  <1> DEFINE r == proc[c].copy
  <1>1. /\ proc[c].pc # "idle" /\ r \in Record /\ proc[c].on \in Proposals
        /\ r.actions \in Definitions
    BY RunningType DEF WriteDraft, Classify, Approve, Reject, Commit, Finish
  <1>2. fs \in [Paths -> FsValues] /\ trouble \in Nat
    BY DEF TypeOK
  <1>3. disturbed' \in [Proposals -> SUBSET Paths]
    BY DEF TypeOK, WriteDraft, Classify, Approve, Reject, Commit, Finish
  <1>4. CASE WriteDraft(c)
    BY <1>1, <1>2, <1>3, <1>4, ConcludeType DEF WriteDraft
  <1>5. CASE Classify(c)
    <2> DEFINE s == [r EXCEPT !.classified = r.actions, !.targets = Observed(r.actions),
                              !.recovery = "planned"]
    <2>1. Observed(r.actions) \in Seq(FsValues)
      BY <1>1, <1>2, ObservedType
    <2>2. s \in Record
      BY <1>1, <2>1 DEF Record
    <2>3. Transition(s, "classified") \in Record
      BY <2>2, TransitionType DEF ProposalStates
    <2>4. QED
      BY <1>1, <1>2, <1>3, <1>5, <2>3, ConcludeType DEF Classify
  <1>6. CASE Approve(c)
    <2>1. [r EXCEPT !.approved = r.classified] \in Record
      BY <1>1 DEF Record
    <2>2. Transition([r EXCEPT !.approved = r.classified], "approved") \in Record
      BY <2>1, TransitionType DEF ProposalStates
    <2>3. QED
      BY <1>1, <1>2, <1>3, <1>6, <2>2, ConcludeType DEF Approve
  <1>7. CASE Reject(c)
    <2>1. Transition(r, "rejected") \in Record
      BY <1>1, TransitionType DEF ProposalStates
    <2>2. QED
      BY <1>1, <1>2, <1>3, <1>7, <2>1, ConcludeType DEF Reject
  <1>8. CASE Commit(c)
    <2>1. [r EXCEPT !.recovery = "available"] \in Record
      BY <1>1 DEF Record
    <2>2. Transition([r EXCEPT !.recovery = "available"], "committed") \in Record
      BY <2>1, TransitionType DEF ProposalStates
    <2>3. QED
      BY <1>1, <1>2, <1>3, <1>8, <2>2, ConcludeType DEF Commit
  <1>9. CASE Finish(c)
    <2> DEFINE s == [r EXCEPT !.recovery = IF proc[c].clean THEN "restored" ELSE "failed"]
               to == IF proc[c].clean THEN "rolled_back" ELSE "failed"
    <2>1. s \in Record /\ to \in ProposalStates
      BY <1>1 DEF Record, ProposalStates
    <2>2. Transition(s, to) \in Record
      BY <2>1, TransitionType
    <2>3. QED
      BY <1>1, <1>2, <1>3, <1>9, <2>2, ConcludeType DEF Finish
  <1>10. QED
    BY <1>4, <1>5, <1>6, <1>7, <1>8, <1>9

(* The steps of a promotion before its first action. *)
LEMMA BeginType ==
  ASSUME TypeOK, NEW c \in Procs,
         \/ Reinspect(c) \/ AssessBefore(c)
         \/ Begin(c) \/ Prepare(c) \/ PrepareFails(c)
  PROVE  TypeOK'
  <1> DEFINE q == proc[c]
  <1>1. /\ q.pc # "idle" /\ q \in Process /\ WellFormed(q)
        /\ q.on \in Proposals /\ q.copy \in Record
    BY RunningType DEF Reinspect, AssessBefore, Begin, Prepare, PrepareFails
  <1>2. CASE Begin(c)
    <2> DEFINE r == Transition(q.copy, "applying")
    <2>1. r \in Record
      BY <1>1, TransitionType DEF ProposalStates
    <2> DEFINE t == [q EXCEPT !.pc = "prepare", !.copy = r]
    <2>3. Become(c, t)
      BY <1>2 DEF Begin
    <2> HIDE DEF r
    <2>4. t \in Process /\ t.pc = "prepare" /\ t.on = q.on /\ t.copy = r /\ t.next = q.next
      BY <1>1, <2>1 DEF Process, PromotionSteps, Starting
    <2>5. WellFormed(t)
      BY <1>1, <1>2, <2>1, <2>4 DEF WellFormed, Begin, Operations, Starting, ApplySteps
    <2>6. proc' \in [Procs -> Process] /\ \A e \in Procs : WellFormed(proc'[e])
      BY <2>3, <2>4, <2>5, BecomeType DEF TypeOK
    <2>7. store' \in [Proposals -> Record \cup {None}]
      BY <1>2, <2>1 DEF Begin, Save, TypeOK, r
    <2>8. QED
      BY <1>2, <2>6, <2>7 DEF Begin, TypeOK
  <1>3. CASE Prepare(c)
    <2> DEFINE r == [q.copy EXCEPT !.recovery = "ready"]
               t == [q EXCEPT !.pc = "apply", !.copy = r]
    <2>1. r \in Record /\ r.actions = q.copy.actions
      BY <1>1 DEF Record
    <2>2. 1 \in DOMAIN r.actions
      BY <1>1, <2>1, DefinitionType DEF Record
    <2> HIDE DEF r
    <2>3. t \in Process /\ t.pc = "apply" /\ t.on = q.on /\ t.copy = r /\ t.next = q.next
      BY <1>1, <2>1 DEF Process, PromotionSteps, Starting, ApplySteps
    <2>4. WellFormed(t)
      BY <1>1, <1>3, <2>1, <2>2, <2>3 DEF WellFormed, Prepare, Operations, Starting, ApplySteps
    <2>5. proc' \in [Procs -> Process] /\ \A e \in Procs : WellFormed(proc'[e])
      BY <1>3, <2>3, <2>4, BecomeType DEF TypeOK, Prepare, r
    <2>6. store' \in [Proposals -> Record \cup {None}]
      BY <1>3, <2>1 DEF Prepare, Save, TypeOK, r
    <2>7. QED
      BY <1>3, <2>5, <2>6 DEF Prepare, TypeOK
  <1>4. CASE PrepareFails(c)
    <2> DEFINE t == [q EXCEPT !.pc = "finish"]
    <2>1. t \in Process /\ t.pc = "finish" /\ t.on = q.on /\ t.copy = q.copy
      BY <1>1 DEF Process, PromotionSteps, Starting
    <2>2. WellFormed(t)
      BY <1>1, <2>1 DEF WellFormed, Operations, Starting, ApplySteps
    <2>3. trouble' \in Nat
      BY <1>4 DEF PrepareFails, Trouble, TypeOK
    <2>4. QED
      BY <1>4, <2>1, <2>2, <2>3, AdvanceType DEF PrepareFails, TypeOK
  <1>5. CASE Reinspect(c)
    <2> DEFINE t == [q EXCEPT !.pc = "baseline"]
    <2>1. t \in Process /\ t.pc = "baseline" /\ t.on = q.on /\ t.copy = q.copy /\ t.next = q.next
      BY <1>1 DEF Process, PromotionSteps, Starting
    <2>2. WellFormed(t)
      BY <1>1, <1>5, <2>1 DEF WellFormed, Reinspect, Operations, Starting, ApplySteps
    <2>3. disturbed' \in [Proposals -> SUBSET Paths]
      BY <1>1, <1>5 DEF Reinspect, TypeOK
    <2>4. QED
      BY <1>5, <2>1, <2>2, <2>3, AdvanceType DEF Reinspect, TypeOK
  <1>6. CASE AssessBefore(c)
    <2>1. PICK before \in {None, Failing} :
            Become(c, [q EXCEPT !.pc = "start", !.before = before])
      BY <1>6 DEF AssessBefore
    <2> DEFINE t == [q EXCEPT !.pc = "start", !.before = before]
    <2>2. before \in (SUBSET Paths) \cup {None}
      BY DEF Failing
    <2>3. t \in Process /\ t.pc = "start" /\ t.on = q.on /\ t.copy = q.copy /\ t.next = q.next
      BY <1>1, <2>2 DEF Process, PromotionSteps, Starting
    <2>4. WellFormed(t)
      BY <1>1, <1>6, <2>3 DEF WellFormed, AssessBefore, Operations, Starting, ApplySteps
    <2>5. QED
      BY <1>6, <2>1, <2>3, <2>4, AdvanceType DEF AssessBefore, TypeOK
  <1>7. QED
    BY <1>2, <1>3, <1>4, <1>5, <1>6

(* The steps of apply_actions. *)
LEMMA ApplyType ==
  ASSUME TypeOK, NEW c \in Procs,
         \/ KeepPath(c) \/ MakeDirectory(c) \/ SecureDirectory(c)
         \/ BackUp(c) \/ PlanRemoval(c) \/ ReplaceFile(c) \/ ActionFails(c)
  PROVE  TypeOK'
  <1> DEFINE q == proc[c]
             x == Current(c).path
  <1>1. q.pc \in ApplySteps
    BY DEF KeepPath, MakeDirectory, SecureDirectory, BackUp, PlanRemoval, ReplaceFile,
           ActionFails, ApplySteps
  <1>2. /\ q \in Process /\ WellFormed(q) /\ q.on \in Proposals /\ x \in Paths
        /\ Current(c).type = "write" => Current(c).content \in FsValues
        /\ q.copy \in Record /\ q.next \in DOMAIN q.copy.actions
    BY <1>1, CurrentType DEF WellFormed, ApplySteps
  <1>3. Current(c) = q.copy.actions[q.next]
    BY DEF Current
  <1>4. /\ fs \in [Paths -> FsValues] /\ backup \in [Proposals -> [Paths -> FsValues]]
        /\ trouble \in Nat /\ disturbed \in [Proposals -> SUBSET Paths]
    BY DEF TypeOK
  <1>5. {"no_change", "remove_created_directory", "restore_backup",
         "remove_created_file", q.strategy} \subseteq Strategies
    BY <1>2 DEF Strategies, Process
  <1>6. \A s \in Strategies : Completed(q, s) \in Process /\ WellFormed(Completed(q, s))
    BY <1>1, <1>2, CompletedType
  (* A state q with another counter and strategy, still at the same action. *)
  <1>7. ASSUME NEW s \in Strategies, NEW pc \in ApplySteps,
               pc = "replace" => Current(c).type = "write"
        PROVE  LET t == [q EXCEPT !.pc = pc, !.strategy = s] IN t \in Process /\ WellFormed(t)
    <2> DEFINE t == [q EXCEPT !.pc = pc, !.strategy = s]
    <2>1. /\ t \in Process /\ t.pc = pc /\ t.on = q.on /\ t.copy = q.copy
          /\ t.next = q.next
      BY <1>2 DEF Process, PromotionSteps, Starting
    <2> HIDE DEF t
    <2>2. WellFormed(t)
      BY <1>2, <1>3, <1>7, <2>1 DEF WellFormed, Operations, Starting, ApplySteps
    <2>3. QED
      BY <2>1, <2>2 DEF t
  <1>8. CASE KeepPath(c)
    BY <1>4, <1>5, <1>6, <1>8, AdvanceType DEF KeepPath
  <1>9. CASE MakeDirectory(c)
    <2>1. fs' \in [Paths -> FsValues] /\ disturbed' \in [Proposals -> SUBSET Paths]
      BY <1>2, <1>9, SetPathType DEF MakeDirectory, FsValues
    <2>2. [q EXCEPT !.pc = "chmod"] = [q EXCEPT !.pc = "chmod", !.strategy = q.strategy]
      BY <1>2 DEF Process
    <2>3. [q EXCEPT !.pc = "chmod"] \in Process /\ WellFormed([q EXCEPT !.pc = "chmod"])
      BY <1>5, <1>7, <2>2 DEF ApplySteps
    <2>4. QED
      BY <1>4, <1>9, <2>1, <2>3, AdvanceType DEF MakeDirectory
  <1>10. CASE SecureDirectory(c)
    BY <1>4, <1>5, <1>6, <1>10, AdvanceType DEF SecureDirectory
  <1>11. CASE BackUp(c)
    <2>1. fs[x] \in FsValues
      BY <1>2, <1>4
    <2>2. backup' \in [Proposals -> [Paths -> FsValues]]
      BY <1>2, <1>4, <1>11, <2>1 DEF BackUp
    <2>3. LET t == [q EXCEPT !.pc = "replace", !.strategy = "restore_backup"]
          IN  t \in Process /\ WellFormed(t)
      BY <1>5, <1>7, <1>11 DEF BackUp, ApplySteps
    <2>4. QED
      BY <1>4, <1>11, <2>2, <2>3, AdvanceType DEF BackUp
  <1>12. CASE PlanRemoval(c)
    <2>1. LET t == [q EXCEPT !.pc = "replace", !.strategy = "remove_created_file"]
          IN  t \in Process /\ WellFormed(t)
      BY <1>5, <1>7, <1>12 DEF PlanRemoval, ApplySteps
    <2>2. QED
      BY <1>4, <1>12, <2>1, AdvanceType DEF PlanRemoval
  <1>13. CASE ReplaceFile(c)
    <2>1. Current(c).content \in FsValues
      BY <1>2, <1>3, <1>13 DEF ReplaceFile, WellFormed
    <2>2. fs' \in [Paths -> FsValues] /\ disturbed' \in [Proposals -> SUBSET Paths]
      BY <1>2, <1>13, <2>1, SetPathType DEF ReplaceFile
    <2>3. QED
      BY <1>4, <1>5, <1>6, <1>13, <2>2, AdvanceType DEF ReplaceFile
  <1>14. CASE ActionFails(c)
    <2>1. trouble' \in Nat
      BY <1>4, <1>14 DEF ActionFails, Trouble
    <2>2. RollingBack(q) \in Process /\ WellFormed(RollingBack(q))
      BY <1>1, <1>2, RollingBackType DEF ApplySteps
    <2>3. QED
      BY <1>4, <1>14, <2>1, <2>2, AdvanceType DEF ActionFails
  <1>15. QED
    BY <1>8, <1>9, <1>10, <1>11, <1>12, <1>13, <1>14

(* The steps after the actions: verification, assessment and rollback. *)
LEMMA SettleType ==
  ASSUME TypeOK, NEW c \in Procs, Verify(c) \/ Assess(c) \/ Undo(c) \/ UndoFails(c)
  PROVE  TypeOK'
  <1> DEFINE q == proc[c]
  <1>1. /\ q \in Process /\ WellFormed(q) /\ q.on \in Proposals /\ q.copy \in Record
        /\ q.pc # "idle"
    BY RunningType DEF Verify, Assess, Undo, UndoFails
  <1>2. /\ fs \in [Paths -> FsValues] /\ backup \in [Proposals -> [Paths -> FsValues]]
        /\ trouble \in Nat /\ disturbed \in [Proposals -> SUBSET Paths]
    BY DEF TypeOK
  <1>3. RollingBack(q) \in Process /\ WellFormed(RollingBack(q))
    BY <1>1, RollingBackType
  <1>4. CASE Verify(c)
    <2> DEFINE t == [q EXCEPT !.pc = "assess"]
    <2>1. t \in Process /\ t.pc = "assess" /\ t.on = q.on /\ t.copy = q.copy
      BY <1>1 DEF Process, PromotionSteps, Starting
    <2>2. WellFormed(t)
      BY <1>1, <2>1 DEF WellFormed, Operations, Starting, ApplySteps
    <2>3. Become(c, t) \/ Become(c, RollingBack(q))
      BY <1>4 DEF Verify
    <2>4. QED
      BY <1>2, <1>3, <1>4, <2>1, <2>2, <2>3, AdvanceType DEF Verify
  <1>5. CASE Assess(c)
    <2>1. PICK after \in {None, Failing} :
            \/ Become(c, [q EXCEPT !.pc = "commit", !.after = after])
            \/ Become(c, RollingBack(q))
      BY <1>5 DEF Assess
    <2> DEFINE t == [q EXCEPT !.pc = "commit", !.after = after]
    <2>2. after \in (SUBSET Paths) \cup {None}
      BY DEF Failing
    <2>3. t \in Process /\ t.pc = "commit" /\ t.on = q.on /\ t.copy = q.copy
      BY <1>1, <2>2 DEF Process, PromotionSteps, Starting
    <2>4. WellFormed(t)
      BY <1>1, <2>3 DEF WellFormed, Operations, Starting, ApplySteps
    <2>5. QED
      BY <1>2, <1>3, <1>5, <2>1, <2>3, <2>4, AdvanceType DEF Assess
  <1>6. \A ok \in BOOLEAN : q.pc = "rollback" =>
          AfterUndo(q, ok) \in Process /\ WellFormed(AfterUndo(q, ok))
    BY <1>1, AfterUndoType
  <1>7. CASE Undo(c)
    <2> DEFINE x == UndoRecord(c).path
    <2>1. UndoRecord(c) \in Applied
      <3>1. q.undo \in Seq(Applied) /\ q.undo # <<>>
        BY <1>1, <1>7 DEF Process, WellFormed, Undo
      <3>2. QED
        BY <3>1, HeadTailProperties DEF UndoRecord
    <2>2. x \in Paths
      BY <2>1 DEF Applied
    <2>3. RestoredValue(c) \in FsValues
      <3>1. fs[x] \in FsValues /\ backup[q.on][x] \in FsValues /\ Absent \in FsValues
        BY <1>1, <1>2, <2>2 DEF FsValues
      <3>2. QED
        BY <3>1 DEF RestoredValue
    <2>4. fs' \in [Paths -> FsValues] /\ disturbed' \in [Proposals -> SUBSET Paths]
      BY <1>7, <2>2, <2>3, SetPathType DEF Undo
    <2>5. QED
      BY <1>2, <1>6, <1>7, <2>4, AdvanceType DEF Undo
  <1>8. CASE UndoFails(c)
    <2>1. trouble' \in Nat
      BY <1>2, <1>8 DEF UndoFails, Trouble
    <2>2. QED
      BY <1>2, <1>6, <1>8, <2>1, AdvanceType DEF UndoFails
  <1>9. QED
    BY <1>4, <1>5, <1>7, <1>8

(* Refusals, failed saves, crashes and the edits of other programs. *)
LEMMA DisturbanceType ==
  ASSUME TypeOK
  PROVE  /\ \A c \in Procs : Refuse(c) \/ SaveFails(c) \/ Crash(c) => TypeOK'
         /\ \A x \in Paths, v \in EditValues : EditFile(x, v) => TypeOK'
         /\ \A p \in Proposals, d \in Definitions : EditRecord(p, d) => TypeOK'
  <1>1. ASSUME NEW c \in Procs, Refuse(c) \/ SaveFails(c) \/ Crash(c) PROVE TypeOK'
    <2>1. /\ Release(c) /\ UNCHANGED <<dir, store, backup, fs, disturbed>>
          /\ trouble' \in Nat
      BY <1>1 DEF Refuse, SaveFails, Crash, Trouble, TypeOK
    <2>2. QED
      BY <2>1, QuitType
  <1>2. ASSUME NEW x \in Paths, NEW v \in EditValues, EditFile(x, v) PROVE TypeOK'
    <2>1. fs' \in [Paths -> FsValues] /\ disturbed' \in [Proposals -> SUBSET Paths]
      BY <1>2, SetPathType, ConstantsAssumption DEF EditFile
    <2>2. QED
      BY <1>2, <2>1 DEF EditFile, Trouble, TypeOK
  <1>3. ASSUME NEW p \in Proposals, NEW d \in Definitions, EditRecord(p, d) PROVE TypeOK'
    <2>1. [store[p] EXCEPT !.actions = d] \in Record
      <3> DEFINE r == store[p]
      <3>1. r \in Record
        BY <1>3 DEF EditRecord, TypeOK
      <3> HIDE DEF r
      <3>2. [r EXCEPT !.actions = d] \in Record
        BY <3>1 DEF Record
      <3>3. QED
        BY <3>2 DEF r
    <2>2. store' = [store EXCEPT ![p] = [store[p] EXCEPT !.actions = d]]
      BY <1>3 DEF EditRecord
    <2>3. store' \in [Proposals -> Record \cup {None}]
      BY <2>1, <2>2 DEF TypeOK
    <2>4. QED
      BY <1>3, <2>3 DEF EditRecord, Trouble, TypeOK
  <1>4. QED
    BY <1>1, <1>2, <1>3

(* No step of a command or of anybody else breaks a type. *)
LEMMA NextType == TypeOK /\ [Next]_vars => TypeOK'
  <1> SUFFICES ASSUME TypeOK, [Next]_vars PROVE TypeOK'
    OBVIOUS
  <1>1. CASE UNCHANGED vars
    BY <1>1 DEF TypeOK, vars
  <1>2. ASSUME NEW c \in Procs, Step(c) PROVE TypeOK'
    BY <1>2, RecordStepType, BeginType, ApplyType, SettleType, DisturbanceType DEF Step
  <1>3. ASSUME NEW c \in Procs, PrepareFails(c) \/ SaveFails(c) \/ Crash(c) PROVE TypeOK'
    BY <1>3, BeginType, DisturbanceType
  <1>4. QED
    BY <1>1, <1>2, <1>3, StartType, DisturbanceType DEF Next

(* In every behaviour the variables keep their types, and the loops of     *)
(* apply_actions and rollback_actions stay within their lists.             *)
THEOREM TypeCorrect == Spec => []TypeOK
  BY InitType, NextType, PTL DEF Spec

-----------------------------------------------------------------------------
(* No lock is left behind.                                                 *)

(* Whoever has the lock of a proposal is at work on it: a command that     *)
(* refused, failed or died has none (the end of a store.lock block, the    *)
(* death of the process).                                                  *)
LocksAreHeld ==
  \A p \in Proposals : lock[p] # None =>
    /\ proc[lock[p]].pc \in Operations \cup PromotionSteps
    /\ proc[lock[p]].on = p

(* A step inside a command keeps the lock of the command and no other.     *)
LEMMA AdvanceLocks ==
  ASSUME TypeOK, LocksAreHeld, NEW c \in Procs, NEW q, Become(c, q),
         q.pc \in Operations \cup PromotionSteps, q.on = proc[c].on, UNCHANGED lock
  PROVE  LocksAreHeld'
  <1>1. proc'[c] = q /\ \A e \in Procs \ {c} : proc'[e] = proc[e]
    BY DEF Become, TypeOK
  <1>2. QED
    BY <1>1 DEF LocksAreHeld, TypeOK

(* A command that ends gives its lock back.                                *)
LEMMA ReleaseLocks ==
  ASSUME TypeOK, LocksAreHeld, NEW c \in Procs, Release(c)
  PROVE  LocksAreHeld'
  <1>1. \A e \in Procs \ {c} : proc'[e] = proc[e]
    BY DEF Release, Become, TypeOK
  <1>2. \A p \in Proposals : lock'[p] # None => lock'[p] = lock[p] /\ lock[p] # c
    BY DEF Release
  <1>3. QED
    BY <1>1, <1>2 DEF LocksAreHeld, TypeOK

(* A command that starts has no lock before it opens a proposal.           *)
LEMMA StartLocks ==
  ASSUME TypeOK, LocksAreHeld, NEW c \in Procs, NEW p \in Proposals
  PROVE  /\ \A d \in Definitions : ClaimId(c, p, d) => LocksAreHeld'
         /\ \A op \in Operations : Open(c, op, p) => LocksAreHeld'
  <1>1. proc[c].pc = "idle" => \A r \in Proposals : lock[r] # c
    BY ConstantsAssumption DEF LocksAreHeld, Operations, PromotionSteps, Starting, ApplySteps
  <1>2. ASSUME NEW d \in Definitions, ClaimId(c, p, d) PROVE LocksAreHeld'
    <2>1. \A e \in Procs \ {c} : proc'[e] = proc[e]
      BY <1>2 DEF ClaimId, Become, TypeOK
    <2>2. QED
      BY <1>1, <1>2, <2>1 DEF ClaimId, LocksAreHeld, TypeOK
  <1>3. ASSUME NEW op \in Operations, Open(c, op, p) PROVE LocksAreHeld'
    <2> DEFINE q == [Idle EXCEPT !.pc = op, !.on = p, !.copy = store[p]]
    <2>1. q.pc = op /\ q.on = p
      BY DEF Idle
    <2>2. proc'[c] = q /\ \A e \in Procs \ {c} : proc'[e] = proc[e]
      BY <1>3 DEF Open, Become, TypeOK
    <2>3. lock'[p] = c /\ \A r \in Proposals \ {p} : lock'[r] = lock[r]
      BY <1>3 DEF Open, TypeOK
    <2> HIDE DEF q
    <2>4. QED
      BY <1>1, <1>3, <2>1, <2>2, <2>3 DEF Open, LocksAreHeld, TypeOK
  <1>4. QED
    BY <1>2, <1>3

(* The steps of a promotion between its first and its last lead on in the  *)
(* promotion of the same proposal.                                         *)
LEMMA PromotionContinues ==
  ASSUME TypeOK, NEW c \in Procs,
         \/ Reinspect(c) \/ AssessBefore(c)
         \/ Begin(c) \/ Prepare(c) \/ PrepareFails(c)
         \/ KeepPath(c) \/ MakeDirectory(c) \/ SecureDirectory(c)
         \/ BackUp(c) \/ PlanRemoval(c) \/ ReplaceFile(c) \/ ActionFails(c)
         \/ Verify(c) \/ Assess(c) \/ Undo(c) \/ UndoFails(c)
  PROVE  \E t : Become(c, t) /\ t.pc \in PromotionSteps /\ t.on = proc[c].on
  <1> DEFINE q == proc[c]
  <1>1. q \in Process
    BY DEF TypeOK
  <1>2. /\ RollingBack(q).pc \in PromotionSteps /\ RollingBack(q).on = q.on
        /\ \A s : Completed(q, s).pc \in PromotionSteps /\ Completed(q, s).on = q.on
        /\ \A ok : AfterUndo(q, ok).pc \in PromotionSteps /\ AfterUndo(q, ok).on = q.on
    BY <1>1 DEF RollingBack, Completed, AfterUndo, Process, PromotionSteps, Starting, ApplySteps
  <1>3. CASE Begin(c)
    <2>1. LET t == [q EXCEPT !.pc = "prepare", !.copy = Transition(q.copy, "applying")]
          IN  t.pc \in PromotionSteps /\ t.on = q.on
      BY <1>1 DEF Process, PromotionSteps
    <2>2. QED
      BY <1>3, <2>1 DEF Begin
  <1>4. CASE Prepare(c)
    <2> DEFINE t == [q EXCEPT !.pc = "apply", !.copy = [q.copy EXCEPT !.recovery = "ready"]]
    <2>1. t.pc \in PromotionSteps /\ t.on = q.on
      BY <1>1 DEF Process, PromotionSteps, Starting, ApplySteps
    <2>2. QED
      BY <1>4, <2>1 DEF Prepare
  <1>5. CASE PrepareFails(c)
    <2>1. LET t == [q EXCEPT !.pc = "finish"] IN t.pc \in PromotionSteps /\ t.on = q.on
      BY <1>1 DEF Process, PromotionSteps, Starting
    <2>2. QED
      BY <1>5, <2>1 DEF PrepareFails
  <1>6. CASE MakeDirectory(c)
    <2>1. LET t == [q EXCEPT !.pc = "chmod"] IN t.pc \in PromotionSteps /\ t.on = q.on
      BY <1>1 DEF Process, PromotionSteps, Starting, ApplySteps
    <2>2. QED
      BY <1>6, <2>1 DEF MakeDirectory
  <1>7. CASE BackUp(c) \/ PlanRemoval(c)
    <2>1. \A s : LET t == [q EXCEPT !.pc = "replace", !.strategy = s]
                 IN  t.pc \in PromotionSteps /\ t.on = q.on
      BY <1>1 DEF Process, PromotionSteps, Starting, ApplySteps
    <2>2. QED
      BY <1>7, <2>1 DEF BackUp, PlanRemoval
  <1>8. CASE KeepPath(c) \/ SecureDirectory(c) \/ ReplaceFile(c)
    BY <1>2, <1>8 DEF KeepPath, SecureDirectory, ReplaceFile
  <1>9. CASE ActionFails(c)
    BY <1>2, <1>9 DEF ActionFails
  <1>10. CASE Verify(c)
    <2>1. LET t == [q EXCEPT !.pc = "assess"] IN t.pc \in PromotionSteps /\ t.on = q.on
      BY <1>1 DEF Process, PromotionSteps, Starting
    <2>2. QED
      BY <1>2, <1>10, <2>1 DEF Verify
  <1>11. CASE Assess(c)
    <2>1. \A after : LET t == [q EXCEPT !.pc = "commit", !.after = after]
                     IN  t.pc \in PromotionSteps /\ t.on = q.on
      BY <1>1 DEF Process, PromotionSteps, Starting
    <2>2. QED
      BY <1>2, <1>11, <2>1 DEF Assess
  <1>12. CASE Undo(c) \/ UndoFails(c)
    BY <1>2, <1>12 DEF Undo, UndoFails
  <1>13. CASE Reinspect(c)
    <2>1. LET t == [q EXCEPT !.pc = "baseline"] IN t.pc \in PromotionSteps /\ t.on = q.on
      BY <1>1 DEF Process, PromotionSteps, Starting
    <2>2. QED
      BY <1>13, <2>1 DEF Reinspect
  <1>14. CASE AssessBefore(c)
    <2>1. \A before : LET t == [q EXCEPT !.pc = "start", !.before = before]
                      IN  t.pc \in PromotionSteps /\ t.on = q.on
      BY <1>1 DEF Process, PromotionSteps, Starting
    <2>2. QED
      BY <1>14, <2>1 DEF AssessBefore
  <1>15. QED
    BY <1>3, <1>4, <1>5, <1>6, <1>7, <1>8, <1>9, <1>10, <1>11, <1>12, <1>13, <1>14

(* The lock stays with the promotion. *)
LEMMA PromotionLocks ==
  ASSUME TypeOK, LocksAreHeld, NEW c \in Procs,
         \/ Reinspect(c) \/ AssessBefore(c)
         \/ Begin(c) \/ Prepare(c) \/ PrepareFails(c)
         \/ KeepPath(c) \/ MakeDirectory(c) \/ SecureDirectory(c)
         \/ BackUp(c) \/ PlanRemoval(c) \/ ReplaceFile(c) \/ ActionFails(c)
         \/ Verify(c) \/ Assess(c) \/ Undo(c) \/ UndoFails(c)
  PROVE  LocksAreHeld'
  <1>1. PICK t : Become(c, t) /\ t.pc \in PromotionSteps /\ t.on = proc[c].on
    BY PromotionContinues
  <1>2. UNCHANGED lock
    BY DEF Reinspect, AssessBefore, Begin, Prepare, PrepareFails, KeepPath, MakeDirectory,
           SecureDirectory, BackUp, PlanRemoval, ReplaceFile, ActionFails, Verify, Assess, Undo,
           UndoFails
  <1>3. QED
    BY <1>1, <1>2, AdvanceLocks

(* No step of a command or of anybody else strands a lock.                 *)
LEMMA NextLocks == TypeOK /\ LocksAreHeld /\ [Next]_vars => LocksAreHeld'
  <1> SUFFICES ASSUME TypeOK, LocksAreHeld, [Next]_vars PROVE LocksAreHeld'
    OBVIOUS
  <1>1. CASE UNCHANGED vars
    BY <1>1 DEF LocksAreHeld, vars
  <1>2. ASSUME NEW c \in Procs,
               \/ WriteDraft(c) \/ Classify(c) \/ Approve(c) \/ Reject(c) \/ Refuse(c)
               \/ Commit(c) \/ Finish(c) \/ SaveFails(c) \/ Crash(c)
        PROVE  LocksAreHeld'
    <2>1. Release(c)
      BY <1>2 DEF WriteDraft, Classify, Approve, Reject, Refuse, Commit, Finish, SaveFails,
                  Crash, Conclude
    <2>2. QED
      BY <2>1, ReleaseLocks
  <1>3. ASSUME NEW c \in Procs, Step(c) \/ PrepareFails(c) \/ SaveFails(c) \/ Crash(c)
        PROVE  LocksAreHeld'
    BY <1>2, <1>3, PromotionLocks DEF Step
  <1>4. ASSUME NEW x \in Paths, NEW v \in EditValues, EditFile(x, v) PROVE LocksAreHeld'
    BY <1>4 DEF EditFile, LocksAreHeld
  <1>5. ASSUME NEW p \in Proposals, NEW d \in Definitions, EditRecord(p, d)
        PROVE  LocksAreHeld'
    BY <1>5 DEF EditRecord, LocksAreHeld
  <1>6. QED
    BY <1>1, <1>3, <1>4, <1>5, StartLocks DEF Next

(* In every behaviour, crashes and failed saves included, the process that *)
(* has the lock of a proposal runs a command on this proposal.             *)
THEOREM LocksAreAlwaysHeld == Spec => []LocksAreHeld
  <1>1. Init => LocksAreHeld
    BY DEF Init, LocksAreHeld
  <1>2. QED
    BY <1>1, NextLocks, TypeCorrect, PTL DEF Spec

-----------------------------------------------------------------------------
(* No command runs forever.                                                *)

PlannedCount(q) == Len(q.copy.actions)
DoneCount(q) == Len(q.applied)

(* How many steps a command may still take: three for each action that it  *)
(* has not completed, one for each that it may have to undo, and those     *)
(* before and after the loops of apply_actions and rollback_actions.       *)
StepsLeft(q) ==
  LET n == PlannedCount(q)
      k == DoneCount(q)
  IN CASE q.pc = "idle"                -> 0
       [] q.pc = "promote"             -> k + 3 * n + 7
       [] q.pc = "baseline"            -> k + 3 * n + 6
       [] q.pc = "start"               -> k + 3 * n + 5
       [] q.pc = "prepare"             -> k + 3 * n + 4
       [] q.pc = "apply"               -> k + 3 * (n - q.next) + 6
       [] q.pc \in {"chmod", "replace"} -> k + 3 * (n - q.next) + 5
       [] q.pc = "verify"              -> k + 3
       [] q.pc = "assess"              -> k + 2
       [] q.pc = "rollback"            -> Len(q.undo) + 1
       [] q.pc \in {"create", "classify", "approve", "reject", "commit", "finish"} -> 1

(* Whatever command c does on its way brings its end nearer, and nobody    *)
(* else moves it.                                                          *)
Onward(c) ==
  proc[c].pc # "idle" =>
    /\ proc'[c] # proc[c] => StepsLeft(proc'[c]) < StepsLeft(proc[c])
    /\ Step(c) => StepsLeft(proc'[c]) < StepsLeft(proc[c])

(* The count, step by step.                                                *)
LEMMA StepsLeftAt ==
  ASSUME NEW q
  PROVE  LET n == PlannedCount(q)
             k == DoneCount(q)
         IN
         /\ q.pc = "idle"     => StepsLeft(q) = 0
         /\ q.pc = "promote"  => StepsLeft(q) = k + 3 * n + 7
         /\ q.pc = "baseline" => StepsLeft(q) = k + 3 * n + 6
         /\ q.pc = "start"    => StepsLeft(q) = k + 3 * n + 5
         /\ q.pc = "prepare"  => StepsLeft(q) = k + 3 * n + 4
         /\ q.pc = "apply"    => StepsLeft(q) = k + 3 * (n - q.next) + 6
         /\ q.pc = "chmod"    => StepsLeft(q) = k + 3 * (n - q.next) + 5
         /\ q.pc = "replace"  => StepsLeft(q) = k + 3 * (n - q.next) + 5
         /\ q.pc = "verify"   => StepsLeft(q) = k + 3
         /\ q.pc = "assess"   => StepsLeft(q) = k + 2
         /\ q.pc = "rollback" => StepsLeft(q) = Len(q.undo) + 1
         /\ q.pc \in {"create", "classify", "approve", "reject", "commit", "finish"} =>
              StepsLeft(q) = 1
  <1> DEFINE n == PlannedCount(q)
             k == DoneCount(q)
  <1>1. /\ q.pc = "idle"     => StepsLeft(q) = 0
        /\ q.pc = "promote"  => StepsLeft(q) = k + 3 * n + 7
        /\ q.pc = "baseline" => StepsLeft(q) = k + 3 * n + 6
        /\ q.pc = "start"    => StepsLeft(q) = k + 3 * n + 5
        /\ q.pc = "prepare"  => StepsLeft(q) = k + 3 * n + 4
    BY DEF StepsLeft
  <1>2. q.pc = "apply"    => StepsLeft(q) = k + 3 * (n - q.next) + 6
    BY DEF StepsLeft
  <1>3. /\ q.pc = "chmod"    => StepsLeft(q) = k + 3 * (n - q.next) + 5
        /\ q.pc = "replace"  => StepsLeft(q) = k + 3 * (n - q.next) + 5
    BY DEF StepsLeft
  <1>4. /\ q.pc = "verify"   => StepsLeft(q) = k + 3
        /\ q.pc = "assess"   => StepsLeft(q) = k + 2
        /\ q.pc = "rollback" => StepsLeft(q) = Len(q.undo) + 1
    BY DEF StepsLeft
  <1>5. q.pc \in {"create", "classify", "approve", "reject", "commit", "finish"} =>
          StepsLeft(q) = 1
    BY DEF StepsLeft
  <1>6. QED
    BY <1>1, <1>2, <1>3, <1>4, <1>5

(* The lists by which the steps of a command are counted.                  *)
LEMMA StepsLeftType ==
  ASSUME NEW q \in Process, WellFormed(q)
  PROVE  /\ DoneCount(q) \in Nat /\ Len(q.undo) \in Nat
         /\ q.pc # "idle" => PlannedCount(q) \in Nat \ {0}
         /\ q.pc \in ApplySteps => q.next \in 1..PlannedCount(q)
         /\ StepsLeft(q) \in Nat
         /\ q.pc # "idle" => StepsLeft(q) >= 1
  <1>1. DoneCount(q) \in Nat /\ Len(q.undo) \in Nat
    BY LenProperties DEF Process, DoneCount
  <1>2. q.pc # "idle" => q.copy.actions \in Definitions
    BY DEF WellFormed, Record
  <1>3. q.pc # "idle" =>
          /\ PlannedCount(q) \in Nat \ {0}
          /\ DOMAIN q.copy.actions = 1..PlannedCount(q)
    BY <1>2, DefinitionType DEF PlannedCount
  <1>4. q.pc \in ApplySteps => q.next \in 1..PlannedCount(q)
    BY <1>3 DEF WellFormed, ApplySteps
  <1>5. q.pc \in {"idle", "create"} \cup Operations \cup PromotionSteps
    BY DEF Process
  <1>6. StepsLeft(q) \in Nat /\ (q.pc # "idle" => StepsLeft(q) >= 1)
    <2>1. CASE q.pc \in ApplySteps
      BY <1>1, <1>3, <1>4, <2>1, StepsLeftAt DEF ApplySteps
    <2>2. CASE q.pc \in {"promote", "baseline", "start", "prepare"}
      <3> DEFINE n == PlannedCount(q)
                 k == DoneCount(q)
      <3>1. n \in Nat /\ k \in Nat
        BY <1>1, <1>3, <2>2
      <3>2. \/ StepsLeft(q) = k + 3 * n + 7 \/ StepsLeft(q) = k + 3 * n + 6
            \/ StepsLeft(q) = k + 3 * n + 5 \/ StepsLeft(q) = k + 3 * n + 4
        BY <2>2, StepsLeftAt
      <3> HIDE DEF n, k
      <3>3. QED
        BY <3>1, <3>2
    <2>3. CASE q.pc \notin ApplySteps \cup {"promote", "baseline", "start", "prepare"}
      BY <1>1, <1>5, <2>3, StepsLeftAt DEF Operations, PromotionSteps, Starting, ApplySteps
    <2>4. QED
      BY <2>1, <2>2, <2>3
  <1>7. QED
    BY <1>1, <1>3, <1>4, <1>6

(* A command that ends has no step left.                                   *)
LEMMA ReleaseOnward ==
  ASSUME TypeOK, NEW c \in Procs, proc[c].pc # "idle", Release(c)
  PROVE  StepsLeft(proc'[c]) < StepsLeft(proc[c])
  <1>1. proc'[c] = Idle
    BY DEF Release, Become, TypeOK
  <1>2. StepsLeft(Idle) = 0
    BY StepsLeftAt DEF Idle
  <1>3. StepsLeft(proc[c]) \in Nat /\ StepsLeft(proc[c]) >= 1
    BY StepsLeftType DEF TypeOK
  <1>4. QED
    BY <1>1, <1>2, <1>3

(* An action that is complete has one step to undo it, and three less to   *)
(* apply.                                                                  *)
LEMMA CompletedOnward ==
  ASSUME NEW q \in Process, WellFormed(q), q.pc \in ApplySteps, NEW s \in Strategies
  PROVE  StepsLeft(Completed(q, s)) < StepsLeft(q)
  <1> DEFINE t == Completed(q, s)
             a == [path |-> q.copy.actions[q.next].path, recovery |-> s]
             n == PlannedCount(q)
             k == DoneCount(q)
  <1>1. q.pc # "idle"
    BY DEF ApplySteps
  <1>2. k \in Nat /\ n \in Nat /\ q.next \in 1..n
    BY <1>1, StepsLeftType
  <1>3. /\ t.pc = IF q.next = n THEN "verify" ELSE "apply"
        /\ t.next = q.next + 1 /\ t.applied = Append(q.applied, a) /\ t.copy = q.copy
    BY DEF Completed, Process, PlannedCount
  <1>4. StepsLeft(t) \in Nat /\ StepsLeft(q) \in Nat
    BY CompletedType, StepsLeftType
  <1>5. DoneCount(t) = k + 1 /\ PlannedCount(t) = n
    BY <1>3 DEF Process, DoneCount, PlannedCount
  <1> HIDE DEF t, n, k
  <1>6. StepsLeft(t) <= k + 1 + 3 * (n - q.next) + 3
    <2>1. CASE q.next = n
      BY <1>2, <1>3, <1>5, <2>1, StepsLeftAt
    <2>2. CASE q.next # n
      <3>1. StepsLeft(t) = DoneCount(t) + 3 * (PlannedCount(t) - t.next) + 6
        BY <1>3, <2>2, StepsLeftAt
      <3>2. StepsLeft(t) = k + 1 + 3 * (n - (q.next + 1)) + 6
        BY <1>3, <1>5, <3>1
      <3>3. QED
        BY <1>2, <3>2
    <2>3. QED
      BY <2>1, <2>2
  <1>7. StepsLeft(q) >= k + 3 * (n - q.next) + 5
    <2>1. \/ StepsLeft(q) = k + 3 * (n - q.next) + 6
          \/ StepsLeft(q) = k + 3 * (n - q.next) + 5
      BY StepsLeftAt DEF ApplySteps, n, k
    <2>2. QED
      BY <1>2, <2>1
  <1>8. QED
    BY <1>2, <1>4, <1>6, <1>7 DEF t

(* The rollback takes a step for each complete action, and one to save.    *)
LEMMA RollingBackOnward ==
  ASSUME NEW q \in Process, WellFormed(q), q.pc \in ApplySteps \cup {"verify", "assess"}
  PROVE  StepsLeft(RollingBack(q)) < StepsLeft(q)
  <1> DEFINE t == RollingBack(q)
             n == PlannedCount(q)
             k == DoneCount(q)
  <1>1. q.pc # "idle"
    BY DEF ApplySteps
  <1>2. k \in Nat /\ n \in Nat /\ (q.pc \in ApplySteps => q.next \in 1..n)
    BY <1>1, StepsLeftType
  <1>3. /\ t.pc = IF q.applied = <<>> THEN "finish" ELSE "rollback"
        /\ t.undo = RollbackPlan(q.applied)
    BY DEF RollingBack, Process
  <1>4. Len(t.undo) = k
    <2>1. q.applied \in Seq(Applied)
      BY DEF Process
    <2>2. RollbackPlan(q.applied) = [i \in 1..k |-> q.applied[(k - i) + 1]]
      BY DEF RollbackPlan, Reverse, DoneCount
    <2>3. RollbackPlan(q.applied) \in Seq(Applied)
      BY <2>1, RollbackPlanType
    <2>4. DOMAIN RollbackPlan(q.applied) = 1..k
      BY <2>2
    <2>5. QED
      BY <1>2, <1>3, <2>3, <2>4, LenProperties
  <1> HIDE DEF t, n, k
  <1>5. StepsLeft(t) <= k + 1
    <2>1. StepsLeft(t) = 1 \/ StepsLeft(t) = Len(t.undo) + 1
      BY <1>3, StepsLeftAt
    <2>2. QED
      BY <1>2, <1>4, <2>1
  <1>6. StepsLeft(q) >= k + 2
    <2>1. CASE q.pc \in ApplySteps
      <3>1. \/ StepsLeft(q) = k + 3 * (n - q.next) + 6
            \/ StepsLeft(q) = k + 3 * (n - q.next) + 5
        BY <2>1, StepsLeftAt DEF ApplySteps, n, k
      <3>2. QED
        BY <1>2, <2>1, <3>1
    <2>2. CASE q.pc \in {"verify", "assess"}
      BY <1>2, <2>2, StepsLeftAt DEF n, k
    <2>3. QED
      BY <2>1, <2>2
  <1>7. QED
    BY <1>1, <1>2, <1>5, <1>6, StepsLeftType, RollingBackType DEF t

(* Each step of the rollback takes one entry off the list.                 *)
LEMMA AfterUndoOnward ==
  ASSUME NEW q \in Process, WellFormed(q), q.pc = "rollback", NEW ok \in BOOLEAN
  PROVE  StepsLeft(AfterUndo(q, ok)) < StepsLeft(q)
  <1> DEFINE t == AfterUndo(q, ok)
             m == Len(q.undo)
  <1>1. q.undo \in Seq(Applied) /\ q.undo # <<>>
    BY DEF Process, WellFormed
  <1>2. Len(Tail(q.undo)) = m - 1 /\ m \in Nat /\ m # 0
    BY <1>1, HeadTailProperties, EmptySeq
  <1>3. t.pc = (IF m = 1 THEN "finish" ELSE "rollback") /\ t.undo = Tail(q.undo)
    BY DEF AfterUndo, Process
  <1>4. StepsLeft(q) = m + 1
    BY StepsLeftAt
  <1> HIDE DEF t, m
  <1>5. StepsLeft(t) = IF m = 1 THEN 1 ELSE Len(t.undo) + 1
    BY <1>3, StepsLeftAt
  <1>6. Len(t.undo) = m - 1
    BY <1>2, <1>3
  <1>7. QED
    BY <1>2, <1>4, <1>5, <1>6 DEF t

(* The steps of a promotion before the outcome is saved.                   *)
LEMMA PromotionOnward ==
  ASSUME TypeOK, NEW c \in Procs,
         \/ Reinspect(c) \/ AssessBefore(c)
         \/ Begin(c) \/ Prepare(c) \/ PrepareFails(c)
         \/ KeepPath(c) \/ MakeDirectory(c) \/ SecureDirectory(c)
         \/ BackUp(c) \/ PlanRemoval(c) \/ ReplaceFile(c) \/ ActionFails(c)
         \/ Verify(c) \/ Assess(c) \/ Undo(c) \/ UndoFails(c)
  PROVE  StepsLeft(proc'[c]) < StepsLeft(proc[c])
  <1> DEFINE q == proc[c]
             n == PlannedCount(q)
             k == DoneCount(q)
  <1>1. q \in Process /\ WellFormed(q) /\ (q.pc # "idle" => q.copy \in Record)
    BY DEF TypeOK, WellFormed
  <1>2. q.pc # "idle"
    BY DEF Reinspect, AssessBefore, Begin, Prepare, PrepareFails, KeepPath, MakeDirectory,
           SecureDirectory, BackUp, PlanRemoval, ReplaceFile, ActionFails, Verify, Assess, Undo,
           UndoFails, ApplySteps
  <1>3. /\ k \in Nat /\ n \in Nat \ {0}
        /\ q.pc \in ApplySteps => q.next \in 1..n
    BY <1>1, <1>2, StepsLeftType
  <1>4. \A t : Become(c, t) => proc'[c] = t
    BY DEF Become, TypeOK
  <1>5. {"no_change", "remove_created_directory", q.strategy} \subseteq Strategies
    BY <1>1 DEF Strategies, Process
  <1>6. CASE Begin(c)
    <2> DEFINE r == Transition(q.copy, "applying")
    <2> DEFINE t == [q EXCEPT !.pc = "prepare", !.copy = r]
    <2>1. Become(c, t)
      BY <1>6 DEF Begin
    <2>2. r.actions = q.copy.actions
      BY <1>1, <1>2, TransitionType DEF ProposalStates
    <2> HIDE DEF r
    <2>3. t.pc = "prepare" /\ t.applied = q.applied /\ t.copy = r
      BY <1>1 DEF Process
    <2>4. proc'[c] = t
      BY <1>4, <2>1
    <2>5. DoneCount(t) = k /\ PlannedCount(t) = n
      BY <2>2, <2>3 DEF DoneCount, PlannedCount
    <2>6. StepsLeft(t) = k + 3 * n + 4 /\ StepsLeft(q) = k + 3 * n + 5
      <3>1. StepsLeft(t) = DoneCount(t) + 3 * PlannedCount(t) + 4
        BY <2>3, StepsLeftAt
      <3>2. StepsLeft(t) = k + 3 * n + 4
        BY <2>5, <3>1
      <3>3. q.pc = "start"
        BY <1>6 DEF Begin
      <3>4. QED
        BY <3>2, <3>3, StepsLeftAt
    <2>7. QED
      BY <1>3, <2>4, <2>6
  <1>7. CASE Prepare(c)
    <2> DEFINE r == [q.copy EXCEPT !.recovery = "ready"]
               t == [q EXCEPT !.pc = "apply", !.copy = r]
    <2>1. r.actions = q.copy.actions
      BY <1>1, <1>2 DEF Record
    <2>2. proc'[c] = t
      BY <1>4, <1>7 DEF Prepare
    <2> HIDE DEF r
    <2>3. t.pc = "apply" /\ t.applied = q.applied /\ t.copy = r /\ t.next = q.next
      BY <1>1 DEF Process
    <2>4. q.next = 1
      BY <1>1, <1>7 DEF Prepare, WellFormed
    <2>5. DoneCount(t) = k /\ PlannedCount(t) = n
      BY <2>1, <2>3 DEF DoneCount, PlannedCount
    <2> HIDE DEF t
    <2>6. StepsLeft(t) = k + 3 * (n - 1) + 6 /\ StepsLeft(q) = k + 3 * n + 4
      <3>1. StepsLeft(t) = DoneCount(t) + 3 * (PlannedCount(t) - t.next) + 6
        BY <2>3, StepsLeftAt
      <3>2. StepsLeft(t) = k + 3 * (n - 1) + 6
        BY <2>3, <2>4, <2>5, <3>1
      <3>3. q.pc = "prepare"
        BY <1>7 DEF Prepare
      <3>4. QED
        BY <3>2, <3>3, StepsLeftAt
    <2>7. QED
      BY <1>3, <2>2, <2>6
  <1>8. CASE PrepareFails(c)
    <2> DEFINE t == [q EXCEPT !.pc = "finish"]
    <2>1. proc'[c] = t
      BY <1>4, <1>8 DEF PrepareFails
    <2>2. t.pc = "finish"
      BY <1>1 DEF Process
    <2>3. StepsLeft(t) = 1
      BY <2>2, StepsLeftAt
    <2>4. StepsLeft(q) = k + 3 * n + 4
      BY <1>8, StepsLeftAt DEF PrepareFails
    <2>5. QED
      BY <1>3, <2>1, <2>3, <2>4
  <1>9. CASE MakeDirectory(c) \/ BackUp(c) \/ PlanRemoval(c)
    <2> DEFINE t == proc'[c]
    <2>1. /\ t.pc \in {"chmod", "replace"}
          /\ t.applied = q.applied /\ t.copy = q.copy /\ t.next = q.next
      <3>1. CASE MakeDirectory(c)
        <4>1. PICK r : r = [q EXCEPT !.pc = "chmod"]
          OBVIOUS
        <4>2. /\ r.pc \in {"chmod", "replace"}
              /\ r.applied = q.applied /\ r.copy = q.copy /\ r.next = q.next
          BY <1>1, <4>1 DEF Process
        <4>3. Become(c, r)
          BY <3>1, <4>1 DEF MakeDirectory
        <4>4. QED
          BY <1>4, <4>2, <4>3
      <3>2. CASE BackUp(c)
        <4>1. PICK r : r = [q EXCEPT !.pc = "replace", !.strategy = "restore_backup"]
          OBVIOUS
        <4>2. /\ r.pc \in {"chmod", "replace"}
              /\ r.applied = q.applied /\ r.copy = q.copy /\ r.next = q.next
          BY <1>1, <4>1 DEF Process
        <4>3. Become(c, r)
          BY <3>2, <4>1 DEF BackUp
        <4>4. QED
          BY <1>4, <4>2, <4>3
      <3>3. CASE PlanRemoval(c)
        <4>1. PICK r : r = [q EXCEPT !.pc = "replace", !.strategy = "remove_created_file"]
          OBVIOUS
        <4>2. /\ r.pc \in {"chmod", "replace"}
              /\ r.applied = q.applied /\ r.copy = q.copy /\ r.next = q.next
          BY <1>1, <4>1 DEF Process
        <4>3. Become(c, r)
          BY <3>3, <4>1 DEF PlanRemoval
        <4>4. QED
          BY <1>4, <4>2, <4>3
      <3>4. QED
        BY <1>9, <3>1, <3>2, <3>3
    <2>2. q.pc = "apply"
      BY <1>9 DEF MakeDirectory, BackUp, PlanRemoval
    <2>3. DoneCount(t) = k /\ PlannedCount(t) = n
      BY <2>1 DEF DoneCount, PlannedCount
    <2>4. /\ StepsLeft(t) = k + 3 * (n - q.next) + 5
          /\ StepsLeft(q) = k + 3 * (n - q.next) + 6
      <3>1. StepsLeft(t) = DoneCount(t) + 3 * (PlannedCount(t) - t.next) + 5
        BY <2>1, StepsLeftAt
      <3>2. StepsLeft(t) = k + 3 * (n - q.next) + 5
        BY <2>1, <2>3, <3>1
      <3>3. QED
        BY <2>2, <3>2, StepsLeftAt
    <2>5. QED
      BY <1>3, <2>2, <2>4 DEF ApplySteps
  <1>10. CASE KeepPath(c) \/ SecureDirectory(c) \/ ReplaceFile(c)
    <2>1. q.pc \in ApplySteps
      BY <1>10 DEF KeepPath, SecureDirectory, ReplaceFile, ApplySteps
    <2>2. PICK s \in Strategies : Become(c, Completed(q, s))
      BY <1>5, <1>10 DEF KeepPath, SecureDirectory, ReplaceFile
    <2>3. QED
      BY <1>1, <1>4, <2>1, <2>2, CompletedOnward
  <1>11. CASE ActionFails(c) \/ (Verify(c) /\ ~Verified(q.copy.classified))
    <2>1. q.pc \in ApplySteps \cup {"verify", "assess"} /\ Become(c, RollingBack(q))
      BY <1>11 DEF ActionFails, Verify, ApplySteps
    <2>2. QED
      BY <1>1, <1>4, <2>1, RollingBackOnward
  <1>12. CASE Verify(c) /\ Verified(q.copy.classified)
    <2> DEFINE t == [q EXCEPT !.pc = "assess"]
    <2>1. proc'[c] = t /\ q.pc = "verify"
      BY <1>4, <1>12 DEF Verify
    <2>2. t.pc = "assess" /\ t.applied = q.applied
      BY <1>1 DEF Process
    <2>3. DoneCount(t) = k
      BY <2>2 DEF DoneCount
    <2> HIDE DEF t
    <2>4. QED
      BY <1>3, <2>1, <2>2, <2>3, StepsLeftAt
  <1>13. CASE Assess(c)
    <2>1. PICK after : \/ Become(c, [q EXCEPT !.pc = "commit", !.after = after])
                       \/ Become(c, RollingBack(q))
      BY <1>13 DEF Assess
    <2>2. q.pc = "assess"
      BY <1>13 DEF Assess
    <2>3. CASE Become(c, RollingBack(q))
      BY <1>1, <1>4, <2>2, <2>3, RollingBackOnward
    <2>4. CASE Become(c, [q EXCEPT !.pc = "commit", !.after = after])
      <3> DEFINE t == [q EXCEPT !.pc = "commit", !.after = after]
      <3>1. proc'[c] = t /\ t.pc = "commit"
        BY <1>1, <1>4, <2>4 DEF Process
      <3> HIDE DEF t
      <3>2. QED
        BY <1>3, <2>2, <3>1, StepsLeftAt
    <2>5. QED
      BY <2>1, <2>3, <2>4
  <1>14. CASE Undo(c) \/ UndoFails(c)
    <2>1. q.pc = "rollback" /\ \E ok \in BOOLEAN : Become(c, AfterUndo(q, ok))
      BY <1>14 DEF Undo, UndoFails
    <2>2. QED
      BY <1>1, <1>4, <2>1, AfterUndoOnward
  <1>15. CASE Reinspect(c)
    <2> DEFINE t == [q EXCEPT !.pc = "baseline"]
    <2>1. proc'[c] = t /\ q.pc = "promote"
      BY <1>4, <1>15 DEF Reinspect
    <2>2. t.pc = "baseline" /\ t.applied = q.applied /\ t.copy = q.copy
      BY <1>1 DEF Process
    <2>3. DoneCount(t) = k /\ PlannedCount(t) = n
      BY <2>2 DEF DoneCount, PlannedCount
    <2> HIDE DEF t
    <2>4. StepsLeft(t) = DoneCount(t) + 3 * PlannedCount(t) + 6
      BY <2>2, StepsLeftAt
    <2>5. StepsLeft(t) = k + 3 * n + 6 /\ StepsLeft(q) = k + 3 * n + 7
      BY <2>1, <2>3, <2>4, StepsLeftAt
    <2>6. QED
      BY <1>3, <2>1, <2>5
  <1>16. CASE AssessBefore(c)
    <2>1. PICK before : Become(c, [q EXCEPT !.pc = "start", !.before = before])
      BY <1>16 DEF AssessBefore
    <2> DEFINE t == [q EXCEPT !.pc = "start", !.before = before]
    <2>2. proc'[c] = t /\ q.pc = "baseline"
      BY <1>4, <1>16, <2>1 DEF AssessBefore
    <2>3. t.pc = "start" /\ t.applied = q.applied /\ t.copy = q.copy
      BY <1>1 DEF Process
    <2>4. DoneCount(t) = k /\ PlannedCount(t) = n
      BY <2>3 DEF DoneCount, PlannedCount
    <2> HIDE DEF t
    <2>5. StepsLeft(t) = DoneCount(t) + 3 * PlannedCount(t) + 5
      BY <2>3, StepsLeftAt
    <2>6. StepsLeft(t) = k + 3 * n + 5 /\ StepsLeft(q) = k + 3 * n + 6
      BY <2>2, <2>4, <2>5, StepsLeftAt
    <2>7. QED
      BY <1>3, <2>2, <2>6
  <1>17. QED
    BY <1>6, <1>7, <1>8, <1>9, <1>10, <1>11, <1>12, <1>13, <1>14, <1>15, <1>16 DEF Verify

(* Each command, step by step.                                             *)
LEMMA NextOnward ==
  ASSUME TypeOK, [Next]_vars, NEW c \in Procs
  PROVE  Onward(c)
  <1> SUFFICES ASSUME proc[c].pc # "idle",
                      proc'[c] # proc[c] \/ Step(c)
               PROVE  StepsLeft(proc'[c]) < StepsLeft(proc[c])
    BY DEF Onward
  <1>1. ASSUME Step(c) \/ PrepareFails(c) \/ SaveFails(c) \/ Crash(c)
        PROVE  StepsLeft(proc'[c]) < StepsLeft(proc[c])
    <2>1. CASE \/ WriteDraft(c) \/ Classify(c) \/ Approve(c) \/ Reject(c) \/ Refuse(c)
               \/ Commit(c) \/ Finish(c) \/ SaveFails(c) \/ Crash(c)
      <3>1. Release(c)
        BY <2>1 DEF WriteDraft, Classify, Approve, Reject, Refuse, Commit, Finish, SaveFails,
                    Crash, Conclude
      <3>2. QED
        BY <3>1, ReleaseOnward
    <2>2. QED
      BY <1>1, <2>1, PromotionOnward DEF Step
  <1>2. ASSUME NEW e \in Procs, e # c,
               \/ \E p \in Proposals, d \in Definitions : ClaimId(e, p, d)
               \/ \E p \in Proposals, op \in Operations : Open(e, op, p)
               \/ Step(e) \/ PrepareFails(e) \/ SaveFails(e) \/ Crash(e)
        PROVE  proc'[c] = proc[c]
    <2>1. \E t : Become(e, t)
      BY <1>2 DEF ClaimId, Open, Step, WriteDraft, Classify, Approve, Reject, Refuse, Reinspect,
                  AssessBefore, Begin, Prepare, PrepareFails, KeepPath, MakeDirectory,
                  SecureDirectory, BackUp, PlanRemoval, ReplaceFile, ActionFails, Verify, Assess,
                  Commit, Undo, UndoFails, Finish, SaveFails, Crash, Conclude, Release
    <2>2. QED
      BY <1>2, <2>1 DEF Become, TypeOK
  <1>3. ASSUME \/ UNCHANGED vars
               \/ \E x \in Paths, v \in EditValues : EditFile(x, v)
               \/ \E p \in Proposals, d \in Definitions : EditRecord(p, d)
        PROVE  proc'[c] = proc[c]
    BY <1>3 DEF vars, EditFile, EditRecord
  <1>4. ASSUME \/ \E p \in Proposals, d \in Definitions : ClaimId(c, p, d)
               \/ \E p \in Proposals, op \in Operations : Open(c, op, p)
        PROVE  FALSE
    BY <1>4 DEF ClaimId, Open
  <1>5. QED
    BY <1>1, <1>2, <1>3, <1>4 DEF Next

(* A command that runs only ever comes nearer to its end: it applies each  *)
(* action at most once and undoes it at most once, whatever fails, and no  *)
(* other command or program can set it back (apply_actions,                *)
(* rollback_actions, _finish_rollback).  With the fairness of FairSpec it  *)
(* is what makes every lock come free again.                               *)
THEOREM CommandsComeToAnEnd == Spec => [][\A c \in Procs : Onward(c)]_vars
  <1>1. TypeOK /\ [Next]_vars => [\A c \in Procs : Onward(c)]_vars
    BY NextOnward
  <1>2. QED
    BY <1>1, TypeCorrect, PTL DEF Spec

=============================================================================

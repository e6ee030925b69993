----------------------- MODULE ProposalsRecordProofs -----------------------
(***************************************************************************)
(* How commands, locks and durable records fit together in Proposals, for  *)
(* every value of the constants.  RecordDiscipline is inductive, given the *)
(* types; from it follow the properties that the runs check of locks, of   *)
(* the classified action list, of intent before effect and of the          *)
(* lifecycle, and that no command is ever stuck.  On top of it             *)
(* TreeDiscipline says what promotions make of the configuration tree;     *)
(* from it follow recovery after a crash, rollback and commit.  The last   *)
(* part is about promotions that nobody attends to any more.               *)
(***************************************************************************)
EXTENDS ProposalsProofs

Locking == Operations \cup PromotionSteps   \* the steps that hold the lock

(* How the sets of step names relate. *)
LEMMA StepNames ==
  /\ "idle" \notin Locking /\ "create" \notin Locking
  /\ Operations \cap PromotionSteps = {}
  /\ EffectSteps \subseteq PromotionSteps \ Starting
  /\ Starting \subseteq PromotionSteps
  BY DEF Locking, Operations, PromotionSteps, Starting, EffectSteps, ApplySteps

(* At the start no command runs and no record exists. *)
LEMMA InitDiscipline == Init => RecordDiscipline
  <1> SUFFICES ASSUME Init PROVE RecordDiscipline
    OBVIOUS
  <1>1. \A c \in Procs : proc[c].pc = "idle"
    BY DEF Init, Idle
  <1>2. \A p \in Proposals : store[p] = None
    BY DEF Init
  <1>3. QED
    BY <1>1, <1>2, StepNames
    DEF RecordDiscipline, LockedCopyIsCurrent, ClaimsAreExclusive, RecordsAreConsistent,
        StepsFitRecords, Locking

-----------------------------------------------------------------------------
(* The ways a step changes locks, records and commands.                    *)

(* What a saved record must satisfy. *)
Consistent(r) ==
  /\ r.history # <<>> /\ r.history[Len(r.history)] = r.state
  /\ r.state = "approved" => r.approved = r.classified

(* What the open record must satisfy at step pc. *)
Fits(r, pc) ==
  /\ pc \in Operations => r.state \in Required(pc)
  /\ pc \in PromotionSteps => r.actions = r.classified
  /\ pc \in Starting => r.state = "approved"
  /\ pc \in PromotionSteps \ Starting => r.state = "applying"
  /\ pc \in EffectSteps => r.recovery = "ready"

(* Only command c and the record it has open change; it keeps the lock. *)
LEMMA ContinueDiscipline ==
  ASSUME TypeOK, RecordDiscipline, NEW c \in Procs, NEW q,
         proc[c].pc \in Locking, q.pc \in Locking, q.on = proc[c].on,
         Fits(q.copy, q.pc), Consistent(q.copy),
         Become(c, q), Save(q.on, q.copy), UNCHANGED <<dir, lock>>
  PROVE  RecordDiscipline'
  <1> DEFINE p == proc[c].on
  <1>1. p \in Proposals /\ lock[p] = c /\ store[p] = proc[c].copy /\ store[p] \in Record
    <2>1. proc[c].pc # "idle"
      BY StepNames
    <2>2. QED
      BY <2>1, RunningType DEF RecordDiscipline, LockedCopyIsCurrent, Locking
  <1>2. /\ proc'[c] = q /\ \A e \in Procs \ {c} : proc'[e] = proc[e]
        /\ store'[p] = q.copy /\ \A o \in Proposals \ {p} : store'[o] = store[o]
    BY <1>1 DEF Become, Save, TypeOK
  <1>3. \A e \in Procs \ {c} : proc[e].pc \in Locking => proc[e].on # p
    BY <1>1 DEF RecordDiscipline, LockedCopyIsCurrent, Locking
  <1>4. \A e \in Procs \ {c} : proc[e].pc # "idle" => proc[e].on \in Proposals
    BY RunningType
  <1>5. LockedCopyIsCurrent'
    BY <1>1, <1>2, <1>3, <1>4, StepNames DEF RecordDiscipline, LockedCopyIsCurrent, Locking
  <1>6. ClaimsAreExclusive'
    <2>1. \A e \in Procs : proc'[e].pc = "create" => e # c /\ proc[e].pc = "create"
      BY <1>2, StepNames
    <2>2. \A e \in Procs \ {c} : proc[e].pc = "create" => proc[e].on # p
      BY <1>1, NoneAssumption DEF RecordDiscipline, ClaimsAreExclusive
    <2>3. QED
      BY <1>2, <1>4, <2>1, <2>2 DEF RecordDiscipline, ClaimsAreExclusive
  <1>7. RecordsAreConsistent'
    <2>1. dir[p]
      BY <1>1, NoneAssumption DEF RecordDiscipline, RecordsAreConsistent
    <2>2. QED
      BY <1>2, <2>1 DEF RecordDiscipline, RecordsAreConsistent, Consistent
  <1>8. StepsFitRecords'
    BY <1>2 DEF RecordDiscipline, StepsFitRecords, Fits
  <1>9. QED
    BY <1>5, <1>6, <1>7, <1>8 DEF RecordDiscipline

(* Only command c changes, and it moves on to a step its record allows. *)
LEMMA AdvanceDiscipline ==
  ASSUME TypeOK, RecordDiscipline, NEW c \in Procs, NEW q,
         proc[c].pc \in PromotionSteps, q.pc \in PromotionSteps,
         q.on = proc[c].on, q.copy = proc[c].copy,
         q.pc \in Starting <=> proc[c].pc \in Starting,
         q.pc \in EffectSteps => proc[c].pc \in EffectSteps,
         Become(c, q), UNCHANGED <<dir, store, lock>>
  PROVE  RecordDiscipline'
  <1> DEFINE p == proc[c].on
             r == proc[c].copy
  <1>1. proc[c].pc \in Locking /\ q.pc \in Locking /\ proc[c].pc # "idle"
    BY StepNames DEF Locking
  <1>2. p \in Proposals /\ store[p] = r /\ r \in Record
    BY <1>1, RunningType DEF RecordDiscipline, LockedCopyIsCurrent, Locking
  <1>3. Consistent(r)
    BY <1>2, NoneAssumption DEF RecordDiscipline, RecordsAreConsistent, Consistent
  <1>4. Fits(r, q.pc)
    BY StepNames DEF RecordDiscipline, StepsFitRecords, Fits
  <1>5. Save(p, r)
    BY <1>2 DEF TypeOK, Save
  <1>6. QED
    BY <1>1, <1>3, <1>4, <1>5, ContinueDiscipline

(* Command c ends, and the record it has open becomes r.  The first save   *)
(* of a new proposal takes and drops a free lock.                          *)
LEMMA ConcludeDiscipline ==
  ASSUME TypeOK, RecordDiscipline, NEW c \in Procs, NEW r \in Record,
         \/ proc[c].pc \in Locking
         \/ proc[c].pc = "create" /\ lock[proc[c].on] = None,
         Consistent(r), Conclude(c, r)
  PROVE  RecordDiscipline'
  <1> DEFINE p == proc[c].on
  <1>1. p \in Proposals /\ lock[p] \in {c, None}
    <2>1. proc[c].pc # "idle"
      BY StepNames
    <2>2. QED
      BY <2>1, RunningType DEF RecordDiscipline, LockedCopyIsCurrent, Locking
  <1>2. /\ proc'[c] = Idle /\ \A e \in Procs \ {c} : proc'[e] = proc[e]
        /\ store'[p] = r /\ \A o \in Proposals \ {p} : store'[o] = store[o]
        /\ \A o \in Proposals : lock'[o] = IF lock[o] = c THEN None ELSE lock[o]
        /\ dir' = dir
    BY <1>1 DEF Conclude, Release, Become, Save, TypeOK
  <1>3. \A e \in Procs \ {c} : proc[e].pc # "idle" => proc[e].on \in Proposals
    BY RunningType
  <1>4. \A e \in Procs \ {c} : proc[e].pc \in Locking => proc[e].on # p
    BY <1>1, ConstantsAssumption DEF RecordDiscipline, LockedCopyIsCurrent, Locking
  <1>5. LockedCopyIsCurrent'
    BY <1>2, <1>3, <1>4, StepNames DEF RecordDiscipline, LockedCopyIsCurrent, Locking, Idle
  <1>6. dir[p]
    BY <1>1, NoneAssumption, StepNames, RunningType
    DEF RecordDiscipline, LockedCopyIsCurrent, ClaimsAreExclusive, RecordsAreConsistent, Locking
  <1>7. ClaimsAreExclusive'
    <2>1. \A e \in Procs : proc'[e].pc = "create" => e # c /\ proc[e].pc = "create"
      BY <1>2 DEF Idle
    <2>2. \A e \in Procs \ {c} : proc[e].pc = "create" => proc[e].on # p
      <3>1. CASE proc[c].pc = "create"
        BY <3>1 DEF RecordDiscipline, ClaimsAreExclusive
      <3>2. CASE proc[c].pc \in Locking
        <4>1. store[p] \in Record
          BY <3>2, RunningType, StepNames DEF RecordDiscipline, LockedCopyIsCurrent, Locking
        <4>2. QED
          BY <4>1, NoneAssumption DEF RecordDiscipline, ClaimsAreExclusive
      <3>3. QED
        BY <3>1, <3>2
    <2>3. QED
      BY <1>2, <1>3, <2>1, <2>2 DEF RecordDiscipline, ClaimsAreExclusive
  <1>8. RecordsAreConsistent'
    BY <1>2, <1>6 DEF RecordDiscipline, RecordsAreConsistent, Consistent
  <1>9. StepsFitRecords'
    BY <1>2, StepNames DEF RecordDiscipline, StepsFitRecords, Idle, Locking
  <1>10. QED
    BY <1>5, <1>7, <1>8, <1>9 DEF RecordDiscipline

(* Command c ends without a save. *)
LEMMA QuitDiscipline ==
  ASSUME TypeOK, RecordDiscipline, NEW c \in Procs, Release(c), UNCHANGED <<dir, store>>
  PROVE  RecordDiscipline'
  <1>1. /\ proc'[c] = Idle /\ \A e \in Procs \ {c} : proc'[e] = proc[e]
        /\ \A o \in Proposals : lock'[o] = IF lock[o] = c THEN None ELSE lock[o]
        /\ dir' = dir /\ store' = store
    BY DEF Release, Become, TypeOK
  <1>2. \A e \in Procs : proc'[e].pc # "idle" => e # c /\ proc'[e] = proc[e]
    BY <1>1 DEF Idle
  <1>3. \A e \in Procs : proc[e].pc # "idle" => proc[e].on \in Proposals
    BY RunningType
  <1>4. LockedCopyIsCurrent'
    BY <1>1, <1>2, <1>3, StepNames DEF RecordDiscipline, LockedCopyIsCurrent, Locking
  <1>5. ClaimsAreExclusive'
    BY <1>1, <1>2 DEF RecordDiscipline, ClaimsAreExclusive
  <1>6. RecordsAreConsistent'
    BY <1>1 DEF RecordDiscipline, RecordsAreConsistent
  <1>7. StepsFitRecords'
    BY <1>1, <1>2, StepNames DEF RecordDiscipline, StepsFitRecords, Locking
  <1>8. QED
    BY <1>4, <1>5, <1>6, <1>7 DEF RecordDiscipline

-----------------------------------------------------------------------------
(* The actions.                                                            *)

(* The states in which each command may begin. *)
LEMMA RequiredStates ==
  /\ Required("classify") = {"draft"} /\ Required("approve") = {"classified"}
  /\ Required("reject") = {"draft", "classified"} /\ Required("promote") = {"approved"}
  BY DEF Required

(* A lifecycle step leaves a consistent record. *)
LEMMA TransitionConsistent ==
  ASSUME NEW r \in Record, NEW s \in ProposalStates, s = "approved" => r.approved = r.classified
  PROVE  Consistent(Transition(r, s))
  <1>1. r.history \in Seq(ProposalStates)
    BY DEF Record
  <1>2. /\ Append(r.history, s) # <<>>
        /\ Append(r.history, s)[Len(Append(r.history, s))] = s
    BY <1>1
  <1>3. QED
    BY <1>2, TransitionType DEF Consistent

(* The claim of a new ID, and the load of a record under its lock. *)
LEMMA StartDiscipline ==
  ASSUME TypeOK, RecordDiscipline, NEW c \in Procs, NEW p \in Proposals
  PROVE  /\ \A d \in Definitions : ClaimId(c, p, d) => RecordDiscipline'
         /\ \A op \in Operations : Open(c, op, p) => RecordDiscipline'
  <1>0. \A e \in Procs : proc[e].pc # "idle" => proc[e].on \in Proposals
    BY RunningType
  <1>1. ASSUME NEW d \in Definitions, ClaimId(c, p, d) PROVE RecordDiscipline'
    <2> DEFINE q == [Idle EXCEPT !.pc = "create", !.on = p, !.copy = NewRecord(d)]
    <2>1. q.pc = "create" /\ q.on = p /\ q.copy = NewRecord(d)
      BY DEF Idle
    <2> HIDE DEF q
    <2>2. /\ proc'[c] = q /\ \A e \in Procs \ {c} : proc'[e] = proc[e]
          /\ proc[c].pc = "idle"
          /\ ~dir[p] /\ dir'[p] /\ \A o \in Proposals \ {p} : dir'[o] = dir[o]
          /\ store' = store /\ lock' = lock
      BY <1>1 DEF ClaimId, Become, TypeOK, q
    <2>3. LockedCopyIsCurrent'
      BY <2>1, <2>2, StepNames DEF RecordDiscipline, LockedCopyIsCurrent, Locking
    <2>4. store[p] = None /\ \A e \in Procs : proc[e].pc = "create" => proc[e].on # p
      BY <2>2 DEF RecordDiscipline, ClaimsAreExclusive, RecordsAreConsistent
    <2>5. ClaimsAreExclusive'
      BY <1>0, <2>1, <2>2, <2>4 DEF RecordDiscipline, ClaimsAreExclusive
    <2>6. RecordsAreConsistent'
      BY <2>2, <2>4 DEF RecordDiscipline, RecordsAreConsistent
    <2>7. StepsFitRecords'
      BY <2>1, <2>2, StepNames DEF RecordDiscipline, StepsFitRecords, Locking
    <2>8. QED
      BY <2>3, <2>5, <2>6, <2>7 DEF RecordDiscipline
  <1>2. ASSUME NEW op \in Operations, Open(c, op, p) PROVE RecordDiscipline'
    <2> DEFINE q == [Idle EXCEPT !.pc = op, !.on = p, !.copy = store[p]]
    <2>1. q.pc = op /\ q.on = p /\ q.copy = store[p]
      BY DEF Idle
    <2> HIDE DEF q
    <2>2. /\ proc'[c] = q /\ \A e \in Procs \ {c} : proc'[e] = proc[e]
          /\ proc[c].pc = "idle"
          /\ lock[p] = None /\ lock'[p] = c /\ \A o \in Proposals \ {p} : lock'[o] = lock[o]
          /\ store' = store /\ dir' = dir
      BY <1>2 DEF Open, LockFree, Become, TypeOK, q
    <2>3. \A e \in Procs : proc[e].pc \in Locking => proc[e].on # p
      BY <2>2, ConstantsAssumption DEF RecordDiscipline, LockedCopyIsCurrent, Locking
    <2>4. LockedCopyIsCurrent'
      BY <1>0, <2>1, <2>2, <2>3, StepNames DEF RecordDiscipline, LockedCopyIsCurrent, Locking
    <2>5. ClaimsAreExclusive'
      BY <1>0, <2>1, <2>2, StepNames DEF RecordDiscipline, ClaimsAreExclusive, Locking
    <2>6. RecordsAreConsistent'
      BY <2>2 DEF RecordDiscipline, RecordsAreConsistent
    <2>7. StepsFitRecords'
      <3>1. q.copy.state \in Required(op)
        BY <1>2, <2>1 DEF Open, StateOf, Required, Operations
      <3>2. op \notin PromotionSteps /\ op \notin Starting /\ op \notin EffectSteps
        BY StepNames
      <3> DEFINE Fit(t) == Fits(t.copy, t.pc)
      <3>3. Fit(q)
        BY <2>1, <3>1, <3>2 DEF Fits
      <3>4. \A e \in Procs : Fit(proc[e])
        BY DEF RecordDiscipline, StepsFitRecords, Fits
      <3>5. \A e \in Procs : Fit(proc'[e])
        <4> HIDE DEF Fit
        <4>1. QED
          BY <2>2, <3>3, <3>4
      <3>6. QED
        BY <3>5 DEF StepsFitRecords, Fits
    <2>8. QED
      BY <2>4, <2>5, <2>6, <2>7 DEF RecordDiscipline
  <1>3. QED
    BY <1>1, <1>2

(* The record that each saving command writes. *)
LEMMA RecordStepDiscipline ==
  ASSUME TypeOK, RecordDiscipline, NEW c \in Procs,
         \/ WriteDraft(c) \/ Classify(c) \/ Approve(c) \/ Reject(c)
         \/ Commit(c) \/ Finish(c)
  PROVE  RecordDiscipline'
  <1> DEFINE r == proc[c].copy
  <1>1. /\ proc[c].pc # "idle" /\ r \in Record /\ r.actions \in Definitions
    BY RunningType DEF WriteDraft, Classify, Approve, Reject, Commit, Finish
  <1>2. CASE WriteDraft(c)
    <2>1. \E d \in Definitions : r = NewRecord(d)
      BY <1>2 DEF WriteDraft, RecordDiscipline, ClaimsAreExclusive
    <2>2. Consistent(r)
      BY <2>1 DEF Consistent, NewRecord
    <2>3. QED
      BY <1>1, <1>2, <2>2, ConcludeDiscipline DEF WriteDraft, LockFree
  <1>3. CASE Classify(c)
    <2> DEFINE s == [r EXCEPT !.classified = r.actions, !.targets = Observed(r.actions),
                              !.recovery = "planned"]
    <2>1. Observed(r.actions) \in Seq(FsValues)
      BY <1>1, ObservedType DEF TypeOK
    <2>2. s \in Record
      BY <1>1, <2>1 DEF Record
    <2>3. /\ Transition(s, "classified") \in Record
          /\ Consistent(Transition(s, "classified"))
      BY <2>2, TransitionType, TransitionConsistent DEF ProposalStates
    <2>4. QED
      BY <1>3, <2>3, ConcludeDiscipline DEF Classify, Locking, Operations
  <1>4. CASE Approve(c)
    <2> DEFINE s == [r EXCEPT !.approved = r.classified]
    <2>1. s \in Record /\ s.approved = s.classified
      BY <1>1 DEF Record
    <2>2. Transition(s, "approved") \in Record /\ Consistent(Transition(s, "approved"))
      BY <2>1, TransitionType, TransitionConsistent DEF ProposalStates
    <2>3. QED
      BY <1>4, <2>2, ConcludeDiscipline DEF Approve, Locking, Operations
  <1>5. CASE Reject(c)
    <2>1. Transition(r, "rejected") \in Record /\ Consistent(Transition(r, "rejected"))
      BY <1>1, TransitionType, TransitionConsistent DEF ProposalStates
    <2>2. QED
      BY <1>5, <2>1, ConcludeDiscipline DEF Reject, Locking, Operations
  <1>6. CASE Commit(c)
    <2> DEFINE s == [r EXCEPT !.recovery = "available"]
    <2>1. s \in Record
      BY <1>1 DEF Record
    <2>2. Transition(s, "committed") \in Record /\ Consistent(Transition(s, "committed"))
      BY <2>1, TransitionType, TransitionConsistent DEF ProposalStates
    <2>3. QED
      BY <1>6, <2>2, ConcludeDiscipline DEF Commit, Locking, PromotionSteps, Starting
  <1>7. CASE Finish(c)
    <2> DEFINE s == [r EXCEPT !.recovery = IF proc[c].clean THEN "restored" ELSE "failed"]
               to == IF proc[c].clean THEN "rolled_back" ELSE "failed"
    <2>1. s \in Record /\ to \in ProposalStates /\ to # "approved"
      BY <1>1 DEF Record, ProposalStates
    <2>2. Transition(s, to) \in Record /\ Consistent(Transition(s, to))
      BY <2>1, TransitionType, TransitionConsistent
    <2>3. QED
      BY <1>7, <2>2, ConcludeDiscipline DEF Finish, Locking, PromotionSteps, Starting
  <1>8. QED
    BY <1>2, <1>3, <1>4, <1>5, <1>6, <1>7

(* The way to the first action: the checks, the baseline and two saves. *)
LEMMA BeginDiscipline ==
  ASSUME TypeOK, RecordDiscipline, NEW c \in Procs,
         Reinspect(c) \/ AssessBefore(c) \/ Begin(c) \/ Prepare(c)
  PROVE  RecordDiscipline'
  <1> DEFINE q == proc[c]
             p == q.on
  <1>1. /\ q.pc \in {"promote", "baseline", "start", "prepare"} /\ q.pc \in Locking
        /\ q \in Process /\ p \in Proposals /\ q.copy \in Record /\ store[p] = q.copy
    <2>1. q.pc \in {"promote", "baseline", "start", "prepare"} /\ q.pc # "idle"
      BY DEF Reinspect, AssessBefore, Begin, Prepare
    <2>2. q.pc \in Operations \cup PromotionSteps
      BY <2>1 DEF Operations, PromotionSteps, Starting
    <2>3. QED
      BY <2>1, <2>2, RunningType DEF RecordDiscipline, LockedCopyIsCurrent, Locking
  <1>2. CASE Reinspect(c)
    <2> DEFINE r == q.copy
               t == [q EXCEPT !.pc = "baseline"]
    <2>1. r.state = "approved" /\ r.actions = r.classified /\ Consistent(r)
      <3>1. r.state = "approved"
        BY <1>2, RequiredStates
        DEF Reinspect, RecordDiscipline, StepsFitRecords, Operations
      <3>2. r.approved = r.classified /\ Consistent(r)
        BY <1>1, <3>1, NoneAssumption DEF RecordDiscipline, RecordsAreConsistent, Consistent
      <3>3. r.approved = r.actions
        BY <1>2 DEF Reinspect, MayPromote
      <3>4. QED
        BY <3>1, <3>2, <3>3
    <2>2. t.pc = "baseline" /\ t.on = p /\ t.copy = r
      BY <1>1 DEF Process
    <2>3. Fits(r, "baseline") /\ "baseline" \in Locking
      BY <2>1 DEF Fits, Operations, PromotionSteps, Starting, EffectSteps, Locking
    <2>4. Become(c, t) /\ Save(p, r) /\ UNCHANGED <<dir, lock>>
      BY <1>1, <1>2 DEF Reinspect, Save, TypeOK
    <2> HIDE DEF t, r
    <2>5. QED
      BY <1>1, <2>1, <2>2, <2>3, <2>4, ContinueDiscipline
  <1>3. CASE AssessBefore(c)
    <2>1. PICK before : Become(c, [q EXCEPT !.pc = "start", !.before = before])
      BY <1>3 DEF AssessBefore
    <2> DEFINE t == [q EXCEPT !.pc = "start", !.before = before]
    <2>2. t.pc = "start" /\ t.on = p /\ t.copy = q.copy
      BY <1>1 DEF Process
    <2>3. q.pc \in Starting /\ t.pc \in Starting /\ t.pc \notin EffectSteps
      BY <1>3, <2>2, StepNames DEF AssessBefore, Starting
    <2>4. UNCHANGED <<dir, store, lock>>
      BY <1>3 DEF AssessBefore
    <2> HIDE DEF t
    <2>5. QED
      BY <2>1, <2>2, <2>3, <2>4, AdvanceDiscipline, StepNames DEF t
  <1>4. CASE Begin(c)
    <2> DEFINE r == Transition(q.copy, "applying")
               t == [q EXCEPT !.pc = "prepare", !.copy = r]
    <2>1. r.state = "applying" /\ r.actions = r.classified /\ Consistent(r)
      <3>1. q.copy.actions = q.copy.classified
        BY <1>4, StepNames DEF Begin, RecordDiscipline, StepsFitRecords, Starting
      <3>2. "applying" \in ProposalStates
        BY DEF ProposalStates
      <3>3. QED
        BY <1>1, <3>1, <3>2, TransitionType, TransitionConsistent
    <2> HIDE DEF r
    <2>2. t.pc = "prepare" /\ t.on = p /\ t.copy = r
      BY <1>1 DEF Process
    <2>3. Fits(r, "prepare") /\ "prepare" \in Locking
      BY <2>1 DEF Fits, Operations, PromotionSteps, Starting, EffectSteps, Locking
    <2>4. Become(c, t) /\ Save(p, r) /\ UNCHANGED <<dir, lock>>
      BY <1>4 DEF Begin, r
    <2> HIDE DEF t
    <2>5. QED
      BY <1>1, <2>1, <2>2, <2>3, <2>4, ContinueDiscipline
  <1>5. CASE Prepare(c)
    <2> DEFINE r == [q.copy EXCEPT !.recovery = "ready"]
               t == [q EXCEPT !.pc = "apply", !.copy = r]
    <2>1. /\ r.recovery = "ready" /\ r.state = q.copy.state /\ r.history = q.copy.history
          /\ r.actions = q.copy.actions /\ r.classified = q.copy.classified
      BY <1>1 DEF Record
    <2>2. q.copy.state = "applying" /\ q.copy.actions = q.copy.classified
      BY <1>5 DEF Prepare, RecordDiscipline, StepsFitRecords, PromotionSteps, Starting
    <2>3. Consistent(r)
      BY <1>1, <2>1, <2>2, NoneAssumption DEF RecordDiscipline, RecordsAreConsistent, Consistent
    <2> HIDE DEF r
    <2>4. t.pc = "apply" /\ t.on = p /\ t.copy = r
      BY <1>1 DEF Process
    <2>5. Fits(r, "apply") /\ "apply" \in Locking
      BY <2>1, <2>2 DEF Fits, Operations, PromotionSteps, Starting, ApplySteps, Locking
    <2>6. Become(c, t) /\ Save(p, r) /\ UNCHANGED <<dir, lock>>
      BY <1>5 DEF Prepare, r
    <2> HIDE DEF t
    <2>7. QED
      BY <1>1, <2>3, <2>4, <2>5, <2>6, ContinueDiscipline
  <1>6. QED
    BY <1>2, <1>3, <1>4, <1>5

(* The rest of a promotion: no step before the end touches the record. *)
LEMMA EffectDiscipline ==
  ASSUME TypeOK, RecordDiscipline, NEW c \in Procs,
         \/ KeepPath(c) \/ MakeDirectory(c) \/ SecureDirectory(c)
         \/ BackUp(c) \/ PlanRemoval(c) \/ ReplaceFile(c) \/ ActionFails(c)
         \/ Verify(c) \/ Assess(c) \/ Undo(c) \/ UndoFails(c) \/ PrepareFails(c)
  PROVE  RecordDiscipline'
  <1> DEFINE q == proc[c]
  <1>1. UNCHANGED <<dir, store, lock>> /\ q \in Process
    BY DEF KeepPath, MakeDirectory, SecureDirectory, BackUp, PlanRemoval, ReplaceFile,
           ActionFails, Verify, Assess, Undo, UndoFails, PrepareFails, TypeOK
  <1>2. PrepareFails(c) \/ q.pc \in EffectSteps
    BY DEF KeepPath, MakeDirectory, SecureDirectory, BackUp, PlanRemoval, ReplaceFile,
           ActionFails, Verify, Assess, Undo, UndoFails, EffectSteps, PromotionSteps, Starting,
           ApplySteps
  <1>3. q.pc \in PromotionSteps \ Starting
    BY <1>2, StepNames DEF PrepareFails, PromotionSteps, Starting
  <1>4. \A t : /\ t.on = q.on /\ t.copy = q.copy
               /\ t.pc \in PromotionSteps \ Starting
               /\ t.pc \in EffectSteps => q.pc \in EffectSteps
               /\ Become(c, t)
               => RecordDiscipline'
    BY <1>1, <1>3, AdvanceDiscipline
  (* What each step makes of the local state. *)
  <1>5. \A s : LET t == Completed(q, s) IN
                 t.on = q.on /\ t.copy = q.copy /\ t.pc \in {"verify", "apply"}
    BY <1>1 DEF Completed, Process
  <1>6. LET t == RollingBack(q) IN
          t.on = q.on /\ t.copy = q.copy /\ t.pc \in {"finish", "rollback"}
    BY <1>1 DEF RollingBack, Process
  <1>7. \A ok \in BOOLEAN : LET t == AfterUndo(q, ok) IN
          t.on = q.on /\ t.copy = q.copy /\ t.pc \in {"finish", "rollback"}
    BY <1>1 DEF AfterUndo, Process
  <1>8. {"apply", "chmod", "replace", "verify", "assess", "commit", "rollback", "finish"}
          \subseteq PromotionSteps \ Starting
    BY DEF PromotionSteps, Starting, ApplySteps
  <1>9. "finish" \notin EffectSteps
    BY DEF EffectSteps, Starting
  <1>10. CASE KeepPath(c) \/ SecureDirectory(c) \/ ReplaceFile(c)
    <2>1. \E s : Become(c, Completed(q, s))
      BY <1>10 DEF KeepPath, SecureDirectory, ReplaceFile
    <2>2. QED
      BY <1>2, <1>4, <1>5, <1>8, <1>10, <2>1
      DEF KeepPath, SecureDirectory, ReplaceFile, EffectSteps, Starting
  <1>11. CASE MakeDirectory(c) \/ BackUp(c) \/ PlanRemoval(c)
    <2>1. PICK pc \in {"chmod", "replace"}, s \in Strategies :
            Become(c, [q EXCEPT !.pc = pc, !.strategy = s])
      <3>1. /\ q.strategy \in Strategies
            /\ [q EXCEPT !.pc = "chmod"] = [q EXCEPT !.pc = "chmod", !.strategy = q.strategy]
        BY <1>1 DEF Process
      <3>2. QED
        BY <1>11, <3>1 DEF MakeDirectory, BackUp, PlanRemoval, Strategies
    <2> DEFINE t == [q EXCEPT !.pc = pc, !.strategy = s]
    <2>2. t.on = q.on /\ t.copy = q.copy /\ t.pc = pc
      BY <1>1 DEF Process
    <2>3. q.pc \in EffectSteps
      BY <1>11 DEF MakeDirectory, BackUp, PlanRemoval, EffectSteps, PromotionSteps, Starting,
                   ApplySteps
    <2> HIDE DEF t
    <2>4. QED
      BY <1>4, <1>8, <2>1, <2>2, <2>3 DEF t
  <1>12. CASE ActionFails(c)
    BY <1>2, <1>4, <1>6, <1>8, <1>9, <1>12
    DEF ActionFails, EffectSteps, PromotionSteps, Starting, ApplySteps
  <1>13. CASE Verify(c) \/ Assess(c)
    <2>1. q.pc \in EffectSteps
      BY <1>13 DEF Verify, Assess, EffectSteps, PromotionSteps, Starting
    <2>2. \/ \E t : /\ Become(c, t) /\ t.on = q.on /\ t.copy = q.copy
                    /\ t.pc \in {"assess", "commit"}
          \/ Become(c, RollingBack(q))
      <3>1. CASE Verify(c)
        <4> DEFINE t == [q EXCEPT !.pc = "assess"]
        <4>1. t.on = q.on /\ t.copy = q.copy /\ t.pc = "assess"
          BY <1>1 DEF Process
        <4>2. Become(c, t) \/ Become(c, RollingBack(q))
          BY <3>1 DEF Verify
        <4> HIDE DEF t
        <4>3. QED
          BY <4>1, <4>2
      <3>2. CASE Assess(c)
        <4>1. PICK after : \/ Become(c, [q EXCEPT !.pc = "commit", !.after = after])
                           \/ Become(c, RollingBack(q))
          BY <3>2 DEF Assess
        <4> DEFINE t == [q EXCEPT !.pc = "commit", !.after = after]
        <4>2. t.on = q.on /\ t.copy = q.copy /\ t.pc = "commit"
          BY <1>1 DEF Process
        <4>3. Become(c, t) \/ Become(c, RollingBack(q))
          BY <4>1
        <4> HIDE DEF t
        <4>4. QED
          BY <4>2, <4>3
      <3>3. QED
        BY <1>13, <3>1, <3>2
    <2>3. QED
      BY <1>4, <1>6, <1>8, <2>1, <2>2
  <1>14. CASE Undo(c) \/ UndoFails(c)
    <2>1. \E ok \in BOOLEAN : Become(c, AfterUndo(q, ok))
      BY <1>14 DEF Undo, UndoFails
    <2>2. q.pc \in EffectSteps
      BY <1>14 DEF Undo, UndoFails, EffectSteps, PromotionSteps, Starting
    <2>3. QED
      BY <1>4, <1>7, <1>8, <2>1, <2>2
  <1>15. CASE PrepareFails(c)
    <2> DEFINE t == [q EXCEPT !.pc = "finish"]
    <2>1. t.on = q.on /\ t.copy = q.copy /\ t.pc = "finish"
      BY <1>1 DEF Process
    <2>2. Become(c, t)
      BY <1>15 DEF PrepareFails
    <2> HIDE DEF t
    <2>3. QED
      BY <1>4, <1>8, <1>9, <2>1, <2>2
  <1>16. QED
    BY <1>10, <1>11, <1>12, <1>13, <1>14, <1>15

(* Refusals, failed saves, crashes and the edits of other programs. *)
LEMMA DisturbanceDiscipline ==
  ASSUME TypeOK, RecordDiscipline
  PROVE  /\ \A c \in Procs : Refuse(c) \/ SaveFails(c) \/ Crash(c) => RecordDiscipline'
         /\ \A x \in Paths, v \in EditValues : EditFile(x, v) => RecordDiscipline'
         /\ \A p \in Proposals, d \in Definitions : EditRecord(p, d) => RecordDiscipline'
  <1>1. ASSUME NEW c \in Procs, Refuse(c) \/ SaveFails(c) \/ Crash(c)
        PROVE  RecordDiscipline'
    BY <1>1, QuitDiscipline DEF Refuse, SaveFails, Crash
  <1>2. ASSUME NEW x \in Paths, NEW v \in EditValues, EditFile(x, v)
        PROVE  RecordDiscipline'
    BY <1>2
    DEF EditFile, RecordDiscipline, LockedCopyIsCurrent, ClaimsAreExclusive,
        RecordsAreConsistent, StepsFitRecords
  <1>3. ASSUME NEW p \in Proposals, NEW d \in Definitions, EditRecord(p, d)
        PROVE  RecordDiscipline'
    <2> DEFINE r == store[p]
               s == [r EXCEPT !.actions = d]
    <2>1. r \in Record /\ lock[p] = None
      BY <1>3 DEF EditRecord, TypeOK, LockFree
    <2>2. Consistent(r) /\ dir[p]
      BY <2>1, NoneAssumption DEF RecordDiscipline, RecordsAreConsistent, Consistent
    <2>3. Consistent(s)
      <3> HIDE DEF r
      <3>1. QED
        BY <2>1, <2>2 DEF Consistent, Record
    <2>4. /\ store'[p] = s /\ \A o \in Proposals \ {p} : store'[o] = store[o]
          /\ UNCHANGED <<dir, lock, proc>>
      BY <1>3 DEF EditRecord, TypeOK
    <2>5. \A e \in Procs : proc[e].pc # "idle" => proc[e].on \in Proposals
      BY RunningType
    <2>6. LockedCopyIsCurrent'
      BY <2>1, <2>4, <2>5, StepNames, ConstantsAssumption
      DEF RecordDiscipline, LockedCopyIsCurrent, Locking
    <2>7. ClaimsAreExclusive'
      BY <2>1, <2>4, <2>5, NoneAssumption DEF RecordDiscipline, ClaimsAreExclusive
    <2>8. RecordsAreConsistent'
      <3> HIDE DEF s
      <3>1. QED
        BY <2>2, <2>3, <2>4 DEF RecordDiscipline, RecordsAreConsistent, Consistent
    <2>9. StepsFitRecords'
      BY <2>4 DEF RecordDiscipline, StepsFitRecords
    <2>10. QED
      BY <2>6, <2>7, <2>8, <2>9 DEF RecordDiscipline
  <1>4. QED
    BY <1>1, <1>2, <1>3

(* RecordDiscipline is inductive, given the types. *)
LEMMA NextDiscipline == TypeOK /\ RecordDiscipline /\ [Next]_vars => RecordDiscipline'
  <1> SUFFICES ASSUME TypeOK, RecordDiscipline, [Next]_vars PROVE RecordDiscipline'
    OBVIOUS
  <1>1. CASE UNCHANGED vars
    BY <1>1
    DEF vars, RecordDiscipline, LockedCopyIsCurrent, ClaimsAreExclusive,
        RecordsAreConsistent, StepsFitRecords
  <1>2. ASSUME NEW c \in Procs, Step(c) PROVE RecordDiscipline'
    BY <1>2, RecordStepDiscipline, BeginDiscipline, EffectDiscipline, DisturbanceDiscipline
    DEF Step
  <1>3. ASSUME NEW c \in Procs, PrepareFails(c) \/ SaveFails(c) \/ Crash(c)
        PROVE  RecordDiscipline'
    BY <1>3, EffectDiscipline, DisturbanceDiscipline
  <1>4. QED
    BY <1>1, <1>2, <1>3, StartDiscipline, DisturbanceDiscipline DEF Next

-----------------------------------------------------------------------------
(* The theorems.                                                           *)

(* Commands, locks and durable records fit together in every behaviour:    *)
(* the invariant from which the theorems below follow.                     *)
THEOREM DisciplineHolds == Spec => []RecordDiscipline
  BY TypeCorrect, InitDiscipline, NextDiscipline, PTL DEF Spec

(* A command that has a proposal open holds its lock, and its copy in      *)
(* memory is what the disk holds: no update of another command is lost.    *)
THEOREM LockedCopyIsAlwaysCurrent == Spec => []LockedCopyIsCurrent
  <1>1. RecordDiscipline => LockedCopyIsCurrent
    BY DEF RecordDiscipline
  <1>2. QED
    BY <1>1, DisciplineHolds, PTL

(* Promotion only ever applies the action list that was classified, however *)
(* the stored list is edited between the commands.                         *)
THEOREM OnlyClassifiedActionsEverRun == Spec => []OnlyClassifiedActionsRun
  <1>1. RecordDiscipline => OnlyClassifiedActionsRun
    BY DEF RecordDiscipline, StepsFitRecords, OnlyClassifiedActionsRun
  <1>2. QED
    BY <1>1, DisciplineHolds, PTL

-----------------------------------------------------------------------------
(* No command is ever stuck.                                               *)

(* The guards of the actions of Step(c), in their order.                   *)
CanGoOn(c) ==
  LET q == proc[c]
      v == fs[Current(c).path]
  IN
  \/ q.pc = "create" /\ LockFree(q.on)                      \* WriteDraft
  \/ q.pc = "classify" /\ Inspectable(q.copy.actions)       \* Classify
  \/ q.pc \in {"approve", "reject"}                         \* Approve, Reject
  \/ Refusable(c)                                           \* Refuse
  \/ q.pc = "promote" /\ MayPromote(q.copy)                 \* Reinspect
  \/ q.pc \in Starting                                     \* AssessBefore, Begin
  \/ q.pc = "prepare"                                       \* Prepare
  \/ /\ q.pc = "apply" /\ Current(c).type = "mkdir"         \* KeepPath, MakeDirectory
     /\ v # Absent \/ HasParent(Current(c).path)
  \/ q.pc = "chmod"                                         \* SecureDirectory
  \/ /\ q.pc = "apply" /\ Current(c).type = "write"         \* BackUp, PlanRemoval
     /\ v \in Contents \/ v = Absent
  \/ q.pc = "replace" /\ Writable(Current(c).path)          \* ReplaceFile
  \/ q.pc \in ApplySteps /\ Impossible(c)                   \* ActionFails
  \/ q.pc \in {"verify", "assess", "commit"}                \* Verify, Assess, Commit
  \/ q.pc = "rollback" /\ Restorable(c)                     \* Undo
  \/ q.pc = "rollback" /\ ~Restorable(c)                    \* UndoFails
  \/ q.pc = "finish"                                        \* Finish

NobodyIsStuck == \A c \in Procs : proc[c].pc # "idle" => CanGoOn(c)

(* The lock of a new proposal is free: only a record lets a command open   *)
(* the proposal, and the first record is the creator's.                    *)
LEMMA CreatorFindsLockFree ==
  ASSUME TypeOK, LocksAreHeld, RecordDiscipline, NEW c \in Procs, proc[c].pc = "create"
  PROVE  LockFree(proc[c].on)
  <1> DEFINE p == proc[c].on
             e == lock[p]
  <1>1. p \in Proposals
    BY RunningType
  <1>2. store[p] = None
    BY DEF RecordDiscipline, ClaimsAreExclusive
  <1>3. SUFFICES ASSUME e # None PROVE FALSE
    BY DEF LockFree
  <1>4. e \in Procs /\ proc[e].pc \in Operations \cup PromotionSteps /\ proc[e].on = p
    BY <1>1, <1>3 DEF LocksAreHeld, TypeOK
  <1>5. proc[e].copy \in Record
    BY <1>4, StepNames, RunningType DEF Locking
  <1>6. store[p] = proc[e].copy
    BY <1>4 DEF RecordDiscipline, LockedCopyIsCurrent
  <1>7. QED
    BY <1>2, <1>5, <1>6, NoneAssumption

(* A command that runs has a next step, whatever the others have made of   *)
(* the tree: no call of create, classify, approve, reject or promote waits *)
(* for anybody, and no case of the tree is left without a handler.         *)
LEMMA EveryoneGoesOn ==
  ASSUME TypeOK, LocksAreHeld, RecordDiscipline
  PROVE  NobodyIsStuck
  <1> SUFFICES ASSUME NEW c \in Procs, proc[c].pc # "idle" PROVE CanGoOn(c)
    BY DEF NobodyIsStuck
  <1>1. proc[c].pc \in {"create"} \cup Operations \cup PromotionSteps
    BY RunningType DEF Process
  <1>2. CASE proc[c].pc = "create"
    BY <1>2, CreatorFindsLockFree DEF CanGoOn
  <1>3. CASE proc[c].pc \in Operations
    BY <1>3 DEF CanGoOn, Operations, Refusable
  <1>4. CASE proc[c].pc \in ApplySteps
    <2> DEFINE a == Current(c)
               v == fs[a.path]
    <2>1. a \in Action /\ a.path \in Paths
      BY <1>4, CurrentType
    <2>2. a.type \in {"mkdir", "write"}
      BY <2>1 DEF Action
    <2>3. v \in Contents \cup {Absent, Directory}
      BY <2>1 DEF TypeOK, FsValues
    <2>4. CASE proc[c].pc = "apply" /\ a.type = "mkdir"
      BY <2>4 DEF CanGoOn, Impossible, ApplySteps
    <2>5. CASE proc[c].pc = "apply" /\ a.type = "write"
      BY <2>3, <2>5 DEF CanGoOn, Impossible, ApplySteps
    <2>6. CASE proc[c].pc \in {"chmod", "replace"}
      BY <2>6 DEF CanGoOn, Impossible, ApplySteps
    <2>7. QED
      BY <1>4, <2>2, <2>4, <2>5, <2>6 DEF ApplySteps
  <1>5. CASE proc[c].pc \in PromotionSteps \ ApplySteps
    BY <1>5 DEF CanGoOn, PromotionSteps, Starting
  <1>6. QED
    BY <1>1, <1>2, <1>3, <1>4, <1>5

(* In every behaviour each running command can take its next step.  With   *)
(* CommandsComeToAnEnd: a scheduler that runs it brings it to its end in   *)
(* as many steps as StepsLeft says, and its lock is free again.            *)
THEOREM NobodyIsEverStuck == Spec => []NobodyIsStuck
  BY EveryoneGoesOn, TypeCorrect, LocksAreAlwaysHeld, DisciplineHolds, PTL

-----------------------------------------------------------------------------
(* Intent before effect.                                                   *)

(* Whoever changes the tree on behalf of a proposal finds it applying. *)
LEMMA EffectIsIntended ==
  ASSUME TypeOK, RecordDiscipline, Next, fs' # fs, NEW c \in Procs, proc'[c] # proc[c]
  PROVE  LET r == store[proc[c].on] IN r.state = "applying" /\ r.recovery = "ready"
  <1>1. PICK e \in Procs : MakeDirectory(e) \/ ReplaceFile(e) \/ Undo(e)
    <2>1. PICK e \in Procs : Step(e)
      BY DEF Next, ClaimId, Open, PrepareFails, SaveFails, Crash, EditFile, EditRecord
    <2>2. ~(WriteDraft(e) \/ Classify(e) \/ Approve(e) \/ Reject(e) \/ Refuse(e))
      BY DEF WriteDraft, Classify, Approve, Reject, Refuse
    <2>3. ~(Reinspect(e) \/ AssessBefore(e) \/ Begin(e) \/ Prepare(e))
      BY DEF Reinspect, AssessBefore, Begin, Prepare
    <2>4. ~(KeepPath(e) \/ SecureDirectory(e) \/ BackUp(e) \/ PlanRemoval(e) \/ ActionFails(e))
      BY DEF KeepPath, SecureDirectory, BackUp, PlanRemoval, ActionFails
    <2>5. ~(Verify(e) \/ Assess(e) \/ Commit(e) \/ UndoFails(e) \/ Finish(e))
      BY DEF Verify, Assess, Commit, UndoFails, Finish
    <2>6. QED
      BY <2>1, <2>2, <2>3, <2>4, <2>5 DEF Step
  <1>2. e = c
    <2>1. \E q : Become(e, q)
      BY <1>1 DEF MakeDirectory, ReplaceFile, Undo
    <2>2. QED
      BY <2>1 DEF Become, TypeOK
  <1>3. proc[c].pc \in EffectSteps /\ proc[c].pc \in PromotionSteps
    BY <1>1, <1>2
    DEF MakeDirectory, ReplaceFile, Undo, EffectSteps, PromotionSteps, Starting, ApplySteps
  <1>4. /\ proc[c].copy.state = "applying" /\ proc[c].copy.recovery = "ready"
        /\ store[proc[c].on] = proc[c].copy
    BY <1>3, StepNames DEF RecordDiscipline, StepsFitRecords, LockedCopyIsCurrent
  <1>5. QED
    BY <1>4

(* No command touches the configuration tree unless the record on disk     *)
(* says that its proposal is applying, with recovery data ready.           *)
THEOREM IntentAlwaysBeforeEffect == Spec => IntentBeforeEffect
  <1>1. TypeOK /\ RecordDiscipline /\ [Next]_vars =>
          [\A c \in Procs : fs' # fs /\ proc'[c] # proc[c] =>
             LET r == store[proc[c].on] IN r.state = "applying" /\ r.recovery = "ready"]_vars
    BY EffectIsIntended
  <1>2. QED
    BY <1>1, TypeCorrect, DisciplineHolds, PTL DEF Spec, IntentBeforeEffect

-----------------------------------------------------------------------------
(* The lifecycle.                                                          *)

HistoryOf(r) == IF r = None THEN <<>> ELSE r.history

Histories == [p \in Proposals |-> HistoryOf(store[p])]

(* No history is a state in which the abstract lifecycle starts. *)
LEMMA LifecycleInit == Init => Lifecycle!Init
  BY DEF Init, Lifecycle!Init

(* One record is replaced by one with a longer history: a lifecycle step. *)
LEMMA LifecycleStep ==
  ASSUME TypeOK, RecordDiscipline, NEW p \in Proposals, NEW r \in Record, Save(p, r),
         \/ store[p] = None /\ r.history = <<"draft">>
         \/ store[p] # None /\ r.history = store[p].history
         \/ /\ store[p] # None
            /\ <<store[p].state, r.state>> \in Lifecycle!Edges
            /\ r.history = Append(store[p].history, r.state)
  PROVE  [Lifecycle!Next]_Histories
  <1>1. store'[p] = r /\ \A o \in Proposals \ {p} : store'[o] = store[o]
    BY DEF Save, TypeOK
  <1>2. r # None
    BY NoneAssumption
  <1>3. Histories' = [Histories EXCEPT ![p] = r.history]
    <2>1. \A o \in Proposals : HistoryOf(store'[o]) =
            IF o = p THEN r.history ELSE HistoryOf(store[o])
      BY <1>1, <1>2 DEF HistoryOf
    <2>2. QED
      BY <2>1 DEF Histories
  <1>4. CASE store[p] = None /\ r.history = <<"draft">>
    <2>1. Histories[p] = <<>>
      BY <1>4 DEF Histories, HistoryOf
    <2>2. Lifecycle!Create(p)
      BY <1>3, <1>4, <2>1 DEF Lifecycle!Create, Histories, HistoryOf
    <2>3. QED
      BY <2>2 DEF Lifecycle!Next
  <1>5. CASE store[p] # None /\ r.history = store[p].history
    <2>1. Histories[p] = r.history
      BY <1>5 DEF Histories, HistoryOf
    <2>2. QED
      BY <1>3, <2>1 DEF Histories
  <1>6. CASE /\ store[p] # None
             /\ <<store[p].state, r.state>> \in Lifecycle!Edges
             /\ r.history = Append(store[p].history, r.state)
    <2>1. /\ Histories[p] = store[p].history /\ Histories[p] # <<>>
          /\ Histories[p][Len(Histories[p])] = store[p].state
      BY <1>6 DEF Histories, HistoryOf, RecordDiscipline, RecordsAreConsistent
    <2>2. r.state \in Lifecycle!States
      BY DEF Record, ProposalStates, Lifecycle!States, Lifecycle!TerminalStates
    <2>3. Lifecycle!Move(p, r.state)
      BY <1>3, <1>6, <2>1 DEF Lifecycle!Move, Histories, HistoryOf
    <2>4. QED
      BY <2>2, <2>3 DEF Lifecycle!Next
  <1>7. QED
    BY <1>4, <1>5, <1>6

(* Each saving command moves its proposal along one edge. *)
LEMMA SavesAreLifecycleSteps ==
  ASSUME TypeOK, RecordDiscipline, NEW c \in Procs,
         \/ WriteDraft(c) \/ Classify(c) \/ Approve(c) \/ Reject(c) \/ Begin(c)
         \/ Prepare(c) \/ Commit(c) \/ Finish(c)
  PROVE  [Lifecycle!Next]_Histories
  <1> DEFINE q == proc[c]
             p == q.on
             r == q.copy
  <1>1. p \in Proposals /\ r \in Record /\ r.actions \in Definitions
    <2>1. q.pc # "idle"
      BY DEF WriteDraft, Classify, Approve, Reject, Begin, Prepare, Commit, Finish
    <2>2. QED
      BY <2>1, RunningType
  <1>2. WriteDraft(c) \/ store[p] = r
    BY DEF RecordDiscipline, LockedCopyIsCurrent, Operations, PromotionSteps, Starting, Classify,
           Approve, Reject, Reinspect, AssessBefore, Begin, Prepare, Commit, Finish
  (* A save of s moved along an edge, where s differs from r in neither *)
  (* history nor state.                                                 *)
  <1>3. ASSUME NEW s \in Record, s.history = r.history, s.state = r.state,
               NEW to \in ProposalStates, <<r.state, to>> \in Lifecycle!Edges,
               store[p] = r, Save(p, Transition(s, to))
        PROVE  [Lifecycle!Next]_Histories
    <2> DEFINE t == Transition(s, to)
    <2>1. t \in Record /\ t.state = to /\ t.history = Append(s.history, to)
      BY <1>3, TransitionType
    <2>2. t.history = Append(r.history, to) /\ store[p] # None
      BY <1>1, <1>3, <2>1, NoneAssumption
    <2> HIDE DEF t
    <2>3. QED
      BY <1>1, <1>3, <2>1, <2>2, LifecycleStep DEF t
  <1>4. {"classified", "approved", "rejected", "applying", "committed", "rolled_back",
         "failed"} \subseteq ProposalStates
    BY DEF ProposalStates
  <1>5. \A pc \in Operations : q.pc = pc => r.state \in Required(pc)
    BY DEF RecordDiscipline, StepsFitRecords
  <1>6. /\ q.pc \in Starting => r.state = "approved"
        /\ q.pc \in PromotionSteps \ Starting => r.state = "applying"
    BY DEF RecordDiscipline, StepsFitRecords
  <1>7. CASE WriteDraft(c)
    <2>1. /\ store[p] = None /\ Save(p, r)
          /\ \E d \in Definitions : r = NewRecord(d)
      BY <1>7 DEF WriteDraft, Conclude, RecordDiscipline, ClaimsAreExclusive
    <2>2. r.history = <<"draft">>
      BY <2>1 DEF NewRecord
    <2>3. QED
      BY <1>1, <2>1, <2>2, LifecycleStep
  <1>8. CASE Classify(c)
    <2> DEFINE s == [r EXCEPT !.classified = r.actions, !.targets = Observed(r.actions),
                              !.recovery = "planned"]
    <2>1. Observed(r.actions) \in Seq(FsValues)
      BY <1>1, ObservedType DEF TypeOK
    <2>2. s \in Record /\ s.history = r.history /\ s.state = r.state
      BY <1>1, <2>1 DEF Record
    <2>3. <<r.state, "classified">> \in Lifecycle!Edges
      BY <1>5, <1>8, RequiredStates DEF Classify, Operations, Lifecycle!Edges
    <2>4. store[p] = r /\ Save(p, Transition(s, "classified"))
      BY <1>2, <1>8 DEF Classify, Conclude, WriteDraft
    <2>5. QED
      BY <1>3, <1>4, <2>2, <2>3, <2>4
  <1>9. CASE Approve(c)
    <2> DEFINE s == [r EXCEPT !.approved = r.classified]
    <2>1. s \in Record /\ s.history = r.history /\ s.state = r.state
      BY <1>1 DEF Record
    <2>2. <<r.state, "approved">> \in Lifecycle!Edges
      BY <1>5, <1>9, RequiredStates DEF Approve, Operations, Lifecycle!Edges
    <2>3. store[p] = r /\ Save(p, Transition(s, "approved"))
      BY <1>2, <1>9 DEF Approve, Conclude, WriteDraft
    <2>4. QED
      BY <1>3, <1>4, <2>1, <2>2, <2>3
  <1>10. CASE Reject(c)
    <2>1. <<r.state, "rejected">> \in Lifecycle!Edges
      BY <1>5, <1>10, RequiredStates DEF Reject, Operations, Lifecycle!Edges
    <2>2. store[p] = r /\ Save(p, Transition(r, "rejected"))
      BY <1>2, <1>10 DEF Reject, Conclude, WriteDraft
    <2>3. QED
      BY <1>1, <1>3, <1>4, <2>1, <2>2
  <1>11. CASE Begin(c)
    <2>1. <<r.state, "applying">> \in Lifecycle!Edges
      BY <1>6, <1>11 DEF Begin, Starting, Lifecycle!Edges
    <2>2. store[p] = r /\ Save(p, Transition(r, "applying"))
      BY <1>2, <1>11 DEF Begin, WriteDraft
    <2>3. QED
      BY <1>1, <1>3, <1>4, <2>1, <2>2
  <1>12. CASE Prepare(c)
    <2> DEFINE s == [r EXCEPT !.recovery = "ready"]
    <2>1. s \in Record /\ s.history = r.history
      BY <1>1 DEF Record
    <2>2. store[p] = r /\ store[p] # None /\ Save(p, s)
      BY <1>1, <1>2, <1>12, NoneAssumption DEF Prepare, WriteDraft
    <2> HIDE DEF s
    <2>3. QED
      BY <1>1, <2>1, <2>2, LifecycleStep
  <1>13. CASE Commit(c)
    <2> DEFINE s == [r EXCEPT !.recovery = "available"]
    <2>1. s \in Record /\ s.history = r.history /\ s.state = r.state
      BY <1>1 DEF Record
    <2>2. <<r.state, "committed">> \in Lifecycle!Edges
      BY <1>6, <1>13 DEF Commit, PromotionSteps, Starting, Lifecycle!Edges
    <2>3. store[p] = r /\ Save(p, Transition(s, "committed"))
      BY <1>2, <1>13 DEF Commit, Conclude, WriteDraft
    <2>4. QED
      BY <1>3, <1>4, <2>1, <2>2, <2>3
  <1>14. CASE Finish(c)
    <2> DEFINE s  == [r EXCEPT !.recovery = IF q.clean THEN "restored" ELSE "failed"]
               to == IF q.clean THEN "rolled_back" ELSE "failed"
    <2>1. s \in Record /\ s.history = r.history /\ s.state = r.state
      BY <1>1 DEF Record
    <2>2. to \in ProposalStates /\ <<r.state, to>> \in Lifecycle!Edges
      BY <1>4, <1>6, <1>14 DEF Finish, PromotionSteps, Starting, Lifecycle!Edges
    <2>3. store[p] = r /\ Save(p, Transition(s, to))
      BY <1>2, <1>14 DEF Finish, Conclude, WriteDraft
    <2> HIDE DEF s, to
    <2>4. QED
      BY <1>3, <2>1, <2>2, <2>3
  <1>15. QED
    BY <1>7, <1>8, <1>9, <1>10, <1>11, <1>12, <1>13, <1>14

(* The steps of a command that change a record on disk. *)
LEMMA OnlySavesStore ==
  ASSUME NEW c \in Procs, Step(c), store' # store
  PROVE  \/ WriteDraft(c) \/ Classify(c) \/ Approve(c) \/ Reject(c) \/ Begin(c)
         \/ Prepare(c) \/ Commit(c) \/ Finish(c)
  <1>1. ~(Refuse(c) \/ Reinspect(c) \/ AssessBefore(c))
    BY DEF Refuse, Reinspect, AssessBefore
  <1>2. ~(KeepPath(c) \/ MakeDirectory(c) \/ SecureDirectory(c) \/ BackUp(c))
    BY DEF KeepPath, MakeDirectory, SecureDirectory, BackUp
  <1>3. ~(PlanRemoval(c) \/ ReplaceFile(c) \/ ActionFails(c))
    BY DEF PlanRemoval, ReplaceFile, ActionFails
  <1>4. ~(Verify(c) \/ Assess(c) \/ Undo(c) \/ UndoFails(c))
    BY DEF Verify, Assess, Undo, UndoFails
  <1>5. QED
    BY <1>1, <1>2, <1>3, <1>4 DEF Step

(* Every step maps to a step of the lifecycle or leaves it alone. *)
LEMMA NextIsLifecycleStep ==
  TypeOK /\ RecordDiscipline /\ [Next]_vars => [Lifecycle!Next]_Histories
  <1> SUFFICES ASSUME TypeOK, RecordDiscipline, [Next]_vars
               PROVE  [Lifecycle!Next]_Histories
    OBVIOUS
  <1>1. CASE store' = store
    BY <1>1 DEF Histories, HistoryOf
  <1>2. ASSUME NEW c \in Procs,
               \/ WriteDraft(c) \/ Classify(c) \/ Approve(c) \/ Reject(c) \/ Begin(c)
               \/ Prepare(c) \/ Commit(c) \/ Finish(c)
        PROVE  [Lifecycle!Next]_Histories
    BY <1>2, SavesAreLifecycleSteps
  <1>3. ASSUME NEW p \in Proposals, NEW d \in Definitions, EditRecord(p, d)
        PROVE  [Lifecycle!Next]_Histories
    <2> DEFINE r == store[p]
               s == [r EXCEPT !.actions = d]
    <2>1. r \in Record
      BY <1>3 DEF EditRecord, TypeOK
    <2>2. s \in Record /\ s.history = r.history
      <3> HIDE DEF r
      <3>1. QED
        BY <2>1 DEF Record
    <2>3. Save(p, s) /\ store[p] # None
      BY <1>3 DEF EditRecord, Save
    <2> HIDE DEF s
    <2>4. QED
      BY <2>2, <2>3, LifecycleStep
  <1>4. store' = store
        \/ (\E c \in Procs :
              \/ WriteDraft(c) \/ Classify(c) \/ Approve(c) \/ Reject(c) \/ Begin(c)
              \/ Prepare(c) \/ Commit(c) \/ Finish(c))
        \/ \E p \in Proposals, d \in Definitions : EditRecord(p, d)
    BY OnlySavesStore DEF Next, vars, ClaimId, Open, PrepareFails, SaveFails, Crash, EditFile
  <1>5. QED
    BY <1>1, <1>2, <1>3, <1>4

(* jiritsu-proposals implements the lifecycle: each durable history grows  *)
(* one edge at a time and ends for good in a terminal state, however many  *)
(* commands race, fail or die.                                             *)
THEOREM LifecycleImplemented == Spec => ImplementsLifecycle
  <1>1. Histories = [p \in Proposals |-> IF store[p] = None THEN <<>> ELSE store[p].history]
    BY DEF Histories, HistoryOf
  <1>2. TypeOK /\ RecordDiscipline /\ [Next]_vars =>
          [Lifecycle!Next]_([p \in Proposals |->
                               IF store[p] = None THEN <<>> ELSE store[p].history])
    BY NextIsLifecycleStep DEF Histories, HistoryOf
  <1>3. QED
    BY <1>2, LifecycleInit, TypeCorrect, DisciplineHolds, PTL
    DEF Spec, ImplementsLifecycle, Lifecycle!Spec

-----------------------------------------------------------------------------
(* What promotions do to the configuration tree.                           *)

PathOf(r, i) == r.classified[i].path
NewOf(r, i)  == IF r.classified[i].type = "mkdir" THEN Directory ELSE r.classified[i].content

(* inspect_actions recorded one observation for each classified action,    *)
(* of a kind that the action accepts.                                      *)
Inspected(r) ==
  /\ r.classified \in Definitions
  /\ DOMAIN r.targets = 1..Len(r.classified)
  /\ \A i \in 1..Len(r.classified) :
       /\ r.classified[i].type = "mkdir" => r.targets[i] \in {Absent, Directory}
       /\ r.classified[i].type = "write" => r.targets[i] \in Contents \cup {Absent}

(* Target i has its old value, or the new one, or was changed by others.   *)
OldAt(r, f, D, i) == PathOf(r, i) \in D \/ f[PathOf(r, i)] = r.targets[i]
NewAt(r, f, D, i) == PathOf(r, i) \in D \/ f[PathOf(r, i)] = NewOf(r, i)

(* Recovery s brings target i back to its old value. *)
Undoable(r, B, D, i, s) ==
  \/ PathOf(r, i) \in D
  \/ /\ s = "no_change" => r.targets[i] = NewOf(r, i)
     /\ s = "restore_backup" => r.targets[i] = B[PathOf(r, i)]
     /\ s \in {"remove_created_directory", "remove_created_file"} => r.targets[i] = Absent

(* What CrashRecoverable says of one proposal with record r, copies B,     *)
(* tree f, and paths D that others changed.                                *)
Recoverable(r, B, f, D) ==
  /\ Inspected(r)
  /\ \A i \in 1..Len(r.classified) :
       \/ PathOf(r, i) \in D
       \/ /\ f[PathOf(r, i)] \in {r.targets[i], NewOf(r, i)}
          /\ r.targets[i] \in Contents =>
               r.targets[i] \in {f[PathOf(r, i)], B[PathOf(r, i)]}

(* The first n actions are complete, and on record with a way back. *)
Complete(q, B, D, n) ==
  /\ n \in 0..Len(q.copy.classified) /\ Len(q.applied) = n
  /\ \A i \in 1..n : /\ q.applied[i].path = PathOf(q.copy, i)
                     /\ Undoable(q.copy, B, D, i, q.applied[i].recovery)

(* The actions up to n are done, the others are not. *)
Split(q, f, D, n) ==
  \A i \in 1..Len(q.copy.classified) :
    IF i <= n THEN NewAt(q.copy, f, D, i) ELSE OldAt(q.copy, f, D, i)

(* Target i is a directory that was created, and whose chmod failed. *)
Residue(r, f, i) ==
  /\ "chmod" \in Troubles /\ r.classified[i].type = "mkdir"
  /\ r.targets[i] = Absent /\ f[PathOf(r, i)] = Directory

(* The targets after n have their old values, but for the one whose action *)
(* was under way when the promotion turned back.                           *)
Untouched(q, f, D, n) ==
  \A i \in 1..Len(q.copy.classified) : i > n =>
    OldAt(q.copy, f, D, i) \/ (i = Len(q.applied) + 1 /\ Residue(q.copy, f, i))

(* What a promotion at each of its steps finds in the tree. *)
Placed(q, B, f, D) ==
  /\ q.pc \in ApplySteps \cup {"baseline", "start", "prepare"} =>
       /\ q.next \in 1..Len(q.copy.classified)
       /\ Complete(q, B, D, q.next - 1)
  /\ q.pc \in {"baseline", "start", "prepare", "apply", "replace"} =>
       Split(q, f, D, q.next - 1)
  /\ q.pc = "chmod" => /\ Split(q, f, D, q.next)
                       /\ Undoable(q.copy, B, D, q.next, "remove_created_directory")
                       /\ q.copy.classified[q.next].type = "mkdir"
  /\ q.pc = "replace" => Undoable(q.copy, B, D, q.next, q.strategy)
  /\ q.pc \in {"verify", "assess", "commit"} =>
       /\ Complete(q, B, D, Len(q.copy.classified))
       /\ Split(q, f, D, Len(q.copy.classified))
  /\ q.pc = "commit" /\ None \notin {q.before, q.after} =>
       \A x \in Paths : f[x] \in Breaking => x \in q.before \cup D
  /\ q.pc = "rollback" =>
       /\ Complete(q, B, D, Len(q.applied))
       /\ Len(q.undo) \in 1..Len(q.applied)
       /\ \A j \in 1..Len(q.undo) : q.undo[j] = q.applied[Len(q.undo) - j + 1]
       /\ \A i \in 1..Len(q.applied) :
            IF i <= Len(q.undo) THEN NewAt(q.copy, f, D, i)
            ELSE q.clean => OldAt(q.copy, f, D, i)
       /\ Untouched(q, f, D, Len(q.applied))
  /\ q.pc = "finish" /\ q.clean => Untouched(q, f, D, 0)

TreeDiscipline ==
  /\ \A p \in Proposals : UnderWay(p) =>
       Recoverable(store[p], backup[p], fs, disturbed[p])
  /\ \A c \in Procs : proc[c].pc \in PromotionSteps =>
       Placed(proc[c], backup[proc[c].on], fs, disturbed[proc[c].on])
  /\ \A c \in Procs : proc[c].pc \in Operations => proc[c].applied = <<>>

(* What others change is among the paths that they disturb. *)
LEMMA OthersKeepRecoverable ==
  ASSUME NEW r, NEW B, NEW f, NEW D, NEW g, NEW E, Recoverable(r, B, f, D),
         D \subseteq E, \A x \in Paths : g[x] = f[x] \/ x \in E
  PROVE  Recoverable(r, B, g, E)
  <1>1. \A i \in 1..Len(r.classified) : PathOf(r, i) \in Paths
    BY DefinitionType DEF Recoverable, Inspected, PathOf
  <1>2. QED
    BY <1>1 DEF Recoverable

(* The same of the step at which a promotion is. *)
LEMMA OthersKeepPlaced ==
  ASSUME NEW q, NEW B, NEW f, NEW D, NEW g, NEW E, Inspected(q.copy), Placed(q, B, f, D),
         D \subseteq E, \A x \in Paths : g[x] = f[x] \/ x \in E
  PROVE  Placed(q, B, g, E)
  <1> DEFINE r == q.copy
             N == Len(r.classified)
  <1>1. N \in Nat /\ \A i \in 1..N : PathOf(r, i) \in Paths
    BY DefinitionType DEF Inspected, PathOf
  <1>2. \A i \in 1..N : /\ OldAt(r, f, D, i) => OldAt(r, g, E, i)
                        /\ NewAt(r, f, D, i) => NewAt(r, g, E, i)
                        /\ \A s : Undoable(r, B, D, i, s) => Undoable(r, B, E, i, s)
    BY <1>1 DEF OldAt, NewAt, Undoable
  <1>3. \A n : /\ Complete(q, B, D, n) => Complete(q, B, E, n)
               /\ Split(q, f, D, n) => Split(q, g, E, n)
               /\ Untouched(q, f, D, n) => Untouched(q, g, E, n)
    <2>1. \A i \in 1..N : Residue(r, f, i) => Residue(r, g, i) \/ OldAt(r, g, E, i)
      BY <1>1 DEF Residue, OldAt
    <2>2. \A n : Untouched(q, f, D, n) => Untouched(q, g, E, n)
      BY <1>1, <1>2, <2>1 DEF Untouched
    <2>3. QED
      BY <1>1, <1>2, <2>2 DEF Complete, Split
  <1>4. q.pc \in {"chmod", "replace"} => q.next \in 1..N
    BY DEF Placed, ApplySteps
  <1>5. q.pc = "rollback" => Len(q.applied) \in 0..N
    BY DEF Placed, Complete
  <1>6. QED
    BY <1>1, <1>2, <1>3, <1>4, <1>5 DEF Placed

(* A promotion that works on an inspected record. *)
Promotes(q) ==
  /\ q \in Process /\ WellFormed(q) /\ q.pc \in PromotionSteps
  /\ Inspected(q.copy) /\ q.copy.actions = q.copy.classified

(* The current action is the next target, and no other target is there. *)
LEMMA TargetsAre ==
  ASSUME NEW q, Promotes(q)
  PROVE  LET r == q.copy
             N == Len(r.classified)
         IN /\ r \in Record /\ N \in Nat \ {0}
            /\ \A i \in 1..N : /\ r.actions[i] = r.classified[i]
                               /\ r.actions[i].path = PathOf(r, i) /\ PathOf(r, i) \in Paths
                               /\ r.actions[i].type \in {"mkdir", "write"}
            /\ \A i, j \in 1..N : PathOf(r, i) = PathOf(r, j) => i = j
            /\ q.next \in Nat /\ (q.pc \in ApplySteps => q.next \in 1..N)
            /\ q.applied \in Seq(Applied) /\ q.undo \in Seq(Applied)
            /\ q.pc # "idle"
  <1> DEFINE d == q.copy.classified
  <1>1. q.copy \in Record /\ q.pc # "idle"
    BY DEF Promotes, WellFormed, PromotionSteps, Starting, ApplySteps
  <1>2. /\ Len(d) \in Nat \ {0} /\ DOMAIN d = 1..Len(d)
        /\ \A i \in 1..Len(d) : d[i] \in Action /\ d[i].path \in Paths
        /\ \A i, j \in 1..Len(d) : d[i].path = d[j].path => i = j
    BY DefinitionType, DefinitionsAssumption DEF Promotes, Inspected
  <1>3. \A i \in 1..Len(d) : d[i].type \in {"mkdir", "write"}
    BY <1>2 DEF Action
  <1>4. /\ q.next \in Nat /\ q.applied \in Seq(Applied) /\ q.undo \in Seq(Applied)
        /\ (q.pc \in ApplySteps => q.next \in DOMAIN d)
    BY DEF Promotes, Process, WellFormed
  <1>5. QED
    BY <1>1, <1>2, <1>3, <1>4 DEF PathOf, Promotes

(* An action is complete: the promotion goes on to the next one, or to its *)
(* verification.                                                           *)
LEMMA CompletedPlaced ==
  ASSUME NEW q, Promotes(q), q.pc \in ApplySteps, NEW B, NEW f, NEW D, NEW s \in Strategies,
         Complete(q, B, D, q.next - 1), Split(q, f, D, q.next), Undoable(q.copy, B, D, q.next, s)
  PROVE  Placed(Completed(q, s), B, f, D)
  <1> DEFINE N == Len(q.copy.classified)
             a == [path |-> q.copy.actions[q.next].path, recovery |-> s]
             t == Completed(q, s)
  <1>1. /\ N \in Nat \ {0} /\ q.next \in 1..N /\ q.copy.actions = q.copy.classified
        /\ q.applied \in Seq(Applied) /\ a.path = PathOf(q.copy, q.next) /\ a.recovery = s
        /\ a \in Applied
    <2>1. N \in Nat \ {0} /\ q.next \in 1..N /\ q.applied \in Seq(Applied)
      BY TargetsAre
    <2>2. q.copy.actions[q.next].path = PathOf(q.copy, q.next) /\ PathOf(q.copy, q.next) \in Paths
      BY <2>1, TargetsAre
    <2>3. QED
      BY <2>1, <2>2 DEF Promotes, Applied
  <1>2. /\ t.applied = Append(q.applied, a) /\ t.next = q.next + 1 /\ t.copy = q.copy
        /\ t.pc = IF q.next = N THEN "verify" ELSE "apply"
    BY <1>1 DEF Completed, Promotes, Process
  <1>3. Len(q.applied) = q.next - 1
    BY DEF Complete
  <1>4. /\ Len(t.applied) = q.next /\ t.applied[q.next] = a
        /\ \A i \in 1..(q.next - 1) : t.applied[i] = q.applied[i]
    BY <1>1, <1>2, <1>3
  <1>5. Complete(t, B, D, q.next)
    <2>1. ASSUME NEW i \in 1..q.next
          PROVE  /\ t.applied[i].path = PathOf(q.copy, i)
                 /\ Undoable(q.copy, B, D, i, t.applied[i].recovery)
      <3>1. CASE i = q.next
        BY <1>1, <1>4, <3>1
      <3>2. CASE i # q.next
        <4>1. i \in 1..(q.next - 1)
          BY <1>1, <2>1, <3>2
        <4>2. t.applied[i] = q.applied[i]
          BY <1>4, <4>1
        <4>3. QED
          BY <4>1, <4>2 DEF Complete
      <3>3. QED
        BY <3>1, <3>2
    <2>2. q.next \in 0..N /\ t.copy = q.copy /\ Len(t.applied) = q.next
      BY <1>1, <1>2, <1>4
    <2> HIDE DEF t
    <2>3. QED
      BY <2>1, <2>2 DEF Complete
  <1>6. Split(t, f, D, q.next)
    BY <1>2 DEF Split
  <1>7. QED
    BY <1>1, <1>2, <1>5, <1>6 DEF Placed, ApplySteps

(* A promotion that turns back undoes what is complete. *)
LEMMA RollingBackPlaced ==
  ASSUME NEW q, Promotes(q), NEW B, NEW f, NEW D, Placed(q, B, f, D),
         q.pc \in ApplySteps \cup {"verify", "assess"}, q.pc = "chmod" => "chmod" \in Troubles
  PROVE  Placed(RollingBack(q), B, f, D)
  <1> DEFINE N == Len(q.copy.classified)
             n == Len(q.applied)
             t == RollingBack(q)
  <1>1. N \in Nat \ {0} /\ q.next \in Nat /\ q.applied \in Seq(Applied)
    BY TargetsAre
  <1>2. /\ t.applied = q.applied /\ t.undo = RollbackPlan(q.applied) /\ t.copy = q.copy
        /\ t.pc = IF q.applied = <<>> THEN "finish" ELSE "rollback"
        /\ t.clean = q.clean
    BY DEF RollingBack, Promotes, Process
  <1>3. /\ n \in Nat /\ (q.applied = <<>> <=> n = 0)
        /\ Len(t.undo) = n /\ \A j \in 1..n : t.undo[j] = q.applied[n - j + 1]
    BY <1>1, <1>2 DEF RollbackPlan, Reverse
  <1>4. Complete(q, B, D, n)
    BY DEF Placed, Complete, ApplySteps
  <1>5. /\ \A i \in 1..N : i <= n => NewAt(q.copy, f, D, i)
        /\ Untouched(q, f, D, n)
    <2>1. CASE q.pc \in {"apply", "replace"}
      <3>1. n = q.next - 1 /\ Split(q, f, D, n)
        BY <2>1 DEF Placed, Complete, ApplySteps
      <3>2. QED
        BY <1>1, <1>3, <3>1 DEF Split, Untouched
    <2>2. CASE q.pc = "chmod"
      <3>1. /\ n = q.next - 1 /\ q.next \in 1..N /\ Split(q, f, D, q.next)
            /\ Undoable(q.copy, B, D, q.next, "remove_created_directory")
            /\ q.copy.classified[q.next].type = "mkdir"
        BY <2>2 DEF Placed, Complete, ApplySteps
      <3>2. NewAt(q.copy, f, D, q.next)
        BY <1>1, <3>1 DEF Split
      <3>3. OldAt(q.copy, f, D, q.next) \/ Residue(q.copy, f, q.next)
        BY <2>2, <3>1, <3>2 DEF NewAt, OldAt, NewOf, Undoable, Residue
      <3>4. \A i \in 1..N : /\ i <= n => NewAt(q.copy, f, D, i)
                            /\ i > n /\ i # q.next => OldAt(q.copy, f, D, i)
        BY <1>1, <1>3, <3>1 DEF Split
      <3>5. q.next = n + 1
        BY <1>1, <3>1
      <3>6. QED
        BY <3>3, <3>4, <3>5 DEF Untouched
    <2>3. CASE q.pc \in {"verify", "assess"}
      BY <1>1, <1>3, <2>3 DEF Placed, Split, Untouched, Complete, ApplySteps
    <2>4. QED
      BY <2>1, <2>2, <2>3 DEF ApplySteps
  <1>6. n \in 0..N /\ Complete(t, B, D, n) /\ Untouched(t, f, D, n)
    BY <1>2, <1>4, <1>5 DEF Complete, Untouched
  <1>7. QED
    BY <1>1, <1>2, <1>3, <1>5, <1>6 DEF Placed, ApplySteps

(* The last complete action that was not undone is undone, or stays done   *)
(* with an error on record.                                                *)
LEMMA AfterUndoPlaced ==
  ASSUME NEW q, Promotes(q), q.pc = "rollback", NEW B, NEW f \in [Paths -> FsValues], NEW D,
         Placed(q, B, f, D), Recoverable(q.copy, B, f, D), NEW ok \in BOOLEAN, NEW g, NEW v,
         Head(q.undo).recovery = "restore_backup" => v = B[Head(q.undo).path],
         Head(q.undo).recovery = "no_change" => v = f[Head(q.undo).path],
         Head(q.undo).recovery \in {"remove_created_directory", "remove_created_file"}
           => v = Absent,
         g = IF ok THEN [f EXCEPT ![Head(q.undo).path] = v] ELSE f
  PROVE  Placed(AfterUndo(q, ok), B, g, D) /\ Recoverable(q.copy, B, g, D)
  <1> DEFINE r == q.copy
             N == Len(r.classified)
             m == Len(q.applied)
             n == Len(q.undo)
             h == Head(q.undo)
             t == AfterUndo(q, ok)
  <1>1. /\ N \in Nat \ {0} /\ q.applied \in Seq(Applied) /\ q.undo \in Seq(Applied)
        /\ \A i \in 1..N : PathOf(r, i) \in Paths
        /\ \A i, j \in 1..N : PathOf(r, i) = PathOf(r, j) => i = j
    BY TargetsAre
  <1>2. /\ Complete(q, B, D, m) /\ n \in 1..m /\ m \in 0..N
        /\ \A j \in 1..n : q.undo[j] = q.applied[n - j + 1]
        /\ \A i \in 1..m : IF i <= n THEN NewAt(r, f, D, i) ELSE q.clean => OldAt(r, f, D, i)
        /\ Untouched(q, f, D, m)
    BY DEF Placed, Complete
  <1>3. h = q.applied[n] /\ h.path = PathOf(r, n) /\ Undoable(r, B, D, n, h.recovery)
        /\ h.recovery \in Strategies
    <2>1. h = q.undo[1] /\ q.undo[1] = q.applied[n - 1 + 1]
      BY <1>1, <1>2
    <2>2. h = q.applied[n] /\ n \in 1..m
      BY <1>1, <1>2, <2>1
    <2>3. h \in Applied
      BY <1>1, <2>2
    <2>4. QED
      BY <1>2, <2>2, <2>3 DEF Complete, Applied
  <1>4. /\ t.undo = Tail(q.undo) /\ t.clean = (q.clean /\ ok) /\ t.copy = r
        /\ t.applied = q.applied /\ t.pc = IF n = 1 THEN "finish" ELSE "rollback"
    BY DEF AfterUndo, Promotes, Process
  <1>5. Len(t.undo) = n - 1 /\ \A j \in 1..(n - 1) : t.undo[j] = q.applied[(n - 1) - j + 1]
    <2>1. Len(t.undo) = n - 1 /\ \A j \in 1..(n - 1) : t.undo[j] = q.undo[j + 1]
      BY <1>1, <1>2, <1>4
    <2>2. \A j \in 1..(n - 1) : j + 1 \in 1..n /\ n - (j + 1) + 1 = (n - 1) - j + 1
      BY <1>2
    <2>3. QED
      BY <1>2, <2>1, <2>2
  <1>6. \A i \in 1..N : i # n => g[PathOf(r, i)] = f[PathOf(r, i)]
    <2>1. ASSUME NEW i \in 1..N, i # n PROVE PathOf(r, i) \in Paths /\ PathOf(r, i) # h.path
      <3>1. n \in 1..N
        BY <1>1, <1>2
      <3>2. QED
        BY <1>1, <1>3, <2>1, <3>1
    <2>2. QED
      BY <2>1
  <1>7. n \in 1..N /\ PathOf(r, n) \in Paths
    BY <1>1, <1>2
  <1>8. ok => OldAt(r, g, D, n)
    <2>1. ASSUME ok, PathOf(r, n) \notin D PROVE g[PathOf(r, n)] = r.targets[n]
      <3>1. g[PathOf(r, n)] = v
        BY <1>3, <1>7, <2>1
      <3>2. f[PathOf(r, n)] = NewOf(r, n)
        BY <1>2, <2>1 DEF NewAt
      <3>3. CASE h.recovery = "restore_backup"
        BY <1>3, <2>1, <3>1, <3>3 DEF Undoable
      <3>4. CASE h.recovery = "no_change"
        BY <1>3, <2>1, <3>1, <3>2, <3>4 DEF Undoable
      <3>5. CASE h.recovery \in {"remove_created_directory", "remove_created_file"}
        BY <1>3, <2>1, <3>1, <3>5 DEF Undoable
      <3>6. QED
        BY <1>3, <3>3, <3>4, <3>5 DEF Strategies
    <2>2. QED
      BY <2>1 DEF OldAt
  <1>9. \A i \in 1..N : i # n => /\ OldAt(r, f, D, i) => OldAt(r, g, D, i)
                                 /\ NewAt(r, f, D, i) => NewAt(r, g, D, i)
    BY <1>6 DEF OldAt, NewAt
  <1>10. Recoverable(r, B, g, D)
    <2>1. CASE ~ok
      BY <2>1
    <2>2. CASE ok
      BY <1>6, <1>8, <2>2 DEF Recoverable, OldAt
    <2>3. QED
      BY <2>1, <2>2
  <1>11. \A i \in 1..m : IF i <= n - 1 THEN NewAt(r, g, D, i) ELSE t.clean => OldAt(r, g, D, i)
    <2>1. \A i \in 1..m : /\ i \in 1..N /\ i \in Nat
                          /\ i <= n => NewAt(r, f, D, i)
                          /\ ~(i <= n) /\ q.clean => OldAt(r, f, D, i)
      BY <1>1, <1>2
    <2>2. \A i \in 1..m : /\ i <= n - 1 => i <= n /\ i # n
                          /\ ~(i <= n - 1) /\ i # n => ~(i <= n)
      BY <1>1, <1>2
    <2>3. \A i \in 1..m : i <= n - 1 => NewAt(r, g, D, i)
      BY <1>9, <2>1, <2>2
    <2>4. ASSUME t.clean PROVE \A i \in 1..m : ~(i <= n - 1) => OldAt(r, g, D, i)
      <3>1. q.clean /\ ok
        BY <1>4, <2>4
      <3> HIDE DEF n, m, t
      <3>2. QED
        BY <1>8, <1>9, <2>1, <2>2, <3>1
    <2>5. QED
      BY <2>3, <2>4
  <1>12. Untouched(t, g, D, m) /\ Complete(t, B, D, m)
    <2>1. \A i \in 1..N : i > m => i # n
      BY <1>2
    <2>2. \A i \in 1..N : i # n /\ Residue(r, f, i) => Residue(r, g, i)
      BY <1>6 DEF Residue
    <2>3. QED
      BY <1>2, <1>4, <1>9, <2>1, <2>2 DEF Untouched, Complete
  <1>13. CASE n = 1
    <2>1. t.clean => Untouched(t, g, D, 0)
      <3>1. ASSUME t.clean, NEW i \in 1..N
            PROVE  OldAt(r, g, D, i) \/ (i = Len(t.applied) + 1 /\ Residue(r, g, i))
        <4>1. CASE i \in 1..m
          <5>1. ~(i <= n - 1)
            BY <1>13, <4>1
          <5>2. QED
            BY <1>11, <3>1, <4>1, <5>1
        <4>2. CASE i > m
          BY <1>4, <1>12, <3>1, <4>2 DEF Untouched
        <4>3. QED
          BY <1>2, <4>1, <4>2
      <3>2. QED
        BY <1>4, <3>1 DEF Untouched
    <2>2. t.pc = "finish"
      BY <1>4, <1>13
    <2>3. QED
      BY <1>10, <2>1, <2>2 DEF Placed, ApplySteps
  <1>14. CASE n # 1
    <2>1. t.pc = "rollback" /\ Len(t.undo) = n - 1
      BY <1>4, <1>5, <1>14
    <2>2. n - 1 \in 1..m
      <3>1. N \in Nat /\ n \in 1..m /\ m \in 0..N
        BY <1>1, <1>2
      <3> HIDE DEF N, n, m
      <3>2. QED
        BY <1>14, <3>1
    <2>3. Len(t.undo) \in 1..m
      BY <2>1, <2>2
    <2>4. QED
      BY <1>4, <1>5, <1>10, <1>11, <1>12, <2>1, <2>3 DEF Placed, ApplySteps
  <1>15. QED
    BY <1>13, <1>14

(* A change of a path disturbs all promotions but the one it belongs to. *)
LEMMA SetPathDisturbs ==
  ASSUME TypeOK, NEW p, NEW x \in Paths, NEW v, SetPath(p, x, v)
  PROVE  /\ fs' = [fs EXCEPT ![x] = v]
         /\ p \in Proposals => disturbed'[p] = disturbed[p]
         /\ \A o \in Proposals : o # p /\ UnderWay(o) =>
              /\ disturbed[o] \subseteq disturbed'[o]
              /\ \A y \in Paths : fs'[y] = fs[y] \/ y \in disturbed'[o]
  BY DEF SetPath, TypeOK

(* What a command that promotes may rely on. *)
LEMMA PromotionIs ==
  ASSUME TypeOK, RecordDiscipline, TreeDiscipline, NEW c \in Procs, proc[c].pc \in PromotionSteps
  PROVE  LET p == proc[c].on IN
         /\ p \in Proposals /\ store[p] = proc[c].copy /\ UnderWay(p)
         /\ Promotes(proc[c])
         /\ Placed(proc[c], backup[p], fs, disturbed[p])
         /\ Recoverable(proc[c].copy, backup[p], fs, disturbed[p])
         /\ \A e \in Procs \ {c} : proc[e].pc \in PromotionSteps => proc[e].on # p
  <1> DEFINE p == proc[c].on
  <1>1. proc[c].pc \in Locking /\ proc[c].pc # "idle"
    BY StepNames DEF Locking
  <1>2. proc[c] \in Process /\ WellFormed(proc[c]) /\ p \in Proposals /\ proc[c].copy \in Record
    BY <1>1, RunningType DEF TypeOK
  <1>3. store[p] = proc[c].copy /\ lock[p] = c
    BY DEF RecordDiscipline, LockedCopyIsCurrent
  <1>4. proc[c].copy.actions = proc[c].copy.classified
    BY DEF RecordDiscipline, StepsFitRecords
  <1>5. UnderWay(p)
    <2>1. CASE proc[c].pc \in Starting
      BY <2>1 DEF UnderWay
    <2>2. CASE proc[c].pc \notin Starting
      <3>1. proc[c].copy.state = "applying"
        BY <2>2 DEF RecordDiscipline, StepsFitRecords
      <3>2. QED
        BY <1>2, <1>3, <3>1, NoneAssumption DEF StateOf, UnderWay
    <2>3. QED
      BY <2>1, <2>2
  <1>6. Recoverable(proc[c].copy, backup[p], fs, disturbed[p])
    BY <1>2, <1>3, <1>5 DEF TreeDiscipline
  <1>7. Promotes(proc[c])
    BY <1>2, <1>4, <1>6 DEF Promotes, Recoverable
  <1>8. \A e \in Procs \ {c} : proc[e].pc \in PromotionSteps => proc[e].on # p
    BY <1>3 DEF RecordDiscipline, LockedCopyIsCurrent
  <1>9. QED
    BY <1>2, <1>3, <1>5, <1>6, <1>7, <1>8 DEF TreeDiscipline

(* A step on behalf of proposal p leaves the records and copies of the     *)
(* others alone, and disturbs them where it changes the tree.              *)
Elsewhere(p) ==
  \A o \in Proposals \ {p} :
    /\ store'[o] = store[o] /\ backup'[o] = backup[o]
    /\ UnderWay(o) =>
         /\ disturbed[o] \subseteq disturbed'[o]
         /\ \A x \in Paths : fs'[x] = fs[x] \/ x \in disturbed'[o]

(* Such a step keeps the discipline if it does for p itself. *)
LEMMA TreeStep ==
  ASSUME TypeOK, RecordDiscipline, TreeDiscipline, NEW p, Elsewhere(p),
         p \in Proposals /\ UnderWay(p)' =>
           Recoverable(store'[p], backup'[p], fs', disturbed'[p]),
         \A e \in Procs : proc'[e].pc \in PromotionSteps =>
           \/ proc'[e] = proc[e] /\ proc[e].on # p
           \/ /\ proc'[e].on = p
              /\ Placed(proc'[e], backup'[p], fs', disturbed'[p]),
         \A e \in Procs : proc'[e].pc \in Operations =>
           proc'[e] = proc[e] \/ proc'[e].applied = <<>>
  PROVE  TreeDiscipline'
  <1>1. ASSUME NEW o \in Proposals, UnderWay(o)'
        PROVE  Recoverable(store'[o], backup'[o], fs', disturbed'[o])
    <2>1. CASE o # p
      <3>1. store'[o] = store[o] /\ backup'[o] = backup[o]
        BY <2>1 DEF Elsewhere
      <3>2. UnderWay(o)
        BY <1>1, <2>1, <3>1, StepNames DEF UnderWay, StateOf
      <3>3. /\ Recoverable(store[o], backup[o], fs, disturbed[o])
            /\ disturbed[o] \subseteq disturbed'[o]
            /\ \A x \in Paths : fs'[x] = fs[x] \/ x \in disturbed'[o]
        BY <2>1, <3>2 DEF Elsewhere, TreeDiscipline
      <3>4. QED
        BY <3>1, <3>3, OthersKeepRecoverable
    <2>2. CASE o = p
      BY <1>1, <2>2
    <2>3. QED
      BY <2>1, <2>2
  <1>2. ASSUME NEW e \in Procs, proc'[e].pc \in PromotionSteps
        PROVE  Placed(proc'[e], backup'[proc'[e].on], fs', disturbed'[proc'[e].on])
    <2> DEFINE o == proc[e].on
    <2>1. CASE proc'[e] = proc[e] /\ o # p
      <3>1. /\ o \in Proposals \ {p} /\ UnderWay(o) /\ Inspected(proc[e].copy)
            /\ Placed(proc[e], backup[o], fs, disturbed[o])
        BY <1>2, <2>1, PromotionIs DEF Promotes
      <3>2. /\ backup'[o] = backup[o] /\ disturbed[o] \subseteq disturbed'[o]
            /\ \A x \in Paths : fs'[x] = fs[x] \/ x \in disturbed'[o]
        BY <3>1 DEF Elsewhere
      <3>3. Placed(proc[e], backup[o], fs', disturbed'[o])
        BY <3>1, <3>2, OthersKeepPlaced
      <3>4. QED
        BY <2>1, <3>2, <3>3
    <2>2. QED
      BY <1>2, <2>1
  <1>3. QED
    BY <1>1, <1>2 DEF TreeDiscipline

(* A promotion takes a step and goes on. *)
LEMMA OwnTreeStep ==
  ASSUME TypeOK, RecordDiscipline, TreeDiscipline, NEW c \in Procs, proc[c].pc \in PromotionSteps,
         NEW t, Become(c, t), t.on = proc[c].on, t.pc \in PromotionSteps,
         Elsewhere(proc[c].on),
         Placed(t, backup'[proc[c].on], fs', disturbed'[proc[c].on]),
         Recoverable(store'[proc[c].on], backup'[proc[c].on], fs', disturbed'[proc[c].on])
  PROVE  TreeDiscipline'
  <1>1. proc'[c] = t /\ \A e \in Procs \ {c} : proc'[e] = proc[e]
    BY DEF Become, TypeOK
  <1>2. \A e \in Procs \ {c} : proc[e].pc \in PromotionSteps => proc[e].on # proc[c].on
    BY PromotionIs
  <1>3. QED
    BY <1>1, <1>2, StepNames, TreeStep

(* A command ends, or is no promotion, and the tree stays as it is.  If a  *)
(* record is saved, its proposal is not applying.                          *)
LEMMA QuitTree ==
  ASSUME TypeOK, RecordDiscipline, TreeDiscipline, NEW c \in Procs, NEW t, Become(c, t),
         t.pc \notin PromotionSteps, t.applied = <<>>, UNCHANGED <<backup, fs>>,
         \/ UNCHANGED <<store, disturbed>>
         \/ /\ proc[c].pc \in Locking \cup {"create"}
            /\ \E r : r.state # "applying" /\ Save(proc[c].on, r)
            /\ \A o \in Proposals \ {proc[c].on} : disturbed'[o] = disturbed[o]
  PROVE  TreeDiscipline'
  <1> DEFINE p == proc[c].on
  <1>1. proc'[c] = t /\ \A e \in Procs \ {c} : proc'[e] = proc[e]
    BY DEF Become, TypeOK
  <1>2. CASE UNCHANGED <<store, disturbed>>
    <2>1. Elsewhere(None)
      BY <1>2 DEF Elsewhere
    <2>2. \A e \in Procs : proc'[e].pc \in PromotionSteps =>
            proc'[e] = proc[e] /\ proc[e].on # None
      BY <1>1, PromotionIs, ConstantsAssumption
    <2>3. QED
      BY <1>1, <2>1, <2>2, TreeStep, ConstantsAssumption
  <1>3. ASSUME proc[c].pc \in Locking \cup {"create"},
               NEW r, r.state # "applying", Save(p, r),
               \A o \in Proposals \ {p} : disturbed'[o] = disturbed[o]
        PROVE  TreeDiscipline'
    <2>1. PICK o \in Proposals : o = p
      <3>1. proc[c].pc # "idle"
        BY <1>3, StepNames
      <3>2. QED
        BY <3>1, RunningType
    <2>2. store'[o] = r /\ \A x \in Proposals \ {o} : store'[x] = store[x]
      BY <1>3, <2>1 DEF Save, TypeOK
    <2>3. Elsewhere(o)
      BY <1>3, <2>1, <2>2 DEF Elsewhere
    <2>4. StateOf(o)' # "applying"
      BY <1>3, <2>2 DEF StateOf
    <2>5. ASSUME NEW e \in Procs \ {c}, proc[e].pc \in PromotionSteps PROVE proc[e].on # o
      <3>1. lock[proc[e].on] = e /\ store[proc[e].on] \in Record
        BY <2>5, RunningType, StepNames DEF RecordDiscipline, LockedCopyIsCurrent, Locking
      <3>2. CASE proc[c].pc \in Locking
        BY <2>1, <3>1, <3>2 DEF RecordDiscipline, LockedCopyIsCurrent, Locking
      <3>3. CASE proc[c].pc = "create"
        BY <2>1, <3>1, <3>3, NoneAssumption DEF RecordDiscipline, ClaimsAreExclusive
      <3>4. QED
        BY <1>3, <3>2, <3>3
    <2>6. \A e \in Procs : proc'[e].pc \in PromotionSteps => proc'[e] = proc[e] /\ proc[e].on # o
      BY <1>1, <2>5
    <2>7. ~UnderWay(o)'
      BY <2>4, <2>6, StepNames DEF UnderWay
    <2>8. QED
      BY <1>1, <2>3, <2>6, <2>7, TreeStep
  <1>4. QED
    BY <1>2, <1>3

-----------------------------------------------------------------------------
(* The actions and the tree.                                               *)

(* The steps that save no promotion, and the end of one. *)
LEMMA RecordTree ==
  ASSUME TypeOK, RecordDiscipline, TreeDiscipline, NEW c \in Procs,
         \/ WriteDraft(c) \/ Classify(c) \/ Approve(c) \/ Reject(c)
         \/ Commit(c) \/ Finish(c)
  PROVE  TreeDiscipline'
  <1> DEFINE r == proc[c].copy
  <1>1. /\ proc[c].pc # "idle" /\ r \in Record
        /\ proc[c].pc \in Locking \cup {"create"}
    BY RunningType
    DEF WriteDraft, Classify, Approve, Reject, Commit, Finish, Locking, Operations,
        PromotionSteps, Starting
  <1>2. ASSUME NEW s, s.state # "applying", Conclude(c, s), fs' = fs,
               \A o \in Proposals \ {proc[c].on} : disturbed'[o] = disturbed[o]
        PROVE  TreeDiscipline'
    <2>1. Become(c, Idle) /\ Save(proc[c].on, s) /\ UNCHANGED backup
      BY <1>2 DEF Conclude, Release
    <2>2. Idle.pc \notin PromotionSteps /\ Idle.applied = <<>>
      BY DEF Idle, PromotionSteps, Starting, ApplySteps
    <2>3. QED
      BY <1>1, <1>2, <2>1, <2>2, QuitTree
  <1>3. fs' = fs /\ \A o \in Proposals \ {proc[c].on} : disturbed'[o] = disturbed[o]
    BY DEF WriteDraft, Classify, Approve, Reject, Commit, Finish, TypeOK
  <1>4. \E s : s.state # "applying" /\ Conclude(c, s)
    <2>1. \A s : \A to : s \in Record => Transition(s, to).state = to
      BY DEF Record, Transition
    <2>2. CASE WriteDraft(c)
      BY <2>2 DEF WriteDraft, RecordDiscipline, ClaimsAreExclusive, NewRecord
    <2>3. CASE Classify(c)
      <3> DEFINE s == [r EXCEPT !.classified = r.actions, !.targets = Observed(r.actions),
                                !.recovery = "planned"]
      <3>1. Transition(s, "classified").state = "classified"
        <4>1. s \in Record
          BY <1>1, ObservedType DEF TypeOK, Record
        <4>2. QED
          BY <2>1, <4>1
      <3>2. Conclude(c, Transition(s, "classified"))
        BY <2>3 DEF Classify
      <3> HIDE DEF s
      <3>3. QED
        BY <3>1, <3>2
    <2>4. CASE Approve(c)
      <3>1. [r EXCEPT !.approved = r.classified] \in Record
        BY <1>1 DEF Record
      <3>2. QED
        BY <2>1, <2>4, <3>1 DEF Approve
    <2>5. CASE Reject(c)
      BY <1>1, <2>1, <2>5 DEF Reject
    <2>6. CASE Commit(c)
      <3>1. [r EXCEPT !.recovery = "available"] \in Record
        BY <1>1 DEF Record
      <3>2. QED
        BY <2>1, <2>6, <3>1 DEF Commit
    <2>7. CASE Finish(c)
      <3> DEFINE s == [r EXCEPT !.recovery = IF proc[c].clean THEN "restored" ELSE "failed"]
                 to == IF proc[c].clean THEN "rolled_back" ELSE "failed"
      <3>1. s \in Record
        BY <1>1 DEF Record
      <3>2. Transition(s, to).state = to /\ to # "applying"
        BY <2>1, <3>1
      <3>3. QED
        BY <2>7, <3>2 DEF Finish
    <2>8. QED
      BY <2>2, <2>3, <2>4, <2>5, <2>6, <2>7
  <1>5. QED
    BY <1>2, <1>3, <1>4

(* The steps that start a command, its refusals, failed saves and crashes, *)
(* and the edits of other programs.                                        *)
LEMMA StartTree ==
  ASSUME TypeOK, RecordDiscipline, TreeDiscipline
  PROVE  /\ \A c \in Procs, p \in Proposals, d \in Definitions : ClaimId(c, p, d) => TreeDiscipline'
         /\ \A c \in Procs, p \in Proposals, op \in Operations : Open(c, op, p) => TreeDiscipline'
         /\ \A c \in Procs : Refuse(c) \/ SaveFails(c) \/ Crash(c) => TreeDiscipline'
         /\ \A x \in Paths, v \in EditValues : EditFile(x, v) => TreeDiscipline'
         /\ \A p \in Proposals, d \in Definitions : EditRecord(p, d) => TreeDiscipline'
  <1>1. ASSUME NEW c \in Procs, NEW t, Become(c, t), t.pc \notin PromotionSteps, t.applied = <<>>,
               UNCHANGED <<store, backup, fs, disturbed>>
        PROVE  TreeDiscipline'
    BY <1>1, QuitTree
  <1>2. ASSUME NEW c \in Procs, NEW p \in Proposals, NEW d \in Definitions, ClaimId(c, p, d)
        PROVE  TreeDiscipline'
    <2> DEFINE t == [Idle EXCEPT !.pc = "create", !.on = p, !.copy = NewRecord(d)]
    <2>1. t.pc \notin PromotionSteps /\ t.applied = <<>>
      BY DEF Idle, PromotionSteps, Starting, ApplySteps
    <2>2. Become(c, t) /\ UNCHANGED <<store, backup, fs, disturbed>>
      BY <1>2 DEF ClaimId
    <2> HIDE DEF t
    <2>3. QED
      BY <1>1, <2>1, <2>2
  <1>3. ASSUME NEW c \in Procs, NEW p \in Proposals, NEW op \in Operations, Open(c, op, p)
        PROVE  TreeDiscipline'
    <2> DEFINE t == [Idle EXCEPT !.pc = op, !.on = p, !.copy = store[p]]
    <2>1. t.pc \notin PromotionSteps /\ t.applied = <<>>
      BY StepNames DEF Idle
    <2>2. Become(c, t) /\ UNCHANGED <<store, backup, fs, disturbed>>
      BY <1>3 DEF Open
    <2> HIDE DEF t
    <2>3. QED
      BY <1>1, <2>1, <2>2
  <1>4. ASSUME NEW c \in Procs, Refuse(c) \/ SaveFails(c) \/ Crash(c) PROVE TreeDiscipline'
    <2>1. Become(c, Idle) /\ UNCHANGED <<store, backup, fs, disturbed>>
      BY <1>4 DEF Refuse, SaveFails, Crash, Release
    <2>2. Idle.pc \notin PromotionSteps /\ Idle.applied = <<>>
      BY DEF Idle, PromotionSteps, Starting, ApplySteps
    <2>3. QED
      BY <1>1, <2>1, <2>2
  <1>5. ASSUME NEW x \in Paths, NEW v \in EditValues, EditFile(x, v) PROVE TreeDiscipline'
    <2>1. SetPath(None, x, v) /\ UNCHANGED <<store, backup, proc>>
      BY <1>5 DEF EditFile
    <2>2. Elsewhere(None)
      BY <2>1, SetPathDisturbs DEF Elsewhere
    <2>3. \A e \in Procs : proc'[e].pc \in PromotionSteps =>
            proc'[e] = proc[e] /\ proc[e].on # None
      BY <2>1, PromotionIs, ConstantsAssumption
    <2>4. QED
      BY <2>1, <2>2, <2>3, TreeStep, ConstantsAssumption
  <1>6. ASSUME NEW p \in Proposals, NEW d \in Definitions, EditRecord(p, d) PROVE TreeDiscipline'
    <2> DEFINE s == [store[p] EXCEPT !.actions = d]
    <2>1. /\ store[p] \in Record /\ lock[p] = None /\ UNCHANGED <<backup, fs, proc, disturbed>>
          /\ store'[p] = s /\ \A o \in Proposals \ {p} : store'[o] = store[o]
      BY <1>6 DEF EditRecord, LockFree, TypeOK
    <2>2. /\ s.state = store[p].state /\ s.classified = store[p].classified
          /\ s.targets = store[p].targets
      BY <2>1 DEF Record
    <2>3. Elsewhere(p)
      BY <2>1 DEF Elsewhere
    <2>4. s.state = "applying" => Recoverable(store[p], backup[p], fs, disturbed[p])
      BY <2>1, <2>2, NoneAssumption DEF TreeDiscipline, StateOf, UnderWay
    <2> HIDE DEF s
    <2>5. s.state = "applying" => Recoverable(s, backup[p], fs, disturbed[p])
      BY <2>2, <2>4 DEF Recoverable, Inspected, PathOf, NewOf
    <2>6. \A e \in Procs : proc[e].pc \in PromotionSteps => proc[e].on # p
      BY <2>1, ConstantsAssumption DEF RecordDiscipline, LockedCopyIsCurrent
    <2>7. UnderWay(p)' => s.state = "applying"
      BY <2>1, <2>6, StepNames DEF UnderWay, StateOf
    <2>8. QED
      BY <2>1, <2>3, <2>5, <2>6, <2>7, TreeStep
  <1>7. QED
    BY <1>2, <1>3, <1>4, <1>5, <1>6

(* The record with which a promotion begins. *)
LEMMA BegunRecord ==
  ASSUME TypeOK, RecordDiscipline, TreeDiscipline, NEW c \in Procs, Reinspect(c)
  PROVE  LET q == proc[c]
             d == q.copy.actions
             r == q.copy
         IN /\ q.pc = "promote" /\ q \in Process /\ q.on \in Proposals /\ r \in Record
            /\ d \in Definitions /\ q.next = 1 /\ q.applied = <<>> /\ store[q.on] = r
            /\ r.classified = d /\ r.targets = Observed(d)
  <1> DEFINE q == proc[c]
             p == q.on
             d == q.copy.actions
  <1>1. /\ q.pc = "promote" /\ q \in Process /\ p \in Proposals /\ q.copy \in Record
        /\ d \in Definitions /\ q.next = 1 /\ q.applied = <<>>
    <2>1. q.pc = "promote" /\ q.pc \in Operations
      BY DEF Reinspect, Operations
    <2>2. QED
      BY <2>1, RunningType DEF TypeOK, WellFormed, TreeDiscipline
  <1>2. q.copy.approved = d /\ Observed(d) = q.copy.targets
    BY DEF Reinspect, MayPromote
  <1>3. q.copy.state = "approved" /\ q.copy = store[p]
    BY <1>1, RequiredStates
    DEF RecordDiscipline, StepsFitRecords, LockedCopyIsCurrent, Operations
  <1>4. q.copy.approved = q.copy.classified
    BY <1>1, <1>3, NoneAssumption DEF RecordDiscipline, RecordsAreConsistent
  <1>5. QED
    BY <1>1, <1>2, <1>3, <1>4

(* A promotion starts on a tree that is as classification found it. *)
LEMMA ReinspectTree ==
  ASSUME TypeOK, RecordDiscipline, TreeDiscipline, NEW c \in Procs, Reinspect(c)
  PROVE  TreeDiscipline'
  <1> DEFINE q == proc[c]
             p == q.on
             r == q.copy
             d == r.actions
             B == backup[p]
             D == disturbed'[p]
             t == [q EXCEPT !.pc = "baseline"]
  <1>1. /\ q.pc = "promote" /\ q \in Process /\ p \in Proposals /\ r \in Record
        /\ d \in Definitions /\ q.next = 1 /\ q.applied = <<>> /\ store[p] = r
        /\ r.classified = d /\ r.targets = Observed(d)
    BY BegunRecord
  <1>2. t.pc = "baseline" /\ t.on = p /\ t.copy = r /\ t.next = 1 /\ t.applied = <<>>
    BY <1>1 DEF Process
  <1>3. /\ Len(d) \in Nat \ {0} /\ DOMAIN d = 1..Len(d)
        /\ \A i \in 1..Len(d) : d[i].path \in Paths /\ Observed(d)[i] = fs[d[i].path]
    BY <1>1, DefinitionType DEF Observed
  <1>4. Inspected(r)
    <2>1. DOMAIN Observed(d) = 1..Len(d)
      BY <1>3 DEF Observed
    <2>2. Inspectable(d)
      BY DEF Reinspect, MayPromote
    <2>3. \A i \in 1..Len(d) : fs[d[i].path] \in FsValues
      BY <1>3 DEF TypeOK
    <2> HIDE DEF d
    <2>4. ASSUME NEW i \in 1..Len(d)
          PROVE  /\ d[i].type = "mkdir" => Observed(d)[i] \in {Absent, Directory}
                 /\ d[i].type = "write" => Observed(d)[i] \in Contents \cup {Absent}
      BY <1>3, <2>2, <2>3 DEF Inspectable, FsValues
    <2>5. QED
      BY <1>1, <1>3, <2>1, <2>4 DEF Inspected
  <1>5. \A i \in 1..Len(d) : fs[PathOf(r, i)] = r.targets[i]
    BY <1>1, <1>3 DEF PathOf
  <1>6. Recoverable(r, B, fs, D)
    BY <1>1, <1>4, <1>5 DEF Recoverable
  <1>7. Placed(t, B, fs, D)
    <2>1. Complete(t, B, D, 0) /\ Split(t, fs, D, 0)
      BY <1>1, <1>2, <1>3, <1>5 DEF Complete, Split, OldAt
    <2> HIDE DEF t
    <2>2. QED
      BY <1>1, <1>2, <1>3, <2>1 DEF Placed, ApplySteps
  <1> HIDE DEF t, D
  <1>8. /\ Become(c, t) /\ UNCHANGED <<store, backup, fs>>
        /\ \A o \in Proposals \ {p} : disturbed'[o] = disturbed[o]
    BY DEF Reinspect, TypeOK, t
  <1>9. Elsewhere(p)
    BY <1>8 DEF Elsewhere
  <1>10. proc'[c] = t /\ \A e \in Procs \ {c} : proc'[e] = proc[e]
    BY <1>8 DEF Become, TypeOK
  <1>11. \A e \in Procs \ {c} : proc[e].pc \in PromotionSteps => proc[e].on # p
    BY <1>1 DEF RecordDiscipline, LockedCopyIsCurrent, Operations
  <1>12. \A e \in Procs : proc'[e].pc \in PromotionSteps =>
           \/ proc'[e] = proc[e] /\ proc[e].on # p
           \/ proc'[e].on = p /\ Placed(proc'[e], backup'[p], fs', disturbed'[p])
    BY <1>2, <1>7, <1>8, <1>10, <1>11 DEF D
  <1>13. Recoverable(store'[p], backup'[p], fs', disturbed'[p])
    BY <1>1, <1>6, <1>8 DEF D
  <1>14. QED
    BY <1>2, <1>9, <1>10, <1>12, <1>13, TreeStep

(* The steps of a promotion that leave tree and copies as they are. *)
LEMMA QuietTree ==
  ASSUME TypeOK, RecordDiscipline, TreeDiscipline, NEW c \in Procs,
         \/ AssessBefore(c) \/ Begin(c) \/ Prepare(c) \/ PrepareFails(c)
         \/ KeepPath(c) \/ SecureDirectory(c) \/ PlanRemoval(c) \/ ActionFails(c)
         \/ Verify(c) \/ Assess(c) \/ UndoFails(c)
  PROVE  TreeDiscipline'
  <1> DEFINE q == proc[c]
             p == q.on
             r == q.copy
             N == Len(r.classified)
             B == backup[p]
             D == disturbed[p]
  <1>1. q.pc \in PromotionSteps /\ UNCHANGED <<backup, fs, disturbed>>
    BY DEF AssessBefore, Begin, Prepare, PrepareFails, KeepPath, SecureDirectory, PlanRemoval,
           ActionFails, Verify, Assess, UndoFails, PromotionSteps, Starting, ApplySteps
  <1>2. /\ p \in Proposals /\ store[p] = r /\ Promotes(q)
        /\ Placed(q, B, fs, D) /\ Recoverable(r, B, fs, D)
    BY <1>1, PromotionIs
  <1>3. q \in Process /\ r \in Record /\ N \in Nat \ {0} /\ q.next \in Nat
    BY <1>2, TargetsAre DEF Promotes
  <1>4. ASSUME NEW t, Become(c, t), t.on = p, t.pc \in PromotionSteps, UNCHANGED store,
               Placed(t, B, fs, D)
        PROVE  TreeDiscipline'
    <2>1. Elsewhere(p)
      BY <1>1, <1>4 DEF Elsewhere
    <2>2. QED
      BY <1>1, <1>2, <1>4, <2>1, OwnTreeStep
  (* A save that leaves the classification alone. *)
  <1>5. ASSUME NEW s, s.classified = r.classified, s.targets = r.targets, Save(p, s),
               NEW t, t.copy = s, t.on = p, t.next = q.next, t.applied = q.applied,
               q.pc \in {"start", "prepare"}, t.pc \in {"prepare", "apply"}, Become(c, t)
        PROVE  TreeDiscipline'
    <2>1. Recoverable(s, B, fs, D)
      <3>1. Recoverable(r, B, fs, D) /\ s.classified = r.classified /\ s.targets = r.targets
        BY <1>2, <1>5
      <3> HIDE DEF r, B, D
      <3>2. QED
        BY <3>1 DEF Recoverable, Inspected, PathOf, NewOf
    <2>2. \A i : /\ OldAt(s, fs, D, i) = OldAt(r, fs, D, i)
                 /\ NewAt(s, fs, D, i) = NewAt(r, fs, D, i)
                 /\ PathOf(s, i) = PathOf(r, i)
                 /\ \A w : Undoable(s, B, D, i, w) = Undoable(r, B, D, i, w)
      BY <1>5 DEF OldAt, NewAt, Undoable, PathOf, NewOf
    <2>3. /\ q.next \in 1..N /\ Complete(q, B, D, q.next - 1) /\ Split(q, fs, D, q.next - 1)
      BY <1>2, <1>5 DEF Placed
    <2>4. Complete(t, B, D, q.next - 1) /\ Split(t, fs, D, q.next - 1)
      BY <1>5, <2>2, <2>3 DEF Complete, Split
    <2>5. Placed(t, B, fs, D)
      BY <1>5, <2>3, <2>4 DEF Placed, ApplySteps
    <2>6. store'[p] = s /\ \A o \in Proposals \ {p} : store'[o] = store[o]
      BY <1>2, <1>5 DEF Save, TypeOK
    <2>7. Elsewhere(p)
      BY <1>1, <2>6 DEF Elsewhere
    <2>8. t.pc \in PromotionSteps
      BY <1>5 DEF PromotionSteps, Starting, ApplySteps
    <2>9. QED
      BY <1>1, <1>5, <2>1, <2>5, <2>6, <2>7, <2>8, OwnTreeStep
  <1>6. CASE AssessBefore(c) \/ Begin(c) \/ Prepare(c)
    <2>1. CASE AssessBefore(c)
      <3>1. PICK before : Become(c, [q EXCEPT !.pc = "start", !.before = before])
        BY <2>1 DEF AssessBefore
      <3> DEFINE t == [q EXCEPT !.pc = "start", !.before = before]
      <3>2. /\ t.pc = "start" /\ t.on = p /\ t.copy = r /\ t.next = q.next
            /\ t.applied = q.applied
        BY <1>3 DEF Process
      <3>3. q.pc = "baseline" /\ Become(c, t) /\ UNCHANGED store
        BY <2>1, <3>1 DEF AssessBefore
      <3> HIDE DEF t
      <3>4. Placed(t, B, fs, D)
        BY <1>2, <3>2, <3>3 DEF Placed, Complete, Split, ApplySteps
      <3>5. QED
        BY <1>4, <3>2, <3>3, <3>4 DEF PromotionSteps, Starting
    <2>2. CASE Begin(c)
      <3> DEFINE s == Transition(r, "applying")
                 t == [q EXCEPT !.pc = "prepare", !.copy = s]
      <3>1. q.pc = "start" /\ Become(c, t) /\ Save(p, s)
        BY <2>2 DEF Begin
      <3>2. s.classified = r.classified /\ s.targets = r.targets
        BY <1>3 DEF Record, Transition
      <3>3. /\ t.pc = "prepare" /\ t.on = p /\ t.copy = s /\ t.next = q.next
            /\ t.applied = q.applied
        BY <1>3 DEF Process
      <3> HIDE DEF s, t
      <3>4. QED
        BY <1>5, <3>1, <3>2, <3>3
    <2>3. CASE Prepare(c)
      <3> DEFINE s == [r EXCEPT !.recovery = "ready"]
                 t == [q EXCEPT !.pc = "apply", !.copy = s]
      <3>1. q.pc = "prepare" /\ Become(c, t) /\ Save(p, s)
        BY <2>3 DEF Prepare
      <3>2. s.classified = r.classified /\ s.targets = r.targets
        BY <1>3 DEF Record
      <3>3. /\ t.pc = "apply" /\ t.on = p /\ t.copy = s /\ t.next = q.next
            /\ t.applied = q.applied
        BY <1>3 DEF Process
      <3> HIDE DEF s, t
      <3>4. QED
        BY <1>5, <3>1, <3>2, <3>3
    <2>4. QED
      BY <1>6, <2>1, <2>2, <2>3
  <1>7. CASE PrepareFails(c)
    <2> DEFINE t == [q EXCEPT !.pc = "finish"]
    <2>1. q.pc = "prepare" /\ Become(c, t) /\ UNCHANGED store
      BY <1>7 DEF PrepareFails
    <2>2. t.pc = "finish" /\ t.on = p /\ t.copy = r
      BY <1>3 DEF Process
    <2>3. q.next = 1 /\ Split(q, fs, D, 0)
      <3>1. q.next = 1
        BY <1>2, <2>1 DEF Promotes, WellFormed
      <3>2. QED
        BY <1>2, <2>1, <3>1 DEF Placed
    <2> HIDE DEF t
    <2>4. Untouched(t, fs, D, 0)
      BY <1>3, <2>2, <2>3 DEF Untouched, Split
    <2>5. Placed(t, B, fs, D)
      BY <2>2, <2>4 DEF Placed, ApplySteps
    <2>6. QED
      BY <1>4, <2>1, <2>2, <2>5 DEF PromotionSteps, Starting
  <1>8. CASE KeepPath(c) \/ SecureDirectory(c) \/ PlanRemoval(c)
    <2>1. q.pc \in {"apply", "chmod"}
      BY <1>8 DEF KeepPath, SecureDirectory, PlanRemoval
    <2>2. /\ q.pc \in ApplySteps /\ q.next \in 1..N
          /\ Current(c) = r.classified[q.next] /\ Current(c).path = PathOf(r, q.next)
          /\ Current(c).type = "mkdir" => r.targets[q.next] \in {Absent, Directory}
          /\ Complete(q, B, D, q.next - 1)
      <3>1. q.pc \in ApplySteps /\ q.next \in 1..N /\ Complete(q, B, D, q.next - 1)
        BY <1>2, <2>1 DEF ApplySteps, Placed
      <3>2. Current(c) = r.classified[q.next] /\ Current(c).path = PathOf(r, q.next)
        BY <1>2 DEF Current, Promotes, PathOf
      <3>3. QED
        BY <1>2, <3>1, <3>2 DEF Promotes, Inspected
    <2>3. \A s : LET t == Completed(q, s) IN t.on = p /\ t.pc \in PromotionSteps
      BY <1>3 DEF Completed, Process, PromotionSteps, Starting, ApplySteps
    <2>4. CASE KeepPath(c)
      <3>1. /\ q.pc = "apply" /\ Current(c).type = "mkdir" /\ fs[PathOf(r, q.next)] # Absent
            /\ Become(c, Completed(q, "no_change")) /\ UNCHANGED store
        BY <2>2, <2>4 DEF KeepPath
      <3>2. Split(q, fs, D, q.next - 1)
        BY <1>2, <3>1 DEF Placed
      <3>3. OldAt(r, fs, D, q.next)
        BY <2>2, <3>2 DEF Split
      <3>4. NewOf(r, q.next) = Directory
        BY <2>2, <3>1 DEF NewOf
      <3>5. NewAt(r, fs, D, q.next) /\ Undoable(r, B, D, q.next, "no_change")
        BY <2>2, <3>1, <3>3, <3>4 DEF OldAt, NewAt, Undoable
      <3>6. Split(q, fs, D, q.next)
        BY <1>3, <2>2, <3>2, <3>5 DEF Split
      <3>7. Placed(Completed(q, "no_change"), B, fs, D)
        BY <1>2, <2>2, <3>5, <3>6, CompletedPlaced DEF Strategies
      <3>8. QED
        BY <1>4, <2>3, <3>1, <3>7
    <2>5. CASE SecureDirectory(c)
      <3>1. /\ q.pc = "chmod" /\ Become(c, Completed(q, "remove_created_directory"))
            /\ UNCHANGED store
        BY <2>5 DEF SecureDirectory
      <3>2. Split(q, fs, D, q.next) /\ Undoable(r, B, D, q.next, "remove_created_directory")
        BY <1>2, <3>1 DEF Placed
      <3>3. Placed(Completed(q, "remove_created_directory"), B, fs, D)
        BY <1>2, <2>2, <3>2, CompletedPlaced DEF Strategies
      <3>4. QED
        BY <1>4, <2>3, <3>1, <3>3
    <2>6. CASE PlanRemoval(c)
      <3> DEFINE t == [q EXCEPT !.pc = "replace", !.strategy = "remove_created_file"]
      <3>1. q.pc = "apply" /\ fs[PathOf(r, q.next)] = Absent /\ Become(c, t) /\ UNCHANGED store
        BY <2>2, <2>6 DEF PlanRemoval
      <3>2. /\ t.pc = "replace" /\ t.on = p /\ t.copy = r /\ t.next = q.next
            /\ t.applied = q.applied /\ t.strategy = "remove_created_file"
        BY <1>3 DEF Process
      <3>3. Split(q, fs, D, q.next - 1)
        BY <1>2, <3>1 DEF Placed
      <3>4. OldAt(r, fs, D, q.next)
        BY <2>2, <3>3 DEF Split
      <3>5. Undoable(r, B, D, q.next, "remove_created_file")
        BY <3>1, <3>4 DEF OldAt, Undoable
      <3> HIDE DEF t
      <3>6. Placed(t, B, fs, D)
        BY <2>2, <3>2, <3>3, <3>5 DEF Placed, Complete, Split, ApplySteps
      <3>7. QED
        BY <1>4, <3>1, <3>2, <3>6 DEF PromotionSteps, Starting, ApplySteps
    <2>7. QED
      BY <1>8, <2>4, <2>5, <2>6
  <1>9. LET t == RollingBack(q) IN t.on = p /\ t.pc \in PromotionSteps
    BY <1>3 DEF RollingBack, Process, PromotionSteps, Starting
  <1>10. CASE ActionFails(c)
    <2>1. /\ q.pc \in ApplySteps /\ Become(c, RollingBack(q)) /\ UNCHANGED store
          /\ q.pc = "chmod" => "chmod" \in Troubles
      BY <1>10 DEF ActionFails, Impossible, Trouble, ApplySteps
    <2>2. QED
      BY <1>2, <1>4, <1>9, <2>1, RollingBackPlaced
  <1>11. CASE Verify(c) \/ Assess(c)
    <2>1. q.pc \in {"verify", "assess"} /\ UNCHANGED store
      BY <1>11 DEF Verify, Assess
    <2>2. /\ Complete(q, B, D, N) /\ Split(q, fs, D, N)
      BY <1>2, <2>1 DEF Placed
    <2>3. CASE Become(c, RollingBack(q))
      BY <1>2, <1>4, <1>9, <2>1, <2>3, RollingBackPlaced
    <2>4. CASE Verify(c) /\ Become(c, [q EXCEPT !.pc = "assess"])
      <3> DEFINE t == [q EXCEPT !.pc = "assess"]
      <3>1. t.pc = "assess" /\ t.on = p /\ t.copy = r /\ t.applied = q.applied
        BY <1>3 DEF Process
      <3>2. Become(c, t)
        BY <2>4
      <3> HIDE DEF t
      <3>3. Placed(t, B, fs, D)
        BY <2>2, <3>1 DEF Placed, Complete, Split, ApplySteps
      <3>4. QED
        BY <1>4, <2>1, <3>1, <3>2, <3>3 DEF PromotionSteps, Starting
    <2>5. ASSUME NEW after \in {None, Failing}, NewFailures(q.before, after) = {},
                 Become(c, [q EXCEPT !.pc = "commit", !.after = after])
          PROVE  TreeDiscipline'
      <3> DEFINE t == [q EXCEPT !.pc = "commit", !.after = after]
      <3>1. /\ t.pc = "commit" /\ t.on = p /\ t.copy = r /\ t.applied = q.applied
            /\ t.before = q.before /\ t.after = after
        BY <1>3 DEF Process
      <3>2. None \notin {t.before, t.after} =>
              \A x \in Paths : fs[x] \in Breaking => x \in t.before \cup D
        BY <2>5, <3>1 DEF NewFailures, Failing
      <3> HIDE DEF t
      <3>3. Placed(t, B, fs, D)
        BY <2>2, <3>1, <3>2 DEF Placed, Complete, Split, ApplySteps
      <3>4. Become(c, t)
        BY <2>5 DEF t
      <3>5. QED
        BY <1>4, <2>1, <3>1, <3>3, <3>4 DEF PromotionSteps, Starting
    <2>6. QED
      BY <1>11, <2>3, <2>4, <2>5 DEF Verify, Assess
  <1>12. CASE UndoFails(c)
    <2>1. q.pc = "rollback" /\ Become(c, AfterUndo(q, FALSE)) /\ UNCHANGED store
      BY <1>12 DEF UndoFails
    <2>2. LET t == AfterUndo(q, FALSE) IN t.on = p /\ t.pc \in PromotionSteps
      BY <1>3 DEF AfterUndo, Process, PromotionSteps, Starting
    <2>3. PICK v : /\ Head(q.undo).recovery = "restore_backup" => v = B[Head(q.undo).path]
                   /\ Head(q.undo).recovery = "no_change" => v = fs[Head(q.undo).path]
                   /\ Head(q.undo).recovery \in {"remove_created_directory", "remove_created_file"}
                        => v = Absent
      <3>1. CASE Head(q.undo).recovery = "restore_backup"
        BY <3>1
      <3>2. CASE Head(q.undo).recovery = "no_change"
        BY <3>2
      <3>3. CASE Head(q.undo).recovery \notin {"restore_backup", "no_change"}
        BY <3>3
      <3>4. QED
        BY <3>1, <3>2, <3>3
    <2>4. Placed(AfterUndo(q, FALSE), B, fs, D)
      BY <1>2, <2>1, <2>3, AfterUndoPlaced DEF TypeOK
    <2>5. QED
      BY <1>4, <2>1, <2>2, <2>4
  <1>13. QED
    BY <1>6, <1>7, <1>8, <1>10, <1>11, <1>12

(* The copy of an old content, and the steps that change the tree. *)
LEMMA EffectTree ==
  ASSUME TypeOK, RecordDiscipline, TreeDiscipline, NEW c \in Procs,
         BackUp(c) \/ MakeDirectory(c) \/ ReplaceFile(c) \/ Undo(c)
  PROVE  TreeDiscipline'
  <1> DEFINE q == proc[c]
             p == q.on
             r == q.copy
             N == Len(r.classified)
             n == q.next
             B == backup[p]
             D == disturbed[p]
  <1>1. q.pc \in PromotionSteps /\ UNCHANGED store
    BY DEF BackUp, MakeDirectory, ReplaceFile, Undo, PromotionSteps, Starting, ApplySteps
  <1>2. /\ p \in Proposals /\ store[p] = r /\ Promotes(q)
        /\ Placed(q, B, fs, D) /\ Recoverable(r, B, fs, D)
    BY <1>1, PromotionIs
  <1>3. /\ q \in Process /\ r \in Record /\ N \in Nat \ {0} /\ n \in Nat
        /\ \A i \in 1..N : PathOf(r, i) \in Paths
        /\ \A i, j \in 1..N : PathOf(r, i) = PathOf(r, j) => i = j
        /\ fs \in [Paths -> FsValues] /\ B \in [Paths -> FsValues]
    BY <1>2, TargetsAre DEF Promotes, TypeOK
  <1>4. q.pc \in ApplySteps =>
          /\ n \in 1..N /\ Current(c) = r.classified[n] /\ Current(c).path = PathOf(r, n)
          /\ Current(c).type = "mkdir" => r.targets[n] \in {Absent, Directory}
          /\ Current(c).type = "write" => r.targets[n] \in Contents \cup {Absent}
          /\ Complete(q, B, D, n - 1)
    <2>1. ASSUME q.pc \in ApplySteps PROVE n \in 1..N /\ Complete(q, B, D, n - 1)
      BY <1>2, <2>1 DEF Placed
    <2>2. ASSUME q.pc \in ApplySteps
          PROVE  Current(c) = r.classified[n] /\ Current(c).path = PathOf(r, n)
      BY <1>2, <2>1, <2>2 DEF Current, Promotes, PathOf
    <2>3. QED
      BY <1>2, <2>1, <2>2 DEF Promotes, Inspected
  <1>5. ASSUME NEW x \in Paths, NEW v, SetPath(p, x, v), UNCHANGED backup
        PROVE  /\ fs' = [fs EXCEPT ![x] = v] /\ disturbed'[p] = D /\ Elsewhere(p)
    <2>1. /\ fs' = [fs EXCEPT ![x] = v] /\ disturbed'[p] = D
          /\ \A o \in Proposals : o # p /\ UnderWay(o) =>
               /\ disturbed[o] \subseteq disturbed'[o]
               /\ \A y \in Paths : fs'[y] = fs[y] \/ y \in disturbed'[o]
      BY <1>2, <1>5, SetPathDisturbs
    <2>2. QED
      BY <1>1, <1>5, <2>1 DEF Elsewhere
  (* At the path of the current action the tree becomes new. *)
  <1>6. ASSUME q.pc \in ApplySteps, Split(q, fs, D, n - 1),
               fs' = [fs EXCEPT ![PathOf(r, n)] = NewOf(r, n)],
               r.targets[n] \in Contents /\ PathOf(r, n) \notin D =>
                 r.targets[n] = B[PathOf(r, n)] \/ r.targets[n] = NewOf(r, n)
        PROVE  Split(q, fs', D, n) /\ Recoverable(r, B, fs', D)
    <2>1. fs'[PathOf(r, n)] = NewOf(r, n)
      BY <1>3, <1>4, <1>6
    <2>2. \A i \in 1..N : i # n => fs'[PathOf(r, i)] = fs[PathOf(r, i)]
      <3>1. ASSUME NEW i \in 1..N, i # n PROVE PathOf(r, i) \in Paths /\ PathOf(r, i) # PathOf(r, n)
        BY <1>3, <1>4, <1>6, <3>1
      <3>2. QED
        BY <1>3, <1>6, <3>1
    <2>3. Split(q, fs', D, n)
      <3>1. ASSUME NEW i \in 1..N, i <= n PROVE NewAt(r, fs', D, i)
        <4>1. CASE i = n
          BY <2>1, <4>1 DEF NewAt
        <4>2. CASE i # n
          <5>1. i <= n - 1
            BY <1>3, <3>1, <4>2
          <5>2. QED
            BY <1>6, <2>2, <4>2, <5>1 DEF Split, NewAt
        <4>3. QED
          BY <4>1, <4>2
      <3>2. ASSUME NEW i \in 1..N, ~(i <= n) PROVE OldAt(r, fs', D, i)
        <4>1. ~(i <= n - 1) /\ i # n
          BY <1>3, <3>2
        <4>2. QED
          BY <1>6, <2>2, <4>1 DEF Split, OldAt
      <3>3. QED
        BY <3>1, <3>2 DEF Split
    <2>4. Recoverable(r, B, fs', D)
      BY <1>2, <1>6, <2>1, <2>2 DEF Recoverable
    <2>5. QED
      BY <2>3, <2>4
  <1>7. CASE BackUp(c)
    <2> DEFINE x == PathOf(r, n)
               C == backup'[p]
               t == [q EXCEPT !.pc = "replace", !.strategy = "restore_backup"]
    <2>1. /\ q.pc = "apply" /\ q.pc \in ApplySteps /\ Become(c, t) /\ UNCHANGED <<fs, disturbed>>
          /\ backup' = [backup EXCEPT ![p][Current(c).path] = fs[Current(c).path]]
      BY <1>7 DEF BackUp, ApplySteps
    <2>2. /\ C = [B EXCEPT ![x] = fs[x]] /\ \A o \in Proposals \ {p} : backup'[o] = backup[o]
      BY <1>2, <1>4, <2>1 DEF TypeOK
    <2>3. C[x] = fs[x] /\ \A i \in 1..N : i # n => C[PathOf(r, i)] = B[PathOf(r, i)]
      <3>1. ASSUME NEW i \in 1..N, i # n PROVE PathOf(r, i) \in Paths /\ PathOf(r, i) # x
        BY <1>3, <1>4, <2>1, <3>1
      <3>2. C[x] = fs[x] /\ B \in [Paths -> FsValues]
        BY <1>3, <1>4, <2>1, <2>2
      <3> HIDE DEF C, B, N, n, x
      <3>3. \A y \in Paths : y # x => C[y] = B[y]
        BY <2>2, <3>2
      <3>4. QED
        BY <3>1, <3>2, <3>3
    <2>4. Split(q, fs, D, n - 1) /\ Complete(q, B, D, n - 1) /\ n \in 1..N
      BY <1>2, <1>4, <2>1 DEF Placed
    <2>5. OldAt(r, fs, D, n)
      BY <1>3, <2>4 DEF Split
    <2>6. Undoable(r, C, D, n, "restore_backup")
      BY <2>3, <2>5 DEF Undoable, OldAt
    <2>7. Complete(q, C, D, n - 1)
      <3>1. \A i \in 1..(n - 1) : i \in 1..N /\ i # n
        BY <1>3, <2>4
      <3>2. QED
        BY <2>3, <2>4, <3>1 DEF Complete, Undoable
    <2>8. /\ t.pc = "replace" /\ t.on = p /\ t.copy = r /\ t.next = n
          /\ t.applied = q.applied /\ t.strategy = "restore_backup"
      BY <1>3 DEF Process
    <2> HIDE DEF t, C
    <2>9. Placed(t, C, fs, D)
      BY <2>4, <2>6, <2>7, <2>8 DEF Placed, Complete, Split, ApplySteps
    <2>10. Recoverable(r, C, fs, D)
      BY <1>2, <2>3, <2>5 DEF Recoverable, OldAt
    <2>11. Elsewhere(p)
      BY <1>1, <2>1, <2>2 DEF Elsewhere
    <2>12. QED
      BY <1>1, <1>2, <2>1, <2>8, <2>9, <2>10, <2>11, OwnTreeStep
      DEF C, PromotionSteps, Starting, ApplySteps
  <1>8. CASE MakeDirectory(c)
    <2> DEFINE t == [q EXCEPT !.pc = "chmod"]
    <2>1. /\ q.pc = "apply" /\ q.pc \in ApplySteps /\ Current(c).type = "mkdir"
          /\ fs[PathOf(r, n)] = Absent /\ SetPath(p, PathOf(r, n), Directory)
          /\ Become(c, t) /\ UNCHANGED backup
      BY <1>4, <1>8 DEF MakeDirectory, ApplySteps
    <2>2. /\ fs' = [fs EXCEPT ![PathOf(r, n)] = Directory] /\ disturbed'[p] = D /\ Elsewhere(p)
      BY <1>3, <1>4, <1>5, <2>1
    <2>3. NewOf(r, n) = Directory
      BY <1>4, <2>1 DEF NewOf
    <2>4. Split(q, fs, D, n - 1)
      BY <1>2, <2>1 DEF Placed
    <2>5. r.targets[n] \notin Contents
      BY <1>4, <2>1, ConstantsAssumption
    <2>6. Split(q, fs', D, n) /\ Recoverable(r, B, fs', D)
      BY <1>6, <2>1, <2>2, <2>3, <2>4, <2>5
    <2>7. Undoable(r, B, D, n, "remove_created_directory")
      <3>1. OldAt(r, fs, D, n)
        BY <1>3, <1>4, <2>1, <2>4 DEF Split
      <3>2. QED
        BY <2>1, <3>1 DEF OldAt, Undoable
    <2>8. t.pc = "chmod" /\ t.on = p /\ t.copy = r /\ t.next = n /\ t.applied = q.applied
      BY <1>3 DEF Process
    <2> HIDE DEF t
    <2>9. r.classified[n].type = "mkdir"
      BY <1>4, <2>1
    <2>10. Placed(t, B, fs', D)
      BY <1>4, <2>1, <2>6, <2>7, <2>8, <2>9 DEF Placed, Complete, Split, ApplySteps
    <2>11. QED
      BY <1>1, <1>2, <2>1, <2>2, <2>6, <2>8, <2>10, OwnTreeStep DEF PromotionSteps, Starting,
                                                                    ApplySteps
  <1>9. CASE ReplaceFile(c)
    <2> DEFINE t == Completed(q, q.strategy)
    <2>1. /\ q.pc = "replace" /\ q.pc \in ApplySteps /\ SetPath(p, PathOf(r, n), Current(c).content)
          /\ Become(c, t) /\ UNCHANGED backup
      BY <1>4, <1>9 DEF ReplaceFile, ApplySteps
    <2>2. /\ fs' = [fs EXCEPT ![PathOf(r, n)] = Current(c).content]
          /\ disturbed'[p] = D /\ Elsewhere(p)
      BY <1>3, <1>4, <1>5, <2>1
    <2>3. NewOf(r, n) = Current(c).content
      <3>1. Current(c).type = "write"
        BY <1>2, <2>1 DEF Promotes, WellFormed, Current
      <3>2. QED
        BY <1>4, <2>1, <3>1 DEF NewOf
    <2>4. Split(q, fs, D, n - 1) /\ Undoable(r, B, D, n, q.strategy) /\ q.strategy \in Strategies
      BY <1>2, <1>3, <2>1 DEF Placed, Process
    <2>5. r.targets[n] \in Contents /\ PathOf(r, n) \notin D =>
            r.targets[n] = B[PathOf(r, n)] \/ r.targets[n] = NewOf(r, n)
      BY <2>4, ConstantsAssumption DEF Undoable, Strategies
    <2>6. Split(q, fs', D, n) /\ Recoverable(r, B, fs', D)
      BY <1>6, <2>1, <2>2, <2>3, <2>4, <2>5
    <2>7. Placed(t, B, fs', D)
      BY <1>2, <1>4, <2>1, <2>4, <2>6, CompletedPlaced
    <2>8. t.on = p /\ t.pc \in PromotionSteps
      BY <1>3 DEF Completed, Process, PromotionSteps, Starting, ApplySteps
    <2> HIDE DEF t
    <2>9. QED
      BY <1>1, <1>2, <2>1, <2>2, <2>6, <2>7, <2>8, OwnTreeStep
  <1>10. CASE Undo(c)
    <2> DEFINE h == Head(q.undo)
               v == RestoredValue(c)
               t == AfterUndo(q, TRUE)
    <2>1. /\ q.pc = "rollback" /\ SetPath(p, h.path, v) /\ Become(c, t) /\ UNCHANGED backup
      BY <1>10 DEF Undo, UndoRecord
    <2>2. h \in Applied
      <3>1. q.undo \in Seq(Applied) /\ q.undo # <<>>
        BY <1>2, <2>1 DEF Promotes, Process, WellFormed
      <3>2. QED
        BY <3>1
    <2>3. h.path \in Paths /\ h.recovery \in Strategies
      BY <2>2 DEF Applied
    <2>4. /\ fs' = [fs EXCEPT ![h.path] = v] /\ disturbed'[p] = D /\ Elsewhere(p)
      BY <1>5, <2>1, <2>3
    <2>5. /\ h.recovery = "restore_backup" => v = B[h.path]
          /\ h.recovery = "no_change" => v = fs[h.path]
          /\ h.recovery \in {"remove_created_directory", "remove_created_file"} => v = Absent
      BY DEF RestoredValue, UndoRecord
    <2> HIDE DEF v
    <2>6. Placed(t, B, fs', D) /\ Recoverable(r, B, fs', D)
      BY <1>2, <1>3, <2>1, <2>4, <2>5, AfterUndoPlaced
    <2>7. t.on = p /\ t.pc \in PromotionSteps
      BY <1>3 DEF AfterUndo, Process, PromotionSteps, Starting
    <2> HIDE DEF t
    <2>8. QED
      BY <1>1, <1>2, <2>1, <2>4, <2>6, <2>7, OwnTreeStep
  <1>11. QED
    BY <1>7, <1>8, <1>9, <1>10

(* TreeDiscipline is inductive, given types and records. *)
LEMMA NextTree ==
  TypeOK /\ RecordDiscipline /\ TreeDiscipline /\ [Next]_vars => TreeDiscipline'
  <1> SUFFICES ASSUME TypeOK, RecordDiscipline, TreeDiscipline, [Next]_vars PROVE TreeDiscipline'
    OBVIOUS
  <1>1. CASE UNCHANGED vars
    BY <1>1 DEF vars, TreeDiscipline, StateOf, UnderWay
  <1>2. ASSUME NEW c \in Procs, Step(c) PROVE TreeDiscipline'
    BY <1>2, RecordTree, ReinspectTree, QuietTree, EffectTree, StartTree DEF Step
  <1>3. ASSUME NEW c \in Procs, PrepareFails(c) \/ SaveFails(c) \/ Crash(c)
        PROVE  TreeDiscipline'
    BY <1>3, QuietTree, StartTree
  <1>4. QED
    BY <1>1, <1>2, <1>3, StartTree DEF Next

(* No promotion runs at the start. *)
LEMMA InitTree == Init => TreeDiscipline
  <1> SUFFICES ASSUME Init PROVE TreeDiscipline
    OBVIOUS
  <1>1. \A c \in Procs : proc[c].pc = "idle"
    BY DEF Init, Idle
  <1>2. \A p \in Proposals : ~UnderWay(p)
    BY <1>1 DEF Init, StateOf, UnderWay, Starting
  <1>3. QED
    BY <1>1, <1>2, StepNames DEF TreeDiscipline, Locking

(* What the tree holds during and after promotions, whatever they and      *)
(* other programs do to each other: the invariant behind the theorems      *)
(* below.                                                                  *)
THEOREM TreeHolds == Spec => []TreeDiscipline
  BY TypeCorrect, DisciplineHolds, InitTree, NextTree, PTL DEF Spec

(* Wherever a promotion is or died, each target that nobody else touched   *)
(* holds its old or its proposed value, and an old content that is gone    *)
(* from its path is in the recovery directory.                             *)
THEOREM CrashAlwaysRecoverable == Spec => []CrashRecoverable
  <1>1. TreeDiscipline => CrashRecoverable
    <2> SUFFICES ASSUME TreeDiscipline, NEW p \in Proposals, StateOf(p) = "applying",
                        NEW i \in DOMAIN store[p].targets, Target(p, i) \notin disturbed[p]
                 PROVE  LET a   == store[p].classified[i]
                            old == store[p].targets[i]
                            new == IF a.type = "mkdir" THEN Directory ELSE a.content
                        IN /\ fs[a.path] \in {old, new}
                           /\ old \in Contents => old \in {fs[a.path], backup[p][a.path]}
      BY DEF CrashRecoverable
    <2>1. Recoverable(store[p], backup[p], fs, disturbed[p]) /\ i \in 1..Len(store[p].classified)
      BY DEF TreeDiscipline, Recoverable, Inspected, UnderWay
    <2>2. QED
      BY <2>1 DEF Recoverable, PathOf, NewOf, Target
  <1>2. QED
    BY <1>1, TreeHolds, PTL

(* What promote replaces is what classification observed, unless somebody  *)
(* else changed it since the promotion began.                              *)
THEOREM NeverStaleOverwriteAlone == Spec => []NoStaleOverwriteAlone
  <1>1. TypeOK /\ RecordDiscipline /\ TreeDiscipline => NoStaleOverwriteAlone
    <2> SUFFICES ASSUME TypeOK, RecordDiscipline, TreeDiscipline, NEW c \in Procs,
                        proc[c].pc \in {"prepare", "apply", "replace"},
                        NEW i \in proc[c].next..Len(proc[c].copy.actions),
                        proc[c].copy.actions[i].path \notin disturbed[proc[c].on]
                 PROVE  fs[proc[c].copy.actions[i].path] = proc[c].copy.targets[i]
      BY DEF NoStaleOverwriteAlone
    <2> DEFINE q == proc[c]
               r == q.copy
    <2>1. q.pc \in PromotionSteps
      BY DEF PromotionSteps, Starting, ApplySteps
    <2>2. /\ Promotes(q) /\ Placed(q, backup[q.on], fs, disturbed[q.on])
          /\ r.actions = r.classified
      BY <2>1, PromotionIs DEF Promotes
    <2>3. /\ Split(q, fs, disturbed[q.on], q.next - 1) /\ q.next \in 1..Len(r.classified)
      BY <2>2 DEF Placed, ApplySteps
    <2>4. i \in 1..Len(r.classified) /\ ~(i <= q.next - 1)
      BY <2>2, <2>3, TargetsAre
    <2>5. QED
      BY <2>2, <2>3, <2>4 DEF Split, OldAt, PathOf
  <1>2. QED
    BY <1>1, TypeCorrect, DisciplineHolds, TreeHolds, PTL

(* A promotion about to commit leaves no target in a state that fails a    *)
(* workload and did not before, where both assessments came.               *)
THEOREM CommitNeverIntroducesFailure == Spec => []CommitIntroducesNoFailure
  <1>1. TypeOK /\ RecordDiscipline /\ TreeDiscipline => CommitIntroducesNoFailure
    <2> SUFFICES ASSUME TypeOK, RecordDiscipline, TreeDiscipline, NEW c \in Procs,
                        proc[c].pc = "commit", None \notin {proc[c].before, proc[c].after},
                        NEW i \in DOMAIN proc[c].copy.actions,
                        fs[proc[c].copy.actions[i].path] \in Breaking
                 PROVE  proc[c].copy.actions[i].path \in
                          proc[c].before \cup disturbed[proc[c].on]
      BY DEF CommitIntroducesNoFailure
    <2>1. proc[c].pc \in PromotionSteps /\ proc[c].pc # "idle"
      BY DEF PromotionSteps, Starting
    <2>2. Placed(proc[c], backup[proc[c].on], fs, disturbed[proc[c].on])
      BY <2>1, PromotionIs
    <2>3. proc[c].copy.actions[i].path \in Paths
      BY <2>1, RunningType, DefinitionType
    <2>4. QED
      BY <2>2, <2>3 DEF Placed
  <1>2. QED
    BY <1>1, TypeCorrect, DisciplineHolds, TreeHolds, PTL

(* A promotion that turned back ends in one way. *)
LEMMA EndsByFinish ==
  ASSUME TypeOK, RecordDiscipline, [Next]_vars, NEW p \in Proposals, StateOf(p) = "applying",
         store'[p].state \in {"rolled_back", "failed"}
  PROVE  \E c \in Procs : /\ proc[c].pc = "finish" /\ proc[c].on = p
                          /\ proc[c].clean <=> store'[p].state = "rolled_back"
  <1>1. store[p] \in Record /\ store[p].state = "applying"
    BY DEF StateOf, TypeOK
  <1>2. store'[p] # store[p]
    BY <1>1
  <1>3. \A r \in Record : \A to : Transition(r, to).state = to
    BY DEF Record, Transition
  <1>4. ASSUME NEW d \in Definitions, EditRecord(p, d) PROVE FALSE
    <2>1. store'[p] = [store[p] EXCEPT !.actions = d]
      BY <1>4 DEF EditRecord, TypeOK
    <2>2. [store[p] EXCEPT !.actions = d].state = store[p].state
      BY <1>1 DEF Record
    <2>3. QED
      BY <1>1, <2>1, <2>2
  <1>5. PICK c \in Procs : \/ WriteDraft(c) \/ Classify(c) \/ Approve(c) \/ Reject(c)
                           \/ Begin(c) \/ Prepare(c) \/ Commit(c) \/ Finish(c)
    <2>1. \A o \in Proposals, d \in Definitions : EditRecord(o, d) => o = p
      BY <1>2 DEF EditRecord, TypeOK
    <2>2. QED
      BY <1>2, <1>4, <2>1, OnlySavesStore
      DEF Next, vars, ClaimId, Open, PrepareFails, SaveFails, Crash, EditFile
  <1>6. /\ proc[c].pc # "idle" /\ proc[c].on \in Proposals /\ proc[c].copy \in Record
        /\ proc[c].copy.actions \in Definitions
    BY <1>5, RunningType
    DEF WriteDraft, Classify, Approve, Reject, Begin, Prepare, Commit, Finish
  <1>7. \A r : Save(proc[c].on, r) => proc[c].on = p /\ store'[p] = r
    BY <1>2, <1>6 DEF Save, TypeOK
  <1>8. proc[c].pc \in Locking => store[proc[c].on] = proc[c].copy
    BY DEF RecordDiscipline, LockedCopyIsCurrent, Locking
  <1>9. CASE WriteDraft(c)
    BY <1>1, <1>7, <1>9, NoneAssumption
    DEF WriteDraft, Conclude, RecordDiscipline, ClaimsAreExclusive
  <1>10. CASE Classify(c) \/ Approve(c) \/ Reject(c)
    <2>1. proc[c].pc \in Operations \ {"promote"} /\ proc[c].on = p
      BY <1>7, <1>10 DEF Classify, Approve, Reject, Conclude, Operations
    <2>2. proc[c].copy.state \in Required(proc[c].pc) /\ store[p] = proc[c].copy
      BY <1>8, <2>1 DEF RecordDiscipline, StepsFitRecords, Locking
    <2>3. QED
      BY <1>1, <2>1, <2>2, RequiredStates DEF Operations
  <1>11. CASE Prepare(c)
    <2>1. store'[p] = [proc[c].copy EXCEPT !.recovery = "ready"] /\ proc[c].on = p
      BY <1>7, <1>11 DEF Prepare
    <2>2. store[p] = proc[c].copy
      BY <1>8, <1>11, <2>1 DEF Prepare, Locking, PromotionSteps, Starting
    <2>3. [store[p] EXCEPT !.recovery = "ready"].state = store[p].state
      BY <1>1 DEF Record
    <2>4. QED
      BY <1>1, <2>1, <2>2, <2>3
  <1>12. CASE Commit(c)
    <2>1. [proc[c].copy EXCEPT !.recovery = "available"] \in Record
      BY <1>6 DEF Record
    <2>2. store'[p] = Transition([proc[c].copy EXCEPT !.recovery = "available"], "committed")
      BY <1>7, <1>12 DEF Commit, Conclude
    <2>3. QED
      BY <1>3, <2>1, <2>2
  <1>13. CASE Finish(c)
    <2> DEFINE s == [proc[c].copy EXCEPT !.recovery =
                       IF proc[c].clean THEN "restored" ELSE "failed"]
               to == IF proc[c].clean THEN "rolled_back" ELSE "failed"
    <2>1. s \in Record
      BY <1>6 DEF Record
    <2>2. store'[p] = Transition(s, to) /\ proc[c].on = p /\ proc[c].pc = "finish"
      BY <1>7, <1>13 DEF Finish, Conclude
    <2> HIDE DEF s
    <2>3. to = store'[p].state
      BY <1>3, <2>1, <2>2
    <2>4. QED
      BY <2>2, <2>3
  <1>14. CASE Begin(c)
    <2>1. store'[p] = Transition(proc[c].copy, "applying")
      BY <1>7, <1>14 DEF Begin
    <2>2. QED
      BY <1>3, <1>6, <2>1
  <1>15. QED
    BY <1>5, <1>9, <1>10, <1>11, <1>12, <1>13, <1>14

(* The targets of p that are not as classified, and nobody else's work.    *)
Unrestored(p) ==
  {i \in DOMAIN store[p].targets :
     Target(p, i) \notin disturbed[p] /\ fs[Target(p, i)] # store[p].targets[i]}

(* What becomes rolled_back has each target back but one, at most: a new   *)
(* directory that is still there.                                          *)
OnlyOneDirectoryStays ==
  \A p \in Proposals : BecomesAt(p, "applying", "rolled_back") =>
    /\ \A i, k \in Unrestored(p) : i = k
    /\ \A i \in Unrestored(p) :
         /\ "chmod" \in Troubles /\ store[p].classified[i].type = "mkdir"
         /\ store[p].targets[i] = Absent /\ fs[Target(p, i)] = Directory

LEMMA RolledBackIs ==
  ASSUME TypeOK, RecordDiscipline, TreeDiscipline, [Next]_vars, NEW p \in Proposals,
         StateOf(p) = "applying", StateOf(p)' = "rolled_back"
  PROVE  \E n \in Nat : \A i \in Unrestored(p) : i = n + 1 /\ Residue(store[p], fs, i)
  <1>1. store'[p].state = "rolled_back"
    BY DEF StateOf
  <1>2. PICK c \in Procs : proc[c].pc = "finish" /\ proc[c].on = p /\ proc[c].clean
    BY <1>1, EndsByFinish
  <1>3. /\ Placed(proc[c], backup[p], fs, disturbed[p]) /\ store[p] = proc[c].copy
        /\ Promotes(proc[c]) /\ Inspected(store[p])
    BY <1>2, PromotionIs DEF PromotionSteps, Starting, Promotes
  <1>4. Untouched(proc[c], fs, disturbed[p], 0) /\ Len(proc[c].applied) \in Nat
    BY <1>2, <1>3, TargetsAre DEF Placed
  <1>5. ASSUME NEW i \in Unrestored(p)
        PROVE  i = Len(proc[c].applied) + 1 /\ Residue(store[p], fs, i)
    <2>1. i \in 1..Len(store[p].classified) /\ i > 0
      BY <1>3, DefinitionType DEF Unrestored, Inspected
    <2>2. ~OldAt(store[p], fs, disturbed[p], i)
      BY DEF Unrestored, OldAt, PathOf, Target
    <2>3. QED
      BY <1>3, <1>4, <2>1, <2>2 DEF Untouched
  <1>6. QED
    BY <1>4, <1>5

(* Whatever fails, goes on beside it or dies, a rollback that ends well    *)
(* leaves of its own at most one thing behind: the directory whose chmod   *)
(* failed (apply_actions records an action when it is complete, and        *)
(* rollback_actions undoes what is on record).  The run proposals_residue  *)
(* has the case.                                                           *)
THEOREM RollbackLeavesOneDirectory == Spec => [][OnlyOneDirectoryStays]_vars
  <1>1. ASSUME TypeOK, RecordDiscipline, TreeDiscipline, [Next]_vars, NEW p \in Proposals,
               StateOf(p) = "applying", StateOf(p)' = "rolled_back"
        PROVE  /\ \A i, k \in Unrestored(p) : i = k
               /\ \A i \in Unrestored(p) :
                    /\ "chmod" \in Troubles /\ store[p].classified[i].type = "mkdir"
                    /\ store[p].targets[i] = Absent /\ fs[Target(p, i)] = Directory
    <2>1. PICK n \in Nat : \A i \in Unrestored(p) : i = n + 1 /\ Residue(store[p], fs, i)
      BY <1>1, RolledBackIs
    <2>2. QED
      BY <2>1 DEF Residue, PathOf, Target
  <1>2. TypeOK /\ RecordDiscipline /\ TreeDiscipline /\ [Next]_vars =>
          [OnlyOneDirectoryStays]_vars
    BY <1>1 DEF BecomesAt, OnlyOneDirectoryStays
  <1>3. QED
    BY <1>2, TypeCorrect, DisciplineHolds, TreeHolds, PTL DEF Spec

(* A proposal becomes rolled_back only with each target back at its        *)
(* classified state, unless somebody else changed it, where no chmod of a  *)
(* new directory fails.                                                    *)
THEOREM RollbackAlwaysRestores ==
  ASSUME "chmod" \notin Troubles PROVE Spec => RollbackRestores
  <1>1. ASSUME TypeOK, RecordDiscipline, TreeDiscipline, [Next]_vars, NEW p \in Proposals,
               StateOf(p) = "applying", StateOf(p)' = "rolled_back",
               NEW i \in DOMAIN store[p].targets
        PROVE  Target(p, i) \in disturbed[p] \/ fs[Target(p, i)] = store[p].targets[i]
    <2>1. i \notin Unrestored(p)
      BY <1>1, RolledBackIs DEF Residue
    <2>2. QED
      BY <2>1 DEF Unrestored
  <1>2. TypeOK /\ RecordDiscipline /\ TreeDiscipline /\ [Next]_vars =>
          [\A p \in Proposals : BecomesAt(p, "applying", "rolled_back") =>
             \A i \in DOMAIN store[p].targets :
               Target(p, i) \in disturbed[p] \/ fs[Target(p, i)] = store[p].targets[i]]_vars
    BY <1>1 DEF BecomesAt
  <1>3. QED
    BY <1>2, TypeCorrect, DisciplineHolds, TreeHolds, PTL DEF Spec, RollbackRestores

-----------------------------------------------------------------------------
(* When a rollback fails.                                                  *)

(* Nothing is below a path that is no directory. *)
Rooted(f) ==
  \A x \in Paths : f[x] # Absent /\ ParentOf[x] # Root => f[ParentOf[x]] = Directory

(* The way back that fits an action. *)
Fitting(r, i, s) ==
  /\ s \in {"restore_backup", "remove_created_file"} => r.classified[i].type = "write"
  /\ s = "remove_created_directory" => r.classified[i].type = "mkdir"

Targets(r) == {PathOf(r, i) : i \in 1..Len(r.classified)}

(* Targets below one that is to be created come after it and are to be     *)
(* created, too.                                                           *)
TopDown(r) ==
  \A i, k \in 1..Len(r.classified) :
    r.targets[i] = Absent /\ ParentOf[PathOf(r, k)] = PathOf(r, i) =>
      i < k /\ r.targets[k] = Absent

(* A promotion that nobody disturbs has had no failure to restore, knows a *)
(* way back from each complete action that fits it, and finds nothing but  *)
(* its own below the directories that it creates.                          *)
Calm(q, f) ==
  /\ q.clean
  /\ TopDown(q.copy)
  /\ \A i \in 1..Len(q.copy.classified) : q.copy.targets[i] = Absent =>
       \A y \in Paths \ Targets(q.copy) : ParentOf[y] = PathOf(q.copy, i) => f[y] = Absent
  /\ \A i \in 1..Len(q.applied) : Fitting(q.copy, i, q.applied[i].recovery)
  /\ q.pc = "chmod" => q.copy.classified[q.next].type = "mkdir"
  /\ q.pc = "replace" => Fitting(q.copy, q.next, q.strategy)

CalmDiscipline ==
  /\ Rooted(fs)
  /\ \A c \in Procs : proc[c].pc \in Operations => proc[c].clean
  /\ \A c \in Procs : proc[c].pc \in PromotionSteps /\ disturbed[proc[c].on] = {} =>
       Calm(proc[c], fs)

(* One path becomes something else, with a directory above it, and nothing *)
(* below it if it was a directory.                                         *)
LEMMA SetPathRooted ==
  ASSUME Rooted(fs), NEW x \in Paths, NEW v, fs \in [Paths -> FsValues],
         v # Absent => HasParent(x),
         fs[x] = Directory => v = Directory \/ Empty(x)
  PROVE  Rooted([fs EXCEPT ![x] = v])
  <1> DEFINE f == [fs EXCEPT ![x] = v]
  <1>1. \A y \in Paths : f[y] = IF y = x THEN v ELSE fs[y]
    OBVIOUS
  <1>2. Absent # Directory
    BY DEF Absent, Directory
  <1> HIDE DEF f
  <1>3. ASSUME NEW y \in Paths, f[y] # Absent, ParentOf[y] # Root
        PROVE  f[ParentOf[y]] = Directory
    <2>1. ParentOf[y] \in Paths
      BY <1>3, ConstantsAssumption
    <2>2. fs[ParentOf[y]] = Directory
      BY <1>1, <1>3 DEF Rooted, HasParent
    <2>3. CASE ParentOf[y] # x
      BY <1>1, <2>1, <2>2, <2>3
    <2>4. CASE ParentOf[y] = x
      <3>1. ~Empty(x)
        <4>1. CASE y = x
          BY <1>2, <2>2, <2>4, <4>1 DEF Empty
        <4>2. CASE y # x
          BY <1>1, <1>3, <2>4, <4>2 DEF Empty
        <4>3. QED
          BY <4>1, <4>2
      <3>2. QED
        BY <1>1, <2>2, <2>4, <3>1
    <2>5. QED
      BY <2>3, <2>4
  <1>4. QED
    BY <1>3 DEF Rooted, f

(* A step on behalf of proposal p disturbs the others where it changes the *)
(* tree.                                                                   *)
Apart(p) ==
  \A o \in Proposals \ {p} : UnderWay(o) =>
    /\ disturbed[o] \subseteq disturbed'[o]
    /\ \A x \in Paths : fs'[x] = fs[x] \/ x \in disturbed'[o]

(* Such a step leaves the other promotions calm. *)
LEMMA CalmStep ==
  ASSUME TypeOK, RecordDiscipline, TreeDiscipline, CalmDiscipline, NEW p, Apart(p), Rooted(fs'),
         \A e \in Procs : proc'[e].pc \in PromotionSteps =>
           \/ proc'[e] = proc[e] /\ proc[e].on # p
           \/ disturbed'[proc'[e].on] = {} => Calm(proc'[e], fs'),
         \A e \in Procs : proc'[e].pc \in Operations => proc'[e] = proc[e] \/ proc'[e].clean
  PROVE  CalmDiscipline'
  <1>1. ASSUME NEW e \in Procs, proc'[e].pc \in PromotionSteps, disturbed'[proc'[e].on] = {}
        PROVE  Calm(proc'[e], fs')
    <2> DEFINE o == proc[e].on
               q == proc[e]
    <2>1. CASE proc'[e] = q /\ o # p
      <3>1. o \in Proposals \ {p} /\ UnderWay(o) /\ Inspected(q.copy)
        BY <1>1, <2>1, PromotionIs DEF Promotes
      <3>2. disturbed[o] = {} /\ \A x \in Paths : fs'[x] = fs[x]
        BY <1>1, <2>1, <3>1 DEF Apart
      <3>3. Calm(q, fs)
        BY <1>1, <2>1, <3>2 DEF CalmDiscipline
      <3>4. Calm(q, fs')
        BY <3>2, <3>3 DEF Calm
      <3>5. QED
        BY <2>1, <3>4
    <2>2. QED
      BY <1>1, <2>1
  <1>2. QED
    BY <1>1 DEF CalmDiscipline

(* A promotion takes a step and goes on. *)
LEMMA OwnCalmStep ==
  ASSUME TypeOK, RecordDiscipline, TreeDiscipline, CalmDiscipline, NEW c \in Procs,
         proc[c].pc \in PromotionSteps, NEW t, Become(c, t), t.on = proc[c].on,
         t.pc \in PromotionSteps, Apart(proc[c].on), Rooted(fs'),
         disturbed'[proc[c].on] = disturbed[proc[c].on],
         Calm(proc[c], fs) /\ disturbed[proc[c].on] = {} => Calm(t, fs')
  PROVE  CalmDiscipline'
  <1>1. proc'[c] = t /\ \A e \in Procs \ {c} : proc'[e] = proc[e]
    BY DEF Become, TypeOK
  <1>2. \A e \in Procs \ {c} : proc[e].pc \in PromotionSteps => proc[e].on # proc[c].on
    BY PromotionIs
  <1>3. disturbed[proc[c].on] = {} => Calm(proc[c], fs)
    BY DEF CalmDiscipline
  <1>4. QED
    BY <1>1, <1>2, <1>3, StepNames, CalmStep

(* A command ends, or is no promotion, and the tree stays as it is. *)
LEMMA QuitCalm ==
  ASSUME TypeOK, RecordDiscipline, TreeDiscipline, CalmDiscipline, NEW c \in Procs, NEW t,
         Become(c, t), t.pc \notin PromotionSteps, t.clean, UNCHANGED fs,
         \/ UNCHANGED disturbed
         \/ /\ proc[c].pc \in PromotionSteps
            /\ \A o \in Proposals \ {proc[c].on} : disturbed'[o] = disturbed[o]
  PROVE  CalmDiscipline'
  <1>1. proc'[c] = t /\ \A e \in Procs \ {c} : proc'[e] = proc[e]
    BY DEF Become, TypeOK
  <1>2. Rooted(fs')
    BY DEF CalmDiscipline
  <1>3. CASE UNCHANGED disturbed
    <2>1. Apart(None) /\ None \notin Proposals
      BY <1>3, ConstantsAssumption DEF Apart
    <2>2. \A e \in Procs \ {c} : proc[e].pc \in PromotionSteps => proc[e].on # None
      BY <2>1, PromotionIs
    <2>3. QED
      BY <1>1, <1>2, <2>1, <2>2, CalmStep
  <1>4. CASE /\ proc[c].pc \in PromotionSteps
             /\ \A o \in Proposals \ {proc[c].on} : disturbed'[o] = disturbed[o]
    <2>1. Apart(proc[c].on)
      BY <1>4 DEF Apart
    <2>2. \A e \in Procs \ {c} : proc[e].pc \in PromotionSteps => proc[e].on # proc[c].on
      BY <1>4, PromotionIs
    <2>3. QED
      BY <1>1, <1>2, <2>1, <2>2, CalmStep
  <1>5. QED
    BY <1>3, <1>4

(* Commands that start, end, or save a record for which they do not promote. *)
LEMMA StartCalm ==
  ASSUME TypeOK, RecordDiscipline, TreeDiscipline, CalmDiscipline, NEW c \in Procs,
         \/ \E p \in Proposals, d \in Definitions : ClaimId(c, p, d)
         \/ \E p \in Proposals, op \in Operations : Open(c, op, p)
         \/ WriteDraft(c) \/ Classify(c) \/ Approve(c) \/ Reject(c) \/ Refuse(c)
         \/ Commit(c) \/ Finish(c) \/ SaveFails(c) \/ Crash(c)
  PROVE  CalmDiscipline'
  <1>1. PICK t : Become(c, t) /\ t.pc \notin PromotionSteps /\ t.clean
    <2>1. CASE \E p \in Proposals, d \in Definitions : ClaimId(c, p, d)
      <3>1. PICK p, d : Become(c, [Idle EXCEPT !.pc = "create", !.on = p, !.copy = NewRecord(d)])
        BY <2>1 DEF ClaimId
      <3>2. LET t == [Idle EXCEPT !.pc = "create", !.on = p, !.copy = NewRecord(d)]
            IN t.pc = "create" /\ t.clean
        BY DEF Idle
      <3>3. QED
        BY <3>1, <3>2 DEF PromotionSteps, Starting, ApplySteps
    <2>2. CASE \E p \in Proposals, op \in Operations : Open(c, op, p)
      <3>1. PICK p \in Proposals, op \in Operations :
              Become(c, [Idle EXCEPT !.pc = op, !.on = p, !.copy = store[p]])
        BY <2>2 DEF Open
      <3>2. LET t == [Idle EXCEPT !.pc = op, !.on = p, !.copy = store[p]] IN t.pc = op /\ t.clean
        BY DEF Idle
      <3>3. op \notin PromotionSteps
        BY StepNames DEF Operations, PromotionSteps, Starting, ApplySteps
      <3>4. QED
        BY <3>1, <3>2, <3>3
    <2>3. CASE Become(c, Idle)
      BY <2>3 DEF Idle, PromotionSteps, Starting, ApplySteps
    <2>4. QED
      BY <2>1, <2>2, <2>3
      DEF WriteDraft, Classify, Approve, Reject, Refuse, Commit, Finish, SaveFails, Crash, Conclude,
          Release
  <1>2. UNCHANGED fs
    BY DEF ClaimId, Open, WriteDraft, Classify, Approve, Reject, Refuse, Commit, Finish, SaveFails,
           Crash
  <1>3. \/ UNCHANGED disturbed
        \/ /\ proc[c].pc \in PromotionSteps
           /\ \A o \in Proposals \ {proc[c].on} : disturbed'[o] = disturbed[o]
    <2>1. CASE Commit(c) \/ Finish(c)
      BY <2>1 DEF Commit, Finish, PromotionSteps, Starting, TypeOK
    <2>2. QED
      BY <2>1 DEF ClaimId, Open, WriteDraft, Classify, Approve, Reject, Refuse, SaveFails, Crash
  <1>4. QED
    BY <1>1, <1>2, <1>3, QuitCalm

(* A promotion begins in a tree that is as its record says. *)
LEMMA ReinspectCalm ==
  ASSUME TypeOK, RecordDiscipline, TreeDiscipline, CalmDiscipline, NEW c \in Procs, Reinspect(c)
  PROVE  CalmDiscipline'
  <1> DEFINE q == proc[c]
             p == q.on
             r == q.copy
             d == r.actions
             t == [q EXCEPT !.pc = "baseline"]
  <1>1. /\ q.pc = "promote" /\ q \in Process /\ p \in Proposals /\ d \in Definitions
        /\ q.next = 1 /\ q.applied = <<>> /\ r.classified = d /\ r.targets = Observed(d)
    BY BegunRecord
  <1>2. q.clean
    BY <1>1 DEF CalmDiscipline, Operations
  <1>3. Become(c, t)
    BY DEF Reinspect
  <1>4. t.pc = "baseline" /\ t.on = p /\ t.copy = r /\ t.applied = <<>> /\ t.clean
    BY <1>1, <1>2 DEF Process
  <1>5. /\ Len(d) \in Nat /\ DOMAIN d = 1..Len(d)
        /\ \A i \in 1..Len(d) : /\ d[i].path \in Paths /\ PathOf(r, i) = d[i].path
                                /\ r.targets[i] = fs[d[i].path]
        /\ \A i, j \in 1..Len(d) : d[i].path = d[j].path => i = j
    <2>1. /\ Len(d) \in Nat /\ DOMAIN d = 1..Len(d)
          /\ \A i \in 1..Len(d) : d[i].path \in Paths
      BY <1>1, DefinitionType
    <2>2. \A i, j \in 1..Len(d) : d[i].path = d[j].path => i = j
      BY <1>1, <2>1, DefinitionsAssumption
    <2>3. r.classified = d /\ r.targets = Observed(d)
      BY <1>1
    <2> HIDE DEF d, r
    <2>4. \A i \in 1..Len(d) : PathOf(r, i) = d[i].path /\ r.targets[i] = fs[d[i].path]
      BY <2>1, <2>3 DEF Observed, PathOf
    <2>5. QED
      BY <2>1, <2>2, <2>4
  <1>6. Inspectable(d)
    BY DEF Reinspect, MayPromote
  <1>7. /\ \A x \in Paths : x # Root
        /\ Absent # Directory
    BY ConstantsAssumption DEF Absent, Directory
  <1> HIDE DEF r
  (* Nothing is below what is absent. *)
  <1>8. ASSUME NEW i \in 1..Len(d), r.targets[i] = Absent, NEW y \in Paths, ParentOf[y] = PathOf(r, i)
        PROVE  fs[y] = Absent
    <2>1. ParentOf[y] = d[i].path /\ d[i].path # Root /\ fs[d[i].path] = Absent
      BY <1>5, <1>7, <1>8
    <2>2. Rooted(fs)
      BY DEF CalmDiscipline
    <2>3. QED
      BY <1>7, <2>1, <2>2 DEF Rooted
  <1>9. TopDown(r)
    <2>1. ASSUME NEW i \in 1..Len(d), NEW k \in 1..Len(d), r.targets[i] = Absent,
                 ParentOf[PathOf(r, k)] = PathOf(r, i)
          PROVE  i < k /\ r.targets[k] = Absent
      <3>1. r.targets[k] = Absent
        <4>1. PathOf(r, k) \in Paths /\ r.targets[k] = fs[PathOf(r, k)]
          BY <1>5
        <4>2. fs[PathOf(r, k)] = Absent
          BY <1>8, <2>1, <4>1
        <4>3. QED
          BY <4>1, <4>2
      <3>2. ~HasParent(d[k].path)
        <4>1. ParentOf[d[k].path] = d[i].path /\ fs[d[i].path] = Absent /\ d[i].path # Root
          BY <1>5, <1>7, <2>1
        <4>2. QED
          BY <1>7, <4>1 DEF HasParent
      <3>3. d[i].path \in PlannedBefore(d, k)
        BY <1>5, <1>6, <2>1, <3>2 DEF Inspectable
      <3>4. PICK j \in 1..(k - 1) : d[j].path = d[i].path
        BY <3>3 DEF PlannedBefore
      <3>5. j = i /\ j < k
        BY <1>5, <3>4
      <3>6. QED
        BY <3>1, <3>5
    <2>2. QED
      BY <1>1, <2>1 DEF TopDown
  <1> HIDE DEF t
  <1>10. Calm(t, fs)
    BY <1>1, <1>4, <1>8, <1>9 DEF Calm
  <1>11. UNCHANGED fs /\ \A o \in Proposals \ {p} : disturbed'[o] = disturbed[o]
    BY DEF Reinspect, TypeOK
  <1>12. proc'[c] = t /\ \A e \in Procs \ {c} : proc'[e] = proc[e]
    BY <1>3 DEF Become, TypeOK, t
  <1>13. \A e \in Procs \ {c} : proc[e].pc \in PromotionSteps => proc[e].on # p
    BY <1>1 DEF RecordDiscipline, LockedCopyIsCurrent, Operations
  <1>14. Apart(p) /\ Rooted(fs')
    BY <1>11 DEF Apart, CalmDiscipline
  <1>15. \A e \in Procs : proc'[e].pc \in PromotionSteps =>
           \/ proc'[e] = proc[e] /\ proc[e].on # p
           \/ disturbed'[proc'[e].on] = {} => Calm(proc'[e], fs')
    BY <1>10, <1>11, <1>12, <1>13
  <1>16. \A e \in Procs : proc'[e].pc \in Operations => proc'[e] = proc[e] \/ proc'[e].clean
    BY <1>4, <1>12
  <1>17. QED
    BY <1>14, <1>15, <1>16, CalmStep

(* A promotion that holds the same stays calm, and so it does where the    *)
(* tree changes at its targets only.                                       *)
LEMMA SameCalm ==
  ASSUME NEW q, NEW f, Calm(q, f), NEW t, t.clean = q.clean, t.copy = q.copy,
         t.applied = q.applied, t.pc \notin {"chmod", "replace"},
         NEW g, \A x \in Paths \ Targets(q.copy) : g[x] = f[x]
  PROVE  Calm(t, g)
  BY DEF Calm

LEMMA CompletedCalm ==
  ASSUME NEW q, Promotes(q), q.pc \in ApplySteps, Len(q.applied) = q.next - 1, NEW f, Calm(q, f),
         NEW s \in Strategies, Fitting(q.copy, q.next, s),
         NEW g, \A x \in Paths \ Targets(q.copy) : g[x] = f[x]
  PROVE  Calm(Completed(q, s), g)
  <1> DEFINE a == [path |-> q.copy.actions[q.next].path, recovery |-> s]
             t == Completed(q, s)
  <1>1. /\ q.applied \in Seq(Applied) /\ q.next \in Nat \ {0} /\ a.recovery = s
        /\ t.applied = Append(q.applied, a) /\ t.copy = q.copy /\ t.clean = q.clean
        /\ t.pc \in {"verify", "apply"}
    BY TargetsAre DEF Completed, Promotes, Process
  <1>2. a \in Applied
    <2>1. q.copy.actions[q.next].path \in Paths
      BY TargetsAre
    <2>2. QED
      BY <2>1 DEF Applied
  <1>3. /\ Len(t.applied) = q.next /\ t.applied[q.next] = a
        /\ \A i \in 1..(q.next - 1) : t.applied[i] = q.applied[i]
    BY <1>1, <1>2
  <1>4. \A i \in 1..q.next : Fitting(q.copy, i, t.applied[i].recovery)
    <2>1. ASSUME NEW i \in 1..q.next PROVE Fitting(q.copy, i, t.applied[i].recovery)
      <3>1. CASE i = q.next
        BY <1>1, <1>3, <3>1
      <3>2. CASE i # q.next
        BY <1>1, <1>3, <3>2 DEF Calm
      <3>3. QED
        BY <3>1, <3>2
    <2>2. QED
      BY <2>1
  <1> HIDE DEF t
  <1>5. t.clean /\ TopDown(t.copy) /\ t.pc \notin {"chmod", "replace"}
    BY <1>1 DEF Calm
  <1>6. \A i \in 1..Len(t.copy.classified) : t.copy.targets[i] = Absent =>
          \A y \in Paths \ Targets(t.copy) : ParentOf[y] = PathOf(t.copy, i) => g[y] = Absent
    BY <1>1 DEF Calm
  <1>7. Calm(t, g)
    BY <1>1, <1>3, <1>4, <1>5, <1>6 DEF Calm
  <1>8. QED
    BY <1>7 DEF t

(* A rollback that nobody disturbs meets its targets as it left them: a    *)
(* file with its directory, and a directory with nothing in it.            *)
LEMMA CalmRestorable ==
  ASSUME TypeOK, RecordDiscipline, TreeDiscipline, CalmDiscipline, "chmod" \notin Troubles,
         NEW c \in Procs, proc[c].pc = "rollback", disturbed[proc[c].on] = {}
  PROVE  Restorable(c)
  <1> DEFINE q == proc[c]
             r == q.copy
             N == Len(r.classified)
             n == Len(q.undo)
             h == UndoRecord(c)
             x == PathOf(r, n)
  <1>1. q.pc \in PromotionSteps
    BY DEF PromotionSteps, Starting
  <1>2. /\ Promotes(q) /\ Placed(q, backup[q.on], fs, {}) /\ Calm(q, fs)
    BY <1>1, PromotionIs DEF CalmDiscipline
  <1>3. /\ r.classified \in Definitions /\ N \in Nat \ {0} /\ q.undo \in Seq(Applied)
        /\ \A i \in 1..N : PathOf(r, i) \in Paths /\ r.classified[i].type \in {"mkdir", "write"}
    BY <1>2, TargetsAre DEF Promotes, Inspected
  <1>4. /\ Complete(q, backup[q.on], {}, Len(q.applied)) /\ n \in 1..Len(q.applied)
        /\ h = q.applied[n] /\ NewAt(r, fs, {}, n)
        /\ \A i \in 1..Len(q.applied) : i > n => OldAt(r, fs, {}, i)
        /\ \A i \in 1..N : i > Len(q.applied) => OldAt(r, fs, {}, i)
    <2>1. /\ Complete(q, backup[q.on], {}, Len(q.applied)) /\ n \in 1..Len(q.applied)
          /\ q.undo[1] = q.applied[n]
          /\ \A i \in 1..Len(q.applied) : IF i <= n THEN NewAt(r, fs, {}, i)
                                          ELSE q.clean => OldAt(r, fs, {}, i)
          /\ Untouched(q, fs, {}, Len(q.applied))
      BY <1>2 DEF Placed
    <2>2. h = q.undo[1]
      BY <1>3, <2>1 DEF UndoRecord
    <2>3. q.clean
      BY <1>2 DEF Calm
    <2>4. Len(q.applied) \in Nat
      BY <1>2, TargetsAre
    <2>5. \A i \in 1..Len(q.applied) : i > n => ~(i <= n)
      BY <2>1, <2>4
    <2>6. QED
      BY <2>1, <2>2, <2>3, <2>4, <2>5 DEF Untouched, Residue
  <1>5. /\ Len(q.applied) \in 0..N /\ n \in 1..N /\ h.path = x /\ x \in Paths
        /\ Undoable(r, backup[q.on], {}, n, h.recovery) /\ fs[x] = NewOf(r, n)
        /\ Fitting(r, n, h.recovery)
    <2>1. Len(q.applied) \in 0..N
      BY <1>4 DEF Complete
    <2>2. n \in 1..N
      BY <1>3, <1>4, <2>1
    <2>3. /\ h.path = x /\ Undoable(r, backup[q.on], {}, n, h.recovery)
          /\ Fitting(r, n, h.recovery)
      BY <1>2, <1>4 DEF Complete, Calm
    <2>4. x \in Paths /\ fs[x] = NewOf(r, n)
      BY <1>3, <1>4, <2>2 DEF NewAt
    <2>5. QED
      BY <2>1, <2>2, <2>3, <2>4
  <1>6. \A i \in 1..N : i > n => fs[PathOf(r, i)] = r.targets[i]
    <2>1. \A i \in 1..N : i \in 1..Len(q.applied) \/ i > Len(q.applied)
      BY <1>3, <1>5
    <2>2. \A i \in 1..N : i > n => OldAt(r, fs, {}, i)
      BY <1>4, <2>1
    <2>3. QED
      BY <2>2 DEF OldAt
  <1>7. h.recovery \in Strategies
    <2>1. q.applied \in Seq(Applied)
      BY <1>2, TargetsAre
    <2>2. h \in Applied
      BY <1>4, <2>1
    <2>3. QED
      BY <2>2 DEF Applied
  <1> HIDE DEF h
  <1>8. CASE h.recovery \in {"restore_backup", "remove_created_file"}
    <2>1. r.classified[n].type = "write"
      BY <1>5, <1>8 DEF Fitting
    <2>2. fs[x] \in Contents
      BY <1>3, <1>5, <2>1, DefinitionsAssumption, DefinitionType DEF NewOf
    <2>3. fs[x] # Absent /\ fs[x] # Directory /\ Directory \notin Contents
      BY <2>2, ConstantsAssumption
    <2>4. HasParent(x)
      BY <1>5, <2>3 DEF HasParent, CalmDiscipline, Rooted
    <2>5. /\ Writable(x)
          /\ fs[x] # Directory /\ (ParentOf[x] # Root => fs[ParentOf[x]] \notin Contents)
      BY <2>3, <2>4 DEF Writable, HasParent
    <2>6. CASE h.recovery = "restore_backup"
      BY <1>5, <2>5, <2>6 DEF Restorable, h
    <2>7. CASE h.recovery = "remove_created_file"
      BY <1>5, <2>5, <2>7 DEF Restorable, h
    <2>8. QED
      BY <1>8, <2>6, <2>7
  <1>9. CASE h.recovery = "remove_created_directory"
    <2>1. fs[x] = Directory /\ r.targets[n] = Absent
      BY <1>5, <1>9 DEF Fitting, NewOf, Undoable
    <2>2. ASSUME NEW y \in Paths, ParentOf[y] = x PROVE fs[y] = Absent
      <3>1. CASE y \in Targets(r)
        <4>1. PICK k \in 1..N : y = PathOf(r, k)
          BY <3>1 DEF Targets
        <4>2. n < k /\ r.targets[k] = Absent
          BY <1>2, <1>5, <2>1, <2>2, <4>1 DEF Calm, TopDown
        <4>3. k > n
          BY <1>3, <1>5, <4>2
        <4>4. QED
          BY <1>6, <4>1, <4>2, <4>3
      <3>2. CASE y \notin Targets(r)
        BY <1>2, <1>5, <2>1, <2>2, <3>2 DEF Calm
      <3>3. QED
        BY <3>1, <3>2
    <2>3. Empty(x)
      BY <2>2 DEF Empty
    <2>4. QED
      BY <1>5, <1>9, <2>1, <2>3 DEF Restorable, h
  <1>10. CASE h.recovery = "no_change"
    BY <1>10 DEF Restorable, h
  <1>11. QED
    BY <1>7, <1>8, <1>9, <1>10 DEF Strategies

(* The steps of a promotion, but for its re-inspection and its end. *)
LEMMA PromotionCalm ==
  ASSUME TypeOK, RecordDiscipline, TreeDiscipline, CalmDiscipline,
         "chmod" \notin Troubles, "restore" \notin Troubles, NEW c \in Procs,
         \/ AssessBefore(c) \/ Begin(c)
         \/ Prepare(c) \/ PrepareFails(c) \/ KeepPath(c) \/ MakeDirectory(c) \/ SecureDirectory(c)
         \/ BackUp(c) \/ PlanRemoval(c) \/ ReplaceFile(c) \/ ActionFails(c)
         \/ Verify(c) \/ Assess(c) \/ Undo(c) \/ UndoFails(c)
  PROVE  CalmDiscipline'
  <1> DEFINE q == proc[c]
             p == q.on
             r == q.copy
             n == q.next
             B == backup[p]
             D == disturbed[p]
  <1>1. q.pc \in PromotionSteps
    BY DEF AssessBefore, Begin, Prepare, PrepareFails, KeepPath, MakeDirectory,
           SecureDirectory, BackUp, PlanRemoval, ReplaceFile, ActionFails, Verify, Assess, Undo, UndoFails, PromotionSteps, Starting,
           ApplySteps
  <1>2. /\ p \in Proposals /\ Promotes(q) /\ Placed(q, B, fs, D)
        /\ fs \in [Paths -> FsValues] /\ Rooted(fs)
    BY <1>1, PromotionIs DEF TypeOK, CalmDiscipline
  <1>3. q \in Process /\ r \in Record /\ n \in Nat
    BY <1>2, TargetsAre DEF Promotes
  <1>4. q.pc \in ApplySteps =>
          /\ n \in 1..Len(r.classified) /\ Current(c) = r.classified[n]
          /\ Current(c).path = PathOf(r, n) /\ PathOf(r, n) \in Paths
          /\ Len(q.applied) = n - 1 /\ PathOf(r, n) \in Targets(r)
    BY <1>2, TargetsAre DEF Placed, Complete, Current, Promotes, PathOf, Targets
  (* Steps that leave the tree alone. *)
  <1>5. ASSUME UNCHANGED <<fs, disturbed>>, NEW t, Become(c, t), t.on = p, t.pc \in PromotionSteps,
               Calm(q, fs) /\ D = {} => Calm(t, fs)
        PROVE  CalmDiscipline'
    <2>1. Apart(p)
      BY <1>5 DEF Apart
    <2>2. QED
      BY <1>1, <1>2, <1>5, <2>1, OwnCalmStep
  (* Steps that change it at a target. *)
  <1>6. ASSUME NEW x \in Paths, NEW v, SetPath(p, x, v), v # Absent => HasParent(x),
               fs[x] = Directory => v = Directory \/ Empty(x),
               NEW t, Become(c, t), t.on = p, t.pc \in PromotionSteps,
               Calm(q, fs) /\ D = {} => Calm(t, fs')
        PROVE  CalmDiscipline'
    <2>1. /\ fs' = [fs EXCEPT ![x] = v] /\ disturbed'[p] = D /\ Apart(p)
      BY <1>2, <1>6, SetPathDisturbs DEF Apart
    <2>2. Rooted(fs')
      BY <1>2, <1>6, <2>1, SetPathRooted
    <2>3. QED
      BY <1>1, <1>6, <2>1, <2>2, OwnCalmStep
  <1>7. \A s : LET t == Completed(q, s) IN t.on = p /\ t.pc \in PromotionSteps
    BY <1>3 DEF Completed, Process, PromotionSteps, Starting, ApplySteps
  <1>8. CASE AssessBefore(c) \/ Begin(c) \/ Prepare(c)
    <2>1. ASSUME UNCHANGED <<fs, disturbed>>, NEW t, Become(c, t), t.on = p,
                 t.copy.classified = r.classified, t.copy.targets = r.targets,
                 t.applied = q.applied, t.clean = q.clean,
                 t.pc \in {"start", "prepare", "apply"}
          PROVE  CalmDiscipline'
      <3> DEFINE s == t.copy
      <3>1. \A i : PathOf(s, i) = PathOf(r, i) /\ \A w : Fitting(s, i, w) = Fitting(r, i, w)
        BY <2>1 DEF PathOf, Fitting
      <3>2. Targets(s) = Targets(r)
        BY <2>1, <3>1 DEF Targets
      <3>3. TopDown(s) = TopDown(r)
        BY <2>1, <3>1 DEF TopDown
      <3>4. Calm(q, fs) => Calm(t, fs)
        BY <2>1, <3>1, <3>2, <3>3 DEF Calm
      <3>5. QED
        BY <1>5, <2>1, <3>4 DEF PromotionSteps, Starting, ApplySteps
    <2>2. CASE AssessBefore(c)
      <3>1. PICK before : Become(c, [q EXCEPT !.pc = "start", !.before = before])
        BY <2>2 DEF AssessBefore
      <3> DEFINE t == [q EXCEPT !.pc = "start", !.before = before]
      <3>2. /\ t.pc = "start" /\ t.on = p /\ t.copy = r /\ t.applied = q.applied
            /\ t.clean = q.clean
        BY <1>3 DEF Process
      <3>3. Become(c, t) /\ UNCHANGED <<fs, disturbed>>
        BY <2>2, <3>1 DEF AssessBefore
      <3> HIDE DEF t
      <3>4. QED
        BY <2>1, <3>2, <3>3
    <2>3. CASE Begin(c)
      <3> DEFINE s == Transition(r, "applying")
                 t == [q EXCEPT !.pc = "prepare", !.copy = s]
      <3>1. Become(c, t) /\ UNCHANGED <<fs, disturbed>>
        BY <2>3 DEF Begin
      <3>2. s.classified = r.classified /\ s.targets = r.targets
        BY <1>3 DEF Record, Transition
      <3>3. /\ t.pc = "prepare" /\ t.on = p /\ t.copy = s /\ t.applied = q.applied
            /\ t.clean = q.clean
        BY <1>3 DEF Process
      <3> HIDE DEF s, t
      <3>4. QED
        BY <2>1, <3>1, <3>2, <3>3
    <2>4. CASE Prepare(c)
      <3> DEFINE s == [r EXCEPT !.recovery = "ready"]
                 t == [q EXCEPT !.pc = "apply", !.copy = s]
      <3>1. Become(c, t) /\ UNCHANGED <<fs, disturbed>>
        BY <2>4 DEF Prepare
      <3>2. s.classified = r.classified /\ s.targets = r.targets
        BY <1>3 DEF Record
      <3>3. /\ t.pc = "apply" /\ t.on = p /\ t.copy = s /\ t.applied = q.applied
            /\ t.clean = q.clean
        BY <1>3 DEF Process
      <3> HIDE DEF s, t
      <3>4. QED
        BY <2>1, <3>1, <3>2, <3>3
    <2>5. QED
      BY <1>8, <2>2, <2>3, <2>4
  <1>9. CASE PrepareFails(c) \/ ActionFails(c) \/ Verify(c) \/ Assess(c)
    <2>1. ASSUME NEW t, Become(c, t), t.on = p, t.copy = r, t.applied = q.applied,
                 t.clean = q.clean, t.pc \in {"finish", "rollback", "assess", "commit"}
          PROVE  CalmDiscipline'
      <3>1. UNCHANGED <<fs, disturbed>>
        BY <1>9 DEF PrepareFails, ActionFails, Verify, Assess
      <3>2. Calm(q, fs) => Calm(t, fs)
        BY <2>1, SameCalm
      <3>3. t.pc \in PromotionSteps
        BY <2>1 DEF PromotionSteps, Starting
      <3>4. QED
        BY <1>5, <2>1, <3>1, <3>2, <3>3
    <2>2. CASE Become(c, RollingBack(q))
      <3> DEFINE t == RollingBack(q)
      <3>1. /\ t.on = p /\ t.copy = r /\ t.applied = q.applied /\ t.clean = q.clean
            /\ t.pc \in {"finish", "rollback", "assess", "commit"}
        BY <1>3 DEF Process, RollingBack
      <3>2. Become(c, t)
        BY <2>2
      <3> HIDE DEF t
      <3>3. QED
        BY <2>1, <3>1, <3>2
    <2>3. CASE Become(c, [q EXCEPT !.pc = "finish"])
      <3> DEFINE t == [q EXCEPT !.pc = "finish"]
      <3>1. /\ t.on = p /\ t.copy = r /\ t.applied = q.applied /\ t.clean = q.clean
            /\ t.pc \in {"finish", "rollback", "assess", "commit"}
        BY <1>3 DEF Process, RollingBack
      <3>2. Become(c, t)
        BY <2>3
      <3> HIDE DEF t
      <3>3. QED
        BY <2>1, <3>1, <3>2
    <2>4. CASE Become(c, [q EXCEPT !.pc = "assess"])
      <3> DEFINE t == [q EXCEPT !.pc = "assess"]
      <3>1. /\ t.on = p /\ t.copy = r /\ t.applied = q.applied /\ t.clean = q.clean
            /\ t.pc \in {"finish", "rollback", "assess", "commit"}
        BY <1>3 DEF Process, RollingBack
      <3>2. Become(c, t)
        BY <2>4
      <3> HIDE DEF t
      <3>3. QED
        BY <2>1, <3>1, <3>2
    <2>5. ASSUME NEW after, Become(c, [q EXCEPT !.pc = "commit", !.after = after])
          PROVE  CalmDiscipline'
      <3> DEFINE t == [q EXCEPT !.pc = "commit", !.after = after]
      <3>1. /\ t.on = p /\ t.copy = r /\ t.applied = q.applied /\ t.clean = q.clean
            /\ t.pc \in {"finish", "rollback", "assess", "commit"}
        BY <1>3 DEF Process, RollingBack
      <3>2. Become(c, t)
        BY <2>5
      <3> HIDE DEF t
      <3>3. QED
        BY <2>1, <3>1, <3>2
    <2>6. QED
      BY <1>9, <2>2, <2>3, <2>4, <2>5 DEF PrepareFails, ActionFails, Verify, Assess
  <1>10. CASE KeepPath(c) \/ SecureDirectory(c)
    <2>1. PICK s \in Strategies : /\ Become(c, Completed(q, s)) /\ q.pc \in ApplySteps
                                  /\ s = "no_change" \/ (s = "remove_created_directory" /\ q.pc = "chmod")
      BY <1>10 DEF KeepPath, SecureDirectory, Strategies, ApplySteps
    <2>2. UNCHANGED <<fs, disturbed>>
      BY <1>10 DEF KeepPath, SecureDirectory
    <2>3. Calm(q, fs) => Fitting(r, n, s)
      BY <2>1 DEF Calm, Fitting
    <2>4. Calm(q, fs) => Calm(Completed(q, s), fs)
      BY <1>2, <1>4, <2>1, <2>3, CompletedCalm
    <2>5. QED
      BY <1>5, <1>7, <2>1, <2>2, <2>4
  <1>11. CASE BackUp(c) \/ PlanRemoval(c)
    <2>1. PICK s \in {"restore_backup", "remove_created_file"} :
            Become(c, [q EXCEPT !.pc = "replace", !.strategy = s])
      BY <1>11 DEF BackUp, PlanRemoval
    <2> DEFINE t == [q EXCEPT !.pc = "replace", !.strategy = s]
    <2>2. /\ UNCHANGED <<fs, disturbed>> /\ q.pc \in ApplySteps /\ Current(c).type = "write"
      BY <1>11 DEF BackUp, PlanRemoval, ApplySteps
    <2>3. /\ t.pc = "replace" /\ t.on = p /\ t.copy = r /\ t.next = n /\ t.applied = q.applied
          /\ t.strategy = s /\ t.clean = q.clean
      BY <1>3 DEF Process
    <2>4. Fitting(r, n, s)
      BY <1>4, <2>1, <2>2 DEF Fitting
    <2>5. Become(c, t)
      BY <2>1
    <2> HIDE DEF t
    <2>6. Calm(q, fs) => Calm(t, fs)
      BY <2>3, <2>4 DEF Calm
    <2>7. QED
      BY <1>5, <2>2, <2>3, <2>5, <2>6 DEF PromotionSteps, Starting, ApplySteps
  <1>12. CASE MakeDirectory(c)
    <2> DEFINE t == [q EXCEPT !.pc = "chmod"]
               x == PathOf(r, n)
    <2>1. /\ q.pc \in ApplySteps /\ Current(c).type = "mkdir" /\ fs[x] = Absent /\ HasParent(x)
          /\ SetPath(p, x, Directory) /\ Become(c, t)
      BY <1>4, <1>12 DEF MakeDirectory, ApplySteps
    <2>2. fs' = [fs EXCEPT ![x] = Directory]
      BY <2>1 DEF SetPath
    <2>3. /\ t.pc = "chmod" /\ t.on = p /\ t.copy = r /\ t.next = n /\ t.applied = q.applied
          /\ t.clean = q.clean
      BY <1>3 DEF Process
    <2> HIDE DEF t
    <2>4. \A y \in Paths \ Targets(r) : fs'[y] = fs[y]
      BY <1>2, <1>4, <2>1, <2>2
    <2>5. Calm(q, fs) => Calm(t, fs')
      BY <1>4, <2>1, <2>3, <2>4 DEF Calm
    <2>6. QED
      BY <1>4, <1>6, <2>1, <2>3, <2>5 DEF PromotionSteps, Starting, ApplySteps
  <1>13. CASE ReplaceFile(c)
    <2> DEFINE x == PathOf(r, n)
               v == Current(c).content
    <2>1. /\ q.pc = "replace" /\ q.pc \in ApplySteps /\ Writable(x) /\ SetPath(p, x, v)
          /\ Become(c, Completed(q, q.strategy))
      BY <1>4, <1>13 DEF ReplaceFile, ApplySteps
    <2>2. fs' = [fs EXCEPT ![x] = v] /\ q.strategy \in Strategies
      BY <1>3, <2>1 DEF SetPath, Process
    <2>3. \A y \in Paths \ Targets(r) : fs'[y] = fs[y]
      BY <1>2, <1>4, <2>1, <2>2
    <2>4. Calm(q, fs) => Fitting(r, n, q.strategy)
      BY <2>1 DEF Calm
    <2> HIDE DEF v
    <2>5. ASSUME Calm(q, fs) PROVE Calm(Completed(q, q.strategy), fs')
      <3>1. Fitting(q.copy, q.next, q.strategy) /\ Len(q.applied) = q.next - 1
        BY <1>4, <2>1, <2>4, <2>5
      <3>2. \A y \in Paths \ Targets(q.copy) : fs'[y] = fs[y]
        BY <2>3
      <3>3. Promotes(q) /\ q.pc \in ApplySteps /\ q.strategy \in Strategies /\ Calm(q, fs)
        BY <1>2, <2>1, <2>2, <2>5
      <3> HIDE DEF q
      <3>4. QED
        BY <3>1, <3>2, <3>3, CompletedCalm
    <2>6. HasParent(x) /\ fs[x] # Directory
      BY <2>1 DEF Writable
    <2>7. QED
      BY <1>4, <1>6, <1>7, <2>1, <2>5, <2>6
  <1>14. CASE Undo(c)
    <2> DEFINE h == UndoRecord(c)
               v == RestoredValue(c)
               t == AfterUndo(q, TRUE)
    <2>1. q.pc = "rollback" /\ Restorable(c) /\ SetPath(p, h.path, v) /\ Become(c, t)
      BY <1>14 DEF Undo
    <2>2. h.path \in Targets(r) /\ h.path \in Paths /\ h.recovery \in Strategies
      <3>1. /\ Complete(q, B, D, Len(q.applied)) /\ Len(q.undo) \in 1..Len(q.applied)
            /\ q.undo[1] = q.applied[Len(q.undo)]
        <4>1. /\ Complete(q, B, D, Len(q.applied)) /\ Len(q.undo) \in 1..Len(q.applied)
              /\ \A j \in 1..Len(q.undo) : q.undo[j] = q.applied[Len(q.undo) - j + 1]
          BY <1>2, <2>1 DEF Placed
        <4>2. q.undo \in Seq(Applied) /\ q.applied \in Seq(Applied)
          BY <1>2, TargetsAre
        <4> HIDE DEF q
        <4>3. 1 \in 1..Len(q.undo) /\ Len(q.undo) - 1 + 1 = Len(q.undo)
          BY <4>1, <4>2
        <4>4. QED
          BY <4>1, <4>3
      <3>2. h = q.applied[Len(q.undo)] /\ q.applied \in Seq(Applied)
        BY <1>2, <3>1, TargetsAre DEF UndoRecord
      <3>3. Len(q.undo) \in 1..Len(r.classified) /\ h.path = PathOf(r, Len(q.undo)) /\ h \in Applied
        <4>1. Len(r.classified) \in Nat
          BY <1>2, TargetsAre
        <4>2. /\ Len(q.applied) \in 0..Len(r.classified)
              /\ \A i \in 1..Len(q.applied) : q.applied[i].path = PathOf(r, i)
          BY <3>1 DEF Complete
        <4>3. h \in Applied
          BY <3>1, <3>2
        <4> HIDE DEF q, r, h
        <4>4. Len(q.undo) \in 1..Len(r.classified)
          BY <3>1, <4>1, <4>2
        <4>5. QED
          BY <3>1, <3>2, <4>2, <4>3, <4>4
      <3>4. QED
        BY <3>3 DEF Targets, Applied
    <2>3. fs' = [fs EXCEPT ![h.path] = v]
      BY <2>1 DEF SetPath
    <2>4. /\ t.on = p /\ t.copy = r /\ t.applied = q.applied /\ t.clean = q.clean
          /\ t.pc \in {"finish", "rollback"}
      BY <1>3 DEF AfterUndo, Process
    <2>5. \A y \in Paths \ Targets(r) : fs'[y] = fs[y]
      BY <1>2, <2>2, <2>3
    <2> HIDE DEF t
    <2>6. Calm(q, fs) => Calm(t, fs')
      BY <2>4, <2>5, SameCalm
    <2>7. /\ v # Absent => HasParent(h.path)
          /\ fs[h.path] = Directory => v = Directory \/ Empty(h.path)
      <3>1. CASE h.recovery = "restore_backup"
        BY <2>1, <3>1 DEF Restorable, Writable
      <3>2. CASE h.recovery = "no_change"
        <4>1. v = fs[h.path]
          BY <3>2 DEF RestoredValue
        <4>2. QED
          BY <1>2, <2>2, <4>1 DEF Rooted, HasParent
      <3>3. CASE h.recovery = "remove_created_file"
        <4>1. v = Absent /\ fs[h.path] # Directory
          BY <2>1, <3>3 DEF RestoredValue, Restorable
        <4>2. QED
          BY <4>1
      <3>4. CASE h.recovery = "remove_created_directory"
        <4>1. v = Absent /\ (fs[h.path] = Absent \/ Empty(h.path)) /\ Absent # Directory
          BY <2>1, <3>4 DEF RestoredValue, Restorable, Absent, Directory
        <4>2. QED
          BY <4>1
      <3>5. QED
        BY <2>2, <3>1, <3>2, <3>3, <3>4 DEF Strategies
    <2> HIDE DEF v
    <2>8. QED
      BY <1>6, <2>1, <2>2, <2>4, <2>6, <2>7 DEF PromotionSteps, Starting
  <1>15. CASE UndoFails(c)
    <2> DEFINE t == AfterUndo(q, FALSE)
    <2>1. /\ q.pc = "rollback" /\ ~Restorable(c) /\ Become(c, t) /\ UNCHANGED <<fs, disturbed>>
      BY <1>15 DEF UndoFails, Trouble
    <2>2. t.on = p /\ t.pc \in PromotionSteps
      BY <1>3 DEF AfterUndo, Process, PromotionSteps, Starting
    <2>3. D # {}
      BY <2>1, CalmRestorable
    <2> HIDE DEF t
    <2>4. QED
      BY <1>5, <2>1, <2>2, <2>3
  <1>16. QED
    BY <1>8, <1>9, <1>10, <1>11, <1>12, <1>13, <1>14, <1>15

(* CalmDiscipline is inductive, given the other invariants. *)
LEMMA NextCalm ==
  ASSUME "chmod" \notin Troubles, "restore" \notin Troubles
  PROVE  TypeOK /\ RecordDiscipline /\ TreeDiscipline /\ CalmDiscipline /\ [Next]_vars =>
           CalmDiscipline'
  <1> SUFFICES ASSUME TypeOK, RecordDiscipline, TreeDiscipline, CalmDiscipline, [Next]_vars
               PROVE  CalmDiscipline'
    OBVIOUS
  <1>1. CASE UNCHANGED vars
    BY <1>1 DEF vars, CalmDiscipline
  <1>2. ASSUME NEW c \in Procs, Step(c) PROVE CalmDiscipline'
    BY <1>2, StartCalm, ReinspectCalm, PromotionCalm DEF Step
  <1>3. ASSUME NEW c \in Procs, PrepareFails(c) \/ SaveFails(c) \/ Crash(c) PROVE CalmDiscipline'
    BY <1>3, StartCalm, PromotionCalm
  <1>4. ASSUME NEW x \in Paths, NEW v \in EditValues, EditFile(x, v) PROVE CalmDiscipline'
    <2>1. /\ SetPath(None, x, v)
          /\ v # Absent => HasParent(x)
          /\ fs[x] = Directory => Empty(x)
          /\ proc' = proc
      BY <1>4 DEF EditFile
    <2>2. fs \in [Paths -> FsValues] /\ Rooted(fs) /\ None \notin Proposals
      BY ConstantsAssumption DEF TypeOK, CalmDiscipline
    <2>3. fs' = [fs EXCEPT ![x] = v] /\ Apart(None)
      BY <2>1, <2>2, SetPathDisturbs DEF Apart
    <2>4. Rooted(fs')
      BY <2>1, <2>2, <2>3, SetPathRooted
    <2>5. \A e \in Procs : proc[e].pc \in PromotionSteps => proc[e].on # None
      BY <2>2, PromotionIs
    <2>6. QED
      BY <2>1, <2>3, <2>4, <2>5, CalmStep
  <1>5. ASSUME NEW p \in Proposals, NEW d \in Definitions, EditRecord(p, d) PROVE CalmDiscipline'
    BY <1>5 DEF EditRecord, CalmDiscipline
  <1>6. QED
    BY <1>1, <1>2, <1>3, <1>4, <1>5, StartCalm DEF Next

(* A rollback fails only if another program or promotion interfered, in a  *)
(* tree that is one at the start, where no chmod of a new directory and no *)
(* restoring call fails by itself: children go before their directories.   *)
THEOREM RollbackOnlyFailsIfDisturbed ==
  ASSUME "chmod" \notin Troubles, "restore" \notin Troubles, Rooted(InitialFs)
  PROVE  Spec => RollbackFailsOnlyIfDisturbed
  <1>1. Init => CalmDiscipline
    <2> SUFFICES ASSUME Init PROVE CalmDiscipline
      OBVIOUS
    <2>1. \A c \in Procs : proc[c].pc = "idle"
      BY DEF Init, Idle
    <2>2. fs = InitialFs
      BY DEF Init
    <2>3. QED
      BY <2>1, <2>2, StepNames DEF CalmDiscipline, Locking
  <1>2. ASSUME TypeOK, RecordDiscipline, CalmDiscipline, [Next]_vars, NEW p \in Proposals,
               StateOf(p) = "applying", StateOf(p)' = "failed"
        PROVE  disturbed[p] # {}
    <2>1. store'[p].state = "failed"
      BY <1>2 DEF StateOf
    <2>2. PICK c \in Procs : proc[c].pc = "finish" /\ proc[c].on = p /\ ~proc[c].clean
      BY <1>2, <2>1, EndsByFinish
    <2>3. QED
      BY <1>2, <2>2 DEF CalmDiscipline, Calm, PromotionSteps, Starting
  <1>3. TypeOK /\ RecordDiscipline /\ CalmDiscipline /\ [Next]_vars =>
          [\A p \in Proposals : BecomesAt(p, "applying", "failed") => disturbed[p] # {}]_vars
    BY <1>2 DEF BecomesAt
  <1>4. TypeOK /\ RecordDiscipline /\ TreeDiscipline /\ CalmDiscipline /\ [Next]_vars =>
          CalmDiscipline'
    BY NextCalm
  <1>5. QED
    BY <1>1, <1>3, <1>4, TypeCorrect, DisciplineHolds, TreeHolds, PTL
    DEF Spec, RollbackFailsOnlyIfDisturbed

-----------------------------------------------------------------------------
(* Who leaves a promotion behind.                                          *)

(* Each proposal that the disk says is applying has a command at work.     *)
Attended(p) == \E c \in Procs : proc[c].pc \in PromotionSteps /\ proc[c].on = p

PromotionsAreAttended ==
  \A p \in Proposals : StateOf(p) = "applying" => Attended(p)

(* Whoever saves another state than applying, or works on it, leaves the   *)
(* other proposals to those who attend to them.                            *)
LEMMA OthersAttend ==
  ASSUME TypeOK, NEW c \in Procs, NEW t, Become(c, t), NEW p \in Proposals,
         proc[c].pc \in PromotionSteps => proc[c].on # p, Attended(p)
  PROVE  Attended(p)'
  <1>1. PICK e \in Procs : proc[e].pc \in PromotionSteps /\ proc[e].on = p
    BY DEF Attended
  <1>2. proc'[e] = proc[e]
    BY <1>1 DEF Become, TypeOK
  <1>3. QED
    BY <1>1, <1>2 DEF Attended

(* A command that concludes with a state other than applying.              *)
LEMMA ConcludeAttends ==
  ASSUME TypeOK, PromotionsAreAttended, NEW c \in Procs, proc[c].pc # "idle",
         NEW r \in Record, r.state # "applying", Conclude(c, r)
  PROVE  PromotionsAreAttended'
  <1> SUFFICES ASSUME NEW p \in Proposals, StateOf(p)' = "applying" PROVE Attended(p)'
    BY DEF PromotionsAreAttended
  <1>1. proc[c].on \in Proposals /\ store'[proc[c].on] = r
    BY RunningType DEF Conclude, Save, TypeOK
  <1>2. p # proc[c].on
    BY <1>1, NoneAssumption DEF StateOf
  <1>3. store'[p] = store[p]
    BY <1>2 DEF Conclude, Save, TypeOK
  <1>4. StateOf(p) = "applying"
    BY <1>3 DEF StateOf
  <1>5. Become(c, Idle)
    BY DEF Conclude, Release
  <1>6. QED
    BY <1>2, <1>4, <1>5, OthersAttend DEF PromotionsAreAttended

(* A command that refuses has not begun.                                   *)
LEMMA RefuseAttends ==
  ASSUME TypeOK, RecordDiscipline, PromotionsAreAttended, NEW c \in Procs, Refuse(c)
  PROVE  PromotionsAreAttended'
  <1> SUFFICES ASSUME NEW p \in Proposals, StateOf(p)' = "applying" PROVE Attended(p)'
    BY DEF PromotionsAreAttended
  <1>1. proc[c].pc \in Operations /\ Become(c, Idle) /\ store' = store
    BY DEF Refuse, Refusable, Release, Operations
  <1>2. StateOf(p) = "applying"
    BY <1>1 DEF StateOf
  <1>3. proc[c].pc \notin PromotionSteps
    BY <1>1, StepNames
  <1>4. QED
    BY <1>1, <1>2, <1>3, OthersAttend DEF PromotionsAreAttended

(* The steps of a promotion: it stays where it is.                         *)
LEMMA PromotionAttends ==
  ASSUME TypeOK, RecordDiscipline, PromotionsAreAttended, NEW c \in Procs,
         \/ Reinspect(c) \/ AssessBefore(c)
         \/ Begin(c) \/ Prepare(c) \/ PrepareFails(c)
         \/ KeepPath(c) \/ MakeDirectory(c) \/ SecureDirectory(c)
         \/ BackUp(c) \/ PlanRemoval(c) \/ ReplaceFile(c) \/ ActionFails(c)
         \/ Verify(c) \/ Assess(c) \/ Undo(c) \/ UndoFails(c)
  PROVE  PromotionsAreAttended'
  <1> SUFFICES ASSUME NEW p \in Proposals, StateOf(p)' = "applying" PROVE Attended(p)'
    BY DEF PromotionsAreAttended
  <1>1. PICK t : Become(c, t) /\ t.pc \in PromotionSteps /\ t.on = proc[c].on
    BY PromotionContinues
  <1>2. CASE p = proc[c].on
    <2>1. proc'[c] = t
      BY <1>1 DEF Become, TypeOK
    <2>2. QED
      BY <1>1, <1>2, <2>1 DEF Attended
  <1>3. CASE p # proc[c].on
    <2>1. store'[p] = store[p]
      <3>1. CASE Begin(c) \/ Prepare(c)
        BY <1>3, <3>1 DEF Begin, Prepare, Save, TypeOK
      <3>2. CASE ~(Begin(c) \/ Prepare(c))
        BY <3>2 DEF Reinspect, AssessBefore, PrepareFails, KeepPath, MakeDirectory,
                    SecureDirectory, BackUp, PlanRemoval, ReplaceFile, ActionFails, Verify,
                    Assess, Undo, UndoFails
      <3>3. QED
        BY <3>1, <3>2
    <2>2. StateOf(p) = "applying"
      BY <2>1 DEF StateOf
    <2>3. QED
      BY <1>1, <1>3, <2>2, OthersAttend DEF PromotionsAreAttended
  <1>4. QED
    BY <1>2, <1>3

(* The commands that end with a save.                                      *)
LEMMA RecordAttends ==
  ASSUME TypeOK, RecordDiscipline, PromotionsAreAttended, NEW c \in Procs,
         \/ WriteDraft(c) \/ Classify(c) \/ Approve(c) \/ Reject(c)
         \/ Commit(c) \/ Finish(c)
  PROVE  PromotionsAreAttended'
  <1> DEFINE r == proc[c].copy
  <1>1. /\ proc[c].pc # "idle" /\ r \in Record /\ proc[c].on \in Proposals
        /\ r.actions \in Definitions
    BY RunningType DEF WriteDraft, Classify, Approve, Reject, Commit, Finish
  <1>2. CASE WriteDraft(c)
    <2>1. PICK d \in Definitions : r = NewRecord(d)
      BY <1>2 DEF WriteDraft, RecordDiscipline, ClaimsAreExclusive
    <2>2. r.state = "draft"
      BY <2>1 DEF NewRecord
    <2>3. QED
      BY <1>1, <1>2, <2>2, ConcludeAttends DEF WriteDraft
  <1>3. CASE Classify(c)
    <2> DEFINE s == [r EXCEPT !.classified = r.actions, !.targets = Observed(r.actions),
                              !.recovery = "planned"]
    <2>1. Observed(r.actions) \in Seq(FsValues)
      BY <1>1, ObservedType DEF TypeOK
    <2>2. s \in Record
      BY <1>1, <2>1 DEF Record
    <2> HIDE DEF s
    <2>3. Transition(s, "classified") \in Record /\ Transition(s, "classified").state = "classified"
      BY <2>2, TransitionType DEF ProposalStates
    <2>4. QED
      BY <1>1, <1>3, <2>3, ConcludeAttends DEF Classify, s
  <1>4. CASE Approve(c)
    <2> DEFINE s == [r EXCEPT !.approved = r.classified]
    <2>1. s \in Record
      BY <1>1 DEF Record
    <2> HIDE DEF s
    <2>2. Transition(s, "approved") \in Record /\ Transition(s, "approved").state = "approved"
      BY <2>1, TransitionType DEF ProposalStates
    <2>3. QED
      BY <1>1, <1>4, <2>2, ConcludeAttends DEF Approve, s
  <1>5. CASE Reject(c)
    <2>1. Transition(r, "rejected") \in Record /\ Transition(r, "rejected").state = "rejected"
      BY <1>1, TransitionType DEF ProposalStates
    <2>2. QED
      BY <1>1, <1>5, <2>1, ConcludeAttends DEF Reject
  <1>6. CASE Commit(c)
    <2> DEFINE s == [r EXCEPT !.recovery = "available"]
    <2>1. s \in Record
      BY <1>1 DEF Record
    <2> HIDE DEF s
    <2>2. Transition(s, "committed") \in Record /\ Transition(s, "committed").state = "committed"
      BY <2>1, TransitionType DEF ProposalStates
    <2>3. QED
      BY <1>1, <1>6, <2>2, ConcludeAttends DEF Commit, s
  <1>7. CASE Finish(c)
    <2> DEFINE s == [r EXCEPT !.recovery = IF proc[c].clean THEN "restored" ELSE "failed"]
               to == IF proc[c].clean THEN "rolled_back" ELSE "failed"
    <2>1. s \in Record /\ to \in ProposalStates /\ to # "applying"
      BY <1>1 DEF Record, ProposalStates
    <2>2. Conclude(c, Transition(s, to))
      BY <1>7 DEF Finish
    <2> HIDE DEF s, to
    <2>3. Transition(s, to) \in Record /\ Transition(s, to).state = to
      BY <2>1, TransitionType
    <2>4. QED
      BY <1>1, <2>1, <2>2, <2>3, ConcludeAttends
  <1>8. QED
    BY <1>2, <1>3, <1>4, <1>5, <1>6, <1>7

(* Those who come, and those who change files and records by hand.         *)
LEMMA OutsidersAttend ==
  ASSUME TypeOK, PromotionsAreAttended
  PROVE  /\ \A c \in Procs, p \in Proposals, d \in Definitions :
              ClaimId(c, p, d) => PromotionsAreAttended'
         /\ \A c \in Procs, p \in Proposals, op \in Operations :
              Open(c, op, p) => PromotionsAreAttended'
         /\ \A x \in Paths, v \in EditValues : EditFile(x, v) => PromotionsAreAttended'
         /\ \A p \in Proposals, d \in Definitions : EditRecord(p, d) => PromotionsAreAttended'
  <1>1. ASSUME NEW c \in Procs, NEW t, proc[c].pc = "idle", Become(c, t), UNCHANGED store
        PROVE  PromotionsAreAttended'
    <2> SUFFICES ASSUME NEW p \in Proposals, StateOf(p)' = "applying" PROVE Attended(p)'
      BY DEF PromotionsAreAttended
    <2>1. proc[c].pc \notin PromotionSteps /\ StateOf(p) = "applying"
      BY <1>1, StepNames DEF StateOf, Locking
    <2>2. QED
      BY <1>1, <2>1, OthersAttend DEF PromotionsAreAttended
  <1>2. ASSUME NEW p \in Proposals, NEW d \in Definitions, EditRecord(p, d)
        PROVE  PromotionsAreAttended'
    <2>1. \A q \in Proposals : StateOf(q)' = StateOf(q)
      <3> TAKE q \in Proposals
      <3>1. CASE q = p
        <4> DEFINE r == store[p]
        <4>1. r \in Record /\ store'[p] = [r EXCEPT !.actions = d]
          BY <1>2 DEF EditRecord, TypeOK
        <4> HIDE DEF r
        <4>2. [r EXCEPT !.actions = d] \in Record /\ [r EXCEPT !.actions = d].state = r.state
          BY <4>1 DEF Record
        <4>3. QED
          BY <3>1, <4>1, <4>2, NoneAssumption DEF StateOf, r
      <3>2. CASE q # p
        BY <1>2, <3>2 DEF EditRecord, StateOf, TypeOK
      <3>3. QED
        BY <3>1, <3>2
    <2>2. proc' = proc
      BY <1>2 DEF EditRecord
    <2>3. QED
      BY <2>1, <2>2 DEF PromotionsAreAttended, Attended
  <1>3. ASSUME NEW x \in Paths, NEW v \in EditValues, EditFile(x, v) PROVE PromotionsAreAttended'
    BY <1>3 DEF EditFile, PromotionsAreAttended, Attended, StateOf
  <1>4. QED
    BY <1>1, <1>2, <1>3 DEF ClaimId, Open

(* No step leaves a promotion behind, unless a process dies or a save      *)
(* fails.                                                                  *)
LEMMA NextAttends ==
  ASSUME "crash" \notin Troubles, "save" \notin Troubles,
         TypeOK, RecordDiscipline, PromotionsAreAttended, [Next]_vars
  PROVE  PromotionsAreAttended'
  <1>1. CASE UNCHANGED vars
    BY <1>1 DEF vars, PromotionsAreAttended, Attended, StateOf
  <1>2. ASSUME NEW c \in Procs, SaveFails(c) \/ Crash(c) PROVE FALSE
    BY <1>2 DEF SaveFails, Crash, Trouble
  <1>3. ASSUME NEW c \in Procs, Step(c) \/ PrepareFails(c) PROVE PromotionsAreAttended'
    BY <1>3, RecordAttends, RefuseAttends, PromotionAttends DEF Step
  <1>4. QED
    BY <1>1, <1>2, <1>3, OutsidersAttend DEF Next

(* Where no process is killed and no save fails, a proposal is applying    *)
(* only as long as a command promotes it, whatever else fails on the way:  *)
(* apply_actions, rollback_actions, prepare_recovery, chmod.               *)
THEOREM PromotionsAreAlwaysAttended ==
  ASSUME "crash" \notin Troubles, "save" \notin Troubles
  PROVE  Spec => []PromotionsAreAttended
  <1>1. Init => PromotionsAreAttended
    BY DEF Init, PromotionsAreAttended, StateOf
  <1>2. QED
    BY <1>1, NextAttends, TypeCorrect, DisciplineHolds, PTL DEF Spec

(* Only a killed process or a failed save leaves a proposal in applying    *)
(* with its targets changed: the run proposals_abandoned has the others.   *)
THEOREM NoPromotionIsAbandoned ==
  ASSUME "crash" \notin Troubles, "save" \notin Troubles
  PROVE  Spec => []NoAbandonedPromotion
  <1>1. TypeOK /\ RecordDiscipline /\ PromotionsAreAttended => NoAbandonedPromotion
    <2> SUFFICES ASSUME TypeOK, RecordDiscipline, PromotionsAreAttended,
                        NEW p \in Proposals, StateOf(p) = "applying", lock[p] = None
                 PROVE  FALSE
      BY DEF NoAbandonedPromotion
    <2>1. PICK c \in Procs : proc[c].pc \in PromotionSteps /\ proc[c].on = p
      BY DEF PromotionsAreAttended, Attended
    <2>2. lock[p] = c
      BY <2>1 DEF RecordDiscipline, LockedCopyIsCurrent
    <2>3. QED
      BY <2>2, ConstantsAssumption
  <1>2. QED
    BY <1>1, TypeCorrect, DisciplineHolds, PromotionsAreAlwaysAttended, PTL

=============================================================================

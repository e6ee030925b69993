----------------------------- MODULE Proposals -----------------------------
(***************************************************************************)
(* jiritsu-proposals: commands (processes) that create, classify, approve, *)
(* reject and promote proposals.  Commands share a directory per proposal  *)
(* (its lock, its durable record, its file backups) and one configuration  *)
(* tree, which other programs write too.  A command may be killed between  *)
(* any two steps, and a call it makes may fail.                            *)
(*                                                                         *)
(* The lock is per proposal and the configuration tree has none, so the    *)
(* steps of two promotions interleave freely.                              *)
(***************************************************************************)
EXTENDS Naturals, SequencesExt

CONSTANTS
  Procs,        \* commands that may run at the same time
  Proposals,    \* proposal IDs
  Paths,        \* paths below the configuration root
  Root,         \* the configuration root itself
  ParentOf,     \* the directory of each path
  Contents,     \* what a file may be: its content and its mode, by digest
  Definitions,  \* action lists that parse_definition accepts
  Breaking,     \* contents with which a file makes a critical workload fail
  EditValues,   \* what another program may leave at a path
  InitialFs,    \* the configuration tree at the start
  Troubles,     \* what may go wrong in this instance
  MaxTrouble,   \* bound: how often
  None          \* no proposal, no record, no value

Absent    == "absent"
Directory == "directory"
FsValues  == Contents \cup {Absent, Directory}

Action == [type : {"mkdir", "write"}, path : Paths,
           content : Contents \cup {None}, expected : Contents \cup {None}]

TroubleKinds == {"save", "prepare", "action", "chmod", "restore",
                 "crash", "edit_file", "edit_record"}

(* parse_definition: at least one action, and no path twice. *)
ASSUME DefinitionsAssumption ==
  \A d \in Definitions :
    /\ d \in Seq(Action) /\ d # <<>>
    /\ \A i, j \in DOMAIN d : d[i].path = d[j].path => i = j
    /\ \A i \in DOMAIN d : d[i].type = "write" => d[i].content \in Contents

ASSUME ConstantsAssumption ==
  /\ ParentOf \in [Paths -> Paths \cup {Root}]
  /\ Root \notin Paths
  /\ {Absent, Directory, None} \cap Contents = {}
  /\ Breaking \subseteq Contents
  /\ EditValues \subseteq FsValues
  /\ InitialFs \in [Paths -> FsValues]
  /\ Troubles \subseteq TroubleKinds
  /\ MaxTrouble \in Nat
  /\ None \notin Procs /\ None \notin Proposals

VARIABLES
  dir,        \* dir[p]: the proposal's directory exists
  store,      \* store[p]: proposal.json, None before the first save
  lock,       \* lock[p]: the process that holds the flock, or None
  backup,     \* backup[p][x]: the copy of x in the proposal's recovery directory
  fs,         \* fs[x]: what is at path x of the configuration tree
  proc,       \* proc[c]: what process c is doing
  disturbed,  \* history: paths others changed since promote re-inspected those of p
  trouble     \* how often something went wrong so far

vars == <<dir, store, lock, backup, fs, proc, disturbed, trouble>>

-----------------------------------------------------------------------------
(* The durable record and the state of a command.                          *)

ProposalStates == {"draft", "classified", "approved", "applying", "committed",
                   "failed", "rejected", "rolled_back"}

Record ==
  [state : ProposalStates,
   history : Seq(ProposalStates),
   actions : Definitions,
   classified : Definitions \cup {None},  \* classification.action_digest
   approved : Definitions \cup {None},    \* approval.action_digest
   targets : Seq(FsValues),               \* classification.targets
   recovery : {"unclassified", "planned", "ready", "available", "restored", "failed"}]

(* A missing proposal.json is not a record. *)
ASSUME NoneAssumption == None \notin Record

NewRecord(d) ==
  [state |-> "draft", history |-> <<"draft">>, actions |-> d,
   classified |-> None, approved |-> None, targets |-> <<>>,
   recovery |-> "unclassified"]

Transition(r, s) == [r EXCEPT !.state = s, !.history = Append(@, s)]

StateOf(p) == IF store[p] = None THEN "none" ELSE store[p].state

Strategies == {"no_change", "remove_created_directory",
               "restore_backup", "remove_created_file"}

Applied == [path : Paths, recovery : Strategies]

(* The program counter names the next step of the command. *)
Operations == {"classify", "approve", "reject", "promote"}
Starting == {"baseline", "start"}    \* re-inspected, not yet applying on disk
ApplySteps == {"apply", "chmod", "replace"}
PromotionSteps == Starting \cup ApplySteps \cup
  {"prepare", "verify", "assess", "commit", "rollback", "finish"}

Idle == [pc |-> "idle", on |-> None, copy |-> None, next |-> 1,
         strategy |-> "no_change", applied |-> <<>>, undo |-> <<>>,
         clean |-> TRUE, before |-> None, after |-> None]

Required(op) ==
  CASE op = "classify" -> {"draft"}
    [] op = "approve"  -> {"classified"}
    [] op = "reject"   -> {"draft", "classified"}
    [] op = "promote"  -> {"approved"}

-----------------------------------------------------------------------------
(* The configuration tree.                                                 *)

HasParent(x) == ParentOf[x] # Root => fs[ParentOf[x]] = Directory

Empty(x) == \A y \in Paths : ParentOf[y] = x => fs[y] = Absent

(* Paths that hold a content with which a critical workload fails. *)
Failing == {x \in Paths : fs[x] \in Breaking}

(* The promotion of p has re-inspected its targets, and did not end since. *)
UnderWay(p) ==
  \/ StateOf(p) = "applying"
  \/ \E c \in Procs : proc[c].on = p /\ proc[c].pc \in Starting

(* Path x becomes v by the hand of proposal p, or of another program if p  *)
(* is None.                                                                *)
SetPath(p, x, v) ==
  /\ fs' = [fs EXCEPT ![x] = v]
  /\ disturbed' = [q \in Proposals |->
       IF q # p /\ v # fs[x] /\ UnderWay(q) THEN disturbed[q] \cup {x} ELSE disturbed[q]]

-----------------------------------------------------------------------------
(* inspect_actions: its error returns and its observations.                *)

PlannedBefore(d, i) == {d[j].path : j \in {k \in 1..(i - 1) : d[k].type = "mkdir"}}

Inspectable(d) ==
  \A i \in DOMAIN d :
    LET a == d[i]
        v == fs[a.path]
    IN /\ ParentOf[a.path] \notin PlannedBefore(d, i) => HasParent(a.path)
       /\ a.type = "mkdir" => v \in {Absent, Directory}
       /\ a.type = "write" =>
            /\ v # Directory
            /\ v \in Contents => a.expected = v      \* precondition_required, _failed
            /\ a.expected # None => a.expected = v   \* precondition_failed

Observed(d) == [i \in DOMAIN d |-> fs[d[i].path]]

(* verify_actions: the checks that inspect_actions recorded for d. *)
Verified(d) ==
  \A i \in DOMAIN d :
    fs[d[i].path] = IF d[i].type = "mkdir" THEN Directory ELSE d[i].content

(* What promote_proposal checks before it starts. *)
MayPromote_NoDigest(r) == Inspectable(r.actions) /\ Observed(r.actions) = r.targets
MayPromote_NoReinspection(r) == r.approved = r.actions

MayPromote(r) ==
  /\ r.approved = r.actions               \* else approval_scope_changed
  /\ Inspectable(r.actions)               \* else the errors of inspect_actions
  /\ Observed(r.actions) = r.targets      \* else target_state_changed

-----------------------------------------------------------------------------
(* Locks, saves and the end of a command.                                  *)

Trouble(kind) ==
  /\ kind \in Troubles
  /\ trouble < MaxTrouble
  /\ trouble' = trouble + 1

LockFree_NoFlock(p) == TRUE
LockFree(p) == lock[p] = None

(* The local state of a process becomes q. *)
Become(c, q) == proc' = [proc EXCEPT ![c] = q]

(* The process ends, or the block under store.lock does: the flock goes. *)
Release(c) ==
  /\ lock' = [p \in Proposals |-> IF lock[p] = c THEN None ELSE lock[p]]
  /\ Become(c, Idle)

Save(p, r) == store' = [store EXCEPT ![p] = r]

(* Save the record and leave the lock. *)
Conclude(c, r) ==
  /\ Save(proc[c].on, r)
  /\ Release(c)
  /\ UNCHANGED <<dir, backup>>

-----------------------------------------------------------------------------
(* create: mkdir claims the ID, the first save comes later, under the lock. *)

ClaimId_ExistOk(c, p, d) ==
  /\ proc[c].pc = "idle"
  /\ dir' = [dir EXCEPT ![p] = TRUE]
  /\ Become(c, [Idle EXCEPT !.pc = "create", !.on = p, !.copy = NewRecord(d)])
  /\ UNCHANGED <<store, lock, backup, fs, disturbed, trouble>>

ClaimId(c, p, d) ==
  /\ proc[c].pc = "idle"
  /\ ~dir[p]                              \* else proposal_exists
  /\ dir' = [dir EXCEPT ![p] = TRUE]
  /\ Become(c, [Idle EXCEPT !.pc = "create", !.on = p, !.copy = NewRecord(d)])
  /\ UNCHANGED <<store, lock, backup, fs, disturbed, trouble>>

WriteDraft(c) ==
  /\ proc[c].pc = "create"
  /\ LockFree(proc[c].on)
  /\ Conclude(c, proc[c].copy)
  /\ UNCHANGED <<fs, disturbed, trouble>>

(* Any other command: take the lock, load the record, check its state.  A  *)
(* command that finds no record, or a wrong state, ends without a change.  *)
Open(c, op, p) ==
  /\ proc[c].pc = "idle"
  /\ LockFree(p)
  /\ StateOf(p) \in Required(op)
  /\ lock' = [lock EXCEPT ![p] = c]
  /\ Become(c, [Idle EXCEPT !.pc = op, !.on = p, !.copy = store[p]])
  /\ UNCHANGED <<dir, store, backup, fs, disturbed, trouble>>

Classify(c) ==
  LET r == proc[c].copy IN
  /\ proc[c].pc = "classify"
  /\ Inspectable(r.actions)
  /\ Conclude(c, Transition([r EXCEPT !.classified = r.actions,
                                      !.targets = Observed(r.actions),
                                      !.recovery = "planned"], "classified"))
  /\ UNCHANGED <<fs, disturbed, trouble>>

Approve(c) ==
  LET r == proc[c].copy IN
  /\ proc[c].pc = "approve"
  /\ Conclude(c, Transition([r EXCEPT !.approved = r.classified], "approved"))
  /\ UNCHANGED <<fs, disturbed, trouble>>

Reject(c) ==
  /\ proc[c].pc = "reject"
  /\ Conclude(c, Transition(proc[c].copy, "rejected"))
  /\ UNCHANGED <<fs, disturbed, trouble>>

(* classify or promote ends in an error before it saved anything: one of   *)
(* those above, an OSError at a target (target_inspection_failed), or      *)
(* another configuration root than classification had.                     *)
Refusable(c) == proc[c].pc \in {"classify", "promote"}

Refuse_KeepsLock(c) ==
  /\ Refusable(c)
  /\ Become(c, Idle)
  /\ UNCHANGED <<dir, store, lock, backup, fs, disturbed, trouble>>

Refuse(c) ==
  /\ Refusable(c)
  /\ Release(c)
  /\ UNCHANGED <<dir, store, backup, fs, disturbed, trouble>>

-----------------------------------------------------------------------------
(* promote: start, recovery data, then the actions one by one.             *)

Reinspect(c) ==
  /\ proc[c].pc = "promote"
  /\ MayPromote(proc[c].copy)
  /\ Become(c, [proc[c] EXCEPT !.pc = "baseline"])
  /\ disturbed' = [disturbed EXCEPT ![proc[c].on] = {}]
  /\ UNCHANGED <<dir, store, lock, backup, fs, trouble>>

(* The workload baseline is None when jiritsu-workload did not answer. *)
AssessBefore(c) ==
  /\ proc[c].pc = "baseline"
  /\ \E before \in {None, Failing} :
       Become(c, [proc[c] EXCEPT !.pc = "start", !.before = before])
  /\ UNCHANGED <<dir, store, lock, backup, fs, disturbed, trouble>>

Begin(c) ==
  LET r == Transition(proc[c].copy, "applying") IN
  /\ proc[c].pc = "start"
  /\ Save(proc[c].on, r)
  /\ Become(c, [proc[c] EXCEPT !.pc = "prepare", !.copy = r])
  /\ UNCHANGED <<dir, lock, backup, fs, disturbed, trouble>>

Prepare_NoSave(c) ==
  /\ proc[c].pc = "prepare"
  /\ Become(c, [proc[c] EXCEPT !.pc = "apply", !.copy.recovery = "ready"])
  /\ UNCHANGED <<dir, store, lock, backup, fs, disturbed, trouble>>

Prepare(c) ==
  LET r == [proc[c].copy EXCEPT !.recovery = "ready"] IN
  /\ proc[c].pc = "prepare"
  /\ Save(proc[c].on, r)
  /\ Become(c, [proc[c] EXCEPT !.pc = "apply", !.copy = r])
  /\ UNCHANGED <<dir, lock, backup, fs, disturbed, trouble>>

(* prepare_recovery raises OSError: _finish_rollback with no applied action. *)
PrepareFails(c) ==
  /\ proc[c].pc = "prepare"
  /\ Trouble("prepare")
  /\ Become(c, [proc[c] EXCEPT !.pc = "finish"])
  /\ UNCHANGED <<dir, store, lock, backup, fs, disturbed>>

Current(c) == proc[c].copy.actions[proc[c].next]

(* The record of an action joins applied once the action is complete. *)
Completed_OffByOne(q, recovery) ==
  [q EXCEPT
    !.applied = Append(@, [path |-> q.copy.actions[q.next].path, recovery |-> recovery]),
    !.next = @ + 1,
    !.pc = IF q.next > Len(q.copy.actions) THEN "verify" ELSE "apply"]

Completed(q, recovery) ==
  [q EXCEPT
    !.applied = Append(@, [path |-> q.copy.actions[q.next].path, recovery |-> recovery]),
    !.next = @ + 1,
    !.pc = IF q.next = Len(q.copy.actions) THEN "verify" ELSE "apply"]

(* config.mkdir on a path that exists changes nothing, whatever is there. *)
KeepPath(c) ==
  /\ proc[c].pc = "apply" /\ Current(c).type = "mkdir"
  /\ fs[Current(c).path] # Absent
  /\ Become(c, Completed(proc[c], "no_change"))
  /\ UNCHANGED <<dir, store, lock, backup, fs, disturbed, trouble>>

MakeDirectory(c) ==
  /\ proc[c].pc = "apply" /\ Current(c).type = "mkdir"
  /\ fs[Current(c).path] = Absent
  /\ HasParent(Current(c).path)
  /\ SetPath(proc[c].on, Current(c).path, Directory)
  /\ Become(c, [proc[c] EXCEPT !.pc = "chmod"])
  /\ UNCHANGED <<dir, store, lock, backup, trouble>>

SecureDirectory(c) ==
  /\ proc[c].pc = "chmod"
  /\ Become(c, Completed(proc[c], "remove_created_directory"))
  /\ UNCHANGED <<dir, store, lock, backup, fs, disturbed, trouble>>

BackUp_NoCopy(c) ==
  /\ proc[c].pc = "apply" /\ Current(c).type = "write"
  /\ fs[Current(c).path] \in Contents
  /\ Become(c, [proc[c] EXCEPT !.pc = "replace", !.strategy = "restore_backup"])
  /\ UNCHANGED <<dir, store, lock, backup, fs, disturbed, trouble>>

BackUp(c) ==
  LET x == Current(c).path IN
  /\ proc[c].pc = "apply" /\ Current(c).type = "write"
  /\ fs[x] \in Contents
  /\ backup' = [backup EXCEPT ![proc[c].on][x] = fs[x]]
  /\ Become(c, [proc[c] EXCEPT !.pc = "replace", !.strategy = "restore_backup"])
  /\ UNCHANGED <<dir, store, lock, fs, disturbed, trouble>>

PlanRemoval(c) ==
  /\ proc[c].pc = "apply" /\ Current(c).type = "write"
  /\ fs[Current(c).path] = Absent
  /\ Become(c, [proc[c] EXCEPT !.pc = "replace", !.strategy = "remove_created_file"])
  /\ UNCHANGED <<dir, store, lock, backup, fs, disturbed, trouble>>

(* _atomic_bytes: whatever the path holds by now is replaced. *)
Writable(x) == HasParent(x) /\ fs[x] # Directory

ReplaceFile(c) ==
  LET x == Current(c).path IN
  /\ proc[c].pc = "replace"
  /\ Writable(x)
  /\ SetPath(proc[c].on, x, Current(c).content)
  /\ Become(c, Completed(proc[c], proc[c].strategy))
  /\ UNCHANGED <<dir, store, lock, backup, trouble>>

(* ActionApplyError and the other failures after the actions began: undo   *)
(* the complete actions, the last one first.                               *)
RollbackPlan_Forward(applied) == applied
RollbackPlan(applied) == Reverse(applied)

RollingBack(q) ==
  [q EXCEPT !.undo = RollbackPlan(q.applied),
            !.pc = IF q.applied = <<>> THEN "finish" ELSE "rollback"]

(* What the file system refuses at the current step. *)
Impossible(c) ==
  LET x == Current(c).path IN
  \/ /\ proc[c].pc = "apply" /\ Current(c).type = "mkdir"
     /\ fs[x] = Absent /\ ~HasParent(x)
  \/ /\ proc[c].pc = "apply" /\ Current(c).type = "write"
     /\ fs[x] = Directory
  \/ proc[c].pc = "replace" /\ ~Writable(x)

ActionFails(c) ==
  /\ \/ proc[c].pc \in ApplySteps /\ Impossible(c) /\ UNCHANGED trouble
     \/ proc[c].pc \in {"apply", "replace"} /\ Trouble("action")
     \/ proc[c].pc = "chmod" /\ Trouble("chmod")
  /\ Become(c, RollingBack(proc[c]))
  /\ UNCHANGED <<dir, store, lock, backup, fs, disturbed>>

-----------------------------------------------------------------------------
(* promote: verification, the workload comparison and the commit.          *)

Verify(c) ==
  /\ proc[c].pc = "verify"
  /\ \/ /\ Verified(proc[c].copy.classified)
        /\ Become(c, [proc[c] EXCEPT !.pc = "assess"])
     \/ /\ ~Verified(proc[c].copy.classified)
        /\ Become(c, RollingBack(proc[c]))
  /\ UNCHANGED <<dir, store, lock, backup, fs, disturbed, trouble>>

(* Only two answers of jiritsu-workload are comparable. *)
NewFailures_Swapped(before, after) ==
  IF None \in {before, after} THEN {} ELSE before \ after

NewFailures(before, after) ==
  IF None \in {before, after} THEN {} ELSE after \ before

Assess(c) ==
  /\ proc[c].pc = "assess"
  /\ \E after \in {None, Failing} :
       \/ /\ NewFailures(proc[c].before, after) = {}
          /\ Become(c, [proc[c] EXCEPT !.pc = "commit", !.after = after])
       \/ /\ NewFailures(proc[c].before, after) # {}
          /\ Become(c, RollingBack(proc[c]))
  /\ UNCHANGED <<dir, store, lock, backup, fs, disturbed, trouble>>

Commit(c) ==
  /\ proc[c].pc = "commit"
  /\ Conclude(c, Transition([proc[c].copy EXCEPT !.recovery = "available"], "committed"))
  /\ disturbed' = [disturbed EXCEPT ![proc[c].on] = {}]
  /\ UNCHANGED <<fs, trouble>>

-----------------------------------------------------------------------------
(* rollback_actions and _finish_rollback.                                  *)

UndoRecord(c) == Head(proc[c].undo)

Restorable(c) ==
  LET x == UndoRecord(c).path IN
  CASE UndoRecord(c).recovery = "restore_backup"           -> Writable(x)
    [] UndoRecord(c).recovery = "remove_created_file"      ->
         fs[x] # Directory /\ (ParentOf[x] # Root => fs[ParentOf[x]] \notin Contents)
    [] UndoRecord(c).recovery = "remove_created_directory" ->
         fs[x] = Absent \/ (fs[x] = Directory /\ Empty(x))
    [] UndoRecord(c).recovery = "no_change"                -> TRUE

RestoredValue_FileStays(c) ==
  CASE UndoRecord(c).recovery = "restore_backup" -> backup[proc[c].on][UndoRecord(c).path]
    [] UndoRecord(c).recovery = "remove_created_directory" -> Absent
    [] OTHER -> fs[UndoRecord(c).path]

RestoredValue(c) ==
  CASE UndoRecord(c).recovery = "restore_backup" -> backup[proc[c].on][UndoRecord(c).path]
    [] UndoRecord(c).recovery = "no_change"      -> fs[UndoRecord(c).path]
    [] OTHER                                 -> Absent

AfterUndo(q, ok) ==
  [q EXCEPT !.undo = Tail(@),
            !.clean = @ /\ ok,
            !.pc = IF Len(q.undo) = 1 THEN "finish" ELSE "rollback"]

Undo(c) ==
  /\ proc[c].pc = "rollback"
  /\ Restorable(c)
  /\ SetPath(proc[c].on, UndoRecord(c).path, RestoredValue(c))
  /\ Become(c, AfterUndo(proc[c], TRUE))
  /\ UNCHANGED <<dir, store, lock, backup, trouble>>

(* An error at one action is recorded, and the rollback goes on. *)
UndoFails_Aborts(c) ==
  /\ proc[c].pc = "rollback"
  /\ ~Restorable(c)
  /\ Release(c)
  /\ UNCHANGED <<dir, store, backup, fs, disturbed, trouble>>

UndoFails(c) ==
  /\ proc[c].pc = "rollback"
  /\ \/ ~Restorable(c) /\ UNCHANGED trouble
     \/ UndoRecord(c).recovery # "no_change" /\ Trouble("restore")
  /\ Become(c, AfterUndo(proc[c], FALSE))
  /\ UNCHANGED <<dir, store, lock, backup, fs, disturbed>>

Finish(c) ==
  LET r == [proc[c].copy EXCEPT !.recovery =
              IF proc[c].clean THEN "restored" ELSE "failed"]
  IN
  /\ proc[c].pc = "finish"
  /\ Conclude(c, Transition(r, IF proc[c].clean THEN "rolled_back" ELSE "failed"))
  /\ disturbed' = [disturbed EXCEPT ![proc[c].on] = {}]
  /\ UNCHANGED <<fs, trouble>>

-----------------------------------------------------------------------------
(* What goes wrong.                                                        *)

(* store.save raises, or apply_actions cannot make the recovery directory: *)
(* the command ends with store_error, and the disk stays as it was.        *)
SaveFails(c) ==
  /\ \/ proc[c].pc \in {"create", "classify", "approve", "reject", "start", "prepare",
                       "commit", "finish"}
     \/ proc[c].pc = "apply" /\ proc[c].next = 1
  /\ Trouble("save")
  /\ Release(c)
  /\ UNCHANGED <<dir, store, backup, fs, disturbed>>

(* The process dies; the kernel drops its lock. *)
Crash(c) ==
  /\ proc[c].pc # "idle"
  /\ Trouble("crash")
  /\ Release(c)
  /\ UNCHANGED <<dir, store, backup, fs, disturbed>>

(* Another program changes the configuration tree. *)
EditFile(x, v) ==
  /\ Trouble("edit_file")
  /\ v # fs[x]
  /\ v # Absent => HasParent(x)
  /\ fs[x] = Directory => Empty(x)
  /\ SetPath(None, x, v)
  /\ UNCHANGED <<dir, store, lock, backup, proc>>

(* Somebody edits the action list of a stored proposal that no command uses. *)
EditRecord(p, d) ==
  /\ Trouble("edit_record")
  /\ store[p] # None
  /\ LockFree(p)
  /\ d # store[p].actions
  /\ store' = [store EXCEPT ![p].actions = d]
  /\ UNCHANGED <<dir, lock, backup, fs, proc, disturbed>>

-----------------------------------------------------------------------------

Init ==
  /\ dir = [p \in Proposals |-> FALSE]
  /\ store = [p \in Proposals |-> None]
  /\ lock = [p \in Proposals |-> None]
  /\ backup = [p \in Proposals |-> [x \in Paths |-> Absent]]
  /\ fs = InitialFs
  /\ proc = [c \in Procs |-> Idle]
  /\ disturbed = [p \in Proposals |-> {}]
  /\ trouble = 0

(* The steps a running command takes on its own. *)
Step(c) ==
  \/ WriteDraft(c) \/ Classify(c) \/ Approve(c) \/ Reject(c) \/ Refuse(c)
  \/ Reinspect(c) \/ AssessBefore(c) \/ Begin(c) \/ Prepare(c)
  \/ KeepPath(c) \/ MakeDirectory(c) \/ SecureDirectory(c)
  \/ BackUp(c) \/ PlanRemoval(c) \/ ReplaceFile(c) \/ ActionFails(c)
  \/ Verify(c) \/ Assess(c) \/ Commit(c)
  \/ Undo(c) \/ UndoFails(c) \/ Finish(c)

Next ==
  \/ \E c \in Procs :
       \/ \E p \in Proposals, d \in Definitions : ClaimId(c, p, d)
       \/ \E p \in Proposals, op \in Operations : Open(c, op, p)
       \/ Step(c)
       \/ PrepareFails(c) \/ SaveFails(c) \/ Crash(c)
  \/ \E x \in Paths, v \in EditValues : EditFile(x, v)
  \/ \E p \in Proposals, d \in Definitions : EditRecord(p, d)

Spec == Init /\ [][Next]_vars

(* A command that runs takes its next step: the scheduler runs it.  Nobody *)
(* must start a command, and nothing must go wrong.                        *)
FairSpec == Spec /\ \A c \in Procs : WF_vars(Step(c))

-----------------------------------------------------------------------------
(* Types.                                                                  *)

Process ==
  [pc : {"idle", "create"} \cup Operations \cup PromotionSteps,
   on : Proposals \cup {None},
   copy : Record \cup {None},
   next : Nat,
   strategy : Strategies,
   applied : Seq(Applied),
   undo : Seq(Applied),
   clean : BOOLEAN,
   before : (SUBSET Paths) \cup {None},
   after : (SUBSET Paths) \cup {None}]

(* A running command works on a proposal, starts at the first action, and  *)
(* what its next step points at exists: an action to apply, one to undo.   *)
WellFormed(q) ==
  /\ q.pc # "idle" => q.on \in Proposals /\ q.copy \in Record
  /\ q.pc \in Operations \cup Starting \cup {"create", "prepare"} => q.next = 1
  /\ q.pc \in ApplySteps => q.next \in DOMAIN q.copy.actions
  /\ q.pc = "replace" => q.copy.actions[q.next].type = "write"
  /\ q.pc = "rollback" => q.undo # <<>>

(* The variables have their types, and the loops of apply_actions and      *)
(* rollback_actions stay within their lists.                               *)
TypeOK ==
  /\ dir \in [Proposals -> BOOLEAN]
  /\ store \in [Proposals -> Record \cup {None}]
  /\ lock \in [Proposals -> Procs \cup {None}]
  /\ backup \in [Proposals -> [Paths -> FsValues]]
  /\ fs \in [Paths -> FsValues]
  /\ proc \in [Procs -> Process]
  /\ disturbed \in [Proposals -> SUBSET Paths]
  /\ trouble \in Nat
  /\ \A c \in Procs : WellFormed(proc[c])

-----------------------------------------------------------------------------
(* Safety.                                                                 *)

(* As long as a command has a proposal open, its copy in memory is what    *)
(* the disk holds, and no other command has it open (load and save in one  *)
(* store.lock block; the copy is saved at once after every transition).    *)
LockedCopyIsCurrent ==
  \A c \in Procs : proc[c].pc \in Operations \cup PromotionSteps =>
    lock[proc[c].on] = c /\ store[proc[c].on] = proc[c].copy

(* A proposal ID has one creator, which finds no record under it. *)
ClaimsAreExclusive ==
  \A c \in Procs : proc[c].pc = "create" =>
    LET p == proc[c].on IN
    /\ dir[p] /\ store[p] = None
    /\ \E d \in Definitions : proc[c].copy = NewRecord(d)
    /\ \A e \in Procs : proc[e].pc = "create" /\ proc[e].on = p => e = c

RecordsAreConsistent ==
  \A p \in Proposals : store[p] # None =>
    LET r == store[p] IN
    /\ dir[p]
    /\ r.history # <<>> /\ r.history[Len(r.history)] = r.state
    /\ r.state = "approved" => r.approved = r.classified

(* The state, the action list and the recovery status of the open record   *)
(* fit the step that comes next.                                           *)
EffectSteps == PromotionSteps \ (Starting \cup {"prepare", "finish"})

StepsFitRecords ==
  \A c \in Procs :
    LET r == proc[c].copy IN
    /\ proc[c].pc \in Operations => r.state \in Required(proc[c].pc)
    /\ proc[c].pc \in PromotionSteps => r.actions = r.classified
    /\ proc[c].pc \in Starting => r.state = "approved"
    /\ proc[c].pc \in PromotionSteps \ Starting => r.state = "applying"
    /\ proc[c].pc \in EffectSteps => r.recovery = "ready"

(* How commands, locks and durable records fit together: each command      *)
(* works on what the disk says, at a step that the record on disk allows,  *)
(* and nobody creates a proposal over another one.  This is inductive.     *)
RecordDiscipline ==
  LockedCopyIsCurrent /\ ClaimsAreExclusive /\ RecordsAreConsistent /\ StepsFitRecords

(* The durable history of each proposal grows one lifecycle edge at a time *)
(* and a terminal state stays, whatever commands race, die or fail to save *)
(* (the per-proposal flock, _require_state, transition, store.save).       *)
Lifecycle == INSTANCE ProposalLifecycle WITH
  history <- [p \in Proposals |-> IF store[p] = None THEN <<>> ELSE store[p].history]

ImplementsLifecycle == Lifecycle!Spec

(* A command changes the configuration tree only while the record on disk  *)
(* says that its proposal is applying and that recovery data is ready      *)
(* (the two saves before apply_actions), so that no effect goes unrecorded.*)
IntentBeforeEffect ==
  [][\A c \in Procs : fs' # fs /\ proc'[c] # proc[c] =>
       LET r == store[proc[c].on] IN r.state = "applying" /\ r.recovery = "ready"]_vars

(* Promotion applies the action list that was classified, although the     *)
(* stored list may be edited at any time between the commands (the digest  *)
(* goes from classification to approval and is compared at promotion).     *)
OnlyClassifiedActionsRun ==
  \A c \in Procs : proc[c].pc \in PromotionSteps =>
    proc[c].copy.actions = proc[c].copy.classified

Target(p, i) == store[p].classified[i].path

(* At every moment of a promotion, after a crash too, each target that     *)
(* nobody else touched holds its old or its proposed value, and an old     *)
(* content that is gone from its path is in the recovery directory.        *)
CrashRecoverable ==
  \A p \in Proposals : StateOf(p) = "applying" =>
    \A i \in DOMAIN store[p].targets : Target(p, i) \notin disturbed[p] =>
      LET a   == store[p].classified[i]
          old == store[p].targets[i]
          new == IF a.type = "mkdir" THEN Directory ELSE a.content
      IN /\ fs[a.path] \in {old, new}
         /\ old \in Contents => old \in {fs[a.path], backup[p][a.path]}

(* What promote is about to replace is what classification observed, as    *)
(* long as nobody else changes the path after the re-inspection.           *)
NoStaleOverwriteAlone ==
  \A c \in Procs : proc[c].pc \in {"prepare", "apply", "replace"} =>
    LET r == proc[c].copy IN
    \A i \in proc[c].next..Len(r.actions) :
      r.actions[i].path \notin disturbed[proc[c].on] =>
        fs[r.actions[i].path] = r.targets[i]

BecomesAt(p, from, to) == StateOf(p) = from /\ StateOf(p)' = to

(* A proposal becomes rolled_back only with each target back at its        *)
(* classified state, unless somebody else changed that target meanwhile.   *)
RollbackRestores ==
  [][\A p \in Proposals : BecomesAt(p, "applying", "rolled_back") =>
       \A i \in DOMAIN store[p].targets :
         Target(p, i) \in disturbed[p] \/ fs[Target(p, i)] = store[p].targets[i]]_vars

(* A promotion that is about to commit leaves no target of its own in a    *)
(* state that makes a critical workload fail and did not before, when both *)
(* assessments came from jiritsu-workload.                                 *)
CommitIntroducesNoFailure ==
  \A c \in Procs :
    proc[c].pc = "commit" /\ None \notin {proc[c].before, proc[c].after} =>
      \A i \in DOMAIN proc[c].copy.actions :
        LET x == proc[c].copy.actions[i].path IN
        fs[x] \in Breaking => x \in proc[c].before \cup disturbed[proc[c].on]

(* Rollback fails only if another program or promotion interfered, where   *)
(* the restoring calls do not fail: children go before their directories.  *)
RollbackFailsOnlyIfDisturbed ==
  [][\A p \in Proposals :
       BecomesAt(p, "applying", "failed") => disturbed[p] # {}]_vars

(* No command leaves a proposal behind in applying, with a target changed  *)
(* and neither committed nor restored.                                     *)
NoAbandonedPromotion ==
  \A p \in Proposals : StateOf(p) = "applying" /\ lock[p] = None =>
    \A i \in DOMAIN store[p].targets :
      Target(p, i) \notin disturbed[p] => fs[Target(p, i)] = store[p].targets[i]

-----------------------------------------------------------------------------
(* Liveness.                                                               *)

(* Every lock is given back, also by commands that refuse or fail.         *)
LockReleased == \A p \in Proposals : lock[p] # None ~> lock[p] = None

(* A promotion that started ends in a terminal state, where no process is  *)
(* killed and no save fails.                                               *)
PromotionSettles ==
  \A p \in Proposals :
    StateOf(p) = "applying" ~> StateOf(p) \in {"committed", "rolled_back", "failed"}
=============================================================================

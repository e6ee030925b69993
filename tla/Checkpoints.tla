---------------------------- MODULE Checkpoints ----------------------------
(***************************************************************************)
(* jiritsu-checkpoints: commands (processes) that create checkpoints and   *)
(* restore them.  Commands share a directory per checkpoint (its lock, its *)
(* record, its copies of files) and the user's configuration, which other  *)
(* programs write too.  A command may be killed between any two steps.     *)
(*                                                                         *)
(* A selected path is copied and removed as one thing, be it a file or a   *)
(* directory; a copy that fails may leave a part of it behind.             *)
(***************************************************************************)
EXTENDS Naturals, SequencesExt

CONSTANTS
  Procs,           \* commands that may run at the same time
  Checkpoints,     \* checkpoint IDs
  Paths,           \* paths that a policy may select
  Contents,        \* what may be at a path
  Policies,        \* the include lists of the policies, <<>> for no policy
  Configurations,  \* Snapper's configurations, in order
  RootConfig,      \* the configuration of subvolume /
  InitialFs,       \* the user's configuration at the start
  Troubles,        \* what may go wrong in this instance
  MaxTrouble,      \* bound: how often
  MaxCommands,     \* bound: how many commands are started
  None             \* no process, no checkpoint, no record

Absent   == "absent"
Torn     == "torn"
FsValues == Contents \cup {Absent, Torn}

TroubleKinds == {"snapshot", "capture", "copy", "restore", "save", "system",
                 "crash", "edit_file"}

(* load_policy: no path twice, and none below another one. *)
ASSUME PolicyAssumption ==
  \A policy \in Policies :
    policy \in Seq(Paths) /\ \A i, j \in DOMAIN policy : policy[i] = policy[j] => i = j

ASSUME CheckpointsAssumption ==
  /\ {Absent, Torn} \cap Contents = {}
  /\ Configurations \in Seq(ToSet(Configurations)) \ {<<>>}
  /\ InitialFs \in [Paths -> Contents \cup {Absent}]
  /\ Troubles \subseteq TroubleKinds
  /\ MaxTrouble \in Nat /\ MaxCommands \in Nat
  /\ None \notin Procs /\ None \notin Checkpoints

VARIABLES
  dir,        \* dir[k]: the directory of checkpoint k exists
  store,      \* store[k]: checkpoint.json, None before the first save
  lock,       \* lock[k]: the process that holds the flock, or None
  files,      \* files[k][x]: the copy of x in the checkpoint's directory
  fs,         \* fs[x]: what is at path x of the user's configuration
  proc,       \* proc[c]: what process c is doing
  disturbed,  \* history: disturbed[c]: paths others changed since c started
  noted,      \* history: noted[k]: how many restores of k were put on record
  commands,   \* how many commands were started so far
  trouble     \* how often something went wrong so far

vars == <<dir, store, lock, files, fs, proc, disturbed, noted, commands, trouble>>

-----------------------------------------------------------------------------

ScopeStates == {"planned", "skipped", "captured", "failed"}

Record ==
  [status : {"creating", "ready", "partial", "failed"},
   system : ScopeStates,
   snapshots : SUBSET ToSet(Configurations),
   user : ScopeStates,
   include : Policies,
   history : Seq({"system", "user"})]

ASSUME RecordAssumption == None \notin Record

(* A scope that was not asked for or, in mode auto, whose provider is      *)
(* unavailable is skipped.                                                 *)
NewRecord(system, policy) ==
  [status |-> "creating", system |-> IF system THEN "planned" ELSE "skipped",
   snapshots |-> {}, user |-> IF policy # <<>> THEN "planned" ELSE "skipped",
   include |-> policy, history |-> <<>>]

Saved == [path : Paths, value : FsValues]

Idle == [pc |-> "idle", on |-> None, copy |-> None, next |-> 1,
         backup |-> <<>>, undo |-> <<>>, clean |-> TRUE, scope |-> "user"]

Creating  == {"claimed", "snapshots", "capture", "finish"}
Restoring == {"backup", "remove", "copy", "undo", "undo_copy", "abort"}

(* Steps within a store.lock block. *)
Locked == Creating \cup Restoring \cup {"note"}

Trouble(kind) ==
  /\ kind \in Troubles
  /\ trouble < MaxTrouble
  /\ trouble' = trouble + 1

Become(c, q) == proc' = [proc EXCEPT ![c] = q]

Release(c) ==
  /\ lock' = [k \in Checkpoints |-> IF lock[k] = c THEN None ELSE lock[k]]
  /\ Become(c, Idle)

Save(k, r) == store' = [store EXCEPT ![k] = r]

(* Path x becomes v by the hand of process c, or of another program. *)
SetPath(c, x, v) ==
  /\ fs' = [fs EXCEPT ![x] = v]
  /\ disturbed' = [e \in Procs |->
       IF e # c /\ v # fs[x] THEN disturbed[e] \cup {x} ELSE disturbed[e]]

-----------------------------------------------------------------------------
(* create_checkpoint.                                                      *)

Began(c) ==
  /\ proc[c].pc = "idle"
  /\ commands < MaxCommands
  /\ commands' = commands + 1
  /\ disturbed' = [disturbed EXCEPT ![c] = {}]

(* store.lock with create: mkdir claims the ID; nobody else takes the lock *)
(* of a directory without a record.                                        *)
Create(c, k, system, policy) ==
  /\ Began(c)
  /\ system \/ policy # <<>>              \* else empty_scope or backend_unavailable
  /\ ~dir[k]                              \* else checkpoint_exists
  /\ dir' = [dir EXCEPT ![k] = TRUE]
  /\ lock' = [lock EXCEPT ![k] = c]
  /\ Become(c, [Idle EXCEPT !.pc = "claimed", !.on = k, !.copy = NewRecord(system, policy)])
  /\ UNCHANGED <<store, files, fs, noted, trouble>>

NextScope(r) == IF r.system = "planned" THEN "snapshots"
                ELSE IF r.user = "planned" THEN "capture" ELSE "finish"

WriteCreating(c) ==
  /\ proc[c].pc = "claimed"
  /\ Save(proc[c].on, proc[c].copy)
  /\ Become(c, [proc[c] EXCEPT !.pc = NextScope(proc[c].copy)])
  /\ UNCHANGED <<dir, lock, files, fs, disturbed, noted, commands, trouble>>

(* The record in memory becomes r, and the command turns to what is left. *)
GoOn(c, r) == Become(c, [proc[c] EXCEPT !.copy = r, !.pc = NextScope(r), !.next = 1])

(* create_system_snapshots, one configuration after the other. *)
TakeSnapshot(c) ==
  LET r    == proc[c].copy
      n    == proc[c].next
      with == [r EXCEPT !.snapshots = @ \cup {Configurations[n]}]
  IN
  /\ proc[c].pc = "snapshots"
  /\ IF n < Len(Configurations)
     THEN Become(c, [proc[c] EXCEPT !.copy = with, !.next = n + 1])
     ELSE GoOn(c, [with EXCEPT !.system = "captured"])
  /\ UNCHANGED <<dir, store, lock, files, fs, disturbed, noted, commands, trouble>>

(* The snapshots that were created before the failure stay on record. *)
SnapshotFails(c) ==
  /\ proc[c].pc = "snapshots"
  /\ Trouble("snapshot")
  /\ GoOn(c, [proc[c].copy EXCEPT !.system = "failed"])
  /\ UNCHANGED <<dir, store, lock, files, fs, disturbed, noted, commands>>

(* capture_config; a missing path is on record as missing. *)
Capture(c) ==
  LET r == proc[c].copy
      n == proc[c].next
      x == r.include[n]
  IN
  /\ proc[c].pc = "capture"
  /\ files' = [files EXCEPT ![proc[c].on][x] = fs[x]]
  /\ IF n < Len(r.include)
     THEN Become(c, [proc[c] EXCEPT !.next = n + 1])
     ELSE GoOn(c, [r EXCEPT !.user = "captured"])
  /\ UNCHANGED <<dir, store, lock, fs, disturbed, noted, commands, trouble>>

CaptureFails(c) ==
  /\ proc[c].pc = "capture"
  /\ Trouble("capture")
  /\ GoOn(c, [proc[c].copy EXCEPT !.user = "failed"])
  /\ UNCHANGED <<dir, store, lock, files, fs, disturbed, noted, commands>>

FinalStatus_AnyCaptured(r) ==
  IF "captured" \in {r.system, r.user} THEN "ready" ELSE "failed"

FinalStatus(r) ==
  CASE "failed" \notin {r.system, r.user} -> "ready"
    [] "failed" \in {r.system, r.user} /\ "captured" \in {r.system, r.user} -> "partial"
    [] OTHER -> "failed"

Finish(c) ==
  /\ proc[c].pc = "finish"
  /\ Save(proc[c].on, [proc[c].copy EXCEPT !.status = FinalStatus(proc[c].copy)])
  /\ Release(c)
  /\ UNCHANGED <<dir, files, fs, disturbed, noted, commands, trouble>>

-----------------------------------------------------------------------------
(* restore_user_config: the record is loaded before the lock is taken.     *)

OpenUserRestore(c, k) ==
  /\ Began(c)
  /\ store[k] # None
  /\ store[k].user = "captured"           \* else scope_unavailable
  /\ Become(c, [Idle EXCEPT !.pc = "lock", !.on = k, !.copy = store[k]])
  /\ UNCHANGED <<dir, store, lock, files, fs, noted, trouble>>

LockFree_NoFlock(k) == TRUE
LockFree(k) == lock[k] = None

LockRestore(c) ==
  /\ proc[c].pc = "lock"
  /\ LockFree(proc[c].on)
  /\ lock' = [lock EXCEPT ![proc[c].on] = c]
  /\ Become(c, [proc[c] EXCEPT !.pc = IF proc[c].scope = "user" THEN "backup" ELSE "note"])
  /\ UNCHANGED <<dir, store, files, fs, disturbed, noted, commands, trouble>>

Entry(c) == proc[c].copy.include[proc[c].next]

LastEntry(c) == proc[c].next = Len(proc[c].copy.include)

BackUp_FirstOnly(c) ==
  /\ proc[c].pc = "backup"
  /\ Become(c, [proc[c] EXCEPT !.backup = <<[path |-> Entry(c), value |-> fs[Entry(c)]]>>,
                               !.pc = "remove"])
  /\ UNCHANGED <<dir, store, lock, files, fs, disturbed, noted, commands, trouble>>

(* All selected paths are copied before the first one is replaced. *)
BackUp(c) ==
  LET kept == Append(proc[c].backup, [path |-> Entry(c), value |-> fs[Entry(c)]]) IN
  /\ proc[c].pc = "backup"
  /\ Become(c, IF LastEntry(c)
               THEN [proc[c] EXCEPT !.backup = kept, !.pc = "remove", !.next = 1]
               ELSE [proc[c] EXCEPT !.backup = kept, !.next = @ + 1])
  /\ UNCHANGED <<dir, store, lock, files, fs, disturbed, noted, commands, trouble>>

Replaced(c) == IF LastEntry(c) THEN [proc[c] EXCEPT !.pc = "note"]
               ELSE [proc[c] EXCEPT !.pc = "remove", !.next = @ + 1]

AfterRemoval_SkipMissing(c) == Replaced(c)

AfterRemoval(c) == IF files[proc[c].on][Entry(c)] = Absent THEN Replaced(c)
                   ELSE [proc[c] EXCEPT !.pc = "copy"]

RemoveTarget(c) ==
  /\ proc[c].pc = "remove"
  /\ SetPath(c, Entry(c), Absent)
  /\ Become(c, AfterRemoval(c))
  /\ UNCHANGED <<dir, store, lock, files, noted, commands, trouble>>

CopyTarget(c) ==
  /\ proc[c].pc = "copy"
  /\ SetPath(c, Entry(c), files[proc[c].on][Entry(c)])
  /\ Become(c, Replaced(c))
  /\ UNCHANGED <<dir, store, lock, files, noted, commands, trouble>>

(* All that was backed up is put back, the last one first. *)
Undoing_NotLast(c) ==
  LET undo == IF proc[c].backup = <<>> THEN <<>> ELSE Tail(Reverse(proc[c].backup))
  IN  [proc[c] EXCEPT !.undo = undo, !.pc = IF undo = <<>> THEN "abort" ELSE "undo"]

Undoing(c) ==
  LET undo == Reverse(proc[c].backup)
  IN  [proc[c] EXCEPT !.undo = undo, !.pc = IF undo = <<>> THEN "abort" ELSE "undo"]

(* The validation of entries and targets or a copy into the backup fails,  *)
(* or a removal or a copy at the target.                                   *)
RestoreFails(c) ==
  /\ proc[c].pc \in {"backup", "remove", "copy"}
  /\ Trouble("copy")
  /\ IF proc[c].pc = "backup" THEN UNCHANGED <<fs, disturbed>>
     ELSE \E v \in {fs[Entry(c)], Torn} : SetPath(c, Entry(c), v)
  /\ Become(c, Undoing(c))
  /\ UNCHANGED <<dir, store, lock, files, noted, commands>>

AfterUndo(q) ==
  [q EXCEPT !.undo = Tail(@), !.pc = IF Len(q.undo) = 1 THEN "abort" ELSE "undo"]

UndoRemove(c) ==
  LET saved == Head(proc[c].undo) IN
  /\ proc[c].pc = "undo"
  /\ SetPath(c, saved.path, Absent)
  /\ Become(c, IF saved.value = Absent THEN AfterUndo(proc[c])
               ELSE [proc[c] EXCEPT !.pc = "undo_copy"])
  /\ UNCHANGED <<dir, store, lock, files, noted, commands, trouble>>

UndoCopy(c) ==
  LET saved == Head(proc[c].undo) IN
  /\ proc[c].pc = "undo_copy"
  /\ SetPath(c, saved.path, saved.value)
  /\ Become(c, AfterUndo(proc[c]))
  /\ UNCHANGED <<dir, store, lock, files, noted, commands, trouble>>

(* An error of the rollback is noted, and the next path has its turn. *)
UndoFails(c) ==
  LET saved == Head(proc[c].undo) IN
  /\ proc[c].pc \in {"undo", "undo_copy"}
  /\ Trouble("restore")
  /\ \E v \in {fs[saved.path], Torn} : SetPath(c, saved.path, v)
  /\ Become(c, AfterUndo([proc[c] EXCEPT !.clean = FALSE]))
  /\ UNCHANGED <<dir, store, lock, files, noted, commands>>

(* restore_failed *)
Abort(c) ==
  /\ proc[c].pc = "abort"
  /\ Release(c)
  /\ UNCHANGED <<dir, store, files, fs, disturbed, noted, commands, trouble>>

Note_StaleCopy(c) ==
  /\ proc[c].pc = "note"
  /\ Save(proc[c].on, [proc[c].copy EXCEPT !.history = Append(@, proc[c].scope)])
  /\ noted' = [noted EXCEPT ![proc[c].on] = @ + 1]
  /\ Release(c)
  /\ UNCHANGED <<dir, files, fs, disturbed, commands, trouble>>

(* The record is loaded once more, under the lock, and gets its entry. *)
Note(c) ==
  /\ proc[c].pc = "note"
  /\ Save(proc[c].on, [store[proc[c].on] EXCEPT !.history = Append(@, proc[c].scope)])
  /\ noted' = [noted EXCEPT ![proc[c].on] = @ + 1]
  /\ Release(c)
  /\ UNCHANGED <<dir, files, fs, disturbed, commands, trouble>>

-----------------------------------------------------------------------------
(* restore_system: the restore is applied before the lock is taken.        *)

(* root_reference asks for the snapshot, not for the status of its scope. *)
SystemRestorable(r) == RootConfig \in r.snapshots

OpenSystemRestore(c, k) ==
  /\ Began(c)
  /\ store[k] # None
  /\ SystemRestorable(store[k])           \* else scope_unavailable
  /\ Become(c, [Idle EXCEPT !.pc = "apply", !.on = k, !.copy = store[k], !.scope = "system"])
  /\ UNCHANGED <<dir, store, lock, files, fs, noted, trouble>>

ApplySystemRestore(c) ==
  /\ proc[c].pc = "apply"
  /\ Become(c, [proc[c] EXCEPT !.pc = "lock"])
  /\ UNCHANGED <<dir, store, lock, files, fs, disturbed, noted, commands, trouble>>

(* The provider did not run, failed, or timed out, with or without effect: *)
(* the command ends with no lock taken and no entry written.               *)
SystemRestoreFails(c) ==
  /\ proc[c].pc = "apply"
  /\ Trouble("system")
  /\ Become(c, Idle)
  /\ UNCHANGED <<dir, store, lock, files, fs, disturbed, noted, commands>>

-----------------------------------------------------------------------------
(* What goes wrong.                                                        *)

SaveFails(c) ==
  /\ proc[c].pc \in {"claimed", "finish", "note"}
  /\ Trouble("save")
  /\ Release(c)
  /\ UNCHANGED <<dir, store, files, fs, disturbed, noted, commands>>

(* The path at which process c is removing or copying. *)
AtWork(c) == IF proc[c].pc \in {"remove", "copy"} THEN {Entry(c)}
             ELSE IF proc[c].pc \in {"undo", "undo_copy"} THEN {Head(proc[c].undo).path}
             ELSE {}

(* Killed; a removal or a copy under way may leave a part behind. *)
Crash(c) ==
  /\ proc[c].pc # "idle"
  /\ Trouble("crash")
  /\ \/ UNCHANGED <<fs, disturbed>>
     \/ \E x \in AtWork(c) : SetPath(c, x, Torn)
  /\ Release(c)
  /\ UNCHANGED <<dir, store, files, noted, commands>>

EditFile(x, v) ==
  /\ Trouble("edit_file")
  /\ v # fs[x]
  /\ SetPath(None, x, v)
  /\ UNCHANGED <<dir, store, lock, files, proc, noted, commands>>

-----------------------------------------------------------------------------

Init ==
  /\ dir = [k \in Checkpoints |-> FALSE]
  /\ store = [k \in Checkpoints |-> None]
  /\ lock = [k \in Checkpoints |-> None]
  /\ files = [k \in Checkpoints |-> [x \in Paths |-> Absent]]
  /\ fs = InitialFs
  /\ proc = [c \in Procs |-> Idle]
  /\ disturbed = [c \in Procs |-> {}]
  /\ noted = [k \in Checkpoints |-> 0]
  /\ commands = 0
  /\ trouble = 0

Next ==
  \/ \E c \in Procs :
       \/ \E k \in Checkpoints :
            \/ \E system \in BOOLEAN, policy \in Policies : Create(c, k, system, policy)
            \/ OpenUserRestore(c, k) \/ OpenSystemRestore(c, k)
       \/ WriteCreating(c) \/ TakeSnapshot(c) \/ SnapshotFails(c)
       \/ Capture(c) \/ CaptureFails(c) \/ Finish(c)
       \/ LockRestore(c) \/ BackUp(c) \/ RemoveTarget(c) \/ CopyTarget(c) \/ RestoreFails(c)
       \/ UndoRemove(c) \/ UndoCopy(c) \/ UndoFails(c) \/ Abort(c) \/ Note(c)
       \/ ApplySystemRestore(c) \/ SystemRestoreFails(c)
       \/ SaveFails(c) \/ Crash(c)
  \/ \E x \in Paths, v \in Contents \cup {Absent} : EditFile(x, v)

Spec == Init /\ [][Next]_vars

-----------------------------------------------------------------------------

Process ==
  [pc : {"idle", "lock", "apply"} \cup Locked, on : Checkpoints \cup {None},
   copy : Record \cup {None}, next : Nat, backup : Seq(Saved), undo : Seq(Saved),
   clean : BOOLEAN, scope : {"user", "system"}]

(* The variables have their types, a command within store.lock holds the   *)
(* lock, and the loop over undo stays within it.                           *)
TypeOK ==
  /\ dir \in [Checkpoints -> BOOLEAN]
  /\ store \in [Checkpoints -> Record \cup {None}]
  /\ lock \in [Checkpoints -> Procs \cup {None}]
  /\ files \in [Checkpoints -> [Paths -> FsValues]]
  /\ fs \in [Paths -> FsValues]
  /\ proc \in [Procs -> Process]
  /\ disturbed \in [Procs -> SUBSET Paths]
  /\ noted \in [Checkpoints -> Nat]
  /\ commands \in 0..MaxCommands /\ trouble \in 0..MaxTrouble
  /\ \A c \in Procs :
       /\ proc[c].pc \in Locked => lock[proc[c].on] = c
       /\ proc[c].pc \in {"undo", "undo_copy"} => proc[c].undo # <<>>

Selected(c) == ToSet(proc[c].copy.include)

(* A restore that is about to report success has brought every selected    *)
(* path to its captured state, removed paths included, unless somebody     *)
(* else changed that path since (restore_config; the scope is loaded       *)
(* before the lock).                                                       *)
RestoreRestores ==
  \A c \in Procs : proc[c].pc = "note" /\ proc[c].scope = "user" =>
    \A x \in Selected(c) \ disturbed[c] : fs[x] = files[proc[c].on][x]

(* A restore that failed, with no error in its rollback, has left every    *)
(* path as it found it, wherever it failed.                                *)
FailedRestoreUndoes ==
  \A c \in Procs : proc[c].pc = "abort" /\ proc[c].clean =>
    \A saved \in ToSet(proc[c].backup) :
      saved.path \in disturbed[c] \/ fs[saved.path] = saved.value

BackedUp(c, x) == {saved.value : saved \in {s \in ToSet(proc[c].backup) : s.path = x}}

(* A restore takes no content away that is neither in its backup nor in    *)
(* the checkpoint, so that a restore that is killed halfway loses nothing. *)
NothingIsLost ==
  [][\A c \in Procs, x \in Paths :
       fs'[x] # fs[x] /\ fs[x] \in Contents /\ proc'[c] # proc[c] =>
         x \in disturbed[c] \/ fs[x] \in BackedUp(c, x) \cup {files[proc[c].on][x]}]_vars

(* A checkpoint is ready only with everything that was asked for: every    *)
(* snapshot, and the policy's paths.                                       *)
ReadyIsWhole ==
  \A k \in Checkpoints : store[k] # None /\ store[k].status = "ready" =>
    /\ store[k].system # "skipped" => store[k].snapshots = ToSet(Configurations)
    /\ store[k].include # <<>> => store[k].user = "captured"

(* Restores that run at the same time leave one entry each in the history  *)
(* of the record, although each loaded it before it took the lock.         *)
HistoryIsComplete ==
  \A k \in Checkpoints : store[k] # None => Len(store[k].history) = noted[k]
=============================================================================

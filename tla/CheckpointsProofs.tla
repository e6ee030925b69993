------------------------- MODULE CheckpointsProofs -------------------------
(***************************************************************************)
(* Theorems about Checkpoints, for any processes, checkpoints, paths and   *)
(* policies, and whatever goes wrong: types and locks, what is on record   *)
(* and stays there, what a restore does to the user's configuration, and   *)
(* that no command is stuck or goes on for ever.                           *)
(***************************************************************************)
EXTENDS Checkpoints, TLAPS

-----------------------------------------------------------------------------
(* What one process holds.                                                 *)

(* Nothing is captured where nothing was asked for, and a captured system  *)
(* has all snapshots.                                                      *)
Sane(r) ==
  /\ r \in Record
  /\ r.user = "skipped" <=> r.include = <<>>
  /\ r.system = "captured" => r.snapshots = ToSet(Configurations)

Held == {"lock", "apply", "note"} \cup Restoring

(* A process that creates has a record without history; its step is the    *)
(* next one that the record leaves, and the snapshots are those of the     *)
(* configurations before.                                                  *)
CreateShape(q) ==
  q.pc \in Creating =>
    /\ q.copy.status = "creating" /\ q.copy.history = <<>>
    /\ q.pc = "claimed" => q.copy.snapshots = {} /\ q.next = 1
    /\ q.pc # "claimed" => q.pc = NextScope(q.copy)
    /\ q.pc = "snapshots" =>
         /\ q.next \in 1..Len(Configurations)
         /\ q.copy.snapshots = {Configurations[i] : i \in 1..(q.next - 1)}
    /\ q.pc = "capture" => q.next \in 1..Len(q.copy.include)

(* A process that restores has backed up the paths of the policy in their  *)
(* order, and undoes what it has backed up from the end.                   *)
RestoreShape(q) ==
  /\ q.pc \in {"lock"} \cup Restoring /\ q.scope = "user" => q.copy.include # <<>>
  /\ q.pc = "apply" => q.scope = "system"
  /\ q.pc \in {"apply", "lock"} => q.next = 1 /\ q.backup = <<>> /\ q.clean
  /\ q.pc \in Restoring =>
       /\ q.scope = "user"
       /\ Len(q.backup) <= Len(q.copy.include)
       /\ \A i \in 1..Len(q.backup) : q.backup[i].path = q.copy.include[i]
  /\ q.pc = "backup" => q.next \in 1..Len(q.copy.include) /\ Len(q.backup) = q.next - 1
  /\ q.pc \in {"remove", "copy"} =>
       q.next \in 1..Len(q.copy.include) /\ Len(q.backup) = Len(q.copy.include)
  /\ q.pc \in {"undo", "undo_copy"} =>
       /\ Len(q.undo) \in 1..Len(q.backup)
       /\ \A j \in 1..Len(q.undo) : q.undo[j] = q.backup[Len(q.undo) - j + 1]

Shape(q) ==
  /\ q \in Process
  /\ q.pc # "idle" => q.on \in Checkpoints /\ Sane(q.copy)
  /\ CreateShape(q)
  /\ RestoreShape(q)

LEMMA IdleShape == Shape(Idle) /\ Idle.pc = "idle"
  <1>1. Idle \in Process /\ Idle.pc = "idle"
    BY DEF Idle, Process
  <1>2. QED
    BY <1>1 DEF Shape, CreateShape, RestoreShape, Creating, Restoring

(* The record of a new checkpoint. *)
LEMMA NewRecordIs ==
  ASSUME NEW system \in BOOLEAN, NEW policy \in Policies
  PROVE  /\ Sane(NewRecord(system, policy))
         /\ NewRecord(system, policy).status = "creating"
         /\ NewRecord(system, policy).history = <<>>
         /\ NewRecord(system, policy).snapshots = {}
  BY DEF NewRecord, Sane, Record, ScopeStates

(* A process that begins to create. *)
LEMMA CreateShapes ==
  ASSUME NEW k \in Checkpoints, NEW r, Sane(r), r.status = "creating", r.history = <<>>,
         r.snapshots = {}
  PROVE  Shape([Idle EXCEPT !.pc = "claimed", !.on = k, !.copy = r])
  <1> DEFINE q == [Idle EXCEPT !.pc = "claimed", !.on = k, !.copy = r]
  <1>1. q \in Process /\ q.pc = "claimed" /\ q.on = k /\ q.copy = r /\ q.next = 1
    BY IdleShape DEF Idle, Shape, Process, Locked, Creating, Sane
  <1> HIDE DEF q
  <1>2. Shape(q)
    BY <1>1 DEF Shape, CreateShape, RestoreShape, Creating, Restoring
  <1>3. QED
    BY <1>2 DEF q

(* A process that begins to restore. *)
LEMMA OpenShapes ==
  ASSUME NEW k \in Checkpoints, NEW r, Sane(r)
  PROVE  /\ r.user = "captured" => Shape([Idle EXCEPT !.pc = "lock", !.on = k, !.copy = r])
         /\ Shape([Idle EXCEPT !.pc = "apply", !.on = k, !.copy = r, !.scope = "system"])
  <1> DEFINE q == [Idle EXCEPT !.pc = "lock", !.on = k, !.copy = r]
             s == [Idle EXCEPT !.pc = "apply", !.on = k, !.copy = r, !.scope = "system"]
  <1>1. /\ q \in Process /\ q.pc = "lock" /\ q.on = k /\ q.copy = r
        /\ q.next = 1 /\ q.backup = <<>> /\ q.clean
    BY IdleShape DEF Idle, Shape, Process, Sane
  <1>2. /\ s \in Process /\ s.pc = "apply" /\ s.on = k /\ s.copy = r /\ s.scope = "system"
        /\ s.next = 1 /\ s.backup = <<>> /\ s.clean
    BY IdleShape DEF Idle, Shape, Process, Sane
  <1> HIDE DEF q, s
  <1>3. r.user = "captured" => Shape(q)
    BY <1>1 DEF Shape, CreateShape, RestoreShape, Creating, Restoring, Sane
  <1>4. Shape(s)
    BY <1>2 DEF Shape, CreateShape, RestoreShape, Creating, Restoring
  <1>5. QED
    BY <1>3, <1>4 DEF q, s

(* A process that goes on with what its record leaves to do. *)
LEMMA GoOnShapes ==
  ASSUME NEW q, Shape(q), q.pc \in Creating, NEW r, Sane(r), r.status = "creating",
         r.history = <<>>, NextScope(r) = "snapshots" => r.snapshots = {}
  PROVE  Shape([q EXCEPT !.copy = r, !.pc = NextScope(r), !.next = 1])
  <1> DEFINE s == [q EXCEPT !.copy = r, !.pc = NextScope(r), !.next = 1]
  <1>1. /\ q \in Process /\ q.on \in Checkpoints
        /\ NextScope(r) \in {"snapshots", "capture", "finish"}
        /\ NextScope(r) = "capture" => r.user = "planned"
    BY DEF Shape, Creating, NextScope
  <1>2. /\ s \in Process /\ s.pc = NextScope(r) /\ s.on = q.on /\ s.copy = r /\ s.next = 1
    BY <1>1 DEF Process, Sane, Locked, Creating
  <1>3. /\ Len(Configurations) \in Nat \ {0}
        /\ r.user = "planned" => Len(r.include) \in Nat \ {0}
    <2>1. r.user = "planned" => r.include \in Seq(Paths) /\ r.include # <<>>
      BY PolicyAssumption DEF Sane, Record
    <2>2. QED
      BY <2>1, CheckpointsAssumption
  <1>4. {Configurations[i] : i \in 1..(1 - 1)} = {}
    OBVIOUS
  <1> HIDE DEF s
  <1>5. CreateShape(s)
    BY <1>1, <1>2, <1>3, <1>4 DEF CreateShape, Creating
  <1>6. RestoreShape(s)
    BY <1>1, <1>2 DEF RestoreShape, Restoring
  <1>7. Shape(s)
    BY <1>1, <1>2, <1>5, <1>6 DEF Shape
  <1>8. QED
    BY <1>7 DEF s

-----------------------------------------------------------------------------
(* The shape of what a process holds, step by step.                        *)

(* Every step that goes on with creating. *)
LEMMA CreateGoesOn ==
  ASSUME proc \in [Procs -> Process], NEW c \in Procs, Shape(proc[c]),
         \/ WriteCreating(c) \/ TakeSnapshot(c) \/ SnapshotFails(c) \/ Capture(c) \/ CaptureFails(c)
  PROVE  /\ proc' = [proc EXCEPT ![c] = proc'[c]] /\ Shape(proc'[c])
         /\ proc[c].pc \in Creating /\ proc'[c].pc \in Creating \ {"claimed"}
         /\ proc'[c].on = proc[c].on
  <1> DEFINE q == proc[c]
  <1>1. /\ q \in Process /\ q.on \in Checkpoints /\ Sane(q.copy) /\ CreateShape(q)
        /\ q.pc \in Creating
    BY DEF Shape, WriteCreating, TakeSnapshot, SnapshotFails, Capture, CaptureFails, Creating
  <1>2. /\ q.copy.status = "creating" /\ q.copy.history = <<>>
    BY <1>1 DEF CreateShape
  <1>3. ASSUME NEW r, Sane(r), r.status = "creating", r.history = <<>>,
               NextScope(r) = "snapshots" => r.snapshots = {},
               Become(c, [q EXCEPT !.copy = r, !.pc = NextScope(r), !.next = 1])
        PROVE  /\ proc' = [proc EXCEPT ![c] = proc'[c]] /\ Shape(proc'[c])
               /\ proc'[c].pc \in Creating \ {"claimed"} /\ proc'[c].on = q.on
    <2>1. Shape([q EXCEPT !.copy = r, !.pc = NextScope(r), !.next = 1])
      BY <1>1, <1>3, GoOnShapes
    <2>2. proc'[c] = [q EXCEPT !.copy = r, !.pc = NextScope(r), !.next = 1]
      BY <1>3 DEF Become
    <2>3. NextScope(r) \in Creating \ {"claimed"}
      BY DEF NextScope, Creating
    <2>4. proc'[c].pc = NextScope(r) /\ proc'[c].on = q.on
      BY <1>1, <2>2 DEF Process
    <2>5. QED
      BY <1>3, <2>1, <2>2, <2>3, <2>4 DEF Become
  <1>4. CASE WriteCreating(c)
    <2>1. q.pc = "claimed" /\ q.next = 1 /\ q.copy.snapshots = {}
      BY <1>1, <1>4 DEF WriteCreating, CreateShape
    <2>2. [q EXCEPT !.pc = NextScope(q.copy)] =
            [q EXCEPT !.copy = q.copy, !.pc = NextScope(q.copy), !.next = 1]
      BY <1>1, <2>1 DEF Process
    <2>3. QED
      BY <1>1, <1>2, <1>3, <1>4, <2>1, <2>2 DEF WriteCreating
  <1>5. CASE SnapshotFails(c)
    <2> DEFINE r == [q.copy EXCEPT !.system = "failed"]
    <2>1. Sane(r) /\ r.status = "creating" /\ r.history = <<>> /\ r.system = "failed"
      BY <1>1, <1>2 DEF Sane, Record, ScopeStates
    <2>2. NextScope(r) # "snapshots"
      BY <2>1 DEF NextScope
    <2> HIDE DEF r
    <2>3. Become(c, [q EXCEPT !.copy = r, !.pc = NextScope(r), !.next = 1])
      BY <1>5 DEF SnapshotFails, GoOn, r
    <2>4. QED
      BY <1>1, <1>3, <2>1, <2>2, <2>3
  <1>6. CASE CaptureFails(c) \/ (Capture(c) /\ ~(q.next < Len(q.copy.include)))
    <2>1. PICK u \in {"failed", "captured"} : GoOn(c, [q.copy EXCEPT !.user = u])
      BY <1>6 DEF CaptureFails, Capture
    <2> DEFINE r == [q.copy EXCEPT !.user = u]
    <2>2. q.pc = "capture"
      BY <1>6 DEF CaptureFails, Capture
    <2>3. q.copy.user = "planned" /\ q.copy.system # "planned"
      BY <1>1, <2>2 DEF CreateShape, NextScope
    <2>4. /\ Sane(r) /\ r.status = "creating" /\ r.history = <<>>
          /\ r.system = q.copy.system
      BY <1>1, <1>2, <2>3 DEF Sane, Record, ScopeStates
    <2>5. NextScope(r) # "snapshots"
      BY <2>3, <2>4 DEF NextScope
    <2> HIDE DEF r
    <2>6. Become(c, [q EXCEPT !.copy = r, !.pc = NextScope(r), !.next = 1])
      BY <2>1 DEF GoOn, r
    <2>7. QED
      BY <1>1, <1>3, <2>4, <2>5, <2>6
  <1>7. CASE Capture(c) /\ q.next < Len(q.copy.include)
    <2> DEFINE s == [q EXCEPT !.next = q.next + 1]
    <2>1. Become(c, s) /\ q.pc = "capture"
      BY <1>7 DEF Capture
    <2>2. q.copy.include \in Seq(Paths)
      BY <1>1, PolicyAssumption DEF Sane, Record
    <2>3. /\ s \in Process /\ s.pc = q.pc /\ s.on = q.on /\ s.copy = q.copy /\ s.next = q.next + 1
      <3>1. q.next + 1 \in Nat
        BY <1>1 DEF Process
      <3>2. QED
        BY <1>1, <3>1 DEF Process
    <2>4. proc'[c] = s /\ proc' = [proc EXCEPT ![c] = s]
      BY <2>1 DEF Become
    <2> HIDE DEF s
    <2>5. CreateShape(s)
      BY <1>1, <1>7, <2>1, <2>2, <2>3 DEF CreateShape, Process
    <2>6. RestoreShape(s)
      BY <2>1, <2>3 DEF RestoreShape, Restoring
    <2>7. QED
      BY <1>1, <2>1, <2>3, <2>4, <2>5, <2>6 DEF Shape
  <1>8. CASE TakeSnapshot(c)
    <2> DEFINE n == q.next
               with == [q.copy EXCEPT !.snapshots = @ \cup {Configurations[n]}]
    <2>1. /\ q.pc = "snapshots" /\ n \in 1..Len(Configurations)
          /\ q.copy.snapshots = {Configurations[i] : i \in 1..(n - 1)}
          /\ q.copy.system = "planned" /\ Len(Configurations) \in Nat
          /\ DOMAIN Configurations = 1..Len(Configurations)
      BY <1>1, <1>8, CheckpointsAssumption DEF TakeSnapshot, CreateShape, NextScope
    <2>2. /\ q.copy \in Record /\ Configurations[n] \in ToSet(Configurations)
      BY <1>1, <2>1 DEF Sane, ToSet
    <2>3. q.copy.snapshots \cup {Configurations[n]} = {Configurations[i] : i \in 1..n}
      BY <2>1
    <2>4. /\ with \in Record /\ with.system = "planned" /\ with.status = "creating"
          /\ with.history = <<>> /\ with.user = q.copy.user /\ with.include = q.copy.include
          /\ with.snapshots = {Configurations[i] : i \in 1..n}
      BY <1>2, <2>1, <2>2, <2>3 DEF Record
    <2>5. Sane(with) /\ NextScope(with) = "snapshots"
      BY <1>1, <2>4 DEF Sane, NextScope
    <2>6. CASE n < Len(Configurations)
      <3> DEFINE s == [q EXCEPT !.copy = with, !.next = n + 1]
      <3>1. Become(c, s)
        BY <1>8, <2>6 DEF TakeSnapshot
      <3> HIDE DEF with
      <3>2. /\ s \in Process /\ s.pc = "snapshots" /\ s.on = q.on /\ s.copy = with
            /\ s.next = n + 1
        <4>1. n + 1 \in Nat /\ with \in Record \cup {None}
          BY <2>1, <2>4
        <4>2. QED
          BY <1>1, <2>1, <4>1 DEF Process
      <3>3. proc'[c] = s /\ proc' = [proc EXCEPT ![c] = s]
        BY <3>1 DEF Become
      <3> HIDE DEF s
      <3>4. CreateShape(s)
        BY <2>1, <2>4, <2>5, <2>6, <3>2 DEF CreateShape
      <3>5. RestoreShape(s)
        BY <3>2 DEF RestoreShape, Restoring
      <3>6. QED
        BY <1>1, <2>5, <3>2, <3>3, <3>4, <3>5 DEF Shape, Creating
    <2>7. CASE ~(n < Len(Configurations))
      <3> DEFINE r == [with EXCEPT !.system = "captured"]
      <3>1. GoOn(c, r)
        BY <1>8, <2>7 DEF TakeSnapshot
      <3> HIDE DEF with
      <3>2. /\ r \in Record /\ r.system = "captured" /\ r.status = "creating" /\ r.history = <<>>
            /\ r.user = q.copy.user /\ r.include = q.copy.include
            /\ r.snapshots = {Configurations[i] : i \in 1..n}
        BY <2>4 DEF Record, ScopeStates
      <3>3. r.snapshots = ToSet(Configurations)
        BY <2>1, <2>7, <3>2 DEF ToSet
      <3> HIDE DEF r
      <3>4. Sane(r) /\ NextScope(r) # "snapshots"
        BY <1>1, <3>2, <3>3 DEF Sane, NextScope
      <3>5. QED
        BY <1>1, <1>3, <3>1, <3>2, <3>4 DEF GoOn
    <2>8. QED
      BY <2>6, <2>7
  <1>9. QED
    BY <1>1, <1>4, <1>5, <1>6, <1>7, <1>8

(* What a step of a restore leaves as it was. *)
Kept(q, r) ==
  /\ r \in Process /\ r.on = q.on /\ r.copy = q.copy /\ r.scope = q.scope

(* What the steps of a restore make of process c. *)
Locks(q, r) ==
  /\ q.pc \in {"lock", "apply"}
  /\ r.pc = IF q.pc = "apply" THEN "lock" ELSE IF q.scope = "user" THEN "backup" ELSE "note"
  /\ r.next = q.next /\ r.backup = q.backup /\ r.clean = q.clean

BacksUp(q, r) ==
  LET x == q.copy.include[q.next] IN
  /\ q.pc = "backup"
  /\ r.backup = Append(q.backup, [path |-> x, value |-> fs[x]])
  /\ IF q.next = Len(q.copy.include) THEN r.pc = "remove" /\ r.next = 1
     ELSE r.pc = "backup" /\ r.next = q.next + 1

Replaces(q, r) ==
  /\ r.backup = q.backup /\ r.clean = q.clean
  /\ IF q.next = Len(q.copy.include) THEN r.pc = "note" ELSE r.pc = "remove" /\ r.next = q.next + 1

Removes(q, r) ==
  /\ q.pc = "remove"
  /\ IF files[q.on][q.copy.include[q.next]] = Absent THEN Replaces(q, r)
     ELSE r.pc = "copy" /\ r.next = q.next /\ r.backup = q.backup /\ r.clean = q.clean

Fails(q, r) ==
  /\ q.pc \in {"backup", "remove", "copy"}
  /\ r.backup = q.backup /\ r.clean = q.clean /\ r.undo = Reverse(q.backup)
  /\ r.pc = IF q.backup = <<>> THEN "abort" ELSE "undo"

Undoes(q, r) ==
  /\ q.pc \in {"undo", "undo_copy"}
  /\ r.backup = q.backup
  /\ \/ q.pc = "undo" /\ r.pc = "undo_copy" /\ r.undo = q.undo /\ r.clean = q.clean
     \/ /\ r.pc = IF Len(q.undo) = 1 THEN "abort" ELSE "undo"
        /\ r.undo = Tail(q.undo) /\ (r.clean => q.clean)

(* A sequence reversed ends with what it began with. *)
LEMMA ReverseIs ==
  ASSUME NEW s \in Seq(Saved)
  PROVE  /\ Reverse(s) \in Seq(Saved) /\ Len(Reverse(s)) = Len(s)
         /\ \A j \in 1..Len(s) : Reverse(s)[j] = s[Len(s) - j + 1]
         /\ Reverse(s) = <<>> <=> s = <<>>
  <1>1. \A j \in 1..Len(s) : Len(s) - j + 1 \in 1..Len(s)
    OBVIOUS
  <1>2. Reverse(s) = [i \in 1..Len(s) |-> s[(Len(s) - i) + 1]]
    BY DEF Reverse
  <1>3. Reverse(s) \in [1..Len(s) -> Saved] /\ Len(s) \in Nat
    BY <1>1, <1>2
  <1>4. Reverse(s) \in Seq(Saved) /\ Len(Reverse(s)) = Len(s)
    BY <1>3
  <1>5. QED
    BY <1>2, <1>4

RestorePcs == {"backup", "remove", "copy", "undo", "undo_copy", "abort", "note"}

(* A process that only moves on. *)
LEMMA PcUpdate ==
  ASSUME NEW q \in Process, NEW pc \in RestorePcs, NEW r, r = [q EXCEPT !.pc = pc]
  PROVE  /\ Kept(q, r) /\ r.pc = pc /\ r.next = q.next /\ r.backup = q.backup
         /\ r.clean = q.clean
  BY DEF Kept, Process, Locked, Restoring, RestorePcs

(* The steps of a restore as they change the process. *)
LEMMA RestoreMoves ==
  ASSUME proc \in [Procs -> Process], fs \in [Paths -> FsValues], NEW c \in Procs, Shape(proc[c]),
         \/ LockRestore(c) \/ ApplySystemRestore(c) \/ BackUp(c) \/ RemoveTarget(c) \/ CopyTarget(c)
         \/ RestoreFails(c) \/ UndoRemove(c) \/ UndoCopy(c) \/ UndoFails(c)
  PROVE  /\ proc' = [proc EXCEPT ![c] = proc'[c]] /\ Kept(proc[c], proc'[c])
         /\ LockRestore(c) \/ ApplySystemRestore(c) => Locks(proc[c], proc'[c])
         /\ BackUp(c) => BacksUp(proc[c], proc'[c])
         /\ RemoveTarget(c) => Removes(proc[c], proc'[c])
         /\ CopyTarget(c) => proc[c].pc = "copy" /\ Replaces(proc[c], proc'[c])
         /\ RestoreFails(c) => Fails(proc[c], proc'[c])
         /\ UndoRemove(c) \/ UndoCopy(c) \/ UndoFails(c) => Undoes(proc[c], proc'[c])
  <1> DEFINE q == proc[c]
  <1>1. q \in Process /\ RestoreShape(q) /\ Sane(q.copy) /\ Locked \subseteq {"lock"} \cup Locked
    BY DEF Shape, LockRestore, ApplySystemRestore, BackUp, RemoveTarget, CopyTarget, RestoreFails,
           UndoRemove, UndoCopy, UndoFails
  <1>2. q.copy.include \in Seq(Paths) /\ {"backup", "remove", "copy", "undo", "undo_copy", "abort",
           "note"} \subseteq Locked
    BY <1>1, PolicyAssumption DEF Sane, Record, Locked, Restoring
  <1>3. q.backup \in Seq(Saved) /\ q.undo \in Seq(Saved) /\ q.next \in Nat /\ q.next + 1 \in Nat
    BY <1>1 DEF Process
  <1> DEFINE Step == proc' = [proc EXCEPT ![c] = proc'[c]] /\ Kept(q, proc'[c])
  <1>4. ASSUME LockRestore(c) \/ ApplySystemRestore(c) PROVE Step /\ Locks(q, proc'[c])
    <2>1. PICK pc \in {"lock", "backup", "note"} :
            /\ Become(c, [q EXCEPT !.pc = pc])
            /\ q.pc \in {"lock", "apply"}
            /\ pc = IF q.pc = "apply" THEN "lock" ELSE IF q.scope = "user" THEN "backup" ELSE "note"
      BY <1>4 DEF LockRestore, ApplySystemRestore
    <2>2. proc'[c] = [q EXCEPT !.pc = pc] /\ proc' = [proc EXCEPT ![c] = proc'[c]]
      BY <2>1 DEF Become
    <2>3. QED
      BY <1>1, <1>2, <2>1, <2>2 DEF Kept, Locks, Process
  <1>5. ASSUME BackUp(c) PROVE Step /\ BacksUp(q, proc'[c])
    <2> DEFINE x == q.copy.include[q.next]
               kept == Append(q.backup, [path |-> x, value |-> fs[x]])
    <2>1. q.pc = "backup" /\ q.next \in 1..Len(q.copy.include) /\ x \in Paths
      BY <1>1, <1>2, <1>5 DEF BackUp, RestoreShape
    <2>2. kept \in Seq(Saved)
      BY <1>3, <2>1 DEF Saved
    <2>3. /\ proc' = [proc EXCEPT ![c] = proc'[c]]
          /\ proc'[c] = IF q.next = Len(q.copy.include)
                        THEN [q EXCEPT !.backup = kept, !.pc = "remove", !.next = 1]
                        ELSE [q EXCEPT !.backup = kept, !.next = q.next + 1]
      BY <1>5 DEF BackUp, Become, LastEntry, Entry
    <2> HIDE DEF kept
    <2>4. /\ Kept(q, proc'[c]) /\ proc'[c].backup = kept
          /\ IF q.next = Len(q.copy.include) THEN proc'[c].pc = "remove" /\ proc'[c].next = 1
             ELSE proc'[c].pc = "backup" /\ proc'[c].next = q.next + 1
      <3>1. CASE q.next = Len(q.copy.include)
        <4> DEFINE r == [q EXCEPT !.backup = kept, !.pc = "remove", !.next = 1]
        <4>1. proc'[c] = r
          BY <2>3, <3>1
        <4>2. /\ r \in Process
              /\ r.on = q.on /\ r.copy = q.copy /\ r.scope = q.scope /\ r.backup = kept
              /\ r.pc = "remove" /\ r.next = 1
          BY <1>1, <1>2, <2>2 DEF Process
        <4> HIDE DEF r
        <4>3. QED
          BY <3>1, <4>1, <4>2 DEF Kept
      <3>2. CASE q.next # Len(q.copy.include)
        <4> DEFINE r == [q EXCEPT !.backup = kept, !.next = q.next + 1]
        <4>1. proc'[c] = r
          BY <2>3, <3>2
        <4>2. /\ r \in Process
              /\ r.on = q.on /\ r.copy = q.copy /\ r.scope = q.scope /\ r.backup = kept
              /\ r.pc = "backup" /\ r.next = q.next + 1
          BY <1>1, <1>3, <2>1, <2>2 DEF Process
        <4> HIDE DEF r
        <4>3. QED
          BY <3>2, <4>1, <4>2 DEF Kept
      <3>3. QED
        BY <3>1, <3>2
    <2>5. QED
      BY <2>1, <2>3, <2>4 DEF BacksUp, kept
  <1>6. ASSUME Become(c, Replaced(c)) PROVE Step /\ Replaces(q, proc'[c])
    <2>1. /\ proc' = [proc EXCEPT ![c] = proc'[c]]
          /\ proc'[c] = IF q.next = Len(q.copy.include) THEN [q EXCEPT !.pc = "note"]
                        ELSE [q EXCEPT !.pc = "remove", !.next = q.next + 1]
      BY <1>6 DEF Become, Replaced, LastEntry
    <2>2. CASE q.next = Len(q.copy.include)
      BY <1>1, <2>1, <2>2, PcUpdate DEF Replaces, RestorePcs
    <2>3. CASE q.next # Len(q.copy.include)
      <3> DEFINE r == [q EXCEPT !.pc = "remove", !.next = q.next + 1]
      <3>1. proc'[c] = r
        BY <2>1, <2>3
      <3>2. /\ r \in Process
            /\ r.on = q.on /\ r.copy = q.copy /\ r.scope = q.scope /\ r.backup = q.backup
            /\ r.pc = "remove" /\ r.next = q.next + 1 /\ r.clean = q.clean
        BY <1>1, <1>2, <1>3 DEF Process
      <3> HIDE DEF r
      <3>3. QED
        BY <2>1, <2>3, <3>1, <3>2 DEF Replaces, Kept
    <2>4. QED
      BY <2>2, <2>3
  <1>7. ASSUME RemoveTarget(c) PROVE Step /\ Removes(q, proc'[c])
    <2>1. CASE files[q.on][q.copy.include[q.next]] = Absent
      BY <1>6, <1>7, <2>1 DEF RemoveTarget, AfterRemoval, Entry, Removes
    <2>2. CASE files[q.on][q.copy.include[q.next]] # Absent
      <3>1. /\ proc' = [proc EXCEPT ![c] = proc'[c]] /\ proc'[c] = [q EXCEPT !.pc = "copy"]
            /\ q.pc = "remove"
        BY <1>7, <2>2 DEF RemoveTarget, AfterRemoval, Entry, Become
      <3>2. /\ Kept(q, proc'[c]) /\ proc'[c].pc = "copy" /\ proc'[c].next = q.next
            /\ proc'[c].backup = q.backup /\ proc'[c].clean = q.clean
        BY <1>1, <1>2, <3>1 DEF Kept, Process
      <3>3. QED
        BY <2>2, <3>1, <3>2 DEF Removes
    <2>3. QED
      BY <2>1, <2>2
  <1>8. ASSUME CopyTarget(c) PROVE Step /\ q.pc = "copy" /\ Replaces(q, proc'[c])
    BY <1>6, <1>8 DEF CopyTarget
  <1>9. ASSUME RestoreFails(c) PROVE Step /\ Fails(q, proc'[c])
    <2> DEFINE undo == Reverse(q.backup)
    <2>1. undo \in Seq(Saved) /\ (undo = <<>> <=> q.backup = <<>>)
      BY <1>3, ReverseIs
    <2>2. /\ proc' = [proc EXCEPT ![c] = proc'[c]] /\ q.pc \in {"backup", "remove", "copy"}
          /\ proc'[c] = [q EXCEPT !.undo = undo, !.pc = IF undo = <<>> THEN "abort" ELSE "undo"]
      BY <1>9 DEF RestoreFails, Undoing, Become
    <2> HIDE DEF undo
    <2>3. /\ Kept(q, proc'[c]) /\ proc'[c].undo = undo /\ proc'[c].backup = q.backup
          /\ proc'[c].clean = q.clean /\ proc'[c].pc = IF undo = <<>> THEN "abort" ELSE "undo"
      BY <1>1, <1>2, <2>1, <2>2 DEF Kept, Process
    <2>4. QED
      BY <2>1, <2>2, <2>3 DEF Fails, undo
  <1>10. ASSUME UndoRemove(c) \/ UndoCopy(c) \/ UndoFails(c)
         PROVE  Step /\ Undoes(q, proc'[c])
    <2>1. /\ q.pc \in {"undo", "undo_copy"} /\ q.undo # <<>> /\ Tail(q.undo) \in Seq(Saved)
      <3>1. q.pc \in {"undo", "undo_copy"} /\ Len(q.undo) \in 1..Len(q.backup)
        BY <1>1, <1>10 DEF UndoRemove, UndoCopy, UndoFails, RestoreShape
      <3>2. q.undo # <<>>
        BY <1>3, <3>1
      <3>3. QED
        BY <1>3, <3>1, <3>2
    <2>2. CASE q.pc = "undo" /\ Become(c, [q EXCEPT !.pc = "undo_copy"])
      <3>1. proc' = [proc EXCEPT ![c] = proc'[c]] /\ proc'[c] = [q EXCEPT !.pc = "undo_copy"]
        BY <2>2 DEF Become
      <3>2. QED
        <4>1. /\ Kept(q, proc'[c]) /\ proc'[c].pc = "undo_copy" /\ proc'[c].undo = q.undo
              /\ proc'[c].backup = q.backup /\ proc'[c].clean = q.clean
          BY <1>1, <1>2, <3>1 DEF Kept, Process
        <4>2. QED
          BY <2>1, <2>2, <3>1, <4>1 DEF Undoes
    <2>3. ASSUME NEW clean \in BOOLEAN, clean => q.clean,
                 Become(c, [q EXCEPT !.undo = Tail(q.undo), !.clean = clean,
                                     !.pc = IF Len(q.undo) = 1 THEN "abort" ELSE "undo"])
          PROVE  Step /\ Undoes(q, proc'[c])
      <3> DEFINE undo == Tail(q.undo)
                 pc == IF Len(q.undo) = 1 THEN "abort" ELSE "undo"
      <3>1. /\ proc' = [proc EXCEPT ![c] = proc'[c]]
            /\ proc'[c] = [q EXCEPT !.undo = undo, !.clean = clean, !.pc = pc]
        BY <2>3 DEF Become
      <3>2. undo \in Seq(Saved) /\ pc \in {"abort", "undo"}
        BY <2>1
      <3> HIDE DEF undo, pc
      <3>3. /\ Kept(q, proc'[c]) /\ proc'[c].pc = pc /\ proc'[c].undo = undo
            /\ proc'[c].backup = q.backup /\ proc'[c].clean = clean
        <4>1. pc \in RestorePcs /\ clean \in BOOLEAN
          BY <2>3, <3>2 DEF RestorePcs
        <4>2. QED
          BY <1>1, <3>1, <3>2, <4>1 DEF Kept, Process, Locked, Restoring, RestorePcs
      <3>4. QED
        BY <2>1, <2>3, <3>1, <3>3 DEF Undoes, undo, pc
    <2>4. CASE Become(c, AfterUndo(q))
      <3>1. AfterUndo(q) = [q EXCEPT !.undo = Tail(q.undo), !.clean = q.clean,
                                     !.pc = IF Len(q.undo) = 1 THEN "abort" ELSE "undo"]
        BY <1>1 DEF AfterUndo, Process
      <3>2. q.clean \in BOOLEAN
        BY <1>1 DEF Process
      <3>3. QED
        BY <2>3, <2>4, <3>1, <3>2
    <2>5. CASE Become(c, AfterUndo([q EXCEPT !.clean = FALSE]))
      <3>1. [q EXCEPT !.clean = FALSE].undo = q.undo
        BY <1>1 DEF Process
      <3>2. AfterUndo([q EXCEPT !.clean = FALSE]) =
              [q EXCEPT !.undo = Tail(q.undo), !.clean = FALSE,
                        !.pc = IF Len(q.undo) = 1 THEN "abort" ELSE "undo"]
        BY <1>1, <3>1 DEF AfterUndo, Process
      <3>3. QED
        BY <2>3, <2>5, <3>2
    <2>6. QED
      BY <1>10, <2>2, <2>4, <2>5 DEF UndoRemove, UndoCopy, UndoFails
  <1>11. QED
    BY <1>4, <1>5, <1>7, <1>8, <1>9, <1>10

Moves(q, r) ==
  Locks(q, r) \/ BacksUp(q, r) \/ Removes(q, r) \/ (q.pc = "copy" /\ Replaces(q, r))
  \/ Fails(q, r) \/ Undoes(q, r)

(* Every step of a restore keeps the shape of what the process holds. *)
LEMMA RestoreGoesOn ==
  ASSUME NEW q, NEW r, Shape(q), Kept(q, r), Moves(q, r)
  PROVE  Shape(r) /\ r.pc \in Held /\ q.pc \in Held /\ r.on = q.on
  <1>1. /\ q \in Process /\ RestoreShape(q) /\ q.pc \in Held /\ r.pc \in Held
        /\ r \in Process /\ r.on = q.on /\ r.copy = q.copy /\ r.scope = q.scope
    BY DEF Shape, Kept, Moves, Locks, BacksUp, Removes, Replaces, Fails, Undoes, Held, Restoring
  <1>2. q.on \in Checkpoints /\ Sane(q.copy) /\ q.copy.include \in Seq(Paths)
    BY <1>1, PolicyAssumption DEF Shape, Held, Restoring, Sane, Record
  <1>3. CreateShape(r)
    BY <1>1 DEF CreateShape, Held, Creating, Restoring
  <1>4. /\ q.backup \in Seq(Saved) /\ q.undo \in Seq(Saved) /\ Len(q.copy.include) \in Nat
        /\ Len(q.backup) \in Nat /\ Len(q.undo) \in Nat /\ q.next \in Nat
        /\ q.copy.include # <<>> => Len(q.copy.include) # 0
    BY <1>1, <1>2 DEF Process
  <1>5. RestoreShape(r)
    <2>1. CASE Locks(q, r)
      BY <1>1, <1>2, <1>4, <2>1 DEF RestoreShape, Locks, Restoring
    <2>2. CASE BacksUp(q, r)
      <3> DEFINE x == q.copy.include[q.next]
                 saved == [path |-> x, value |-> fs[x]]
      <3>1. /\ q.pc = "backup" /\ q.next \in 1..Len(q.copy.include)
            /\ Len(q.backup) = q.next - 1 /\ q.scope = "user"
            /\ \A i \in 1..Len(q.backup) : q.backup[i].path = q.copy.include[i]
        BY <1>1, <2>2 DEF BacksUp, RestoreShape, Restoring
      <3>2. r.backup = Append(q.backup, saved) /\ saved.path = x
        BY <2>2 DEF BacksUp
      <3> HIDE DEF saved
      <3>3. /\ Len(r.backup) = q.next
            /\ \A i \in 1..Len(r.backup) : r.backup[i].path = q.copy.include[i]
        BY <1>4, <3>1, <3>2
      <3>4. IF q.next = Len(q.copy.include) THEN r.pc = "remove" /\ r.next = 1
            ELSE r.pc = "backup" /\ r.next = q.next + 1
        BY <2>2 DEF BacksUp
      <3>5. q.copy.include # <<>>
        BY <1>2, <3>1
      <3>6. QED
        BY <1>1, <1>4, <3>1, <3>3, <3>4, <3>5 DEF RestoreShape, Restoring
    <2>3. CASE Removes(q, r) \/ (q.pc = "copy" /\ Replaces(q, r))
      <3>1. /\ q.pc \in {"remove", "copy"} /\ q.next \in 1..Len(q.copy.include)
            /\ Len(q.backup) = Len(q.copy.include) /\ q.scope = "user"
            /\ \A i \in 1..Len(q.backup) : q.backup[i].path = q.copy.include[i]
        BY <1>1, <2>3 DEF Removes, RestoreShape, Restoring
      <3>2. /\ r.backup = q.backup
            /\ r.pc = "note" \/ (r.pc \in {"remove", "copy"} /\ r.next \in 1..Len(q.copy.include))
        BY <1>4, <2>3, <3>1 DEF Removes, Replaces
      <3>3. q.copy.include # <<>>
        BY <1>2, <3>1
      <3>4. QED
        BY <1>1, <1>4, <3>1, <3>2, <3>3 DEF RestoreShape, Restoring
    <2>4. CASE Fails(q, r)
      <3>1. /\ Len(q.backup) <= Len(q.copy.include) /\ q.scope = "user" /\ q.copy.include # <<>>
            /\ \A i \in 1..Len(q.backup) : q.backup[i].path = q.copy.include[i]
        BY <1>1, <2>4 DEF Fails, RestoreShape, Restoring
      <3>2. /\ r.backup = q.backup /\ r.undo = Reverse(q.backup)
            /\ r.pc = IF q.backup = <<>> THEN "abort" ELSE "undo"
        BY <2>4 DEF Fails
      <3>3. /\ Len(r.undo) = Len(q.backup)
            /\ \A j \in 1..Len(r.undo) : r.undo[j] = q.backup[Len(r.undo) - j + 1]
        BY <1>4, <3>2, ReverseIs
      <3>4. r.pc = "undo" => Len(r.undo) \in 1..Len(r.backup)
        BY <1>4, <3>2, <3>3
      <3>5. QED
        BY <1>1, <1>4, <3>1, <3>2, <3>3, <3>4 DEF RestoreShape, Restoring
    <2>5. CASE Undoes(q, r)
      <3>1. /\ Len(q.backup) <= Len(q.copy.include) /\ q.scope = "user" /\ q.copy.include # <<>>
            /\ \A i \in 1..Len(q.backup) : q.backup[i].path = q.copy.include[i]
            /\ Len(q.undo) \in 1..Len(q.backup)
            /\ \A j \in 1..Len(q.undo) : q.undo[j] = q.backup[Len(q.undo) - j + 1]
        BY <1>1, <2>5 DEF Undoes, RestoreShape, Restoring
      <3>2. r.backup = q.backup /\ r.pc \in {"undo_copy", "undo", "abort"}
        BY <2>5 DEF Undoes
      <3>3. r.pc \in {"undo", "undo_copy"} =>
              /\ Len(r.undo) \in 1..Len(r.backup)
              /\ \A j \in 1..Len(r.undo) : r.undo[j] = q.backup[Len(r.undo) - j + 1]
        <4>1. CASE r.undo = q.undo
          BY <3>1, <3>2, <4>1
        <4>2. CASE r.undo = Tail(q.undo) /\ (Len(q.undo) = 1 => r.pc = "abort")
          <5>1. q.undo # <<>> /\ Len(r.undo) = Len(q.undo) - 1
                /\ \A j \in 1..Len(r.undo) : r.undo[j] = q.undo[j + 1]
            BY <1>4, <3>1, <4>2
          <5>2. \A j \in 1..Len(r.undo) : r.undo[j] = q.backup[Len(q.undo) - (j + 1) + 1]
            BY <1>4, <3>1, <5>1
          <5>3. \A j \in 1..Len(r.undo) : Len(q.undo) - (j + 1) + 1 = Len(r.undo) - j + 1
            BY <1>4, <5>1
          <5>4. \A j \in 1..Len(r.undo) : r.undo[j] = q.backup[Len(r.undo) - j + 1]
            BY <5>2, <5>3
          <5>5. r.pc # "abort" => Len(r.undo) \in 1..Len(r.backup)
            <6> SUFFICES ASSUME r.pc # "abort" PROVE Len(r.undo) \in 1..Len(r.backup)
              OBVIOUS
            <6>1. Len(q.undo) # 1 /\ r.backup = q.backup
              BY <3>2, <4>2
            <6>2. Len(r.undo) = Len(q.undo) - 1 /\ Len(q.undo) \in 1..Len(q.backup)
              BY <3>1, <5>1
            <6>3. \A m, n \in Nat : m # 1 /\ m \in 1..n => m - 1 \in 1..n
              OBVIOUS
            <6>4. Len(q.undo) \in Nat /\ Len(q.backup) \in Nat
              BY <1>4
            <6>5. Len(q.undo) - 1 \in 1..Len(q.backup)
              BY <6>1, <6>2, <6>3, <6>4, Zenon
            <6>6. QED
              BY <6>1, <6>2, <6>5
          <5>6. QED
            BY <5>4, <5>5
        <4>3. QED
          BY <2>5, <4>1, <4>2 DEF Undoes
      <3>4. QED
        BY <1>1, <1>4, <3>1, <3>2, <3>3 DEF RestoreShape, Restoring
    <2>6. QED
      BY <2>1, <2>2, <2>3, <2>4, <2>5 DEF Moves
  <1>6. QED
    BY <1>1, <1>2, <1>3, <1>5 DEF Shape

-----------------------------------------------------------------------------
(* What is on record, and who holds which lock.                            *)

Types ==
  /\ dir \in [Checkpoints -> BOOLEAN]
  /\ store \in [Checkpoints -> Record \cup {None}]
  /\ lock \in [Checkpoints -> Procs \cup {None}]
  /\ files \in [Checkpoints -> [Paths -> FsValues]]
  /\ fs \in [Paths -> FsValues]
  /\ proc \in [Procs -> Process]
  /\ disturbed \in [Procs -> SUBSET Paths]
  /\ noted \in [Checkpoints -> Nat]
  /\ commands \in 0..MaxCommands /\ trouble \in 0..MaxTrouble

Whole(r) ==
  /\ r.system # "skipped" => r.snapshots = ToSet(Configurations)
  /\ r.include # <<>> => r.user = "captured"

(* A checkpoint without a directory has nothing else, and one without a    *)
(* record was never restored.                                              *)
OnRecord(k) ==
  /\ store[k] = None => noted[k] = 0
  /\ store[k] # None => /\ Sane(store[k]) /\ Len(store[k].history) = noted[k]
                        /\ store[k].status = "ready" => Whole(store[k])
  /\ ~dir[k] => store[k] = None /\ lock[k] = None

(* What process c does fits the checkpoint it does it on. *)
Tied(c) ==
  LET k == proc[c].on IN
  /\ proc[c].pc \in Locked => lock[k] = c
  /\ proc[c].pc \in Creating => noted[k] = 0
  /\ proc[c].pc \in Held => store[k] # None

Inv ==
  /\ Types
  /\ \A k \in Checkpoints : OnRecord(k)
  /\ \A c \in Procs : Shape(proc[c]) /\ Tied(c)

(* A step of one process leaves the others their lock and their record. *)
LEMMA OthersStay ==
  ASSUME Inv, NEW c \in Procs, proc' = [proc EXCEPT ![c] = proc'[c]],
         \A k \in Checkpoints : \A e \in Procs \ {c} : lock[k] = e => lock'[k] = e,
         \A k \in Checkpoints : noted'[k] = noted[k] \/ lock[k] = c,
         \A k \in Checkpoints : store[k] # None => store'[k] # None,
         Shape(proc'[c]), Tied(c)'
  PROVE  \A e \in Procs : Shape(proc'[e]) /\ Tied(e)'
  <1> SUFFICES ASSUME NEW e \in Procs \ {c} PROVE Shape(proc'[e]) /\ Tied(e)'
    OBVIOUS
  <1>1. proc'[e] = proc[e] /\ Shape(proc[e]) /\ Tied(e)
    BY DEF Inv, Types
  <1>2. CASE proc[e].pc = "idle"
    BY <1>1, <1>2 DEF Tied, Locked, Creating, Restoring, Held
  <1>3. CASE proc[e].pc # "idle"
    <2>1. proc[e].on \in Checkpoints
      BY <1>1, <1>3 DEF Shape
    <2>2. proc[e].pc \in Creating => proc[e].pc \in Locked
      BY DEF Locked
    <2>3. QED
      BY <1>1, <2>1, <2>2 DEF Tied
  <1>4. QED
    BY <1>2, <1>3

(* What a step does to the user's configuration. *)
Touches(c) ==
  \/ UNCHANGED <<fs, disturbed>>
  \/ \E x \in Paths, v \in FsValues : SetPath(c, x, v)

LEMMA TouchesTyped ==
  ASSUME Types, NEW c, Touches(c)
  PROVE  fs' \in [Paths -> FsValues] /\ disturbed' \in [Procs -> SUBSET Paths]
  BY DEF Types, Touches, SetPath

(* The steps of a process within its command. *)
Creates(c) ==
  WriteCreating(c) \/ TakeSnapshot(c) \/ SnapshotFails(c) \/ Capture(c) \/ CaptureFails(c)

Restores(c) ==
  LockRestore(c) \/ ApplySystemRestore(c) \/ BackUp(c) \/ RemoveTarget(c) \/ CopyTarget(c)
  \/ RestoreFails(c) \/ UndoRemove(c) \/ UndoCopy(c) \/ UndoFails(c)

Begins(c) ==
  \E k \in Checkpoints :
    \/ \E system \in BOOLEAN, policy \in Policies : Create(c, k, system, policy)
    \/ OpenUserRestore(c, k) \/ OpenSystemRestore(c, k)

Ends(c) ==
  Finish(c) \/ Abort(c) \/ Note(c) \/ SystemRestoreFails(c) \/ SaveFails(c) \/ Crash(c)

LEMMA InvCreates ==
  ASSUME Inv, NEW c \in Procs, Creates(c)
  PROVE  Inv'
  <1> DEFINE q == proc[c]
             k == q.on
  <1>1. /\ Types /\ OnRecord(k) /\ Shape(q) /\ Tied(c) /\ proc \in [Procs -> Process]
    <2>1. Types /\ Shape(q) /\ Tied(c) /\ q.pc # "idle"
      BY DEF Inv, Creates, WriteCreating, TakeSnapshot, SnapshotFails, Capture, CaptureFails
    <2>2. k \in Checkpoints
      BY <2>1 DEF Shape
    <2>3. QED
      BY <2>1, <2>2 DEF Inv, Types
  <1>2. /\ proc' = [proc EXCEPT ![c] = proc'[c]] /\ Shape(proc'[c])
        /\ q.pc \in Creating /\ proc'[c].pc \in Creating /\ proc'[c].on = k
    BY <1>1, CreateGoesOn DEF Creates
  <1>3. /\ UNCHANGED <<dir, lock, fs, disturbed, noted, commands>>
        /\ k \in Checkpoints /\ Sane(q.copy) /\ proc'[c] \in Process
        /\ lock[k] = c /\ noted[k] = 0 /\ dir[k]
    <2>1. UNCHANGED <<dir, lock, fs, disturbed, noted, commands>>
      BY DEF Creates, WriteCreating, TakeSnapshot, SnapshotFails, Capture, CaptureFails
    <2>2. k \in Checkpoints /\ Sane(q.copy) /\ proc'[c] \in Process
      BY <1>1, <1>2 DEF Shape, Creating
    <2>3. lock[k] = c /\ noted[k] = 0
      BY <1>1, <1>2 DEF Tied, Locked
    <2>4. dir[k]
      BY <1>1, <2>2, <2>3, CheckpointsAssumption DEF OnRecord
    <2>5. QED
      BY <2>1, <2>2, <2>3, <2>4
  <1>4. trouble' \in 0..MaxTrouble
    <2>1. trouble' = trouble \/ (trouble < MaxTrouble /\ trouble' = trouble + 1)
      BY DEF Creates, WriteCreating, TakeSnapshot, SnapshotFails, Capture, CaptureFails, Trouble
    <2>2. QED
      BY <1>1, <2>1, CheckpointsAssumption DEF Types
  <1>5. \/ UNCHANGED store
        \/ store' = [store EXCEPT ![k] = q.copy] /\ q.copy.status = "creating"
           /\ q.copy.history = <<>>
    <2>1. CASE WriteCreating(c)
      BY <1>1, <1>2, <2>1 DEF WriteCreating, Save, Shape, CreateShape
    <2>2. CASE ~WriteCreating(c)
      BY <2>2 DEF Creates, TakeSnapshot, SnapshotFails, Capture, CaptureFails
    <2>3. QED
      BY <2>1, <2>2
  <1>6. files' \in [Checkpoints -> [Paths -> FsValues]]
    <2>1. CASE Capture(c)
      <3>1. q.pc = "capture" /\ q.copy.include \in Seq(Paths) /\ q.next \in 1..Len(q.copy.include)
        BY <1>1, <1>3, <2>1, PolicyAssumption
        DEF Capture, Shape, CreateShape, Creating, Sane, Record
      <3>2. q.copy.include[q.next] \in Paths
        BY <3>1
      <3>3. files' = [files EXCEPT ![k][q.copy.include[q.next]] = fs[q.copy.include[q.next]]]
        BY <2>1 DEF Capture
      <3>4. QED
        BY <1>1, <1>3, <3>2, <3>3 DEF Types
    <2>2. CASE ~Capture(c)
      BY <1>1, <2>2 DEF Types, Creates, WriteCreating, TakeSnapshot, SnapshotFails, CaptureFails
    <2>3. QED
      BY <2>1, <2>2
  <1>7. Types'
    <2>1. store' \in [Checkpoints -> Record \cup {None}]
      BY <1>1, <1>3, <1>5 DEF Types, Sane
    <2>2. proc' \in [Procs -> Process]
      BY <1>1, <1>2, <1>3
    <2>3. QED
      BY <1>1, <1>3, <1>4, <1>6, <2>1, <2>2 DEF Types
  <1>8. ASSUME NEW j \in Checkpoints PROVE OnRecord(j)'
    <2>1. OnRecord(j)
      BY DEF Inv
    <2>2. CASE store'[j] = store[j]
      BY <1>3, <2>1, <2>2 DEF OnRecord
    <2>3. CASE store'[j] # store[j]
      <3>1. j = k /\ store'[j] = q.copy /\ q.copy.status = "creating" /\ q.copy.history = <<>>
        BY <1>1, <1>5, <2>3 DEF Types
      <3>2. Len(q.copy.history) = 0 /\ q.copy # None
        <4>1. Len(<<>>) = 0
          OBVIOUS
        <4>2. q.copy # None
          BY <1>3, RecordAssumption DEF Sane
        <4>3. QED
          BY <3>1, <4>1, <4>2
      <3>3. QED
        BY <1>3, <3>1, <3>2 DEF OnRecord
    <2>4. QED
      BY <2>2, <2>3
  <1>9. Tied(c)'
    BY <1>2, <1>3 DEF Tied, Creating, Held, Restoring
  <1>10. \A j \in Checkpoints : store[j] # None => store'[j] # None
    BY <1>1, <1>3, <1>5, RecordAssumption DEF Types, Sane
  <1>11. \A e \in Procs : Shape(proc'[e]) /\ Tied(e)'
    BY <1>2, <1>3, <1>9, <1>10, OthersStay
  <1>12. QED
    BY <1>7, <1>8, <1>11 DEF Inv

LEMMA InvRestores ==
  ASSUME Inv, NEW c \in Procs, Restores(c)
  PROVE  Inv' /\ Touches(c)
  <1> DEFINE q == proc[c]
             k == q.on
  <1>1. Types /\ Shape(q) /\ Tied(c) /\ k \in Checkpoints /\ OnRecord(k)
    <2>1. q.pc # "idle"
      BY DEF Restores, LockRestore, ApplySystemRestore, BackUp, RemoveTarget, CopyTarget,
             RestoreFails, UndoRemove, UndoCopy, UndoFails
    <2>2. QED
      BY <2>1 DEF Inv, Shape
  <1>2. proc' = [proc EXCEPT ![c] = proc'[c]] /\ Kept(q, proc'[c]) /\ Moves(q, proc'[c])
    BY <1>1, RestoreMoves DEF Types, Restores, Moves
  <1>3. /\ Shape(proc'[c]) /\ proc'[c].pc \in Held /\ q.pc \in Held /\ proc'[c].on = k
        /\ proc'[c] \in Process
    BY <1>1, <1>2, RestoreGoesOn DEF Kept
  <1>4. /\ UNCHANGED <<dir, store, files, noted, commands>>
        /\ UNCHANGED lock \/ (LockRestore(c) /\ lock[k] = None /\ lock' = [lock EXCEPT ![k] = c])
        /\ trouble' = trouble \/ (trouble < MaxTrouble /\ trouble' = trouble + 1)
    BY DEF Restores, LockRestore, ApplySystemRestore, BackUp, RemoveTarget, CopyTarget,
           RestoreFails, UndoRemove, UndoCopy, UndoFails, LockFree, Trouble
  <1>5. Touches(c)
    <2>1. CASE RemoveTarget(c) \/ CopyTarget(c) \/ RestoreFails(c)
      <3>1. CASE q.pc = "backup"
        BY <2>1, <3>1 DEF Touches, RemoveTarget, CopyTarget, RestoreFails
      <3>2. CASE q.pc # "backup"
        <4>1. /\ q.pc \in {"remove", "copy"} /\ q.copy.include \in Seq(Paths)
              /\ q.next \in 1..Len(q.copy.include)
          BY <1>1, <2>1, <3>2, PolicyAssumption
          DEF RemoveTarget, CopyTarget, RestoreFails, Shape, RestoreShape, Sane, Record
        <4>2. Entry(c) \in Paths
          BY <4>1 DEF Entry
        <4>3. fs[Entry(c)] \in FsValues /\ files[k][Entry(c)] \in FsValues
              /\ Absent \in FsValues /\ Torn \in FsValues
          BY <1>1, <4>2 DEF Types, FsValues
        <4>4. \E v \in FsValues : SetPath(c, Entry(c), v)
          BY <2>1, <4>1, <4>3 DEF RemoveTarget, CopyTarget, RestoreFails
        <4>5. QED
          BY <4>2, <4>4 DEF Touches
      <3>3. QED
        BY <3>1, <3>2
    <2>2. CASE UndoRemove(c) \/ UndoCopy(c) \/ UndoFails(c)
      <3> DEFINE saved == Head(q.undo)
      <3>1. q.pc \in {"undo", "undo_copy"} /\ q.undo \in Seq(Saved) /\ q.backup \in Seq(Saved)
            /\ Len(q.undo) \in 1..Len(q.backup)
        BY <1>1, <2>2 DEF UndoRemove, UndoCopy, UndoFails, Shape, RestoreShape, Process
      <3>2. q.undo # <<>> /\ saved \in Saved
        BY <3>1
      <3>3. saved.path \in Paths /\ saved.value \in FsValues
        BY <3>2 DEF Saved
      <3>4. /\ fs[saved.path] \in FsValues /\ Absent \in FsValues /\ Torn \in FsValues
        BY <1>1, <3>3 DEF Types, FsValues
      <3>5. \E v \in FsValues : SetPath(c, saved.path, v)
        BY <2>2, <3>3, <3>4 DEF UndoRemove, UndoCopy, UndoFails
      <3>6. QED
        BY <3>3, <3>5 DEF Touches
    <2>3. CASE LockRestore(c) \/ ApplySystemRestore(c) \/ BackUp(c)
      BY <2>3 DEF Touches, LockRestore, ApplySystemRestore, BackUp
    <2>4. QED
      BY <2>1, <2>2, <2>3 DEF Restores
  <1>6. Types'
    <2>1. fs' \in [Paths -> FsValues] /\ disturbed' \in [Procs -> SUBSET Paths]
      BY <1>1, <1>5, TouchesTyped
    <2>2. proc' \in [Procs -> Process]
      BY <1>1, <1>2, <1>3 DEF Types
    <2>3. lock' \in [Checkpoints -> Procs \cup {None}]
      BY <1>1, <1>4 DEF Types
    <2>4. trouble' \in 0..MaxTrouble
      BY <1>1, <1>4, CheckpointsAssumption DEF Types
    <2>5. QED
      BY <1>1, <1>4, <2>1, <2>2, <2>3, <2>4 DEF Types
  <1>7. store[k] # None /\ dir[k]
    BY <1>1, <1>3 DEF Tied, OnRecord
  <1>8. ASSUME NEW j \in Checkpoints PROVE OnRecord(j)'
    <2>1. OnRecord(j)
      BY DEF Inv
    <2>2. dir[j] \/ lock'[j] = lock[j]
      BY <1>1, <1>4, <1>7 DEF Types
    <2>3. QED
      BY <1>4, <2>1, <2>2 DEF OnRecord
  <1>9. Tied(c)'
    <2>1. proc'[c].pc \in Locked => lock'[k] = c
      <3>1. CASE LockRestore(c)
        BY <1>1, <3>1 DEF LockRestore, Types
      <3>2. CASE q.pc \in Locked
        BY <1>1, <1>4, <3>2 DEF Tied, LockRestore, Locked, Creating, Restoring
      <3>3. CASE ApplySystemRestore(c)
        <4>1. proc'[c].pc = "lock"
          BY <1>1, <3>3, RestoreMoves DEF Types, ApplySystemRestore, Locks
        <4>2. QED
          BY <4>1 DEF Locked, Creating, Restoring
      <3>4. QED
        BY <1>3, <3>1, <3>2, <3>3
        DEF Restores, BackUp, RemoveTarget, CopyTarget,
            RestoreFails, UndoRemove, UndoCopy, UndoFails, Locked, Restoring
    <2>2. proc'[c].pc \notin Creating
      BY <1>3 DEF Held, Creating, Restoring
    <2>3. QED
      BY <1>3, <1>4, <1>7, <2>1, <2>2 DEF Tied
  <1>10. \A e \in Procs : Shape(proc'[e]) /\ Tied(e)'
    <2>1. \A j \in Checkpoints : \A e \in Procs \ {c} : lock[j] = e => lock'[j] = e
      BY <1>1, <1>4, CheckpointsAssumption DEF Types
    <2>2. QED
      BY <1>2, <1>3, <1>4, <1>9, <2>1, OthersStay
  <1>11. QED
    BY <1>5, <1>6, <1>8, <1>10 DEF Inv

LEMMA InvBegins ==
  ASSUME Inv, NEW c \in Procs, Begins(c)
  PROVE  Inv'
  <1>1. /\ Types /\ proc \in [Procs -> Process]
        /\ UNCHANGED <<store, files, fs, noted, trouble>>
        /\ commands' \in 0..MaxCommands /\ disturbed' \in [Procs -> SUBSET Paths]
    <2>1. Types
      BY DEF Inv
    <2>2. /\ UNCHANGED <<store, files, fs, noted, trouble>> /\ Began(c)
      BY DEF Begins, Create, OpenUserRestore, OpenSystemRestore
    <2>3. commands' \in 0..MaxCommands
      BY <2>1, <2>2, CheckpointsAssumption DEF Types, Began
    <2>4. disturbed' \in [Procs -> SUBSET Paths]
      BY <2>1, <2>2 DEF Types, Began
    <2>5. QED
      BY <2>1, <2>2, <2>3, <2>4 DEF Types
  <1>2. ASSUME NEW k \in Checkpoints, NEW system \in BOOLEAN, NEW policy \in Policies,
               Create(c, k, system, policy)
        PROVE  Inv'
    <2> DEFINE r == NewRecord(system, policy)
               q == [Idle EXCEPT !.pc = "claimed", !.on = k, !.copy = r]
    <2>1. Shape(q) /\ q.pc = "claimed" /\ q.on = k
      <3>1. Shape(q)
        BY NewRecordIs, CreateShapes
      <3>2. q.pc = "claimed" /\ q.on = k
        BY DEF Idle
      <3>3. QED
        BY <3>1, <3>2
    <2>2. /\ dir' = [dir EXCEPT ![k] = TRUE] /\ lock' = [lock EXCEPT ![k] = c] /\ ~dir[k]
          /\ proc' = [proc EXCEPT ![c] = q] /\ proc'[c] = q
      BY <1>1, <1>2 DEF Create, Become
    <2> HIDE DEF q
    <2>3. OnRecord(k) /\ store[k] = None /\ lock[k] = None /\ noted[k] = 0
      BY <2>2 DEF Inv, OnRecord
    <2>4. Types'
      <3>1. q \in Process
        BY <2>1 DEF Shape
      <3>2. QED
        BY <1>1, <2>2, <3>1 DEF Types
    <2>5. \A j \in Checkpoints : OnRecord(j)'
      BY <1>1, <2>2 DEF Inv, Types, OnRecord
    <2>6. Tied(c)'
      BY <1>1, <2>1, <2>2, <2>3 DEF Tied, Types, Held, Restoring
    <2>7. \A j \in Checkpoints : \A e \in Procs \ {c} : lock[j] = e => lock'[j] = e
      BY <1>1, <2>2, <2>3, CheckpointsAssumption DEF Types
    <2>8. proc' = [proc EXCEPT ![c] = proc'[c]] /\ Shape(proc'[c])
      BY <2>1, <2>2
    <2>9. \A e \in Procs : Shape(proc'[e]) /\ Tied(e)'
      BY <1>1, <2>6, <2>7, <2>8, OthersStay
    <2>10. QED
      BY <2>4, <2>5, <2>9 DEF Inv
  <1>3. ASSUME NEW k \in Checkpoints, OpenUserRestore(c, k) \/ OpenSystemRestore(c, k)
        PROVE  Inv'
    <2>1. /\ store[k] # None /\ Sane(store[k]) /\ UNCHANGED <<dir, lock>>
      BY <1>3 DEF Inv, OnRecord, OpenUserRestore, OpenSystemRestore
    <2>2. PICK q : /\ Shape(q) /\ q.pc \in {"lock", "apply"} /\ q.on = k
                   /\ proc' = [proc EXCEPT ![c] = q]
      <3>1. CASE OpenUserRestore(c, k)
        <4> DEFINE q == [Idle EXCEPT !.pc = "lock", !.on = k, !.copy = store[k]]
        <4>1. Shape(q)
          BY <2>1, <3>1, OpenShapes DEF OpenUserRestore
        <4>2. q.pc = "lock" /\ q.on = k
          BY DEF Idle
        <4>3. proc' = [proc EXCEPT ![c] = q]
          BY <3>1 DEF OpenUserRestore, Become
        <4>4. QED
          BY <4>1, <4>2, <4>3
      <3>2. CASE OpenSystemRestore(c, k)
        <4> DEFINE q == [Idle EXCEPT !.pc = "apply", !.on = k, !.copy = store[k], !.scope = "system"]
        <4>1. Shape(q)
          BY <2>1, OpenShapes
        <4>2. q.pc = "apply" /\ q.on = k
          BY DEF Idle
        <4>3. proc' = [proc EXCEPT ![c] = q]
          BY <3>2 DEF OpenSystemRestore, Become
        <4>4. QED
          BY <4>1, <4>2, <4>3
      <3>3. QED
        BY <1>3, <3>1, <3>2
    <2>3. proc'[c] = q /\ proc' = [proc EXCEPT ![c] = proc'[c]] /\ q \in Process
      BY <1>1, <2>2 DEF Shape
    <2>4. Types'
      BY <1>1, <2>1, <2>2, <2>3 DEF Types
    <2>5. \A j \in Checkpoints : OnRecord(j)'
      BY <1>1, <2>1 DEF Inv, OnRecord
    <2>6. Tied(c)'
      BY <1>1, <2>1, <2>2, <2>3 DEF Tied, Locked, Creating, Restoring
    <2>7. \A e \in Procs : Shape(proc'[e]) /\ Tied(e)'
      BY <1>1, <2>1, <2>2, <2>3, <2>6, OthersStay
    <2>8. QED
      BY <2>4, <2>5, <2>7 DEF Inv
  <1>4. QED
    BY <1>2, <1>3 DEF Begins

(* The record that a finished command leaves: whole, when it is ready. *)
LEMMA FinishedIs ==
  ASSUME NEW r, Sane(r), NextScope(r) = "finish"
  PROVE  LET s == [r EXCEPT !.status = FinalStatus(r)] IN
         Sane(s) /\ s.history = r.history /\ (s.status = "ready" => Whole(s))
  <1> DEFINE s == [r EXCEPT !.status = FinalStatus(r)]
  <1>1. FinalStatus(r) \in {"ready", "partial", "failed"}
    BY DEF FinalStatus
  <1>2. /\ s \in Record /\ s.status = FinalStatus(r) /\ s.system = r.system /\ s.user = r.user
        /\ s.include = r.include /\ s.snapshots = r.snapshots /\ s.history = r.history
    BY <1>1 DEF Sane, Record
  <1> HIDE DEF s
  <1>3. Sane(s)
    BY <1>2 DEF Sane
  <1>4. r.system # "planned" /\ r.user # "planned"
    BY DEF NextScope
  <1>5. s.status = "ready" => r.system # "failed" /\ r.user # "failed"
    BY <1>2 DEF FinalStatus
  <1>6. s.status = "ready" => Whole(s)
    BY <1>2, <1>3, <1>4, <1>5 DEF Whole, Sane, Record, ScopeStates
  <1>7. QED
    BY <1>2, <1>3, <1>6 DEF s

(* The record with one more entry in its history. *)
LEMMA NotedIs ==
  ASSUME NEW r, Sane(r), NEW scope \in {"system", "user"}
  PROVE  LET s == [r EXCEPT !.history = Append(@, scope)] IN
         /\ Sane(s) /\ Len(s.history) = Len(r.history) + 1 /\ s.status = r.status
         /\ Whole(r) => Whole(s)
  <1> DEFINE s == [r EXCEPT !.history = Append(@, scope)]
  <1>1. r \in Record /\ r.history \in Seq({"user", "system"})
    BY DEF Sane, Record
  <1>2. /\ Append(r.history, scope) \in Seq({"system", "user"})
        /\ Len(Append(r.history, scope)) = Len(r.history) + 1
    BY <1>1
  <1>3. /\ s \in Record /\ s.status = r.status /\ s.system = r.system /\ s.user = r.user
        /\ s.include = r.include /\ s.snapshots = r.snapshots
        /\ s.history = Append(r.history, scope)
    BY <1>1, <1>2 DEF Record
  <1> HIDE DEF s
  <1>4. Sane(s) /\ (Whole(r) => Whole(s))
    BY <1>3 DEF Sane, Whole
  <1>5. QED
    BY <1>2, <1>3, <1>4 DEF s

LEMMA InvEnds ==
  ASSUME Inv, NEW c \in Procs, Ends(c)
  PROVE  Inv' /\ Touches(c)
  <1> DEFINE q == proc[c]
             k == q.on
  <1>1. Types /\ Shape(q) /\ Tied(c) /\ k \in Checkpoints /\ OnRecord(k)
    <2>1. q.pc # "idle"
      BY DEF Ends, Finish, Abort, Note, SystemRestoreFails, SaveFails, Crash
    <2>2. QED
      BY <2>1 DEF Inv, Shape
  <1>2. /\ proc' = [proc EXCEPT ![c] = Idle] /\ proc'[c] = Idle
        /\ UNCHANGED <<dir, files, commands>>
        /\ lock' = [j \in Checkpoints |-> IF lock[j] = c THEN None ELSE lock[j]] \/ UNCHANGED lock
        /\ trouble' = trouble \/ (trouble < MaxTrouble /\ trouble' = trouble + 1)
    BY <1>1 DEF Types, Ends, Finish, Abort, Note, SystemRestoreFails, SaveFails, Crash, Release, Become,
                Trouble
  <1>3. Touches(c)
    <2>1. CASE UNCHANGED <<fs, disturbed>>
      BY <2>1 DEF Touches
    <2>2. ASSUME NEW x \in AtWork(c), SetPath(c, x, Torn) PROVE Touches(c)
      <3>1. CASE q.pc \in {"remove", "copy"}
        <4>1. q.copy.include \in Seq(Paths) /\ q.next \in 1..Len(q.copy.include)
          BY <1>1, <3>1, PolicyAssumption DEF Shape, RestoreShape, Sane, Record
        <4>2. x \in Paths
          BY <2>2, <3>1, <4>1 DEF AtWork, Entry
        <4>3. QED
          BY <2>2, <4>2 DEF Touches, FsValues
      <3>2. CASE q.pc \in {"undo", "undo_copy"}
        <4>1. q.undo \in Seq(Saved) /\ q.backup \in Seq(Saved) /\ Len(q.undo) \in 1..Len(q.backup)
          BY <1>1, <3>2 DEF Shape, RestoreShape, Process
        <4>2. q.undo # <<>> /\ Head(q.undo) \in Saved
          BY <4>1
        <4>3. x \in Paths
          BY <2>2, <3>2, <4>2 DEF AtWork, Saved
        <4>4. QED
          BY <2>2, <4>3 DEF Touches, FsValues
      <3>3. QED
        BY <2>2, <3>1, <3>2 DEF AtWork
    <2>3. QED
      BY <2>1, <2>2 DEF Ends, Finish, Abort, Note, SystemRestoreFails, SaveFails, Crash
  <1>4. \/ UNCHANGED <<store, noted>>
        \/ Finish(c)
        \/ Note(c)
    BY DEF Ends, Abort, SystemRestoreFails, SaveFails, Crash
  <1>5. /\ store' \in [Checkpoints -> Record \cup {None}] /\ noted' \in [Checkpoints -> Nat]
        /\ \A j \in Checkpoints : noted'[j] = noted[j] \/ lock[j] = c
        /\ \A j \in Checkpoints : store[j] # None => store'[j] # None
        /\ \A j \in Checkpoints : OnRecord(j)'
    <2>1. ASSUME NEW r, NEW n, store' = [store EXCEPT ![k] = r], noted' = [noted EXCEPT ![k] = n],
                 Sane(r), n \in Nat, Len(r.history) = n, r.status = "ready" => Whole(r),
                 n = noted[k] \/ lock[k] = c, dir[k]
          PROVE  /\ store' \in [Checkpoints -> Record \cup {None}] /\ noted' \in [Checkpoints -> Nat]
                 /\ \A j \in Checkpoints : noted'[j] = noted[j] \/ lock[j] = c
                 /\ \A j \in Checkpoints : store[j] # None => store'[j] # None
                 /\ \A j \in Checkpoints : OnRecord(j)'
      <3>1. r \in Record /\ r # None
        BY <2>1, RecordAssumption DEF Sane
      <3>2. store' \in [Checkpoints -> Record \cup {None}] /\ noted' \in [Checkpoints -> Nat]
        BY <1>1, <2>1, <3>1 DEF Types
      <3>3. \A j \in Checkpoints : noted'[j] = noted[j] \/ lock[j] = c
        BY <1>1, <2>1 DEF Types
      <3>4. \A j \in Checkpoints : store[j] # None => store'[j] # None
        BY <1>1, <2>1, <3>1 DEF Types
      <3>5. ASSUME NEW j \in Checkpoints PROVE OnRecord(j)'
        <4>1. CASE j = k
          BY <1>1, <1>2, <2>1, <3>1, <4>1 DEF OnRecord, Types
        <4>2. CASE j # k
          <5>1. OnRecord(j) /\ store'[j] = store[j] /\ noted'[j] = noted[j]
            BY <1>1, <2>1, <4>2 DEF Inv, Types
          <5>2. lock[j] = None => lock'[j] = None
            BY <1>2
          <5>3. QED
            BY <1>2, <5>1, <5>2 DEF OnRecord
        <4>3. QED
          BY <4>1, <4>2
      <3>6. QED
        BY <3>2, <3>3, <3>4, <3>5
    <2>2. CASE UNCHANGED <<store, noted>>
      <3>1. ASSUME NEW j \in Checkpoints PROVE OnRecord(j)'
        <4>1. OnRecord(j)
          BY DEF Inv
        <4>2. lock[j] = None => lock'[j] = None
          BY <1>2
        <4>3. QED
          BY <1>2, <2>2, <4>1, <4>2 DEF OnRecord
      <3>2. QED
        BY <1>1, <2>2, <3>1 DEF Types
    <2>3. CASE Finish(c)
      <3> DEFINE r == [q.copy EXCEPT !.status = FinalStatus(q.copy)]
      <3>1. q.pc = "finish" /\ Sane(q.copy) /\ q.copy.history = <<>> /\ NextScope(q.copy) = "finish"
        BY <1>1, <2>3 DEF Finish, Shape, CreateShape, Creating
      <3>2. Sane(r) /\ r.history = <<>> /\ (r.status = "ready" => Whole(r))
        BY <3>1, FinishedIs
      <3>3. noted[k] = 0 /\ lock[k] = c /\ dir[k]
        BY <1>1, <3>1, CheckpointsAssumption DEF Tied, Locked, Creating, OnRecord
      <3>4. store' = [store EXCEPT ![k] = r] /\ noted' = [noted EXCEPT ![k] = 0]
        BY <1>1, <2>3, <3>3 DEF Finish, Save, Types
      <3> HIDE DEF r
      <3>5. Len(r.history) = 0
        BY <3>2
      <3>6. QED
        BY <2>1, <3>2, <3>3, <3>4, <3>5
    <2>4. CASE Note(c)
      <3> DEFINE r == [store[k] EXCEPT !.history = Append(@, q.scope)]
      <3>1. /\ q.pc = "note" /\ q.scope \in {"system", "user"}
            /\ store' = [store EXCEPT ![k] = r] /\ noted' = [noted EXCEPT ![k] = noted[k] + 1]
        BY <1>1, <2>4 DEF Note, Save, Shape, Process
      <3>2. store[k] # None /\ lock[k] = c
        BY <1>1, <3>1 DEF Tied, Locked, Held
      <3>3. /\ Sane(store[k]) /\ Len(store[k].history) = noted[k] /\ noted[k] \in Nat /\ dir[k]
            /\ store[k].status = "ready" => Whole(store[k])
        BY <1>1, <3>2 DEF OnRecord, Types
      <3>4. /\ Sane(r) /\ Len(r.history) = Len(store[k].history) + 1 /\ r.status = store[k].status
            /\ Whole(store[k]) => Whole(r)
        BY <3>1, <3>3, NotedIs
      <3> HIDE DEF r
      <3>5. Len(r.history) = noted[k] + 1 /\ noted[k] + 1 \in Nat
        BY <3>3, <3>4
      <3>6. QED
        BY <2>1, <3>1, <3>2, <3>3, <3>4, <3>5
    <2>5. QED
      BY <1>4, <2>2, <2>3, <2>4
  <1>6. Types'
    <2>1. fs' \in [Paths -> FsValues] /\ disturbed' \in [Procs -> SUBSET Paths]
      BY <1>1, <1>3, TouchesTyped
    <2>2. proc' \in [Procs -> Process] /\ lock' \in [Checkpoints -> Procs \cup {None}]
      BY <1>1, <1>2, IdleShape DEF Types, Shape
    <2>3. trouble' \in 0..MaxTrouble
      BY <1>1, <1>2, CheckpointsAssumption DEF Types
    <2>4. QED
      BY <1>1, <1>2, <1>5, <2>1, <2>2, <2>3 DEF Types
  <1>7. \A e \in Procs : Shape(proc'[e]) /\ Tied(e)'
    <2>1. proc'[c].pc = "idle" /\ Shape(proc'[c])
      BY <1>2, IdleShape
    <2>2. Tied(c)'
      BY <2>1 DEF Tied, Locked, Creating, Restoring, Held
    <2>3. \A j \in Checkpoints : \A e \in Procs \ {c} : lock[j] = e => lock'[j] = e
      BY <1>2
    <2>4. proc' = [proc EXCEPT ![c] = proc'[c]]
      BY <1>2
    <2>5. QED
      BY <1>5, <2>1, <2>2, <2>3, <2>4, OthersStay
  <1>8. QED
    BY <1>3, <1>5, <1>6, <1>7 DEF Inv

LEMMA InvEdit ==
  ASSUME Inv, NEW x \in Paths, NEW v \in Contents \cup {Absent}, EditFile(x, v)
  PROVE  Inv'
  <1>1. Types /\ UNCHANGED <<dir, store, lock, files, proc, noted, commands>> /\ Touches(None)
    BY DEF Inv, EditFile, Touches, FsValues
  <1>2. fs' \in [Paths -> FsValues] /\ disturbed' \in [Procs -> SUBSET Paths]
    BY <1>1, TouchesTyped
  <1>3. trouble' \in 0..MaxTrouble
    BY <1>1, CheckpointsAssumption DEF Types, EditFile, Trouble
  <1>4. Types'
    BY <1>1, <1>2, <1>3 DEF Types
  <1>5. QED
    BY <1>1, <1>4 DEF Inv, OnRecord, Tied

LEMMA InvInit ==
  ASSUME Init
  PROVE  Inv
  <1>1. Types
    BY CheckpointsAssumption, IdleShape DEF Init, Types, FsValues, Shape
  <1>2. \A k \in Checkpoints : OnRecord(k)
    BY DEF Init, OnRecord
  <1>3. \A c \in Procs : proc[c] = Idle
    BY DEF Init
  <1>4. \A c \in Procs : Shape(proc[c]) /\ Tied(c)
    BY <1>3, IdleShape DEF Tied, Locked, Creating, Restoring, Held
  <1>5. QED
    BY <1>1, <1>2, <1>4 DEF Inv

LEMMA NextIs ==
  ASSUME Next
  PROVE  \/ \E c \in Procs : Begins(c) \/ Creates(c) \/ Restores(c) \/ Ends(c)
         \/ \E x \in Paths, v \in Contents \cup {Absent} : EditFile(x, v)
  BY DEF Next, Begins, Creates, Restores, Ends

LEMMA InvStep ==
  ASSUME Inv, [Next]_vars
  PROVE  Inv'
  <1>1. CASE UNCHANGED vars
    BY <1>1 DEF vars, Inv, Types, OnRecord, Tied
  <1>2. ASSUME NEW c \in Procs, Begins(c) \/ Creates(c) \/ Restores(c) \/ Ends(c) PROVE Inv'
    BY <1>2, InvBegins, InvCreates, InvRestores, InvEnds
  <1>3. ASSUME NEW x \in Paths, NEW v \in Contents \cup {Absent}, EditFile(x, v) PROVE Inv'
    BY <1>3, InvEdit
  <1>4. QED
    BY <1>1, <1>2, <1>3, NextIs

THEOREM Invariance == Spec => []Inv
  <1>1. Init => Inv
    BY InvInit
  <1>2. Inv /\ [Next]_vars => Inv'
    BY InvStep
  <1>3. QED
    BY <1>1, <1>2, PTL DEF Spec

(* The variables have their types, a command within store.lock holds the   *)
(* lock, and the rollback's loop stays within what it has to undo.         *)
THEOREM TypeCorrect == Spec => []TypeOK
  <1>1. Inv => TypeOK
    <2> SUFFICES ASSUME Inv PROVE TypeOK
      OBVIOUS
    <2>1. ASSUME NEW c \in Procs
          PROVE  /\ proc[c].pc \in Locked => lock[proc[c].on] = c
                 /\ proc[c].pc \in {"undo", "undo_copy"} => proc[c].undo # <<>>
      <3>1. Shape(proc[c]) /\ Tied(c)
        BY DEF Inv
      <3>2. proc[c].pc \in {"undo", "undo_copy"} =>
              Len(proc[c].undo) \in 1..Len(proc[c].backup) /\ proc[c].backup \in Seq(Saved)
        BY <3>1 DEF Shape, RestoreShape, Process
      <3>3. proc[c].undo = <<>> => Len(proc[c].undo) = 0
        OBVIOUS
      <3>4. QED
        BY <3>1, <3>2, <3>3 DEF Tied
    <2>2. QED
      BY <2>1 DEF Inv, Types, TypeOK
  <1>2. QED
    BY <1>1, Invariance, PTL

(* Every restore that was put on record has its entry in the history,      *)
(* however many restore the same checkpoint at the same time.              *)
THEOREM HistoryIsAlwaysComplete == Spec => []HistoryIsComplete
  <1>1. Inv => HistoryIsComplete
    BY DEF Inv, OnRecord, HistoryIsComplete
  <1>2. QED
    BY <1>1, Invariance, PTL

(* A ready checkpoint has every snapshot and every path it was asked for.  *)
THEOREM ReadyIsAlwaysWhole == Spec => []ReadyIsWhole
  <1>1. Inv => ReadyIsWhole
    BY DEF Inv, OnRecord, ReadyIsWhole, Whole
  <1>2. QED
    BY <1>1, Invariance, PTL

-----------------------------------------------------------------------------
(* What a restore does to the user's configuration.                        *)

(* Entry i of the policy of q is one of S in f, or was changed by others.  *)
At(q, f, D, i, S) ==
  f[q.copy.include[i]] \in S \/ q.copy.include[i] \in D

BackupOf(q, i) == {q.backup[i].value}

CapturedOf(q, F, i) == {F[q.copy.include[i]]}

(* With copies F in the checkpoint, configuration f and D changed by       *)
(* others: what is not yet replaced is as in the backup, what is replaced  *)
(* is as it was captured, and what is undone is as in the backup again.    *)
Good(q, F, f, D) ==
  /\ q.pc = "backup" =>
       \A i \in 1..Len(q.backup) : At(q, f, D, i, BackupOf(q, i))
  /\ q.pc \in {"remove", "copy"} =>
       \A i \in 1..Len(q.copy.include) :
         /\ i < q.next => At(q, f, D, i, CapturedOf(q, F, i))
         /\ i > q.next => At(q, f, D, i, BackupOf(q, i))
         /\ i = q.next => At(q, f, D, i, IF q.pc = "remove" THEN BackupOf(q, i) ELSE {Absent})
  /\ q.pc = "note" /\ q.scope = "user" =>
       \A i \in 1..Len(q.copy.include) : At(q, f, D, i, CapturedOf(q, F, i))
  /\ q.pc \in {"undo", "undo_copy"} =>
       \A i \in 1..Len(q.backup) :
         /\ i <= Len(q.undo) =>
              At(q, f, D, i, BackupOf(q, i) \cup CapturedOf(q, F, i) \cup {Absent, Torn})
         /\ i > Len(q.undo) /\ q.clean => At(q, f, D, i, BackupOf(q, i))
  /\ q.pc = "abort" /\ q.clean =>
       \A i \in 1..Len(q.backup) : At(q, f, D, i, BackupOf(q, i))

(* The paths of a policy are paths, and no two of them are the same. *)
LEMMA DistinctPaths ==
  ASSUME NEW r, Sane(r)
  PROVE  /\ r.include \in Seq(Paths) /\ Len(r.include) \in Nat
         /\ \A i \in 1..Len(r.include) : r.include[i] \in Paths
         /\ \A i, j \in 1..Len(r.include) : i # j => r.include[i] # r.include[j]
  <1>1. r.include \in Policies
    BY DEF Sane, Record
  <1>2. r.include \in Seq(Paths) /\ DOMAIN r.include = 1..Len(r.include)
    BY <1>1, PolicyAssumption
  <1>3. \A i, j \in 1..Len(r.include) : i # j => r.include[i] # r.include[j]
    BY <1>1, <1>2, PolicyAssumption
  <1>4. QED
    BY <1>2, <1>3

(* What others change only adds to what others have changed. *)
LEMMA OthersLeaveGood ==
  ASSUME NEW q, NEW F, NEW f, NEW g, NEW D, NEW E, Shape(q), Good(q, F, f, D),
         D \subseteq E, \A x \in Paths : g[x] = f[x] \/ x \in E
  PROVE  Good(q, F, g, E)
  <1>1. CASE q.pc \notin {"note"} \cup Restoring
    BY <1>1 DEF Good, Restoring
  <1>2. CASE q.pc \in {"note"} \cup Restoring
    <2>1. \A i \in 1..Len(q.copy.include) : q.copy.include[i] \in Paths
      BY <1>2, DistinctPaths DEF Shape, Restoring
    <2>2. ASSUME NEW i \in 1..Len(q.copy.include), NEW S, At(q, f, D, i, S)
          PROVE  At(q, g, E, i, S)
      BY <2>1, <2>2 DEF At
    <2>3. /\ q.pc \in Restoring => Len(q.backup) <= Len(q.copy.include)
          /\ Len(q.backup) \in Nat /\ Len(q.copy.include) \in Nat
      BY <1>2, DistinctPaths DEF Shape, RestoreShape, Process, Restoring
    <2>4. q.pc \in Restoring => \A i \in 1..Len(q.backup) : i \in 1..Len(q.copy.include)
      BY <2>3
    <2>5. QED
      BY <1>2, <2>2, <2>4 DEF Good, Restoring
  <1>3. QED
    BY <1>1, <1>2

LEMMA BackUpGood ==
  ASSUME NEW q, NEW r, NEW F, NEW D, Shape(q), Kept(q, r), BacksUp(q, r), Good(q, F, fs, D)
  PROVE  Good(r, F, fs, D)
  <1> DEFINE n == Len(q.copy.include)
             x == q.copy.include[q.next]
             saved == [path |-> x, value |-> fs[x]]
  <1>1. /\ q.pc = "backup" /\ q.next \in 1..n /\ Len(q.backup) = q.next - 1 /\ n \in Nat
        /\ q.backup \in Seq(Saved) /\ r.copy = q.copy
    BY DistinctPaths DEF Shape, RestoreShape, BacksUp, Process, Kept
  <1>2. r.backup = Append(q.backup, saved) /\ saved.value = fs[x]
    BY DEF BacksUp
  <1> HIDE DEF saved
  <1>3. /\ Len(r.backup) = q.next /\ r.backup[q.next] = saved
        /\ \A i \in 1..(q.next - 1) : r.backup[i] = q.backup[i]
    BY <1>1, <1>2
  <1>4. \A i \in 1..q.next : At(r, fs, D, i, BackupOf(r, i))
    <2>1. \A i \in 1..(q.next - 1) : At(r, fs, D, i, BackupOf(r, i))
      BY <1>1, <1>3 DEF Good, At, BackupOf
    <2>2. At(r, fs, D, q.next, BackupOf(r, q.next))
      BY <1>1, <1>2, <1>3 DEF At, BackupOf
    <2>3. \A i \in 1..q.next : i = q.next \/ i \in 1..(q.next - 1)
      BY <1>1
    <2>4. QED
      BY <2>1, <2>2, <2>3
  <1>5. CASE q.next = n
    <2>1. r.pc = "remove" /\ r.next = 1
      BY <1>5 DEF BacksUp
    <2>2. QED
      BY <1>1, <1>4, <1>5, <2>1 DEF Good
  <1>6. CASE q.next # n
    <2>1. r.pc = "backup"
      BY <1>6 DEF BacksUp
    <2>2. QED
      BY <1>3, <1>4, <2>1 DEF Good
  <1>7. QED
    BY <1>5, <1>6

(* The path at which a restore removes or copies gets v, all others stay. *)
LEMMA ReplaceGood ==
  ASSUME NEW q, NEW r, NEW D, NEW g, Shape(q), Kept(q, r),
         Good(q, files[q.on], fs, D),
         \A y \in Paths : y # q.copy.include[q.next] => g[y] = fs[y],
         \/ Removes(q, r) /\ g[q.copy.include[q.next]] = Absent
         \/ /\ q.pc = "copy" /\ Replaces(q, r)
            /\ g[q.copy.include[q.next]] = files[q.on][q.copy.include[q.next]]
  PROVE  Good(r, files[q.on], g, D)
  <1> DEFINE n == Len(q.copy.include)
             F == files[q.on]
             x == q.copy.include[q.next]
  <1>1. /\ q.pc \in {"remove", "copy"} /\ q.next \in 1..n /\ Len(q.backup) = n /\ n \in Nat
        /\ q.next \in Nat /\ r.copy = q.copy /\ r.backup = q.backup /\ r.scope = q.scope
    BY DistinctPaths DEF Shape, RestoreShape, Process, Kept, Removes, Replaces
  <1>2. \A i \in 1..n : i # q.next => q.copy.include[i] \in Paths /\ q.copy.include[i] # x
    BY <1>1, DistinctPaths DEF Shape
  <1>3. \A i \in 1..n : i # q.next => g[q.copy.include[i]] = fs[q.copy.include[i]]
    BY <1>2
  <1> Good(q, F, fs, D)
    OBVIOUS
  <1> HIDE DEF F
  <1>4. ASSUME NEW i \in 1..n, i < q.next PROVE At(r, g, D, i, CapturedOf(r, F, i))
    <2>1. At(q, fs, D, i, CapturedOf(q, F, i))
      BY <1>1, <1>4 DEF Good
    <2>2. i # q.next
      BY <1>1, <1>4
    <2>3. QED
      BY <1>1, <1>3, <2>1, <2>2 DEF At, CapturedOf
  <1>5. ASSUME NEW i \in 1..n, i > q.next PROVE At(r, g, D, i, BackupOf(r, i))
    <2>1. At(q, fs, D, i, BackupOf(q, i))
      BY <1>1, <1>5 DEF Good
    <2>2. i # q.next
      BY <1>1, <1>5
    <2>3. QED
      BY <1>1, <1>3, <2>1, <2>2 DEF At, BackupOf
  <1>6. CASE Replaces(q, r)
    <2>1. g[x] = F[x]
      BY <1>6 DEF Removes, Replaces, F
    <2>2. \A i \in 1..n : i <= q.next => At(r, g, D, i, CapturedOf(r, F, i))
      <3>1. At(r, g, D, q.next, CapturedOf(r, F, q.next))
        BY <1>1, <2>1 DEF At, CapturedOf
      <3>2. \A i \in 1..n : i <= q.next => i = q.next \/ i < q.next
        BY <1>1
      <3>3. QED
        BY <1>4, <3>1, <3>2
    <2>3. CASE q.next = n
      <3>1. r.pc = "note"
        BY <1>6, <2>3 DEF Replaces
      <3>2. \A i \in 1..n : At(r, g, D, i, CapturedOf(r, F, i))
        BY <1>1, <2>2, <2>3
      <3>3. QED
        BY <1>1, <3>1, <3>2 DEF Good, F
    <2>4. CASE q.next # n
      <3>1. r.pc = "remove" /\ r.next = q.next + 1
        BY <1>6, <2>4 DEF Replaces
      <3>2. ASSUME NEW i \in 1..n
            PROVE  /\ i < r.next => At(r, g, D, i, CapturedOf(r, F, i))
                   /\ i > r.next => At(r, g, D, i, BackupOf(r, i))
                   /\ i = r.next => At(r, g, D, i, BackupOf(r, i))
        <4>1. /\ i < r.next => i <= q.next
              /\ i > r.next => i > q.next
              /\ i = r.next => i > q.next
          BY <1>1, <3>1
        <4>2. QED
          BY <1>5, <2>2, <4>1
      <3>3. QED
        BY <1>1, <3>1, <3>2 DEF Good, F
    <2>5. QED
      BY <2>3, <2>4
  <1>7. CASE ~Replaces(q, r)
    <2>1. r.pc = "copy" /\ r.next = q.next /\ g[x] = Absent
      BY <1>7 DEF Removes
    <2>2. At(r, g, D, q.next, {Absent})
      BY <1>1, <2>1 DEF At
    <2>3. QED
      BY <1>1, <1>4, <1>5, <2>1, <2>2 DEF Good, F
  <1>8. QED
    BY <1>6, <1>7

LEMMA FailGood ==
  ASSUME NEW q, NEW r, NEW F, NEW D, NEW g, Shape(q), Kept(q, r), Fails(q, r),
         Good(q, F, fs, D),
         \A y \in Paths : \/ g[y] = fs[y]
                          \/ q.pc # "backup" /\ y = q.copy.include[q.next] /\ g[y] = Torn
  PROVE  Good(r, F, g, D)
  <1> DEFINE n == Len(q.copy.include)
  <1>1. /\ q.pc \in {"backup", "remove", "copy"} /\ q.next \in 1..n /\ n \in Nat
        /\ Len(q.backup) <= n /\ q.backup \in Seq(Saved) /\ Len(q.backup) \in Nat
        /\ q.next \in Nat /\ r.copy = q.copy /\ r.backup = q.backup
    BY DistinctPaths DEF Shape, RestoreShape, Process, Kept, Fails, Restoring
  <1>2. /\ Len(r.undo) = Len(q.backup) /\ r.pc = IF q.backup = <<>> THEN "abort" ELSE "undo"
    BY <1>1, ReverseIs DEF Fails
  <1>3. \A i \in 1..n : q.copy.include[i] \in Paths
    BY DistinctPaths DEF Shape, Fails
  <1>4. ASSUME NEW i \in 1..Len(q.backup)
        PROVE  At(r, g, D, i, BackupOf(r, i) \cup CapturedOf(r, F, i) \cup {Absent, Torn})
    <2>1. At(q, fs, D, i, BackupOf(q, i) \cup CapturedOf(q, F, i) \cup {Absent, Torn})
      <3>1. CASE q.pc = "backup"
        BY <3>1 DEF Good, At
      <3>2. CASE q.pc # "backup"
        <4>1. i \in 1..n /\ (i < q.next \/ i = q.next \/ i > q.next)
          BY <1>1
        <4>2. At(q, fs, D, i, CapturedOf(q, F, i)) \/ At(q, fs, D, i, BackupOf(q, i))
              \/ At(q, fs, D, i, {Absent})
          BY <1>1, <3>2, <4>1 DEF Good
        <4>3. QED
          BY <4>2 DEF At
      <3>3. QED
        BY <3>1, <3>2
    <2>2. g[q.copy.include[i]] \in {fs[q.copy.include[i]], Torn}
      BY <1>1, <1>3
    <2>3. QED
      BY <1>1, <2>1, <2>2 DEF At, BackupOf, CapturedOf
  <1>5. CASE q.backup = <<>>
    <2>1. r.pc = "abort" /\ Len(r.backup) = 0
      BY <1>1, <1>2, <1>5
    <2>2. QED
      BY <2>1 DEF Good
  <1>6. CASE q.backup # <<>>
    <2>1. r.pc = "undo"
      BY <1>2, <1>6
    <2>2. QED
      BY <1>1, <1>2, <1>4, <2>1 DEF Good
  <1>7. QED
    BY <1>5, <1>6

(* The path that is being undone is the last one that is left to undo. *)
LEMMA UndoneIs ==
  ASSUME NEW q, Shape(q), q.pc \in {"undo", "undo_copy"}
  PROVE  LET m == Len(q.undo) IN
         /\ m \in 1..Len(q.backup) /\ Len(q.backup) \in Nat /\ q.undo \in Seq(Saved)
         /\ Len(q.backup) <= Len(q.copy.include) /\ Len(q.copy.include) \in Nat
         /\ Head(q.undo) = q.backup[m]
         /\ Head(q.undo).path = q.copy.include[m] /\ q.undo # <<>>
  <1> DEFINE m == Len(q.undo)
  <1>1. /\ m \in 1..Len(q.backup) /\ q.backup \in Seq(Saved) /\ q.undo \in Seq(Saved)
        /\ Len(q.backup) <= Len(q.copy.include) /\ Len(q.copy.include) \in Nat
        /\ \A i \in 1..Len(q.backup) : q.backup[i].path = q.copy.include[i]
        /\ \A j \in 1..m : q.undo[j] = q.backup[m - j + 1]
    BY DistinctPaths DEF Shape, RestoreShape, Process, Restoring
  <1>2. q.undo # <<>> /\ Head(q.undo) = q.undo[1] /\ m \in Nat /\ 1 \in 1..m /\ m - 1 + 1 = m
    BY <1>1
  <1>3. QED
    BY <1>1, <1>2

LEMMA UndoGood ==
  ASSUME NEW q, NEW r, NEW F, NEW D, NEW g, Shape(q), Kept(q, r), Undoes(q, r),
         Good(q, F, fs, D),
         \A y \in Paths : y # Head(q.undo).path => g[y] = fs[y],
         \/ r.pc = "undo_copy" /\ r.undo = q.undo /\ g[Head(q.undo).path] = Absent
         \/ r.undo = Tail(q.undo) /\ g[Head(q.undo).path] = Head(q.undo).value
         \/ r.undo = Tail(q.undo) /\ ~r.clean
  PROVE  Good(r, F, g, D)
  <1> DEFINE m == Len(q.undo)
             b == Len(q.backup)
             Known(i) == BackupOf(q, i) \cup CapturedOf(q, F, i) \cup {Absent, Torn}
  <1>1. /\ q.pc \in {"undo", "undo_copy"} /\ r.copy = q.copy /\ r.backup = q.backup
        /\ r.clean \in BOOLEAN /\ q.clean \in BOOLEAN
    BY DEF Undoes, Kept, Process, Shape
  <1>2. /\ m \in 1..b /\ b \in Nat /\ b <= Len(q.copy.include) /\ Len(q.copy.include) \in Nat
        /\ q.undo \in Seq(Saved) /\ Head(q.undo) = q.backup[m]
        /\ Head(q.undo).path = q.copy.include[m] /\ q.undo # <<>>
    BY <1>1, UndoneIs
  <1>3. \A i \in 1..b : i # m => g[q.copy.include[i]] = fs[q.copy.include[i]]
    <2>1. \A i \in 1..b : i \in 1..Len(q.copy.include)
      BY <1>2
    <2>2. \A i \in 1..b : i # m => q.copy.include[i] \in Paths /\ q.copy.include[i] # q.copy.include[m]
      BY <1>1, <1>2, <2>1, DistinctPaths DEF Shape
    <2>3. QED
      BY <1>2, <2>2
  <1>4. \A i \in 1..b : /\ i < m => At(q, g, D, i, Known(i))
                        /\ i > m /\ q.clean => At(q, g, D, i, BackupOf(q, i))
    BY <1>1, <1>2, <1>3 DEF Good, At
  <1>m. m = Len(q.undo) /\ b = Len(q.backup)
    OBVIOUS
  <1> HIDE DEF m, b, Known
  <1>5. \A i : BackupOf(r, i) = BackupOf(q, i) /\ CapturedOf(r, F, i) = CapturedOf(q, F, i)
    BY <1>1 DEF BackupOf, CapturedOf
  <1>6. \A i, S : At(r, g, D, i, S) <=> At(q, g, D, i, S)
    BY <1>1 DEF At
  <1>7. CASE r.pc = "undo_copy" /\ r.undo = q.undo /\ g[Head(q.undo).path] = Absent
    <2>1. At(q, g, D, m, Known(m))
      BY <1>2, <1>7 DEF At, Known
    <2>2. ASSUME NEW i \in 1..b, i <= m PROVE At(q, g, D, i, Known(i))
      <3>1. i < m \/ i = m
        BY <1>2, <2>2
      <3>2. CASE i = m
        BY <2>1, <3>2, Zenon
      <3>3. CASE i < m
        BY <1>4, <3>3, Zenon
      <3>4. QED
        BY <3>1, <3>2, <3>3
    <2>3. r.clean => q.clean
      BY DEF Undoes
    <2>4. ASSUME NEW i \in 1..Len(r.backup)
          PROVE  /\ i <= Len(r.undo) =>
                      At(r, g, D, i, BackupOf(r, i) \cup CapturedOf(r, F, i) \cup {Absent, Torn})
                 /\ i > Len(r.undo) /\ r.clean => At(r, g, D, i, BackupOf(r, i))
      <3>1. i \in 1..b /\ Len(r.undo) = m
        BY <1>1, <1>7, <1>m
      <3>2. /\ i <= m => At(q, g, D, i, Known(i))
            /\ i > m /\ r.clean => At(q, g, D, i, BackupOf(q, i))
        BY <1>4, <2>2, <2>3, <3>1, Zenon
      <3>3. /\ i <= m => At(r, g, D, i, Known(i))
            /\ i > m /\ r.clean => At(r, g, D, i, BackupOf(r, i))
        BY <1>5, <1>6, <3>2, Zenon
      <3>4. Known(i) = BackupOf(r, i) \cup CapturedOf(r, F, i) \cup {Absent, Torn}
        BY <1>5, Zenon DEF Known
      <3>5. QED
        BY <3>1, <3>3, <3>4, Zenon
    <2>5. QED
      BY <1>7, <2>4 DEF Good
  <1>8. CASE r.undo = Tail(q.undo) /\ (g[Head(q.undo).path] = Head(q.undo).value \/ ~r.clean)
    <2>1. Len(r.undo) = m - 1 /\ Len(r.undo) \in Nat
      BY <1>2, <1>8, <1>m
    <2>2. r.clean => q.clean
      BY DEF Undoes
    <2>3. r.clean => At(q, g, D, m, BackupOf(q, m))
      BY <1>2, <1>8 DEF At, BackupOf
    <2>4. ASSUME NEW i \in 1..b, i >= m, r.clean PROVE At(q, g, D, i, BackupOf(q, i))
      <3>1. i > m \/ i = m
        BY <1>2, <2>4
      <3>2. CASE i = m
        BY <2>3, <2>4, <3>2, Zenon
      <3>3. CASE i > m
        BY <1>4, <2>2, <2>4, <3>3, Zenon
      <3>4. QED
        BY <3>1, <3>2, <3>3
    <2>5. r.pc = IF m = 1 THEN "abort" ELSE "undo"
      <3>1. r.undo # q.undo
        BY <1>2, <1>m, <2>1
      <3>2. QED
        BY <1>m, <3>1 DEF Undoes
    <2>6. CASE m = 1
      <3>1. ASSUME NEW i \in 1..Len(r.backup), r.clean PROVE At(r, g, D, i, BackupOf(r, i))
        <4>1. i \in 1..b /\ i >= m
          BY <1>1, <1>2, <1>m, <2>6
        <4>2. QED
          BY <1>5, <1>6, <2>4, <3>1, <4>1, Zenon
      <3>2. r.pc = "abort"
        BY <2>5, <2>6
      <3>3. QED
        BY <3>1, <3>2 DEF Good
    <2>7. CASE m # 1
      <3>1. \A i \in 1..b : /\ i <= Len(r.undo) => i < m
                            /\ i > Len(r.undo) => i >= m
        BY <1>2, <2>1
      <3>2. ASSUME NEW i \in 1..Len(r.backup)
            PROVE  /\ i <= Len(r.undo) =>
                        At(r, g, D, i, BackupOf(r, i) \cup CapturedOf(r, F, i) \cup {Absent, Torn})
                   /\ i > Len(r.undo) /\ r.clean => At(r, g, D, i, BackupOf(r, i))
        <4>1. i \in 1..b
          BY <1>1, <1>m
        <4>2. /\ i <= Len(r.undo) => At(q, g, D, i, Known(i))
              /\ i > Len(r.undo) /\ r.clean => At(q, g, D, i, BackupOf(q, i))
          BY <1>4, <2>4, <3>1, <4>1, Zenon
        <4>3. /\ i <= Len(r.undo) => At(r, g, D, i, Known(i))
              /\ i > Len(r.undo) /\ r.clean => At(r, g, D, i, BackupOf(r, i))
          BY <1>5, <1>6, <4>2, Zenon
        <4>4. Known(i) = BackupOf(r, i) \cup CapturedOf(r, F, i) \cup {Absent, Torn}
          BY <1>5, Zenon DEF Known
        <4>5. QED
          BY <4>3, <4>4, Zenon
      <3>3. r.pc = "undo"
        BY <2>5, <2>7
      <3>4. QED
        BY <3>2, <3>3 DEF Good
    <2>8. QED
      BY <2>6, <2>7
  <1>9. QED
    BY <1>7, <1>8

Restored(c) == Good(proc[c], files[proc[c].on], fs, disturbed[c])

FullInv == Inv /\ \A c \in Procs : Restored(c)

(* Outside of a restore that is under way, there is nothing to say. *)
LEMMA ElsewhereGood ==
  ASSUME NEW q, NEW F, NEW f, NEW D, q.pc \notin Restoring, q.pc # "note" \/ q.scope # "user"
  PROVE  Good(q, F, f, D)
  BY DEF Good, Restoring

(* A restore that is under way is not disturbed by a step of another       *)
(* process, other than on the paths that are then in disturbed.            *)
LEMMA OthersStayGood ==
  ASSUME FullInv, NEW e \in Procs, proc'[e] = proc[e],
         proc[e].pc \in Locked => files'[proc[e].on] = files[proc[e].on],
         \/ UNCHANGED <<fs, disturbed>>
         \/ UNCHANGED <<fs>> /\ disturbed'[e] = disturbed[e]
         \/ \E d, x, v : d # e /\ SetPath(d, x, v)
  PROVE  Restored(e)'
  <1>1. Types /\ Shape(proc[e]) /\ Restored(e)
    BY DEF FullInv, Inv
  <1>2. /\ disturbed[e] \subseteq disturbed'[e]
        /\ \A x \in Paths : fs'[x] = fs[x] \/ x \in disturbed'[e]
    BY <1>1 DEF Types, SetPath
  <1>3. CASE proc[e].pc \in Locked
    <2>1. Good(proc[e], files[proc[e].on], fs', disturbed'[e])
      BY <1>1, <1>2, OthersLeaveGood DEF Restored
    <2>2. QED
      BY <1>3, <2>1 DEF Restored
  <1>4. CASE proc[e].pc \notin Locked
    <2>1. Good(proc'[e], files'[proc'[e].on], fs', disturbed'[e])
      BY <1>4, ElsewhereGood DEF Locked
    <2>2. QED
      BY <2>1 DEF Restored
  <1>5. QED
    BY <1>3, <1>4

LEMMA RestoresGood ==
  ASSUME FullInv, NEW c \in Procs, Restores(c)
  PROVE  Restored(c)'
  <1> DEFINE q == proc[c]
             r == proc'[c]
             F == files[q.on]
             D == disturbed[c]
  <1>1. Types /\ Shape(q) /\ Good(q, F, fs, D) /\ Inv
    BY DEF FullInv, Inv, Restored
  <1>2. /\ Kept(q, r)
        /\ LockRestore(c) \/ ApplySystemRestore(c) => Locks(q, r)
        /\ BackUp(c) => BacksUp(q, r)
        /\ RemoveTarget(c) => Removes(q, r)
        /\ CopyTarget(c) => q.pc = "copy" /\ Replaces(q, r)
        /\ RestoreFails(c) => Fails(q, r)
        /\ UndoRemove(c) \/ UndoCopy(c) \/ UndoFails(c) => Undoes(q, r)
    BY <1>1, RestoreMoves DEF Types, Restores
  <1>3. UNCHANGED files /\ r.on = q.on /\ files'[r.on] = F
    BY <1>2 DEF Kept, Restores, LockRestore, ApplySystemRestore, BackUp, RemoveTarget, CopyTarget,
                RestoreFails, UndoRemove, UndoCopy, UndoFails
  <1>4. \A x, v : x \in Paths /\ SetPath(c, x, v) =>
          /\ disturbed'[c] = D /\ fs'[x] = v
          /\ \A y \in Paths : y # x => fs'[y] = fs[y]
    BY <1>1 DEF SetPath, Types
  <1>5. q.pc \in Restoring => q.next \in Nat /\ q.copy.include \in Seq(Paths)
                             /\ Len(q.copy.include) \in Nat
    BY <1>1, DistinctPaths DEF Shape, Process, Restoring
  <1>6. q.pc \in {"remove", "copy"} => Entry(c) \in Paths /\ Entry(c) = q.copy.include[q.next]
    BY <1>1, <1>5 DEF Entry, Shape, RestoreShape, Restoring
  <1>7. q.pc \in {"undo", "undo_copy"} => Head(q.undo).path \in Paths
    <2>1. ASSUME q.pc \in {"undo", "undo_copy"} PROVE Head(q.undo) \in Saved
      BY <1>1, <2>1, UndoneIs
    <2>2. QED
      BY <2>1 DEF Saved
  <1>8. Good(r, F, fs', disturbed'[c])
    <2>1. CASE LockRestore(c) \/ ApplySystemRestore(c)
      <3>1. Locks(q, r) /\ r.scope = q.scope
        BY <1>2, <2>1 DEF Kept
      <3>2. CASE r.pc = "backup"
        <4>1. q.pc = "lock" /\ r.backup = <<>>
          BY <1>1, <3>1, <3>2 DEF Locks, Shape, RestoreShape
        <4>2. Len(r.backup) = 0
          BY <4>1
        <4>3. QED
          BY <3>2, <4>2 DEF Good
      <3>3. CASE r.pc # "backup"
        <4>1. r.pc \notin Restoring /\ (r.pc # "note" \/ r.scope # "user")
          BY <3>1, <3>3 DEF Locks, Restoring
        <4>2. QED
          BY <4>1, ElsewhereGood
      <3>4. QED
        BY <3>2, <3>3
    <2>2. CASE BackUp(c)
      <3>1. fs' = fs /\ disturbed'[c] = D
        BY <2>2 DEF BackUp
      <3>2. Good(r, F, fs, D)
        BY <1>1, <1>2, <2>2, BackUpGood
      <3>3. QED
        BY <3>1, <3>2
    <2>3. CASE RemoveTarget(c)
      <3>1. q.pc = "remove" /\ SetPath(c, q.copy.include[q.next], Absent)
        BY <1>6, <2>3 DEF RemoveTarget
      <3>2. /\ disturbed'[c] = D /\ fs'[q.copy.include[q.next]] = Absent
            /\ \A y \in Paths : y # q.copy.include[q.next] => fs'[y] = fs[y]
        BY <1>4, <1>6, <3>1
      <3>3. Good(r, F, fs', D)
        BY <1>1, <1>2, <2>3, <3>2, ReplaceGood
      <3>4. QED
        BY <3>2, <3>3
    <2>4. CASE CopyTarget(c)
      <3>1. q.pc = "copy" /\ SetPath(c, q.copy.include[q.next], F[q.copy.include[q.next]])
        BY <1>6, <2>4 DEF CopyTarget
      <3>2. /\ disturbed'[c] = D /\ fs'[q.copy.include[q.next]] = F[q.copy.include[q.next]]
            /\ \A y \in Paths : y # q.copy.include[q.next] => fs'[y] = fs[y]
        BY <1>4, <1>6, <3>1
      <3>3. Good(r, F, fs', D)
        BY <1>1, <1>2, <2>4, <3>2, ReplaceGood
      <3>4. QED
        BY <3>2, <3>3
    <2>5. CASE RestoreFails(c)
      <3>1. /\ disturbed'[c] = D
            /\ \A y \in Paths : \/ fs'[y] = fs[y]
                                \/ q.pc # "backup" /\ y = q.copy.include[q.next] /\ fs'[y] = Torn
        <4>1. CASE q.pc = "backup"
          BY <2>5, <4>1 DEF RestoreFails
        <4>2. CASE q.pc # "backup"
          <5>1. q.pc \in {"remove", "copy"}
            BY <2>5, <4>2 DEF RestoreFails
          <5>2. PICK v \in {fs[Entry(c)], Torn} : SetPath(c, Entry(c), v)
            BY <2>5, <4>2 DEF RestoreFails
          <5>3. QED
            BY <1>4, <1>6, <4>2, <5>1, <5>2
        <4>3. QED
          BY <4>1, <4>2
      <3>2. Good(r, F, fs', D)
        BY <1>1, <1>2, <2>5, <3>1, FailGood
      <3>3. QED
        BY <3>1, <3>2
    <2>6. CASE UndoRemove(c) \/ UndoCopy(c) \/ UndoFails(c)
      <3> DEFINE x == Head(q.undo).path
      <3>1. /\ q.pc \in {"undo", "undo_copy"} /\ x \in Paths /\ Undoes(q, r)
            /\ q \in Process /\ proc'[c] = r /\ proc \in [Procs -> Process]
        BY <1>1, <1>2, <1>7, <2>6 DEF UndoRemove, UndoCopy, UndoFails, Shape, Types
      <3>2. PICK v : /\ SetPath(c, x, v)
                     /\ \/ v = Absent /\ r.pc = "undo_copy" /\ r.undo = q.undo
                        \/ v = Head(q.undo).value /\ r.undo = Tail(q.undo)
                        \/ r.undo = Tail(q.undo) /\ ~r.clean
        <4>1. CASE UndoRemove(c)
          <5>1. SetPath(c, x, Absent)
            BY <4>1 DEF UndoRemove
          <5>2. CASE Head(q.undo).value = Absent
            <6>1. r = AfterUndo(q)
              BY <3>1, <4>1, <5>2 DEF UndoRemove, Become
            <6>2. r.undo = Tail(q.undo)
              BY <3>1, <6>1 DEF AfterUndo, Process
            <6>3. QED
              BY <5>1, <5>2, <6>2
          <5>3. CASE Head(q.undo).value # Absent
            <6>1. r = [q EXCEPT !.pc = "undo_copy"]
              BY <3>1, <4>1, <5>3 DEF UndoRemove, Become
            <6>2. r.pc = "undo_copy" /\ r.undo = q.undo
              BY <3>1, <6>1 DEF Process
            <6>3. QED
              BY <5>1, <6>2
          <5>4. QED
            BY <5>2, <5>3
        <4>2. CASE UndoCopy(c)
          <5>1. SetPath(c, x, Head(q.undo).value) /\ r = AfterUndo(q)
            BY <3>1, <4>2 DEF UndoCopy, Become
          <5>2. r.undo = Tail(q.undo)
            BY <3>1, <5>1 DEF AfterUndo, Process
          <5>3. QED
            BY <5>1, <5>2
        <4>3. CASE UndoFails(c)
          <5>1. PICK v : SetPath(c, x, v)
            BY <4>3 DEF UndoFails
          <5>2. r = AfterUndo([q EXCEPT !.clean = FALSE])
            BY <3>1, <4>3 DEF UndoFails, Become
          <5>3. r.undo = Tail(q.undo) /\ ~r.clean
            BY <3>1, <5>2 DEF AfterUndo, Process
          <5>4. QED
            BY <5>1, <5>3
        <4>4. QED
          BY <2>6, <4>1, <4>2, <4>3
      <3>3. /\ disturbed'[c] = D /\ fs'[x] = v
            /\ \A y \in Paths : y # x => fs'[y] = fs[y]
        BY <1>4, <3>1, <3>2
      <3>4. Good(r, F, fs', D)
        BY <1>1, <1>2, <3>1, <3>2, <3>3, UndoGood
      <3>5. QED
        BY <3>3, <3>4
    <2>7. QED
      BY <2>1, <2>2, <2>3, <2>4, <2>5, <2>6 DEF Restores
  <1>9. QED
    BY <1>3, <1>8 DEF Restored

(* A step of process c leaves the restores of all others good. *)
LEMMA StepKeepsOthersGood ==
  ASSUME FullInv, NEW c \in Procs, Begins(c) \/ Creates(c) \/ Restores(c) \/ Ends(c),
         NEW e \in Procs \ {c}
  PROVE  Restored(e)'
  <1>1. Inv /\ Types /\ Shape(proc[e]) /\ Tied(e) /\ Shape(proc[c]) /\ Tied(c)
    BY DEF FullInv, Inv
  <1>2. proc'[e] = proc[e]
    <2>1. CASE Begins(c)
      BY <1>1, <2>1 DEF Begins, Create, OpenUserRestore, OpenSystemRestore, Become, Types
    <2>2. CASE Creates(c)
      BY <1>1, <2>2, CreateGoesOn DEF Types, Creates
    <2>3. CASE Restores(c)
      BY <1>1, <2>3, RestoreMoves DEF Types, Restores
    <2>4. CASE Ends(c)
      BY <1>1, <2>4
      DEF Types, Ends, Finish, Abort, Note, SystemRestoreFails, SaveFails, Crash, Release, Become
    <2>5. QED
      BY <2>1, <2>2, <2>3, <2>4
  <1>3. proc[e].pc \in Locked => files'[proc[e].on] = files[proc[e].on]
    <2>1. CASE Capture(c)
      <3>1. proc[c].pc = "capture" /\ proc[c].on \in Checkpoints /\ lock[proc[c].on] = c
        BY <1>1, <2>1 DEF Capture, Shape, Tied, Locked, Creating
      <3>2. proc[e].pc \in Locked => proc[e].on # proc[c].on /\ proc[e].on \in Checkpoints
        BY <1>1, <3>1 DEF Shape, Tied, Locked, Creating, Restoring
      <3>3. PICK x : files' = [files EXCEPT ![proc[c].on][x] = fs[x]]
        BY <2>1 DEF Capture
      <3>4. QED
        BY <1>1, <3>1, <3>2, <3>3 DEF Types
    <2>2. CASE ~Capture(c)
      <3>1. UNCHANGED files
        BY <2>2 DEF Begins, Create, OpenUserRestore, OpenSystemRestore,
                    Creates, WriteCreating, TakeSnapshot, SnapshotFails, CaptureFails,
                    Restores, LockRestore, ApplySystemRestore, BackUp, RemoveTarget, CopyTarget,
                    RestoreFails, UndoRemove, UndoCopy, UndoFails,
                    Ends, Finish, Abort, Note, SystemRestoreFails, SaveFails, Crash
      <3>2. QED
        BY <3>1
    <2>3. QED
      BY <2>1, <2>2
  <1>4. \/ UNCHANGED <<fs, disturbed>>
        \/ UNCHANGED <<fs>> /\ disturbed'[e] = disturbed[e]
        \/ \E d, x, v : d # e /\ SetPath(d, x, v)
    <2>1. CASE Begins(c)
      BY <1>1, <2>1 DEF Begins, Create, OpenUserRestore, OpenSystemRestore, Began, Types
    <2>2. CASE Creates(c)
      BY <2>2 DEF Creates, WriteCreating, TakeSnapshot, SnapshotFails, Capture, CaptureFails
    <2>3. CASE Restores(c) \/ Ends(c)
      BY <1>1, <2>3, InvRestores, InvEnds DEF Touches
    <2>4. QED
      BY <2>1, <2>2, <2>3
  <1>5. QED
    BY <1>2, <1>3, <1>4, OthersStayGood

LEMMA FullInvStep ==
  ASSUME FullInv, [Next]_vars
  PROVE  FullInv'
  <1>1. Inv' /\ Inv
    BY InvStep DEF FullInv
  <1>2. CASE UNCHANGED vars
    BY <1>1, <1>2 DEF vars, FullInv, Restored
  <1>3. ASSUME NEW c \in Procs, Begins(c) \/ Creates(c) \/ Restores(c) \/ Ends(c)
        PROVE  FullInv'
    <2>1. Restored(c)'
      <3>1. CASE Restores(c)
        BY <3>1, RestoresGood
      <3>2. CASE Begins(c) \/ Creates(c) \/ Ends(c)
        <4>1. proc'[c].pc \notin Restoring \cup {"note"}
          <5>1. CASE Begins(c)
            <6>1. PICK k, r :
                    \/ Become(c, [Idle EXCEPT !.pc = "claimed", !.on = k, !.copy = r])
                    \/ Become(c, [Idle EXCEPT !.pc = "lock", !.on = k, !.copy = r])
                    \/ Become(c, [Idle EXCEPT !.pc = "apply", !.on = k, !.copy = r,
                                              !.scope = "system"])
              BY <5>1 DEF Begins, Create, OpenUserRestore, OpenSystemRestore
            <6>2. /\ [Idle EXCEPT !.pc = "claimed", !.on = k, !.copy = r].pc = "claimed"
                  /\ [Idle EXCEPT !.pc = "lock", !.on = k, !.copy = r].pc = "lock"
                  /\ [Idle EXCEPT !.pc = "apply", !.on = k, !.copy = r, !.scope = "system"].pc = "apply"
              BY DEF Idle
            <6>3. \A q : Become(c, q) => proc'[c] = q
              BY <1>1 DEF Become, Inv, Types
            <6>4. proc'[c].pc \in {"claimed", "lock", "apply"}
              BY <6>1, <6>2, <6>3
            <6>5. QED
              BY <6>4 DEF Restoring
          <5>2. CASE Creates(c)
            <6>1. proc'[c].pc \in Creating
              BY <1>1, <5>2, CreateGoesOn DEF Inv, Types, Creates
            <6>2. QED
              BY <6>1 DEF Creating, Restoring
          <5>3. CASE Ends(c)
            <6>1. proc'[c] = Idle
              BY <1>1, <5>3 DEF Inv, Types, Ends, Finish, Abort, Note, SystemRestoreFails, SaveFails,
                                Crash, Release, Become
            <6>2. QED
              BY <6>1, IdleShape DEF Restoring
          <5>4. QED
            BY <3>2, <5>1, <5>2, <5>3
        <4>2. Good(proc'[c], files'[proc'[c].on], fs', disturbed'[c])
          BY <4>1, ElsewhereGood
        <4>3. QED
          BY <4>2 DEF Restored
      <3>3. QED
        BY <1>3, <3>1, <3>2
    <2>2. \A e \in Procs \ {c} : Restored(e)'
      BY <1>3, StepKeepsOthersGood
    <2>3. QED
      BY <1>1, <2>1, <2>2 DEF FullInv
  <1>4. ASSUME NEW x \in Paths, NEW v \in Contents \cup {Absent}, EditFile(x, v) PROVE FullInv'
    <2>1. ASSUME NEW e \in Procs PROVE Restored(e)'
      <3>1. e # None /\ UNCHANGED <<proc, files>> /\ SetPath(None, x, v)
        BY <1>4, CheckpointsAssumption DEF EditFile
      <3>2. \E d, y, w : d # e /\ SetPath(d, y, w)
        BY <3>1
      <3>3. proc'[e] = proc[e] /\ files'[proc[e].on] = files[proc[e].on]
        BY <3>1
      <3>4. QED
        BY <3>2, <3>3, OthersStayGood
    <2>2. QED
      BY <1>1, <2>1 DEF FullInv
  <1>5. QED
    BY <1>2, <1>3, <1>4, NextIs

THEOREM FullInvariance == Spec => []FullInv
  <1>1. Init => FullInv
    <2> SUFFICES ASSUME Init PROVE FullInv
      OBVIOUS
    <2>1. \A c \in Procs : proc[c].pc \notin Restoring \cup {"note"}
      BY IdleShape DEF Init, Restoring
    <2>2. \A c \in Procs : Restored(c)
      BY <2>1, ElsewhereGood DEF Restored
    <2>3. QED
      BY <2>2, InvInit DEF FullInv
  <1>2. FullInv /\ [Next]_vars => FullInv'
    BY FullInvStep
  <1>3. QED
    BY <1>1, <1>2, PTL DEF Spec

(* A restore that is about to report success has brought every selected    *)
(* path to its captured state, but for those that others changed since.    *)
THEOREM RestoreAlwaysRestores == Spec => []RestoreRestores
  <1>1. FullInv => RestoreRestores
    <2> SUFFICES ASSUME FullInv, NEW c \in Procs, proc[c].pc = "note", proc[c].scope = "user",
                        NEW x \in Selected(c) \ disturbed[c]
                 PROVE  fs[x] = files[proc[c].on][x]
      BY DEF RestoreRestores
    <2>1. Shape(proc[c]) /\ Restored(c)
      BY DEF FullInv, Inv
    <2>2. proc[c].copy.include \in Seq(Paths)
      BY <2>1, DistinctPaths DEF Shape
    <2>3. PICK i \in 1..Len(proc[c].copy.include) : proc[c].copy.include[i] = x
      BY <2>2 DEF Selected, ToSet
    <2>4. At(proc[c], fs, disturbed[c], i, CapturedOf(proc[c], files[proc[c].on], i))
      BY <2>1 DEF Restored, Good
    <2>5. QED
      BY <2>3, <2>4 DEF At, CapturedOf
  <1>2. QED
    BY <1>1, FullInvariance, PTL

(* A restore that failed, with no error in its rollback, has left every    *)
(* path as it found it, wherever it failed.                                *)
THEOREM FailedRestoreAlwaysUndoes == Spec => []FailedRestoreUndoes
  <1>1. FullInv => FailedRestoreUndoes
    <2> SUFFICES ASSUME FullInv, NEW c \in Procs, proc[c].pc = "abort", proc[c].clean,
                        NEW saved \in ToSet(proc[c].backup)
                 PROVE  saved.path \in disturbed[c] \/ fs[saved.path] = saved.value
      BY DEF FailedRestoreUndoes
    <2>1. Shape(proc[c]) /\ Restored(c)
      BY DEF FullInv, Inv
    <2>2. /\ proc[c].backup \in Seq(Saved)
          /\ \A i \in 1..Len(proc[c].backup) : proc[c].backup[i].path = proc[c].copy.include[i]
      BY <2>1 DEF Shape, Process, RestoreShape, Restoring
    <2>3. PICK i \in 1..Len(proc[c].backup) : proc[c].backup[i] = saved
      BY <2>2 DEF ToSet
    <2>4. At(proc[c], fs, disturbed[c], i, BackupOf(proc[c], i))
      BY <2>1 DEF Restored, Good
    <2>5. QED
      BY <2>2, <2>3, <2>4 DEF At, BackupOf
  <1>2. QED
    BY <1>1, FullInvariance, PTL

(* Where a restore is at work, there is what it has backed up, what it     *)
(* copies, what others wrote, or nothing of value.                         *)
LEMMA WorkIsSafe ==
  ASSUME FullInv, NEW c \in Procs, NEW x \in AtWork(c), fs[x] \in Contents
  PROVE  x \in disturbed[c] \/ fs[x] \in BackedUp(c, x) \cup {files[proc[c].on][x]}
  <1> DEFINE q == proc[c]
             F == files[q.on]
  <1>1. Shape(q) /\ Good(q, F, fs, disturbed[c]) /\ q.pc \in {"remove", "copy", "undo", "undo_copy"}
    BY DEF FullInv, Inv, Restored, AtWork
  <1>2. /\ q.backup \in Seq(Saved) /\ Len(q.backup) <= Len(q.copy.include)
        /\ Len(q.copy.include) \in Nat /\ Len(q.backup) \in Nat
        /\ \A i \in 1..Len(q.backup) : q.backup[i].path = q.copy.include[i]
    BY <1>1, DistinctPaths DEF Shape, Process, RestoreShape, Restoring
  <1>3. PICK i \in 1..Len(q.backup) :
          /\ q.copy.include[i] = x
          /\ At(q, fs, disturbed[c], i, BackupOf(q, i) \cup CapturedOf(q, F, i) \cup {Absent, Torn})
    <2>1. CASE q.pc \in {"remove", "copy"}
      <3>1. q.next \in 1..Len(q.backup) /\ q.next \in 1..Len(q.copy.include)
        BY <1>1, <2>1 DEF Shape, RestoreShape
      <3>2. At(q, fs, disturbed[c], q.next, BackupOf(q, q.next)) \/ At(q, fs, disturbed[c], q.next, {Absent})
        BY <1>1, <2>1, <3>1 DEF Good
      <3>3. q.copy.include[q.next] = x
        BY <2>1 DEF AtWork, Entry
      <3>4. QED
        BY <3>1, <3>2, <3>3 DEF At
    <2>2. CASE q.pc \in {"undo", "undo_copy"}
      <3> DEFINE m == Len(q.undo)
      <3>1. m \in 1..Len(q.backup) /\ Head(q.undo).path = q.copy.include[m]
        BY <1>1, <2>2, UndoneIs
      <3>2. Head(q.undo).path = x
        BY <2>2 DEF AtWork
      <3>3. At(q, fs, disturbed[c], m, BackupOf(q, m) \cup CapturedOf(q, F, m) \cup {Absent, Torn})
        BY <1>1, <1>2, <2>2, <3>1 DEF Good
      <3>4. QED
        BY <3>1, <3>2, <3>3
    <2>3. QED
      BY <1>1, <2>1, <2>2
  <1>4. Absent \notin Contents /\ Torn \notin Contents
    BY CheckpointsAssumption
  <1>5. q.backup[i] \in ToSet(q.backup) /\ q.backup[i].path = x
    BY <1>2, <1>3 DEF ToSet
  <1>6. q.backup[i].value \in BackedUp(c, x)
    BY <1>5 DEF BackedUp
  <1>7. QED
    BY <1>3, <1>4, <1>6 DEF At, BackupOf, CapturedOf

(* A restore takes no content away that is neither in its backup nor in    *)
(* the checkpoint, not even when it is killed halfway.                     *)
THEOREM NothingIsEverLost == Spec => NothingIsLost
  <1>1. ASSUME FullInv, [Next]_vars, NEW c \in Procs, NEW x \in Paths,
               fs'[x] # fs[x], fs[x] \in Contents, proc'[c] # proc[c]
        PROVE  x \in disturbed[c] \/ fs[x] \in BackedUp(c, x) \cup {files[proc[c].on][x]}
    <2>1. Inv /\ Types /\ Shape(proc[c])
      BY <1>1 DEF FullInv, Inv
    <2>2. Begins(c) \/ Creates(c) \/ Restores(c) \/ Ends(c)
      <3>1. PICK e \in Procs : Begins(e) \/ Creates(e) \/ Restores(e) \/ Ends(e)
        BY <1>1, NextIs DEF vars, EditFile
      <3>2. Shape(proc[e])
        BY <2>1 DEF Inv
      <3>3. e # c => proc'[c] = proc[c]
        <4>1. CASE Begins(e)
          BY <2>1, <4>1 DEF Begins, Create, OpenUserRestore, OpenSystemRestore, Become, Types
        <4>2. CASE Creates(e)
          BY <2>1, <3>2, <4>2, CreateGoesOn DEF Types, Creates
        <4>3. CASE Restores(e)
          BY <2>1, <3>2, <4>3, RestoreMoves DEF Types, Restores
        <4>4. CASE Ends(e)
          BY <2>1, <4>4
          DEF Types, Ends, Finish, Abort, Note, SystemRestoreFails, SaveFails, Crash, Release, Become
        <4>5. QED
          BY <3>1, <4>1, <4>2, <4>3, <4>4
      <3>4. QED
        BY <1>1, <3>1, <3>3
    <2>3. \E y \in AtWork(c) : \E v : SetPath(c, y, v)
      <3>1. CASE Begins(c) \/ Creates(c)
        BY <1>1, <3>1 DEF Begins, Create, OpenUserRestore, OpenSystemRestore, Creates, WriteCreating,
                          TakeSnapshot, SnapshotFails, Capture, CaptureFails
      <3>2. CASE Restores(c)
        BY <1>1, <3>2 DEF Restores, LockRestore, ApplySystemRestore, BackUp, RemoveTarget,
                          CopyTarget, RestoreFails, UndoRemove, UndoCopy, UndoFails, AtWork
      <3>3. CASE Ends(c)
        BY <1>1, <3>3 DEF Ends, Finish, Abort, Note, SystemRestoreFails, SaveFails, Crash
      <3>4. QED
        BY <2>2, <3>1, <3>2, <3>3
    <2>4. x \in AtWork(c)
      BY <1>1, <2>1, <2>3 DEF SetPath, Types
    <2>5. QED
      BY <1>1, <2>4, WorkIsSafe
  <1>2. FullInv /\ [Next]_vars =>
          [\A c \in Procs, x \in Paths :
             fs'[x] # fs[x] /\ fs[x] \in Contents /\ proc'[c] # proc[c] =>
               x \in disturbed[c] \/ fs[x] \in BackedUp(c, x) \cup {files[proc[c].on][x]}]_vars
    BY <1>1
  <1>3. QED
    BY <1>2, FullInvariance, PTL DEF Spec, NothingIsLost

-----------------------------------------------------------------------------
(* What is final about a checkpoint.                                       *)

(* Records r and s tell the same of their scopes. *)
SameScopes(r, s) ==
  /\ r.status = s.status /\ r.system = s.system /\ r.snapshots = s.snapshots
  /\ r.user = s.user /\ r.include = s.include

Finished(k) == store[k] # None /\ store[k].status # "creating"

(* The record of an unfinished checkpoint offers nothing to restore; its   *)
(* creator saves it once before it is finished, and whoever restores has   *)
(* loaded a finished one.                                                  *)
Settled ==
  /\ \A k \in Checkpoints :
       store[k] # None /\ store[k].status = "creating" =>
         store[k].snapshots = {} /\ store[k].user # "captured"
  /\ \A c \in Procs :
       /\ proc[c].pc \in Creating => ~Finished(proc[c].on)
       /\ proc[c].pc = "claimed" => store[proc[c].on] = None /\ proc[c].copy.user # "captured"
       /\ proc[c].pc \in Held =>
            Finished(proc[c].on) /\ SameScopes(proc[c].copy, store[proc[c].on])

(* A step leaves a finished checkpoint as it is, but for its history. *)
StaysFinished(k) ==
  Finished(k) =>
    /\ dir'[k] = dir[k] /\ files'[k] = files[k]
    /\ store'[k] # None /\ SameScopes(store[k], store'[k])
    /\ \/ store'[k].history = store[k].history
       \/ \E scope \in {"user", "system"} : store'[k].history = Append(store[k].history, scope)

(* What a step asks of a process that takes it. *)
Fits(c, k) ==
  /\ proc'[c].on = k
  /\ proc'[c].pc \in Creating => ~Finished(k)'
  /\ proc'[c].pc = "claimed" => store'[k] = None /\ proc'[c].copy.user # "captured"
  /\ proc'[c].pc \in Held => Finished(k)' /\ SameScopes(proc'[c].copy, store'[k])

(* The records, and so the other processes, keep what they have. *)
LEMMA SettledStays ==
  ASSUME Inv, Settled, NEW c \in Procs, proc' = [proc EXCEPT ![c] = proc'[c]],
         UNCHANGED store, proc'[c].pc # "idle" => \E k \in Checkpoints : Fits(c, k)
  PROVE  Settled'
  <1>1. \A e \in Procs \ {c} : proc'[e] = proc[e]
    BY DEF Inv, Types
  <1>2. \A k : Finished(k)' <=> Finished(k)
    BY DEF Finished
  <1>3. "idle" \notin Creating \cup Held \cup {"claimed"}
    BY DEF Creating, Held, Restoring
  <1>4. ASSUME NEW e \in Procs
        PROVE  /\ proc'[e].pc \in Creating => ~Finished(proc'[e].on)
               /\ proc'[e].pc = "claimed" =>
                    store[proc'[e].on] = None /\ proc'[e].copy.user # "captured"
               /\ proc'[e].pc \in Held =>
                    Finished(proc'[e].on) /\ SameScopes(proc'[e].copy, store[proc'[e].on])
    <2>1. CASE e = c
      BY <1>2, <1>3, <2>1 DEF Fits
    <2>2. CASE e # c
      BY <1>1, <2>2 DEF Settled
    <2>3. QED
      BY <2>1, <2>2
  <1>5. QED
    BY <1>4 DEF Settled, Finished

(* A step that leaves records and copies alone leaves what is finished. *)
LEMMA NothingChanged ==
  ASSUME UNCHANGED <<store, files, dir>>
  PROVE  \A k \in Checkpoints : StaysFinished(k)
  BY DEF StaysFinished, Finished, SameScopes

(* The steps of a command that begins, and of one that restores. *)
LEMMA SettledBegins ==
  ASSUME Inv, Settled, NEW c \in Procs, Begins(c)
  PROVE  Settled' /\ \A k \in Checkpoints : StaysFinished(k)
  <1>1. proc \in [Procs -> Process] /\ Types
    BY DEF Inv, Types
  <1>2. ASSUME NEW k \in Checkpoints, NEW system \in BOOLEAN, NEW policy \in Policies,
               Create(c, k, system, policy)
        PROVE  Settled' /\ \A j \in Checkpoints : StaysFinished(j)
    <2> DEFINE r == NewRecord(system, policy)
               q == [Idle EXCEPT !.pc = "claimed", !.on = k, !.copy = r]
    <2>1. proc' = [proc EXCEPT ![c] = q] /\ UNCHANGED <<store, files>>
          /\ dir' = [dir EXCEPT ![k] = TRUE] /\ ~dir[k]
      BY <1>2 DEF Create, Become
    <2>2. q.pc = "claimed" /\ q.on = k /\ q.copy = r
      BY DEF Idle
    <2>3. r.user # "captured"
      BY DEF NewRecord
    <2> HIDE DEF q, r
    <2>4. store[k] = None
      BY <2>1 DEF Inv, OnRecord
    <2>5. proc'[c] = q
      BY <1>1, <2>1
    <2>6. Fits(c, k)
      BY <2>1, <2>2, <2>3, <2>4, <2>5 DEF Fits, Finished, Held, Restoring
    <2>7. \A j \in Checkpoints : StaysFinished(j)
      BY <1>1, <2>1, <2>4 DEF StaysFinished, Finished, SameScopes, Types
    <2>8. QED
      BY <2>1, <2>5, <2>6, <2>7, SettledStays
  <1>3. ASSUME NEW k \in Checkpoints, OpenUserRestore(c, k) \/ OpenSystemRestore(c, k)
        PROVE  Settled' /\ \A j \in Checkpoints : StaysFinished(j)
    <2>1. UNCHANGED <<store, files, dir>>
      BY <1>3 DEF OpenUserRestore, OpenSystemRestore
    <2>2. Finished(k)
      BY <1>3 DEF Settled, Finished, OpenUserRestore, OpenSystemRestore, SystemRestorable
    <2>3. PICK q : /\ q.pc \in {"lock", "apply"} /\ q.on = k /\ q.copy = store[k]
                   /\ proc' = [proc EXCEPT ![c] = q]
      <3>1. CASE OpenUserRestore(c, k)
        <4> DEFINE q == [Idle EXCEPT !.pc = "lock", !.on = k, !.copy = store[k]]
        <4>1. q.pc = "lock" /\ q.on = k /\ q.copy = store[k]
          BY DEF Idle
        <4>2. proc' = [proc EXCEPT ![c] = q]
          BY <3>1 DEF OpenUserRestore, Become
        <4>3. QED
          BY <4>1, <4>2
      <3>2. CASE OpenSystemRestore(c, k)
        <4> DEFINE q == [Idle EXCEPT !.pc = "apply", !.on = k, !.copy = store[k], !.scope = "system"]
        <4>1. q.pc = "apply" /\ q.on = k /\ q.copy = store[k]
          BY DEF Idle
        <4>2. proc' = [proc EXCEPT ![c] = q]
          BY <3>2 DEF OpenSystemRestore, Become
        <4>3. QED
          BY <4>1, <4>2
      <3>3. QED
        BY <1>3, <3>1, <3>2
    <2>4. proc'[c] = q
      BY <1>1, <2>3
    <2>5. Fits(c, k)
      BY <2>1, <2>2, <2>3, <2>4 DEF Fits, Finished, SameScopes, Creating
    <2>6. QED
      BY <2>1, <2>3, <2>4, <2>5, SettledStays, NothingChanged
  <1>4. QED
    BY <1>2, <1>3 DEF Begins

LEMMA SettledRestores ==
  ASSUME Inv, Settled, NEW c \in Procs, Restores(c)
  PROVE  Settled' /\ \A k \in Checkpoints : StaysFinished(k)
  <1>1. Types /\ Shape(proc[c]) /\ proc[c].on \in Checkpoints
    <2>1. proc[c].pc # "idle"
      BY DEF Restores, LockRestore, ApplySystemRestore, BackUp, RemoveTarget, CopyTarget,
             RestoreFails, UndoRemove, UndoCopy, UndoFails
    <2>2. QED
      BY <2>1 DEF Inv, Shape
  <1>2. proc' = [proc EXCEPT ![c] = proc'[c]] /\ Kept(proc[c], proc'[c]) /\ Moves(proc[c], proc'[c])
    BY <1>1, RestoreMoves DEF Types, Restores, Moves
  <1>3. /\ proc'[c].pc \in Held /\ proc[c].pc \in Held /\ proc'[c].on = proc[c].on
        /\ proc'[c].copy = proc[c].copy
    BY <1>1, <1>2, RestoreGoesOn DEF Kept
  <1>4. UNCHANGED <<store, files, dir>>
    BY DEF Restores, LockRestore, ApplySystemRestore, BackUp, RemoveTarget, CopyTarget,
           RestoreFails, UndoRemove, UndoCopy, UndoFails
  <1>5. proc'[c].pc \notin Creating
    BY <1>3 DEF Held, Creating, Restoring
  <1>6. Fits(c, proc[c].on)
    BY <1>3, <1>4, <1>5 DEF Fits, Settled, Finished, Creating
  <1>7. QED
    BY <1>1, <1>2, <1>4, <1>6, SettledStays, NothingChanged

(* What is on record of a finished checkpoint; and what a process q and the *)
(* records s have to do with each other.                                   *)
Done(r) == r # None /\ r.status # "creating"

Plain(r) == r # None /\ r.status = "creating" => r.snapshots = {} /\ r.user # "captured"

Suits(q, s) ==
  /\ q.pc \in Creating => ~Done(s[q.on])
  /\ q.pc = "claimed" => s[q.on] = None /\ q.copy.user # "captured"
  /\ q.pc \in Held => Done(s[q.on]) /\ SameScopes(q.copy, s[q.on])

LEMMA SettledIs ==
  Settled <=> /\ \A k \in Checkpoints : Plain(store[k])
              /\ \A c \in Procs : Suits(proc[c], store)
  BY DEF Settled, Finished, Plain, Suits, Done

LEMMA SettledNext ==
  ASSUME \A k \in Checkpoints : Plain(store'[k]), \A c \in Procs : Suits(proc'[c], store')
  PROVE  Settled'
  BY DEF Settled, Finished, Plain, Suits, Done

(* Whoever creates a checkpoint, or is in its lock, is alone with it. *)
LEMMA LockedAlone ==
  ASSUME Inv, NEW c \in Procs, proc[c].pc \in Locked, NEW e \in Procs \ {c},
         proc[e].on = proc[c].on
  PROVE  proc[e].pc \notin Locked
  BY DEF Inv, Tied

(* A record that is saved by the one process that may. *)
LEMMA SettledSaves ==
  ASSUME Inv, Settled, NEW c \in Procs, proc[c].pc \in Locked,
         NEW q, proc' = [proc EXCEPT ![c] = q],
         NEW k \in Checkpoints, k = proc[c].on, NEW r, store' = [store EXCEPT ![k] = r],
         Plain(r), Suits(q, store'),
         Done(store[k]) => Done(r) /\ SameScopes(store[k], r)
  PROVE  Settled'
  <1>1. /\ proc'[c] = q /\ \A e \in Procs \ {c} : proc'[e] = proc[e]
        /\ store'[k] = r /\ \A j \in Checkpoints \ {k} : store'[j] = store[j]
    BY DEF Inv, Types
  <1>2. \A j \in Checkpoints : Plain(store'[j])
    BY <1>1, SettledIs
  <1>3. ASSUME NEW e \in Procs \ {c}
        PROVE  Suits(proc[e], store')
    <2>1. Suits(proc[e], store)
      BY SettledIs
    <2>2. CASE proc[e].pc \notin Creating \cup Held
      BY <2>2 DEF Suits, Creating
    <2>3. CASE proc[e].pc \in Creating \cup Held
      <3>1. proc[e].on \in Checkpoints
        BY <2>3 DEF Inv, Shape, Creating, Held, Restoring
      <3>2. CASE proc[e].on = k
        <4>1. proc[e].pc \notin Locked
          BY <3>2, LockedAlone
        <4>2. proc[e].pc \in Held /\ proc[e].pc \notin Creating
          BY <2>3, <4>1 DEF Locked
        <4>3. proc[e].pc # "claimed"
          BY <4>2 DEF Creating
        <4>4. Done(store[k]) /\ SameScopes(proc[e].copy, store[k])
          BY <2>1, <3>2, <4>2 DEF Suits
        <4>5. Done(r) /\ SameScopes(proc[e].copy, r)
          BY <4>4 DEF SameScopes
        <4>6. QED
          BY <1>1, <3>2, <4>2, <4>3, <4>5 DEF Suits
      <3>3. CASE proc[e].on # k
        <4>1. store'[proc[e].on] = store[proc[e].on]
          BY <1>1, <3>1, <3>3
        <4>2. QED
          BY <2>1, <4>1 DEF Suits
      <3>4. QED
        BY <3>2, <3>3
    <2>4. QED
      BY <2>2, <2>3
  <1>4. \A e \in Procs : Suits(proc'[e], store')
    BY <1>1, <1>3
  <1>5. QED
    BY <1>2, <1>4, SettledNext

(* The steps of a command that creates: its one save is the first record. *)
LEMMA SettledCreates ==
  ASSUME Inv, Settled, NEW c \in Procs, Creates(c)
  PROVE  Settled' /\ \A k \in Checkpoints : StaysFinished(k)
  <1>1. /\ Types /\ Shape(proc[c]) /\ proc \in [Procs -> Process]
    BY DEF Inv, Types
  <1>2. /\ proc' = [proc EXCEPT ![c] = proc'[c]] /\ proc[c].pc \in Creating
        /\ proc'[c].pc \in Creating \ {"claimed"} /\ proc'[c].on = proc[c].on
    BY <1>1, CreateGoesOn DEF Creates
  <1>3. PICK k \in Checkpoints : k = proc[c].on
    BY <1>1, <1>2 DEF Shape, Creating
  <1>4. ~Done(store[k])
    BY <1>2, <1>3 DEF Settled, Finished, Done
  <1>5. UNCHANGED dir /\ proc'[c].pc \notin Held
    BY <1>2 DEF Creating, Held, Restoring, Creates, WriteCreating,
                TakeSnapshot, SnapshotFails, Capture, CaptureFails
  <1>6. CASE WriteCreating(c)
    <2>1. /\ proc[c].pc = "claimed" /\ UNCHANGED files
          /\ store' = [store EXCEPT ![k] = proc[c].copy]
      BY <1>3, <1>6 DEF WriteCreating, Save
    <2>2. /\ proc[c].copy.status = "creating" /\ proc[c].copy.snapshots = {}
          /\ proc[c].copy.user # "captured"
      BY <1>1, <2>1 DEF Shape, CreateShape, Settled, Creating
    <2>3. store'[k] = proc[c].copy /\ \A j \in Checkpoints \ {k} : store'[j] = store[j]
      BY <1>1, <1>3, <2>1 DEF Types
    <2>4. Suits(proc'[c], store')
      <3>1. proc'[c].pc # "claimed" /\ proc'[c].pc \notin Held /\ store'[proc'[c].on] = proc[c].copy
        BY <1>2, <1>3, <1>5, <2>3
      <3>2. ~Done(proc[c].copy)
        BY <2>2 DEF Done
      <3>3. QED
        BY <3>1, <3>2 DEF Suits
    <2>5. Plain(proc[c].copy)
      BY <2>2 DEF Plain
    <2>6. Settled'
      BY <1>2, <1>3, <1>4, <2>1, <2>4, <2>5, SettledSaves DEF Locked
    <2>7. \A j \in Checkpoints : StaysFinished(j)
      BY <1>4, <1>5, <2>1, <2>3 DEF StaysFinished, SameScopes, Finished, Done
    <2>8. QED
      BY <2>6, <2>7
  <1>7. CASE ~WriteCreating(c)
    <2>1. UNCHANGED store
      BY <1>7 DEF Creates, TakeSnapshot, SnapshotFails, Capture, CaptureFails
    <2>2. \A j \in Checkpoints \ {k} : files'[j] = files[j]
      BY <1>1, <1>3, <1>7 DEF Types, Creates, TakeSnapshot, SnapshotFails, Capture, CaptureFails
    <2>3. Suits(proc'[c], store')
      BY <1>2, <1>3, <1>4, <1>5, <2>1 DEF Suits
    <2>4. \A e \in Procs : Suits(proc'[e], store')
      <3>1. \A e \in Procs \ {c} : proc'[e] = proc[e]
        BY <1>1, <1>2
      <3>2. QED
        BY <2>1, <2>3, <3>1, SettledIs
    <2>5. Settled'
      BY <2>1, <2>4, SettledIs, SettledNext
    <2>6. \A j \in Checkpoints : StaysFinished(j)
      BY <1>4, <1>5, <2>1, <2>2 DEF StaysFinished, SameScopes, Finished, Done
    <2>7. QED
      BY <2>5, <2>6
  <1>8. QED
    BY <1>6, <1>7

(* The ends of a command: finish and note put a finished record in place. *)
LEMMA SettledEnds ==
  ASSUME Inv, Settled, NEW c \in Procs, Ends(c)
  PROVE  Settled' /\ \A k \in Checkpoints : StaysFinished(k)
  <1>1. Types /\ Shape(proc[c]) /\ Tied(c) /\ proc[c].on \in Checkpoints
    <2>1. proc[c].pc # "idle"
      BY DEF Ends, Finish, Abort, Note, SystemRestoreFails, SaveFails, Crash
    <2>2. QED
      BY <2>1 DEF Inv, Shape
  <1>2. PICK k \in Checkpoints : k = proc[c].on
    BY <1>1
  <1>3. /\ proc' = [proc EXCEPT ![c] = Idle] /\ proc'[c] = Idle /\ UNCHANGED <<dir, files>>
    BY <1>1 DEF Types, Ends, Finish, Abort, Note, SystemRestoreFails, SaveFails, Crash, Release, Become
  <1>4. OnRecord(k) /\ \A s : Suits(Idle, s)
    BY IdleShape DEF Inv, Suits, Creating, Held, Restoring
  <1>5. CASE UNCHANGED store
    BY <1>3, <1>5, IdleShape, SettledStays, NothingChanged
  <1>6. CASE Finish(c)
    <2>1. PICK r : r = [proc[c].copy EXCEPT !.status = FinalStatus(proc[c].copy)]
      OBVIOUS
    <2>2. /\ proc[c].pc = "finish" /\ Sane(proc[c].copy) /\ store' = [store EXCEPT ![k] = r]
      BY <1>1, <1>2, <1>6, <2>1 DEF Finish, Save, Shape
    <2>3. ~Done(store[k]) /\ proc[c].pc \in Locked
      BY <1>2, <2>2 DEF Settled, Creating, Locked, Finished, Done
    <2>4. FinalStatus(proc[c].copy) \in {"ready", "partial", "failed"}
      BY DEF FinalStatus
    <2>5. Done(r) /\ Plain(r)
      <3>1. r \in Record /\ r.status = FinalStatus(proc[c].copy)
        BY <2>1, <2>2, <2>4 DEF Sane, Record
      <3>2. QED
        BY <2>4, <3>1, RecordAssumption DEF Done, Plain
    <2>6. Settled'
      BY <1>2, <1>3, <1>4, <2>2, <2>3, <2>5, SettledSaves
    <2>7. \A j \in Checkpoints : StaysFinished(j)
      BY <1>1, <1>2, <1>3, <2>2, <2>3 DEF StaysFinished, SameScopes, Finished, Done, Types
    <2>8. QED
      BY <2>6, <2>7
  <1>7. CASE Note(c)
    <2>1. PICK r : r = [store[k] EXCEPT !.history = Append(@, proc[c].scope)]
      OBVIOUS
    <2>2. /\ proc[c].pc = "note" /\ store' = [store EXCEPT ![k] = r]
      BY <1>2, <1>7, <2>1 DEF Note, Save
    <2>3. proc[c].scope \in {"user", "system"}
      BY <1>1 DEF Shape, Types, Process
    <2>4. Done(store[k]) /\ proc[c].pc \in Locked
      BY <1>2, <2>2 DEF Settled, Held, Locked, Finished, Done
    <2>5. store[k] \in Record /\ store[k].history \in Seq({"user", "system"})
      BY <1>1, <1>4, <2>4 DEF OnRecord, Done, Sane, Record
    <2>6. /\ r \in Record /\ SameScopes(store[k], r)
          /\ r.history = Append(store[k].history, proc[c].scope)
      <3>1. Append(store[k].history, proc[c].scope) \in Seq({"system", "user"})
        BY <2>3, <2>5
      <3>2. /\ r.status = store[k].status /\ r.system = store[k].system /\ r.user = store[k].user
            /\ r.include = store[k].include /\ r.snapshots = store[k].snapshots
            /\ r.history = Append(store[k].history, proc[c].scope) /\ r \in Record
        BY <2>1, <2>5, <3>1 DEF Record
      <3>3. QED
        BY <3>2 DEF SameScopes
    <2>7. Done(r) /\ Plain(r)
      BY <2>4, <2>6, RecordAssumption DEF SameScopes, Done, Plain
    <2>8. Settled'
      BY <1>2, <1>3, <1>4, <2>2, <2>4, <2>6, <2>7, SettledSaves
    <2>9. \A j \in Checkpoints : StaysFinished(j)
      <3>1. store'[k] = r /\ \A j \in Checkpoints \ {k} : store'[j] = store[j]
        BY <1>1, <2>2 DEF Types
      <3>2. StaysFinished(k)
        <4>1. store'[k] # None /\ SameScopes(store[k], store'[k])
          BY <2>6, <2>7, <3>1 DEF Done
        <4>2. \E scope \in {"user", "system"} : store'[k].history = Append(store[k].history, scope)
          BY <2>3, <2>6, <3>1
        <4>3. QED
          BY <1>3, <4>1, <4>2 DEF StaysFinished
      <3>3. \A j \in Checkpoints \ {k} : StaysFinished(j)
        BY <1>3, <3>1 DEF StaysFinished, SameScopes, Finished
      <3>4. QED
        BY <3>2, <3>3
    <2>10. QED
      BY <2>8, <2>9
  <1>8. QED
    BY <1>5, <1>6, <1>7 DEF Ends, Abort, SystemRestoreFails, SaveFails, Crash

(* Every step keeps what is settled. *)
LEMMA SettledStep ==
  ASSUME Inv, Settled, [Next]_vars
  PROVE  Settled' /\ \A k \in Checkpoints : StaysFinished(k)
  <1>1. CASE UNCHANGED <<dir, store, files, proc>>
    BY <1>1, NothingChanged DEF Settled, Finished
  <1>2. ASSUME NEW c \in Procs, Begins(c) \/ Creates(c) \/ Restores(c) \/ Ends(c)
        PROVE  Settled' /\ \A k \in Checkpoints : StaysFinished(k)
    BY <1>2, SettledBegins, SettledCreates, SettledRestores, SettledEnds
  <1>3. QED
    BY <1>1, <1>2, NextIs DEF vars, EditFile

LEMMA InitSettled == Init => Settled
  BY IdleShape DEF Init, Settled, Creating, Held, Restoring

(* What a restore has loaded before it took the lock is what is on disk,   *)
(* but for the history, and it is the record of a finished checkpoint:     *)
(* what a dead creation left is never restored (load, store.lock).         *)
RestoresFinished ==
  \A c \in Procs : proc[c].pc \in {"lock", "apply", "note"} \cup Restoring =>
    /\ store[proc[c].on] # None /\ store[proc[c].on].status # "creating"
    /\ SameScopes(proc[c].copy, store[proc[c].on])

(* A restore works on the record of a finished checkpoint, and what it     *)
(* loaded before it took the lock is still right when it uses it.          *)
THEOREM OnlyFinishedIsRestored == Spec => []RestoresFinished
  <1>1. Inv /\ Settled /\ [Next]_vars => Settled'
    BY SettledStep
  <1>2. Settled => RestoresFinished
    BY DEF Settled, RestoresFinished, Finished, Held
  <1>3. QED
    BY <1>1, <1>2, Invariance, InitSettled, PTL DEF Spec

(* Once create_checkpoint has saved its result, no command changes what    *)
(* the checkpoint captured, neither the copies nor what is on record of    *)
(* its scopes; restores add to the history, one entry at a time.           *)
THEOREM FinishedIsFinal == Spec => [][\A k \in Checkpoints : StaysFinished(k)]_vars
  <1>1. Inv /\ Settled /\ [Next]_vars => Settled'
    BY SettledStep
  <1>2. Inv /\ Settled /\ [Next]_vars => [\A k \in Checkpoints : StaysFinished(k)]_vars
    BY SettledStep
  <1>3. QED
    BY <1>1, <1>2, Invariance, InitSettled, PTL DEF Spec

-----------------------------------------------------------------------------
(* Progress: locks come free, and commands come to their end.              *)

LocksAreHeld ==
  \A k \in Checkpoints : lock[k] # None =>
    proc[lock[k]].pc \in Locked /\ proc[lock[k]].on = k

(* A process that becomes r, on the checkpoint it was on, with its lock. *)
LEMMA OnwardLocks ==
  ASSUME Inv, LocksAreHeld, NEW c \in Procs, proc' = [proc EXCEPT ![c] = proc'[c]],
         \A k \in Checkpoints : lock'[k] # None =>
           \/ lock'[k] = lock[k] /\ lock[k] # c
           \/ lock'[k] = c /\ proc'[c].pc \in Locked /\ proc'[c].on = k
  PROVE  LocksAreHeld'
  <1> SUFFICES ASSUME NEW k \in Checkpoints, lock'[k] # None
               PROVE  proc'[lock'[k]].pc \in Locked /\ proc'[lock'[k]].on = k
    BY DEF LocksAreHeld
  <1>1. CASE lock'[k] = lock[k] /\ lock[k] # c
    <2>1. lock[k] \in Procs \ {c}
      BY <1>1 DEF Inv, Types
    <2>2. proc'[lock[k]] = proc[lock[k]]
      BY <2>1 DEF Inv, Types
    <2>3. QED
      BY <1>1, <2>2 DEF LocksAreHeld
  <1>2. CASE lock'[k] = c /\ proc'[c].pc \in Locked /\ proc'[c].on = k
    BY <1>2
  <1>3. QED
    BY <1>1, <1>2

LEMMA NextLocks ==
  ASSUME Inv, LocksAreHeld, [Next]_vars
  PROVE  LocksAreHeld'
  <1> USE DEF Inv
  <1>1. CASE UNCHANGED <<lock, proc>>
    BY <1>1 DEF LocksAreHeld
  <1>2. ASSUME NEW c \in Procs, Begins(c) PROVE LocksAreHeld'
    <2>1. proc[c].pc = "idle"
      BY <1>2 DEF Begins, Create, OpenUserRestore, OpenSystemRestore, Began
    <2>2. \A k \in Checkpoints : lock[k] # c
      BY <2>1, CheckpointsAssumption DEF LocksAreHeld, Locked, Creating, Restoring
    <2>3. ASSUME NEW k \in Checkpoints, NEW system \in BOOLEAN, NEW policy \in Policies,
                 Create(c, k, system, policy)
          PROVE  LocksAreHeld'
      <3>1. PICK r : r = NewRecord(system, policy)
        OBVIOUS
      <3>2. PICK q : q = [Idle EXCEPT !.pc = "claimed", !.on = k, !.copy = r]
        OBVIOUS
      <3>3. q.pc = "claimed" /\ q.on = k
        BY <3>2 DEF Idle
      <3>4. proc' = [proc EXCEPT ![c] = q] /\ lock' = [lock EXCEPT ![k] = c]
        BY <2>3, <3>1, <3>2 DEF Create, Become
      <3>5. proc'[c] = q /\ proc' = [proc EXCEPT ![c] = proc'[c]]
        BY <3>4 DEF Types
      <3>6. \A j \in Checkpoints : lock'[j] = IF j = k THEN c ELSE lock[j]
        BY <3>4 DEF Types
      <3>7. QED
        BY <2>2, <3>3, <3>5, <3>6, OnwardLocks DEF Locked, Creating
    <2>4. ASSUME NEW k \in Checkpoints, OpenUserRestore(c, k) \/ OpenSystemRestore(c, k)
          PROVE  LocksAreHeld'
      <3>1. UNCHANGED lock /\ \E q : proc' = [proc EXCEPT ![c] = q]
        BY <2>4 DEF OpenUserRestore, OpenSystemRestore, Become
      <3>2. proc' = [proc EXCEPT ![c] = proc'[c]]
        BY <3>1 DEF Types
      <3>3. QED
        BY <2>2, <3>1, <3>2, OnwardLocks
    <2>5. QED
      BY <1>2, <2>3, <2>4 DEF Begins
  <1>3. ASSUME NEW c \in Procs, Creates(c) PROVE LocksAreHeld'
    <2>1. /\ proc' = [proc EXCEPT ![c] = proc'[c]] /\ proc'[c].pc \in Creating
          /\ proc'[c].on = proc[c].on
      BY <1>3, CreateGoesOn DEF Types, Creates
    <2>2. UNCHANGED lock
      BY <1>3 DEF Creates, WriteCreating, TakeSnapshot, SnapshotFails, Capture, CaptureFails
    <2>3. QED
      BY <2>1, <2>2, OnwardLocks DEF LocksAreHeld, Locked
  <1>4. ASSUME NEW c \in Procs, Restores(c) PROVE LocksAreHeld'
    <2>1. Types /\ Shape(proc[c]) /\ proc[c].on \in Checkpoints
      <3>1. proc[c].pc # "idle"
        BY <1>4 DEF Restores, LockRestore, ApplySystemRestore, BackUp, RemoveTarget, CopyTarget,
               RestoreFails, UndoRemove, UndoCopy, UndoFails
      <3>2. QED
        BY <3>1 DEF Shape
    <2>2. proc' = [proc EXCEPT ![c] = proc'[c]] /\ Kept(proc[c], proc'[c]) /\ Moves(proc[c], proc'[c])
      BY <1>4, <2>1, RestoreMoves DEF Types, Restores, Moves
    <2>3. CASE LockRestore(c)
      <3>1. Locks(proc[c], proc'[c]) /\ proc[c].pc = "lock"
        BY <2>1, <2>3, RestoreMoves DEF Types, LockRestore
      <3>2. proc'[c].pc \in Locked /\ proc'[c].on = proc[c].on
        BY <2>2, <3>1 DEF Locks, Kept, Locked, Restoring
      <3>3. \A j \in Checkpoints : lock'[j] = IF j = proc[c].on THEN c ELSE lock[j]
        BY <2>3 DEF LockRestore, Types
      <3>4. \A j \in Checkpoints : lock[j] # c
        BY <3>1, CheckpointsAssumption DEF LocksAreHeld, Locked, Creating, Restoring
      <3>5. QED
        BY <2>2, <3>2, <3>3, <3>4, OnwardLocks
    <2>4. CASE ~LockRestore(c)
      <3>1. UNCHANGED lock
        BY <1>4, <2>4 DEF Restores, ApplySystemRestore, BackUp, RemoveTarget, CopyTarget,
               RestoreFails, UndoRemove, UndoCopy, UndoFails
      <3>2. proc[c].pc \in Locked => proc'[c].pc \in Locked
        BY <2>2 DEF Moves, Locks, BacksUp, Removes, Replaces, Fails, Undoes,
                    Locked, Creating, Restoring
      <3>3. proc'[c].on = proc[c].on
        BY <2>2 DEF Kept
      <3>4. QED
        BY <2>2, <3>1, <3>2, <3>3, OnwardLocks DEF LocksAreHeld
    <2>5. QED
      BY <2>3, <2>4
  <1>5. ASSUME NEW c \in Procs, Ends(c) PROVE LocksAreHeld'
    <2>1. proc' = [proc EXCEPT ![c] = Idle]
      BY <1>5 DEF Ends, Finish, Abort, Note, SystemRestoreFails, SaveFails, Crash, Release, Become
    <2>2. proc' = [proc EXCEPT ![c] = proc'[c]]
      BY <2>1 DEF Types
    <2>3. \A k \in Checkpoints : lock'[k] # None => lock'[k] = lock[k] /\ lock[k] # c
      <3>1. CASE lock' = [k \in Checkpoints |-> IF lock[k] = c THEN None ELSE lock[k]]
        BY <3>1
      <3>2. CASE SystemRestoreFails(c)
        <4>1. proc[c].pc = "apply" /\ UNCHANGED lock
          BY <3>2 DEF SystemRestoreFails
        <4>2. \A k \in Checkpoints : lock[k] # c
          BY <4>1, CheckpointsAssumption DEF LocksAreHeld, Locked, Creating, Restoring
        <4>3. QED
          BY <4>1, <4>2
      <3>3. QED
        BY <1>5, <3>1, <3>2 DEF Ends, Finish, Abort, Note, SaveFails, Crash, Release
    <2>4. QED
      BY <2>2, <2>3, OnwardLocks
  <1>6. QED
    BY <1>1, <1>2, <1>3, <1>4, <1>5, NextIs DEF vars, EditFile

(* A command that ends, fails or dies gives its checkpoint free: each lock *)
(* is held by a live command that works on this checkpoint (store.lock).   *)
THEOREM LocksAreAlwaysHeld == Spec => []LocksAreHeld
  <1>1. Init => LocksAreHeld
    BY DEF Init, LocksAreHeld
  <1>2. QED
    BY <1>1, NextLocks, Invariance, PTL DEF Spec

(* The guards of the steps of a command: only the lock makes it wait, and  *)
(* the loops find what they are to work on.                                *)
CanGoOn(c) ==
  LET q == proc[c] IN
  \/ q.pc \in {"claimed", "finish", "abort", "note", "apply"}
  \/ q.pc = "snapshots" /\ q.next \in DOMAIN Configurations
  \/ q.pc \in {"capture", "backup", "remove", "copy"} /\ q.next \in DOMAIN q.copy.include
  \/ q.pc \in {"undo", "undo_copy"} /\ q.undo # <<>>
  \/ q.pc = "lock" /\ LockFree(q.on)

NobodyIsStuck ==
  \A c \in Procs : proc[c].pc # "idle" =>
    \/ CanGoOn(c)
    \/ \E e \in Procs : /\ e # c /\ lock[proc[c].on] = e
                         /\ proc[e].pc # "lock" /\ CanGoOn(e)

LEMMA AtWorkGoesOn ==
  ASSUME Inv, NEW c \in Procs, proc[c].pc \notin {"idle", "lock"}
  PROVE  CanGoOn(c)
  <1>1. /\ Shape(proc[c]) /\ proc[c] \in Process
        /\ proc[c].pc \in {"apply"} \cup Locked
    BY DEF Inv, Shape, Process
  <1>2. /\ Sane(proc[c].copy) /\ proc[c].copy.include \in Seq(Paths)
        /\ DOMAIN proc[c].copy.include = 1..Len(proc[c].copy.include)
        /\ DOMAIN Configurations = 1..Len(Configurations)
    BY <1>1, PolicyAssumption, CheckpointsAssumption DEF Shape, Sane, Record
  <1>3. CASE proc[c].pc \in Creating
    BY <1>1, <1>2, <1>3 DEF Shape, CreateShape, Creating, CanGoOn
  <1>4. CASE proc[c].pc \in {"undo", "undo_copy"}
    <2>1. Len(proc[c].undo) \in 1..Len(proc[c].backup) /\ proc[c].backup \in Seq(Saved)
      BY <1>1, <1>4 DEF Shape, RestoreShape, Process
    <2>2. proc[c].undo = <<>> => Len(proc[c].undo) = 0
      OBVIOUS
    <2>3. QED
      BY <1>4, <2>1, <2>2 DEF CanGoOn
  <1>5. CASE proc[c].pc \in {"backup", "remove", "copy"}
    BY <1>1, <1>2, <1>5 DEF Shape, RestoreShape, CanGoOn
  <1>6. QED
    BY <1>1, <1>3, <1>4, <1>5 DEF Locked, Restoring, CanGoOn

(* A command that is under way can go on, or waits for a lock whose holder *)
(* can: no command waits for one that waits or is gone, and no loop over   *)
(* configurations, paths or backups runs past what it goes through.        *)
THEOREM NobodyIsEverStuck == Spec => []NobodyIsStuck
  <1>1. Inv /\ LocksAreHeld => NobodyIsStuck
    <2> SUFFICES ASSUME Inv, LocksAreHeld, NEW c \in Procs, proc[c].pc # "idle", ~CanGoOn(c)
                 PROVE  \E e \in Procs : /\ e # c /\ lock[proc[c].on] = e
                                         /\ proc[e].pc # "lock" /\ CanGoOn(e)
      BY DEF NobodyIsStuck
    <2>1. proc[c].pc = "lock"
      BY AtWorkGoesOn
    <2>2. lock[proc[c].on] # None /\ proc[c].on \in Checkpoints
      BY <2>1 DEF CanGoOn, LockFree, Inv, Shape
    <2>3. PICK e \in Procs : e = lock[proc[c].on]
      BY <2>2 DEF Inv, Types
    <2>4. proc[e].pc \in Locked
      BY <2>2, <2>3 DEF LocksAreHeld
    <2>5. proc[e].pc \notin {"idle", "lock"}
      BY <2>4 DEF Locked, Creating, Restoring
    <2>6. QED
      BY <2>1, <2>3, <2>5, AtWorkGoesOn
  <1>2. QED
    BY <1>1, Invariance, LocksAreAlwaysHeld, PTL

Snapshots  == Len(Configurations)
Entries(q) == Len(q.copy.include)
ToUndo(q)  == Len(q.undo)

(* How many steps a command may still take: one for each snapshot or path  *)
(* to capture; for each path to restore one to back it up, two to replace  *)
(* it and two to put it back; and those before and after the loops.        *)
StepsLeft(q) ==
  LET l == Entries(q) IN
  CASE q.pc = "idle"      -> 0
    [] q.pc \in {"finish", "note", "abort"} -> 1
    [] q.pc = "claimed"   -> l + Snapshots + 3
    [] q.pc = "snapshots" -> l + (Snapshots - q.next) + 3
    [] q.pc = "capture"   -> (l - q.next) + 2
    [] q.pc = "apply"     -> 5 * l + 4
    [] q.pc = "lock"      -> 5 * l + 3
    [] q.pc = "backup"    -> 4 * l + (l - q.next) + 3
    [] q.pc = "remove"    -> 2 * l + 2 * (l - q.next) + 4
    [] q.pc = "copy"      -> 2 * l + 2 * (l - q.next) + 3
    [] q.pc = "undo"      -> 2 * ToUndo(q) + 1
    [] q.pc = "undo_copy" -> 2 * ToUndo(q)

LEMMA StepsLeftAt ==
  ASSUME NEW q
  PROVE  LET l == Entries(q) IN
         /\ q.pc = "idle"      => StepsLeft(q) = 0
         /\ q.pc \in {"finish", "note", "abort"} => StepsLeft(q) = 1
         /\ q.pc = "claimed"   => StepsLeft(q) = l + Snapshots + 3
         /\ q.pc = "snapshots" => StepsLeft(q) = l + (Snapshots - q.next) + 3
         /\ q.pc = "capture"   => StepsLeft(q) = (l - q.next) + 2
         /\ q.pc = "apply"     => StepsLeft(q) = 5 * l + 4
         /\ q.pc = "lock"      => StepsLeft(q) = 5 * l + 3
         /\ q.pc = "backup"    => StepsLeft(q) = 4 * l + (l - q.next) + 3
         /\ q.pc = "remove"    => StepsLeft(q) = 2 * l + 2 * (l - q.next) + 4
         /\ q.pc = "copy"      => StepsLeft(q) = 2 * l + 2 * (l - q.next) + 3
         /\ q.pc = "undo"      => StepsLeft(q) = 2 * ToUndo(q) + 1
         /\ q.pc = "undo_copy" => StepsLeft(q) = 2 * ToUndo(q)
  BY DEF StepsLeft

LEMMA CountsAreNumbers ==
  ASSUME NEW q, Shape(q), q.pc # "idle"
  PROVE  /\ Snapshots \in Nat /\ Entries(q) \in Nat /\ ToUndo(q) \in Nat /\ q.next \in Nat
         /\ Len(q.backup) \in Nat
         /\ q.pc = "claimed" => q.next = 1
         /\ q.pc = "snapshots" => q.next \in 1..Snapshots
         /\ q.pc \in {"capture", "backup", "remove", "copy"} => q.next \in 1..Entries(q)
         /\ q.pc = "backup" => Len(q.backup) = q.next - 1
         /\ q.pc \in {"remove", "copy"} => Len(q.backup) = Entries(q)
         /\ q.pc \in {"undo", "undo_copy"} => ToUndo(q) \in 1..Len(q.backup)
  <1>1. /\ q \in Process /\ Sane(q.copy) /\ CreateShape(q) /\ RestoreShape(q)
    BY DEF Shape
  <1>2. q.copy.include \in Seq(Paths) /\ Configurations \in Seq(ToSet(Configurations))
        /\ q.undo \in Seq(Saved) /\ q.backup \in Seq(Saved) /\ q.next \in Nat
    BY <1>1, PolicyAssumption, CheckpointsAssumption DEF Sane, Record, Process
  <1>3. Snapshots \in Nat /\ Entries(q) \in Nat /\ ToUndo(q) \in Nat /\ Len(q.backup) \in Nat
    BY <1>2 DEF Snapshots, Entries, ToUndo
  <1>4. /\ q.pc = "claimed" => q.next = 1
        /\ q.pc = "snapshots" => q.next \in 1..Snapshots
        /\ q.pc = "capture" => q.next \in 1..Entries(q)
    BY <1>1 DEF CreateShape, Creating, Snapshots, Entries
  <1>5. /\ q.pc \in {"backup", "remove", "copy"} => q.next \in 1..Entries(q)
        /\ q.pc = "backup" => Len(q.backup) = q.next - 1
        /\ q.pc \in {"remove", "copy"} => Len(q.backup) = Entries(q)
        /\ q.pc \in {"undo", "undo_copy"} => ToUndo(q) \in 1..Len(q.backup)
    BY <1>1 DEF RestoreShape, Entries, ToUndo
  <1>6. QED
    BY <1>2, <1>3, <1>4, <1>5

(* What a step makes of a command that creates. *)
Advances(q, r) ==
  /\ r.copy.include = q.copy.include
  /\ \/ q.pc = "claimed" /\ r.pc \in {"snapshots", "capture", "finish"} /\ r.next = 1
     \/ q.pc = "snapshots" /\ r.pc = "snapshots" /\ r.next = q.next + 1
     \/ q.pc = "snapshots" /\ r.pc \in {"capture", "finish"} /\ r.next = 1
     \/ q.pc = "capture" /\ r.pc = "capture" /\ r.next = q.next + 1
     \/ q.pc = "capture" /\ r.pc = "finish"

LEMMA CreateAdvances ==
  ASSUME Inv, NEW c \in Procs, Creates(c)
  PROVE  Advances(proc[c], proc'[c])
  <1> DEFINE q == proc[c]
  <1>1. /\ q \in Process /\ q.pc \in Creating /\ Sane(q.copy) /\ q.copy \in Record
        /\ CreateShape(q) /\ proc \in [Procs -> Process]
    BY DEF Inv, Types, Shape, Sane, Creates, WriteCreating, TakeSnapshot, SnapshotFails, Capture,
           CaptureFails, Creating
  <1>2. ASSUME NEW r, GoOn(c, r)
        PROVE  proc'[c].copy = r /\ proc'[c].pc = NextScope(r) /\ proc'[c].next = 1
    BY <1>1, <1>2 DEF GoOn, Become, Process
  <1>3. CASE WriteCreating(c)
    <2>1. q.pc = "claimed" /\ q.next = 1
      BY <1>1, <1>3 DEF WriteCreating, CreateShape
    <2>2. /\ proc'[c].copy = q.copy /\ proc'[c].pc = NextScope(q.copy) /\ proc'[c].next = q.next
      BY <1>1, <1>3 DEF WriteCreating, Become, Process
    <2>3. QED
      BY <2>1, <2>2 DEF Advances, NextScope
  <1>4. CASE TakeSnapshot(c)
    <2>1. PICK with : with = [q.copy EXCEPT !.snapshots = @ \cup {Configurations[q.next]}]
      OBVIOUS
    <2>2. q.pc = "snapshots" /\ with.include = q.copy.include
      BY <1>1, <1>4, <2>1 DEF TakeSnapshot, Record
    <2>3. \/ Become(c, [q EXCEPT !.copy = with, !.next = q.next + 1])
          \/ GoOn(c, [with EXCEPT !.system = "captured"])
      BY <1>4, <2>1 DEF TakeSnapshot
    <2>4. CASE Become(c, [q EXCEPT !.copy = with, !.next = q.next + 1])
      <3>1. proc'[c].copy = with /\ proc'[c].next = q.next + 1 /\ proc'[c].pc = q.pc
        BY <1>1, <2>4 DEF Become, Process
      <3>2. QED
        BY <2>2, <3>1 DEF Advances
    <2>5. CASE GoOn(c, [with EXCEPT !.system = "captured"])
      <3>1. PICK r : r = [with EXCEPT !.system = "captured"]
        OBVIOUS
      <3>2. r.include = with.include /\ r.system = "captured"
        BY <1>1, <2>1, <3>1 DEF Record
      <3>3. proc'[c].copy = r /\ proc'[c].pc = NextScope(r) /\ proc'[c].next = 1
        BY <1>2, <2>5, <3>1
      <3>4. QED
        BY <2>2, <3>2, <3>3 DEF Advances, NextScope
    <2>6. QED
      BY <2>3, <2>4, <2>5
  <1>5. CASE SnapshotFails(c)
    <2>1. PICK r : r = [q.copy EXCEPT !.system = "failed"]
      OBVIOUS
    <2>2. q.pc = "snapshots" /\ r.include = q.copy.include /\ r.system = "failed"
      BY <1>1, <1>5, <2>1 DEF SnapshotFails, Record
    <2>3. proc'[c].copy = r /\ proc'[c].pc = NextScope(r) /\ proc'[c].next = 1
      BY <1>2, <1>5, <2>1 DEF SnapshotFails
    <2>4. QED
      BY <2>2, <2>3 DEF Advances, NextScope
  <1>6. CASE Capture(c) \/ CaptureFails(c)
    <2>1. q.pc = "capture"
      BY <1>6 DEF Capture, CaptureFails
    <2>2. q.copy.system # "planned"
      BY <1>1, <2>1 DEF CreateShape, NextScope
    <2>3. CASE Become(c, [q EXCEPT !.next = q.next + 1])
      <3>1. proc'[c].copy = q.copy /\ proc'[c].next = q.next + 1 /\ proc'[c].pc = q.pc
        BY <1>1, <2>3 DEF Become, Process
      <3>2. QED
        BY <2>1, <3>1 DEF Advances
    <2>4. ASSUME NEW u \in {"captured", "failed"}, GoOn(c, [q.copy EXCEPT !.user = u])
          PROVE  Advances(q, proc'[c])
      <3>1. PICK r : r = [q.copy EXCEPT !.user = u]
        OBVIOUS
      <3>2. r.include = q.copy.include /\ r.user = u /\ r.system = q.copy.system
        BY <1>1, <3>1 DEF Record
      <3>3. proc'[c].copy = r /\ proc'[c].pc = NextScope(r)
        BY <1>2, <2>4, <3>1
      <3>4. QED
        BY <2>1, <2>2, <3>2, <3>3 DEF Advances, NextScope
    <2>5. QED
      BY <1>6, <2>3, <2>4 DEF Capture, CaptureFails
  <1>7. QED
    BY <1>3, <1>4, <1>5, <1>6 DEF Creates

LEMMA AdvancesOnward ==
  ASSUME NEW q, NEW r, Shape(q), q.pc # "idle", Advances(q, r)
  PROVE  StepsLeft(r) < StepsLeft(q)
  <1>1. Entries(r) = Entries(q)
    BY DEF Advances, Entries
  <1>2. Snapshots \in Nat /\ Entries(q) \in Nat /\ q.next \in Nat
    BY CountsAreNumbers
  <1>3. CASE q.pc = "claimed" /\ r.pc \in {"snapshots", "capture", "finish"} /\ r.next = 1
    BY <1>1, <1>2, <1>3, StepsLeftAt
  <1>4. CASE q.pc = "snapshots"
    <2>1. q.next \in 1..Snapshots
      BY <1>4, CountsAreNumbers
    <2>2. StepsLeft(q) = Entries(q) + (Snapshots - q.next) + 3
      BY <1>4, StepsLeftAt
    <2>3. \/ r.pc = "snapshots" /\ r.next = q.next + 1
          \/ r.pc = "capture" /\ r.next = 1
          \/ r.pc = "finish"
      BY <1>4 DEF Advances
    <2>4. QED
      BY <1>1, <1>2, <2>1, <2>2, <2>3, StepsLeftAt
  <1>5. CASE q.pc = "capture"
    <2>1. q.next \in 1..Entries(q)
      BY <1>5, CountsAreNumbers
    <2>2. StepsLeft(q) = (Entries(q) - q.next) + 2
      BY <1>5, StepsLeftAt
    <2>3. \/ r.pc = "capture" /\ r.next = q.next + 1
          \/ r.pc = "finish"
      BY <1>5 DEF Advances
    <2>4. QED
      BY <1>1, <1>2, <2>1, <2>2, <2>3, StepsLeftAt
  <1>6. QED
    BY <1>3, <1>4, <1>5 DEF Advances

LEMMA MovesOnward ==
  ASSUME NEW q, NEW r, Shape(q), q.pc # "idle", Kept(q, r), Moves(q, r)
  PROVE  StepsLeft(r) < StepsLeft(q)
  <1>1. Entries(r) = Entries(q)
    BY DEF Kept, Entries
  <1>2. Entries(q) \in Nat /\ ToUndo(q) \in Nat /\ q.next \in Nat /\ Len(q.backup) \in Nat
    BY CountsAreNumbers
  <1>3. CASE Locks(q, r)
    <2>1. q.pc = "lock" => q.next = 1
      BY <1>3 DEF Shape, RestoreShape
    <2>2. \/ q.pc = "apply" /\ r.pc = "lock"
          \/ q.pc = "lock" /\ r.pc = "backup" /\ r.next = 1
          \/ q.pc = "lock" /\ r.pc = "note"
      BY <1>3, <2>1 DEF Locks
    <2>3. QED
      BY <1>1, <1>2, <2>2, StepsLeftAt
  <1>4. CASE BacksUp(q, r)
    <2>1. q.pc = "backup" /\ q.next \in 1..Entries(q)
      BY <1>4, CountsAreNumbers DEF BacksUp
    <2>2. StepsLeft(q) = 4 * Entries(q) + (Entries(q) - q.next) + 3
      BY <2>1, StepsLeftAt
    <2>3. \/ r.pc = "remove" /\ r.next = 1
          \/ r.pc = "backup" /\ r.next = q.next + 1
      BY <1>4 DEF BacksUp
    <2>4. \/ StepsLeft(r) = 2 * Entries(q) + 2 * (Entries(q) - 1) + 4
          \/ StepsLeft(r) = 4 * Entries(q) + (Entries(q) - (q.next + 1)) + 3
      BY <1>1, <2>3, StepsLeftAt
    <2>5. \A l \in Nat : \A n \in 1..l :
            /\ 2 * l + 2 * (l - 1) + 4 < 4 * l + (l - n) + 3
            /\ 4 * l + (l - (n + 1)) + 3 < 4 * l + (l - n) + 3
      OBVIOUS
    <2>6. QED
      BY <1>2, <2>1, <2>2, <2>4, <2>5
  <1>5. CASE Removes(q, r) \/ (q.pc = "copy" /\ Replaces(q, r))
    <2>1. q.pc \in {"remove", "copy"} /\ q.next \in 1..Entries(q)
      BY <1>5, CountsAreNumbers DEF Removes
    <2>2. StepsLeft(q) \geq 2 * Entries(q) + 2 * (Entries(q) - q.next) + 3
      BY <1>2, <2>1, StepsLeftAt
    <2>3. q.pc = "remove" => StepsLeft(q) = 2 * Entries(q) + 2 * (Entries(q) - q.next) + 4
      BY StepsLeftAt
    <2>4. \/ q.pc = "remove" /\ r.pc = "copy" /\ r.next = q.next
          \/ r.pc = "note"
          \/ r.pc = "remove" /\ r.next = q.next + 1
      BY <1>5 DEF Removes, Replaces
    <2>5. CASE r.pc = "copy" /\ q.pc = "remove" /\ r.next = q.next
      <3>1. StepsLeft(r) = 2 * Entries(q) + 2 * (Entries(q) - q.next) + 3
        BY <1>1, <2>5, StepsLeftAt
      <3>2. QED
        BY <1>2, <2>3, <2>5, <3>1
    <2>6. CASE r.pc = "note"
      BY <1>2, <2>1, <2>2, <2>6, StepsLeftAt
    <2>7. CASE r.pc = "remove" /\ r.next = q.next + 1
      <3>1. StepsLeft(r) = 2 * Entries(q) + 2 * (Entries(q) - (q.next + 1)) + 4
        BY <1>1, <2>7, StepsLeftAt
      <3>2. q.pc = "copy" => StepsLeft(q) = 2 * Entries(q) + 2 * (Entries(q) - q.next) + 3
        BY StepsLeftAt
      <3>3. \A l, n \in Nat : 2 * l + 2 * (l - (n + 1)) + 4 < 2 * l + 2 * (l - n) + 3
        OBVIOUS
      <3>4. \A l, n \in Nat : 2 * l + 2 * (l - (n + 1)) + 4 < 2 * l + 2 * (l - n) + 4
        OBVIOUS
      <3>5. CASE q.pc = "remove"
        BY <1>2, <2>3, <3>1, <3>4, <3>5
      <3>6. CASE q.pc = "copy"
        BY <1>2, <3>1, <3>2, <3>3, <3>6
      <3>7. QED
        BY <2>1, <3>5, <3>6
    <2>8. QED
      BY <2>4, <2>5, <2>6, <2>7
  <1>6. CASE Fails(q, r)
    <2>1. /\ q.pc \in {"backup", "remove", "copy"} /\ q.next \in 1..Entries(q)
          /\ Len(q.backup) <= Entries(q)
      BY <1>2, <1>6, CountsAreNumbers DEF Fails
    <2>2. q.backup \in Seq(Saved)
      BY DEF Shape, Process
    <2>3. ToUndo(r) = Len(q.backup)
      BY <1>6, <2>2, ReverseIs DEF Fails, ToUndo
    <2>4. StepsLeft(q) \geq 2 * Entries(q) + 3
      <3>1. \/ StepsLeft(q) = 4 * Entries(q) + (Entries(q) - q.next) + 3
            \/ StepsLeft(q) = 2 * Entries(q) + 2 * (Entries(q) - q.next) + 4
            \/ StepsLeft(q) = 2 * Entries(q) + 2 * (Entries(q) - q.next) + 3
        BY <2>1, StepsLeftAt
      <3>2. \A l \in Nat : \A n \in 1..l : /\ 4 * l + (l - n) + 3 \geq 2 * l + 3
                                          /\ 2 * l + 2 * (l - n) + 4 \geq 2 * l + 3
                                          /\ 2 * l + 2 * (l - n) + 3 \geq 2 * l + 3
        OBVIOUS
      <3>3. QED
        BY <1>2, <2>1, <3>1, <3>2
    <2>5. r.pc \in {"abort", "undo"}
      BY <1>6 DEF Fails
    <2>6. StepsLeft(r) <= 2 * Len(q.backup) + 1
      <3>1. StepsLeft(r) = 1 \/ StepsLeft(r) = 2 * Len(q.backup) + 1
        BY <2>3, <2>5, StepsLeftAt
      <3>2. QED
        BY <1>2, <3>1
    <2>7. StepsLeft(r) \in Nat /\ StepsLeft(q) \in Int
      <3>1. StepsLeft(r) \in Nat
        BY <1>2, <2>3, <2>5, StepsLeftAt
      <3>2. /\ q.pc = "backup" => StepsLeft(q) = 4 * Entries(q) + (Entries(q) - q.next) + 3
            /\ q.pc = "remove" => StepsLeft(q) = 2 * Entries(q) + 2 * (Entries(q) - q.next) + 4
            /\ q.pc = "copy"   => StepsLeft(q) = 2 * Entries(q) + 2 * (Entries(q) - q.next) + 3
        BY StepsLeftAt
      <3>3. \A l, n \in Nat : /\ 4 * l + (l - n) + 3 \in Int
                              /\ 2 * l + 2 * (l - n) + 4 \in Int
                              /\ 2 * l + 2 * (l - n) + 3 \in Int
        OBVIOUS
      <3>4. StepsLeft(q) \in Int
        <4>1. Entries(q) \in Nat /\ q.next \in Nat
          BY <1>2
        <4>2. /\ 4 * Entries(q) + (Entries(q) - q.next) + 3 \in Int
              /\ 2 * Entries(q) + 2 * (Entries(q) - q.next) + 4 \in Int
              /\ 2 * Entries(q) + 2 * (Entries(q) - q.next) + 3 \in Int
          BY <3>3, <4>1
        <4>3. QED
          BY <2>1, <3>2, <4>2
      <3>5. QED
        BY <3>1, <3>4
    <2>8. QED
      BY <1>2, <2>1, <2>4, <2>6, <2>7
  <1>7. CASE Undoes(q, r)
    <2>1. q.pc \in {"undo", "undo_copy"} /\ ToUndo(q) \in 1..Len(q.backup) /\ q.undo \in Seq(Saved)
      BY <1>7, CountsAreNumbers DEF Undoes, Shape, Process
    <2>2. StepsLeft(q) = IF q.pc = "undo" THEN 2 * ToUndo(q) + 1 ELSE 2 * ToUndo(q)
      BY <2>1, StepsLeftAt
    <2>3. CASE q.pc = "undo" /\ r.pc = "undo_copy" /\ r.undo = q.undo
      <3>1. ToUndo(r) = ToUndo(q)
        BY <2>3 DEF ToUndo
      <3>2. QED
        BY <1>2, <2>2, <2>3, <3>1, StepsLeftAt
    <2>4. CASE r.undo = Tail(q.undo) /\ r.pc \in {"abort", "undo"}
      <3>1. ToUndo(r) = ToUndo(q) - 1
        <4>1. q.undo # <<>>
          BY <1>2, <2>1 DEF ToUndo
        <4>2. QED
          BY <2>1, <2>4, <4>1 DEF ToUndo
      <3>2. QED
        BY <1>2, <2>1, <2>2, <2>4, <3>1, StepsLeftAt
    <2>5. QED
      BY <1>7, <2>3, <2>4 DEF Undoes
  <1>8. QED
    BY <1>3, <1>4, <1>5, <1>6, <1>7 DEF Moves

(* Whatever command c does on its way brings its end nearer, and nobody    *)
(* else moves it.                                                          *)
Step(c) == Creates(c) \/ Restores(c) \/ Ends(c)

Onward(c) ==
  proc[c].pc # "idle" =>
    /\ StepsLeft(proc[c]) \in Nat
    /\ proc'[c] # proc[c] => StepsLeft(proc'[c]) < StepsLeft(proc[c])
    /\ Step(c) => StepsLeft(proc'[c]) < StepsLeft(proc[c])

LEMMA StepsLeftCounts ==
  ASSUME NEW q, Shape(q), q.pc # "idle"
  PROVE  StepsLeft(q) \in Nat \ {0}
  <1>1. q.pc \in {"lock", "apply", "claimed", "snapshots", "capture", "finish", "backup", "remove",
                  "copy", "undo", "undo_copy", "abort", "note"}
    BY DEF Shape, Process, Locked, Creating, Restoring
  <1>2. /\ Snapshots \in Nat /\ Entries(q) \in Nat /\ ToUndo(q) \in Nat /\ q.next \in Nat
        /\ Len(q.backup) \in Nat
    BY CountsAreNumbers
  <1>3. CASE q.pc \in {"lock", "apply", "claimed", "finish", "abort", "note"}
    BY <1>2, <1>3, StepsLeftAt
  <1>4. CASE q.pc = "snapshots"
    <2>1. q.next \in 1..Snapshots
      BY <1>4, CountsAreNumbers
    <2>2. QED
      BY <1>2, <1>4, <2>1, StepsLeftAt
  <1>5. CASE q.pc \in {"capture", "backup", "remove", "copy"}
    <2>1. q.next \in 1..Entries(q)
      BY <1>5, CountsAreNumbers
    <2>2. \A l, n \in Nat : n \in 1..l => l - n \in Nat
      OBVIOUS
    <2>3. Entries(q) - q.next \in Nat
      BY <1>2, <2>1, <2>2
    <2>4. \/ StepsLeft(q) = (Entries(q) - q.next) + 2
          \/ StepsLeft(q) = 4 * Entries(q) + (Entries(q) - q.next) + 3
          \/ StepsLeft(q) = 2 * Entries(q) + 2 * (Entries(q) - q.next) + 4
          \/ StepsLeft(q) = 2 * Entries(q) + 2 * (Entries(q) - q.next) + 3
      BY <1>5, StepsLeftAt
    <2>5. \A l, n \in Nat : /\ n + 2 \in Nat \ {0} /\ 4 * l + n + 3 \in Nat \ {0}
                            /\ 2 * l + 2 * n + 4 \in Nat \ {0} /\ 2 * l + 2 * n + 3 \in Nat \ {0}
      OBVIOUS
    <2>6. QED
      BY <1>2, <2>3, <2>4, <2>5
  <1>6. CASE q.pc \in {"undo", "undo_copy"}
    <2>1. ToUndo(q) \in 1..Len(q.backup)
      BY <1>6, CountsAreNumbers
    <2>2. QED
      BY <1>2, <1>6, <2>1, StepsLeftAt
  <1>7. QED
    BY <1>1, <1>3, <1>4, <1>5, <1>6

LEMMA NextOnward ==
  ASSUME Inv, [Next]_vars, NEW c \in Procs
  PROVE  Onward(c)
  <1> SUFFICES ASSUME proc[c].pc # "idle"
               PROVE  /\ StepsLeft(proc[c]) \in Nat \ {0}
                      /\ proc'[c] # proc[c] \/ Step(c) => StepsLeft(proc'[c]) < StepsLeft(proc[c])
    BY DEF Onward
  <1>1. Shape(proc[c]) /\ proc \in [Procs -> Process]
    BY DEF Inv, Types
  <1>2. StepsLeft(proc[c]) \in Nat \ {0}
    BY <1>1, StepsLeftCounts
  <1>3. CASE Creates(c)
    BY <1>1, <1>2, <1>3, CreateAdvances, AdvancesOnward
  <1>4. CASE Restores(c)
    <2>1. Kept(proc[c], proc'[c]) /\ Moves(proc[c], proc'[c])
      BY <1>1, <1>4, RestoreMoves DEF Restores, Moves, Inv, Types
    <2>2. QED
      BY <1>1, <1>2, <2>1, MovesOnward
  <1>5. CASE Ends(c)
    <2>1. proc'[c] = Idle
      BY <1>1, <1>5 DEF Ends, Finish, Abort, Note, SystemRestoreFails, SaveFails, Crash, Release, Become
    <2>2. StepsLeft(proc'[c]) = 0
      BY <2>1, IdleShape, StepsLeftAt
    <2>3. QED
      BY <1>2, <2>2
  <1>6. ASSUME NEW e \in Procs, e # c, Begins(e) \/ Creates(e) \/ Restores(e) \/ Ends(e)
        PROVE  proc'[c] = proc[c]
    <2>1. \E q : proc' = [proc EXCEPT ![e] = q]
      BY <1>6 DEF Begins, Create, OpenUserRestore, OpenSystemRestore, Creates, WriteCreating,
                  TakeSnapshot, SnapshotFails, Capture, CaptureFails, GoOn, Restores, LockRestore,
                  ApplySystemRestore, BackUp, RemoveTarget, CopyTarget, RestoreFails, UndoRemove,
                  UndoCopy, UndoFails, Ends, Finish, Abort, Note, SystemRestoreFails, SaveFails,
                  Crash, Release, Become
    <2>2. QED
      BY <1>1, <1>6, <2>1
  <1>7. ~Begins(c)
    BY DEF Begins, Create, OpenUserRestore, OpenSystemRestore, Began
  <1>8. CASE UNCHANGED proc
    BY <1>2, <1>3, <1>4, <1>5, <1>8 DEF Step
  <1>9. CASE ~UNCHANGED proc
    <2>1. \E e \in Procs : Begins(e) \/ Creates(e) \/ Restores(e) \/ Ends(e)
      BY <1>9, NextIs DEF vars, EditFile
    <2>2. QED
      BY <1>2, <1>3, <1>4, <1>5, <1>6, <1>7, <2>1 DEF Step
  <1>10. QED
    BY <1>8, <1>9

(* A command that runs only ever comes nearer to its end: it captures each *)
(* path once, replaces each once and puts each back at most once, whatever *)
(* fails, and no other command or program can set it back                  *)
(* (create_checkpoint, restore_config, _restore_backup).                   *)
THEOREM CommandsComeToAnEnd == Spec => [][\A c \in Procs : Onward(c)]_vars
  <1>1. Inv /\ [Next]_vars => [\A c \in Procs : Onward(c)]_vars
    BY NextOnward
  <1>2. QED
    BY <1>1, Invariance, PTL DEF Spec
=============================================================================

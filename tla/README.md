# Formal models of Jiritsu

This directory holds TLA+ models of Jiritsu, the TLC configurations that
check them on small instances, and proofs, checked by TLAPS, of most of their
safety properties for every instance. Paths such as `operations.py:228` are
relative to the package that the section is about; `PROJECT.json` maps every
definition to the lines it models.

## 1. The system

Jiritsu is six small tools around one user account. No tool is a server except
`jiritsu-stated serve`; the others are commands that start, work and end, so
concurrency means *commands that run at the same time on the same files*, and
a failure is a command that is killed, a call that raises, or another program
that changes the same files.

| Component | State it keeps | Operations | Hard behaviour |
| --- | --- | --- | --- |
| **proposals** (`jiritsu-proposals`) | one directory per proposal: lock file, `proposal.json`, copies of replaced files | create, classify, approve, reject, promote; list, show, history read | flock per proposal only; promotion is a dozen durable steps with a rollback; other programs and other promotions write the same configuration tree |
| **broker** (`jiritsu-broker`) | one append-only audit journal; a lock file per request ID; policy and approval files are read | execute a request, print the catalog | duplicate detection reads the journal; provider commands outlive a killed broker; torn lines |
| **stated** (`jiritsu-stated`, Rust) | in-memory cache of facts and errors, epoch; a Unix socket | serve (refresh worker, two timers, file watcher, accept loop), query with fallback | bounded channel, dropped notifications, partial refreshes, socket takeover, connection limit |
| **checkpoints** (`jiritsu-checkpoints`) | one directory per checkpoint: lock, `checkpoint.json`, copies of the selected configuration; Snapper snapshots | create, restore user configuration, restore system; list, show, inspect read | restore replaces several paths and must undo on failure; locks are taken late; partial scopes |
| **workload** (`jiritsu-workload`) | a directory of contract files, one per workload | apply (install a contract); list, query, assess read; validate, config | no lock at all: readers list the directory and open the files one by one while apply replaces one; the draft is read twice; facts that are missing, negative or late; aggregation |
| **skills** | text | none | none |

Interactions: the broker runs every other command as a child process with a
timeout. Promotion runs `jiritsu-workload` before and after its actions and
`jiritsu-checkpoints` for recovery data. Workload, checkpoints and proposals ask
`jiritsu-stated` for facts and collect them directly if it does not answer. All
of these are synchronous calls; everything else is shared files.

What makes each component correct:

* **proposals** — a record is changed by one command at a time and along the
  lifecycle only; effects come after the record says so; what was replaced can
  be found at every moment; rolled back means restored; what runs is what was
  classified; promotions end and locks come back.
* **broker** — no effect without a journal entry, without authority, or after a
  terminal result; the journal of a request reads in order.
* **stated** — answers have the status they deserve; no notified change is
  lost; the cache converges; the epoch counts; a serving daemon is reachable,
  a stale socket is no obstacle; queries end.
* **workload** — a reader sees the contracts before or after an installation;
  installing leaves the directory readable; a verdict follows from facts where
  there are some, from probes only where there are none.
* **checkpoints** — a restore that reports success has restored, one that
  reports failure has undone, one that is killed has lost nothing; "ready" means
  whole; the history is complete.

`PROJECT.json` lists the hazards behind these, each at its line.

## 2. Modules

| Module | Models | Built on |
| --- | --- | --- |
| `ProposalLifecycle` | abstract specification: histories that grow along lifecycle edges | |
| `Proposals` | commands, store and promotion of `jiritsu-proposals` | refines `ProposalLifecycle` |
| `ProposalsProofs`, `ProposalsRecordProofs` | theorems about `Proposals` | `Proposals`, TLAPS |
| `Broker` | broker processes and journal of `jiritsu-broker` | |
| `BrokerProofs`, `BrokerJournalProofs` | theorems about `Broker` | `Broker`, TLAPS |
| `StatedCache` | refresh and cache of the daemon | |
| `StatedCacheProofs` | theorems about it | `StatedCache`, TLAPS |
| `StatedSocket` | socket, connections and client of `jiritsu-stated` | |
| `StatedSocketProofs` | theorems about it | `StatedSocket`, TLAPS |
| `Checkpoints` | create and restore of `jiritsu-checkpoints` | |
| `CheckpointsProofs` | theorems about it | `Checkpoints`, TLAPS |
| `Assessment` | `jiritsu-workload` without its state: contracts, answers of stated, checks, aggregation | |
| `Workload` | commands on the contract directory, and the steps of an assessment | `Assessment` |
| `WorkloadProofs` | theorems about both | `Workload`, TLAPS |
| `MC…` | constants for TLC | the module of that name |

Conventions: a process is a record with a program counter `pc` that names its
*next* step; a step is the code between two points where another process can
see or change something shared (a system call on a shared file, a lock, an
`await`). What may go wrong is an action of its own (`SaveFails`, `Crash`,
`EditFile`, …), guarded by the constant `Troubles` and counted up to
`MaxTrouble`, so that an instance chooses its faults. Variables marked
*history* record what happened for the sake of a property; no guard reads them.
Operators named `X_Something` beside an operator `X` are deliberately wrong
variants of it, which are used to see that the properties notice.

### Proposals

`store[p]` is `proposal.json`, `dir[p]` its directory, `lock[p]` the flock,
`backup[p]` the recovery directory, `fs` the configuration tree (a path holds a
content, is a directory, or is absent), `proc[c]` a command: its copy of the
record in memory, the index of the next action, the lists `applied` and `undo`,
and the two workload assessments.

`ClaimId`/`WriteDraft` are `create_proposal`, in two steps because
`store.lock(create=True)` makes the directory before it takes the lock.
`Open` is the beginning of every other command (lock, load, `_require_state`);
`Classify`, `Approve`, `Reject` and `Refuse` are its ends. Promotion is `Reinspect`
(the checks and the second inspection), `AssessBefore` (the workload baseline),
`Begin` (the save of `applying`), `Prepare`, then per action `KeepPath`, `MakeDirectory`+`SecureDirectory`, or
`BackUp`/`PlanRemoval`+`ReplaceFile`; then `Verify`, `Assess`, `Commit`; on
failure `Undo`/`UndoFails` per action, the last first, and `Finish`.

A content stands for the digest and the mode of a file, and `disturbed[p]` counts
what others change from `Reinspect` on. Another configuration root than the one
of classification is one of the reasons to `Refuse`.

Left out: symbolic links and other errors that end a command without a change, the
recovery provider's label, texts and timestamps, temporary files. The revision
is the length of the history. Inspection of all actions is one step. Stored records are edited only while nobody holds the
lock.

### Broker

`journal` is the sequence of whole lines of `audit.jsonl`. `damage` says what is
wrong with them: nothing; the last line lacks its newline (`open`, it can still be
read); the last line is a fragment (`last`); or some other one is unreadable. The
next line joins an open line or a fragment, and both are lost. A journal that cannot
be read (`~Readable`) ends every later request in `audit_corrupt`. A request that is in the journal twice is two attempts. `Send` loads
the policy, `LockRequest` waits for the flock of the request ID, `Stop` and
`Accept` are the outcome of `is_complete`, `LogRequest` … `LogResult` append the
four events, `RejectCall`/`Decide` come between, and `CarryOut` is the moment
the provider command has its effect, before or after which the handler may time
out. `Crash` leaves that command as an orphan (`orphans`), which carries the
request out later, or never. The catalog is a constant that gives each operation
its authorities.

Left out: wording of responses, the content of provider results, several
effective users at once. A policy file that does not load ends a command
without a change. A provider's effect is atomic here; what a promotion does step
by step is in `Proposals`.

### StatedCache

`source[f]` is what observing and parsing the source of fact `f` gives now,
`events` the notifications on their way from the kernel to the watcher's
callback, `queue` the refresh channel, `worker` the refresh worker (which at the
start stands for the collection that `serve` does itself), `facts`, `errors`,
`epoch`, `lastErrors` the fields of `StateCache`. Live sources are observed one
by one in any order while they go on changing; a fixture is read at once.
`combine_refresh` is applied by the worker to one waiting request after the
other; `Combine` is that function, and `Combined` what it makes of all of them,
as a set. That the two agree for every sequence of up to four requests is the
assumption `CombinesInTurn` of `MCStatedCache`, which TLC evaluates.

An error of the watcher, which is only logged, and a notification that finds the
channel full are the same step of `Deliver`: the notification is gone.

Left out: timestamps, sources' descriptions, saturation of the epoch at
2^64, the runtime information in answers.

### StatedSocket

`path` is the thing at the socket path (who bound it, does it still listen);
`daemon[d]` the position in `serve`. `Inspect`, `Connect`, `Remove`, `Bind`,
`Chmod` are the system calls of `prepare_socket_path` and `serve`, `Shutdown`
and `Unlink` the two halves of the end. `Connect` may fail, or take more than
200 ms, although a daemon listens (`misses` counts this): the code takes that for a
stale socket too. `backlog[d]` are the connections that the accept loop has not
taken yet, `permits[d]` those in handling, including in both cases connections
whose client has left (`GiveUp`); `client[c]` is what the client knows. A query
whose daemon fails is answered directly or, with `--require-daemon`, refused.

Left out: request parsing (an error answer is an answer), non-socket files at the
path. A client has one connection at a time, and asks again when the one before is
gone at the daemon's end too.

### Checkpoints

As in `Proposals`, with `files[k]` the copies in the checkpoint's directory and
`fs` the user's configuration. A selected path is copied and removed as a
whole; a failing or killed copy may leave `Torn`. `restore_config` is `BackUp`
for all paths, then `RemoveTarget`/`CopyTarget` per path, on failure
`UndoRemove`/`UndoCopy`, and `Note` or `Abort`. `restore_system` is
`OpenSystemRestore`, `ApplySystemRestore` and then the lock and `Note`.

The state `unavailable` of the system scope (mode `auto`, no Snapper) is
`skipped` here, a system restore that fails or times out may have had its effect,
and the checks of `restore_config` before its first copy fail with `RestoreFails`.

Left out: Snapper's own cleanup of snapshots, dry runs and "action required"
answers (they change nothing), another `--config-root` at restore than at creation
(there is one configuration tree), what is inside a selected directory. The claim of
an ID and its lock are one step, because nobody else looks for a lock in a
directory without a record.

### Assessment and Workload

`files[n]` is the contract file with name `n` (a table, or `None`), `draft` the
file that `apply` is given, `proc[c]` a command: `contract` and `content` are
what `apply` validated and what it read again to write, `todo`, `mine` and
`catalog` the files still to load, the IDs loaded and the contracts with the
defaults below them, `snapshot` and `results` the facts and the checks of an
assessment. File names and IDs are numbers, so that "sorted" has a meaning.

`Validate`, `Read`, `Replace` or `WriteFails`, and `Reload` are
`install_contract`, whose temporary file and `os.replace` are one visible step.
`List` and `Load` are `discover_contracts`, one step per file opened; `Select`
is `select_contracts` and ends list and query. `Ask`, `RunCheck` and `Report`
are `assess_contracts`: one query for all facts of the chosen contracts
(`collect_stated_facts`), one step per check (`run_check`), and the aggregation.
The answer of stated, and what a probe finds, are chosen freely from what the
code can make of them (`Snapshots`, `DirectResults`).

A file that is not TOML is a table that is no contract; that one with invalid UTF-8
ends the command in a traceback instead of an error message is not told apart.

Left out: the text `created` or `updated`, a directory that cannot be made, a
temporary file that stays behind (no reader looks at it), a configuration path
that is not a directory, file modes, and the counts in the machine state, which
are counts of the statuses modelled here. `validate` and `config` change nothing.

## 3. Runs

| Run | Properties | Shows |
| --- | --- | --- |
| `proposals` | `TypeOK` `LockedCopyIsCurrent` `RecordDiscipline` `CrashRecoverable` `NoStaleOverwriteAlone` `CommitIntroducesNoFailure` `ImplementsLifecycle` `IntentBeforeEffect` `RollbackRestores` `RollbackFailsOnlyIfDisturbed` | two commands, two proposals that write the same file; failing saves and actions, crashes, deleted files |
| `proposals_live` | `OnlyClassifiedActionsRun` `LockReleased` `PromotionSettles` | one proposal; every call of promotion and rollback may fail, records and files are edited |
| `proposals_residue` | `RollbackRestores` **violated** | finding 1 |
| `proposals_abandoned` | `NoAbandonedPromotion` **violated** | finding 2 |
| `broker` | `TypeOK` `TerminalIsFinal` `JournalIsOrdered` `EveryEffectIsRecorded` `AuthorityIsGranted` `NoReplayUndisturbed` `RequestEnds` | two brokers, three attempts with one ID, one operation outside the catalog, changing policies and approvals, one failing or torn append or crash |
| `broker_replay` | `NoReplay` **violated** | finding 3 |
| `stated_cache` | `TypeOK` `AnswersAreComplete` `NoChangeIsLost` `EpochCountsChanges` `CacheCatchesUp` | a static watched fact and a dynamic one, live and fixture, watcher present or not |
| `stated_socket` | `TypeOK` `ServingIsReachable` `RefusesOnlyForActive` `QueryEnds` `PermitsReturn` | two daemons, two clients that may leave, three starts, one crash, one failed probe of a live socket |
| `stated_race` | `RemovesOnlyStale` **violated** | finding 4 |
| `checkpoints` | `TypeOK` `RestoreRestores` `FailedRestoreUndoes` `ReadyIsWhole` `HistoryIsComplete` `NothingIsLost` | two commands at a time, three in all, two checkpoints, every kind of failure |
| `workload` | `TypeOK` `ReadersSeeOneApply` `VerdictIsJustified` `ApplyKeepsListable` | two commands that apply, list and assess, a default that is overridden, a file that is no contract, one hand edit, failing writes and crashes |
| `workload_overruled` | `NegativeFactStands` **violated** | finding 5 |

### Bounds, and why they are enough

* *Two processes.* All interference is pairwise: a flock has one holder and one
  that waits, a file one writer and one that overwrites. Two proposals (two
  checkpoints, two daemons) make processes meet on the shared tree (path) without
  sharing a lock.
* *Action lists* (`MCProposals`): a directory, a file below it and a replaced
  file, so that all four recovery strategies occur and their order matters; and a
  list that breaks a critical workload. They overlap in one path. `proposals_live`
  adds a third list with the target of the second, so that an edited record passes
  every check but the digest.
* *`MaxTrouble` 2 or 3*: one failure to start a rollback, one during it, one more
  for a disturbance from outside. `broker` has 1, which leaves
  room for a first attempt that goes wrong, its retry and a concurrent duplicate;
  the theorems of section 5 have no such bound.
* *Broker*: three attempts with one ID are a first one, its retry and a
  concurrent duplicate. The requests are a promotion and an operation outside the
  catalog; the policies are one that asks for approval and one whose first
  matching rule lacks an authority that a later one has.
* *Workload*: three file names for two IDs, so that an ID may live under a name
  that is not its own; two contracts with one ID and different checks; an
  assessment with a fact that has a fallback, one that has none, and a plain
  probe. The constraint `AssessAlone` drops states where a command judges while
  another one is at work: the steps of an assessment read and write nothing that
  other commands see, so they commute with all steps of others, and the
  properties about directories do not look at a command that judges.
* *`Capacity` 2* for 16: the channel gets full, and requests of different kinds
  wait in it at once. *`Limit` 1* for 64: the limit is reached with two clients.
  `MaxChanges`, `MaxStarts`, `MaxCrashes`, `MaxQueries`, `MaxMisses`, `MaxCommands` bound the
  environment only; there is no bound on what the code counts itself.
* The instances come to rest when every command has ended and the budgets are used
  up, hence `CHECK_DEADLOCK FALSE`; that nothing hangs *before* is what the liveness
  properties say. `stated_cache` never rests, because its timers do not, and is
  checked for deadlock.

### Fairness, and why the code justifies it

* `Proposals`: weak fairness of each command's own steps. A running process is
  scheduled and none of these steps waits for anything but a free lock at
  `WriteDraft`, which nobody else can keep: the record does not exist yet.
  Nobody is obliged to start a command, and nothing is obliged to fail. Where
  commands are killed or saves fail, `PromotionSettles` does not hold
  (finding 2), which is why `proposals_live` leaves those two out.
* `Checkpoints`, `Workload`: none; nothing in them waits but `LockRestore`, and
  their properties are safety.
* `Broker`: the same, and strong fairness of `LockRequest`: the lock of an ID is
  free again and again, and the kernel serves the waiters of a flock. A provider
  call ends because every one has a timeout.
* `StatedCache`: weak fairness of the worker (every observation has a timeout)
  and of `serve`; strong fairness of the full timer only: its `send` waits for
  room and Tokio serves waiting senders in turn. Neither notifications nor the
  dynamic timer need to be fair for `CacheCatchesUp`.
* `StatedSocket`: weak fairness of daemon steps and handlers, and of the clients'
  timeout and fallback. `Accept` is not fair: the daemon may be arbitrarily slow.

### How the main properties are to be read

`CrashRecoverable` and `RollbackRestores` exempt paths that somebody else changed
since promotion re-inspected them (`disturbed`), because the code has no lock on
the configuration tree and restores its own backup. `NoStaleOverwriteAlone`
does the same: the code re-inspects at the start of promotion, not before each
replacement. `TerminalIsFinal` is about *every* event of an ID, not about
results only. `NoChangeIsLost` names its exceptions in the comment: they are the
places where the code itself lets a notification go, and the full timer makes up
for them (`CacheCatchesUp`). `ServingIsReachable` is restricted to daemons that
do not start and stop at overlapping times and to probes that tell the truth:
`RemovesOnlyStale` shows what happens otherwise, and `ServingIsAlwaysReachable` proves that nothing else can.
`JournalIsOrdered` and `EveryEffectIsRecorded` speak of journals that can be read
(section 4 has a case where the restriction matters). `ReadersSeeOneApply`
speaks of readers during which one contract was installed and nobody edited by hand
(`views`): with two installations a reader may well see the second and not the first.
`ApplyKeepsListable` names what `apply` cannot see (`Surprised`): a draft that is
exchanged between its two reads, and a contract of the same ID under another file
name. Section 4 names both. `VerdictIsJustified` lets a fact that came back decide its
check, whatever else is missing and however the query ended, but for one case, the
subject of `NegativeFactStands`: a query that gives *every* fact and yet fails is
treated as if it had given none (`FailedWithAll`).

## 4. Findings

1. **A rolled-back proposal may leave a directory** (`proposals_residue`):
   `mkdir` succeeds, `chmod` fails, and the action is on no list
   (`actions.py:184-189`), although a proposal that is `rolled_back` has
   "restored all applied actions".
2. **A save that fails abandons a promotion** (`proposals_abandoned`): an error
   of the last save (`operations.py:358`, or 195) leaves changed targets and a
   record in `applying` that no command accepts.
3. **A retry after a crash repeats the action** (`broker_replay`): only a
   terminal result uses a request ID up, and it is written after the action.
4. **A live socket may be removed** (`stated_race`): a daemon that stops closes its
   listener before it removes the path (`daemon.rs:179-180`), and one that starts in
   between loses the socket it has just bound. Startup has the same gap:
   connection attempt and removal are two steps on a path (`daemon.rs:479-491`), so
   that two starters may both find one stale socket; and without any race, every
   connection error and a delay of 200 ms count as a stale socket (`daemon.rs:479`),
   also that of a daemon whose backlog is full. `RemovesOnlyStale` is about all three;
   TLC reports the shortest way.
5. **A negative fact may be overruled by a probe** (`workload_overruled`), if the query
   gave every fact and failed all the same (`state.py:203`), although "the module does
   not replace a valid negative result with a fallback" (`README.md:54`). The line
   before, on failed queries, may mean this case; `jiritsu-stated` itself does not
   answer so, another `--stated-command` may.

Seen while modelling, from the code alone, without a run of their own:

* A journal line that follows the fragment of a torn one is appended to it, without
  an error (`audit.py:54-71`): the broker of another request, which read the journal
  before, goes on with its action, and the action event is no line of the journal.
* A checkpoint with a usable root snapshot is summarised as "This checkpoint has no
  system snapshot." if a later snapshot failed (`service.py:186`, `:58`).
* `apply` reads the draft twice (`contracts.py:508`, `:513`) and installs what the
  second reading gave, which need not be what it validated.
* `apply` does not find the matching contract under another file name
  (`contracts.py:510`): it adds a second file with the same ID, and every later command
  ends in `duplicate_workload`.

## 5. Proofs

`ProposalsProofs` proves `TypeCorrect: Spec => []TypeOK`: one lemma per group of
actions, on top of lemmas about the helpers (`Transition`, `Release`, `Completed`,
`RollingBack`, …). `TypeOK` contains `WellFormed`, without which it is not
inductive: the action at the index `next` must exist for a step that reads it, and
`undo` must not be empty where its head is taken. It also proves
`LocksAreAlwaysHeld` (the lock of a proposal is held by a live process with a command
on this proposal, so a crash or a failed save leaves none behind) and
`CommandsComeToAnEnd`, for which see the end of this section.

`ProposalsRecordProofs` proves, on top of it,

* `DisciplineHolds: Spec => []RecordDiscipline`, the inductive invariant. It is
  needed because none of its consequences is inductive by itself: that a copy in
  memory is the record on disk (`LockedCopyIsCurrent`) depends on who can write a
  record, which includes a `create` that holds no lock yet, hence
  `ClaimsAreExclusive`; that the next step is one the record allows
  (`StepsFitRecords`) depends on what the records say of themselves
  (`RecordsAreConsistent`: the state is the last entry of the history, an approved
  record was approved with the classified actions);
* `LockedCopyIsAlwaysCurrent`, `OnlyClassifiedActionsEverRun`: its consequences;
* `IntentAlwaysBeforeEffect`: the action property, step by step: a change of the
  tree by a command happens in four actions, all of which have a `pc` at which
  `StepsFitRecords` says what the copy holds and `LockedCopyIsCurrent` that the disk
  agrees;
* `LifecycleImplemented: Spec => Lifecycle!Spec`: initial states map to initial
  states, and each step to one move of one history or to a stutter;
* `TreeHolds: Spec => []TreeDiscipline`, the invariant of the configuration tree. For
  each step of a promotion it says which targets have their new value and which the
  old one, unless somebody else changed them (`Split`), and that each complete action
  is on record with a way back that works (`Complete`, `Undoable`); for each proposal
  that is applying, with or without a live command, it says what can be recovered
  (`Recoverable`). It needs `RecordDiscipline` (no two commands work on one proposal,
  and the copy in memory is the record) and that no action list names a path twice;
* `CrashAlwaysRecoverable`, `NeverStaleOverwriteAlone`,
  `CommitNeverIntroducesFailure`, `RollbackLeavesOneDirectory` and
  `RollbackAlwaysRestores`: its consequences. The last one assumes that no `chmod` of a
  new directory fails: the run `proposals_residue` shows that it does not hold otherwise.
  The one before it assumes nothing and says how much is lost then: of all targets of
  a proposal that becomes `rolled_back`, one at most is not as classified, and it is
  a new directory that is still there (`Residue` in `Untouched`: the action that was
  under way when the promotion turned back);
* `RollbackOnlyFailsIfDisturbed`, from `CalmDiscipline` on top: the tree has nothing
  below a path that is no directory (`Rooted`), and a promotion that nobody disturbs
  (`Calm`) has classified targets in top-down order, knows a fitting way back from
  each complete action, and finds nothing but its own below directories it creates. So
  each restoring call finds what it needs. It assumes that no `chmod` and no
  restoring call fails by itself, and that the tree at the start is `Rooted`;
* `PromotionsAreAlwaysAttended` and `NoPromotionIsAbandoned`: where no process is
  killed and no save fails, a proposal is `applying` only while a live command
  promotes it, whatever else goes wrong. The run `proposals_abandoned` refutes
  `NoAbandonedPromotion` with a kill; the theorem says that kills and failing saves
  are the only ways to get there.

These hold for every set of commands, proposals, paths and contents, and for
every set of action lists that satisfies the assumptions in `Proposals`
(`DefinitionsAssumption`, `ConstantsAssumption`, `NoneAssumption`): action lists are
non-empty and name no path twice, as `parse_definition` enforces, and the
distinguished values are distinct. Where a theorem says more than that, its `ASSUME`
names the kinds of trouble it leaves out.

`BrokerProofs` proves `TypeCorrect` and `AuthorityIsAlwaysGranted`: a broker that runs a
request keeps, from the step at which it evaluated the policy, a rule that matches
first and grants what the catalog requires. `BrokerJournalProofs` proves what the
journal says, each property by its own invariant:

* `TerminalIsAlwaysFinal` with `Final`: a broker past its replay check has a request
  ID without a terminal event, because it holds the lock of the ID;
* `JournalIsAlwaysOrdered` with `Awaits`: such a broker finds its own last event as
  the last one of its request ID;
* `EveryEffectIsAlwaysRecorded` with `Recorded`: effects, orphaned commands and
  running commands of a request together are no more than its action events;
* `NoReplayWhileUndisturbed` with `Once`: a request ID that was carried out is
  complete in the journal, or the broker that carried it out still has its lock;
* `ReplaysAreAlwaysPaidFor` with `Paid`, which says what disturbances cost: under each
  request ID there is one effect at most, and one more for each kill and each failed
  append so far. The invariant keeps a balance per request ID: what was carried out
  or may yet be carried out (by a running broker or an orphaned command), and what
  `trouble` already pays for.

`BrokerProofs` has in addition that each lock of a request ID is held by a live broker
that works on this ID (`LocksAreAlwaysHeld`).

`StatedSocketProofs` proves type correctness (with the limit on connections), and from
`Orderly` that `ServingIsReachable` and `RefusesOnlyForActive` hold. `Orderly` says, as
long as no two daemons started or stopped at overlapping times and no probe of a
live socket failed, that what a daemon
has found at the path is still there: it listens where it bound, and nobody listens
where it removes. The run `stated_race` shows what happens otherwise.
`ConnectionsAreAlwaysAttended` needs no such restriction: however daemons start, stop
and die over one another's sockets, each connection that waits or is handled has a
daemon that listens and its permit, and no permit outlives its daemon.

`StatedCacheProofs` proves type correctness; `AnswersAreComplete` from `Filled` (after
the first collection each fact has a value or an error, never both);
`EpochCountsChanges`; and `NoChangeIsLost` from `Tracked`: a watched fact that is stale
is either awaited (its notification is on its way, or a request in the channel
covers it, or the daemon could not learn of it) or covered by a refresh that has not
read it yet, or has read its present value. `RequestsAreNeverLost` is the action
property behind it: a request leaves the channel only into what the worker has been
asked, and the worker's request never narrows before it is done.

`CheckpointsProofs` has two layers. `Inv` says what each process holds (`Shape`), how it
is tied to the record on disk (`Tied`) and what a record says (`OnRecord`); types,
`HistoryIsComplete` and `ReadyIsWhole` follow. `FullInv` adds for each process that
restores what the configuration holds (`Restored`): what is not yet replaced is as in
the backup, what is replaced is as captured, what is undone is as in the backup
again, each unless another program changed it. `RestoreRestores`,
`FailedRestoreUndoes` and `NothingIsLost` are read off from it. It needs
`PolicyAssumption` (a policy names no path twice, as `load_policy` enforces) and that
the copies in a checkpoint do not change once it is restorable. A third invariant,
`Settled`, says that: commands that are past loading a record agree with it on
all that a finished creation wrote. From it follow `OnlyFinishedIsRestored` (what
a restore loaded before it took the lock is still right when it uses it) and the
action property `FinishedIsFinal` (the copies and the scopes on record of a finished
checkpoint stay, and its history grows by one entry at a time). `LocksAreAlwaysHeld`
is as for proposals.

`WorkloadProofs` proves type correctness, `VerdictIsJustified` and `ApplyKeepsListable`
from `Inv`, which says of each command (`Fine`) that its contracts are validated and
filed under their IDs, and that each result is one `run_check` may have given for the
snapshot in hand.
`VerdictIsJustified` compares the aggregation with its reference definition.
`ReadersSeeOneApply` needs `ReadInv` on top: the one or two views of the directory that
a reader has had differ in one file only (`Seen`), the file is never missing, and what
the reader has loaded so far is what one of the views holds (`ReadSoFar`).

All of them hold for any instance, and for any bound on trouble, commands and edits.
None of them assumes fairness.

**The safety half of liveness.** The liveness properties (`LockReleased`,
`PromotionSettles`, `RequestEnds`, `CacheCatchesUp`, `QueryEnds`, `PermitsReturn`) are
only model-checked: they rest on fairness, hence on `ENABLED`, which the prover does not
reach. What it does reach, for every instance, are the two facts a liveness argument
is made of:

* *nobody is stuck* (`NobodyIsEverStuck` in `ProposalsRecordProofs`, `BrokerProofs`,
  `CheckpointsProofs`, `StatedCacheProofs` and `WorkloadProofs`): whoever is under way
  finds the guard of one of its steps true, or waits for a lock whose holder, a
  live process that waits for nothing itself, does. The guards are written
  out (`CanGoOn`, `CanWork`) because `ENABLED` is not available. The proofs
  have to show that each loop finds what it goes on with: an action at `next`, a
  backup to undo, a fact left to collect, a *least* file to load and a *first* check
  to run (the last two from the well-foundedness of the order on `Nat`);
* *each step leads on* (`CommandsComeToAnEnd` in `ProposalsProofs`,
  `CheckpointsProofs` and `WorkloadProofs`, `RequestsComeToAnEnd`, `QueriesComeToAnEnd`,
  `RefreshesComeToAnEnd`): a step of a process lowers a measure (`StepsLeft`), or moves
  it along a fixed order of control points, and within a loop shrinks the set of
  what is left to do; the steps of all others leave it where it is. So no failure path
  leads back into what it failed from, and no outsider can keep a command busy.

What stays with TLC is the conclusion that a fairly scheduled process then ends.

The two theorems of this kind on `Workload` need two assumptions that its other proofs
do not: `ArraysAssumption` (capabilities and checks are numbered, as TOML arrays are)
and `NoneAssumption` (the value for "no result yet" is no result of a check).

## 6. Not modelled

The fact catalog and its parsers, the Python reference implementation of
`jiritsu-stated`, machine discovery of checkpoints, argument parsing and output,
skills and packaging: text in, text out, without state that others read. `components`
in `PROJECT.json` has the reason for each. What the modelled parts need of them (a
collection gives a value or an error for each fact, a definition parses or does not,
a command line names an operation) is an input of the models.

## 7. Plan

Done: the lifecycle and its implementation with proofs; the broker, the daemon's
cache and socket, and checkpoints, each with proofs; contracts and assessment of
workloads; for each component that its processes do not get stuck and come to an
end. Left, in this order:

1. `BrokeredPromotion`: broker and promotion composed, with the broker's timeout
   that kills a promotion, and what a retry of the same request then does.
2. The checkpoint that promotion asks for: `_checkpoint_paths` against
   `load_policy` (no path below another one).

------------------------------ MODULE Workload ------------------------------
(***************************************************************************)
(* jiritsu-workload: commands that run at the same time on one directory   *)
(* of user contracts.  "apply" validates a draft and installs it, "query"  *)
(* and "assess" read all contracts, and "assess" goes on to judge the      *)
(* machine by them.  The user edits the draft and the directory by hand.   *)
(* File names and IDs are numbers in their sort order.                     *)
(***************************************************************************)
EXTENDS Assessment

CONSTANTS
  Commands,     \* processes that may run at the same time
  Ids,          \* workload IDs
  Names,        \* names of the *.toml files that the directory may hold
  FileOf,       \* FileOf[i]: the name that apply gives the contract with ID i
  Tables,       \* what a TOML file may hold, contract or not
  Defaults,     \* the contracts that come with the package
  InitialFiles, \* what the directory may hold at first
  Troubles,     \* what may go wrong in this instance
  MaxTrouble,   \* bound: how often
  MaxCommands,  \* bound: how many commands are started
  MaxEdits      \* bound: how often somebody edits by hand

ASSUME WorkloadAssumption ==
  /\ Ids \subseteq Nat /\ Names \subseteq Nat
  /\ FileOf \in [Ids -> Names]
  /\ \A i, j \in Ids : FileOf[i] = FileOf[j] => i = j
  /\ None \notin Tables
  /\ \A t \in Tables : t.id \in Ids
  /\ Defaults \subseteq Tables
  /\ \A t \in Defaults : Loads(t)
  /\ \A s, t \in Defaults : s.id = t.id => s = t
  /\ InitialFiles \subseteq [Names -> Tables \cup {None}]
  /\ Troubles \subseteq {"write", "crash"}
  /\ MaxTrouble \in Nat /\ MaxCommands \in Nat /\ MaxEdits \in Nat

(* The capabilities of a contract and the checks of a capability are TOML  *)
(* arrays.                                                                 *)
ASSUME ArraysAssumption ==
  \A t \in Tables : Loads(t) =>
    /\ DOMAIN t.capabilities \subseteq Nat
    /\ \A i \in DOMAIN t.capabilities : DOMAIN t.capabilities[i].checks \subseteq Nat

(* A check without a result yet has none that a check may have. *)
ASSUME NoneAssumption ==
  None \notin [status : {"pass", "fail", "error"}, source : {"jiritsu-stated", "direct_probe"}]

VARIABLES
  files,     \* files[n]: the table in the file with that name, or None
  draft,     \* the table in the file that apply is given
  proc,      \* proc[c]: what command c is doing
  views,     \* history: views[c]: what the directory held since command c
             \* listed it, as long as only other commands changed it
  commands,  \* how many commands were started so far
  edits,     \* how often somebody edited by hand
  trouble    \* how often something went wrong

vars == <<files, draft, proc, views, commands, edits, trouble>>

-----------------------------------------------------------------------------

Shipped == [i \in Ids |-> IF \E t \in Defaults : t.id = i
                          THEN CHOOSE t \in Defaults : t.id = i ELSE None]

NoResults == [p \in Positions(Tables) |-> None]

Idle == [pc |-> "idle", contract |-> None, content |-> None,
         todo |-> {}, catalog |-> Shipped, mine |-> {}, chosen |-> {},
         snapshot |-> NoQuery({}), results |-> NoResults, outcome |-> "none"]

Become(c, q) == proc' = [proc EXCEPT ![c] = q]

End(c, outcome) == Become(c, [proc[c] EXCEPT !.pc = "ended", !.outcome = outcome])

(* A step that changes the state of one command only. *)
Quietly == UNCHANGED <<files, draft, views, commands, edits, trouble>>

Trouble(kind) ==
  /\ kind \in Troubles
  /\ trouble < MaxTrouble
  /\ trouble' = trouble + 1

Start(c, pc) ==
  /\ proc[c].pc = "idle"
  /\ commands < MaxCommands
  /\ commands' = commands + 1
  /\ Become(c, [Idle EXCEPT !.pc = pc])
  /\ UNCHANGED <<files, draft, views, edits, trouble>>

StartApply(c) == Start(c, "validate")

(* list, query and assess; which of them matters after discover_contracts *)
StartReading(c) == Start(c, "list")

Exit(c) ==
  /\ proc[c].pc = "ended"
  /\ Become(c, Idle)
  /\ views' = [views EXCEPT ![c] = {}]
  /\ UNCHANGED <<files, draft, commands, edits, trouble>>

-----------------------------------------------------------------------------
(* install_contract.                                                       *)

Validate_OnlyThere(c) ==
  /\ proc[c].pc = "validate"
  /\ IF draft # None
     THEN Become(c, [proc[c] EXCEPT !.pc = "read", !.contract = draft])
     ELSE End(c, "contract_error")
  /\ Quietly

Validate(c) ==
  /\ proc[c].pc = "validate"
  /\ IF Loads(draft)
     THEN Become(c, [proc[c] EXCEPT !.pc = "read", !.contract = draft])
     ELSE End(c, "contract_error")
  /\ Quietly

(* The bytes to be written are read in a second look at the draft. *)
Read(c) ==
  /\ proc[c].pc = "read"
  /\ IF draft # None
     THEN Become(c, [proc[c] EXCEPT !.pc = "replace", !.content = draft])
     ELSE End(c, "contract_write_failed")
  /\ Quietly

Put(c, table) ==
  /\ files' = [files EXCEPT ![FileOf[proc[c].contract.id]] = table]
  /\ views' = [d \in Commands |-> IF views[d] = {} THEN {} ELSE views[d] \cup {files'}]

(* The file is opened and written in place: first it is empty. *)
Replace_InPlace(c) ==
  /\ proc[c].pc = "replace"
  /\ \/ /\ files[FileOf[proc[c].contract.id]] # None
        /\ Put(c, None)
        /\ UNCHANGED proc
     \/ /\ files[FileOf[proc[c].contract.id]] = None
        /\ Put(c, proc[c].content)
        /\ Become(c, [proc[c] EXCEPT !.pc = "reload"])
  /\ UNCHANGED <<draft, commands, edits, trouble>>

(* The temporary file is complete and takes the place of the old one. *)
Replace(c) ==
  /\ proc[c].pc = "replace"
  /\ Put(c, proc[c].content)
  /\ Become(c, [proc[c] EXCEPT !.pc = "reload"])
  /\ UNCHANGED <<draft, commands, edits, trouble>>

(* The temporary file cannot be written, secured or renamed. *)
WriteFails(c) ==
  /\ proc[c].pc = "replace"
  /\ Trouble("write")
  /\ End(c, "contract_write_failed")
  /\ UNCHANGED <<files, draft, views, commands, edits>>

Reload(c) ==
  /\ proc[c].pc = "reload"
  /\ End(c, IF Loads(files[FileOf[proc[c].contract.id]]) THEN "ok" ELSE "contract_error")
  /\ Quietly

-----------------------------------------------------------------------------
(* discover_contracts.                                                     *)

Listed(directory) == {n \in Names : directory[n] # None}

List(c) ==
  /\ proc[c].pc = "list"
  /\ Become(c, [proc[c] EXCEPT !.pc = "load", !.todo = Listed(files)])
  /\ views' = [views EXCEPT ![c] = {files}]
  /\ UNCHANGED <<files, draft, commands, edits, trouble>>

(* The listed files one by one, in the order of their names; a user        *)
(* contract takes the place of the default with its ID.                    *)
Load(c) ==
  \E n \in proc[c].todo :
    LET table == files[n] IN
    /\ proc[c].pc = "load"
    /\ \A m \in proc[c].todo : n <= m
    /\ IF ~Loads(table) THEN End(c, "contract_error")
       ELSE IF table.id \in proc[c].mine THEN End(c, "duplicate_workload")
       ELSE Become(c, [proc[c] EXCEPT !.todo = @ \ {n}, !.mine = @ \cup {table.id},
                                      !.catalog[table.id] = table])
    /\ Quietly

(* select_contracts: no selector selects all; list and query end here. *)
Chosen(catalog, wanted) ==
  {catalog[i] : i \in {i \in Ids : catalog[i] # None /\ (wanted = {} \/ i \in wanted)}}

Select(c) ==
  /\ proc[c].pc = "load" /\ proc[c].todo = {}
  /\ \E wanted \in SUBSET Ids :
       IF \E i \in wanted : proc[c].catalog[i] = None
       THEN Become(c, [Idle EXCEPT !.pc = "ended", !.outcome = "unknown_workload"])
       ELSE \/ Become(c, [Idle EXCEPT !.pc = "ended", !.outcome = "ok"])
            \/ Become(c, [Idle EXCEPT !.pc = "ask", !.chosen = Chosen(proc[c].catalog, wanted)])
  /\ views' = [views EXCEPT ![c] = {}]
  /\ UNCHANGED <<files, draft, commands, edits, trouble>>

-----------------------------------------------------------------------------
(* assess_contracts.                                                       *)

(* One query for all facts, if there is one to ask for and stated is used. *)
Ask(c) ==
  LET requested == RequestedFacts(proc[c].chosen) IN
  /\ proc[c].pc = "ask"
  /\ \E snapshot \in {NoQuery(requested)} \cup
                     (IF requested = {} THEN {} ELSE Snapshots(requested)) :
       Become(c, [proc[c] EXCEPT !.pc = "check", !.snapshot = snapshot])
  /\ Quietly

Before(p, q) ==
  \/ p[1].id < q[1].id
  \/ p[1].id = q[1].id /\ p[2] < q[2]
  \/ p[1].id = q[1].id /\ p[2] = q[2] /\ p[3] < q[3]

Unchecked(c) == {p \in Positions(proc[c].chosen) : proc[c].results[p] = None}

(* The checks one by one: contract by contract, capability by capability.  *)
(* Selectors may give the contracts another order, which changes nothing.  *)
RunCheck(c) ==
  /\ proc[c].pc = "check"
  /\ \E p \in Unchecked(c) :
       /\ \A q \in Unchecked(c) \ {p} : Before(p, q)
       /\ \E result \in CheckResults(CheckAt(p), proc[c].snapshot) :
            Become(c, [proc[c] EXCEPT !.results[p] = result])
  /\ Quietly

Report(c) ==
  /\ proc[c].pc = "check" /\ Unchecked(c) = {}
  /\ End(c, AssessmentStatus(proc[c].chosen, proc[c].results))
  /\ Quietly

(* main: the exit status of each outcome *)
ExitStatus == [ok |-> 0, healthy |-> 0, unhealthy |-> 1, degraded |-> 2, unknown_workload |-> 64,
               contract_error |-> 65, duplicate_workload |-> 65, contract_write_failed |-> 65]

-----------------------------------------------------------------------------
(* A command is killed; a temporary file it leaves is no *.toml file.      *)

Crash(c) ==
  /\ proc[c].pc \notin {"idle", "ended"}
  /\ Trouble("crash")
  /\ Become(c, Idle)
  /\ views' = [views EXCEPT ![c] = {}]
  /\ UNCHANGED <<files, draft, commands, edits>>

(* The user edits by hand, and what a command sees of that is open. *)
Edit ==
  /\ edits < MaxEdits
  /\ edits' = edits + 1
  /\ views' = [c \in Commands |-> {}]
  /\ UNCHANGED <<proc, commands, trouble>>

EditDraft ==
  /\ \E t \in (Tables \cup {None}) \ {draft} : draft' = t
  /\ Edit
  /\ UNCHANGED files

EditFile ==
  /\ \E n \in Names : \E t \in (Tables \cup {None}) \ {files[n]} :
       files' = [files EXCEPT ![n] = t]
  /\ Edit
  /\ UNCHANGED draft

-----------------------------------------------------------------------------

Init ==
  /\ files \in InitialFiles
  /\ draft \in Tables
  /\ proc = [c \in Commands |-> Idle]
  /\ views = [c \in Commands |-> {}]
  /\ commands = 0 /\ edits = 0 /\ trouble = 0

Next ==
  \/ \E c \in Commands :
       \/ StartApply(c) \/ Validate(c) \/ Read(c) \/ Replace(c) \/ WriteFails(c) \/ Reload(c)
       \/ StartReading(c) \/ List(c) \/ Load(c) \/ Select(c)
       \/ Ask(c) \/ RunCheck(c) \/ Report(c)
       \/ Exit(c) \/ Crash(c)
  \/ EditDraft \/ EditFile

Spec == Init /\ [][Next]_vars

-----------------------------------------------------------------------------
(* Types.                                                                  *)

Stored == Tables \cup {None}

Process ==
  [pc : {"idle", "validate", "read", "replace", "reload", "list", "load", "ask", "check", "ended"},
   contract : Stored, content : Stored,
   todo : SUBSET Names, catalog : [Ids -> Stored], mine : SUBSET Ids, chosen : SUBSET Tables,
   snapshot : [status : {"not_required", "disabled", "unavailable", "failed", "partial", "used"},
               facts : FactMaps],
   results : [Positions(Tables) -> [status : {"pass", "fail", "error"},
                                    source : {"jiritsu-stated", "direct_probe"}] \cup {None}],
   outcome : DOMAIN ExitStatus \cup {"none"}]

(* Everything has its type; what apply validated is a contract, and so is  *)
(* whatever discover_contracts put into its catalog.                       *)
TypeOK ==
  /\ files \in [Names -> Stored]
  /\ draft \in Stored
  /\ views \in [Commands -> SUBSET [Names -> Stored]]
  /\ proc \in [Commands -> Process]
  /\ commands \in 0..MaxCommands /\ edits \in 0..MaxEdits /\ trouble \in 0..MaxTrouble
  /\ \A c \in Commands :
       /\ proc[c].contract # None => Loads(proc[c].contract)
       /\ \A i \in Ids : proc[c].catalog[i] # None =>
            Loads(proc[c].catalog[i]) /\ proc[c].catalog[i].id = i

-----------------------------------------------------------------------------
(* Safety.                                                                 *)

(* What discover_contracts makes of a directory that nobody touches. *)
Listable(directory) ==
  /\ \A n \in Listed(directory) : Loads(directory[n])
  /\ \A m, n \in Listed(directory) : directory[m].id = directory[n].id => m = n

Merged(directory) ==
  [i \in Ids |-> IF \E n \in Listed(directory) : directory[n].id = i
                 THEN directory[CHOOSE n \in Listed(directory) : directory[n].id = i]
                 ELSE Shipped[i]]

(* A command that reads the directory while one contract is installed ends *)
(* up with the contracts from before it or from after it, user contracts   *)
(* in the place of defaults, and with an error only if one of the two      *)
(* directories deserves it; although it lists the names first and opens    *)
(* the files one by one (discover_contracts, install_contract).            *)
ReadersSeeOneApply ==
  \A c \in Commands : views[c] # {} /\ Cardinality(views[c]) <= 2 =>
    /\ proc[c].pc = "load" /\ proc[c].todo = {} =>
         \E v \in views[c] : Listable(v) /\ proc[c].catalog = Merged(v)
    /\ proc[c].pc = "ended" => \E v \in views[c] : ~Listable(v)

(* What apply itself cannot see: the draft is another one than it has      *)
(* validated, or the user keeps a contract with this ID under another name *)
Surprised(c) ==
  \/ proc[c].content # proc[c].contract
  \/ \E n \in Listed(files) \ {FileOf[proc[c].contract.id]} :
       files[n].id = proc[c].contract.id

(* apply never turns a directory that every command can read into one that *)
(* makes every command fail, at whatever step it is stopped or fails.      *)
ApplyKeepsListable ==
  [][Listable(files) /\ UNCHANGED edits =>
       \/ Listable(files')
       \/ \E c \in Commands : proc[c].pc = "replace" /\ proc'[c].pc = "reload" /\ Surprised(c)]_vars

(* The query gave every fact, and yet its status or exit code is a failure.*)
FailedWithAll(snapshot, contracts) ==
  snapshot.status = "failed" /\ Told(snapshot.facts) = RequestedFacts(contracts)

(* An assessment is healthy exactly if every check is good, and unhealthy  *)
(* exactly if a critical one is not, where a check is good if the fact it  *)
(* asks for came back and meets the requirement or, only if it did not     *)
(* come back, if its direct probe passed.  Which other facts came back, a  *)
(* failing exit after some of them and what the probe says change nothing  *)
(* about a negative fact; only where the query gives every fact and fails, *)
(* the probes judge as if none had come (see NegativeFactStands).          *)
VerdictIsJustified ==
  \A c \in Commands :
    LET snapshot == proc[c].snapshot
        Came(check) == /\ ~FailedWithAll(snapshot, proc[c].chosen)
                       /\ check.fact # None /\ snapshot.facts[check.fact] # None
        Good(p) == IF Came(CheckAt(p)) THEN snapshot.facts[CheckAt(p).fact] = "meets"
                   ELSE proc[c].results[p] = Result("pass", "direct_probe")
        Critical(p) == p[1].capabilities[p[2]].importance = "critical"
    IN proc[c].outcome \in {"healthy", "degraded", "unhealthy"} =>
         /\ proc[c].outcome = "healthy" <=> \A p \in Positions(proc[c].chosen) : Good(p)
         /\ proc[c].outcome = "unhealthy" <=>
              \E p \in Positions(proc[c].chosen) : Critical(p) /\ ~Good(p)

-----------------------------------------------------------------------------
(* What the README promises and the code does not keep.                    *)

(* The module does not replace a valid negative result with a fallback     *)
(* (Machine-state source): a fact that came back and differs from what is  *)
(* required is never passed over for a probe.  A query that gives every    *)
(* fact and exits with 1 breaks it.                                        *)
NegativeFactStands ==
  \A c \in Commands : \A p \in Positions(proc[c].chosen) :
    CheckAt(p).fact # None /\ proc[c].snapshot.facts[CheckAt(p).fact] = "differs" =>
      proc[c].results[p] # Result("pass", "direct_probe")
=============================================================================

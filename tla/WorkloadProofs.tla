--------------------------- MODULE WorkloadProofs ---------------------------
(***************************************************************************)
(* Theorems about Workload, for any contracts, any number of commands and  *)
(* whatever goes wrong: the types, what apply may do to a directory that   *)
(* others read, what the verdict of an assessment says, and that no        *)
(* command waits or goes on for ever.                                      *)
(***************************************************************************)
EXTENDS Workload, FiniteSetTheorems, WellFoundedInduction, TLAPS

-----------------------------------------------------------------------------
(* Assessment.                                                             *)

CheckStatuses == {"pass", "fail", "error"}

ResultType == [status : CheckStatuses, source : {"jiritsu-stated", "direct_probe"}]

(* A position is a contract, a capability of it and a check of that. *)
LEMMA PositionIs ==
  ASSUME NEW S, NEW p
  PROVE  p \in Positions(S) <=>
           \E t \in S : \E i \in DOMAIN t.capabilities :
             \E j \in DOMAIN t.capabilities[i].checks : p = <<t, i, j>>
  BY DEF Positions

LEMMA PositionsGrow ==
  ASSUME NEW S, NEW T, S \subseteq T
  PROVE  Positions(S) \subseteq Positions(T)
  BY PositionIs

(* The checks of contracts are valid ones. *)
LEMMA CheckIsValid ==
  ASSUME NEW S, \A t \in S : Loads(t), NEW p \in Positions(S)
  PROVE  ValidCheck(CheckAt(p))
  <1>1. PICK t, i, j :
          /\ t \in S /\ i \in DOMAIN t.capabilities /\ j \in DOMAIN t.capabilities[i].checks
          /\ p[1] = t /\ p[2] = i /\ p[3] = j
    BY PositionIs
  <1>2. ValidCapability(t.capabilities[i])
    BY <1>1 DEF Loads, ValidContract
  <1>3. QED
    BY <1>1, <1>2 DEF CheckAt, ValidCapability

(* A direct probe passes, fails or errs. *)
LEMMA DirectStatusesType ==
  ASSUME NEW type \in DirectTypes
  PROVE  DirectStatuses(type) \subseteq CheckStatuses
  <1>1. \A ran \in DOMAIN CommandStatus : CommandStatus[ran] \in CheckStatuses
    BY DEF CommandStatus, CheckStatuses
  <1>2. CASE type = "command"
    BY <1>1, <1>2 DEF DirectStatuses
  <1>3. CASE type = "systemd_unit"
    BY <1>1, <1>3 DEF DirectStatuses, UnitStatuses, CheckStatuses
  <1>4. CASE type \in {"command_available", "environment", "path"}
    BY <1>4 DEF DirectStatuses, CheckStatuses
  <1>5. QED
    BY <1>2, <1>3, <1>4 DEF DirectTypes

(* What run_check may give, told by whether the fact came back.  *)
LEMMA CheckResultsAre ==
  ASSUME NEW check, ValidCheck(check),
         NEW snapshot, snapshot.facts \in FactMaps, NEW result \in CheckResults(check, snapshot)
  PROVE  /\ result \in ResultType
         /\ check.fact # None /\ Answered(check, snapshot) =>
              (result.status = "pass" <=> snapshot.facts[check.fact] = "meets")
         /\ ~(check.fact # None /\ Answered(check, snapshot)) =>
              (result.status = "pass" <=> result = Result("pass", "direct_probe"))
  <1>1. CASE check.fact # None /\ Answered(check, snapshot)
    <2>1. snapshot.facts[check.fact] \in FactValues
      BY <1>1 DEF ValidCheck, Answered, FactMaps
    <2>2. result = [status |-> FactStatus[snapshot.facts[check.fact]], source |-> "jiritsu-stated"]
      BY <1>1 DEF CheckResults, Result
    <2>3. QED
      BY <1>1, <2>1, <2>2 DEF FactStatus, FactValues, ResultType, CheckStatuses
  <1>2. CASE ~(check.fact # None /\ Answered(check, snapshot))
    <2>1. ASSUME check.probe \in DirectTypes, result \in DirectResults(check.probe)
          PROVE  result \in ResultType /\ result.source = "direct_probe"
      <3>1. PICK status \in DirectStatuses(check.probe) :
              result = [status |-> status, source |-> "direct_probe"]
        BY <2>1 DEF DirectResults, Result
      <3>2. status \in CheckStatuses
        BY <2>1, DirectStatusesType
      <3>3. QED
        BY <3>1, <3>2 DEF ResultType
    <2>2. CASE result = [status |-> "error", source |-> "jiritsu-stated"]
      BY <1>2, <2>2 DEF ResultType, CheckStatuses, Result
    <2>3. CASE check.probe \in DirectTypes /\ result \in DirectResults(check.probe)
      BY <1>2, <2>1, <2>3 DEF ResultType, Result
    <2>4. QED
      BY <1>2, <2>2, <2>3 DEF CheckResults, FallbackResults, ValidCheck, Result
  <1>3. QED
    BY <1>1, <1>2

(* The status of an assessment, told by the results of its checks. *)
LEMMA AssessmentStatusIs ==
  ASSUME NEW S, NEW results, \A p \in Positions(S) : results[p].status \in CheckStatuses
  PROVE  /\ AssessmentStatus(S, results) = "healthy" <=>
              \A p \in Positions(S) : results[p].status = "pass"
         /\ AssessmentStatus(S, results) = "unhealthy" <=>
              \E p \in Positions(S) :
                p[1].capabilities[p[2]].importance = "critical" /\ results[p].status # "pass"
  <1>1. ASSUME NEW t \in S, NEW i \in DOMAIN t.capabilities
        PROVE  CapabilityStatus(t, i, results) = "pass" <=>
                 \A j \in DOMAIN t.capabilities[i].checks : results[<<t, i, j>>].status = "pass"
    <2>1. \A j \in DOMAIN t.capabilities[i].checks :
            results[<<t, i, j>>].status \in CheckStatuses
      BY PositionIs
    <2>2. QED
      BY <2>1 DEF CapabilityStatus, CheckStatuses
  <1>2. ASSUME NEW t \in S
        PROVE  /\ WorkloadStatus(t, results) = "healthy" <=>
                    \A i \in DOMAIN t.capabilities : CapabilityStatus(t, i, results) = "pass"
               /\ WorkloadStatus(t, results) = "unhealthy" <=>
                    \E i \in DOMAIN t.capabilities :
                      /\ t.capabilities[i].importance = "critical"
                      /\ CapabilityStatus(t, i, results) # "pass"
               /\ WorkloadStatus(t, results) \in {"healthy", "unhealthy", "degraded"}
    BY DEF WorkloadStatus, Passing
  <1>3. /\ AssessmentStatus(S, results) = "healthy" <=>
             \A t \in S : WorkloadStatus(t, results) = "healthy"
        /\ AssessmentStatus(S, results) = "unhealthy" <=>
             \E t \in S : WorkloadStatus(t, results) = "unhealthy"
    BY <1>2 DEF AssessmentStatus
  <1>4. (\A p \in Positions(S) : results[p].status = "pass") <=>
          \A t \in S : \A i \in DOMAIN t.capabilities :
            \A j \in DOMAIN t.capabilities[i].checks : results[<<t, i, j>>].status = "pass"
    BY PositionIs
  <1>5. (\E p \in Positions(S) :
           p[1].capabilities[p[2]].importance = "critical" /\ results[p].status # "pass") <=>
          \E t \in S : \E i \in DOMAIN t.capabilities :
            /\ t.capabilities[i].importance = "critical"
            /\ \E j \in DOMAIN t.capabilities[i].checks : results[<<t, i, j>>].status # "pass"
    <2>1. ASSUME NEW p \in Positions(S), p[1].capabilities[p[2]].importance = "critical",
                 results[p].status # "pass"
          PROVE  \E t \in S : \E i \in DOMAIN t.capabilities :
                   /\ t.capabilities[i].importance = "critical"
                   /\ \E j \in DOMAIN t.capabilities[i].checks : results[<<t, i, j>>].status # "pass"
      <3>1. PICK t, i, j :
              /\ t \in S /\ i \in DOMAIN t.capabilities
              /\ j \in DOMAIN t.capabilities[i].checks /\ p = <<t, i, j>>
        BY PositionIs
      <3>2. p[1] = t /\ p[2] = i
        BY <3>1
      <3>3. QED
        BY <2>1, <3>1, <3>2
    <2>2. ASSUME NEW t \in S, NEW i \in DOMAIN t.capabilities,
                 NEW j \in DOMAIN t.capabilities[i].checks
          PROVE  /\ <<t, i, j>> \in Positions(S)
                 /\ <<t, i, j>>[1] = t /\ <<t, i, j>>[2] = i
      BY PositionIs
    <2>3. QED
      BY <2>1, <2>2
  <1>6. QED
    BY <1>1, <1>2, <1>3, <1>4, <1>5

-----------------------------------------------------------------------------
(* Commands.                                                               *)

Verdicts == {"healthy", "degraded", "unhealthy"}

(* What a command holds: contracts that are such, each under its ID; bytes *)
(* to write by the time it writes; results that run_check may have given;  *)
(* and a verdict that follows from all of them.                            *)
Fine(q) ==
  /\ q \in Process
  /\ q.contract # None => Loads(q.contract)
  /\ \A i \in Ids : q.catalog[i] # None => Loads(q.catalog[i]) /\ q.catalog[i].id = i
  /\ \A t \in q.chosen : Loads(t)
  /\ q.pc \in {"read", "replace", "reload"} => q.contract # None
  /\ q.pc = "replace" => q.content # None
  /\ q.snapshot.status \notin {"used", "partial", "failed"} => q.snapshot.facts = NoFacts
  /\ q.snapshot.status = "failed" =>
       q.snapshot.facts = NoFacts \/ Told(q.snapshot.facts) = RequestedFacts(q.chosen)
  /\ q.pc = "ask" => \A p \in Positions(q.chosen) : q.results[p] = None
  /\ \A p \in Positions(q.chosen) :
       q.results[p] # None => q.results[p] \in CheckResults(CheckAt(p), q.snapshot)
  /\ q.pc # "ended" => q.outcome = "none"
  /\ q.outcome \in Verdicts =>
       /\ \A p \in Positions(q.chosen) : q.results[p] # None
       /\ q.outcome = AssessmentStatus(q.chosen, q.results)

Inv ==
  /\ files \in [Names -> Stored]
  /\ draft \in Stored
  /\ views \in [Commands -> SUBSET [Names -> Stored]]
  /\ proc \in [Commands -> Process]
  /\ commands \in 0..MaxCommands /\ edits \in 0..MaxEdits /\ trouble \in 0..MaxTrouble
  /\ \A c \in Commands : Fine(proc[c])

(* A command that was not started holds nothing but the defaults. *)
LEMMA IdleIs ==
  /\ Idle \in Process /\ Idle.pc = "idle" /\ Idle.contract = None
  /\ Idle.catalog = Shipped /\ Idle.chosen = {} /\ Idle.outcome = "none"
  /\ Idle.snapshot = NoQuery({}) /\ Idle.results = NoResults
  /\ \A i \in Ids : Shipped[i] # None => Loads(Shipped[i]) /\ Shipped[i].id = i
  /\ NoQuery({}).facts = NoFacts /\ NoQuery({}).status # "failed"
  /\ \A p \in Positions(Tables) : NoResults[p] = None
  <1>1. \A i \in Ids : Shipped[i] \in Stored /\ (Shipped[i] # None =>
          Loads(Shipped[i]) /\ Shipped[i].id = i)
    BY WorkloadAssumption DEF Shipped, Stored
  <1>2. Shipped \in [Ids -> Stored]
    BY <1>1 DEF Shipped
  <1>3. /\ NoResults \in [Positions(Tables) -> ResultType \cup {None}]
        /\ \A p \in Positions(Tables) : NoResults[p] = None
    BY DEF NoResults
  <1>4. NoFacts \in FactMaps
    BY DEF NoFacts, FactMaps
  <1>5. /\ NoQuery({}) \in [status : {"not_required", "disabled", "unavailable", "failed", "partial",
                                     "used"}, facts : FactMaps]
        /\ NoQuery({}).facts = NoFacts /\ NoQuery({}).status # "failed"
    BY <1>4 DEF NoQuery
  <1> HIDE DEF Shipped, NoResults, NoQuery
  <1>6. Idle \in Process
    BY <1>2, <1>3, <1>5 DEF Idle, Process, Stored, ResultType, CheckStatuses
  <1>7. QED
    BY <1>1, <1>3, <1>5, <1>6 DEF Idle

LEMMA IdleFine ==
  ASSUME NEW pc \in {"idle", "validate", "list", "ask", "ended"},
         NEW outcome \in (DOMAIN ExitStatus \cup {"none"}) \ Verdicts,
         pc # "ended" => outcome = "none",
         NEW chosen \in SUBSET Tables, \A t \in chosen : Loads(t)
  PROVE  Fine([Idle EXCEPT !.pc = pc, !.outcome = outcome, !.chosen = chosen])
  <1> DEFINE r == [Idle EXCEPT !.pc = pc, !.outcome = outcome, !.chosen = chosen]
  <1>1. /\ r \in Process /\ r.pc = pc /\ r.outcome = outcome /\ r.chosen = chosen
        /\ r.contract = None /\ r.catalog = Shipped
        /\ r.snapshot = NoQuery({}) /\ r.results = NoResults
    BY IdleIs DEF Process
  <1>2. Positions(chosen) \subseteq Positions(Tables)
    BY PositionsGrow
  <1> HIDE DEF r
  <1>3. Fine(r)
    BY <1>1, <1>2, IdleIs DEF Fine
  <1>4. QED
    BY <1>3 DEF r

(* A command that ends without a verdict. *)
LEMMA EndFine ==
  ASSUME NEW q, Fine(q), NEW outcome \in DOMAIN ExitStatus \ Verdicts
  PROVE  Fine([q EXCEPT !.pc = "ended", !.outcome = outcome])
  <1> DEFINE r == [q EXCEPT !.pc = "ended", !.outcome = outcome]
  <1>1. q \in Process
    BY DEF Fine
  <1>2. /\ r \in Process /\ r.pc = "ended" /\ r.outcome = outcome
        /\ r.contract = q.contract /\ r.content = q.content /\ r.catalog = q.catalog
        /\ r.chosen = q.chosen /\ r.snapshot = q.snapshot /\ r.results = q.results
    BY <1>1 DEF Process
  <1> HIDE DEF r
  <1>3. Fine(r)
    BY <1>2 DEF Fine, Verdicts
  <1>4. QED
    BY <1>3 DEF r

(* A command that goes on, with what it holds so far. *)
LEMMA StepFine ==
  ASSUME Inv, NEW c \in Commands, NEW q, Fine(q), Become(c, q)
  PROVE  /\ proc' \in [Commands -> Process]
         /\ \A d \in Commands : Fine(proc'[d])
  <1>1. q \in Process
    BY DEF Fine
  <1>2. QED
    BY <1>1 DEF Inv, Become

-----------------------------------------------------------------------------
(* The steps of commands.                                                  *)

(* Commands hold what they should, whatever step was taken. *)
Stays ==
  /\ proc' \in [Commands -> Process]
  /\ \A d \in Commands : Fine(proc'[d])

(* Commands start and end. *)
LEMMA StartStays ==
  ASSUME Inv, NEW c \in Commands, StartApply(c) \/ StartReading(c) \/ Exit(c) \/ Crash(c)
  PROVE  Stays
  <1>1. ASSUME NEW pc \in {"idle", "validate", "list"}
        PROVE  Fine([Idle EXCEPT !.pc = pc]) /\ Fine(Idle)
    <2>1. [Idle EXCEPT !.pc = pc] = [Idle EXCEPT !.pc = pc, !.outcome = "none", !.chosen = {}]
      BY IdleIs DEF Process
    <2>2. Idle = [Idle EXCEPT !.pc = "idle", !.outcome = "none", !.chosen = {}]
      BY IdleIs DEF Process
    <2>3. "none" \in (DOMAIN ExitStatus \cup {"none"}) \ Verdicts
      BY DEF Verdicts
    <2>4. /\ Fine([Idle EXCEPT !.pc = pc, !.outcome = "none", !.chosen = {}])
          /\ Fine([Idle EXCEPT !.pc = "idle", !.outcome = "none", !.chosen = {}])
      BY <2>3, IdleFine
    <2>5. QED
      BY <2>1, <2>2, <2>4
  <1>2. PICK pc \in {"idle", "validate", "list"} :
          Become(c, [Idle EXCEPT !.pc = pc]) \/ Become(c, Idle)
    BY DEF StartApply, StartReading, Start, Exit, Crash
  <1>3. QED
    BY <1>1, <1>2, StepFine DEF Stays

(* The steps of apply. *)
LEMMA ApplyStays ==
  ASSUME Inv, NEW c \in Commands,
         Validate(c) \/ Read(c) \/ Replace(c) \/ WriteFails(c) \/ Reload(c)
  PROVE  Stays
  <1> DEFINE q == proc[c]
  <1>1. Fine(q) /\ draft \in Stored
    BY DEF Inv
  <1>2. q \in Process
    BY <1>1 DEF Fine
  <1>3. ASSUME NEW outcome \in {"ok", "contract_error", "contract_write_failed"}, End(c, outcome)
        PROVE  Stays
    <2>1. outcome \in DOMAIN ExitStatus \ Verdicts
      BY DEF ExitStatus, Verdicts
    <2>2. Fine([q EXCEPT !.pc = "ended", !.outcome = outcome])
      BY <1>1, <2>1, EndFine
    <2>3. QED
      BY <1>3, <2>2, StepFine DEF End, Stays
  <1>4. CASE Validate(c) /\ Loads(draft)
    <2> DEFINE r == [q EXCEPT !.pc = "read", !.contract = draft]
    <2>1. /\ r \in Process /\ r.pc = "read" /\ r.contract = draft /\ r.catalog = q.catalog
          /\ r.chosen = q.chosen /\ r.snapshot = q.snapshot /\ r.results = q.results
          /\ r.outcome = q.outcome
      BY <1>1, <1>2 DEF Process
    <2>2. Become(c, r) /\ q.pc = "validate" /\ draft # None
      BY <1>4 DEF Validate, Loads
    <2> HIDE DEF r
    <2>3. Fine(r)
      BY <1>1, <1>4, <2>1, <2>2 DEF Fine
    <2>4. QED
      BY <2>2, <2>3, StepFine DEF Stays
  <1>5. CASE Read(c) /\ draft # None
    <2> DEFINE r == [q EXCEPT !.pc = "replace", !.content = draft]
    <2>1. /\ r \in Process /\ r.pc = "replace" /\ r.contract = q.contract /\ r.content = draft
          /\ r.catalog = q.catalog /\ r.chosen = q.chosen /\ r.snapshot = q.snapshot
          /\ r.results = q.results /\ r.outcome = q.outcome
      BY <1>1, <1>2 DEF Process
    <2>2. Become(c, r) /\ q.pc = "read"
      BY <1>5 DEF Read
    <2> HIDE DEF r
    <2>3. Fine(r)
      BY <1>1, <1>5, <2>1, <2>2 DEF Fine
    <2>4. QED
      BY <2>2, <2>3, StepFine DEF Stays
  <1>6. CASE Replace(c)
    <2> DEFINE r == [q EXCEPT !.pc = "reload"]
    <2>1. /\ r \in Process /\ r.pc = "reload" /\ r.contract = q.contract
          /\ r.catalog = q.catalog /\ r.chosen = q.chosen /\ r.snapshot = q.snapshot
          /\ r.results = q.results /\ r.outcome = q.outcome
      BY <1>2 DEF Process
    <2>2. Become(c, r) /\ q.pc = "replace"
      BY <1>6 DEF Replace
    <2> HIDE DEF r
    <2>3. Fine(r)
      BY <1>1, <2>1, <2>2 DEF Fine
    <2>4. QED
      BY <2>2, <2>3, StepFine DEF Stays
  <1>7. QED
    BY <1>3, <1>4, <1>5, <1>6 DEF Validate, Read, WriteFails, Reload

(* The steps of discover_contracts and select_contracts. *)
LEMMA DiscoverStays ==
  ASSUME Inv, NEW c \in Commands, List(c) \/ Load(c) \/ Select(c)
  PROVE  Stays
  <1> DEFINE q == proc[c]
  <1>1. Fine(q) /\ files \in [Names -> Stored]
    BY DEF Inv
  <1>2. q \in Process
    BY <1>1 DEF Fine
  <1>3. CASE List(c)
    <2> DEFINE r == [q EXCEPT !.pc = "load", !.todo = Listed(files)]
    <2>1. Listed(files) \in SUBSET Names
      BY DEF Listed
    <2>2. /\ r \in Process /\ r.pc = "load" /\ r.contract = q.contract
          /\ r.catalog = q.catalog /\ r.chosen = q.chosen /\ r.snapshot = q.snapshot
          /\ r.results = q.results /\ r.outcome = q.outcome
      BY <1>2, <2>1 DEF Process
    <2>3. Become(c, r) /\ q.pc = "list"
      BY <1>3 DEF List
    <2> HIDE DEF r
    <2>4. Fine(r)
      BY <1>1, <2>2, <2>3 DEF Fine
    <2>5. QED
      BY <2>3, <2>4, StepFine DEF Stays
  <1>4. CASE Load(c)
    <2>1. PICK n \in q.todo :
            /\ q.pc = "load"
            /\ IF ~Loads(files[n]) THEN End(c, "contract_error")
               ELSE IF files[n].id \in q.mine THEN End(c, "duplicate_workload")
               ELSE Become(c, [q EXCEPT !.todo = @ \ {n}, !.mine = @ \cup {files[n].id},
                                        !.catalog[files[n].id] = files[n]])
      BY <1>4 DEF Load
    <2>2. CASE End(c, "contract_error") \/ End(c, "duplicate_workload")
      <3>1. {"contract_error", "duplicate_workload"} \subseteq DOMAIN ExitStatus \ Verdicts
        BY DEF ExitStatus, Verdicts
      <3>2. PICK outcome \in DOMAIN ExitStatus \ Verdicts : End(c, outcome)
        BY <2>2, <3>1
      <3>3. QED
        BY <1>1, <3>2, EndFine, StepFine DEF End, Stays
    <2>3. CASE /\ Loads(files[n])
               /\ Become(c, [q EXCEPT !.todo = @ \ {n}, !.mine = @ \cup {files[n].id},
                                      !.catalog[files[n].id] = files[n]])
      <3> DEFINE catalog == [q.catalog EXCEPT ![files[n].id] = files[n]]
                 r == [q EXCEPT !.todo = @ \ {n}, !.mine = @ \cup {files[n].id},
                                !.catalog[files[n].id] = files[n]]
      <3>1. files[n] \in Tables /\ files[n].id \in Ids /\ files[n] # None
        <4>1. n \in Names
          BY <1>2 DEF Process
        <4>2. QED
          BY <1>1, <2>3, <4>1, WorkloadAssumption DEF Stored, Loads
      <3>2. /\ catalog \in [Ids -> Stored]
            /\ \A i \in Ids : catalog[i] = IF i = files[n].id THEN files[n] ELSE q.catalog[i]
        BY <1>2, <3>1 DEF Process, Stored
      <3>3. /\ r \in Process /\ r.pc = q.pc /\ r.contract = q.contract
            /\ r.catalog = catalog /\ r.chosen = q.chosen /\ r.snapshot = q.snapshot
            /\ r.results = q.results /\ r.outcome = q.outcome
        BY <1>2, <3>1, <3>2 DEF Process
      <3>4. Become(c, r)
        BY <2>3
      <3> HIDE DEF r, catalog
      <3>5. Fine(r)
        BY <1>1, <2>1, <2>3, <3>2, <3>3 DEF Fine
      <3>6. QED
        BY <3>4, <3>5, StepFine DEF Stays
    <2>4. QED
      BY <2>1, <2>2, <2>3
  <1>5. CASE Select(c)
    <2>1. PICK wanted \in SUBSET Ids :
            \/ Become(c, [Idle EXCEPT !.pc = "ended", !.outcome = "unknown_workload"])
            \/ Become(c, [Idle EXCEPT !.pc = "ended", !.outcome = "ok"])
            \/ Become(c, [Idle EXCEPT !.pc = "ask", !.chosen = Chosen(q.catalog, wanted)])
      BY <1>5 DEF Select
    <2>2. /\ Chosen(q.catalog, wanted) \in SUBSET Tables
          /\ \A t \in Chosen(q.catalog, wanted) : Loads(t)
      BY <1>1, <1>2 DEF Chosen, Fine, Process, Stored
    <2>3. {"unknown_workload", "ok", "none"} \subseteq (DOMAIN ExitStatus \cup {"none"}) \ Verdicts
      BY DEF ExitStatus, Verdicts
    <2>4. ASSUME NEW outcome \in {"unknown_workload", "ok"}
          PROVE  Fine([Idle EXCEPT !.pc = "ended", !.outcome = outcome])
      <3>1. [Idle EXCEPT !.pc = "ended", !.outcome = outcome] =
              [Idle EXCEPT !.pc = "ended", !.outcome = outcome, !.chosen = {}]
        BY IdleIs DEF Process
      <3>2. Fine([Idle EXCEPT !.pc = "ended", !.outcome = outcome, !.chosen = {}])
        BY <2>3, IdleFine
      <3>3. QED
        BY <3>1, <3>2
    <2>5. Fine([Idle EXCEPT !.pc = "ask", !.chosen = Chosen(q.catalog, wanted)])
      <3> DEFINE chosen == Chosen(q.catalog, wanted)
      <3>1. chosen \in SUBSET Tables /\ \A t \in chosen : Loads(t)
        BY <2>2
      <3> HIDE DEF chosen
      <3>2. [Idle EXCEPT !.pc = "ask", !.chosen = chosen] =
              [Idle EXCEPT !.pc = "ask", !.outcome = "none", !.chosen = chosen]
        BY IdleIs DEF Process
      <3>3. Fine([Idle EXCEPT !.pc = "ask", !.outcome = "none", !.chosen = chosen])
        BY <2>3, <3>1, IdleFine
      <3>4. QED
        BY <3>2, <3>3 DEF chosen
    <2>6. QED
      BY <2>1, <2>4, <2>5, StepFine DEF Stays
  <1>6. QED
    BY <1>3, <1>4, <1>5

(* What the answer of jiritsu-stated may be. *)
LEMMA SnapshotIs ==
  ASSUME NEW requested,
         NEW snapshot \in {NoQuery(requested)} \cup
                          (IF requested = {} THEN {} ELSE Snapshots(requested))
  PROVE  /\ snapshot \in [status : {"not_required", "disabled", "unavailable", "failed", "partial",
                                    "used"}, facts : FactMaps]
         /\ snapshot.status \notin {"used", "partial", "failed"} => snapshot.facts = NoFacts
         /\ snapshot.status = "failed" =>
              snapshot.facts = NoFacts \/ Told(snapshot.facts) = requested
  <1>1. NoFacts \in FactMaps
    BY DEF NoFacts, FactMaps
  <1>2. CASE snapshot = NoQuery(requested)
    BY <1>1, <1>2 DEF NoQuery
  <1>3. ASSUME NEW status \in {"unavailable", "failed"},
               snapshot = [status |-> status, facts |-> NoFacts]
        PROVE  /\ snapshot \in [status : {"unavailable", "failed"}, facts : FactMaps]
               /\ snapshot.facts = NoFacts
    BY <1>1, <1>3
  <1>4. ASSUME NEW status, NEW exit, NEW facts \in FactMaps,
               snapshot = [status |-> AnsweredStatus(requested, status, exit, facts),
                           facts |-> facts]
        PROVE  /\ snapshot \in [status : {"failed", "partial", "used"}, facts : FactMaps]
               /\ snapshot.status = "failed" =>
                    snapshot.facts = NoFacts \/ Told(snapshot.facts) = requested
    <2>1. /\ AnsweredStatus(requested, status, exit, facts) \in {"failed", "partial", "used"}
          /\ AnsweredStatus(requested, status, exit, facts) = "failed" =>
               Told(facts) = {} \/ Told(facts) = requested
      BY DEF AnsweredStatus
    <2>2. Told(facts) = {} => facts = NoFacts
      BY DEF Told, FactMaps, NoFacts
    <2>3. QED
      BY <1>4, <2>1, <2>2
  <1>5. CASE snapshot \in Snapshots(requested)
    BY <1>3, <1>4, <1>5 DEF Snapshots
  <1>6. QED
    BY <1>2, <1>5

(* The steps of assess_contracts. *)
LEMMA AssessStays ==
  ASSUME Inv, NEW c \in Commands, Ask(c) \/ RunCheck(c) \/ Report(c)
  PROVE  Stays
  <1> DEFINE q == proc[c]
  <1>1. Fine(q)
    BY DEF Inv
  <1>2. q \in Process /\ Positions(q.chosen) \subseteq Positions(Tables)
    BY <1>1, PositionsGrow DEF Fine, Process
  <1>3. CASE Ask(c)
    <2>1. PICK snapshot \in {NoQuery(RequestedFacts(q.chosen))} \cup
                 (IF RequestedFacts(q.chosen) = {} THEN {} ELSE Snapshots(RequestedFacts(q.chosen))) :
            Become(c, [q EXCEPT !.pc = "check", !.snapshot = snapshot])
      BY <1>3 DEF Ask
    <2> DEFINE r == [q EXCEPT !.pc = "check", !.snapshot = snapshot]
    <2>2. /\ snapshot \in [status : {"not_required", "disabled", "unavailable", "failed", "partial",
                                     "used"}, facts : FactMaps]
          /\ snapshot.status \notin {"used", "partial", "failed"} => snapshot.facts = NoFacts
          /\ snapshot.status = "failed" =>
               snapshot.facts = NoFacts \/ Told(snapshot.facts) = RequestedFacts(q.chosen)
      BY <2>1, SnapshotIs
    <2>3. /\ r \in Process /\ r.pc = "check" /\ r.contract = q.contract
          /\ r.catalog = q.catalog /\ r.chosen = q.chosen /\ r.snapshot = snapshot
          /\ r.results = q.results /\ r.outcome = q.outcome
      BY <1>2, <2>2 DEF Process
    <2>4. Become(c, r) /\ q.pc = "ask"
      BY <1>3, <2>1 DEF Ask
    <2> HIDE DEF r
    <2>5. Fine(r)
      BY <1>1, <2>2, <2>3, <2>4 DEF Fine, Verdicts
    <2>6. QED
      BY <2>4, <2>5, StepFine DEF Stays
  <1>4. CASE RunCheck(c)
    <2>1. PICK p, result :
            /\ p \in Positions(q.chosen) /\ q.results[p] = None /\ result \in CheckResults(CheckAt(p), q.snapshot)
            /\ Become(c, [q EXCEPT !.results[p] = result])
      BY <1>4 DEF RunCheck, Unchecked
    <2>2. result \in ResultType
      <3>1. \A t \in q.chosen : Loads(t)
        BY <1>1 DEF Fine
      <3>2. ValidCheck(CheckAt(p))
        BY <2>1, <3>1, CheckIsValid
      <3>3. q.snapshot.facts \in FactMaps
        BY <1>2 DEF Process
      <3>4. QED
        BY <2>1, <3>2, <3>3, CheckResultsAre
    <2> DEFINE results == [q.results EXCEPT ![p] = result]
               r == [q EXCEPT !.results[p] = result]
    <2>3. /\ results \in [Positions(Tables) -> ResultType \cup {None}]
          /\ \A x \in Positions(q.chosen) : results[x] = IF x = p THEN result ELSE q.results[x]
      BY <1>2, <2>1, <2>2 DEF Process, ResultType, CheckStatuses
    <2>4. /\ r \in Process /\ r.pc = q.pc /\ r.contract = q.contract
          /\ r.catalog = q.catalog /\ r.chosen = q.chosen /\ r.snapshot = q.snapshot
          /\ r.results = results /\ r.outcome = q.outcome
      BY <1>2, <2>3 DEF Process, ResultType, CheckStatuses
    <2>5. Become(c, r) /\ q.pc = "check"
      BY <1>4, <2>1 DEF RunCheck
    <2> HIDE DEF r, results
    <2>6. Fine(r)
      BY <1>1, <2>1, <2>3, <2>4, <2>5 DEF Fine, Verdicts
    <2>7. QED
      BY <2>5, <2>6, StepFine DEF Stays
  <1>5. CASE Report(c)
    <2> DEFINE outcome == AssessmentStatus(q.chosen, q.results)
               r == [q EXCEPT !.pc = "ended", !.outcome = outcome]
    <2>1. outcome \in Verdicts /\ outcome \in DOMAIN ExitStatus
      BY DEF AssessmentStatus, Verdicts, ExitStatus
    <2>2. \A p \in Positions(q.chosen) : q.results[p] # None
      BY <1>5 DEF Report, Unchecked
    <2>3. Become(c, r)
      BY <1>5 DEF Report, End
    <2>4. /\ r \in Process /\ r.pc = "ended" /\ r.contract = q.contract
          /\ r.catalog = q.catalog /\ r.chosen = q.chosen /\ r.snapshot = q.snapshot
          /\ r.results = q.results /\ r.outcome = AssessmentStatus(q.chosen, q.results)
      BY <1>2, <2>1 DEF Process
    <2> HIDE DEF r, outcome
    <2>5. Fine(r)
      BY <1>1, <2>2, <2>4 DEF Fine
    <2>6. QED
      BY <2>3, <2>5, StepFine DEF Stays
  <1>6. QED
    BY <1>3, <1>4, <1>5

-----------------------------------------------------------------------------
(* All steps.                                                              *)

(* The steps of a command change the directory only where apply replaces a *)
(* file, and by what it has read.                                          *)
LEMMA CommandKeeps ==
  ASSUME Inv, NEW c \in Commands,
         \/ StartApply(c) \/ Validate(c) \/ Read(c) \/ Replace(c) \/ WriteFails(c) \/ Reload(c)
         \/ StartReading(c) \/ List(c) \/ Load(c) \/ Select(c)
         \/ Ask(c) \/ RunCheck(c) \/ Report(c) \/ Exit(c) \/ Crash(c)
  PROVE  Inv'
  <1>1. Stays
    BY StartStays, ApplyStays, DiscoverStays, AssessStays
  <1>2. MaxCommands \in Nat /\ MaxEdits \in Nat /\ MaxTrouble \in Nat
    BY WorkloadAssumption
  <1>3. UNCHANGED <<draft, edits>>
    BY DEF StartApply, Validate, Read, Replace, WriteFails, Reload, StartReading, Start, List, Load,
           Select, Ask, RunCheck, Report, Exit, Crash, Quietly
  <1>4. commands' = commands \/ (commands < MaxCommands /\ commands' = commands + 1)
    BY DEF StartApply, Validate, Read, Replace, WriteFails, Reload, StartReading, Start, List, Load,
           Select, Ask, RunCheck, Report, Exit, Crash, Quietly
  <1>5. trouble' = trouble \/ (trouble < MaxTrouble /\ trouble' = trouble + 1)
    BY DEF StartApply, Validate, Read, Replace, WriteFails, Reload, StartReading, Start, List, Load,
           Select, Ask, RunCheck, Report, Exit, Crash, Quietly, Trouble
  <1>6. commands' \in 0..MaxCommands /\ trouble' \in 0..MaxTrouble
    BY <1>2, <1>4, <1>5 DEF Inv
  <1>7. files' \in [Names -> Stored] /\ views' \in [Commands -> SUBSET [Names -> Stored]]
    <2>1. CASE Replace(c)
      <3>1. proc[c].content \in Stored
        BY DEF Inv, Process
      <3>2. files' = [files EXCEPT ![FileOf[proc[c].contract.id]] = proc[c].content]
        BY <2>1 DEF Replace, Put
      <3>3. files' \in [Names -> Stored]
        BY <3>1, <3>2 DEF Inv
      <3>4. views' = [d \in Commands |-> IF views[d] = {} THEN {} ELSE views[d] \cup {files'}]
        BY <2>1 DEF Replace, Put
      <3>5. \A d \in Commands : views[d] \in SUBSET [Names -> Stored]
        BY DEF Inv
      <3>6. QED
        BY <3>3, <3>4, <3>5
    <2>2. CASE UNCHANGED <<files, views>>
      BY <2>2 DEF Inv
    <2>3. CASE UNCHANGED files /\ views' \in {[views EXCEPT ![c] = {}], [views EXCEPT ![c] = {files}]}
      BY <2>3 DEF Inv
    <2>4. QED
      BY <2>1, <2>2, <2>3
      DEF StartApply, Validate, Read, WriteFails, Reload, StartReading, Start, List, Load, Select,
          Ask, RunCheck, Report, Exit, Crash, Quietly
  <1>8. QED
    BY <1>1, <1>3, <1>6, <1>7 DEF Inv, Stays

(* Nor does the user change what a command holds. *)
LEMMA NextInv == Inv /\ [Next]_vars => Inv'
  <1> SUFFICES ASSUME Inv, [Next]_vars PROVE Inv'
    OBVIOUS
  <1>1. CASE EditDraft
    BY <1>1, WorkloadAssumption DEF EditDraft, Edit, Inv, Stored
  <1>2. CASE EditFile
    BY <1>2, WorkloadAssumption DEF EditFile, Edit, Inv, Stored
  <1>3. CASE UNCHANGED vars
    BY <1>3 DEF vars, Inv
  <1>4. QED
    BY <1>1, <1>2, <1>3, CommandKeeps DEF Next

LEMMA InitInv == Init => Inv
  <1> SUFFICES ASSUME Init PROVE Inv
    OBVIOUS
  <1>1. Fine(Idle)
    <2>1. Idle = [Idle EXCEPT !.pc = "idle", !.outcome = "none", !.chosen = {}]
      BY IdleIs DEF Process
    <2>2. "none" \in (DOMAIN ExitStatus \cup {"none"}) \ Verdicts
      BY DEF Verdicts
    <2>3. Fine([Idle EXCEPT !.pc = "idle", !.outcome = "none", !.chosen = {}])
      BY <2>2, IdleFine
    <2>4. QED
      BY <2>1, <2>3
  <1>2. proc \in [Commands -> Process] /\ \A c \in Commands : Fine(proc[c])
    BY <1>1, IdleIs DEF Init
  <1>3. files \in [Names -> Stored] /\ draft \in Stored
    BY WorkloadAssumption DEF Init, Stored
  <1>4. /\ views \in [Commands -> SUBSET [Names -> Stored]]
        /\ commands \in 0..MaxCommands /\ edits \in 0..MaxEdits /\ trouble \in 0..MaxTrouble
    BY WorkloadAssumption DEF Init
  <1>5. QED
    BY <1>2, <1>3, <1>4 DEF Inv

LEMMA InvHolds == Spec => []Inv
  BY InitInv, NextInv, PTL DEF Spec

(* Everything has its type, and every contract of a command was validated  *)
(* (load_contract, parse_contract).                                        *)
THEOREM TypeCorrect == Spec => []TypeOK
  <1>1. Inv => TypeOK
    BY DEF Inv, Fine, TypeOK
  <1>2. QED
    BY <1>1, InvHolds, PTL

(* The verdict of an assessment is the one that its facts and probes       *)
(* justify, whatever contracts were assessed: a fact that came back is     *)
(* overruled by a probe only where the query gives every fact and fails,   *)
(* never where it gives only some of them, however it ends                 *)
(* (collect_stated_facts, run_check, assess_contracts).                    *)
THEOREM VerdictIsAlwaysJustified == Spec => []VerdictIsJustified
  <1>1. ASSUME Inv, NEW c \in Commands, proc[c].outcome \in Verdicts
        PROVE  LET q == proc[c]
                   Came(check) == /\ ~FailedWithAll(q.snapshot, q.chosen)
                                  /\ check.fact # None /\ q.snapshot.facts[check.fact] # None
                   Good(p) == IF Came(CheckAt(p)) THEN q.snapshot.facts[CheckAt(p).fact] = "meets"
                              ELSE q.results[p] = Result("pass", "direct_probe")
                   Critical(p) == p[1].capabilities[p[2]].importance = "critical"
               IN  /\ q.outcome = "healthy" <=> \A p \in Positions(q.chosen) : Good(p)
                   /\ q.outcome = "unhealthy" <=>
                        \E p \in Positions(q.chosen) : Critical(p) /\ ~Good(p)
    <2> DEFINE q == proc[c]
               Came(check) == /\ ~FailedWithAll(q.snapshot, q.chosen)
                              /\ check.fact # None /\ q.snapshot.facts[check.fact] # None
               Good(p) == IF Came(CheckAt(p)) THEN q.snapshot.facts[CheckAt(p).fact] = "meets"
                          ELSE q.results[p] = Result("pass", "direct_probe")
    <2>1. Fine(q)
      BY <1>1 DEF Inv
    <2>2. q.snapshot.facts \in FactMaps /\ q.outcome = AssessmentStatus(q.chosen, q.results)
      BY <1>1, <2>1 DEF Fine, Process
    <2>3. ASSUME NEW p \in Positions(q.chosen)
          PROVE  /\ q.results[p].status \in CheckStatuses
                 /\ q.results[p].status = "pass" <=> Good(p)
      <3>1. q.results[p] \in CheckResults(CheckAt(p), q.snapshot)
        BY <1>1, <2>1 DEF Fine
      <3>2. ValidCheck(CheckAt(p))
        BY <2>1, CheckIsValid DEF Fine
      <3>3. Came(CheckAt(p)) <=> CheckAt(p).fact # None /\ Answered(CheckAt(p), q.snapshot)
        <4>1. CheckAt(p).fact \in Facts \cup {None}
          BY <3>2 DEF ValidCheck
        <4>2. q.snapshot.status \notin {"used", "partial", "failed"} /\ CheckAt(p).fact # None =>
                q.snapshot.facts[CheckAt(p).fact] = None
          BY <2>1, <4>1 DEF Fine, NoFacts
        <4>3. q.snapshot.status = "failed" /\ CheckAt(p).fact # None =>
                \/ q.snapshot.facts[CheckAt(p).fact] = None
                \/ FailedWithAll(q.snapshot, q.chosen)
          BY <2>1, <4>1 DEF Fine, NoFacts, FailedWithAll
        <4>4. q.snapshot.status \in {"not_required", "disabled", "unavailable", "failed", "partial",
                                     "used"}
          BY <2>1 DEF Fine, Process
        <4>5. QED
          BY <4>2, <4>3, <4>4 DEF Answered, FailedWithAll
      <3>4. QED
        BY <2>2, <3>1, <3>2, <3>3, CheckResultsAre DEF ResultType
    <2>4. QED
      BY <2>2, <2>3, AssessmentStatusIs
  <1>2. Inv => VerdictIsJustified
    BY <1>1 DEF VerdictIsJustified, Verdicts
  <1>3. QED
    BY <1>2, InvHolds, PTL

(* A contract that is installed in one step, is a contract, and has no     *)
(* other file with its ID, leaves the directory readable; no other step of *)
(* a command touches it (install_contract).                                *)
THEOREM ApplyAlwaysKeepsListable == Spec => ApplyKeepsListable
  <1>1. ASSUME Inv, [Next]_vars, Listable(files), UNCHANGED edits, ~Listable(files')
        PROVE  \E c \in Commands : proc[c].pc = "replace" /\ proc'[c].pc = "reload" /\ Surprised(c)
    <2>1. edits + 1 # edits
      BY <1>1 DEF Inv
    <2>2. PICK c \in Commands : Replace(c)
      BY <1>1, <2>1
      DEF Next, vars, EditDraft, EditFile, Edit, StartApply, Validate, Read, WriteFails, Reload,
          StartReading, Start, List, Load, Select, Ask, RunCheck, Report, Exit, Crash, Quietly
    <2> DEFINE q == proc[c]
               n == FileOf[q.contract.id]
    <2>3. /\ Fine(q) /\ q \in Process /\ q.pc = "replace" /\ proc'[c].pc = "reload"
          /\ files' = [files EXCEPT ![n] = q.content] /\ files \in [Names -> Stored]
      <3>1. Fine(q) /\ q \in Process /\ files \in [Names -> Stored] /\ DOMAIN proc = Commands
        BY <1>1 DEF Inv
      <3>2. /\ q.pc = "replace" /\ proc' = [proc EXCEPT ![c] = [q EXCEPT !.pc = "reload"]]
            /\ files' = [files EXCEPT ![n] = q.content]
        BY <2>2 DEF Replace, Become, Put
      <3>3. [q EXCEPT !.pc = "reload"].pc = "reload"
        BY <3>1 DEF Process
      <3>4. QED
        BY <3>1, <3>2, <3>3
    <2>4. Loads(q.contract) /\ q.contract.id \in Ids /\ n \in Names
      <3>1. Loads(q.contract) /\ q.contract \in Tables
        BY <2>3 DEF Fine, Process, Stored
      <3>2. QED
        BY <3>1, WorkloadAssumption
    <2>5. ASSUME ~Surprised(c) PROVE Listable(files')
      <3>1. q.content = q.contract
        BY <2>5 DEF Surprised
      <3>2. \A m \in Listed(files) \ {n} : files[m].id # q.contract.id
        BY <2>5 DEF Surprised
      <3>3. \A m \in Names : files'[m] = IF m = n THEN q.contract ELSE files[m]
        BY <2>3, <3>1
      <3>4. Listed(files') \subseteq Listed(files) \cup {n}
        BY <3>3 DEF Listed
      <3>5. Listed(files') \subseteq Names
        BY DEF Listed
      <3> HIDE DEF q, n
      <3>6. QED
        BY <1>1, <2>4, <3>2, <3>3, <3>4, <3>5 DEF Listable
    <2>6. QED
      BY <1>1, <2>3, <2>5
  <1>2. Inv /\ [Next]_vars =>
          [Listable(files) /\ UNCHANGED edits =>
             \/ Listable(files')
             \/ \E c \in Commands : proc[c].pc = "replace" /\ proc'[c].pc = "reload" /\ Surprised(c)]_vars
    BY <1>1
  <1>3. QED
    BY <1>2, InvHolds, PTL DEF Spec, ApplyKeepsListable

-----------------------------------------------------------------------------
(* Readers of the directory.                                               *)

(* Command q has loaded what v lists and q has not still to load: all of   *)
(* them are contracts, no two with the same ID, and they are in the        *)
(* catalog in the place of the defaults.                                   *)
ReadSoFar(q, v) ==
  LET done == Listed(v) \ q.todo IN
  /\ q.todo \subseteq Listed(v)
  /\ \A n \in done : Loads(v[n])
  /\ \A m, n \in done : v[m].id = v[n].id => m = n
  /\ q.mine = {v[n].id : n \in done}
  /\ \A n \in done : q.catalog[v[n].id] = v[n]
  /\ \A i \in Ids \ q.mine : q.catalog[i] = Shipped[i]

(* Two views of a directory differ in one file: apply replaces one.  So a  *)
(* command that loads each file once has loaded what one of them holds.    *)
Seen(q, V, directory) ==
  /\ IsFiniteSet(V)
  /\ q.pc \notin {"load", "ended"} => V = {}
  /\ q.pc = "list" => q.catalog = Shipped /\ q.mine = {}
  /\ V # {} =>
       /\ directory \in V
       /\ q.pc = "load" => q.todo \subseteq Listed(directory)
  /\ V # {} /\ Cardinality(V) <= 2 =>
       /\ \E n : \A u, v \in V : \A m \in Names \ {n} : u[m] = v[m]
       /\ q.pc = "load" => \E v \in V : ReadSoFar(q, v)
       /\ q.pc = "ended" => \E v \in V : ~Listable(v)

ReadInv == Inv /\ \A c \in Commands : Seen(proc[c], views[c], files)

(* A command that sees nothing has seen nothing inconsistent. *)
LEMMA SeesNothing ==
  ASSUME NEW q, NEW directory, q.pc = "list" => q.catalog = Shipped /\ q.mine = {}
  PROVE  Seen(q, {}, directory)
  BY FS_EmptySet DEF Seen

(* A file is replaced while a command reads: a new view, which differs in  *)
(* that file only.  The list of names that the command holds stays valid,  *)
(* as the file is never missing.                                           *)
LEMMA PutSeen ==
  ASSUME NEW q, NEW V, V # {}, NEW directory \in [Names -> Stored], Seen(q, V, directory),
         NEW f \in Names, NEW table \in Stored, table # None
  PROVE  Seen(q, V \cup {[directory EXCEPT ![f] = table]}, [directory EXCEPT ![f] = table])
  <1> DEFINE new == [directory EXCEPT ![f] = table]
             W == V \cup {new}
  <1>1. /\ IsFiniteSet(V) /\ IsFiniteSet(W) /\ Cardinality(V) \in Nat
        /\ Cardinality(W) = IF new \in V THEN Cardinality(V) ELSE Cardinality(V) + 1
    BY FS_AddElement, FS_CardinalityType DEF Seen
  <1>2. \A m \in Names : new[m] = IF m = f THEN table ELSE directory[m]
    OBVIOUS
  <1>3. Listed(directory) \subseteq Listed(new)
    BY <1>2 DEF Listed
  <1> HIDE DEF new
  <1>4. ASSUME Cardinality(W) <= 2
        PROVE  /\ Cardinality(V) <= 2
               /\ \E n : \A u, v \in W : \A m \in Names \ {n} : u[m] = v[m]
    <2>1. CASE new \in V
      <3>1. W = V
        BY <2>1
      <3>2. QED
        BY <1>1, <1>4, <2>1, <3>1 DEF Seen
    <2>2. CASE new \notin V
      <3>1. Cardinality(V) <= 1
        BY <1>1, <1>4, <2>2
      <3>2. Cardinality(V) # 0
        BY <1>1, FS_EmptySet
      <3>3. Cardinality(V) = 1
        BY <1>1, <3>1, <3>2
      <3>4. PICK x : V = {x}
        BY <1>1, <3>3, FS_Singleton
      <3>5. V = {directory}
        BY <3>4 DEF Seen
      <3>6. \A u, v \in W : \A m \in Names \ {f} : u[m] = v[m]
        BY <1>2, <3>5
      <3>7. QED
        BY <3>3, <3>6
    <2>3. QED
      BY <2>1, <2>2
  <1>5. new \in W /\ V \subseteq W
    OBVIOUS
  <1> HIDE DEF W
  <1>6. Seen(q, W, new)
    BY <1>1, <1>3, <1>4, <1>5 DEF Seen
  <1>7. QED
    BY <1>6 DEF W, new

(* A command loads a file.  What it holds is what the directory holds now, *)
(* unless it has loaded another content of the one file that was replaced. *)
LEMMA LoadSeen ==
  ASSUME NEW q \in Process, NEW V, NEW directory \in [Names -> Stored], Seen(q, V, directory),
         q.pc = "load", V # {}, Cardinality(V) <= 2, V \subseteq [Names -> Stored],
         NEW n \in q.todo
  PROVE  \E v \in V :
           /\ ReadSoFar(q, v) /\ v[n] = directory[n]
  <1>1. PICK v \in V : ReadSoFar(q, v)
    BY DEF Seen
  <1>2. PICK k : \A u, w \in V : \A m \in Names \ {k} : u[m] = w[m]
    BY DEF Seen
  <1>3. n \in Names /\ directory \in V /\ n \in Listed(v) /\ n \in Listed(directory)
    BY <1>1 DEF Seen, ReadSoFar, Listed
  <1>4. CASE v[n] = directory[n]
    BY <1>1, <1>4
  <1>5. CASE v[n] # directory[n]
    <2>1. \A m \in Names \ {n} : v[m] = directory[m]
      BY <1>2, <1>3, <1>5
    <2>2. Listed(v) = Listed(directory)
      BY <1>3, <2>1 DEF Listed
    <2>3. \A m \in Listed(v) \ q.todo : v[m] = directory[m]
      BY <2>1 DEF Listed
    <2>4. {v[m].id : m \in Listed(v) \ q.todo} = {directory[m].id : m \in Listed(v) \ q.todo}
      BY <2>3
    <2>5. ReadSoFar(q, directory)
      BY <1>1, <2>2, <2>3, <2>4 DEF ReadSoFar
    <2>6. QED
      BY <1>3, <2>5
  <1>6. QED
    BY <1>4, <1>5

(* The steps of a command keep what the others have seen, and its own.     *)
LEMMA CommandSeen ==
  ASSUME ReadInv, NEW c \in Commands,
         \/ StartApply(c) \/ Validate(c) \/ Read(c) \/ Replace(c) \/ WriteFails(c) \/ Reload(c)
         \/ StartReading(c) \/ List(c) \/ Load(c) \/ Select(c)
         \/ Ask(c) \/ RunCheck(c) \/ Report(c) \/ Exit(c) \/ Crash(c),
         NEW d \in Commands
  PROVE  Seen(proc'[d], views'[d], files')
  <1> DEFINE q == proc[c]
             p == proc[d]
  <1>1. /\ q \in Process /\ p \in Process /\ Fine(q)
        /\ Seen(q, views[c], files) /\ Seen(p, views[d], files)
        /\ files \in [Names -> Stored] /\ views \in [Commands -> SUBSET [Names -> Stored]]
        /\ proc \in [Commands -> Process]
    BY DEF ReadInv, Inv
  <1>2. \A r : Become(c, r) => proc'[c] = r
    BY <1>1 DEF Become
  <1>3. CASE Replace(c)
    <2> DEFINE f == FileOf[q.contract.id]
    <2>1. f \in Names
      BY <1>1, <1>3, WorkloadAssumption DEF Fine, Process, Stored, Replace
    <2>2. q.content \in Stored /\ q.content # None
      BY <1>1, <1>3 DEF Fine, Process, Replace
    <2>3. /\ files' = [files EXCEPT ![f] = q.content]
          /\ views'[d] = IF views[d] = {} THEN {} ELSE views[d] \cup {files'}
      BY <1>3 DEF Replace, Put
    <2>4. CASE d = c
      <3>1. views[c] = {} /\ proc'[c].pc = "reload"
        BY <1>1, <1>3 DEF Replace, Become, Process, Seen
      <3>2. QED
        BY <2>3, <2>4, <3>1, SeesNothing
    <2>5. CASE d # c
      <3>1. proc'[d] = p
        BY <1>1, <1>3, <2>5 DEF Replace, Become
      <3>2. CASE views[d] = {}
        BY <1>1, <2>3, <3>1, <3>2, SeesNothing DEF Seen
      <3>3. CASE views[d] # {}
        <4> HIDE DEF f
        <4>1. Seen(p, views[d] \cup {[files EXCEPT ![f] = q.content]}, [files EXCEPT ![f] = q.content])
          BY <1>1, <2>1, <2>2, <3>3, PutSeen
        <4>2. QED
          BY <2>3, <3>1, <3>3, <4>1
      <3>4. QED
        BY <3>2, <3>3
    <2>6. QED
      BY <2>4, <2>5
  <1>4. CASE d # c /\ ~Replace(c)
    <2>1. files' = files /\ views'[d] = views[d]
      BY <1>1, <1>4
      DEF StartApply, Validate, Read, WriteFails, Reload, StartReading, Start, List, Load, Select,
          Ask, RunCheck, Report, Exit, Crash, Quietly
    <2>2. proc'[d] = p
      BY <1>1, <1>4
      DEF StartApply, Validate, Read, WriteFails, Reload, StartReading, Start, List, Load, Select,
          Ask, RunCheck, Report, Exit, Crash, Become, End
    <2>3. QED
      BY <1>1, <2>1, <2>2
  <1>5. CASE List(c) /\ d = c
    <2>1. /\ proc'[c] = [q EXCEPT !.pc = "load", !.todo = Listed(files)]
          /\ views'[c] = {files} /\ files' = files /\ q.pc = "list"
      BY <1>1, <1>5 DEF List, Become
    <2>2. /\ proc'[c].pc = "load" /\ proc'[c].todo = Listed(files)
          /\ proc'[c].catalog = Shipped /\ proc'[c].mine = {}
      BY <1>1, <2>1 DEF Process, Seen
    <2>3. ReadSoFar(proc'[c], files)
      BY <2>2 DEF ReadSoFar
    <2>4. IsFiniteSet({files})
      BY FS_Singleton
    <2>5. QED
      BY <1>5, <2>1, <2>2, <2>3, <2>4 DEF Seen
  <1>6. CASE Load(c) /\ d = c
    <2>1. PICK n \in q.todo :
            /\ q.pc = "load"
            /\ IF ~Loads(files[n]) THEN End(c, "contract_error")
               ELSE IF files[n].id \in q.mine THEN End(c, "duplicate_workload")
               ELSE Become(c, [q EXCEPT !.todo = @ \ {n}, !.mine = @ \cup {files[n].id},
                                        !.catalog[files[n].id] = files[n]])
      BY <1>6 DEF Load
    <2>2. files' = files /\ views' = views
      BY <1>6 DEF Load, Quietly
    <2>3. n \in Names /\ views[c] \subseteq [Names -> Stored]
      BY <1>1 DEF Process
    <2>4. ASSUME views[c] # {}, Cardinality(views[c]) <= 2
          PROVE  /\ files \in views[c] /\ q.todo \subseteq Listed(files)
                 /\ \E v \in views[c] : ReadSoFar(q, v) /\ v[n] = files[n]
      <3>1. files \in views[c] /\ q.todo \subseteq Listed(files)
        BY <1>1, <2>1, <2>4 DEF Seen
      <3> HIDE DEF q
      <3>2. \E v \in views[c] : ReadSoFar(q, v) /\ v[n] = files[n]
        BY <1>1, <2>1, <2>3, <2>4, LoadSeen
      <3>3. QED
        BY <3>1, <3>2
    <2>5. CASE End(c, "contract_error") \/ End(c, "duplicate_workload")
      <3>1. proc'[c].pc = "ended"
        <4>1. \A outcome : [q EXCEPT !.pc = "ended", !.outcome = outcome].pc = "ended"
          BY <1>1 DEF Process
        <4>2. QED
          BY <1>2, <2>5, <4>1 DEF End
      <3>2. ASSUME views[c] # {}, Cardinality(views[c]) <= 2
            PROVE  \E v \in views[c] : ~Listable(v)
        <4>1. CASE ~Loads(files[n])
          <5>1. files \in views[c] /\ n \in Listed(files)
            BY <2>4, <3>2
          <5>2. ~Listable(files)
            BY <4>1, <5>1 DEF Listable
          <5>3. QED
            BY <5>1, <5>2
        <4>2. CASE files[n].id \in q.mine
          <5>1. PICK v \in views[c] : ReadSoFar(q, v) /\ v[n] = files[n]
            BY <2>4, <3>2
          <5>2. PICK m \in Listed(v) \ q.todo : v[m].id = v[n].id
            BY <4>2, <5>1 DEF ReadSoFar
          <5>3. m # n /\ n \in Listed(v)
            BY <5>1, <5>2 DEF ReadSoFar
          <5>4. ~Listable(v)
            BY <5>2, <5>3 DEF Listable
          <5>5. QED
            BY <5>4
        <4>3. CASE Loads(files[n]) /\ files[n].id \notin q.mine
          <5>1. proc'[c].pc = "load"
            <6>1. proc'[c] = [q EXCEPT !.todo = @ \ {n}, !.mine = @ \cup {files[n].id},
                                       !.catalog[files[n].id] = files[n]]
              BY <1>2, <2>1, <4>3
            <6>2. [q EXCEPT !.todo = @ \ {n}, !.mine = @ \cup {files[n].id},
                            !.catalog[files[n].id] = files[n]].pc = q.pc
              BY <1>1 DEF Process
            <6>3. QED
              BY <2>1, <6>1, <6>2
          <5>2. QED
            BY <3>1, <5>1
        <4>4. QED
          BY <4>1, <4>2, <4>3
      <3>3. QED
        <4>1. Seen(proc'[c], views[c], files)
          BY <1>1, <2>1, <3>1, <3>2 DEF Seen
        <4>2. QED
          BY <1>6, <2>2, <4>1
    <2>6. CASE /\ Loads(files[n]) /\ files[n].id \notin q.mine
               /\ Become(c, [q EXCEPT !.todo = @ \ {n}, !.mine = @ \cup {files[n].id},
                                      !.catalog[files[n].id] = files[n]])
      <3> DEFINE i == files[n].id
                 r == proc'[c]
      <3>1. i \in Ids
        BY <1>1, <2>3, <2>6, WorkloadAssumption DEF Stored, Loads
      <3>2. /\ r.pc = "load" /\ r.todo = q.todo \ {n} /\ r.mine = q.mine \cup {i}
            /\ r.catalog = [q.catalog EXCEPT ![i] = files[n]]
        BY <1>1, <2>1, <2>6 DEF Become, Process
      <3>3. \A j \in Ids : r.catalog[j] = IF j = i THEN files[n] ELSE q.catalog[j]
        BY <1>1, <3>1, <3>2 DEF Process
      <3> HIDE DEF r
      <3>4. ASSUME NEW v \in views[c], ReadSoFar(q, v), v[n] = files[n]
            PROVE  ReadSoFar(r, v)
        <4> DEFINE done == Listed(v) \ q.todo
        <4>1. Listed(v) \ r.todo = done \cup {n}
          BY <3>2, <3>4 DEF ReadSoFar
        <4>2. r.mine = {v[m].id : m \in done \cup {n}}
          BY <3>2, <3>4 DEF ReadSoFar
        <4>3. \A m \in done : v[m].id \in q.mine /\ v[m].id \in Ids /\ v[m].id # i
          <5>1. \A m \in done : v[m] \in Tables
            BY <1>1, <3>4, <2>3 DEF Listed, Stored
          <5>2. QED
            BY <2>6, <3>4, <5>1, WorkloadAssumption DEF ReadSoFar
        <4>4. \A m \in done \cup {n} : Loads(v[m]) /\ r.catalog[v[m].id] = v[m]
          BY <2>6, <3>1, <3>3, <3>4, <4>3 DEF ReadSoFar
        <4>5. \A m, k \in done \cup {n} : v[m].id = v[k].id => m = k
          BY <3>4, <4>3 DEF ReadSoFar
        <4>6. \A j \in Ids \ r.mine : r.catalog[j] = Shipped[j]
          BY <3>2, <3>3, <3>4 DEF ReadSoFar
        <4>7. r.todo \subseteq Listed(v)
          BY <3>2, <3>4 DEF ReadSoFar
        <4> HIDE DEF done
        <4>8. QED
          BY <4>1, <4>2, <4>4, <4>5, <4>6, <4>7 DEF ReadSoFar
      <3>5. Seen(r, views[c], files)
        BY <1>1, <2>1, <2>4, <3>2, <3>4 DEF Seen
      <3>6. QED
        BY <1>6, <2>2, <3>5 DEF r
    <2>7. QED
      BY <2>1, <2>5, <2>6
  <1>7. CASE (Select(c) \/ Exit(c) \/ Crash(c)) /\ d = c
    <2>1. views'[c] = {}
      BY <1>1, <1>7 DEF Select, Exit, Crash
    <2>2. proc'[c].pc # "list"
      <3>1. Idle.pc # "list"
        BY DEF Idle
      <3>2. CASE Select(c)
        <4>1. PICK wanted \in SUBSET Ids :
                \/ Become(c, [Idle EXCEPT !.pc = "ended", !.outcome = "unknown_workload"])
                \/ Become(c, [Idle EXCEPT !.pc = "ended", !.outcome = "ok"])
                \/ Become(c, [Idle EXCEPT !.pc = "ask", !.chosen = Chosen(q.catalog, wanted)])
          BY <3>2 DEF Select
        <4>2. \/ proc'[c] = [Idle EXCEPT !.pc = "ended", !.outcome = "unknown_workload"]
              \/ proc'[c] = [Idle EXCEPT !.pc = "ended", !.outcome = "ok"]
              \/ proc'[c] = [Idle EXCEPT !.pc = "ask", !.chosen = Chosen(q.catalog, wanted)]
          BY <1>2, <4>1
        <4>3. /\ \A outcome : [Idle EXCEPT !.pc = "ended", !.outcome = outcome].pc # "list"
              /\ [Idle EXCEPT !.pc = "ask", !.chosen = Chosen(q.catalog, wanted)].pc # "list"
          BY DEF Idle
        <4>4. QED
          BY <4>2, <4>3
      <3>3. CASE Exit(c) \/ Crash(c)
        <4>1. proc'[c] = Idle
          BY <1>2, <3>3 DEF Exit, Crash
        <4>2. QED
          BY <3>1, <4>1
      <3>4. QED
        BY <1>7, <3>2, <3>3
    <2>3. QED
      BY <1>7, <2>1, <2>2, SeesNothing
  <1>8. CASE /\ \/ StartApply(c) \/ Validate(c) \/ Read(c) \/ WriteFails(c) \/ Reload(c)
                \/ StartReading(c) \/ Ask(c) \/ RunCheck(c) \/ Report(c)
             /\ d = c
    <2>1. views'[c] = views[c] /\ q.pc \notin {"load", "ended", "list"}
      BY <1>8
      DEF StartApply, Validate, Read, WriteFails, Reload, StartReading, Start, Ask, RunCheck,
          Report, Quietly
    <2>2. views'[c] = {}
      BY <1>1, <2>1 DEF Seen
    <2>3. proc'[c].pc = "list" => proc'[c].catalog = Shipped /\ proc'[c].mine = {}
      <3>1. CASE StartReading(c)
        <4>1. proc'[c] = [Idle EXCEPT !.pc = "list"]
          BY <1>1, <3>1 DEF StartReading, Start, Become
        <4>2. QED
          BY <4>1 DEF Idle
      <3>2. CASE ~StartReading(c)
        <4>1. proc'[c].pc # "list"
          <5>1. /\ [Idle EXCEPT !.pc = "validate"].pc # "list"
                /\ \A contract : [q EXCEPT !.pc = "read", !.contract = contract].pc = "read"
                /\ \A content : [q EXCEPT !.pc = "replace", !.content = content].pc = "replace"
                /\ \A snapshot : [q EXCEPT !.pc = "check", !.snapshot = snapshot].pc = "check"
                /\ \A x, result : [q EXCEPT !.results[x] = result].pc = q.pc
                /\ \A outcome : [q EXCEPT !.pc = "ended", !.outcome = outcome].pc = "ended"
            BY <1>1 DEF Idle, Process
          <5>2. CASE StartApply(c)
            <6>1. proc'[c] = [Idle EXCEPT !.pc = "validate"]
              BY <1>2, <5>2 DEF StartApply, Start
            <6>2. QED
              BY <5>1, <6>1
          <5>3. ASSUME NEW outcome, End(c, outcome) PROVE proc'[c].pc # "list"
            <6>1. proc'[c] = [q EXCEPT !.pc = "ended", !.outcome = outcome]
              BY <1>2, <5>3 DEF End
            <6>2. QED
              BY <5>1, <6>1
          <5>4. ASSUME NEW r, Become(c, r), r.pc # "list" PROVE proc'[c].pc # "list"
            BY <1>2, <5>4
          <5>5. CASE Validate(c) \/ WriteFails(c) \/ Reload(c) \/ Report(c)
            <6>1. \/ \E outcome : End(c, outcome)
                  \/ Become(c, [q EXCEPT !.pc = "read", !.contract = draft])
              BY <5>5 DEF Validate, WriteFails, Reload, Report
            <6>2. [q EXCEPT !.pc = "read", !.contract = draft].pc # "list"
              BY <5>1
            <6>3. QED
              BY <5>3, <5>4, <6>1, <6>2
          <5>6. CASE Read(c)
            <6>1. \/ \E outcome : End(c, outcome)
                  \/ Become(c, [q EXCEPT !.pc = "replace", !.content = draft])
              BY <5>6 DEF Read
            <6>2. [q EXCEPT !.pc = "replace", !.content = draft].pc # "list"
              BY <5>1
            <6>3. QED
              BY <5>3, <5>4, <6>1, <6>2
          <5>7. CASE Ask(c)
            <6>1. PICK snapshot : Become(c, [q EXCEPT !.pc = "check", !.snapshot = snapshot])
              BY <5>7 DEF Ask
            <6>2. [q EXCEPT !.pc = "check", !.snapshot = snapshot].pc # "list"
              BY <5>1
            <6>3. QED
              BY <5>4, <6>1, <6>2
          <5>8. CASE RunCheck(c)
            <6>1. PICK x, result : Become(c, [q EXCEPT !.results[x] = result])
              BY <5>8 DEF RunCheck
            <6>2. [q EXCEPT !.results[x] = result].pc # "list"
              BY <2>1, <5>1
            <6>3. QED
              BY <5>4, <6>1, <6>2
          <5>9. QED
            BY <1>8, <3>2, <5>2, <5>5, <5>6, <5>7, <5>8
        <4>2. QED
          BY <4>1
      <3>3. QED
        BY <3>1, <3>2
    <2>4. QED
      BY <1>8, <2>2, <2>3, SeesNothing
  <1>9. QED
    BY <1>3, <1>4, <1>5, <1>6, <1>7, <1>8

LEMMA ReadInvHolds == Spec => []ReadInv
  <1>1. Init => ReadInv
    <2> SUFFICES ASSUME Init PROVE ReadInv
      OBVIOUS
    <2>1. \A c \in Commands : views[c] = {} /\ proc[c].pc # "list"
      BY IdleIs DEF Init
    <2>2. \A c \in Commands : Seen(proc[c], views[c], files)
      BY <2>1, SeesNothing
    <2>3. QED
      BY <2>2, InitInv DEF ReadInv
  <1>2. ReadInv /\ [Next]_vars => ReadInv'
    <2> SUFFICES ASSUME ReadInv, [Next]_vars PROVE ReadInv'
      OBVIOUS
    <2>1. Inv'
      BY NextInv DEF ReadInv
    <2>2. CASE EditDraft \/ EditFile
      <3>1. \A c \in Commands : views'[c] = {}
        BY <2>2 DEF EditDraft, EditFile, Edit
      <3>2. proc' = proc
        BY <2>2 DEF EditDraft, EditFile, Edit
      <3>3. \A c \in Commands : Seen(proc'[c], views'[c], files')
        BY <3>1, <3>2, SeesNothing DEF ReadInv, Seen
      <3>4. QED
        BY <2>1, <3>3 DEF ReadInv
    <2>3. CASE UNCHANGED vars
      BY <2>1, <2>3 DEF vars, ReadInv
    <2>4. CASE \E c \in Commands :
                 \/ StartApply(c) \/ Validate(c) \/ Read(c) \/ Replace(c) \/ WriteFails(c)
                 \/ Reload(c) \/ StartReading(c) \/ List(c) \/ Load(c) \/ Select(c)
                 \/ Ask(c) \/ RunCheck(c) \/ Report(c) \/ Exit(c) \/ Crash(c)
      BY <2>1, <2>4, CommandSeen DEF ReadInv
    <2>5. QED
      BY <2>2, <2>3, <2>4 DEF Next
  <1>3. QED
    BY <1>1, <1>2, PTL DEF Spec

(* A command that reads the directory while one contract is installed ends *)
(* up with the contracts from before it or from after it, and with an      *)
(* error only if one of the two directories deserves it, although it opens *)
(* the files one by one (discover_contracts, install_contract).            *)
THEOREM ReadersAlwaysSeeOneApply == Spec => []ReadersSeeOneApply
  <1>1. ASSUME ReadInv, NEW c \in Commands, NEW v \in views[c], ReadSoFar(proc[c], v),
               proc[c].todo = {}
        PROVE  Listable(v) /\ proc[c].catalog = Merged(v)
    <2> DEFINE q == proc[c]
    <2>1. q.catalog \in [Ids -> Stored] /\ v \in [Names -> Stored]
      BY <1>1 DEF ReadInv, Inv, Process
    <2>2. Listed(v) \ q.todo = Listed(v)
      BY <1>1
    <2>3. Listable(v)
      BY <1>1, <2>2 DEF ReadSoFar, Listable
    <2>4. ASSUME NEW i \in Ids
          PROVE  q.catalog[i] = IF \E n \in Listed(v) : v[n].id = i
                                THEN v[CHOOSE n \in Listed(v) : v[n].id = i] ELSE Shipped[i]
      <3>1. CASE \E n \in Listed(v) : v[n].id = i
        <4> DEFINE m == CHOOSE n \in Listed(v) : v[n].id = i
        <4>1. m \in Listed(v) /\ v[m].id = i
          BY <3>1
        <4> HIDE DEF m
        <4>2. q.catalog[i] = v[m]
          BY <1>1, <2>2, <4>1 DEF ReadSoFar
        <4>3. QED
          BY <3>1, <4>2 DEF m
      <3>2. CASE ~\E n \in Listed(v) : v[n].id = i
        BY <1>1, <2>2, <3>2 DEF ReadSoFar
      <3>3. QED
        BY <3>1, <3>2
    <2>5. QED
      BY <2>1, <2>3, <2>4 DEF Merged
  <1>2. ReadInv => ReadersSeeOneApply
    <2> SUFFICES ASSUME ReadInv, NEW c \in Commands, views[c] # {}, Cardinality(views[c]) <= 2
                 PROVE  /\ proc[c].pc = "load" /\ proc[c].todo = {} =>
                             \E v \in views[c] : Listable(v) /\ proc[c].catalog = Merged(v)
                        /\ proc[c].pc = "ended" => \E v \in views[c] : ~Listable(v)
      BY DEF ReadersSeeOneApply
    <2>1. Seen(proc[c], views[c], files)
      BY DEF ReadInv
    <2>2. QED
      BY <1>1, <2>1 DEF Seen
  <1>3. QED
    BY <1>2, ReadInvHolds, PTL
-----------------------------------------------------------------------------
(* Commands come to an end.                                                *)

(* No two contracts that are assessed together have the same ID. *)
Distinct(q) == \A s, t \in q.chosen : s.id = t.id => s = t

AllDistinct == \A c \in Commands : Distinct(proc[c])

(* discover_contracts keeps one contract under each ID. *)
LEMMA NextDistinct == Inv /\ AllDistinct /\ [Next]_vars => AllDistinct'
  <1> SUFFICES ASSUME Inv, AllDistinct, [Next]_vars PROVE AllDistinct'
    OBVIOUS
  <1>1. ASSUME NEW c \in Commands, NEW q, Become(c, q), Distinct(q)
        PROVE  AllDistinct'
    BY <1>1 DEF Become, AllDistinct, Inv
  <1>2. ASSUME NEW c \in Commands, NEW q, Become(c, q), q.chosen = proc[c].chosen
        PROVE  AllDistinct'
    <2>1. Distinct(q)
      BY <1>2 DEF AllDistinct, Distinct
    <2>2. QED
      BY <1>1, <1>2, <2>1
  <1>3. \A c \in Commands : proc[c] \in Process
    BY DEF Inv
  <1>4. ASSUME NEW c \in Commands, StartApply(c) \/ StartReading(c) \/ Exit(c) \/ Crash(c)
        PROVE  AllDistinct'
    <2>1. PICK pc \in {"idle", "validate", "list"} :
            Become(c, [Idle EXCEPT !.pc = pc]) \/ Become(c, Idle)
      BY <1>4 DEF StartApply, StartReading, Start, Exit, Crash
    <2>2. Distinct([Idle EXCEPT !.pc = pc]) /\ Distinct(Idle)
      BY IdleIs DEF Distinct, Process
    <2>3. QED
      BY <1>1, <2>1, <2>2
  <1>5. ASSUME NEW c \in Commands, Select(c) PROVE AllDistinct'
    <2>1. PICK wanted \in SUBSET Ids :
            \/ Become(c, [Idle EXCEPT !.pc = "ended", !.outcome = "unknown_workload"])
            \/ Become(c, [Idle EXCEPT !.pc = "ended", !.outcome = "ok"])
            \/ Become(c, [Idle EXCEPT !.pc = "ask", !.chosen = Chosen(proc[c].catalog, wanted)])
      BY <1>5 DEF Select
    <2>2. ASSUME NEW outcome
          PROVE  Distinct([Idle EXCEPT !.pc = "ended", !.outcome = outcome])
      BY IdleIs DEF Distinct, Process
    <2>3. PICK chosen : chosen = Chosen(proc[c].catalog, wanted)
      OBVIOUS
    <2>4. \A i \in Ids : proc[c].catalog[i] # None => proc[c].catalog[i].id = i
      BY DEF Inv, Fine
    <2>5. \A s, t \in chosen : s.id = t.id => s = t
      BY <2>3, <2>4 DEF Chosen
    <2>6. [Idle EXCEPT !.pc = "ask", !.chosen = chosen].chosen = chosen
      BY IdleIs DEF Process
    <2>7. Distinct([Idle EXCEPT !.pc = "ask", !.chosen = chosen])
      BY <2>5, <2>6 DEF Distinct
    <2>8. QED
      BY <1>1, <2>1, <2>2, <2>3, <2>7
  <1>6. ASSUME NEW c \in Commands,
               Validate(c) \/ Read(c) \/ Replace(c) \/ WriteFails(c) \/ Reload(c)
                 \/ List(c) \/ Load(c) \/ Ask(c) \/ RunCheck(c) \/ Report(c)
        PROVE  \E q : Become(c, q) /\ q.chosen = proc[c].chosen
    <2>1. ASSUME NEW outcome, End(c, outcome)
          PROVE  \E q : Become(c, q) /\ q.chosen = proc[c].chosen
      <3>1. PICK q : q = [proc[c] EXCEPT !.pc = "ended", !.outcome = outcome]
        OBVIOUS
      <3>2. q.chosen = proc[c].chosen
        BY <1>3, <3>1 DEF Process
      <3>3. QED
        BY <2>1, <3>1, <3>2 DEF End
    <2>2. CASE Validate(c)
      <3>1. PICK q : q = [proc[c] EXCEPT !.pc = "read", !.contract = draft]
        OBVIOUS
      <3>2. q.chosen = proc[c].chosen
        BY <1>3, <3>1 DEF Process
      <3>3. QED
        BY <2>1, <2>2, <3>1, <3>2 DEF Validate
    <2>3. CASE Read(c)
      <3>1. PICK q : q = [proc[c] EXCEPT !.pc = "replace", !.content = draft]
        OBVIOUS
      <3>2. q.chosen = proc[c].chosen
        BY <1>3, <3>1 DEF Process
      <3>3. QED
        BY <2>1, <2>3, <3>1, <3>2 DEF Read
    <2>4. CASE Replace(c)
      <3>1. PICK q : q = [proc[c] EXCEPT !.pc = "reload"]
        OBVIOUS
      <3>2. q.chosen = proc[c].chosen
        BY <1>3, <3>1 DEF Process
      <3>3. QED
        BY <2>1, <2>4, <3>1, <3>2 DEF Replace
    <2>5. CASE List(c)
      <3>1. PICK q : q = [proc[c] EXCEPT !.pc = "load", !.todo = Listed(files)]
        OBVIOUS
      <3>2. q.chosen = proc[c].chosen
        BY <1>3, <3>1 DEF Process
      <3>3. QED
        BY <2>1, <2>5, <3>1, <3>2 DEF List
    <2>6. CASE WriteFails(c) \/ Reload(c) \/ Report(c)
      BY <2>1, <2>6 DEF WriteFails, Reload, Report
    <2>7. CASE Load(c)
      <3>1. PICK n : \/ \E outcome : End(c, outcome)
                     \/ Become(c, [proc[c] EXCEPT !.todo = @ \ {n}, !.mine = @ \cup {files[n].id},
                                                  !.catalog[files[n].id] = files[n]])
        BY <2>7 DEF Load
      <3>2. PICK q : q = [proc[c] EXCEPT !.todo = @ \ {n}, !.mine = @ \cup {files[n].id},
                                         !.catalog[files[n].id] = files[n]]
        OBVIOUS
      <3>3. q.chosen = proc[c].chosen
        BY <1>3, <3>2 DEF Process
      <3>4. QED
        BY <2>1, <3>1, <3>2, <3>3
    <2>8. CASE Ask(c)
      <3>1. PICK snapshot : Become(c, [proc[c] EXCEPT !.pc = "check", !.snapshot = snapshot])
        BY <2>8 DEF Ask
      <3>2. PICK q : q = [proc[c] EXCEPT !.pc = "check", !.snapshot = snapshot]
        OBVIOUS
      <3>3. q.chosen = proc[c].chosen
        BY <1>3, <3>2 DEF Process
      <3>4. QED
        BY <3>1, <3>2, <3>3
    <2>9. CASE RunCheck(c)
      <3>1. PICK p, result : Become(c, [proc[c] EXCEPT !.results[p] = result])
        BY <2>9 DEF RunCheck
      <3>2. PICK q : q = [proc[c] EXCEPT !.results[p] = result]
        OBVIOUS
      <3>3. q.chosen = proc[c].chosen
        BY <1>3, <3>2 DEF Process
      <3>4. QED
        BY <3>1, <3>2, <3>3
    <2>10. QED
      BY <1>6, <2>2, <2>3, <2>4, <2>5, <2>6, <2>7, <2>8, <2>9
  <1>7. CASE EditDraft \/ EditFile \/ UNCHANGED vars
    BY <1>7 DEF EditDraft, EditFile, Edit, vars, AllDistinct
  <1>8. QED
    BY <1>2, <1>4, <1>5, <1>6, <1>7 DEF Next

LEMMA DistinctHolds == Spec => []AllDistinct
  <1>1. Init => AllDistinct
    BY IdleIs DEF Init, AllDistinct, Distinct
  <1>2. QED
    BY <1>1, InvHolds, NextDistinct, PTL DEF Spec

(* Of some numbers one is the least. *)
LEMMA LeastOf ==
  ASSUME NEW S \in SUBSET Nat, S # {}
  PROVE  \E n \in S : \A m \in S : n <= m
  <1>1. PICK R : R = OpToRel(<, Nat)
    OBVIOUS
  <1>2. IsWellFoundedOn(R, Nat)
    BY <1>1, NatLessThanWellFounded
  <1>3. PICK n \in S : \A m \in S : <<m, n>> \notin R
    BY <1>2, WFMin
  <1>4. ASSUME NEW m \in S PROVE n <= m
    <2>1. m \in Nat /\ n \in Nat /\ (m < n => <<m, n>> \in R)
      BY <1>1 DEF OpToRel
    <2>2. QED
      BY <2>1, <1>3
  <1>5. QED
    BY <1>3, <1>4

(* Of the checks of contracts with different IDs one comes first. *)
LEMMA OneComesFirst ==
  ASSUME NEW S \in SUBSET Tables, \A t \in S : Loads(t),
         \A s, t \in S : s.id = t.id => s = t,
         NEW U \in SUBSET Positions(S), U # {}
  PROVE  \E p \in U : \A q \in U \ {p} : Before(p, q)
  <1>1. ASSUME NEW p \in U
        PROVE  /\ p[1] \in S /\ p[1].id \in Nat /\ p[2] \in Nat /\ p[3] \in Nat
               /\ p = <<p[1], p[2], p[3]>>
    <2>1. PICK t, i, j :
            /\ t \in S /\ i \in DOMAIN t.capabilities
            /\ j \in DOMAIN t.capabilities[i].checks /\ p = <<t, i, j>>
      BY PositionIs
    <2>2. t.id \in Nat /\ i \in Nat /\ j \in Nat
      BY <2>1, WorkloadAssumption, ArraysAssumption
    <2>3. QED
      BY <2>1, <2>2
  <1>2. PICK id \in {p[1].id : p \in U} : \A m \in {p[1].id : p \in U} : id <= m
    <2>1. {p[1].id : p \in U} \in SUBSET Nat /\ {p[1].id : p \in U} # {}
      BY <1>1
    <2>2. QED
      BY <2>1, LeastOf
  <1>3. PICK i \in {p[2] : p \in {p \in U : p[1].id = id}} :
          \A m \in {p[2] : p \in {p \in U : p[1].id = id}} : i <= m
    <2>1. /\ {p[2] : p \in {p \in U : p[1].id = id}} \in SUBSET Nat
          /\ {p[2] : p \in {p \in U : p[1].id = id}} # {}
      BY <1>1, <1>2
    <2>2. QED
      BY <2>1, LeastOf
  <1>4. PICK j \in {p[3] : p \in {p \in U : p[1].id = id /\ p[2] = i}} :
          \A m \in {p[3] : p \in {p \in U : p[1].id = id /\ p[2] = i}} : j <= m
    <2>1. /\ {p[3] : p \in {p \in U : p[1].id = id /\ p[2] = i}} \in SUBSET Nat
          /\ {p[3] : p \in {p \in U : p[1].id = id /\ p[2] = i}} # {}
      BY <1>1, <1>3
    <2>2. QED
      BY <2>1, LeastOf
  <1>5. PICK p \in U : p[1].id = id /\ p[2] = i /\ p[3] = j
    BY <1>4
  <1>6. ASSUME NEW q \in U \ {p} PROVE Before(p, q)
    <2>1. id <= q[1].id /\ (q[1].id = id => i <= q[2])
          /\ (q[1].id = id /\ q[2] = i => j <= q[3])
      BY <1>2, <1>3, <1>4
    <2>2. ~(q[1].id = id /\ q[2] = i /\ q[3] = j)
      <3>1. SUFFICES ASSUME q[1].id = id, q[2] = i, q[3] = j PROVE q = p
        OBVIOUS
      <3>2. q[1] = p[1]
        BY <1>1, <1>5, <3>1
      <3>3. QED
        BY <1>1, <1>5, <3>1, <3>2
    <2>3. /\ id \in Nat /\ i \in Nat /\ j \in Nat
          /\ q[1].id \in Nat /\ q[2] \in Nat /\ q[3] \in Nat
      BY <1>1, <1>5
    <2>4. QED
      BY <1>5, <2>1, <2>2, <2>3 DEF Before
  <1>7. QED
    BY <1>6

(* Every check of a contract has a result. *)
LEMMA CheckHasResult ==
  ASSUME NEW check, ValidCheck(check), NEW snapshot, snapshot.facts \in FactMaps
  PROVE  CheckResults(check, snapshot) # {}
  <1>1. \A type \in DirectTypes : Result("fail", "direct_probe") \in DirectResults(type)
    <2>1. ASSUME NEW type \in DirectTypes PROVE "fail" \in DirectStatuses(type)
      <3>1. "other" \in DOMAIN CommandStatus /\ CommandStatus["other"] = "fail"
        BY DEF CommandStatus
      <3>2. CASE type = "command"
        BY <3>1, <3>2 DEF DirectStatuses
      <3>3. CASE type = "systemd_unit"
        BY <3>1, <3>3 DEF DirectStatuses, UnitStatuses
      <3>4. CASE type \in {"command_available", "environment", "path"}
        BY <3>4 DEF DirectStatuses
      <3>5. QED
        BY <3>2, <3>3, <3>4 DEF DirectTypes
    <2>2. QED
      BY <2>1 DEF DirectResults
  <1>2. QED
    BY <1>1 DEF CheckResults, FallbackResults, ValidCheck

(* A command can go on: the guards of its steps, and for those that take a *)
(* file or a check in order, that there is a next one.                     *)
CanGoOn(q) ==
  \/ q.pc \in {"validate", "read", "replace", "reload", "list", "ask", "ended"}
  \/ q.pc = "load" /\ q.todo = {}
  \/ q.pc = "load" /\ \E n \in q.todo : \A m \in q.todo : n <= m
  \/ q.pc = "check" /\ {p \in Positions(q.chosen) : q.results[p] = None} = {}
  \/ /\ q.pc = "check"
     /\ \E p \in Positions(q.chosen) :
          /\ q.results[p] = None
          /\ \A r \in Positions(q.chosen) \ {p} : q.results[r] = None => Before(p, r)
          /\ CheckResults(CheckAt(p), q.snapshot) # {}

NobodyIsStuck == \A c \in Commands : proc[c].pc # "idle" => CanGoOn(proc[c])

(* For any contracts, any directory and whatever others do meanwhile, no   *)
(* command waits for anything: there is always a next file to load and a   *)
(* next check to run, with a result, until it ends (discover_contracts,    *)
(* assess_contracts, run_check).                                           *)
THEOREM NobodyIsEverStuck == Spec => []NobodyIsStuck
  <1>1. ASSUME NEW q, Fine(q), Distinct(q), q.pc # "idle" PROVE CanGoOn(q)
    <2>1. q \in Process
      BY <1>1 DEF Fine
    <2>2. CASE q.pc = "load"
      <3>1. q.todo \in SUBSET Nat
        BY <2>1, WorkloadAssumption DEF Process
      <3>2. CASE q.todo # {}
        BY <2>2, <3>1, <3>2, LeastOf DEF CanGoOn
      <3>3. QED
        BY <2>2, <3>2 DEF CanGoOn
    <2>3. CASE q.pc = "check"
      <3>1. PICK U : U = {p \in Positions(q.chosen) : q.results[p] = None}
        OBVIOUS
      <3>2. CASE U # {}
        <4>1. q.chosen \in SUBSET Tables /\ U \in SUBSET Positions(q.chosen)
          BY <2>1, <3>1 DEF Process
        <4>2. /\ \A t \in q.chosen : Loads(t)
              /\ \A s, t \in q.chosen : s.id = t.id => s = t
          BY <1>1 DEF Fine, Distinct
        <4>3. PICK p \in U : \A r \in U \ {p} : Before(p, r)
          BY <3>2, <4>1, <4>2, OneComesFirst
        <4>4. ValidCheck(CheckAt(p))
          BY <4>1, <4>2, CheckIsValid
        <4>5. CheckResults(CheckAt(p), q.snapshot) # {}
          BY <2>1, <4>4, CheckHasResult DEF Process
        <4>6. QED
          BY <2>3, <3>1, <4>3, <4>5 DEF CanGoOn
      <3>3. QED
        BY <2>3, <3>1, <3>2 DEF CanGoOn
    <2>4. QED
      BY <1>1, <2>1, <2>2, <2>3 DEF Process, CanGoOn
  <1>2. Inv /\ AllDistinct => NobodyIsStuck
    BY <1>1 DEF Inv, AllDistinct, NobodyIsStuck
  <1>3. QED
    BY <1>2, InvHolds, DistinctHolds, PTL

(* Where a command can go from each of its steps. *)
After ==
  [validate |-> {"read", "ended"}, read |-> {"replace", "ended"}, replace |-> {"reload", "ended"},
   reload |-> {"ended"}, list |-> {"load"}, load |-> {"ask", "ended"}, ask |-> {"check"},
   check |-> {"ended"}, ended |-> {}]

(* The checks that a command has no result of yet. *)
Open(q) == {p \in Positions(q.chosen) : q.results[p] = None}

(* A command only goes on: with a file less to load, a check less to run,  *)
(* or to a later step; or it is over.                                      *)
Onward(q, r) ==
  \/ q.pc = "idle" \/ r = q \/ r.pc = "idle"
  \/ r.pc \in After[q.pc]
  \/ /\ q.pc = "load" /\ r.pc = "load"
     /\ r.todo \subseteq q.todo /\ r.todo # q.todo
  \/ /\ q.pc = "check" /\ r.pc = "check"
     /\ Open(r) \subseteq Open(q) /\ Open(r) # Open(q)

AllOnward == \A c \in Commands : Onward(proc[c], proc'[c])

(* No step of anybody holds a command up or sends it back. *)
LEMMA NextOnward == Inv /\ [Next]_vars => AllOnward
  <1> SUFFICES ASSUME Inv, [Next]_vars PROVE AllOnward
    OBVIOUS
  <1>1. \A c \in Commands : Fine(proc[c]) /\ proc[c] \in Process
    BY DEF Inv
  <1>2. ASSUME NEW c \in Commands, NEW q, Become(c, q), Onward(proc[c], q)
        PROVE  AllOnward
    BY <1>2 DEF Become, AllOnward, Onward, Inv
  <1>3. ASSUME NEW c \in Commands, NEW q, Become(c, q), q.pc \in After[proc[c].pc]
        PROVE  AllOnward
    BY <1>2, <1>3 DEF Onward
  <1>4. ASSUME NEW c \in Commands, StartApply(c) \/ StartReading(c) \/ Exit(c) \/ Crash(c)
        PROVE  AllOnward
    <2>1. PICK q : Become(c, q) /\ (q.pc = "idle" \/ proc[c].pc = "idle")
      BY <1>4, IdleIs DEF StartApply, StartReading, Start, Exit, Crash
    <2>2. QED
      BY <1>2, <2>1 DEF Onward
  <1>5. ASSUME NEW c \in Commands, NEW outcome, End(c, outcome),
               proc[c].pc \in DOMAIN After \ {"list", "ask", "ended"}
        PROVE  AllOnward
    <2>1. PICK q : q = [proc[c] EXCEPT !.pc = "ended", !.outcome = outcome]
      OBVIOUS
    <2>2. q.pc = "ended" /\ Become(c, q)
      BY <1>1, <1>5, <2>1 DEF End, Process
    <2>3. "ended" \in After[proc[c].pc]
      BY <1>5 DEF After
    <2>4. QED
      BY <1>3, <2>2, <2>3
  <1>6. ASSUME NEW c \in Commands,
               Validate(c) \/ Read(c) \/ Replace(c) \/ List(c) \/ Ask(c)
        PROVE  AllOnward
    <2>1. CASE Validate(c)
      <3>1. CASE Loads(draft)
        <4>1. PICK q : q = [proc[c] EXCEPT !.pc = "read", !.contract = draft]
          OBVIOUS
        <4>2. q.pc = "read" /\ Become(c, q) /\ proc[c].pc = "validate"
          BY <1>1, <2>1, <3>1, <4>1 DEF Validate, Process
        <4>3. QED
          BY <1>3, <4>2 DEF After
      <3>2. QED
        BY <1>5, <2>1, <3>1 DEF Validate, After
    <2>2. CASE Read(c)
      <3>1. CASE draft # None
        <4>1. PICK q : q = [proc[c] EXCEPT !.pc = "replace", !.content = draft]
          OBVIOUS
        <4>2. q.pc = "replace" /\ Become(c, q) /\ proc[c].pc = "read"
          BY <1>1, <2>2, <3>1, <4>1 DEF Read, Process
        <4>3. QED
          BY <1>3, <4>2 DEF After
      <3>2. QED
        BY <1>5, <2>2, <3>1 DEF Read, After
    <2>3. CASE Replace(c)
      <3>1. PICK q : q = [proc[c] EXCEPT !.pc = "reload"]
        OBVIOUS
      <3>2. q.pc = "reload" /\ Become(c, q) /\ proc[c].pc = "replace"
        BY <1>1, <2>3, <3>1 DEF Replace, Process
      <3>3. QED
        BY <1>3, <3>2 DEF After
    <2>4. CASE List(c)
      <3>1. PICK q : q = [proc[c] EXCEPT !.pc = "load", !.todo = Listed(files)]
        OBVIOUS
      <3>2. q.pc = "load" /\ Become(c, q) /\ proc[c].pc = "list"
        BY <1>1, <2>4, <3>1 DEF List, Process
      <3>3. QED
        BY <1>3, <3>2 DEF After
    <2>5. CASE Ask(c)
      <3>1. PICK snapshot : Become(c, [proc[c] EXCEPT !.pc = "check", !.snapshot = snapshot])
        BY <2>5 DEF Ask
      <3>2. PICK q : q = [proc[c] EXCEPT !.pc = "check", !.snapshot = snapshot]
        OBVIOUS
      <3>3. q.pc = "check" /\ Become(c, q) /\ proc[c].pc = "ask"
        BY <1>1, <2>5, <3>1, <3>2 DEF Ask, Process
      <3>4. QED
        BY <1>3, <3>3 DEF After
    <2>6. QED
      BY <1>6, <2>1, <2>2, <2>3, <2>4, <2>5
  <1>7. ASSUME NEW c \in Commands, WriteFails(c) \/ Reload(c) \/ Report(c) PROVE AllOnward
    BY <1>5, <1>7 DEF WriteFails, Reload, Report, After
  <1>8. ASSUME NEW c \in Commands, Load(c) PROVE AllOnward
    <2>1. PICK n \in proc[c].todo :
            \/ End(c, "contract_error") \/ End(c, "duplicate_workload")
            \/ Become(c, [proc[c] EXCEPT !.todo = @ \ {n}, !.mine = @ \cup {files[n].id},
                                         !.catalog[files[n].id] = files[n]])
      BY <1>8 DEF Load
    <2>2. proc[c].pc = "load"
      BY <1>8 DEF Load
    <2>3. CASE Become(c, [proc[c] EXCEPT !.todo = @ \ {n}, !.mine = @ \cup {files[n].id},
                                        !.catalog[files[n].id] = files[n]])
      <3>1. PICK q : q = [proc[c] EXCEPT !.todo = @ \ {n}, !.mine = @ \cup {files[n].id},
                                         !.catalog[files[n].id] = files[n]]
        OBVIOUS
      <3>2. q.pc = "load" /\ q.todo = proc[c].todo \ {n}
        BY <1>1, <2>2, <3>1 DEF Process
      <3>3. Become(c, q)
        BY <2>3, <3>1
      <3>4. Onward(proc[c], q)
        BY <2>2, <3>2 DEF Onward
      <3>5. QED
        BY <1>2, <3>3, <3>4
    <2>4. QED
      BY <1>5, <2>1, <2>2, <2>3 DEF After
  <1>9. ASSUME NEW c \in Commands, Select(c) PROVE AllOnward
    <2>1. \/ \E outcome : Become(c, [Idle EXCEPT !.pc = "ended", !.outcome = outcome])
          \/ \E chosen : Become(c, [Idle EXCEPT !.pc = "ask", !.chosen = chosen])
      BY <1>9 DEF Select
    <2>2. CASE \E outcome : Become(c, [Idle EXCEPT !.pc = "ended", !.outcome = outcome])
      <3>1. PICK outcome : Become(c, [Idle EXCEPT !.pc = "ended", !.outcome = outcome])
        BY <2>2
      <3>2. PICK q : q = [Idle EXCEPT !.pc = "ended", !.outcome = outcome]
        OBVIOUS
      <3>3. q.pc = "ended" /\ Become(c, q) /\ proc[c].pc = "load"
        BY <1>9, <3>1, <3>2, IdleIs DEF Select, Process
      <3>4. QED
        BY <1>3, <3>3 DEF After
    <2>3. CASE \E chosen : Become(c, [Idle EXCEPT !.pc = "ask", !.chosen = chosen])
      <3>1. PICK chosen : Become(c, [Idle EXCEPT !.pc = "ask", !.chosen = chosen])
        BY <2>3
      <3>2. PICK q : q = [Idle EXCEPT !.pc = "ask", !.chosen = chosen]
        OBVIOUS
      <3>3. q.pc = "ask" /\ Become(c, q) /\ proc[c].pc = "load"
        BY <1>9, <3>1, <3>2, IdleIs DEF Select, Process
      <3>4. QED
        BY <1>3, <3>3 DEF After
    <2>4. QED
      BY <2>1, <2>2, <2>3
  <1>10. ASSUME NEW c \in Commands, RunCheck(c) PROVE AllOnward
    <2>1. PICK p, result :
            /\ p \in Open(proc[c]) /\ result \in CheckResults(CheckAt(p), proc[c].snapshot)
            /\ Become(c, [proc[c] EXCEPT !.results[p] = result])
      BY <1>10 DEF RunCheck, Unchecked, Open
    <2>2. result # None
      <3>1. ValidCheck(CheckAt(p)) /\ proc[c].snapshot.facts \in FactMaps
        BY <1>1, <2>1, CheckIsValid DEF Open, Fine, Process
      <3>2. result \in ResultType
        BY <2>1, <3>1, CheckResultsAre
      <3>3. QED
        BY <3>2, NoneAssumption DEF ResultType, CheckStatuses
    <2>3. PICK q : /\ Become(c, q) /\ q.pc = "check" /\ proc[c].pc = "check"
                   /\ q.chosen = proc[c].chosen
                   /\ q.results = [proc[c].results EXCEPT ![p] = result]
      BY <1>1, <1>10, <2>1 DEF RunCheck, Process
    <2>4. Open(q) = Open(proc[c]) \ {p}
      <3>1. Positions(proc[c].chosen) \subseteq DOMAIN proc[c].results
        BY <1>1, PositionsGrow DEF Process
      <3>2. QED
        BY <2>1, <2>2, <2>3, <3>1 DEF Open
    <2>5. QED
      BY <1>2, <2>1, <2>3, <2>4 DEF Onward
  <1>11. CASE UNCHANGED proc
    BY <1>11 DEF AllOnward, Onward
  <1>12. QED
    BY <1>4, <1>6, <1>7, <1>8, <1>9, <1>10, <1>11 DEF Next, EditDraft, EditFile, Edit, vars

(* For any contracts and whatever others do meanwhile, each step of a      *)
(* command takes it on, never back or in a circle: with finitely many      *)
(* files and checks it comes to its end (install_contract,                 *)
(* discover_contracts, assess_contracts).                                  *)
THEOREM CommandsComeToAnEnd == Spec => [][AllOnward]_vars
  <1>1. Inv /\ [Next]_vars => [AllOnward]_vars
    BY NextOnward
  <1>2. QED
    BY <1>1, InvHolds, PTL DEF Spec
=============================================================================

----------------------------- MODULE Assessment -----------------------------
(***************************************************************************)
(* jiritsu-workload, the part without state: what a contract is, what      *)
(* becomes of the answer of jiritsu-stated, of one check, and of the       *)
(* checks of a capability, a workload and an assessment.                   *)
(* A contract file holds a table.  A check of a table names a fact, with   *)
(* or without a direct probe to fall back on, or a direct probe only.      *)
(***************************************************************************)
EXTENDS Naturals, Sequences, FiniteSets

CONSTANTS
  Facts,  \* facts that contracts may ask jiritsu-stated for
  None    \* no fact, no probe, no table

DirectTypes == {"command", "command_available", "environment", "path", "systemd_unit"}

-----------------------------------------------------------------------------
(* parse_contract: which tables are contracts.                             *)

DistinctIds(items) == \A i, j \in DOMAIN items : items[i].id = items[j].id => i = j

ValidCheck(check) ==
  /\ check.fact \in Facts \cup {None}
  /\ \/ check.probe \in DirectTypes
     \/ check.fact # None /\ check.probe = None

ValidCapability(capability) ==
  /\ capability.importance \in {"critical", "useful"}
  /\ capability.checks # <<>>
  /\ DistinctIds(capability.checks)
  /\ \A j \in DOMAIN capability.checks : ValidCheck(capability.checks[j])

ValidContract(table) ==
  /\ table.capabilities # <<>>
  /\ DistinctIds(table.capabilities)
  /\ \A i \in DOMAIN table.capabilities : ValidCapability(table.capabilities[i])

(* load_contract succeeds: there is a file, it is TOML, and a contract. *)
Loads(table) == table # None /\ ValidContract(table)

-----------------------------------------------------------------------------
(* collect_stated_facts: the answer of one query.                          *)

(* Where the checks are: contract, number of the capability, number in it. *)
Positions(contracts) ==
  UNION {UNION {{<<t, i, j>> : j \in DOMAIN t.capabilities[i].checks} :
                i \in DOMAIN t.capabilities} : t \in contracts}

CheckAt(p) == p[1].capabilities[p[2]].checks[p[3]]

RequestedFacts(contracts) == {CheckAt(p).fact : p \in Positions(contracts)} \ {None}

FactValues == {"meets", "differs", "mismatch"}

FactMaps == [Facts -> FactValues \cup {None}]

NoFacts == [f \in Facts |-> None]

Told(facts) == {f \in Facts : facts[f] # None}

AnsweredStatus(requested, status, exit, facts) ==
  IF Told(facts) = {} /\ (exit # 0 \/ status = "error") THEN "failed"
  ELSE IF Told(facts) # requested \/ status = "partial" \/ exit = 2 THEN "partial"
  ELSE IF exit = 0 /\ status = "ok" THEN "used"
  ELSE "failed"

(* The command is missing; or it runs out of time, fails to start, or      *)
(* prints something else; or it gives a status and values for some facts.  *)
Snapshots(requested) ==
  {[status |-> status, facts |-> NoFacts] : status \in {"unavailable", "failed"}}
  \cup {[status |-> AnsweredStatus(requested, status, exit, facts), facts |-> facts] :
          status \in {"ok", "partial", "error"}, exit \in {0, 1, 2},
          facts \in {facts \in FactMaps : Told(facts) \subseteq requested}}

(* No query is made: no fact is asked for, or direct probes were chosen. *)
NoQuery(requested) ==
  [status |-> IF requested = {} THEN "not_required" ELSE "disabled", facts |-> NoFacts]

-----------------------------------------------------------------------------
(* run_check.                                                              *)

(* _run_command: an exit status and output as required, others, no such    *)
(* command, no end in time, no start.                                      *)
CommandStatus == [as_required |-> "pass", other |-> "fail", missing |-> "fail",
                  late |-> "error", unable |-> "error"]

(* _systemd_unit: a command whose output must name the wanted state too. *)
UnitStatuses(status) == IF status = "pass" THEN {"pass", "fail"} ELSE {status}

(* _command_available, _environment, _path look and never err. *)
DirectStatuses(type) ==
  CASE type = "command"      -> {CommandStatus[ran] : ran \in DOMAIN CommandStatus}
    [] type = "systemd_unit" -> UNION {UnitStatuses(CommandStatus[ran]) :
                                         ran \in DOMAIN CommandStatus}
    [] type \in {"command_available", "environment", "path"} -> {"pass", "fail"}

(* _extract_fact_path and _evaluate_fact *)
FactStatus == [meets |-> "pass", differs |-> "fail", mismatch |-> "error"]

Result(status, source) == [status |-> status, source |-> source]

DirectResults(type) == {Result(status, "direct_probe") : status \in DirectStatuses(type)}

(* _stated_fallback *)
FallbackResults(check) ==
  IF check.probe = None THEN {Result("error", "jiritsu-stated")}
  ELSE DirectResults(check.probe)

Answered(check, snapshot) ==
  /\ snapshot.status \in {"used", "partial"}
  /\ snapshot.facts[check.fact] # None

(* A probe is tried wherever the fact does not meet the requirement. *)
CheckResults_SecondChance(check, snapshot) ==
  IF check.fact = None THEN DirectResults(check.probe)
  ELSE IF Answered(check, snapshot) /\ snapshot.facts[check.fact] = "meets"
  THEN {Result("pass", "jiritsu-stated")}
  ELSE FallbackResults(check)

CheckResults(check, snapshot) ==
  IF check.fact = None THEN DirectResults(check.probe)
  ELSE IF Answered(check, snapshot)
  THEN {Result(FactStatus[snapshot.facts[check.fact]], "jiritsu-stated")}
  ELSE FallbackResults(check)

-----------------------------------------------------------------------------
(* From checks to capabilities, workloads and the assessment; "results"    *)
(* gives each position its result.                                         *)

CapabilityStatus(t, i, results) ==
  LET statuses == {results[<<t, i, j>>].status : j \in DOMAIN t.capabilities[i].checks}
  IN  IF "fail" \in statuses THEN "fail" ELSE IF "error" \in statuses THEN "error" ELSE "pass"

Passing(t, results) == {i \in DOMAIN t.capabilities : CapabilityStatus(t, i, results) = "pass"}

WorkloadStatus(t, results) ==
  IF \E i \in DOMAIN t.capabilities \ Passing(t, results) :
       t.capabilities[i].importance = "critical"
  THEN "unhealthy"
  ELSE IF Passing(t, results) # DOMAIN t.capabilities THEN "degraded" ELSE "healthy"

AssessmentStatus(contracts, results) ==
  LET statuses == {WorkloadStatus(t, results) : t \in contracts}
  IN  IF "unhealthy" \in statuses THEN "unhealthy"
      ELSE IF "degraded" \in statuses THEN "degraded" ELSE "healthy"
=============================================================================

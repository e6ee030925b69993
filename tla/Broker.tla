------------------------------- MODULE Broker -------------------------------
(***************************************************************************)
(* jiritsu-broker: broker processes, one per request that somebody sends.  *)
(* Each loads the policy, takes the lock of its request ID, and writes the *)
(* request, the decision, the action and the result to one audit journal   *)
(* that all share.  Whether a request ID is used up is read back from that *)
(* journal.  The provider command that carries the action out is a child   *)
(* process: it outlives a broker that is killed.                           *)
(***************************************************************************)
EXTENDS Naturals, FiniteSets, SequencesExt

CONSTANTS
  Brokers,      \* broker processes that may run at the same time
  Requests,     \* the requests that callers send (a digest stands for one)
  Catalog,      \* the authorities that each known operation requires
  Principals,   \* who the effective user of the broker is
  Policies,     \* policy files that Policy.load accepts, as sequences of rules
  Troubles,     \* what may go wrong in this instance
  MaxTrouble,   \* bound: how often
  MaxAttempts,  \* bound: how many times somebody sends a request
  None          \* no process, no file

Ids == {r.id : r \in Requests}

Known == DOMAIN Catalog

(* The operation is in the catalog, and its validator takes the arguments. *)
Executable(r) == r.operation \in Known /\ r.typed

TroubleKinds == {"append", "crash"}

(* Policy.load: the decisions of a rule, and authorities unless it denies. *)
ASSUME PolicyAssumption ==
  \A rules \in Policies :
    /\ rules \in Seq(ToSet(rules))
    /\ \A rule \in ToSet(rules) :
         /\ rule.decision \in {"allow", "deny", "require_approval"}
         /\ rule.decision # "deny" => rule.authorities # {}

ASSUME BrokerConstantsAssumption ==
  /\ None \notin Brokers
  /\ Troubles \subseteq TroubleKinds
  /\ MaxTrouble \in Nat /\ MaxAttempts \in Nat

VARIABLES
  policy,     \* the policy file
  approvals,  \* approvals[i]: the external approval file for request ID i
  journal,    \* the lines of audit.jsonl that were written whole
  damage,     \* what is wrong with them: nothing; the last line is complete but for its
              \* newline ("open"); a line cannot be read, the last one or some other
  reqLock,    \* reqLock[i]: the broker that holds the flock of request ID i
  broker,     \* broker[b]: what broker process b is doing
  orphans,    \* orphans[r]: provider commands for r that outlived their brokers
  effects,    \* history: effects[r]: how often a provider carried request r out
  granted,    \* history: requests for which a current approval ever existed
  attempts,   \* how often a request was sent so far
  trouble     \* how often something went wrong so far

vars == <<policy, approvals, journal, damage, reqLock, broker, orphans,
          effects, granted, attempts, trouble>>

-----------------------------------------------------------------------------
(* Policy.evaluate.                                                        *)

Matches(rule, operation) ==
  /\ "*" \in rule.principals \/ rule.principals \cap Principals # {}
  /\ "*" \in rule.operations \/ operation \in rule.operations

FirstMatch(rules, operation) ==
  SelectInSeq(rules, LAMBDA rule : Matches(rule, operation))

(* The first matching rule decides, if it grants all required authorities; *)
(* the default is to deny.                                                 *)
Evaluate_NoAuthority(rules, operation) ==
  LET i == FirstMatch(rules, operation)
  IN  IF i = 0 THEN "deny" ELSE rules[i].decision

Evaluate(rules, operation) ==
  LET i == FirstMatch(rules, operation)
  IN  IF i # 0 /\ Catalog[operation] \subseteq rules[i].authorities
      THEN rules[i].decision ELSE "deny"

(* check_approval: the file names the exact request, and has not expired. *)
Approved(r) ==
  /\ approvals[r.id] # None
  /\ approvals[r.id].content = r
  /\ approvals[r.id].current

-----------------------------------------------------------------------------
(* The audit journal.                                                      *)

Terminal == {"ok", "error", "denied"}

(* records(request_id): where the journal tells of request ID i. *)
EventsOf(i) == {k \in DOMAIN journal : journal[k].request.id = i}

IsTerminal(e) == e.event = "result" /\ e.status \in Terminal

(* is_complete, where every line is readable *)
IsComplete_OkOnly(i) ==
  \E k \in EventsOf(i) : journal[k].event = "result" /\ journal[k].status = "ok"

IsComplete(i) == \E k \in EventsOf(i) : IsTerminal(journal[k])

(* _read: every line is a JSON object; the last one may lack its newline.  *)
(* A journal that is not readable is never read again (audit_corrupt).     *)
Readable == damage \in {"none", "open"}

(* A line that follows one without newline makes one broken line with it. *)
Written(e) ==
  /\ journal' = IF damage \in {"last", "open"} THEN journal ELSE Append(journal, e)
  /\ damage' = IF damage \in {"last", "open"} THEN "some" ELSE damage

(* What a failed or interrupted append leaves: nothing, the line (the sync *)
(* failed), a part of it, or all of it but the newline.                    *)
PartlyWritten(e) ==
  \/ UNCHANGED <<journal, damage>>
  \/ Written(e)
  \/ damage' = "last" /\ UNCHANGED journal
  \/ damage = "none" /\ journal' = Append(journal, e) /\ damage' = "open"

-----------------------------------------------------------------------------
(* Broker processes.                                                       *)

Idle == [pc |-> "idle", request |-> None, rules |-> <<>>, outcome |-> "none",
         status |-> "none", child |-> "none"]

Trouble(kind) ==
  /\ kind \in Troubles
  /\ trouble < MaxTrouble
  /\ trouble' = trouble + 1

Become(b, q) == broker' = [broker EXCEPT ![b] = q]

Release(b) ==
  /\ reqLock' = [i \in Ids |-> IF reqLock[i] = b THEN None ELSE reqLock[i]]
  /\ Become(b, Idle)

(* main: the policy is loaded before the request is read. *)
Send(b, r) ==
  /\ broker[b].pc = "idle"
  /\ attempts < MaxAttempts
  /\ attempts' = attempts + 1
  /\ Become(b, [Idle EXCEPT !.pc = "lock", !.request = r, !.rules = policy])
  /\ UNCHANGED <<policy, approvals, journal, damage, reqLock, orphans, effects,
                 granted, trouble>>

LockRequest_NoLock(b) ==
  /\ broker[b].pc = "lock"
  /\ Become(b, [broker[b] EXCEPT !.pc = "check"])
  /\ UNCHANGED <<policy, approvals, journal, damage, reqLock, orphans, effects,
                 granted, attempts, trouble>>

LockRequest(b) ==
  /\ broker[b].pc = "lock"
  /\ reqLock[broker[b].request.id] = None
  /\ reqLock' = [reqLock EXCEPT ![broker[b].request.id] = b]
  /\ Become(b, [broker[b] EXCEPT !.pc = "check"])
  /\ UNCHANGED <<policy, approvals, journal, damage, orphans, effects, granted,
                 attempts, trouble>>

(* Any unreadable line stops every request (audit_corrupt), a terminal     *)
(* result of this ID stops this one (duplicate_request).                   *)
Stop(b) ==
  /\ broker[b].pc = "check"
  /\ ~Readable \/ IsComplete(broker[b].request.id)
  /\ Release(b)
  /\ UNCHANGED <<policy, approvals, journal, damage, orphans, effects, granted,
                 attempts, trouble>>

Accept(b) ==
  /\ broker[b].pc = "check"
  /\ Readable
  /\ ~IsComplete(broker[b].request.id)
  /\ Become(b, [broker[b] EXCEPT !.pc = "request"])
  /\ UNCHANGED <<policy, approvals, journal, damage, reqLock, orphans, effects,
                 granted, attempts, trouble>>

(* The line that broker b appends next. *)
Line(b) ==
  [request |-> broker[b].request, event |-> broker[b].pc,
   status |-> CASE broker[b].pc = "decision" -> broker[b].outcome
                [] broker[b].pc = "result"   -> broker[b].status
                [] OTHER                     -> "none"]

Logging == {"request", "decision", "action", "result"}

LogRequest(b) ==
  /\ broker[b].pc = "request"
  /\ Written(Line(b))
  /\ Become(b, [broker[b] EXCEPT !.pc = "evaluate"])
  /\ UNCHANGED <<policy, approvals, reqLock, orphans, effects, granted, attempts, trouble>>

(* An unknown operation, or arguments that do not fit its contract. *)
RejectCall(b) ==
  LET r == broker[b].request IN
  /\ broker[b].pc = "evaluate"
  /\ ~Executable(r)
  /\ Become(b, [broker[b] EXCEPT !.pc = "decision", !.outcome = "deny", !.status = "error"])
  /\ UNCHANGED <<policy, approvals, journal, damage, reqLock, orphans, effects,
                 granted, attempts, trouble>>

(* The outcome of the policy and, where the rule asks for it, the approval. *)
Outcome(rules, r) ==
  LET outcome == Evaluate(rules, r.operation)
  IN  IF outcome = "require_approval" /\ Approved(r) THEN "allow" ELSE outcome

StatusOf == [allow |-> "none", deny |-> "denied", require_approval |-> "approval_required"]

Decide(b) ==
  LET r == broker[b].request
      outcome == Outcome(broker[b].rules, r)
  IN
  /\ broker[b].pc = "evaluate"
  /\ Executable(r)
  /\ Become(b, [broker[b] EXCEPT !.pc = "decision", !.outcome = outcome,
                                 !.status = StatusOf[outcome]])
  /\ UNCHANGED <<policy, approvals, journal, damage, reqLock, orphans, effects,
                 granted, attempts, trouble>>

LogDecision_Always(b) ==
  /\ broker[b].pc = "decision"
  /\ Written(Line(b))
  /\ Become(b, [broker[b] EXCEPT !.pc = "action"])
  /\ UNCHANGED <<policy, approvals, reqLock, orphans, effects, granted, attempts, trouble>>

LogDecision(b) ==
  /\ broker[b].pc = "decision"
  /\ Written(Line(b))
  /\ Become(b, [broker[b] EXCEPT !.pc = IF broker[b].outcome = "allow"
                                        THEN "action" ELSE "result"])
  /\ UNCHANGED <<policy, approvals, reqLock, orphans, effects, granted, attempts, trouble>>

LogAction_NotWritten(b) ==
  /\ broker[b].pc = "action"
  /\ Become(b, [broker[b] EXCEPT !.pc = "run", !.child = "running"])
  /\ UNCHANGED <<policy, approvals, journal, damage, reqLock, orphans, effects,
                 granted, attempts, trouble>>

(* The action is on record; the handler starts the provider command. *)
LogAction(b) ==
  /\ broker[b].pc = "action"
  /\ Written(Line(b))
  /\ Become(b, [broker[b] EXCEPT !.pc = "run", !.child = "running"])
  /\ UNCHANGED <<policy, approvals, reqLock, orphans, effects, granted, attempts, trouble>>

(* The provider command carries the request out. *)
CarryOut(b) ==
  /\ broker[b].pc = "run" /\ broker[b].child = "running"
  /\ effects' = [effects EXCEPT ![broker[b].request] = @ + 1]
  /\ Become(b, [broker[b] EXCEPT !.child = "done"])
  /\ UNCHANGED <<policy, approvals, journal, damage, reqLock, orphans, granted,
                 attempts, trouble>>

(* It answers with success, or with an error; or it is missing, invalid or *)
(* out of time, when subprocess.run kills it, before or after its effect.  *)
HandlerReturns(b) ==
  /\ broker[b].pc = "run"
  /\ \E status \in {"ok", "error"} :
       /\ status = "ok" => broker[b].child = "done"
       /\ Become(b, [broker[b] EXCEPT !.pc = "result", !.status = status, !.child = "none"])
  /\ UNCHANGED <<policy, approvals, journal, damage, reqLock, orphans, effects,
                 granted, attempts, trouble>>

LogResult(b) ==
  /\ broker[b].pc = "result"
  /\ Written(Line(b))
  /\ Release(b)
  /\ UNCHANGED <<policy, approvals, orphans, effects, granted, attempts, trouble>>

-----------------------------------------------------------------------------
(* What goes wrong.                                                        *)

AppendFails_KeepsLock(b) ==
  /\ broker[b].pc \in Logging
  /\ Trouble("append")
  /\ PartlyWritten(Line(b))
  /\ Become(b, Idle)
  /\ UNCHANGED <<policy, approvals, reqLock, orphans, effects, granted, attempts>>

(* append raises OSError: the command ends with audit_unavailable. *)
AppendFails(b) ==
  /\ broker[b].pc \in Logging
  /\ Trouble("append")
  /\ PartlyWritten(Line(b))
  /\ Release(b)
  /\ UNCHANGED <<policy, approvals, orphans, effects, granted, attempts>>

(* The broker is killed.  A provider command that it started goes on. *)
Crash(b) ==
  /\ broker[b].pc # "idle"
  /\ Trouble("crash")
  /\ IF broker[b].pc \in Logging THEN PartlyWritten(Line(b)) ELSE UNCHANGED <<journal, damage>>
  /\ orphans' = IF broker[b].child = "running"
                THEN [orphans EXCEPT ![broker[b].request] = @ + 1] ELSE orphans
  /\ Release(b)
  /\ UNCHANGED <<policy, approvals, effects, granted, attempts>>

OrphanCarriesOut(r) ==
  /\ orphans[r] > 0
  /\ orphans' = [orphans EXCEPT ![r] = @ - 1]
  /\ effects' = [effects EXCEPT ![r] = @ + 1]
  /\ UNCHANGED <<policy, approvals, journal, damage, reqLock, broker, granted,
                 attempts, trouble>>

-----------------------------------------------------------------------------
(* The administrator: policy and approval files change at any time.        *)

EditPolicy(rules) ==
  /\ rules # policy
  /\ policy' = rules
  /\ UNCHANGED <<approvals, journal, damage, reqLock, broker, orphans, effects,
                 granted, attempts, trouble>>

Grant(r) ==
  /\ ~Approved(r)
  /\ approvals' = [approvals EXCEPT ![r.id] = [content |-> r, current |-> TRUE]]
  /\ granted' = granted \cup {r}
  /\ UNCHANGED <<policy, journal, damage, reqLock, broker, orphans, effects, attempts, trouble>>

Expire(i) ==
  /\ approvals[i] # None
  /\ approvals[i].current
  /\ approvals' = [approvals EXCEPT ![i].current = FALSE]
  /\ UNCHANGED <<policy, journal, damage, reqLock, broker, orphans, effects,
                 granted, attempts, trouble>>

-----------------------------------------------------------------------------

Init ==
  /\ policy \in Policies
  /\ approvals = [i \in Ids |-> None]
  /\ journal = <<>>
  /\ damage = "none"
  /\ reqLock = [i \in Ids |-> None]
  /\ broker = [b \in Brokers |-> Idle]
  /\ orphans = [r \in Requests |-> 0]
  /\ effects = [r \in Requests |-> 0]
  /\ granted = {}
  /\ attempts = 0
  /\ trouble = 0

(* The steps a broker takes on its own once a request is sent. *)
Step(b) ==
  \/ Stop(b) \/ Accept(b) \/ LogRequest(b) \/ RejectCall(b) \/ Decide(b)
  \/ LogDecision(b) \/ LogAction(b) \/ CarryOut(b) \/ HandlerReturns(b) \/ LogResult(b)

Next ==
  \/ \E b \in Brokers :
       \/ \E r \in Requests : Send(b, r)
       \/ LockRequest(b)
       \/ Step(b)
       \/ AppendFails(b)
       \/ Crash(b)
  \/ \E r \in Requests : OrphanCarriesOut(r) \/ Grant(r)
  \/ \E rules \in Policies : EditPolicy(rules)
  \/ \E i \in Ids : Expire(i)

Spec == Init /\ [][Next]_vars

(* The scheduler runs every broker; the kernel gives a flock that is free  *)
(* again and again to a process that waits for it; a provider command ends *)
(* within its timeout.                                                     *)
FairSpec ==
  Spec /\ \A b \in Brokers : WF_vars(Step(b)) /\ SF_vars(LockRequest(b))

-----------------------------------------------------------------------------
(* Types.                                                                  *)

Event ==
  [request : Requests, event : Logging,
   status : {"none", "allow", "deny", "require_approval", "approval_required"} \cup Terminal]

Process ==
  [pc : {"idle", "lock", "check", "evaluate", "run"} \cup Logging,
   request : Requests \cup {None},
   rules : Policies \cup {<<>>},
   outcome : {"none", "allow", "deny", "require_approval"},
   status : {"none", "approval_required"} \cup Terminal,
   child : {"none", "running", "done"}]

(* The variables have their types, and a broker past the lock holds it. *)
TypeOK ==
  /\ policy \in Policies
  /\ approvals \in [Ids -> [content : Requests, current : BOOLEAN] \cup {None}]
  /\ journal \in Seq(Event)
  /\ damage \in {"none", "open", "some", "last"}
  /\ reqLock \in [Ids -> Brokers \cup {None}]
  /\ broker \in [Brokers -> Process]
  /\ orphans \in [Requests -> Nat]
  /\ effects \in [Requests -> Nat]
  /\ granted \subseteq Requests
  /\ attempts \in 0..MaxAttempts /\ trouble \in 0..MaxTrouble
  /\ \A b \in Brokers : broker[b].pc \notin {"idle", "lock"} =>
       reqLock[broker[b].request.id] = b

-----------------------------------------------------------------------------
(* Safety.                                                                 *)

(* After a terminal result, no event of that request ID enters the journal *)
(* any more, although is_complete reads the journal long before the events *)
(* are appended (request_lock, is_complete).                               *)
TerminalIsFinal ==
  \A i \in Ids : \A k, m \in EventsOf(i) : IsTerminal(journal[k]) => m <= k

(* What the events of an ID say of the event e that comes next. *)
Follows(last, e) ==
  /\ last.request = e.request
  /\ CASE e.event = "decision" -> last.event = "request"
       [] e.event = "action"   -> last.event = "decision" /\ last.status = "allow"
       [] e.event = "result"   -> \/ last.event = "action"
                                  \/ last.event = "decision" /\ last.status # "allow"

(* The events of one request ID come attempt by attempt, in the documented *)
(* order, and only an allowed request has an action event; retries, errors *)
(* and crashes between two lines included.  A line that was torn apart may *)
(* have taken others with it.                                              *)
JournalIsOrdered ==
  Readable =>
    \A i \in Ids : \A k \in EventsOf(i) :
      journal[k].event # "request" =>
        \E last \in EventsOf(i) :
          /\ last < k
          /\ \A m \in EventsOf(i) : ~(last < m /\ m < k)
          /\ Follows(journal[last], journal[k])

ActionsOf(r) == {k \in DOMAIN journal : journal[k].request = r /\ journal[k].event = "action"}

(* Every effect of a provider has an action event of its own, written      *)
(* before: a killed broker, a retry or an orphaned provider command leaves *)
(* no effect that the journal does not tell.                               *)
EveryEffectIsRecorded ==
  Readable => \A r \in Requests : effects[r] <= Cardinality(ActionsOf(r))

(* A request runs only if the first rule for it in the policy the broker   *)
(* loaded grants every required authority and allows it, or asks for an    *)
(* approval that existed for exactly this request.                         *)
AuthorityIsGranted ==
  \A b \in Brokers : broker[b].pc \in {"action", "run"} =>
    LET r == broker[b].request
        rules == broker[b].rules
    IN \E i \in DOMAIN rules :
         /\ Matches(rules[i], r.operation)
         /\ \A j \in 1..(i - 1) : ~Matches(rules[j], r.operation)
         /\ Catalog[r.operation] \subseteq rules[i].authorities
         /\ \/ rules[i].decision = "allow"
            \/ rules[i].decision = "require_approval" /\ r \in granted

RunsOf(i) == {r \in Requests : r.id = i /\ effects[r] > 0}

(* No request ID is carried out twice: the replay that the rule about      *)
(* terminal results is there to prevent.                                   *)
NoReplay ==
  \A i \in Ids : Cardinality(RunsOf(i)) <= 1 /\ \A r \in RunsOf(i) : effects[r] = 1

(* As long as nobody is killed and no append fails, neither retries nor    *)
(* concurrent duplicates carry a request ID out twice.                     *)
NoReplayUndisturbed == trouble = 0 => NoReplay

-----------------------------------------------------------------------------
(* Liveness.                                                               *)

(* Every request that was sent comes to an end, also when it waits for     *)
(* another one with its ID.                                                *)
RequestEnds == \A b \in Brokers : broker[b].pc # "idle" ~> broker[b].pc = "idle"
=============================================================================

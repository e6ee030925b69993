---------------------------- MODULE BrokerProofs ----------------------------
(***************************************************************************)
(* Theorems about Broker, for any number of brokers and requests, any      *)
(* catalog, any policies that load, and any bound on trouble: the types,   *)
(* the locks, the authority behind everything that runs, and that no       *)
(* request is stuck or goes on for ever.                                   *)
(***************************************************************************)
EXTENDS Broker, WellFoundedInduction, TLAPS

-----------------------------------------------------------------------------
(* Facts about the operators of the model.                                 *)

(* The state of an idle broker has its type. *)
LEMMA IdleType == Idle \in Process
  BY DEF Idle, Process, Logging, Terminal

(* A set of positions that is not empty has a first one. *)
LEMMA FirstPosition ==
  ASSUME NEW I \in SUBSET Nat, I # {}
  PROVE  Min(I) \in I /\ \A j \in I : Min(I) <= j
  <1> DEFINE R == {pair \in Nat \X Nat : pair[1] < pair[2]}
  <1>0. IsWellFoundedOn(R, Nat)
    BY NatLessThanWellFounded DEF OpToRel
  <1>1. PICK i \in I : \A j \in I : <<j, i>> \notin R
    <2> HIDE DEF R
    <2>1. QED
      BY <1>0, WFMin
  <1>2. ASSUME NEW j \in I PROVE i <= j
    <2>1. i \in Nat /\ j \in Nat
      OBVIOUS
    <2>2. j < i => <<j, i>> \in R
      BY <2>1
    <2>3. QED
      BY <1>1, <2>1, <2>2
  <1>3. QED
    BY <1>2 DEF Min

(* Policy.evaluate goes through the rules in their order. *)
LEMMA FirstMatchIsFirst ==
  ASSUME NEW rules, rules \in Policies, NEW operation,
         NEW i, i = FirstMatch(rules, operation), i # 0
  PROVE  /\ i \in DOMAIN rules /\ i \in Nat
         /\ Matches(rules[i], operation)
         /\ \A j \in 1..(i - 1) : ~Matches(rules[j], operation)
         /\ rules[i].decision \in {"allow", "deny", "require_approval"}
  <1> DEFINE I == {j \in 1..Len(rules) : Matches(rules[j], operation)}
  <1>1. /\ Len(rules) \in Nat /\ DOMAIN rules = 1..Len(rules)
        /\ \A j \in DOMAIN rules : rules[j].decision \in {"allow", "deny", "require_approval"}
    <2>1. rules \in Seq(ToSet(rules))
      BY PolicyAssumption
    <2>2. Len(rules) \in Nat /\ DOMAIN rules = 1..Len(rules)
      BY <2>1
    <2>3. \A j \in DOMAIN rules : rules[j] \in ToSet(rules)
      BY DEF ToSet
    <2>4. QED
      BY <2>2, <2>3, PolicyAssumption
  <1>2. i = IF I # {} THEN Min(I) ELSE 0
    BY DEF FirstMatch, SelectInSeq
  <1>3. I # {} /\ I \in SUBSET Nat
    BY <1>1, <1>2
  <1>4. i \in I /\ \A j \in I : i <= j
    <2> HIDE DEF I
    <2>1. QED
      BY <1>2, <1>3, FirstPosition
  <1>5. \A j \in 1..(i - 1) : j \in 1..Len(rules) /\ ~(i <= j)
    BY <1>1, <1>4
  <1>6. QED
    BY <1>1, <1>4, <1>5

(* Evaluation gives a decision, and one other than to deny comes from the  *)
(* first rule that matches, which grants all required authorities.         *)
LEMMA EvaluateDecides ==
  ASSUME NEW rules, rules \in Policies, NEW operation
  PROVE  /\ Evaluate(rules, operation) \in {"allow", "deny", "require_approval"}
         /\ Evaluate(rules, operation) # "deny" =>
              \E i \in DOMAIN rules :
                /\ Matches(rules[i], operation)
                /\ \A j \in 1..(i - 1) : ~Matches(rules[j], operation)
                /\ Catalog[operation] \subseteq rules[i].authorities
                /\ rules[i].decision = Evaluate(rules, operation)
  <1> DEFINE i == FirstMatch(rules, operation)
  <1>1. CASE i = 0
    BY <1>1 DEF Evaluate
  <1>2. CASE i # 0
    <2>1. /\ i \in DOMAIN rules
          /\ Matches(rules[i], operation)
          /\ \A j \in 1..(i - 1) : ~Matches(rules[j], operation)
          /\ rules[i].decision \in {"allow", "deny", "require_approval"}
      BY <1>2, FirstMatchIsFirst
    <2>2. Evaluate(rules, operation) =
            IF Catalog[operation] \subseteq rules[i].authorities
            THEN rules[i].decision ELSE "deny"
      BY <1>2 DEF Evaluate
    <2> HIDE DEF i
    <2>3. QED
      BY <2>1, <2>2
  <1>3. QED
    BY <1>1, <1>2

-----------------------------------------------------------------------------
(* Types.                                                                  *)

(* What the steps of one broker rely on: its request and rules are there,  *)
(* it has a child only while the action runs, and that only if allowed.    *)
WellFormed(q) ==
  /\ q.pc # "idle" => q.request \in Requests /\ q.rules \in Policies
  /\ q.child # "none" => q.pc = "run"
  /\ q.pc \in {"action", "run"} => q.outcome = "allow"

Types == TypeOK /\ \A b \in Brokers : WellFormed(broker[b])

(* The step of a broker leaves the others, and the locks they hold, alone. *)
LEMMA BecomeType ==
  ASSUME Types, NEW b \in Brokers, NEW q \in Process, WellFormed(q), Become(b, q),
         reqLock' \in [Ids -> Brokers \cup {None}],
         q.pc \notin {"idle", "lock"} => reqLock'[q.request.id] = b,
         \A i \in Ids : reqLock[i] \notin {b, None} => reqLock'[i] = reqLock[i]
  PROVE  /\ broker' \in [Brokers -> Process]
         /\ \A e \in Brokers : WellFormed(broker'[e])
         /\ \A e \in Brokers : broker'[e].pc \notin {"idle", "lock"} =>
              reqLock'[broker'[e].request.id] = e
  <1>1. /\ broker' \in [Brokers -> Process] /\ broker'[b] = q
        /\ \A e \in Brokers \ {b} : broker'[e] = broker[e]
    BY DEF Types, TypeOK, Become
  <1>2. \A e \in Brokers : WellFormed(broker'[e])
    BY <1>1 DEF Types
  <1>3. ASSUME NEW e \in Brokers \ {b}, broker[e].pc \notin {"idle", "lock"}
        PROVE  reqLock'[broker[e].request.id] = e
    <2>1. broker[e].request.id \in Ids
      BY <1>3 DEF Types, WellFormed, Ids
    <2>2. reqLock[broker[e].request.id] = e
      BY <1>3 DEF Types, TypeOK
    <2>3. QED
      BY <2>1, <2>2, BrokerConstantsAssumption
  <1>4. QED
    BY <1>1, <1>2, <1>3

(* A broker that ends. *)
LEMMA ReleaseType ==
  ASSUME Types, NEW b \in Brokers, Release(b)
  PROVE  /\ reqLock' \in [Ids -> Brokers \cup {None}]
         /\ broker' \in [Brokers -> Process]
         /\ \A e \in Brokers : WellFormed(broker'[e])
         /\ \A e \in Brokers : broker'[e].pc \notin {"idle", "lock"} =>
              reqLock'[broker'[e].request.id] = e
  <1>1. WellFormed(Idle) /\ Idle.pc = "idle"
    BY DEF Idle, WellFormed
  <1>2. /\ reqLock' \in [Ids -> Brokers \cup {None}]
        /\ \A i \in Ids : reqLock[i] \notin {b, None} => reqLock'[i] = reqLock[i]
    BY DEF Types, TypeOK, Release
  <1>3. Become(b, Idle)
    BY DEF Release
  <1>4. QED
    BY <1>1, <1>2, <1>3, IdleType, BecomeType

(* Every line is an event. *)
LEMMA LineType ==
  ASSUME Types, NEW b \in Brokers, broker[b].pc \in Logging
  PROVE  Line(b) \in Event
  <1>1. broker[b] \in Process /\ broker[b].request \in Requests
    BY DEF Types, TypeOK, WellFormed, Logging
  <1>2. broker[b].outcome \in {"none", "allow", "deny", "require_approval"}
        /\ broker[b].status \in {"none", "approval_required"} \cup Terminal
    BY <1>1 DEF Process
  <1>3. QED
    BY <1>1, <1>2 DEF Line, Event

(* An append, whole or in parts, leaves a sequence of events. *)
LEMMA AppendType ==
  ASSUME Types, NEW b \in Brokers, broker[b].pc \in Logging,
         Written(Line(b)) \/ PartlyWritten(Line(b))
  PROVE  journal' \in Seq(Event) /\ damage' \in {"none", "open", "some", "last"}
  <1>1. Line(b) \in Event /\ journal \in Seq(Event) /\ damage \in {"none", "open", "some", "last"}
    BY LineType DEF Types, TypeOK
  <1> DEFINE e == Line(b)
  <1> HIDE DEF e
  <1>2. e \in Event /\ (Written(e) \/ PartlyWritten(e))
    BY <1>1 DEF e
  <1>3. Append(journal, e) \in Seq(Event)
    BY <1>1, <1>2
  <1>4. QED
    BY <1>1, <1>2, <1>3 DEF Written, PartlyWritten

(* A step of broker b that changes its state only. *)
LEMMA AdvanceType ==
  ASSUME Types, NEW b \in Brokers, NEW q \in Process, WellFormed(q), Become(b, q),
         q.request = broker[b].request, broker[b].pc \notin {"idle", "lock"},
         UNCHANGED reqLock
  PROVE  /\ reqLock' \in [Ids -> Brokers \cup {None}]
         /\ broker' \in [Brokers -> Process]
         /\ \A e \in Brokers : WellFormed(broker'[e])
         /\ \A e \in Brokers : broker'[e].pc \notin {"idle", "lock"} =>
              reqLock'[broker'[e].request.id] = e
  <1>1. reqLock[q.request.id] = b /\ reqLock \in [Ids -> Brokers \cup {None}]
    BY DEF Types, TypeOK
  <1>2. QED
    BY <1>1, BecomeType

(* The program starts with its variables in their types. *)
LEMMA InitType == Init => Types
  <1> SUFFICES ASSUME Init PROVE Types
    OBVIOUS
  <1>1. \A b \in Brokers : broker[b] = Idle /\ Idle.pc = "idle" /\ WellFormed(Idle)
    BY DEF Init, Idle, WellFormed
  <1>2. journal \in Seq(Event) /\ trouble \in 0..MaxTrouble /\ attempts \in 0..MaxAttempts
    BY BrokerConstantsAssumption DEF Init
  <1>3. QED
    BY <1>1, <1>2, IdleType DEF Init, Types, TypeOK

(* A request is sent, and takes its lock. *)
LEMMA EntryType ==
  ASSUME Types, NEW b \in Brokers
  PROVE  /\ \A r \in Requests : Send(b, r) => Types'
         /\ LockRequest(b) => Types'
  <1>1. ASSUME NEW r \in Requests, Send(b, r) PROVE Types'
    <2> DEFINE q == [Idle EXCEPT !.pc = "lock", !.request = r, !.rules = policy]
    <2>1. q \in Process /\ WellFormed(q) /\ q.pc = "lock"
      BY IdleType DEF Idle, Process, WellFormed, Logging, Types, TypeOK, Terminal
    <2>2. Become(b, q) /\ UNCHANGED reqLock
      BY <1>1 DEF Send
    <2> HIDE DEF q
    <2>3. /\ broker' \in [Brokers -> Process] /\ \A e \in Brokers : WellFormed(broker'[e])
          /\ \A e \in Brokers : broker'[e].pc \notin {"idle", "lock"} =>
               reqLock'[broker'[e].request.id] = e
      BY <2>1, <2>2, BecomeType DEF Types, TypeOK
    <2>4. attempts' \in 0..MaxAttempts
      BY <1>1, BrokerConstantsAssumption DEF Types, TypeOK, Send
    <2>5. QED
      BY <1>1, <2>3, <2>4 DEF Types, TypeOK, Send
  <1>2. ASSUME LockRequest(b) PROVE Types'
    <2> DEFINE q == [broker[b] EXCEPT !.pc = "check"]
    <2>1. broker[b] \in Process /\ WellFormed(broker[b]) /\ broker[b].pc = "lock"
      BY <1>2 DEF Types, TypeOK, LockRequest
    <2>2. q \in Process /\ WellFormed(q) /\ q.request = broker[b].request
      BY <2>1 DEF Process, WellFormed
    <2>3. broker[b].request.id \in Ids
      BY <2>1 DEF WellFormed, Ids
    <2>4. /\ Become(b, q)
          /\ reqLock' \in [Ids -> Brokers \cup {None}]
          /\ reqLock'[broker[b].request.id] = b
          /\ \A i \in Ids : reqLock[i] \notin {b, None} => reqLock'[i] = reqLock[i]
      BY <1>2, <2>3 DEF LockRequest, Types, TypeOK
    <2> HIDE DEF q
    <2>5. /\ broker' \in [Brokers -> Process] /\ \A e \in Brokers : WellFormed(broker'[e])
          /\ \A e \in Brokers : broker'[e].pc \notin {"idle", "lock"} =>
               reqLock'[broker'[e].request.id] = e
      BY <2>2, <2>4, BecomeType
    <2>6. QED
      BY <1>2, <2>4, <2>5 DEF Types, TypeOK, LockRequest
  <1>3. QED
    BY <1>1, <1>2

(* The outcome of a policy and an approval. *)
LEMMA OutcomeType ==
  ASSUME NEW rules, rules \in Policies, NEW r
  PROVE  /\ Outcome(rules, r) \in {"allow", "deny", "require_approval"}
         /\ StatusOf[Outcome(rules, r)] \in {"none", "approval_required"} \cup Terminal
  BY EvaluateDecides DEF Outcome, StatusOf, Terminal

(* The steps that neither end a broker nor touch the journal. *)
LEMMA QuietStepType ==
  ASSUME Types, NEW b \in Brokers,
         Accept(b) \/ RejectCall(b) \/ Decide(b) \/ CarryOut(b) \/ HandlerReturns(b)
  PROVE  Types'
  <1>1. /\ broker[b] \in Process /\ WellFormed(broker[b])
        /\ broker[b].pc \in {"check", "evaluate", "run"}
        /\ broker[b].request \in Requests /\ broker[b].rules \in Policies
    BY DEF Types, TypeOK, WellFormed, Accept, RejectCall, Decide, CarryOut, HandlerReturns
  <1>2. \E q \in Process : WellFormed(q) /\ Become(b, q) /\ q.request = broker[b].request
    <2>1. CASE Accept(b)
      <3> DEFINE q == [broker[b] EXCEPT !.pc = "request"]
      <3>1. q \in Process /\ WellFormed(q) /\ q.request = broker[b].request
        BY <1>1, <2>1 DEF Process, WellFormed, Logging, Accept
      <3>2. QED
        BY <2>1, <3>1 DEF Accept
    <2>2. CASE RejectCall(b)
      <3> DEFINE q == [broker[b] EXCEPT !.pc = "decision", !.outcome = "deny",
                                        !.status = "error"]
      <3>1. q \in Process /\ WellFormed(q) /\ q.request = broker[b].request
        BY <1>1, <2>2 DEF Process, WellFormed, Logging, Terminal, RejectCall
      <3>2. QED
        BY <2>2, <3>1 DEF RejectCall
    <2>3. CASE Decide(b)
      <3> DEFINE o == Outcome(broker[b].rules, broker[b].request)
                 q == [broker[b] EXCEPT !.pc = "decision", !.outcome = o,
                                        !.status = StatusOf[o]]
      <3>1. /\ o \in {"allow", "deny", "require_approval"}
            /\ StatusOf[o] \in {"none", "approval_required"} \cup Terminal
        BY <1>1, OutcomeType
      <3>2. Become(b, q)
        BY <2>3 DEF Decide
      <3> HIDE DEF o
      <3>3. q \in Process /\ WellFormed(q) /\ q.request = broker[b].request
        <4>1. broker[b].pc = "evaluate"
          BY <2>3 DEF Decide
        <4>2. QED
          BY <1>1, <3>1, <4>1 DEF Process, WellFormed, Logging
      <3>4. QED
        BY <3>2, <3>3
    <2>4. CASE CarryOut(b)
      <3> DEFINE q == [broker[b] EXCEPT !.child = "done"]
      <3>1. q \in Process /\ WellFormed(q) /\ q.request = broker[b].request
        BY <1>1, <2>4 DEF Process, WellFormed, CarryOut
      <3>2. QED
        BY <2>4, <3>1 DEF CarryOut
    <2>5. CASE HandlerReturns(b)
      <3>1. PICK s \in {"ok", "error"} :
              Become(b, [broker[b] EXCEPT !.pc = "result", !.status = s, !.child = "none"])
        BY <2>5 DEF HandlerReturns
      <3> DEFINE q == [broker[b] EXCEPT !.pc = "result", !.status = s, !.child = "none"]
      <3>2. q \in Process /\ WellFormed(q) /\ q.request = broker[b].request
        BY <1>1 DEF Process, WellFormed, Logging, Terminal
      <3>3. QED
        BY <3>1, <3>2
    <2>6. QED
      BY <2>1, <2>2, <2>3, <2>4, <2>5
  <1>3. UNCHANGED reqLock
    BY DEF Accept, RejectCall, Decide, CarryOut, HandlerReturns
  <1>4. /\ reqLock' \in [Ids -> Brokers \cup {None}]
        /\ broker' \in [Brokers -> Process]
        /\ \A e \in Brokers : WellFormed(broker'[e])
        /\ \A e \in Brokers : broker'[e].pc \notin {"idle", "lock"} =>
             reqLock'[broker'[e].request.id] = e
    BY <1>1, <1>2, <1>3, AdvanceType
  <1>5. effects' \in [Requests -> Nat]
    <2>1. effects \in [Requests -> Nat]
      BY DEF Types, TypeOK
    <2>2. CASE CarryOut(b)
      BY <1>1, <2>1, <2>2 DEF CarryOut
    <2>3. CASE UNCHANGED effects
      BY <2>1, <2>3
    <2>4. QED
      BY <2>2, <2>3 DEF Accept, RejectCall, Decide, HandlerReturns
  <1>6. UNCHANGED <<policy, approvals, journal, damage, orphans, granted, attempts, trouble>>
    BY DEF Accept, RejectCall, Decide, CarryOut, HandlerReturns
  <1>7. QED
    BY <1>4, <1>5, <1>6 DEF Types, TypeOK

(* The steps that append a line and go on. *)
LEMMA LogStepType ==
  ASSUME Types, NEW b \in Brokers, LogRequest(b) \/ LogDecision(b) \/ LogAction(b)
  PROVE  Types'
  <1>1. /\ broker[b] \in Process /\ WellFormed(broker[b])
        /\ broker[b].pc \in {"request", "decision", "action"}
    BY DEF Types, TypeOK, LogRequest, LogDecision, LogAction
  <1>2. \E q \in Process : WellFormed(q) /\ Become(b, q) /\ q.request = broker[b].request
    <2>1. CASE LogRequest(b)
      <3> DEFINE q == [broker[b] EXCEPT !.pc = "evaluate"]
      <3>1. q \in Process /\ WellFormed(q) /\ q.request = broker[b].request
        BY <1>1 DEF Process, WellFormed
      <3>2. QED
        BY <2>1, <3>1 DEF LogRequest
    <2>2. CASE LogDecision(b)
      <3> DEFINE p == IF broker[b].outcome = "allow" THEN "action" ELSE "result"
                 q == [broker[b] EXCEPT !.pc = p]
      <3>1. p \in Logging /\ p \notin {"idle", "run"} /\ (p = "action" => broker[b].outcome = "allow")
        BY DEF Logging
      <3>2. Become(b, q)
        BY <2>2 DEF LogDecision
      <3> HIDE DEF p
      <3>3. q \in Process /\ WellFormed(q) /\ q.request = broker[b].request
        BY <1>1, <3>1 DEF Process, WellFormed
      <3>4. QED
        BY <3>2, <3>3
    <2>3. CASE LogAction(b)
      <3> DEFINE q == [broker[b] EXCEPT !.pc = "run", !.child = "running"]
      <3>1. q \in Process /\ WellFormed(q) /\ q.request = broker[b].request
        BY <1>1, <2>3 DEF Process, WellFormed, LogAction
      <3>2. QED
        BY <2>3, <3>1 DEF LogAction
    <2>4. QED
      BY <2>1, <2>2, <2>3
  <1>3. UNCHANGED reqLock /\ Written(Line(b)) /\ broker[b].pc \in Logging
    BY DEF LogRequest, LogDecision, LogAction, Logging
  <1>4. /\ reqLock' \in [Ids -> Brokers \cup {None}]
        /\ broker' \in [Brokers -> Process]
        /\ \A e \in Brokers : WellFormed(broker'[e])
        /\ \A e \in Brokers : broker'[e].pc \notin {"idle", "lock"} =>
             reqLock'[broker'[e].request.id] = e
    BY <1>1, <1>2, <1>3, AdvanceType
  <1>5. journal' \in Seq(Event) /\ damage' \in {"none", "open", "some", "last"}
    BY <1>3, AppendType
  <1>6. UNCHANGED <<policy, approvals, orphans, effects, granted, attempts, trouble>>
    BY DEF LogRequest, LogDecision, LogAction
  <1>7. QED
    BY <1>4, <1>5, <1>6 DEF Types, TypeOK

(* The steps that end a broker. *)
LEMMA EndType ==
  ASSUME Types, NEW b \in Brokers, Stop(b) \/ LogResult(b) \/ AppendFails(b) \/ Crash(b)
  PROVE  Types'
  <1>1. Release(b) /\ UNCHANGED <<policy, approvals, effects, granted, attempts>>
    BY DEF Stop, LogResult, AppendFails, Crash
  <1>2. /\ reqLock' \in [Ids -> Brokers \cup {None}]
        /\ broker' \in [Brokers -> Process]
        /\ \A e \in Brokers : WellFormed(broker'[e])
        /\ \A e \in Brokers : broker'[e].pc \notin {"idle", "lock"} =>
             reqLock'[broker'[e].request.id] = e
    BY <1>1, ReleaseType
  <1>3. journal' \in Seq(Event) /\ damage' \in {"none", "open", "some", "last"}
    BY AppendType DEF Types, TypeOK, Stop, LogResult, AppendFails, Crash, Logging
  <1>4. trouble' \in 0..MaxTrouble
    BY BrokerConstantsAssumption DEF Types, TypeOK, Stop, LogResult, AppendFails, Crash, Trouble
  <1>5. orphans' \in [Requests -> Nat]
    BY DEF Types, TypeOK, WellFormed, Stop, LogResult, AppendFails, Crash
  <1>6. QED
    BY <1>1, <1>2, <1>3, <1>4, <1>5 DEF Types, TypeOK

(* The steps of provider commands left behind and of the administrator. *)
LEMMA OutsideType ==
  ASSUME Types,
         \/ \E r \in Requests : OrphanCarriesOut(r) \/ Grant(r)
         \/ \E rules \in Policies : EditPolicy(rules)
         \/ \E i \in Ids : Expire(i)
  PROVE  Types'
  <1>1. ASSUME NEW r \in Requests, OrphanCarriesOut(r) PROVE Types'
    BY <1>1 DEF Types, TypeOK, OrphanCarriesOut
  <1>2. ASSUME NEW r \in Requests, Grant(r) PROVE Types'
    BY <1>2 DEF Types, TypeOK, Grant, Ids
  <1>3. ASSUME NEW rules \in Policies, EditPolicy(rules) PROVE Types'
    BY <1>3 DEF Types, TypeOK, EditPolicy
  <1>4. ASSUME NEW i \in Ids, Expire(i) PROVE Types'
    <2> DEFINE a == [approvals[i] EXCEPT !.current = FALSE]
    <2>1. approvals[i] \in [content : Requests, current : BOOLEAN]
      BY <1>4 DEF Types, TypeOK, Expire
    <2>2. a \in [content : Requests, current : BOOLEAN]
      BY <2>1
    <2>3. approvals' = [approvals EXCEPT ![i] = a]
      BY <1>4 DEF Expire
    <2> HIDE DEF a
    <2>4. approvals' \in [Ids -> [content : Requests, current : BOOLEAN] \cup {None}]
      BY <2>2, <2>3 DEF Types, TypeOK
    <2>5. UNCHANGED <<policy, journal, damage, reqLock, broker, orphans, effects,
                      granted, attempts, trouble>>
      BY <1>4 DEF Expire
    <2>6. QED
      BY <2>4, <2>5 DEF Types, TypeOK
  <1>5. QED
    BY <1>1, <1>2, <1>3, <1>4

(* Every step keeps the types. *)
LEMMA NextType == Types /\ [Next]_vars => Types'
  <1> SUFFICES ASSUME Types, [Next]_vars PROVE Types'
    OBVIOUS
  <1>1. CASE UNCHANGED vars
    BY <1>1 DEF vars, Types, TypeOK
  <1>2. ASSUME NEW b \in Brokers, NEW r \in Requests, Send(b, r) PROVE Types'
    BY <1>2, EntryType
  <1>3. ASSUME NEW b \in Brokers, LockRequest(b) \/ Step(b) \/ AppendFails(b) \/ Crash(b)
        PROVE  Types'
    BY <1>3, EntryType, QuietStepType, LogStepType, EndType DEF Step
  <1>4. QED
    BY <1>1, <1>2, <1>3, OutsideType DEF Next

(* Everything has its type, and a broker past the lock holds it. *)
THEOREM TypeCorrect == Spec => []TypeOK
  <1>1. Types => TypeOK
    BY DEF Types
  <1>2. QED
    BY <1>1, InitType, NextType, PTL DEF Spec

(* The strengthened form of it, for the proofs that rest on it. *)
LEMMA TypesHold == Spec => []Types
  BY InitType, NextType, PTL DEF Spec

-----------------------------------------------------------------------------
(* Authority.                                                              *)

(* The first rule for the request in the rules of the broker grants all    *)
(* required authorities, and allows it or asks for an approval it had.     *)
Authorized(q, approved) ==
  \E i \in DOMAIN q.rules :
    /\ Matches(q.rules[i], q.request.operation)
    /\ \A j \in 1..(i - 1) : ~Matches(q.rules[j], q.request.operation)
    /\ Catalog[q.request.operation] \subseteq q.rules[i].authorities
    /\ \/ q.rules[i].decision = "allow"
       \/ q.rules[i].decision = "require_approval" /\ q.request \in approved

Authority ==
  /\ \A i \in Ids : approvals[i] # None => approvals[i].content \in granted
  /\ \A b \in Brokers : broker[b].outcome = "allow" => Authorized(broker[b], granted)

(* What was granted stays granted, so what is authorized stays authorized. *)
LEMMA AuthorizedStays ==
  ASSUME NEW q, Authorized(q, granted), granted \subseteq granted'
  PROVE  Authorized(q, granted')
  BY DEF Authorized

(* An outcome to allow has a rule, and an approval where the rule asks. *)
LEMMA DecideIsAuthorized ==
  ASSUME Types, Authority, NEW b \in Brokers, Decide(b)
  PROVE  broker'[b].outcome = "allow" => Authorized(broker'[b], granted')
  <1> DEFINE rules == broker[b].rules
             r == broker[b].request
             o == Outcome(rules, r)
             q == [broker[b] EXCEPT !.pc = "decision", !.outcome = o, !.status = StatusOf[o]]
  <1>1. rules \in Policies /\ r \in Requests /\ broker[b] \in Process
    BY DEF Types, TypeOK, WellFormed, Decide
  <1>2. broker'[b] = q /\ UNCHANGED granted
    BY DEF Decide, Become, Types, TypeOK
  <1>3. q.rules = rules /\ q.request = r /\ q.outcome = o
    <2> HIDE DEF o
    <2>1. QED
      BY <1>1 DEF Process
  <1>4. o = "allow" =>
          \/ Evaluate(rules, r.operation) = "allow"
          \/ Evaluate(rules, r.operation) = "require_approval" /\ Approved(r)
    BY DEF Outcome
  <1>5. Approved(r) => r \in granted
    BY <1>1 DEF Approved, Authority, Ids
  <1>6. ASSUME o = "allow" PROVE Authorized(q, granted)
    <2>1. PICK i \in DOMAIN rules :
                /\ Matches(rules[i], r.operation)
                /\ \A j \in 1..(i - 1) : ~Matches(rules[j], r.operation)
                /\ Catalog[r.operation] \subseteq rules[i].authorities
                /\ rules[i].decision = Evaluate(rules, r.operation)
      BY <1>1, <1>4, <1>6, EvaluateDecides
    <2> HIDE DEF q, r, o, rules
    <2>2. QED
      BY <1>3, <1>4, <1>5, <1>6, <2>1 DEF Authorized
  <1> HIDE DEF q, o
  <1>7. QED
    BY <1>2, <1>3, <1>6, AuthorizedStays

(* Every step keeps the authority of all outcomes. *)
LEMMA NextAuthority == Types /\ Authority /\ [Next]_vars => Authority'
  <1> SUFFICES ASSUME Types, Authority, [Next]_vars PROVE Authority'
    OBVIOUS
  <1>1. granted \subseteq granted'
    BY DEF Next, vars, Step, Send, LockRequest, Stop, Accept, LogRequest, RejectCall, Decide,
           LogDecision, LogAction, CarryOut, HandlerReturns, LogResult, AppendFails, Crash,
           OrphanCarriesOut, Grant, EditPolicy, Expire
  <1>2. ASSUME NEW i \in Ids, approvals'[i] # None PROVE approvals'[i].content \in granted'
    <2>1. CASE UNCHANGED approvals
      BY <1>1, <1>2, <2>1 DEF Authority
    <2>2. CASE \E r \in Requests : Grant(r)
      <3>1. PICK r \in Requests : Grant(r)
        BY <2>2
      <3>2. QED
        BY <1>2, <3>1 DEF Grant, Authority, Types, TypeOK, Ids
    <2>3. ASSUME NEW k \in Ids, Expire(k) PROVE approvals'[i].content \in granted'
      <3> DEFINE a == [approvals[k] EXCEPT !.current = FALSE]
      <3>1. approvals[k] \in [content : Requests, current : BOOLEAN]
        BY <2>3 DEF Types, TypeOK, Expire
      <3>2. a.content = approvals[k].content
        BY <3>1
      <3>3. approvals' = [approvals EXCEPT ![k] = a]
        BY <2>3 DEF Expire
      <3> HIDE DEF a
      <3>4. QED
        BY <1>1, <1>2, <2>3, <3>2, <3>3 DEF Authority, Types, TypeOK, Expire
    <2>4. QED
      BY <2>1, <2>2, <2>3
      DEF Next, vars, Step, Send, LockRequest, Stop, Accept, LogRequest, RejectCall, Decide,
          LogDecision, LogAction, CarryOut, HandlerReturns, LogResult, AppendFails, Crash,
          OrphanCarriesOut, EditPolicy
  <1>3. ASSUME NEW b \in Brokers, broker'[b].outcome = "allow"
        PROVE  Authorized(broker'[b], granted')
    <2>1. CASE Decide(b)
      BY <1>3, <2>1, DecideIsAuthorized
    <2>2. CASE /\ broker'[b].outcome = broker[b].outcome
               /\ broker'[b].rules = broker[b].rules
               /\ broker'[b].request = broker[b].request
      <3>1. Authorized(broker[b], granted)
        BY <1>3, <2>2 DEF Authority
      <3>2. Authorized(broker'[b], granted)
        BY <2>2, <3>1 DEF Authorized
      <3>3. QED
        BY <1>1, <3>2, AuthorizedStays
    <2>3. broker[b] \in Process
      BY DEF Types, TypeOK
    <2>4. ASSUME NEW e \in Brokers, NEW q, Become(e, q),
                 \/ q.outcome # "allow"
                 \/ /\ q.outcome = broker[e].outcome
                    /\ q.rules = broker[e].rules /\ q.request = broker[e].request
          PROVE  Authorized(broker'[b], granted')
      BY <1>3, <2>2, <2>4 DEF Become, Types, TypeOK
    <2>5. ASSUME NEW e \in Brokers, Stop(e) \/ LogResult(e) \/ AppendFails(e) \/ Crash(e)
          PROVE  Authorized(broker'[b], granted')
      <3>1. Become(e, Idle) /\ Idle.outcome # "allow"
        BY <2>5 DEF Idle, Release, Stop, LogResult, AppendFails, Crash
      <3>2. QED
        BY <2>4, <3>1
    <2>6. ASSUME NEW e \in Brokers, NEW r \in Requests, Send(e, r)
          PROVE  Authorized(broker'[b], granted')
      <3> DEFINE q == [Idle EXCEPT !.pc = "lock", !.request = r, !.rules = policy]
      <3>1. Become(e, q) /\ q.outcome # "allow"
        BY <2>6 DEF Idle, Send
      <3> HIDE DEF q
      <3>2. QED
        BY <2>4, <3>1
    <2>7. ASSUME NEW e \in Brokers, RejectCall(e) PROVE Authorized(broker'[b], granted')
      <3> DEFINE q == [broker[e] EXCEPT !.pc = "decision", !.outcome = "deny",
                                        !.status = "error"]
      <3>1. Become(e, q) /\ q.outcome # "allow"
        BY <2>7 DEF RejectCall, Types, TypeOK, Process
      <3> HIDE DEF q
      <3>2. QED
        BY <2>4, <3>1
    <2>8. ASSUME NEW e \in Brokers, LockRequest(e) \/ Accept(e) \/ LogRequest(e)
                   \/ LogDecision(e) \/ LogAction(e) \/ CarryOut(e) \/ HandlerReturns(e)
          PROVE  Authorized(broker'[b], granted')
      <3>1. broker[e] \in Process /\ e \in DOMAIN broker
        BY DEF Types, TypeOK
      <3>2. /\ broker'[e].outcome = broker[e].outcome
            /\ broker'[e].rules = broker[e].rules
            /\ broker'[e].request = broker[e].request
        <4>1. CASE LockRequest(e)
          BY <3>1, <4>1 DEF LockRequest, Become, Process
        <4>2. CASE LogDecision(e)
          BY <3>1, <4>2 DEF LogDecision, Become, Process
        <4>3. CASE LogAction(e)
          BY <3>1, <4>3 DEF LogAction, Become, Process
        <4>4. CASE CarryOut(e)
          BY <3>1, <4>4 DEF CarryOut, Become, Process
        <4>5. CASE HandlerReturns(e)
          BY <3>1, <4>5 DEF HandlerReturns, Become, Process
        <4>6. CASE Accept(e)
          BY <3>1, <4>6 DEF Accept, Become, Process
        <4>7. CASE LogRequest(e)
          BY <3>1, <4>7 DEF LogRequest, Become, Process
        <4>8. QED
          BY <2>8, <4>1, <4>2, <4>3, <4>4, <4>5, <4>6, <4>7
      <3>3. e # b => broker'[b] = broker[b]
        <4>1. \E q : Become(e, q)
          BY <2>8 DEF LockRequest, Accept, LogRequest, LogDecision, LogAction, CarryOut,
                      HandlerReturns
        <4>2. QED
          BY <4>1 DEF Become, Types, TypeOK
      <3>4. QED
        BY <2>2, <3>2, <3>3
    <2>9. ASSUME NEW e \in Brokers, Decide(e) PROVE Authorized(broker'[b], granted')
      <3>1. e # b => broker'[b] = broker[b]
        BY <2>9 DEF Decide, Become, Types, TypeOK
      <3>2. QED
        BY <2>1, <2>2, <2>9, <3>1
    <2>10. CASE UNCHANGED broker
      BY <2>2, <2>10
    <2>11. QED
      BY <2>5, <2>6, <2>7, <2>8, <2>9, <2>10
      DEF Next, vars, Step, OrphanCarriesOut, Grant, EditPolicy, Expire
  <1>4. QED
    BY <1>2, <1>3 DEF Authority

(* Nothing runs without authority: only what the first matching rule of    *)
(* the loaded policy allows, with every authority the catalog requires, or *)
(* what an approval was given for, whatever changes while the broker waits *)
(* (Policy.evaluate, check_approval).                                      *)
THEOREM AuthorityIsAlwaysGranted == Spec => []AuthorityIsGranted
  <1>1. Init => Authority
    BY DEF Init, Idle, Authority
  <1>2. Types /\ Authority => AuthorityIsGranted
    BY DEF Types, WellFormed, Authority, Authorized, AuthorityIsGranted
  <1>3. QED
    BY <1>1, <1>2, TypesHold, NextAuthority, PTL DEF Spec

-----------------------------------------------------------------------------
(* Progress: every request that was sent has an end it comes nearer to.    *)

(* Where a broker holds its lock and has found its ID unused. *)
Accepted == Logging \cup {"evaluate", "run"}

(* The steps of a broker that lead to, or from, an accepted request. *)
Works(e) ==
  \/ Accept(e) \/ LogRequest(e) \/ RejectCall(e) \/ Decide(e) \/ LogDecision(e)
  \/ LogAction(e) \/ CarryOut(e) \/ HandlerReturns(e)

(* A broker at work keeps its request. *)
LEMMA WorkKeepsRequest ==
  ASSUME Types, NEW e \in Brokers, Works(e)
  PROVE  broker'[e].request = broker[e].request /\ broker'[e].pc \in Accepted
  <1>1. broker[e] \in Process /\ e \in DOMAIN broker
    BY DEF Types, TypeOK
  <1>2. CASE Accept(e)
    BY <1>1, <1>2 DEF Accept, Become, Process, Accepted, Logging
  <1>3. CASE RejectCall(e)
    BY <1>1, <1>3 DEF RejectCall, Become, Process, Accepted, Logging
  <1>4. CASE Decide(e)
    BY <1>1, <1>4 DEF Decide, Become, Process, Accepted, Logging
  <1>5. CASE LogDecision(e)
    BY <1>1, <1>5 DEF LogDecision, Become, Process, Accepted, Logging
  <1>6. CASE LogAction(e)
    BY <1>1, <1>6 DEF LogAction, Become, Process, Accepted, Logging
  <1>7. CASE HandlerReturns(e)
    BY <1>1, <1>7 DEF HandlerReturns, Become, Process, Accepted, Logging
  <1>8. CASE CarryOut(e)
    BY <1>1, <1>8 DEF CarryOut, Become, Process, Accepted, Logging
  <1>9. CASE LogRequest(e)
    BY <1>1, <1>9 DEF LogRequest, Become, Process, Accepted, Logging
  <1>10. QED
    BY <1>2, <1>3, <1>4, <1>5, <1>6, <1>7, <1>8, <1>9 DEF Works

(* Whoever holds the lock of a request ID is a live broker that works on   *)
(* a request with this ID.                                                 *)
LocksAreHeld ==
  \A i \in Ids : reqLock[i] # None =>
    /\ broker[reqLock[i]].pc \in Accepted \cup {"check"}
    /\ broker[reqLock[i]].request.id = i

(* A step of a broker that leaves the locks alone. *)
LEMMA AdvanceLocks ==
  ASSUME Types, LocksAreHeld, NEW b \in Brokers, NEW q, Become(b, q), UNCHANGED reqLock,
         \/ broker[b].pc = "idle"
         \/ q.request = broker[b].request /\ q.pc \in Accepted \cup {"check"}
  PROVE  LocksAreHeld'
  <1> SUFFICES ASSUME NEW i \in Ids, reqLock[i] # None
               PROVE  /\ broker'[reqLock[i]].pc \in Accepted \cup {"check"}
                      /\ broker'[reqLock[i]].request.id = i
    BY DEF LocksAreHeld
  <1>1. PICK e \in Brokers : e = reqLock[i]
    BY DEF Types, TypeOK
  <1>2. broker[e].pc \in Accepted \cup {"check"} /\ broker[e].request.id = i
    BY <1>1 DEF LocksAreHeld
  <1>3. CASE e = b
    <2>1. broker'[e] = q /\ broker[b].pc # "idle"
      BY <1>2, <1>3 DEF Become, Types, TypeOK, Accepted, Logging
    <2>2. QED
      BY <1>1, <1>2, <1>3, <2>1
  <1>4. CASE e # b
    <2>1. broker'[e] = broker[e]
      BY <1>4 DEF Become, Types, TypeOK
    <2>2. QED
      BY <1>1, <1>2, <2>1
  <1>5. QED
    BY <1>3, <1>4

(* Every step leaves no lock behind. *)
LEMMA NextLocks == Types /\ LocksAreHeld /\ [Next]_vars => LocksAreHeld'
  <1> SUFFICES ASSUME Types, LocksAreHeld, [Next]_vars PROVE LocksAreHeld'
    OBVIOUS
  <1>1. ASSUME NEW b \in Brokers, Release(b) PROVE LocksAreHeld'
    <2> SUFFICES ASSUME NEW i \in Ids, reqLock'[i] # None
                 PROVE  /\ broker'[reqLock'[i]].pc \in Accepted \cup {"check"}
                        /\ broker'[reqLock'[i]].request.id = i
      BY DEF LocksAreHeld
    <2>1. reqLock'[i] = reqLock[i] /\ reqLock[i] \in Brokers \ {b} /\ reqLock[i] # None
      BY <1>1 DEF Release, Types, TypeOK
    <2>2. broker'[reqLock[i]] = broker[reqLock[i]]
      BY <1>1, <2>1 DEF Release, Become, Types, TypeOK
    <2>3. QED
      BY <2>1, <2>2 DEF LocksAreHeld
  <1>2. ASSUME NEW b \in Brokers, NEW r \in Requests, Send(b, r) PROVE LocksAreHeld'
    <2>1. broker[b].pc = "idle" /\ UNCHANGED reqLock
          /\ Become(b, [Idle EXCEPT !.pc = "lock", !.request = r, !.rules = policy])
      BY <1>2 DEF Send
    <2> DEFINE q == [Idle EXCEPT !.pc = "lock", !.request = r, !.rules = policy]
    <2>2. Become(b, q)
      BY <2>1
    <2> HIDE DEF q
    <2>3. QED
      BY <2>1, <2>2, AdvanceLocks
  <1>3. ASSUME NEW b \in Brokers, LockRequest(b) PROVE LocksAreHeld'
    <2> DEFINE q == [broker[b] EXCEPT !.pc = "check"]
               i == broker[b].request.id
    <2>1. broker[b] \in Process /\ broker[b].pc = "lock" /\ i \in Ids
      BY <1>3 DEF LockRequest, Types, TypeOK, WellFormed, Ids
    <2>2. q.pc = "check" /\ q.request = broker[b].request
      BY <2>1 DEF Process
    <2>3. broker'[b] = q /\ \A e \in Brokers \ {b} : broker'[e] = broker[e]
      BY <1>3 DEF LockRequest, Become, Types, TypeOK
    <2>4. reqLock'[i] = b /\ \A k \in Ids \ {i} : reqLock'[k] = reqLock[k]
      BY <1>3, <2>1 DEF LockRequest, Types, TypeOK
    <2> HIDE DEF q
    <2>5. ASSUME NEW k \in Ids, reqLock'[k] # None
          PROVE  /\ broker'[reqLock'[k]].pc \in Accepted \cup {"check"}
                 /\ broker'[reqLock'[k]].request.id = k
      <3>1. CASE k = i
        BY <2>2, <2>3, <2>4, <3>1
      <3>2. CASE k # i
        <4> HIDE DEF i
        <4>1. /\ reqLock'[k] = reqLock[k] /\ reqLock[k] \in Brokers
              /\ broker[reqLock[k]].pc \in Accepted \cup {"check"}
              /\ broker[reqLock[k]].request.id = k
          BY <2>4, <2>5, <3>2 DEF LocksAreHeld, Types, TypeOK
        <4>2. reqLock[k] # b
          BY <2>1, <4>1 DEF Accepted, Logging
        <4>3. QED
          BY <2>3, <4>1, <4>2
      <3>3. QED
        BY <3>1, <3>2
    <2>6. QED
      BY <2>5 DEF LocksAreHeld
  <1>4. ASSUME NEW b \in Brokers, Works(b) PROVE LocksAreHeld'
    <2>1. PICK q : Become(b, q)
      BY <1>4 DEF Works, Accept, LogRequest, RejectCall, Decide, LogDecision, LogAction,
                  CarryOut, HandlerReturns
    <2>2. broker'[b] = q
      BY <2>1 DEF Become, Types, TypeOK
    <2>3. q.request = broker[b].request /\ q.pc \in Accepted
      BY <1>4, <2>2, WorkKeepsRequest
    <2>4. UNCHANGED reqLock
      BY <1>4 DEF Works, Accept, LogRequest, RejectCall, Decide, LogDecision, LogAction,
                  CarryOut, HandlerReturns
    <2>5. QED
      BY <2>1, <2>3, <2>4, AdvanceLocks
  <1>5. CASE UNCHANGED <<reqLock, broker>>
    BY <1>5 DEF LocksAreHeld
  <1>6. QED
    BY <1>1, <1>2, <1>3, <1>4, <1>5
    DEF Next, vars, Step, Works, Stop, LogResult, AppendFails, Crash, OrphanCarriesOut, Grant,
        EditPolicy, Expire

(* A broker that ends, fails or dies gives its request ID free: each lock  *)
(* is held by a live broker that works on this ID (request_lock).          *)
THEOREM LocksAreAlwaysHeld == Spec => []LocksAreHeld
  <1>1. Init => LocksAreHeld
    BY DEF Init, LocksAreHeld
  <1>2. QED
    BY <1>1, TypesHold, NextLocks, PTL DEF Spec

(* The guards of LockRequest and of Step: broker b can go on by itself. *)
CanGoOn(b) ==
  LET r == broker[b].request IN
  \/ broker[b].pc = "lock" /\ reqLock[r.id] = None
  \/ broker[b].pc = "check" /\ (~Readable \/ IsComplete(r.id))
  \/ broker[b].pc = "check" /\ Readable /\ ~IsComplete(r.id)
  \/ broker[b].pc \in Logging
  \/ broker[b].pc = "evaluate" /\ Executable(r)
  \/ broker[b].pc = "evaluate" /\ ~Executable(r)
  \/ broker[b].pc = "run"

NobodyIsStuck ==
  \A b \in Brokers : broker[b].pc # "idle" =>
    \/ CanGoOn(b)
    \/ \E e \in Brokers : /\ e # b /\ reqLock[broker[b].request.id] = e
                          /\ broker[e].pc # "lock" /\ CanGoOn(e)

(* A request that is not answered yet can go on, or waits for a lock whose *)
(* holder can: no broker waits for one that waits or is gone.              *)
THEOREM NobodyIsEverStuck == Spec => []NobodyIsStuck
  <1>1. Types /\ LocksAreHeld => NobodyIsStuck
    <2> SUFFICES ASSUME Types, LocksAreHeld, NEW b \in Brokers, broker[b].pc # "idle", ~CanGoOn(b)
                 PROVE  \E e \in Brokers : /\ e # b /\ reqLock[broker[b].request.id] = e
                                           /\ broker[e].pc # "lock" /\ CanGoOn(e)
      BY DEF NobodyIsStuck
    <2>1. broker[b].pc \in {"lock", "check", "evaluate", "run"} \cup Logging
      BY DEF Types, TypeOK, Process
    <2>2. broker[b].pc = "lock" /\ reqLock[broker[b].request.id] # None
      BY <2>1 DEF CanGoOn
    <2>3. broker[b].request.id \in Ids
      BY DEF Types, WellFormed, Ids
    <2>4. PICK e \in Brokers : e = reqLock[broker[b].request.id]
      BY <2>2, <2>3 DEF Types, TypeOK
    <2>5. broker[e].pc \in Accepted \cup {"check"}
      BY <2>2, <2>3, <2>4 DEF LocksAreHeld
    <2>6. e # b /\ broker[e].pc # "lock" /\ CanGoOn(e)
      BY <2>2, <2>5 DEF CanGoOn, Accepted, Logging
    <2>7. QED
      BY <2>4, <2>6
  <1>2. QED
    BY <1>1, TypesHold, LocksAreAlwaysHeld, PTL

(* How many steps a broker in state q has before it at most. *)
StepsLeft(q) ==
  CASE q.pc = "idle"     -> 0
    [] q.pc = "result"   -> 1
    [] q.pc = "run"      -> IF q.child = "running" THEN 3 ELSE 2
    [] q.pc = "action"   -> 4
    [] q.pc = "decision" -> 5
    [] q.pc = "evaluate" -> 6
    [] q.pc = "request"  -> 7
    [] q.pc = "check"    -> 8
    [] q.pc = "lock"     -> 9

(* The broker took no step, or has fewer before it than it had. *)
Onward(b) ==
  broker[b].pc # "idle" =>
    broker'[b] = broker[b] \/ StepsLeft(broker'[b]) < StepsLeft(broker[b])

(* The steps of a broker bring it nearer to its end. *)
LEMMA WorkIsOnward ==
  ASSUME Types, NEW b \in Brokers, Works(b) \/ LockRequest(b)
  PROVE  StepsLeft(broker'[b]) < StepsLeft(broker[b])
  <1>1. broker[b] \in Process /\ b \in DOMAIN broker
    BY DEF Types, TypeOK
  <1>2. CASE LockRequest(b) \/ Accept(b) \/ LogRequest(b)
    <2>1. PICK p \in {"check", "request", "evaluate"} :
            /\ Become(b, [broker[b] EXCEPT !.pc = p])
            /\ p = "check" => broker[b].pc = "lock"
            /\ p = "request" => broker[b].pc = "check"
            /\ p = "evaluate" => broker[b].pc = "request"
      BY <1>2 DEF LockRequest, Accept, LogRequest
    <2>2. broker'[b].pc = p
      BY <1>1, <2>1 DEF Become, Process
    <2>3. QED
      BY <2>1, <2>2 DEF StepsLeft
  <1>3. CASE RejectCall(b) \/ Decide(b)
    <2>1. broker[b].pc = "evaluate"
      BY <1>3 DEF RejectCall, Decide
    <2>2. broker'[b].pc = "decision"
      <3>1. CASE RejectCall(b)
        BY <1>1, <3>1 DEF RejectCall, Become, Process
      <3>2. CASE Decide(b)
        BY <1>1, <3>2 DEF Decide, Become, Process
      <3>3. QED
        BY <1>3, <3>1, <3>2
    <2>3. QED
      BY <2>1, <2>2 DEF StepsLeft
  <1>4. CASE LogDecision(b)
    <2>1. broker[b].pc = "decision" /\ broker'[b].pc \in {"action", "result"}
      BY <1>1, <1>4 DEF LogDecision, Become, Process
    <2>2. QED
      BY <2>1 DEF StepsLeft
  <1>5. CASE LogAction(b)
    <2>1. broker[b].pc = "action" /\ broker'[b].pc = "run"
      BY <1>1, <1>5 DEF LogAction, Become, Process
    <2>2. QED
      BY <2>1 DEF StepsLeft
  <1>6. CASE CarryOut(b)
    <2>1. /\ broker[b].pc = "run" /\ broker'[b].pc = "run"
          /\ broker[b].child = "running" /\ broker'[b].child = "done"
      BY <1>1, <1>6 DEF CarryOut, Become, Process
    <2>2. QED
      BY <2>1 DEF StepsLeft
  <1>7. CASE HandlerReturns(b)
    <2>1. broker[b].pc = "run" /\ broker'[b].pc = "result"
      BY <1>1, <1>7 DEF HandlerReturns, Become, Process
    <2>2. QED
      BY <2>1 DEF StepsLeft
  <1>8. QED
    BY <1>2, <1>3, <1>4, <1>5, <1>6, <1>7 DEF Works

(* Every request comes to an end after nine steps of its broker at most:   *)
(* each step of it, and its failure or death, leaves fewer before it, and  *)
(* no step of anybody else adds one.                                       *)
THEOREM RequestsComeToAnEnd == Spec => [][\A b \in Brokers : Onward(b)]_vars
  <1>1. ASSUME Types, [Next]_vars, NEW b \in Brokers, broker[b].pc # "idle"
        PROVE  broker'[b] = broker[b] \/ StepsLeft(broker'[b]) < StepsLeft(broker[b])
    <2>1. ASSUME NEW e \in Brokers, Stop(e) \/ LogResult(e) \/ AppendFails(e) \/ Crash(e)
          PROVE  broker'[b] = broker[b] \/ StepsLeft(broker'[b]) < StepsLeft(broker[b])
      <3>1. Become(e, Idle)
        BY <2>1 DEF Stop, LogResult, AppendFails, Crash, Release
      <3>2. StepsLeft(Idle) = 0
        BY DEF StepsLeft, Idle
      <3>3. broker[b].pc \in {"lock", "check", "evaluate", "run"} \cup Logging
        BY <1>1 DEF Types, TypeOK, Process
      <3>4. StepsLeft(broker[b]) > 0
        BY <3>3 DEF StepsLeft, Logging
      <3>5. QED
        BY <3>1, <3>2, <3>4 DEF Become, Types, TypeOK
    <2>2. ASSUME NEW e \in Brokers, NEW q, Become(e, q), e # b PROVE broker'[b] = broker[b]
      BY <2>2 DEF Become, Types, TypeOK
    <2>3. ASSUME NEW e \in Brokers, Works(e) \/ LockRequest(e)
          PROVE  broker'[b] = broker[b] \/ StepsLeft(broker'[b]) < StepsLeft(broker[b])
      <3>1. \E q : Become(e, q)
        BY <2>3 DEF Works, LockRequest, Accept, LogRequest, RejectCall, Decide, LogDecision,
                    LogAction, CarryOut, HandlerReturns
      <3>2. QED
        BY <1>1, <2>2, <2>3, <3>1, WorkIsOnward
    <2>4. ASSUME NEW e \in Brokers, NEW r \in Requests, Send(e, r)
          PROVE  broker'[b] = broker[b]
      <3>1. e # b /\ \E q : Become(e, q)
        BY <1>1, <2>4 DEF Send
      <3>2. QED
        BY <2>2, <3>1
    <2>5. QED
      BY <1>1, <2>1, <2>3, <2>4
      DEF Next, vars, Step, Works, OrphanCarriesOut, Grant, EditPolicy, Expire
  <1>2. Types /\ [Next]_vars => [\A b \in Brokers : Onward(b)]_vars
    BY <1>1 DEF Onward
  <1>3. QED
    BY <1>2, TypesHold, PTL DEF Spec
=============================================================================

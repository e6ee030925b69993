------------------------- MODULE BrokerJournalProofs -------------------------
(***************************************************************************)
(* Theorems about the audit journal of Broker: nothing follows a terminal  *)
(* result, the events of a request come in their order, every effect is on *)
(* record, undisturbed brokers carry no request ID out twice, and disturbed*)
(* ones once more for each disturbance at most.                            *)
(***************************************************************************)
EXTENDS BrokerProofs, FiniteSetTheorems

-----------------------------------------------------------------------------
(* Facts about journals.                                                   *)

(* A line at the end of the journal is one more event of its request ID. *)
LEMMA AppendedLine ==
  ASSUME Types, NEW e \in Event, journal' = Append(journal, e)
  PROVE  /\ Len(journal) \in Nat /\ DOMAIN journal = 1..Len(journal)
         /\ DOMAIN journal' = 1..(Len(journal) + 1)
         /\ \A k \in DOMAIN journal : journal'[k] = journal[k] /\ k < Len(journal) + 1
         /\ journal'[Len(journal) + 1] = e
         /\ \A i : EventsOf(i)' = EventsOf(i) \cup
                                  (IF e.request.id = i THEN {Len(journal) + 1} ELSE {})
  <1>1. journal \in Seq(Event)
    BY DEF Types, TypeOK
  <1>2. /\ Len(journal) \in Nat /\ DOMAIN journal = 1..Len(journal)
        /\ DOMAIN journal' = 1..(Len(journal) + 1)
        /\ \A k \in DOMAIN journal : journal'[k] = journal[k] /\ k < Len(journal) + 1
        /\ journal'[Len(journal) + 1] = e
    BY <1>1
  <1>3. DOMAIN journal' = DOMAIN journal \cup {Len(journal) + 1}
    BY <1>2
  <1>4. QED
    BY <1>2, <1>3 DEF EventsOf

(* Two brokers past the lock work on different request IDs. *)
LEMMA LocksExclude ==
  ASSUME Types, NEW b \in Brokers, NEW e \in Brokers, b # e,
         broker[b].pc \in Accepted, broker[e].pc \in Accepted
  PROVE  broker[b].request.id # broker[e].request.id
  BY DEF Types, TypeOK, Accepted, Logging

(* A line that broker b appends, and nothing else happens to the journal. *)
AppendsLine(b) ==
  /\ broker[b].pc \in Logging /\ Line(b) \in Event
  /\ journal' = Append(journal, Line(b))

(* What one step does to the journal. *)
LEMMA JournalStep ==
  ASSUME Types, [Next]_vars
  PROVE  UNCHANGED journal \/ \E b \in Brokers : AppendsLine(b)
  <1>1. ASSUME NEW b \in Brokers, broker[b].pc \in Logging,
               Written(Line(b)) \/ PartlyWritten(Line(b))
        PROVE  UNCHANGED journal \/ journal' = Append(journal, Line(b))
    BY <1>1 DEF Written, PartlyWritten
  <1>2. \/ UNCHANGED journal
        \/ \E b \in Brokers : /\ broker[b].pc \in Logging
                              /\ Written(Line(b)) \/ PartlyWritten(Line(b))
    BY DEF Next, vars, Step, Send, LockRequest, Stop, Accept, LogRequest, RejectCall, Decide,
           LogDecision, LogAction, CarryOut, HandlerReturns, LogResult, AppendFails, Crash,
           OrphanCarriesOut, Grant, EditPolicy, Expire, Logging
  <1>3. QED
    BY <1>1, <1>2, LineType DEF AppendsLine

(* What one step does to broker e, if its request is accepted after it. *)
LEMMA BrokerStep ==
  ASSUME Types, [Next]_vars, NEW e \in Brokers, broker'[e].pc \in Accepted
  PROVE  \/ Works(e)
         \/ /\ broker'[e] = broker[e]
            /\ UNCHANGED journal \/ \E b \in Brokers \ {e} : AppendsLine(b)
  <1>1. ASSUME NEW b \in Brokers, NEW q, Become(b, q)
        PROVE  broker'[b] = q /\ (b # e => broker'[e] = broker[e])
    BY <1>1 DEF Become, Types, TypeOK
  <1>2. ASSUME NEW b \in Brokers, Stop(b) \/ LogResult(b) \/ AppendFails(b) \/ Crash(b)
        PROVE  b # e /\ broker'[e] = broker[e]
    <2>1. Become(b, Idle)
      BY <1>2 DEF Stop, LogResult, AppendFails, Crash, Release
    <2>2. Idle.pc \notin Accepted
      BY DEF Idle, Accepted, Logging
    <2>3. QED
      BY <1>1, <2>1, <2>2
  <1>3. ASSUME NEW b \in Brokers, NEW r \in Requests, Send(b, r) \/ LockRequest(b)
        PROVE  b # e /\ broker'[e] = broker[e]
    <2>1. PICK q : Become(b, q) /\ q.pc \in {"lock", "check"}
      <3>1. CASE Send(b, r)
        <4> DEFINE p == [Idle EXCEPT !.pc = "lock", !.request = r, !.rules = policy]
        <4>1. Become(b, p) /\ p.pc = "lock"
          BY <3>1 DEF Send, Idle
        <4> HIDE DEF p
        <4>2. QED
          BY <4>1
      <3>2. CASE LockRequest(b)
        <4>1. broker[b] \in Process
          BY DEF Types, TypeOK
        <4>2. [broker[b] EXCEPT !.pc = "check"].pc = "check"
          BY <4>1 DEF Process
        <4>3. QED
          BY <3>2, <4>2 DEF LockRequest
      <3>3. QED
        BY <1>3, <3>1, <3>2
    <2>2. q.pc \notin Accepted
      BY <2>1 DEF Accepted, Logging
    <2>3. QED
      BY <1>1, <2>1, <2>2
  <1>4. ASSUME NEW b \in Brokers, Works(b)
        PROVE  b # e => broker'[e] = broker[e]
    <2>1. \E q : Become(b, q)
      BY <1>4 DEF Works, Accept, LogRequest, RejectCall, Decide, LogDecision, LogAction,
                  CarryOut, HandlerReturns
    <2>2. QED
      BY <1>1, <2>1
  <1>5. ASSUME NEW b \in Brokers, b # e,
               \/ Works(b)
               \/ Stop(b) \/ LogResult(b) \/ AppendFails(b) \/ Crash(b)
        PROVE  UNCHANGED journal \/ AppendsLine(b)
    <2>1. \/ UNCHANGED journal
          \/ broker[b].pc \in Logging /\ (Written(Line(b)) \/ PartlyWritten(Line(b)))
      BY <1>5 DEF Works, Stop, Accept, LogRequest, RejectCall, Decide, LogDecision, LogAction,
                  CarryOut, HandlerReturns, LogResult, AppendFails, Crash, Logging
    <2>2. QED
      BY <2>1, LineType DEF AppendsLine, Written, PartlyWritten
  <1>6. CASE UNCHANGED <<broker, journal>>
    BY <1>6
  <1>7. CASE \E b \in Brokers, r \in Requests : Send(b, r) \/ LockRequest(b)
    BY <1>3, <1>7 DEF Send, LockRequest
  <1>8. CASE \E b \in Brokers : Works(b) \/ Stop(b) \/ LogResult(b) \/ AppendFails(b) \/ Crash(b)
    BY <1>2, <1>4, <1>5, <1>8
  <1>9. ASSUME NEW b \in Brokers, LockRequest(b)
        PROVE  \E r \in Requests : LockRequest(b)
    BY <1>9 DEF LockRequest, Types, WellFormed
  <1>10. QED
    BY <1>6, <1>7, <1>8, <1>9
    DEF Next, vars, Step, Works, OrphanCarriesOut, Grant, EditPolicy, Expire

-----------------------------------------------------------------------------
(* Terminal results.                                                       *)

(* Whoever works on a request has found its ID open, and it still is. *)
Final ==
  /\ TerminalIsFinal
  /\ \A b \in Brokers : broker[b].pc \in Accepted => ~IsComplete(broker[b].request.id)

(* Every step keeps terminal results final. *)
LEMMA NextFinal == Types /\ Final /\ [Next]_vars => Final'
  <1> SUFFICES ASSUME Types, Final, [Next]_vars PROVE Final'
    OBVIOUS
  <1>1. ASSUME NEW b \in Brokers, AppendsLine(b), NEW i \in Ids
        PROVE  /\ \A k, m \in EventsOf(i)' : IsTerminal(journal'[k]) => m <= k
               /\ IsComplete(i)' =>
                    IsComplete(i) \/ (broker[b].request.id = i /\ broker[b].pc = "result")
    <2> DEFINE n == Len(journal) + 1
    <2>1. /\ Len(journal) \in Nat /\ DOMAIN journal = 1..Len(journal)
          /\ \A k \in DOMAIN journal : journal'[k] = journal[k] /\ k < n
          /\ journal'[n] = Line(b)
          /\ EventsOf(i)' = EventsOf(i) \cup
                            (IF Line(b).request.id = i THEN {n} ELSE {})
      BY <1>1, AppendedLine DEF AppendsLine
    <2>2. Line(b).request = broker[b].request /\ Line(b).event = broker[b].pc
      BY DEF Line
    <2>3. broker[b].request.id = i => ~IsComplete(i)
      BY <1>1 DEF AppendsLine, Final, Accepted
    <2>4. EventsOf(i) \subseteq DOMAIN journal
      BY DEF EventsOf
    <2> HIDE DEF n
    <2>5. ASSUME NEW k \in EventsOf(i)', NEW m \in EventsOf(i)', IsTerminal(journal'[k])
          PROVE  m <= k
      <3>1. CASE k \in EventsOf(i) /\ m \in EventsOf(i)
        BY <2>1, <2>4, <2>5, <3>1 DEF Final, TerminalIsFinal
      <3>2. CASE broker[b].request.id = i
        <4>1. k \notin EventsOf(i)
          BY <2>1, <2>3, <2>4, <2>5, <3>2 DEF IsComplete
        <4>2. k = n
          BY <2>1, <2>5, <4>1
        <4>3. QED
          BY <2>1, <2>4, <2>5, <4>2 DEF n
      <3>3. QED
        BY <2>1, <2>2, <2>5, <3>1, <3>2
    <2>6. ASSUME IsComplete(i)', ~IsComplete(i)
          PROVE  broker[b].request.id = i /\ broker[b].pc = "result"
      <3>1. PICK k \in EventsOf(i)' : IsTerminal(journal'[k])
        BY <2>6 DEF IsComplete
      <3>2. k \notin EventsOf(i)
        BY <2>1, <2>4, <2>6, <3>1 DEF IsComplete
      <3>3. k = n /\ Line(b).request.id = i
        BY <2>1, <3>1, <3>2
      <3>4. QED
        BY <2>1, <2>2, <3>1, <3>3 DEF IsTerminal
    <2>7. QED
      BY <2>5, <2>6
  <1>2. TerminalIsFinal'
    <2>1. CASE UNCHANGED journal
      BY <2>1 DEF Final, TerminalIsFinal, EventsOf
    <2>2. CASE \E b \in Brokers : AppendsLine(b)
      BY <1>1, <2>2 DEF TerminalIsFinal
    <2>3. QED
      BY <2>1, <2>2, JournalStep
  <1>3. ASSUME NEW e \in Brokers, broker'[e].pc \in Accepted
        PROVE  ~IsComplete(broker[e].request.id)'
    <2>1. Types'
      BY NextType
    <2>2. PICK i \in Ids : i = broker'[e].request.id
      BY <1>3, <2>1 DEF Types, WellFormed, Ids, Accepted, Logging
    <2>3. UNCHANGED journal => (IsComplete(i)' <=> IsComplete(i))
      BY DEF IsComplete, EventsOf
    <2>4. CASE Works(e)
      <3>1. broker[e].request.id = i
        BY <2>2, <2>4, WorkKeepsRequest
      <3>2. ~IsComplete(i)
        BY <2>4, <3>1
        DEF Works, Final, Accepted, Logging, Accept, LogRequest, RejectCall, Decide,
            LogDecision, LogAction, CarryOut, HandlerReturns
      <3>3. UNCHANGED journal \/ (AppendsLine(e) /\ broker[e].pc # "result")
        <4>1. CASE LogRequest(e) \/ LogDecision(e) \/ LogAction(e)
          <5>1. Written(Line(e)) /\ broker[e].pc \in Logging \ {"result"}
            BY <4>1 DEF LogRequest, LogDecision, LogAction, Logging
          <5>2. QED
            BY <5>1, LineType DEF Written, AppendsLine
        <4>2. QED
          BY <2>4, <4>1 DEF Works, Accept, RejectCall, Decide, CarryOut, HandlerReturns
      <3>4. ~IsComplete(i)'
        BY <1>1, <2>3, <3>1, <3>2, <3>3
      <3>5. QED
        BY <2>2, <3>4 DEF IsComplete, EventsOf
    <2>5. CASE /\ broker'[e] = broker[e]
               /\ UNCHANGED journal \/ \E b \in Brokers \ {e} : AppendsLine(b)
      <3>1. ~IsComplete(i) /\ broker[e].pc \in Accepted /\ broker[e].request.id = i
        BY <1>3, <2>2, <2>5 DEF Final
      <3>2. ASSUME NEW b \in Brokers \ {e}, AppendsLine(b) PROVE ~IsComplete(i)'
        <4>1. broker[b].request.id # i
          BY <3>1, <3>2, LocksExclude DEF AppendsLine, Accepted
        <4>2. QED
          BY <1>1, <3>1, <3>2, <4>1
      <3>3. ~IsComplete(i)'
        BY <2>3, <2>5, <3>1, <3>2
      <3>4. QED
        BY <2>2, <3>3 DEF IsComplete, EventsOf
    <2>6. QED
      BY <1>3, <2>4, <2>5, BrokerStep
  <1>4. QED
    BY <1>2, <1>3 DEF Final

(* After a terminal result, no event of that request ID enters the journal *)
(* any more, however many brokers receive it at once (request_lock,        *)
(* is_complete).                                                           *)
THEOREM TerminalIsAlwaysFinal == Spec => []TerminalIsFinal
  <1>1. Init => Final
    BY DEF Init, Idle, Final, TerminalIsFinal, EventsOf, IsComplete, Accepted, Logging
  <1>2. Final => TerminalIsFinal
    BY DEF Final
  <1>3. QED
    BY <1>1, <1>2, TypesHold, NextFinal, PTL DEF Spec

-----------------------------------------------------------------------------
(* The order of events.                                                    *)

(* What the last event of its ID is while a broker is in state q. *)
Precedes(e, q) ==
  /\ e.request = q.request
  /\ q.pc \in {"evaluate", "decision"} => e.event = "request"
  /\ q.pc = "action" => e.event = "decision" /\ e.status = "allow"
  /\ q.pc = "run" => e.event = "action"
  /\ q.pc = "result" => \/ e.event = "action"
                        \/ e.event = "decision" /\ e.status # "allow"

LastIs(i, k) == k \in EventsOf(i) /\ \A m \in EventsOf(i) : m <= k

(* A broker that logged its request finds its own event as the last one. *)
Awaits(b) ==
  broker[b].pc \in Accepted \ {"request"} =>
    \E k \in DOMAIN journal : /\ LastIs(broker[b].request.id, k)
                              /\ Precedes(journal[k], broker[b])

Ordered == Readable => JournalIsOrdered /\ \A b \in Brokers : Awaits(b)

(* A journal that cannot be read never can be again. *)
LEMMA DamageStays == [Next]_vars /\ Readable' => Readable
  BY DEF Next, vars, Step, Send, LockRequest, Stop, Accept, LogRequest, RejectCall, Decide,
         LogDecision, LogAction, CarryOut, HandlerReturns, LogResult, AppendFails, Crash,
         OrphanCarriesOut, Grant, EditPolicy, Expire, Readable, Written, PartlyWritten

(* A line of a broker follows what its ID's last event allows. *)
LEMMA OrderStays ==
  ASSUME Types, Ordered, Readable, UNCHANGED journal \/ \E b \in Brokers : AppendsLine(b),
         NEW i \in Ids, NEW k \in EventsOf(i)', journal'[k].event # "request"
  PROVE  \E last \in EventsOf(i)' :
           /\ last < k
           /\ \A m \in EventsOf(i)' : ~(last < m /\ m < k)
           /\ Follows(journal'[last], journal'[k])
  <1>1. CASE UNCHANGED journal
    BY <1>1 DEF Ordered, JournalIsOrdered, EventsOf
  <1>2. ASSUME NEW b \in Brokers, AppendsLine(b)
        PROVE  \E last \in EventsOf(i)' :
                 /\ last < k
                 /\ \A m \in EventsOf(i)' : ~(last < m /\ m < k)
                 /\ Follows(journal'[last], journal'[k])
    <2> DEFINE n == Len(journal) + 1
    <2>1. /\ Len(journal) \in Nat /\ DOMAIN journal = 1..Len(journal)
          /\ \A j \in DOMAIN journal : journal'[j] = journal[j] /\ j < n
          /\ journal'[n] = Line(b)
          /\ EventsOf(i)' = EventsOf(i) \cup
                            (IF Line(b).request.id = i THEN {n} ELSE {})
      BY <1>2, AppendedLine DEF AppendsLine
    <2>2. EventsOf(i) \subseteq DOMAIN journal
      BY DEF EventsOf
    <2> HIDE DEF n
    <2>3. CASE k \in EventsOf(i)
      <3>1. PICK last \in EventsOf(i) :
              /\ last < k
              /\ \A m \in EventsOf(i) : ~(last < m /\ m < k)
              /\ Follows(journal[last], journal[k])
        BY <2>1, <2>2, <2>3 DEF Ordered, JournalIsOrdered
      <3>2. k < n /\ k \in Nat /\ n \in Nat
        BY <2>1, <2>2, <2>3 DEF n
      <3>3. \A m \in EventsOf(i)' : ~(last < m /\ m < k)
        BY <2>1, <3>1, <3>2
      <3>4. journal'[last] = journal[last] /\ journal'[k] = journal[k] /\ last \in EventsOf(i)'
        BY <2>1, <2>2, <2>3
      <3>5. QED
        BY <3>1, <3>3, <3>4
    <2>4. CASE k \notin EventsOf(i)
      <3>1. k = n /\ broker[b].request.id = i /\ journal'[k] = Line(b)
        BY <2>1, <2>4 DEF Line
      <3>2. broker[b].pc \in Logging \ {"request"}
        <4>1. Line(b).event = broker[b].pc
          BY DEF Line
        <4>2. QED
          BY <1>2, <3>1, <4>1 DEF AppendsLine
      <3>3. PICK last \in DOMAIN journal : /\ LastIs(i, last)
                                           /\ Precedes(journal[last], broker[b])
        BY <3>1, <3>2 DEF Ordered, Awaits, Accepted
      <3>4. Follows(journal[last], Line(b))
        BY <3>2, <3>3 DEF Precedes, Follows, Line, Logging
      <3>5. /\ last \in EventsOf(i)' /\ last < k /\ journal'[last] = journal[last]
            /\ last \in Nat /\ n \in Nat
        BY <2>1, <3>1, <3>3 DEF LastIs, n
      <3>6. ASSUME NEW m \in EventsOf(i)' PROVE ~(last < m /\ m < k)
        <4>1. m = n \/ (m \in EventsOf(i) /\ m <= last /\ m \in Nat)
          BY <2>1, <2>2, <3>3 DEF LastIs
        <4>2. QED
          BY <3>1, <3>5, <4>1
      <3>7. QED
        BY <3>1, <3>4, <3>5, <3>6
    <2>5. QED
      BY <2>3, <2>4
  <1>3. QED
    BY <1>1, <1>2

(* What a broker logs, it finds; a step without a line keeps what it found. *)
LEMMA WorkAwaits ==
  ASSUME Types, Ordered, NEW e \in Brokers, Works(e), Readable, Readable'
  PROVE  Awaits(e)'
  <1>0. PICK i : i = broker[e].request.id
    OBVIOUS
  <1>1. /\ broker[e] \in Process /\ e \in DOMAIN broker
        /\ broker'[e].request = broker[e].request
    BY WorkKeepsRequest DEF Types, TypeOK
  <1> SUFFICES ASSUME broker'[e].pc # "request"
               PROVE  \E k \in DOMAIN journal' : /\ LastIs(i, k)'
                                                 /\ Precedes(journal'[k], broker'[e])
    BY <1>0, <1>1 DEF Awaits, LastIs, EventsOf
  <1>2. CASE LogRequest(e) \/ LogDecision(e) \/ LogAction(e)
    <2>0. PICK n : n = Len(journal) + 1
      OBVIOUS
    <2>1. AppendsLine(e)
      BY <1>2, LineType
      DEF AppendsLine, LogRequest, LogDecision, LogAction, Written, Readable, Logging
    <2>2. /\ Len(journal) \in Nat /\ DOMAIN journal = 1..Len(journal)
          /\ DOMAIN journal' = 1..n /\ journal'[n] = Line(e)
          /\ Line(e).request = broker[e].request
          /\ EventsOf(i)' = EventsOf(i) \cup {n} /\ EventsOf(i) \subseteq DOMAIN journal
      <3>1. Line(e).request = broker[e].request
        BY DEF Line
      <3>2. EventsOf(i) \subseteq DOMAIN journal
        BY DEF EventsOf
      <3>3. QED
        BY <1>0, <2>0, <2>1, <3>1, <3>2, AppendedLine DEF AppendsLine
    <2>3. n \in DOMAIN journal' /\ LastIs(i, n)'
      BY <2>0, <2>2 DEF LastIs
    <2>4. Precedes(Line(e), broker'[e])
      <3>1. CASE LogRequest(e)
        BY <1>1, <3>1 DEF LogRequest, Become, Process, Line, Precedes
      <3>2. CASE LogDecision(e)
        BY <1>1, <3>2 DEF LogDecision, Become, Process, Line, Precedes
      <3>3. CASE LogAction(e)
        BY <1>1, <3>3 DEF LogAction, Become, Process, Line, Precedes
      <3>4. QED
        BY <1>2, <3>1, <3>2, <3>3
    <2>5. QED
      BY <2>2, <2>3, <2>4
  <1>3. CASE RejectCall(e) \/ Decide(e) \/ CarryOut(e) \/ HandlerReturns(e)
    <2>1. UNCHANGED journal /\ broker[e].pc \in {"evaluate", "run"}
      BY <1>3 DEF RejectCall, Decide, CarryOut, HandlerReturns
    <2>2. PICK k \in DOMAIN journal : LastIs(i, k) /\ Precedes(journal[k], broker[e])
      BY <1>0, <2>1 DEF Ordered, Awaits, Accepted, Logging
    <2>3. Precedes(journal[k], broker'[e])
      <3>1. CASE RejectCall(e)
        BY <1>1, <2>2, <3>1 DEF RejectCall, Become, Process, Precedes
      <3>2. CASE Decide(e)
        BY <1>1, <2>2, <3>2 DEF Decide, Become, Process, Precedes
      <3>3. CASE CarryOut(e)
        BY <1>1, <2>2, <3>3 DEF CarryOut, Become, Process, Precedes
      <3>4. CASE HandlerReturns(e)
        BY <1>1, <2>2, <3>4 DEF HandlerReturns, Become, Process, Precedes
      <3>5. QED
        BY <1>3, <3>1, <3>2, <3>3, <3>4
    <2>4. LastIs(i, k)' /\ k \in DOMAIN journal' /\ journal'[k] = journal[k]
      BY <2>1, <2>2 DEF LastIs, EventsOf
    <2>5. QED
      BY <2>3, <2>4
  <1>4. CASE Accept(e)
    BY <1>1, <1>4 DEF Accept, Become, Process
  <1>5. QED
    BY <1>2, <1>3, <1>4 DEF Works

(* Every step keeps the order. *)
LEMMA NextOrdered == Types /\ Ordered /\ [Next]_vars => Ordered'
  <1> SUFFICES ASSUME Types, Ordered, [Next]_vars, Readable'
               PROVE  JournalIsOrdered' /\ \A e \in Brokers : Awaits(e)'
    BY DEF Ordered
  <1>1. Readable
    BY DamageStays
  <1>2. JournalIsOrdered'
    BY <1>1, JournalStep, OrderStays DEF JournalIsOrdered
  <1>3. ASSUME NEW e \in Brokers, broker'[e].pc \in Accepted \ {"request"}
        PROVE  Awaits(e)'
    <2>1. CASE Works(e)
      BY <1>1, <2>1, WorkAwaits
    <2>2. CASE /\ broker'[e] = broker[e]
               /\ UNCHANGED journal \/ \E b \in Brokers \ {e} : AppendsLine(b)
      <3>0. PICK i : i = broker[e].request.id
        OBVIOUS
      <3>1. PICK k \in DOMAIN journal : LastIs(i, k) /\ Precedes(journal[k], broker[e])
        BY <1>1, <1>3, <2>2, <3>0 DEF Ordered, Awaits
      <3>2. /\ EventsOf(i)' = EventsOf(i)
            /\ k \in DOMAIN journal' /\ journal'[k] = journal[k]
        <4>1. CASE UNCHANGED journal
          BY <4>1 DEF EventsOf
        <4>2. ASSUME NEW b \in Brokers \ {e}, AppendsLine(b)
              PROVE  /\ EventsOf(i)' = EventsOf(i)
                     /\ k \in DOMAIN journal' /\ journal'[k] = journal[k]
          <5>1. Line(b).request.id # i
            BY <1>3, <2>2, <3>0, <4>2, LocksExclude DEF AppendsLine, Accepted, Line
          <5>2. /\ EventsOf(i)' = EventsOf(i)
                /\ DOMAIN journal \subseteq DOMAIN journal'
                /\ \A j \in DOMAIN journal : journal'[j] = journal[j]
            <6> DEFINE n == Len(journal) + 1
            <6>1. /\ EventsOf(i)' = EventsOf(i) \cup
                                    (IF Line(b).request.id = i THEN {n} ELSE {})
                  /\ \A j \in DOMAIN journal : journal'[j] = journal[j]
                  /\ DOMAIN journal = 1..Len(journal) /\ DOMAIN journal' = 1..n
                  /\ Len(journal) \in Nat
              BY <4>2, AppendedLine DEF AppendsLine
            <6>2. QED
              BY <5>1, <6>1
          <5>3. QED
            BY <5>2
        <4>3. QED
          BY <2>2, <4>1, <4>2
      <3>3. LastIs(i, k)' /\ Precedes(journal'[k], broker'[e])
        BY <2>2, <3>1, <3>2 DEF LastIs
      <3>4. QED
        BY <2>2, <3>0, <3>2, <3>3 DEF Awaits, LastIs, EventsOf
    <2>3. QED
      BY <1>3, <2>1, <2>2, BrokerStep
  <1>4. QED
    BY <1>2, <1>3 DEF Awaits

(* As long as no line was torn, the events of a request ID stand in the    *)
(* documented order, attempt by attempt, and only an allowed request has   *)
(* an action event, whatever brokers race, fail or die (_execute_locked).  *)
THEOREM JournalIsAlwaysOrdered == Spec => []JournalIsOrdered
  <1>1. Init => Ordered
    BY DEF Init, Idle, Ordered, JournalIsOrdered, Awaits, EventsOf, Accepted, Logging
  <1>2. Ordered => JournalIsOrdered
    BY DEF Ordered, JournalIsOrdered
  <1>3. QED
    BY <1>1, <1>2, TypesHold, NextOrdered, PTL DEF Spec

-----------------------------------------------------------------------------
(* Effects and action events.                                              *)

(* The brokers whose provider command for r has not had its effect yet. *)
Running(r) == {b \in Brokers : broker[b].child = "running" /\ broker[b].request = r}

(* Every effect, and every command that may still have one, has an action. *)
Recorded ==
  Readable =>
    \A r \in Requests :
      /\ IsFiniteSet(Running(r))
      /\ effects[r] + orphans[r] + Cardinality(Running(r)) <= Cardinality(ActionsOf(r))

(* The action events of a request can be counted. *)
LEMMA ActionsAreFinite ==
  ASSUME Types, NEW r
  PROVE  IsFiniteSet(ActionsOf(r)) /\ Cardinality(ActionsOf(r)) \in Nat
  <1>1. Len(journal) \in Nat /\ DOMAIN journal = 1..Len(journal)
    BY DEF Types, TypeOK
  <1>2. IsFiniteSet(1..Len(journal))
    BY <1>1, FS_Interval
  <1>3. ActionsOf(r) \in SUBSET (1..Len(journal))
    BY <1>1 DEF ActionsOf
  <1>4. QED
    BY <1>2, <1>3, FS_Subset, FS_CardinalityType

(* Action events are never taken back, and each adds one. *)
LEMMA ActionsGrow ==
  ASSUME Types, [Next]_vars, NEW r \in Requests
  PROVE  /\ Cardinality(ActionsOf(r)) \in Nat /\ Cardinality(ActionsOf(r)') \in Nat
         /\ Cardinality(ActionsOf(r)) <= Cardinality(ActionsOf(r)')
         /\ \A b \in Brokers : AppendsLine(b) /\ broker[b].pc = "action" /\ broker[b].request = r
              => Cardinality(ActionsOf(r)') = Cardinality(ActionsOf(r)) + 1
  <1>1. journal \in Seq(Event) /\ Len(journal) \in Nat /\ DOMAIN journal = 1..Len(journal)
    BY DEF Types, TypeOK
  <1>2. IsFiniteSet(ActionsOf(r)) /\ Cardinality(ActionsOf(r)) \in Nat
    BY ActionsAreFinite
  <1>3. ASSUME NEW b \in Brokers, AppendsLine(b)
        PROVE  Cardinality(ActionsOf(r)') =
                 IF broker[b].pc = "action" /\ broker[b].request = r
                 THEN Cardinality(ActionsOf(r)) + 1 ELSE Cardinality(ActionsOf(r))
    <2> DEFINE n == Len(journal) + 1
    <2>1. /\ DOMAIN journal' = 1..n /\ journal'[n] = Line(b) /\ n \notin DOMAIN journal
          /\ \A k \in DOMAIN journal : journal'[k] = journal[k]
      BY <1>1, <1>3, AppendedLine DEF AppendsLine
    <2>2. Line(b).request = broker[b].request /\ Line(b).event = broker[b].pc
      BY DEF Line
    <2>3. DOMAIN journal' = DOMAIN journal \cup {n}
      BY <1>1, <2>1
    <2> HIDE DEF n
    <2>4. ActionsOf(r)' = IF broker[b].pc = "action" /\ broker[b].request = r
                          THEN ActionsOf(r) \cup {n} ELSE ActionsOf(r)
      BY <2>1, <2>2, <2>3 DEF ActionsOf
    <2>5. n \notin ActionsOf(r)
      BY <2>1 DEF ActionsOf
    <2>6. QED
      BY <1>2, <2>4, <2>5, FS_AddElement
  <1>4. CASE UNCHANGED journal
    <2>1. ActionsOf(r)' = ActionsOf(r)
      BY <1>4 DEF ActionsOf
    <2>2. ~\E b \in Brokers : AppendsLine(b)
      <3>1. ASSUME NEW b \in Brokers, AppendsLine(b) PROVE FALSE
        <4>1. Len(journal') = Len(journal) + 1
          BY <1>1, <3>1 DEF AppendsLine
        <4>2. QED
          BY <1>1, <1>4, <4>1
      <3>2. QED
        BY <3>1
    <2>3. QED
      BY <1>2, <2>1, <2>2
  <1>5. QED
    BY <1>2, <1>3, <1>4, JournalStep

(* A step of one broker changes the running commands by that broker only. *)
LEMMA RunningStep ==
  ASSUME Types, NEW b \in Brokers, NEW q, Become(b, q), NEW r \in Requests,
         IsFiniteSet(Running(r))
  PROVE  /\ IsFiniteSet(Running(r)')
         /\ Cardinality(Running(r)) \in Nat
         /\ Cardinality(Running(r)') =
              Cardinality(Running(r))
                - (IF broker[b].child = "running" /\ broker[b].request = r THEN 1 ELSE 0)
                + (IF q.child = "running" /\ q.request = r THEN 1 ELSE 0)
  <1> DEFINE rest == Running(r) \ {b}
  <1>1. b \in Running(r) <=> broker[b].child = "running" /\ broker[b].request = r
    BY DEF Running
  <1>2. broker'[b] = q /\ \A e \in Brokers \ {b} : broker'[e] = broker[e]
    BY DEF Types, TypeOK, Become
  <1>3. Running(r)' = IF q.child = "running" /\ q.request = r THEN rest \cup {b} ELSE rest
    BY <1>2 DEF Running
  <1>4. /\ IsFiniteSet(rest) /\ Cardinality(Running(r)) \in Nat
        /\ Cardinality(rest) = IF b \in Running(r) THEN Cardinality(Running(r)) - 1
                               ELSE Cardinality(Running(r))
    BY FS_RemoveElement, FS_CardinalityType
  <1>5. b \notin rest /\ Cardinality(rest) \in Nat
    BY <1>4, FS_CardinalityType
  <1> HIDE DEF rest
  <1>6. IsFiniteSet(rest \cup {b}) /\ Cardinality(rest \cup {b}) = Cardinality(rest) + 1
    BY <1>4, <1>5, FS_AddElement
  <1>7. QED
    BY <1>1, <1>3, <1>4, <1>5, <1>6

(* The same, with the count of effects. *)
LEMMA RecordedStep ==
  ASSUME Types, Types', Recorded, Readable, [Next]_vars,
         NEW b \in Brokers, NEW q, Become(b, q), NEW r \in Requests,
         NEW gone \in {0, 1}, NEW new \in {0, 1},
         gone = IF broker[b].child = "running" /\ broker[b].request = r THEN 1 ELSE 0,
         new = IF q.child = "running" /\ q.request = r THEN 1 ELSE 0,
         \/ new <= gone /\ effects'[r] + orphans'[r] + new <= effects[r] + orphans[r] + gone
         \/ /\ effects'[r] + orphans'[r] = effects[r] + orphans[r]
            /\ AppendsLine(b) /\ broker[b].pc = "action" /\ broker[b].request = r
  PROVE  /\ IsFiniteSet(Running(r)')
         /\ effects'[r] + orphans'[r] + Cardinality(Running(r)')
              <= Cardinality(ActionsOf(r)')
  <1>1. /\ effects[r] \in Nat /\ effects'[r] \in Nat /\ orphans[r] \in Nat /\ orphans'[r] \in Nat
    BY DEF Types, TypeOK
  <1>2. /\ IsFiniteSet(Running(r))
        /\ effects[r] + orphans[r] + Cardinality(Running(r)) <= Cardinality(ActionsOf(r))
    BY DEF Recorded
  <1>3. /\ IsFiniteSet(Running(r)') /\ Cardinality(Running(r)) \in Nat
        /\ Cardinality(Running(r)') = Cardinality(Running(r)) - gone + new
    BY <1>2, RunningStep
  <1>4. /\ Cardinality(ActionsOf(r)) \in Nat /\ Cardinality(ActionsOf(r)') \in Nat
        /\ Cardinality(ActionsOf(r)) <= Cardinality(ActionsOf(r)')
        /\ AppendsLine(b) /\ broker[b].pc = "action" /\ broker[b].request = r
              => Cardinality(ActionsOf(r)') = Cardinality(ActionsOf(r)) + 1
    BY ActionsGrow
  <1>5. QED
    BY <1>1, <1>2, <1>3, <1>4

(* Every step keeps effects on record. *)
LEMMA NextRecorded == Types /\ Recorded /\ [Next]_vars => Recorded'
  <1> SUFFICES ASSUME Types, Recorded, [Next]_vars, Readable', NEW r \in Requests
               PROVE  /\ IsFiniteSet(Running(r)')
                      /\ effects'[r] + orphans'[r] + Cardinality(Running(r)')
                           <= Cardinality(ActionsOf(r)')
    BY DEF Recorded
  <1> DEFINE Goal == /\ IsFiniteSet(Running(r)')
                     /\ effects'[r] + orphans'[r] + Cardinality(Running(r)')
                          <= Cardinality(ActionsOf(r)')
             Counts(q) == IF q.child = "running" /\ q.request = r THEN 1 ELSE 0
  <1>1. Types' /\ Readable
    BY NextType, DamageStays
  <1>2. /\ effects \in [Requests -> Nat] /\ orphans \in [Requests -> Nat]
        /\ effects[r] \in Nat /\ orphans[r] \in Nat
    BY DEF Types, TypeOK
  <1>3. ASSUME NEW b \in Brokers, NEW q, Become(b, q),
               \/ /\ Counts(q) <= Counts(broker[b])
                  /\ effects'[r] + orphans'[r] + Counts(q)
                       <= effects[r] + orphans[r] + Counts(broker[b])
               \/ /\ effects'[r] + orphans'[r] = effects[r] + orphans[r]
                  /\ AppendsLine(b) /\ broker[b].pc = "action" /\ broker[b].request = r
        PROVE  Goal
    <2>1. Counts(q) \in {0, 1} /\ Counts(broker[b]) \in {0, 1}
      OBVIOUS
    <2>2. QED
      BY <1>1, <1>3, <2>1, RecordedStep
  <1>4. ASSUME NEW b \in Brokers, broker[b].pc # "run"
        PROVE  Counts(broker[b]) = 0 /\ broker[b] \in Process
    BY <1>4 DEF Types, TypeOK, WellFormed
  <1>5. Counts(Idle) = 0
    BY DEF Idle
  <1> HIDE DEF Goal
  <1>6. ASSUME NEW b \in Brokers, Stop(b) \/ LogResult(b) \/ AppendFails(b) PROVE Goal
    <2>1. Become(b, Idle) /\ broker[b].pc # "run" /\ UNCHANGED <<effects, orphans>>
      BY <1>6 DEF Stop, LogResult, AppendFails, Release, Logging
    <2>2. QED
      BY <1>2, <1>3, <1>4, <1>5, <2>1
  <1>7. ASSUME NEW b \in Brokers, Crash(b) PROVE Goal
    <2>1. /\ Become(b, Idle) /\ UNCHANGED effects
          /\ orphans' = IF broker[b].child = "running"
                        THEN [orphans EXCEPT ![broker[b].request] = @ + 1] ELSE orphans
      BY <1>7 DEF Crash, Release
    <2>2. orphans'[r] = orphans[r] + Counts(broker[b])
      BY <1>2, <2>1
    <2>3. QED
      BY <1>2, <1>3, <1>5, <2>1, <2>2
  <1>8. ASSUME NEW b \in Brokers, NEW s \in Requests, Send(b, s) PROVE Goal
    <2> DEFINE q == [Idle EXCEPT !.pc = "lock", !.request = s, !.rules = policy]
    <2>1. Become(b, q) /\ broker[b].pc # "run" /\ UNCHANGED <<effects, orphans>>
      BY <1>8 DEF Send
    <2>2. q.child = "none"
      BY DEF Idle
    <2> HIDE DEF q
    <2>3. Counts(q) = 0
      BY <2>2
    <2>4. QED
      BY <1>2, <1>3, <1>4, <2>1, <2>3
  <1>9. ASSUME NEW b \in Brokers, LockRequest(b) \/ Accept(b) \/ LogRequest(b)
                 \/ RejectCall(b) \/ Decide(b) \/ LogDecision(b)
        PROVE  Goal
    <2>1. broker[b].pc # "run" /\ UNCHANGED <<effects, orphans>>
      BY <1>9 DEF LockRequest, Accept, LogRequest, RejectCall, Decide, LogDecision
    <2>2. broker[b] \in Process /\ broker[b].child = "none"
      BY <1>4, <2>1 DEF Types, WellFormed
    <2>3. PICK q : Become(b, q) /\ q.child = "none"
      <3>1. CASE LockRequest(b) \/ Accept(b) \/ LogRequest(b)
        BY <2>2, <3>1 DEF LockRequest, Accept, LogRequest, Process
      <3>2. CASE LogDecision(b)
        BY <2>2, <3>2 DEF LogDecision, Process
      <3>3. CASE RejectCall(b)
        <4> DEFINE q == [broker[b] EXCEPT !.pc = "decision", !.outcome = "deny",
                                          !.status = "error"]
        <4>1. Become(b, q) /\ q.child = "none"
          BY <2>2, <3>3 DEF RejectCall, Process
        <4> HIDE DEF q
        <4>2. QED
          BY <4>1
      <3>4. CASE Decide(b)
        <4> DEFINE o == Outcome(broker[b].rules, broker[b].request)
                   q == [broker[b] EXCEPT !.pc = "decision", !.outcome = o,
                                          !.status = StatusOf[o]]
        <4>1. Become(b, q)
          BY <3>4 DEF Decide
        <4> HIDE DEF o
        <4>2. q.child = "none"
          BY <2>2 DEF Process
        <4> HIDE DEF q
        <4>3. QED
          BY <4>1, <4>2
      <3>5. QED
        BY <1>9, <3>1, <3>2, <3>3, <3>4
    <2>4. Counts(q) = 0 /\ Counts(broker[b]) = 0
      BY <1>4, <2>1, <2>3
    <2>5. QED
      BY <1>2, <1>3, <2>1, <2>3, <2>4
  <1>10. ASSUME NEW b \in Brokers, LogAction(b) PROVE Goal
    <2> DEFINE q == [broker[b] EXCEPT !.pc = "run", !.child = "running"]
    <2>1. Become(b, q) /\ broker[b].pc = "action" /\ UNCHANGED <<effects, orphans>>
      BY <1>10 DEF LogAction
    <2>2. AppendsLine(b)
      BY <1>1, <1>10, LineType DEF LogAction, Written, Readable, AppendsLine, Logging
    <2>3. q.request = broker[b].request
      BY <1>4, <2>1 DEF Process
    <2> HIDE DEF q
    <2>4. CASE broker[b].request = r
      BY <1>2, <1>3, <2>1, <2>2, <2>4
    <2>5. CASE broker[b].request # r
      <3>1. Counts(q) = 0 /\ Counts(broker[b]) = 0
        BY <2>3, <2>5
      <3>2. QED
        BY <1>2, <1>3, <2>1, <3>1
    <2>6. QED
      BY <2>4, <2>5
  <1>11. ASSUME NEW b \in Brokers, CarryOut(b) PROVE Goal
    <2> DEFINE q == [broker[b] EXCEPT !.child = "done"]
    <2>1. /\ Become(b, q) /\ broker[b].child = "running" /\ UNCHANGED orphans
          /\ effects' = [effects EXCEPT ![broker[b].request] = @ + 1]
      BY <1>11 DEF CarryOut
    <2>2. q.child = "done"
      BY DEF Types, TypeOK, Process
    <2> HIDE DEF q
    <2>3. Counts(q) = 0 /\ effects'[r] = effects[r] + Counts(broker[b])
      BY <1>2, <2>1, <2>2
    <2>4. QED
      BY <1>2, <1>3, <2>1, <2>3
  <1>12. ASSUME NEW b \in Brokers, HandlerReturns(b) PROVE Goal
    <2>1. PICK s \in {"ok", "error"} :
            Become(b, [broker[b] EXCEPT !.pc = "result", !.status = s, !.child = "none"])
      BY <1>12 DEF HandlerReturns
    <2> DEFINE q == [broker[b] EXCEPT !.pc = "result", !.status = s, !.child = "none"]
    <2>2. Become(b, q) /\ UNCHANGED <<effects, orphans>>
      BY <1>12, <2>1 DEF HandlerReturns
    <2>3. q.child = "none"
      BY DEF Types, TypeOK, Process
    <2> HIDE DEF q
    <2>4. Counts(q) = 0 /\ Counts(broker[b]) \in {0, 1}
      BY <2>3
    <2>5. QED
      BY <1>2, <1>3, <2>2, <2>4
  <1>13. ASSUME UNCHANGED broker, effects'[r] + orphans'[r] = effects[r] + orphans[r]
         PROVE  Goal
    <2>1. /\ IsFiniteSet(Running(r))
          /\ effects[r] + orphans[r] + Cardinality(Running(r)) <= Cardinality(ActionsOf(r))
      BY <1>1 DEF Recorded
    <2>2. Running(r)' = Running(r)
      BY <1>13 DEF Running
    <2>3. /\ Cardinality(ActionsOf(r)) \in Nat /\ Cardinality(ActionsOf(r)') \in Nat
          /\ Cardinality(ActionsOf(r)) <= Cardinality(ActionsOf(r)')
      BY ActionsGrow
    <2>4. Cardinality(Running(r)) \in Nat
      BY <2>1, FS_CardinalityType
    <2>5. QED
      BY <1>2, <1>13, <2>1, <2>2, <2>3, <2>4 DEF Goal
  <1>14. ASSUME NEW s \in Requests, OrphanCarriesOut(s) PROVE Goal
    <2>1. UNCHANGED broker /\ effects'[r] + orphans'[r] = effects[r] + orphans[r]
      BY <1>2, <1>14 DEF OrphanCarriesOut
    <2>2. QED
      BY <1>13, <2>1
  <1>15. ASSUME UNCHANGED <<broker, effects, orphans>> PROVE Goal
    BY <1>13, <1>15
  <1>16. Goal
    BY <1>6, <1>7, <1>8, <1>9, <1>10, <1>11, <1>12, <1>14, <1>15
    DEF Next, vars, Step, Grant, EditPolicy, Expire
  <1>17. QED
    BY <1>16 DEF Goal

(* Every effect of a provider has an action event of its own, written      *)
(* before it: no crash, retry or orphaned provider command leaves an       *)
(* effect that the journal does not tell (_execute_locked).                *)
THEOREM EveryEffectIsAlwaysRecorded == Spec => []EveryEffectIsRecorded
  <1>1. Init => Recorded
    <2> SUFFICES ASSUME Init, NEW r \in Requests
                 PROVE  /\ IsFiniteSet(Running(r))
                        /\ effects[r] + orphans[r] + Cardinality(Running(r))
                             <= Cardinality(ActionsOf(r))
      BY DEF Recorded
    <2>1. Running(r) = {} /\ ActionsOf(r) = {} /\ effects[r] = 0 /\ orphans[r] = 0
      BY DEF Init, Idle, Running, ActionsOf
    <2>2. QED
      BY <2>1, FS_EmptySet
  <1>2. Types /\ Recorded => EveryEffectIsRecorded
    <2> SUFFICES ASSUME Types, Recorded, Readable, NEW r \in Requests
                 PROVE  effects[r] <= Cardinality(ActionsOf(r))
      BY DEF EveryEffectIsRecorded
    <2>1. /\ IsFiniteSet(Running(r)) /\ effects[r] \in Nat /\ orphans[r] \in Nat
          /\ effects[r] + orphans[r] + Cardinality(Running(r)) <= Cardinality(ActionsOf(r))
      BY DEF Recorded, Types, TypeOK
    <2>2. Cardinality(Running(r)) \in Nat
      BY <2>1, FS_CardinalityType
    <2>3. Cardinality(ActionsOf(r)) \in Nat
      BY ActionsAreFinite
    <2>4. QED
      BY <2>1, <2>2, <2>3
  <1>3. QED
    BY <1>1, <1>2, TypesHold, NextRecorded, PTL DEF Spec

-----------------------------------------------------------------------------
(* Replay.                                                                 *)

(* A broker that has its provider's answer, or the effect before it. *)
Answered(q) ==
  /\ q.pc \in Accepted
  /\ q.child = "done" \/ (q.pc = "result" /\ q.status \in {"ok", "error"})

(* Somebody carried the request ID out: it is complete, or its lock held. *)
Carried(i) ==
  \/ IsComplete(i)
  \/ \E b \in Brokers : broker[b].request.id = i /\ Answered(broker[b])

Once ==
  trouble = 0 =>
    /\ damage = "none"
    /\ \A r \in Requests :
         /\ orphans[r] = 0
         /\ effects[r] > 0 =>
              /\ effects[r] = 1 /\ Carried(r.id)
              /\ \A s \in Requests : s.id = r.id /\ effects[s] > 0 => s = r

(* Complete request IDs stay complete. *)
LEMMA CompleteStays ==
  ASSUME Types, [Next]_vars, NEW i, IsComplete(i)
  PROVE  IsComplete(i)'
  <1>1. PICK k \in EventsOf(i) : IsTerminal(journal[k])
    BY DEF IsComplete
  <1>2. k \in EventsOf(i)' /\ journal'[k] = journal[k]
    <2>1. CASE UNCHANGED journal
      BY <2>1 DEF EventsOf
    <2>2. ASSUME NEW b \in Brokers, AppendsLine(b)
          PROVE  k \in EventsOf(i)' /\ journal'[k] = journal[k]
      <3>1. /\ EventsOf(i) \subseteq EventsOf(i)'
            /\ \A j \in DOMAIN journal : journal'[j] = journal[j]
        BY <2>2, AppendedLine DEF AppendsLine
      <3>2. QED
        BY <3>1 DEF EventsOf
    <2>3. QED
      BY <2>1, <2>2, JournalStep
  <1>3. QED
    BY <1>1, <1>2 DEF IsComplete

(* Undisturbed, a broker that has its answer logs it before it ends. *)
LEMMA CarriedStays ==
  ASSUME Types, [Next]_vars, trouble = 0, trouble' = 0, damage = "none",
         NEW i, Carried(i)
  PROVE  Carried(i)'
  <1>1. CASE IsComplete(i)
    BY <1>1, CompleteStays DEF Carried
  <1>2. ASSUME NEW e \in Brokers, broker[e].request.id = i, Answered(broker[e])
        PROVE  Carried(i)'
    <2>1. broker[e] \in Process /\ WellFormed(broker[e]) /\ e \in DOMAIN broker
      BY DEF Types, TypeOK
    <2>2. ASSUME broker'[e] = broker[e] PROVE Carried(i)'
      BY <1>2, <2>2 DEF Carried
    <2>3. ASSUME NEW b \in Brokers, NEW q, Become(b, q), b # e PROVE Carried(i)'
      <3>1. broker'[e] = broker[e]
        BY <2>1, <2>3 DEF Become
      <3>2. QED
        BY <2>2, <3>1
    <2>4. ASSUME NEW b \in Brokers, b # e,
                 \/ \E r \in Requests : Send(b, r)
                 \/ LockRequest(b) \/ Stop(b) \/ LogResult(b) \/ Works(b)
          PROVE  Carried(i)'
      <3>1. \E q : Become(b, q)
        BY <2>4 DEF Send, LockRequest, Stop, LogResult, Release, Works, Accept, LogRequest,
                    RejectCall, Decide, LogDecision, LogAction, CarryOut, HandlerReturns
      <3>2. QED
        BY <2>3, <2>4, <3>1
    <2>5. CASE HandlerReturns(e)
      <3>1. PICK s \in {"ok", "error"} :
              Become(e, [broker[e] EXCEPT !.pc = "result", !.status = s, !.child = "none"])
        BY <2>5 DEF HandlerReturns
      <3> DEFINE q == [broker[e] EXCEPT !.pc = "result", !.status = s, !.child = "none"]
      <3>2. broker'[e] = q
        BY <2>1, <3>1 DEF Become
      <3>3. q.pc = "result" /\ q.status = s /\ q.request = broker[e].request
        BY <2>1 DEF Process
      <3> HIDE DEF q
      <3>4. Answered(broker'[e]) /\ broker'[e].request.id = i
        BY <1>2, <3>2, <3>3 DEF Answered, Accepted, Logging
      <3>5. QED
        BY <3>4 DEF Carried
    <2>6. CASE LogResult(e)
      <3>1. /\ AppendsLine(e) /\ broker[e].pc = "result"
            /\ broker[e].status \in {"ok", "error"}
        <4>1. broker[e].pc = "result" /\ Written(Line(e))
          BY <2>6 DEF LogResult
        <4>2. broker[e].status \in {"ok", "error"}
          BY <1>2, <2>1, <4>1 DEF Answered, WellFormed
        <4>3. QED
          BY <4>1, <4>2, LineType DEF AppendsLine, Written, Logging
      <3>2. PICK n : n = Len(journal) + 1
        OBVIOUS
      <3>3. Line(e).request = broker[e].request /\ IsTerminal(Line(e))
        BY <3>1 DEF Line, IsTerminal, Terminal
      <3>4. n \in EventsOf(i)' /\ journal'[n] = Line(e)
        BY <1>2, <3>1, <3>2, <3>3, AppendedLine DEF AppendsLine
      <3>5. QED
        BY <3>3, <3>4 DEF Carried, IsComplete
    <2>7. ~LockRequest(e) /\ ~Stop(e) /\ \A r \in Requests : ~Send(e, r)
      BY <1>2 DEF Answered, Accepted, Logging, LockRequest, Stop, Send
    <2>8. ~Works(e) \/ HandlerReturns(e)
      BY <1>2, <2>1 DEF Answered, WellFormed, Works, Accept, LogRequest, RejectCall, Decide,
                        LogDecision, LogAction, CarryOut
    <2>9. \A b \in Brokers : ~AppendFails(b) /\ ~Crash(b)
      BY DEF AppendFails, Crash, Trouble
    <2>10. CASE UNCHANGED broker
      BY <2>2, <2>10
    <2>11. QED
      BY <2>4, <2>5, <2>6, <2>7, <2>8, <2>9, <2>10
      DEF Next, vars, Step, Works, OrphanCarriesOut, Grant, EditPolicy, Expire
  <1>3. QED
    BY <1>1, <1>2 DEF Carried

(* Undisturbed steps carry no request ID out twice. *)
LEMMA NextOnce == Types /\ Final /\ Once /\ [Next]_vars => Once'
  <1> SUFFICES ASSUME Types, Final, Once, [Next]_vars, trouble' = 0
               PROVE  /\ damage' = "none"
                      /\ \A r \in Requests :
                           /\ orphans'[r] = 0
                           /\ effects'[r] > 0 =>
                                /\ effects'[r] = 1 /\ Carried(r.id)'
                                /\ \A s \in Requests : s.id = r.id /\ effects'[s] > 0 => s = r
    BY DEF Once
  <1>1. trouble \in Nat
    BY BrokerConstantsAssumption DEF Types, TypeOK
  <1>2. \A b \in Brokers : ~AppendFails(b) /\ ~Crash(b)
    BY <1>1 DEF AppendFails, Crash, Trouble
  <1>3. trouble = 0
    BY <1>2 DEF Next, vars, Step, Send, LockRequest, Stop, Accept, LogRequest, RejectCall,
                Decide, LogDecision, LogAction, CarryOut, HandlerReturns, LogResult,
                OrphanCarriesOut, Grant, EditPolicy, Expire
  <1>4. /\ damage = "none"
        /\ \A r \in Requests :
             /\ orphans[r] = 0
             /\ effects[r] > 0 =>
                  /\ effects[r] = 1 /\ Carried(r.id)
                  /\ \A s \in Requests : s.id = r.id /\ effects[s] > 0 => s = r
    BY <1>3 DEF Once
  <1>5. effects \in [Requests -> Nat] /\ orphans \in [Requests -> Nat]
    BY DEF Types, TypeOK
  <1>6. \A r \in Requests : ~OrphanCarriesOut(r)
    BY <1>4 DEF OrphanCarriesOut
  <1>7. damage' = "none" /\ UNCHANGED orphans
    BY <1>2, <1>4, <1>6 DEF Next, vars, Step, Send, LockRequest, Stop, Accept, LogRequest,
                RejectCall, Decide, LogDecision, LogAction, CarryOut, HandlerReturns, LogResult,
                Grant, EditPolicy, Expire, Written
  <1>8. \A r \in Requests : Carried(r.id) => Carried(r.id)'
    BY <1>3, <1>4, CarriedStays
  <1>9. CASE UNCHANGED effects
    BY <1>4, <1>7, <1>8, <1>9
  <1>10. ASSUME NEW b \in Brokers, CarryOut(b)
         PROVE  \A r \in Requests :
                  effects'[r] > 0 =>
                    /\ effects'[r] = 1 /\ Carried(r.id)'
                    /\ \A s \in Requests : s.id = r.id /\ effects'[s] > 0 => s = r
    <2> DEFINE q == broker[b].request
    <2>1. /\ broker[b].pc = "run" /\ broker[b].child = "running" /\ q \in Requests
          /\ effects' = [effects EXCEPT ![q] = @ + 1]
          /\ broker[b] \in Process /\ b \in DOMAIN broker
      BY <1>10 DEF CarryOut, Types, TypeOK, WellFormed
    <2>2. ~Carried(q.id)
      <3>1. ~IsComplete(q.id)
        BY <2>1 DEF Final, Accepted
      <3>2. ~Answered(broker[b])
        BY <2>1 DEF Answered
      <3>3. ASSUME NEW e \in Brokers, broker[e].request.id = q.id, Answered(broker[e])
            PROVE  FALSE
        <4>1. e = b
          BY <2>1, <3>3, LocksExclude DEF Answered, Accepted
        <4>2. QED
          BY <3>2, <3>3, <4>1
      <3>4. QED
        BY <3>1, <3>3 DEF Carried
    <2>3. \A s \in Requests : s.id = q.id => effects[s] = 0
      BY <1>4, <1>5, <2>2
    <2>4. PICK i : i = q.id
      OBVIOUS
    <2>5. Carried(i)'
      <3> DEFINE p == [broker[b] EXCEPT !.child = "done"]
      <3>1. broker'[b] = p
        BY <1>10, <2>1 DEF CarryOut, Become
      <3>2. p.child = "done" /\ p.pc = "run" /\ p.request = q
        BY <2>1 DEF Process
      <3> HIDE DEF p
      <3>3. Answered(broker'[b]) /\ broker'[b].request.id = i
        BY <2>4, <3>1, <3>2 DEF Answered, Accepted
      <3>4. QED
        BY <3>3 DEF Carried
    <2> HIDE DEF q
    <2>6. ASSUME NEW r \in Requests, effects'[r] > 0
          PROVE  /\ effects'[r] = 1 /\ Carried(r.id)'
                 /\ \A s \in Requests : s.id = r.id /\ effects'[s] > 0 => s = r
      <3>1. CASE r.id = q.id
        <4>1. \A s \in Requests : s.id = q.id => effects'[s] = IF s = q THEN 1 ELSE 0
          BY <1>5, <2>1, <2>3
        <4>2. r = q /\ effects'[r] = 1
          BY <2>6, <3>1, <4>1
        <4>3. r.id = i
          BY <2>4, <4>2
        <4>4. Carried(r.id)'
          BY <2>5, <4>3
        <4>5. QED
          BY <2>1, <4>1, <4>2, <4>4
      <3>2. CASE r.id # q.id
        <4>1. \A s \in Requests : s.id = r.id => effects'[s] = effects[s]
          BY <1>5, <2>1, <3>2
        <4>2. QED
          BY <1>4, <1>8, <2>6, <4>1
      <3>3. QED
        BY <3>1, <3>2
    <2>7. QED
      BY <2>6
  <1>11. CASE \E b \in Brokers : CarryOut(b)
    BY <1>4, <1>7, <1>10, <1>11
  <1>12. QED
    BY <1>2, <1>6, <1>9, <1>11
    DEF Next, vars, Step, Send, LockRequest, Stop, Accept, LogRequest, RejectCall, Decide,
        LogDecision, LogAction, HandlerReturns, LogResult, Grant, EditPolicy, Expire

(* As long as nobody is killed and no append fails, no request ID is       *)
(* carried out twice, by retries or by brokers that receive it at once     *)
(* (request_lock, is_complete).                                            *)
THEOREM NoReplayWhileUndisturbed == Spec => []NoReplayUndisturbed
  <1>1. Init => Once
    BY DEF Init, Once
  <1>2. Types /\ Once => NoReplayUndisturbed
    <2> SUFFICES ASSUME Types, Once, trouble = 0, NEW i \in Ids
                 PROVE  /\ Cardinality(RunsOf(i)) <= 1
                        /\ \A r \in RunsOf(i) : effects[r] = 1
      BY DEF NoReplayUndisturbed, NoReplay
    <2>1. \A r \in RunsOf(i) : effects[r] = 1
      BY DEF Once, RunsOf
    <2>2. RunsOf(i) = {} \/ \E r : RunsOf(i) = {r}
      BY DEF Once, RunsOf
    <2>3. QED
      <3>1. \A r : Cardinality({r}) = 1
        BY FS_Singleton
      <3>2. Cardinality({}) = 0
        BY FS_EmptySet
      <3>3. Cardinality(RunsOf(i)) \in {0, 1}
        BY <2>2, <3>1, <3>2, Zenon
      <3>4. QED
        BY <2>1, <3>3
  <1>3. Init => Final
    BY DEF Init, Idle, Final, TerminalIsFinal, EventsOf, IsComplete, Accepted, Logging
  <1>4. QED
    BY <1>1, <1>2, <1>3, TypesHold, NextFinal, NextOnce, PTL DEF Spec
-----------------------------------------------------------------------------
(* What a replay costs.                                                    *)

(* The times that requests with ID i were, or are still going to be,       *)
(* carried out without a broker that waits for the provider.               *)
Started(i) ==
  {run \in Requests \X (Nat \ {0}) :
     run[1].id = i /\ run[2] <= effects[run[1]] + orphans[run[1]]}

EffectsOf(i) ==
  {run \in Requests \X (Nat \ {0}) : run[1].id = i /\ run[2] <= effects[run[1]]}

(* The broker in state q had the effect of its request, or gave it up. *)
Spent(q) == q.child = "done" \/ (q.pc = "result" /\ q.outcome = "allow")

WorksOn(b, i) == broker[b].pc \in Accepted /\ broker[b].request.id = i

Bound(i, n) == IsFiniteSet(Started(i)) /\ Cardinality(Started(i)) <= n

(* One run is free, each other one was paid for by a failure or a death.   *)
(* Where a run may still begin, the free one is not taken.                 *)
PaidFor(i) ==
  /\ Bound(i, trouble + 1)
  /\ \A b \in Brokers : WorksOn(b, i) /\ ~Spent(broker[b]) => Bound(i, trouble)
  /\ \/ ~Readable \/ IsComplete(i)
     \/ \E b \in Brokers : WorksOn(b, i) /\ Spent(broker[b])
     \/ Bound(i, trouble)

Paid ==
  /\ \A b \in Brokers :
       broker[b].pc = "result" /\ broker[b].outcome = "allow" =>
         broker[b].status \in {"ok", "error"}
  /\ \A i \in Ids : PaidFor(i)

(* A bound stays one, and a larger one is one too. *)
LEMMA BoundStays ==
  ASSUME NEW i, NEW n \in Nat, NEW m \in Nat, n <= m, Bound(i, n),
         \A s \in Requests : effects'[s] + orphans'[s] = effects[s] + orphans[s] \/ s.id # i
  PROVE  Bound(i, m)'
  <1>1. Started(i)' = Started(i)
    <2>1. \A x \in Requests \X (Nat \ {0}) : x \in Started(i)' <=> x \in Started(i)
      BY DEF Started
    <2>2. /\ Started(i) \subseteq Requests \X (Nat \ {0})
          /\ Started(i)' \subseteq Requests \X (Nat \ {0})
      BY DEF Started
    <2>3. QED
      BY <2>1, <2>2
  <1>2. Cardinality(Started(i)) \in Nat
    BY FS_CardinalityType DEF Bound
  <1>3. QED
    BY <1>1, <1>2 DEF Bound

(* One more run of r raises the bound of its ID by one, and of no other. *)
LEMMA BoundGrows ==
  ASSUME Types, NEW i \in Ids, NEW n \in Nat, Bound(i, n), NEW r \in Requests,
         \A s \in Requests : effects'[s] + orphans'[s] =
                               effects[s] + orphans[s] + IF s = r THEN 1 ELSE 0
  PROVE  Bound(i, n + 1)' /\ (r.id # i => Bound(i, n)')
  <1> DEFINE run == <<r, effects[r] + orphans[r] + 1>>
  <1>1. \A s \in Requests : effects[s] \in Nat /\ orphans[s] \in Nat
    BY DEF Types, TypeOK
  <1>2. run \in Requests \X (Nat \ {0}) /\ run \notin Started(i)
    BY <1>1 DEF Started
  <1>3. Started(i)' = IF r.id = i THEN Started(i) \cup {run} ELSE Started(i)
    <2>1. ASSUME NEW s \in Requests, NEW k \in Nat \ {0}
          PROVE  k <= effects'[s] + orphans'[s]
                   <=> \/ k <= effects[s] + orphans[s]
                       \/ s = r /\ k = effects[r] + orphans[r] + 1
      BY <1>1
    <2>2. \A x \in Requests \X (Nat \ {0}) :
            x \in Started(i)' <=> x \in Started(i) \/ (r.id = i /\ x = run)
      BY <2>1 DEF Started
    <2>3. Started(i) \subseteq Requests \X (Nat \ {0}) /\ Started(i)' \subseteq Requests \X (Nat \ {0})
      BY DEF Started
    <2> HIDE DEF run
    <2>4. QED
      BY <1>2, <2>2, <2>3
  <1> HIDE DEF run
  <1>4. /\ IsFiniteSet(Started(i)) /\ Cardinality(Started(i)) \in Nat
        /\ Cardinality(Started(i)) <= n
    BY FS_CardinalityType DEF Bound
  <1>5. /\ IsFiniteSet(Started(i) \cup {run})
        /\ Cardinality(Started(i) \cup {run}) = Cardinality(Started(i)) + 1
    BY <1>2, <1>4, FS_AddElement
  <1>6. QED
    BY <1>3, <1>4, <1>5 DEF Bound

(* Where a run may still begin, nothing more is to show. *)
LEMMA PaidWhole ==
  ASSUME Types', NEW i \in Ids, Bound(i, trouble)'
  PROVE  PaidFor(i)'
  <1>1. Cardinality(Started(i)') \in Nat /\ trouble' \in Nat
    BY FS_CardinalityType, BrokerConstantsAssumption DEF Bound, Types, TypeOK
  <1>2. Bound(i, trouble + 1)'
    BY <1>1 DEF Bound
  <1>3. QED
    BY <1>2 DEF PaidFor

(* What goes wrong is counted, and never uncounted. *)
LEMMA TroubleGrows ==
  ASSUME Types, [Next]_vars
  PROVE  \E n \in Nat, m \in Nat :
           /\ n = trouble /\ m = trouble' /\ n <= m
           /\ n + 1 \in Nat /\ m + 1 \in Nat /\ n + 1 <= m + 1
  <1>1. trouble' = trouble \/ trouble' = trouble + 1
    BY DEF Next, vars, Step, Send, LockRequest, Stop, Accept, LogRequest, RejectCall, Decide,
           LogDecision, LogAction, CarryOut, HandlerReturns, LogResult, AppendFails, Crash,
           Trouble, OrphanCarriesOut, Grant, EditPolicy, Expire
  <1>2. trouble \in Nat
    BY BrokerConstantsAssumption DEF Types, TypeOK
  <1>3. trouble' \in Nat /\ trouble <= trouble' /\ trouble + 1 <= trouble' + 1
    BY <1>1, <1>2
  <1>4. QED
    BY <1>2, <1>3

(* Steps after which the same brokers work on request ID i, as far as they *)
(* were, and nothing else of it was carried out.                           *)
LEMMA PaidStays ==
  ASSUME Types, [Next]_vars, NEW i \in Ids, PaidFor(i),
         \A s \in Requests : effects'[s] + orphans'[s] = effects[s] + orphans[s] \/ s.id # i,
         \A b \in Brokers : WorksOn(b, i)' \/ WorksOn(b, i) =>
           /\ WorksOn(b, i)' /\ WorksOn(b, i)
           /\ Spent(broker'[b]) <=> Spent(broker[b])
  PROVE  PaidFor(i)'
  <1>1. PICK n \in Nat, m \in Nat : /\ n = trouble /\ m = trouble' /\ n <= m
                                   /\ n + 1 \in Nat /\ m + 1 \in Nat /\ n + 1 <= m + 1
    BY TroubleGrows
  <1>2. \A k \in Nat : \A l \in Nat : k <= l /\ Bound(i, k) => Bound(i, l)'
    BY BoundStays
  <1>3. Bound(i, trouble + 1)' /\ (Bound(i, trouble) => Bound(i, trouble)')
    <2>1. Bound(i, trouble + 1)
      BY DEF PaidFor
    <2>2. Bound(i, n + 1)
      BY <1>1, <2>1
    <2>3. Bound(i, m + 1)' /\ (Bound(i, n) => Bound(i, m)')
      BY <1>1, <1>2, <2>2
    <2>4. QED
      BY <1>1, <2>3 DEF Bound
  <1>4. Readable' => Readable
    BY DamageStays
  <1>5. IsComplete(i) => IsComplete(i)'
    BY CompleteStays
  <1>6. QED
    BY <1>3, <1>4, <1>5 DEF PaidFor

(* A step of a broker leaves the request IDs of the others alone. *)
LEMMA OtherWork ==
  ASSUME Types, NEW b \in Brokers, NEW q, Become(b, q), NEW i,
         ~WorksOn(b, i), q.pc \in Accepted => q.request.id # i
  PROVE  \A e \in Brokers : WorksOn(e, i)' \/ WorksOn(e, i) =>
           /\ WorksOn(e, i)' /\ WorksOn(e, i)
           /\ Spent(broker'[e]) <=> Spent(broker[e])
  <1>1. broker'[b] = q /\ \A e \in Brokers \ {b} : broker'[e] = broker[e]
    BY DEF Become, Types, TypeOK
  <1>2. ~WorksOn(b, i)'
    BY <1>1 DEF WorksOn
  <1>3. QED
    BY <1>1, <1>2 DEF WorksOn

(* A broker past the lock is alone with its request ID. *)
LEMMA WorksAlone ==
  ASSUME Types, NEW b \in Brokers, broker[b].pc \in Accepted \cup {"check"}
  PROVE  \A e \in Brokers : WorksOn(e, broker[b].request.id) => e = b
  BY DEF Types, TypeOK, WorksOn, Accepted, Logging

(* Steps up to the one that starts the provider: the run is not spent. *)
LEMMA NotYetSpent ==
  ASSUME Types, NEW b \in Brokers,
         LogRequest(b) \/ RejectCall(b) \/ Decide(b) \/ LogDecision(b) \/ LogAction(b)
  PROVE  ~Spent(broker[b]) /\ ~Spent(broker'[b])
  <1>1. broker[b] \in Process /\ b \in DOMAIN broker /\ broker[b].child = "none"
    BY DEF Types, TypeOK, WellFormed, LogRequest, RejectCall, Decide, LogDecision, LogAction
  <1>2. ~Spent(broker[b])
    BY <1>1 DEF Spent, LogRequest, RejectCall, Decide, LogDecision, LogAction
  <1>3. CASE LogRequest(b)
    <2>1. broker'[b].pc = "evaluate" /\ broker'[b].child = "none"
      BY <1>1, <1>3 DEF LogRequest, Become, Process
    <2>2. QED
      BY <1>2, <2>1 DEF Spent
  <1>4. CASE RejectCall(b)
    <2>1. broker'[b].pc = "decision" /\ broker'[b].child = "none"
      BY <1>1, <1>4 DEF RejectCall, Become, Process
    <2>2. QED
      BY <1>2, <2>1 DEF Spent
  <1>5. CASE Decide(b)
    <2>1. broker'[b].pc = "decision" /\ broker'[b].child = "none"
      BY <1>1, <1>5 DEF Decide, Become, Process
    <2>2. QED
      BY <1>2, <2>1 DEF Spent
  <1>6. CASE LogDecision(b)
    <2>1. /\ broker'[b].child = "none" /\ broker'[b].outcome = broker[b].outcome
          /\ broker'[b].pc = IF broker[b].outcome = "allow" THEN "action" ELSE "result"
      BY <1>1, <1>6 DEF LogDecision, Become, Process
    <2>2. QED
      BY <1>2, <2>1 DEF Spent
  <1>7. CASE LogAction(b)
    <2>1. broker'[b].pc = "run" /\ broker'[b].child = "running"
      BY <1>1, <1>7 DEF LogAction, Become, Process
    <2>2. QED
      BY <1>2, <2>1 DEF Spent
  <1>8. QED
    BY <1>3, <1>4, <1>5, <1>6, <1>7

(* The steps of a broker pay for what they carry out under other IDs. *)
LEMMA OthersPaid ==
  ASSUME Types, [Next]_vars, NEW i \in Ids, PaidFor(i), NEW b \in Brokers, NEW q, Become(b, q),
         ~WorksOn(b, i), q.pc \in Accepted => q.request.id # i,
         \A s \in Requests : effects'[s] + orphans'[s] = effects[s] + orphans[s] \/ s.id # i
  PROVE  PaidFor(i)'
  BY OtherWork, PaidStays

(* A broker that has come past its lock, or is accepted. *)
LEMMA WorkPaid ==
  ASSUME Types, Types', Paid, [Next]_vars, NEW i \in Ids, NEW b \in Brokers,
         Works(b) \/ LogResult(b), broker[b].request.id = i
  PROVE  PaidFor(i)'
  <1>0. /\ broker[b] \in Process /\ b \in DOMAIN broker /\ PaidFor(i) /\ WellFormed(broker[b])
        /\ \A e \in Brokers \ {b} : broker'[e] = broker[e]
    BY DEF Types, TypeOK, Paid, Works, LogResult, Release, Accept, LogRequest, RejectCall, Decide,
           LogDecision, LogAction, CarryOut, HandlerReturns, Become
  <1>1. broker[b].pc \in Accepted \cup {"check"} /\ UNCHANGED trouble /\ trouble \in Nat
    BY BrokerConstantsAssumption
    DEF Works, LogResult, Accept, LogRequest, RejectCall, Decide, LogDecision, LogAction, CarryOut,
        HandlerReturns, Accepted, Logging, Types, TypeOK
  <1>2. \A e \in Brokers : WorksOn(e, i) => e = b
    BY <1>1, WorksAlone
  <1>3. \A e \in Brokers : WorksOn(e, i)' => e = b
    BY <1>0, <1>2 DEF WorksOn
  <1>4. Works(b) => WorksOn(b, i)'
    BY WorkKeepsRequest DEF WorksOn
  <1>5. ASSUME UNCHANGED <<effects, orphans>>, Bound(i, trouble) PROVE PaidFor(i)'
    <2>1. Bound(i, trouble)'
      <3>1. PICK n \in Nat : n = trouble
        BY <1>1
      <3>2. Bound(i, n)'
        BY <1>5, <3>1, BoundStays
      <3>3. QED
        BY <1>1, <3>1, <3>2 DEF Bound
    <2>2. QED
      BY <2>1, PaidWhole
  <1>6. CASE Accept(b)
    <2>1. Readable /\ ~IsComplete(i) /\ UNCHANGED <<effects, orphans>> /\ ~WorksOn(b, i)
      BY <1>6 DEF Accept, WorksOn, Accepted, Logging
    <2>2. QED
      BY <1>0, <1>2, <1>5, <2>1 DEF PaidFor
  <1>7. CASE LogRequest(b) \/ RejectCall(b) \/ Decide(b) \/ LogDecision(b) \/ LogAction(b)
    <2>1. UNCHANGED <<effects, orphans>> /\ broker[b].pc \in Accepted
      BY <1>7 DEF LogRequest, RejectCall, Decide, LogDecision, LogAction, Accepted, Logging
    <2>2. QED
      BY <1>0, <1>5, <1>7, <2>1, NotYetSpent DEF PaidFor, WorksOn
  <1>8. CASE CarryOut(b)
    <2> DEFINE r == broker[b].request
    <2>1. /\ r \in Requests /\ broker[b].pc = "run" /\ broker[b].child = "running"
          /\ effects' = [effects EXCEPT ![r] = @ + 1] /\ UNCHANGED orphans
      BY <1>0, <1>8 DEF CarryOut, WellFormed
    <2>2. Bound(i, trouble)
      BY <1>0, <2>1 DEF PaidFor, WorksOn, Spent, Accepted
    <2>3. \A s \in Requests : effects'[s] + orphans'[s] =
                               effects[s] + orphans[s] + IF s = r THEN 1 ELSE 0
      <3> HIDE DEF r
      <3>1. effects \in [Requests -> Nat] /\ orphans \in [Requests -> Nat]
        BY DEF Types, TypeOK
      <3>2. QED
        BY <2>1, <3>1
    <2>4. Bound(i, trouble + 1)'
      <3>1. PICK n \in Nat : n = trouble
        BY <1>1
      <3>2. Bound(i, n + 1)'
        <4> HIDE DEF r
        <4>1. QED
          BY <2>1, <2>2, <2>3, <3>1, BoundGrows
      <3>3. QED
        BY <1>1, <3>1, <3>2 DEF Bound
    <2>5. Spent(broker'[b]) /\ WorksOn(b, i)'
      <3>1. broker'[b].child = "done"
        BY <1>0, <1>8 DEF CarryOut, Become, Process
      <3>2. QED
        BY <1>4, <1>8, <3>1 DEF Spent, Works
    <2>6. QED
      BY <1>3, <2>4, <2>5 DEF PaidFor
  <1>9. CASE HandlerReturns(b)
    <2>1. UNCHANGED <<effects, orphans>> /\ broker[b].pc = "run" /\ broker[b].outcome = "allow"
      BY <1>0, <1>9 DEF HandlerReturns, WellFormed
    <2>2. CASE broker[b].child = "done"
      <3>1. Spent(broker[b]) /\ WorksOn(b, i)
        BY <2>1, <2>2 DEF Spent, WorksOn, Accepted
      <3>2. Spent(broker'[b])
        <4>1. broker'[b].pc = "result" /\ broker'[b].outcome = "allow"
          BY <1>0, <1>9, <2>1 DEF HandlerReturns, Become, Process
        <4>2. QED
          BY <4>1 DEF Spent
      <3>3. WorksOn(b, i)'
        BY <1>4, <1>9 DEF Works
      <3>4. \A e \in Brokers : WorksOn(e, i)' \/ WorksOn(e, i) =>
              /\ WorksOn(e, i)' /\ WorksOn(e, i)
              /\ Spent(broker'[e]) <=> Spent(broker[e])
        BY <1>2, <1>3, <3>1, <3>2, <3>3
      <3>5. QED
        BY <1>0, <2>1, <3>4, PaidStays
    <2>3. CASE broker[b].child # "done"
      <3>1. WorksOn(b, i) /\ ~Spent(broker[b])
        BY <2>1, <2>3 DEF Spent, WorksOn, Accepted
      <3>2. QED
        BY <1>0, <1>5, <2>1, <3>1 DEF PaidFor
    <2>4. QED
      BY <2>2, <2>3
  <1>10. CASE LogResult(b)
    <2>1. /\ UNCHANGED <<effects, orphans>> /\ broker[b].pc = "result" /\ Written(Line(b))
          /\ WorksOn(b, i)
      BY <1>10 DEF LogResult, WorksOn, Accepted, Logging
    <2>2. CASE ~Spent(broker[b])
      BY <1>0, <1>5, <2>1, <2>2 DEF PaidFor
    <2>3. CASE Spent(broker[b])
      <3>1. broker[b].outcome = "allow" /\ broker[b].status \in {"ok", "error"}
        BY <1>0, <2>1, <2>3 DEF Spent, WellFormed, Paid
      <3>2. ~WorksOn(b, i)'
        <4>1. broker'[b] = Idle
          BY <1>0, <1>10 DEF LogResult, Release, Become
        <4>2. QED
          BY <4>1 DEF WorksOn, Idle, Accepted, Logging
      <3>3. ~Readable' \/ IsComplete(i)'
        <4>1. CASE damage \in {"last", "open"}
          BY <2>1, <4>1 DEF Written, Readable
        <4>2. CASE damage \notin {"last", "open"}
          <5>1. AppendsLine(b)
            BY <2>1, <4>2, LineType DEF Written, AppendsLine, Logging
          <5>2. PICK n : n = Len(journal) + 1
            OBVIOUS
          <5>3. Line(b).request = broker[b].request /\ IsTerminal(Line(b))
            BY <2>1, <3>1 DEF Line, IsTerminal, Terminal
          <5>4. n \in EventsOf(i)' /\ journal'[n] = Line(b)
            BY <5>1, <5>2, <5>3, AppendedLine DEF AppendsLine
          <5>5. QED
            BY <5>3, <5>4 DEF IsComplete
        <4>3. QED
          BY <4>1, <4>2
      <3>4. Bound(i, trouble + 1)'
        <4>1. PICK n \in Nat : n = trouble + 1
          BY <1>1
        <4>2. Bound(i, n)
          BY <1>0, <4>1 DEF PaidFor
        <4>3. Bound(i, n)'
          BY <2>1, <4>2, BoundStays
        <4>4. QED
          BY <1>1, <4>1, <4>3 DEF Bound
      <3>5. QED
        BY <1>3, <3>2, <3>3, <3>4 DEF PaidFor
    <2>4. QED
      BY <2>2, <2>3
  <1>11. QED
    BY <1>6, <1>7, <1>8, <1>9, <1>10 DEF Works

(* A death or a failed append pays for the run that it may leave behind. *)
LEMMA FailurePays ==
  ASSUME Types, Types', Paid, [Next]_vars, NEW i \in Ids, NEW b \in Brokers,
         AppendFails(b) \/ Crash(b)
  PROVE  PaidFor(i)'
  <1>1. PICK n \in Nat : n = trouble /\ trouble' = n + 1 /\ n + 1 \in Nat /\ n + 2 \in Nat
    BY BrokerConstantsAssumption DEF AppendFails, Crash, Trouble, Types, TypeOK
  <1>2. PaidFor(i) /\ Bound(i, n + 1)
    BY <1>1 DEF Paid, PaidFor
  <1>3. ASSUME \A s \in Requests : effects'[s] + orphans'[s] = effects[s] + orphans[s] \/ s.id # i
        PROVE  PaidFor(i)'
    <2>1. Bound(i, n + 1)'
      BY <1>1, <1>2, <1>3, BoundStays
    <2>2. QED
      BY <1>1, <2>1, PaidWhole DEF Bound
  <1>4. CASE AppendFails(b)
    BY <1>3, <1>4 DEF AppendFails
  <1>5. CASE Crash(b) /\ broker[b].child # "running"
    BY <1>3, <1>5 DEF Crash
  <1>6. CASE Crash(b) /\ broker[b].child = "running"
    <2> DEFINE r == broker[b].request
    <2>1. /\ r \in Requests /\ broker[b].pc = "run"
          /\ orphans' = [orphans EXCEPT ![r] = @ + 1] /\ UNCHANGED effects
      BY <1>6 DEF Crash, Types, WellFormed
    <2>2. \A s \in Requests : effects'[s] + orphans'[s] =
                               effects[s] + orphans[s] + IF s = r THEN 1 ELSE 0
      <3> HIDE DEF r
      <3>1. effects \in [Requests -> Nat] /\ orphans \in [Requests -> Nat]
        BY DEF Types, TypeOK
      <3>2. QED
        BY <2>1, <3>1
    <2>3. CASE r.id = i
      <3>1. Bound(i, n)
        BY <1>1, <1>2, <1>6, <2>1, <2>3 DEF PaidFor, WorksOn, Spent, Accepted
      <3>2. Bound(i, n + 1)'
        <4> HIDE DEF r
        <4>1. QED
          BY <2>1, <2>2, <3>1, BoundGrows
      <3>3. QED
        BY <1>1, <3>2, PaidWhole DEF Bound
    <2>4. CASE r.id # i
      <3> HIDE DEF r
      <3>1. PICK m \in Nat : m = n + 1
        BY <1>1
      <3>2. Bound(i, m)'
        BY <1>2, <2>1, <2>2, <2>4, <3>1, BoundGrows
      <3>3. QED
        BY <1>1, <3>1, <3>2, PaidWhole DEF Bound
    <2>5. QED
      BY <2>3, <2>4
  <1>7. QED
    BY <1>4, <1>5, <1>6

(* A broker about to log a result has an answer, if its request ran. *)
LEMMA AnswersStay ==
  ASSUME Types, Paid, [Next]_vars, NEW e \in Brokers,
         broker'[e].pc = "result", broker'[e].outcome = "allow"
  PROVE  broker'[e].status \in {"ok", "error"}
  <1>1. broker[e] \in Process /\ e \in DOMAIN broker
    BY DEF Types, TypeOK
  <1>2. CASE broker'[e] = broker[e]
    BY <1>2 DEF Paid
  <1>3. CASE Accept(e) \/ LogRequest(e)
    <2>1. broker'[e].pc # "result"
      BY <1>1, <1>3 DEF Accept, LogRequest, Become, Process
    <2>2. QED
      BY <2>1
  <1>4. CASE RejectCall(e)
    <2>1. broker'[e].pc # "result"
      BY <1>1, <1>4 DEF RejectCall, Become, Process
    <2>2. QED
      BY <2>1
  <1>5. CASE Decide(e)
    <2>1. broker'[e].pc # "result"
      BY <1>1, <1>5 DEF Decide, Become, Process
    <2>2. QED
      BY <2>1
  <1>6. CASE LogDecision(e)
    <2>1. /\ broker'[e].outcome = broker[e].outcome
          /\ broker'[e].pc = IF broker[e].outcome = "allow" THEN "action" ELSE "result"
      BY <1>1, <1>6 DEF LogDecision, Become, Process
    <2>2. QED
      BY <2>1
  <1>7. CASE LogAction(e) \/ CarryOut(e)
    <2>1. broker'[e].pc # "result"
      BY <1>1, <1>7 DEF LogAction, CarryOut, Become, Process
    <2>2. QED
      BY <2>1
  <1>8. CASE HandlerReturns(e)
    <2>1. PICK s \in {"ok", "error"} :
            Become(e, [broker[e] EXCEPT !.pc = "result", !.status = s, !.child = "none"])
      BY <1>8 DEF HandlerReturns
    <2>2. broker'[e].status = s
      BY <1>1, <2>1 DEF Become, Process
    <2>3. QED
      BY <2>2
  <1>9. QED
    BY <1>2, <1>3, <1>4, <1>5, <1>6, <1>7, <1>8, BrokerStep DEF Works, Accepted, Logging

(* Every step keeps the account. *)
LEMMA NextPaid == Types /\ Paid /\ [Next]_vars => Paid'
  <1> SUFFICES ASSUME Types, Paid, [Next]_vars, NEW i \in Ids PROVE PaidFor(i)'
    BY AnswersStay DEF Paid
  <1>1. Types' /\ PaidFor(i)
    BY NextType DEF Paid
  <1>2. ASSUME UNCHANGED broker,
               \A s \in Requests : effects'[s] + orphans'[s] = effects[s] + orphans[s]
        PROVE  PaidFor(i)'
    BY <1>1, <1>2, PaidStays DEF WorksOn
  <1>3. ASSUME NEW b \in Brokers, NEW r \in Requests, Send(b, r) PROVE PaidFor(i)'
    <2> DEFINE q == [Idle EXCEPT !.pc = "lock", !.request = r, !.rules = policy]
    <2>1. /\ Become(b, q) /\ q.pc = "lock" /\ broker[b].pc = "idle"
          /\ UNCHANGED <<effects, orphans>>
      BY <1>3 DEF Send, Idle
    <2> HIDE DEF q
    <2>2. ~WorksOn(b, i) /\ q.pc \notin Accepted
      BY <2>1 DEF WorksOn, Accepted, Logging
    <2>3. QED
      BY <1>1, <2>1, <2>2, OthersPaid
  <1>4. ASSUME NEW b \in Brokers, LockRequest(b) PROVE PaidFor(i)'
    <2> DEFINE q == [broker[b] EXCEPT !.pc = "check"]
    <2>1. Become(b, q) /\ broker[b].pc = "lock" /\ UNCHANGED <<effects, orphans>>
      BY <1>4 DEF LockRequest
    <2>2. q.pc = "check"
      BY DEF Types, TypeOK, Process
    <2> HIDE DEF q
    <2>3. ~WorksOn(b, i) /\ q.pc \notin Accepted
      BY <2>1, <2>2 DEF WorksOn, Accepted, Logging
    <2>4. QED
      BY <1>1, <2>1, <2>3, OthersPaid
  <1>5. ASSUME NEW b \in Brokers, Stop(b) PROVE PaidFor(i)'
    <2>1. Become(b, Idle) /\ broker[b].pc = "check" /\ UNCHANGED <<effects, orphans>>
      BY <1>5 DEF Stop, Release
    <2>2. ~WorksOn(b, i) /\ Idle.pc \notin Accepted
      BY <2>1 DEF WorksOn, Accepted, Logging, Idle
    <2>3. QED
      BY <1>1, <2>1, <2>2, OthersPaid
  <1>6. ASSUME NEW b \in Brokers, Works(b) \/ LogResult(b) PROVE PaidFor(i)'
    <2>1. CASE broker[b].request.id = i
      BY <1>1, <1>6, <2>1, WorkPaid
    <2>2. CASE broker[b].request.id # i
      <3>1. PICK q : Become(b, q) /\ (q.pc \in Accepted => q.request.id # i)
        <4>1. CASE LogResult(b)
          BY <4>1 DEF LogResult, Release, Idle, Accepted, Logging
        <4>2. CASE Works(b)
          <5>1. PICK q : Become(b, q)
            BY <4>2 DEF Works, Accept, LogRequest, RejectCall, Decide, LogDecision, LogAction,
                        CarryOut, HandlerReturns
          <5>2. q = broker'[b]
            BY <5>1 DEF Become, Types, TypeOK
          <5>3. q.request = broker[b].request
            BY <4>2, <5>2, WorkKeepsRequest
          <5>4. QED
            BY <2>2, <5>1, <5>3
        <4>3. QED
          BY <1>6, <4>1, <4>2
      <3>2. \A s \in Requests : effects'[s] + orphans'[s] = effects[s] + orphans[s] \/ s.id # i
        <4>1. CASE UNCHANGED <<effects, orphans>>
          BY <4>1
        <4>2. CASE CarryOut(b)
          <5>1. effects' = [effects EXCEPT ![broker[b].request] = @ + 1] /\ UNCHANGED orphans
            BY <4>2 DEF CarryOut
          <5>2. \A s \in Requests : s # broker[b].request => effects'[s] = effects[s]
            BY <5>1 DEF Types, TypeOK
          <5>3. QED
            BY <2>2, <5>1, <5>2
        <4>3. QED
          BY <1>6, <4>1, <4>2 DEF Works, LogResult, Accept, LogRequest, RejectCall, Decide,
                                  LogDecision, LogAction, HandlerReturns
      <3>3. ~WorksOn(b, i)
        BY <2>2 DEF WorksOn
      <3>4. QED
        BY <1>1, <3>1, <3>2, <3>3, OthersPaid
    <2>3. QED
      BY <2>1, <2>2
  <1>7. ASSUME NEW b \in Brokers, AppendFails(b) \/ Crash(b) PROVE PaidFor(i)'
    BY <1>1, <1>7, FailurePays
  <1>8. ASSUME NEW r \in Requests, OrphanCarriesOut(r) PROVE PaidFor(i)'
    <2>1. /\ effects \in [Requests -> Nat] /\ orphans \in [Requests -> Nat]
          /\ orphans[r] > 0
          /\ orphans' = [orphans EXCEPT ![r] = @ - 1] /\ effects' = [effects EXCEPT ![r] = @ + 1]
      BY <1>8 DEF OrphanCarriesOut, Types, TypeOK
    <2>2. \A s \in Requests : effects'[s] + orphans'[s] = effects[s] + orphans[s]
      BY <2>1
    <2>3. QED
      BY <1>2, <1>8, <2>2 DEF OrphanCarriesOut
  <1>9. CASE UNCHANGED <<broker, effects, orphans>>
    BY <1>2, <1>9
  <1>10. QED
    BY <1>3, <1>4, <1>5, <1>6, <1>7, <1>8, <1>9
    DEF Next, vars, Step, Works, Grant, EditPolicy, Expire

(* Under each request ID there is one run, and one for each trouble. *)
ReplaysArePaidFor ==
  \A i \in Ids : IsFiniteSet(EffectsOf(i)) /\ Cardinality(EffectsOf(i)) <= 1 + trouble

(* However often a request ID is sent, at once or again, and whatever its  *)
(* contents: all that providers carry out under it is one run, and one     *)
(* more for each broker that was killed and each append that failed, a     *)
(* torn journal and orphaned commands included (is_complete).              *)
THEOREM ReplaysAreAlwaysPaidFor == Spec => []ReplaysArePaidFor
  <1>1. Init => Paid
    <2> SUFFICES ASSUME Init, NEW i \in Ids PROVE PaidFor(i)
      BY DEF Init, Idle, Paid
    <2>1. effects \in [Requests -> {0}] /\ orphans \in [Requests -> {0}] /\ trouble = 0
      BY DEF Init
    <2>2. Started(i) = {}
      BY <2>1 DEF Started
    <2>3. Bound(i, 0) /\ Bound(i, 1)
      BY <2>2, FS_EmptySet DEF Bound
    <2>4. QED
      BY <2>1, <2>3 DEF PaidFor
  <1>2. Types /\ Paid => ReplaysArePaidFor
    <2> SUFFICES ASSUME Types, Paid, NEW i \in Ids
                 PROVE  IsFiniteSet(EffectsOf(i)) /\ Cardinality(EffectsOf(i)) <= 1 + trouble
      BY DEF ReplaysArePaidFor
    <2>1. effects \in [Requests -> Nat] /\ orphans \in [Requests -> Nat]
      BY DEF Types, TypeOK
    <2>2. EffectsOf(i) \subseteq Started(i)
      BY <2>1 DEF EffectsOf, Started
    <2>3. IsFiniteSet(Started(i)) /\ Cardinality(Started(i)) <= trouble + 1
      BY DEF Paid, PaidFor, Bound
    <2>4. /\ IsFiniteSet(EffectsOf(i)) /\ Cardinality(EffectsOf(i)) <= Cardinality(Started(i))
          /\ Cardinality(EffectsOf(i)) \in Nat /\ Cardinality(Started(i)) \in Nat
      BY <2>2, <2>3, FS_Subset, FS_CardinalityType
    <2>5. trouble \in Nat
      BY BrokerConstantsAssumption DEF Types, TypeOK
    <2>6. QED
      BY <2>3, <2>4, <2>5
  <1>3. QED
    BY <1>1, <1>2, TypesHold, NextPaid, PTL DEF Spec
=============================================================================

------------------------- MODULE StatedCacheProofs -------------------------
(***************************************************************************)
(* Theorems about StatedCache, for any catalog, any values and any         *)
(* capacity of the channel: the types, the status of every answer, the     *)
(* epoch, that no change of a watched source gets lost and no request      *)
(* either, and that the refreshes neither get stuck nor go on for ever.    *)
(***************************************************************************)
EXTENDS StatedCache, TLAPS

-----------------------------------------------------------------------------
(* Requests and the channel.                                               *)

(* Only known facts are refreshed. *)
LEMMA FactsOfType == \A r \in RefreshRequests : FactsOf(r) \subseteq Facts
  BY StatedAssumption DEF RefreshRequests, FactsOf

(* A request combined with others is one of the requests there are, and    *)
(* asks for every fact that one of them asked for.                         *)
LEMMA CombinedCovers ==
  ASSUME NEW R \in SUBSET RefreshRequests, R # {}
  PROVE  /\ Combined(R) \in RefreshRequests
         /\ \A r \in R : FactsOf(r) \subseteq FactsOf(Combined(R))
  <1>1. CASE \E r \in R : R = {r}
    <2>1. Combined(R) \in R
      BY <1>1 DEF Combined
    <2>2. QED
      BY <1>1, <2>1
  <1>2. CASE ~ \E r \in R : R = {r}
    <2>1. Combined(R) = "all"
      BY <1>2 DEF Combined
    <2>2. FactsOf("all") = Facts
      BY DEF FactsOf
    <2>3. QED
      BY <2>1, <2>2, FactsOfType DEF RefreshRequests
  <1>3. QED
    BY <1>1, <1>2

(* What waits in a channel that was read, and in one that was written.     *)
LEMMA Channel ==
  ASSUME NEW q \in Seq(RefreshRequests), NEW r \in RefreshRequests
  PROVE  /\ ToSet(q) \subseteq RefreshRequests
         /\ Append(q, r) \in Seq(RefreshRequests) /\ Len(Append(q, r)) = Len(q) + 1
         /\ ToSet(q) \cup {r} \subseteq ToSet(Append(q, r))
         /\ q # <<>> =>
              /\ Head(q) \in RefreshRequests /\ Tail(q) \in Seq(RefreshRequests)
              /\ Len(Tail(q)) < Len(q) /\ ToSet(q) \subseteq {Head(q)} \cup ToSet(Tail(q))
  <1>1. ToSet(q) \subseteq RefreshRequests
    BY DEF ToSet
  <1>2. /\ Append(q, r) \in Seq(RefreshRequests) /\ Len(Append(q, r)) = Len(q) + 1
        /\ \A i \in 1..Len(q) : Append(q, r)[i] = q[i]
        /\ Append(q, r)[Len(q) + 1] = r
    OBVIOUS
  <1>3. ToSet(q) \cup {r} \subseteq ToSet(Append(q, r))
    BY <1>2 DEF ToSet
  <1>4. ASSUME q # <<>>
        PROVE  /\ Head(q) \in RefreshRequests /\ Tail(q) \in Seq(RefreshRequests)
               /\ Len(Tail(q)) < Len(q) /\ ToSet(q) \subseteq {Head(q)} \cup ToSet(Tail(q))
    <2>1. /\ Head(q) = q[1] /\ Len(Tail(q)) = Len(q) - 1 /\ Tail(q) \in Seq(RefreshRequests)
          /\ Len(q) \in Nat \ {0} /\ DOMAIN Tail(q) = 1..(Len(q) - 1)
          /\ \A i \in 1..(Len(q) - 1) : Tail(q)[i] = q[i + 1]
      BY <1>4
    <2>2. ASSUME NEW i \in 1..Len(q), i # 1 PROVE q[i] \in ToSet(Tail(q))
      <3>1. i - 1 \in 1..(Len(q) - 1) /\ q[i] = Tail(q)[i - 1]
        BY <2>1, <2>2
      <3>2. QED
        BY <2>1, <3>1 DEF ToSet
    <2>3. QED
      BY <2>1, <2>2 DEF ToSet
  <1>5. QED
    BY <1>1, <1>2, <1>3, <1>4

-----------------------------------------------------------------------------
(* Types.                                                                  *)

Outcomes == [Facts -> Values \cup Errors \cup {None}]

Workers ==
  [pc : {"idle", "debounce", "collect", "invalid"}, request : RefreshRequests,
   outcomes : Outcomes]

(* A refresh leaves facts, errors and the epoch in their types. *)
LEMMA RefreshedType ==
  ASSUME TypeOK, NEW o \in Outcomes, Refreshed(FactsOf(worker.request), o)
  PROVE  TypeOK'
  <1>1. worker \in Workers /\ FactsOf(worker.request) \subseteq Facts
    BY FactsOfType DEF TypeOK, Workers, Outcomes
  <1>2. worker' \in Workers
    BY <1>1 DEF Refreshed, Unobserved, Workers, Outcomes
  <1>3. facts' \in [Facts -> Values \cup {None}]
    BY <1>1 DEF Refreshed, NewFacts, TypeOK
  <1>4. errors' \in [Facts -> Errors \cup {None}]
    BY <1>1 DEF Refreshed, NewErrors, TypeOK
  <1>5. epoch' \in Nat /\ lastErrors' \subseteq Facts /\ phase' \in {"collect", "spawned", "serving"}
    BY <1>1 DEF Refreshed, TypeOK
  <1>6. QED
    BY <1>2, <1>3, <1>4, <1>5 DEF Refreshed, TypeOK, Workers, Outcomes

(* The worker keeps the types. *)
LEMMA WorkerType == TypeOK /\ WorkerStep => TypeOK'
  <1> SUFFICES ASSUME TypeOK, WorkerStep PROVE TypeOK'
    OBVIOUS
  <1>1. worker \in Workers /\ FactsOf(worker.request) \subseteq Facts
    BY FactsOfType DEF TypeOK, Workers, Outcomes
  <1>2. queue \in Seq(RefreshRequests) /\ Unobserved \in Outcomes
    BY DEF TypeOK, Unobserved, Outcomes
  <1>3. CASE Receive
    <2>1. Head(queue) \in RefreshRequests /\ Tail(queue) \in Seq(RefreshRequests)
          /\ Len(Tail(queue)) <= Capacity
      BY <1>2, <1>3, Channel, StatedAssumption DEF Receive, TypeOK, RefreshRequests
    <2>2. worker' \in Workers
      BY <1>1, <1>3, <2>1 DEF Receive, Workers
    <2>3. QED
      BY <1>3, <2>1, <2>2 DEF Receive, cache, TypeOK, Workers, Outcomes
  <1>4. CASE Drain
    <2>1. {worker.request} \cup ToSet(queue) \subseteq RefreshRequests
      BY <1>1, <1>2, Channel DEF Workers
    <2>2. Combined({worker.request} \cup ToSet(queue)) \in RefreshRequests
      BY <2>1, CombinedCovers
    <2>3. worker' \in Workers
      BY <1>2, <1>4, <2>2 DEF Drain, Workers
    <2>4. <<>> \in Seq(RefreshRequests) /\ Len(<<>>) <= Capacity
      BY StatedAssumption
    <2>5. QED
      BY <1>4, <2>3, <2>4 DEF Drain, cache, TypeOK, Workers, Outcomes
  <1>5. CASE LoadFixture
    <2>1. [f \in Facts |-> IF f \in FactsOf(worker.request) /\ valid THEN source[f] ELSE None]
            \in Outcomes
      BY DEF TypeOK, Outcomes, Errors
    <2>2. worker' \in Workers
      BY <1>1, <1>5, <2>1 DEF LoadFixture, Workers
    <2>3. QED
      BY <1>5, <2>2 DEF LoadFixture, cache, TypeOK, Workers, Outcomes
  <1>6. CASE Apply
    BY <1>1, <1>6, RefreshedType DEF Apply, Workers
  <1>7. CASE RecordProviderError
    <2>1. [f \in Facts |-> Invalid] \in Outcomes
      BY DEF Outcomes, Errors
    <2>2. QED
      BY <1>7, <2>1, RefreshedType DEF RecordProviderError
  <1>8. ASSUME NEW f \in Facts, Observe(f) PROVE TypeOK'
    <2>1. source[f] \in Values \cup Errors
      BY DEF TypeOK, Errors
    <2>2. worker' \in Workers
      BY <1>1, <1>8, <2>1 DEF Observe, Workers, Outcomes
    <2>3. QED
      BY <1>8, <2>2 DEF Observe, cache, TypeOK, Workers, Outcomes
  <1>9. QED
    BY <1>3, <1>4, <1>5, <1>6, <1>7, <1>8 DEF WorkerStep

(* The machine, the channel and serve keep the types. *)
LEMMA NextType == TypeOK /\ [Next]_vars => TypeOK'
  <1> SUFFICES ASSUME TypeOK, [Next]_vars PROVE TypeOK'
    OBVIOUS
  <1>1. queue \in Seq(RefreshRequests) /\ MaxChanges \in Nat /\ Capacity \in Nat
    BY StatedAssumption DEF TypeOK
  <1>2. \A r \in {"all", "static", "dynamic"} : Len(queue) < Capacity =>
          Append(queue, r) \in Seq(RefreshRequests) /\ Len(Append(queue, r)) <= Capacity
    BY <1>1, Channel DEF RefreshRequests
  <1>3. ASSUME NEW f \in Facts, NEW v \in Values \cup {Failed}, ChangeSource(f, v) PROVE TypeOK'
    BY <1>1, <1>3 DEF ChangeSource, Change, Notify, cache, TypeOK
  <1>4. ASSUME NEW f \in Facts, Deliver(f) PROVE TypeOK'
    <2>1. Notification \in {"all", "static", "dynamic"}
      BY DEF Notification
    <2>2. queue' \in Seq(RefreshRequests) /\ Len(queue') <= Capacity
      BY <1>1, <1>2, <1>4, <2>1 DEF Deliver, TypeOK
    <2>3. events' \subseteq Facts /\ missed' \subseteq Facts
      BY <1>4 DEF Deliver, TypeOK
    <2>4. QED
      BY <1>4, <2>2, <2>3 DEF Deliver, cache, TypeOK
  <1>5. ASSUME NEW f \in Facts, ObserveTimesOut(f) PROVE TypeOK'
    <2>1. worker \in Workers
      BY DEF TypeOK, Workers, Outcomes
    <2>2. worker' \in Workers
      BY <1>5, <2>1 DEF ObserveTimesOut, Workers, Outcomes, Errors
    <2>3. changes' \in 0..MaxChanges /\ missed' \subseteq Facts
      BY <1>1, <1>5 DEF ObserveTimesOut, Change, TypeOK
    <2>4. QED
      BY <1>5, <2>2, <2>3 DEF ObserveTimesOut, cache, TypeOK, Workers, Outcomes
  <1>6. CASE ChangeFixture
    BY <1>1, <1>6 DEF ChangeFixture, Change, Notify, cache, TypeOK
  <1>7. CASE DynamicTimer \/ FullTimer
    BY <1>2, <1>7 DEF DynamicTimer, FullTimer, TimerFires, cache, TypeOK
  <1>8. CASE Serve
    BY <1>8 DEF Serve, cache, TypeOK
  <1>9. CASE UNCHANGED vars
    BY <1>9 DEF vars, cache, TypeOK
  <1>10. QED
    BY <1>3, <1>4, <1>5, <1>6, <1>7, <1>8, <1>9, WorkerType DEF Next

(* The variables have their types; the channel holds no more than its      *)
(* capacity (try_send of the watcher, send of the timers).                 *)
THEOREM TypeCorrect == Spec => []TypeOK
  <1>1. Init => TypeOK
    <2> SUFFICES ASSUME Init PROVE TypeOK
      OBVIOUS
    <2>1. worker \in Workers
      BY DEF Init, Unobserved, Workers, Outcomes, RefreshRequests
    <2>2. valid \in BOOLEAN /\ provider \in Providers
      BY DEF Init
    <2>3. queue \in Seq(RefreshRequests) /\ Len(queue) <= Capacity /\ changes \in 0..MaxChanges
      BY StatedAssumption DEF Init
    <2>4. /\ facts \in [Facts -> Values \cup {None}] /\ errors \in [Facts -> Errors \cup {None}]
          /\ source \in [Facts -> Values \cup {Failed}]
      BY DEF Init
    <2>5. /\ phase = "collect" /\ watching = FALSE /\ events = {} /\ epoch = 0 /\ lastErrors = {}
          /\ missed = {}
      BY DEF Init
    <2>6. QED
      BY <2>1, <2>2, <2>3, <2>4, <2>5 DEF TypeOK, Workers, Outcomes
  <1>2. QED
    BY <1>1, NextType, PTL DEF Spec
-----------------------------------------------------------------------------
(* Answers.                                                                *)

(* The first refresh asks for everything and finds nothing in the cache;   *)
(* afterwards every fact is there or has an error, and never both.         *)
Filled ==
  IF phase = "collect"
  THEN /\ worker.pc \in {"collect", "invalid"} /\ worker.request = "all"
       /\ \A f \in Facts : facts[f] = None /\ errors[f] = None
  ELSE \A f \in Facts : (facts[f] = None) # (errors[f] = None)

(* A refresh all of whose facts have outcomes leaves every one of them     *)
(* with a fact or with an error.                                           *)
LEMMA RefreshedFills ==
  ASSUME TypeOK, Filled, NEW o \in Outcomes, Refreshed(FactsOf(worker.request), o),
         \A f \in FactsOf(worker.request) : o[f] # None
  PROVE  Filled'
  <1>1. None \notin Values /\ None \notin Errors /\ Values \cap Errors = {}
    BY StatedAssumption
  <1>2. phase' # "collect"
    BY DEF Refreshed
  <1>3. ASSUME NEW f \in Facts PROVE (facts'[f] = None) # (errors'[f] = None)
    <2>1. CASE f \in FactsOf(worker.request)
      <3>1. o[f] \in Values \/ o[f] \in Errors
        BY <2>1 DEF Outcomes
      <3>2. /\ facts'[f] = IF o[f] \in Values THEN o[f] ELSE facts[f]
            /\ o[f] \in Values => errors'[f] = None
            /\ o[f] \in Errors /\ facts[f] = None => errors'[f] = o[f]
            /\ o[f] \in Errors /\ facts[f] # None => errors'[f] = errors[f]
        BY <1>1, <2>1 DEF Refreshed, NewFacts, NewErrors
      <3>3. QED
        BY <1>1, <3>1, <3>2 DEF Filled
    <2>2. CASE f \notin FactsOf(worker.request)
      <3>1. facts'[f] = facts[f] /\ errors'[f] = errors[f]
        BY <2>2 DEF Refreshed, NewFacts, NewErrors
      <3>2. phase # "collect"
        BY <2>2 DEF Filled, FactsOf
      <3>3. QED
        BY <3>1, <3>2 DEF Filled
    <2>3. QED
      BY <2>1, <2>2
  <1>4. QED
    BY <1>2, <1>3 DEF Filled

(* Every step keeps the cache filled. *)
LEMMA NextFilled == TypeOK /\ Filled /\ [Next]_vars => Filled'
  <1> SUFFICES ASSUME TypeOK, Filled, [Next]_vars PROVE Filled'
    OBVIOUS
  <1>1. worker \in Workers
    BY DEF TypeOK, Workers, Outcomes
  <1>2. CASE Apply
    <2>1. \A f \in FactsOf(worker.request) : worker.outcomes[f] # None
      BY <1>2 DEF Apply, ToObserve
    <2>2. QED
      BY <1>1, <1>2, <2>1, RefreshedFills DEF Apply, Workers
  <1>3. CASE RecordProviderError
    <2>1. [f \in Facts |-> Invalid] \in Outcomes /\ Invalid # None
      BY StatedAssumption DEF Outcomes, Errors
    <2>2. QED
      BY <1>3, <2>1, FactsOfType, RefreshedFills DEF RecordProviderError, TypeOK
  <1>4. CASE UNCHANGED <<phase, facts, errors>> /\ worker'.pc \in {"collect", "invalid"}
             /\ worker'.request = worker.request
    BY <1>4 DEF Filled
  <1>5. CASE UNCHANGED <<phase, facts, errors, worker>>
    BY <1>5 DEF Filled
  <1>6. CASE Receive \/ Drain
    BY <1>6 DEF Receive, Drain, cache, Filled
  <1>7. CASE LoadFixture \/ \E f \in Facts : Observe(f) \/ ObserveTimesOut(f)
    <2>1. worker'.pc \in {"collect", "invalid"} /\ worker'.request = worker.request
      BY <1>1, <1>7 DEF LoadFixture, Observe, ObserveTimesOut, ToObserve, Workers
    <2>2. QED
      BY <1>4, <1>7, <2>1 DEF LoadFixture, Observe, ObserveTimesOut, cache
  <1>8. CASE Serve
    BY <1>8 DEF Serve, cache, Filled
  <1>9. QED
    BY <1>2, <1>3, <1>5, <1>6, <1>7, <1>8
    DEF Next, vars, cache, WorkerStep, ChangeSource, ChangeFixture, Deliver, DynamicTimer,
        FullTimer, TimerFires

(* Every answer has the status that its facts deserve, whatever failed     *)
(* since the first refresh (StateCache::apply, query).                     *)
THEOREM AnswersAreAlwaysComplete == Spec => []AnswersAreComplete
  <1>1. Init => Filled
    BY DEF Init, Filled
  <1>2. Filled => AnswersAreComplete
    <2> SUFFICES ASSUME Filled, phase # "collect", NEW ids \in (SUBSET Facts) \ {{}}
                 PROVE  Status(ids) = CASE \A f \in ids : facts[f] # None -> "ok"
                                        [] \A f \in ids : facts[f] = None -> "error"
                                        [] OTHER -> "partial"
      BY DEF AnswersAreComplete
    <2>1. \A f \in ids : (errors[f] # None) <=> (facts[f] = None)
      BY DEF Filled
    <2>2. \E f \in ids : f = f
      <3>1. ids # {}
        OBVIOUS
      <3>2. QED
        BY <3>1
    <2>3. CASE \A g \in ids : facts[g] # None
      BY <2>1, <2>2, <2>3 DEF Status
    <2>4. CASE \A g \in ids : facts[g] = None
      BY <2>1, <2>2, <2>4 DEF Status
    <2>5. CASE (\E g \in ids : facts[g] = None) /\ (\E g \in ids : facts[g] # None)
      BY <2>1, <2>5 DEF Status
    <2>6. QED
      BY <2>3, <2>4, <2>5
  <1>3. QED
    BY <1>1, <1>2, TypeCorrect, NextFilled, PTL DEF Spec

-----------------------------------------------------------------------------
(* The epoch.                                                              *)

(* What apply counts as a change is a change of the cache. *)
LEMMA ChangedCounts ==
  ASSUME TypeOK, NEW o \in Outcomes, NEW observed \in SUBSET Facts
  PROVE  Changed(observed, o) <=>
           NewFacts(observed, o) # facts \/ NewErrors(observed, o) # errors
  <1>1. facts \in [Facts -> Values \cup {None}] /\ errors \in [Facts -> Errors \cup {None}]
    BY DEF TypeOK
  <1>2. NewFacts(observed, o) # facts <=> \E f \in observed : o[f] \in Values /\ facts[f] # o[f]
    BY <1>1 DEF NewFacts
  <1>3. NewErrors(observed, o) # errors <=>
          \E f \in observed :
            \/ o[f] \in Values /\ errors[f] # None
            \/ o[f] \in Errors /\ facts[f] = None /\ errors[f] # o[f]
    <2>1. ASSUME NEW f \in Facts
          PROVE  NewErrors(observed, o)[f] # errors[f] <=>
                   /\ f \in observed
                   /\ \/ o[f] \in Values /\ errors[f] # None
                      \/ o[f] \in Errors /\ facts[f] = None /\ errors[f] # o[f]
      BY StatedAssumption DEF NewErrors
    <2>2. NewErrors(observed, o) = [f \in Facts |-> NewErrors(observed, o)[f]]
      BY DEF NewErrors
    <2>3. QED
      BY <1>1, <2>1, <2>2
  <1>4. QED
    BY <1>2, <1>3 DEF Changed

(* The epoch advances with every change of the cache and with no other     *)
(* step (StateCache::apply, record_provider_error).                        *)
THEOREM EpochAlwaysCounts == Spec => EpochCountsChanges
  <1>1. ASSUME TypeOK, NEW o \in Outcomes, Refreshed(FactsOf(worker.request), o)
        PROVE  epoch' = IF <<facts, errors>>' = <<facts, errors>> THEN epoch ELSE epoch + 1
    <2>1. FactsOf(worker.request) \in SUBSET Facts
      BY <1>1, FactsOfType DEF TypeOK
    <2>2. /\ facts' = NewFacts(FactsOf(worker.request), o)
          /\ errors' = NewErrors(FactsOf(worker.request), o)
          /\ epoch' = IF Changed(FactsOf(worker.request), o) THEN epoch + 1 ELSE epoch
      BY <1>1 DEF Refreshed
    <2>3. QED
      BY <1>1, <2>1, <2>2, ChangedCounts
  <1>2. ASSUME TypeOK, [Next]_vars
        PROVE  epoch' = IF <<facts, errors>>' = <<facts, errors>> THEN epoch ELSE epoch + 1
    <2>1. CASE Apply
      <3>1. worker.outcomes \in Outcomes
        BY <1>2 DEF TypeOK, Outcomes
      <3>2. QED
        BY <1>1, <1>2, <2>1, <3>1 DEF Apply
    <2>2. CASE RecordProviderError
      <3>1. [f \in Facts |-> Invalid] \in Outcomes
        BY DEF Outcomes, Errors
      <3>2. QED
        BY <1>1, <1>2, <2>2, <3>1 DEF RecordProviderError
    <2>3. CASE UNCHANGED <<facts, errors, epoch>>
      BY <2>3
    <2>4. QED
      BY <1>2, <2>1, <2>2, <2>3
      DEF Next, vars, cache, WorkerStep, Receive, Drain, Observe, LoadFixture, ObserveTimesOut,
          Serve, ChangeSource, ChangeFixture, Deliver, DynamicTimer, FullTimer, TimerFires
  <1>3. TypeOK /\ [Next]_vars =>
          [epoch' = IF <<facts, errors>>' = <<facts, errors>> THEN epoch ELSE epoch + 1]_vars
    BY <1>2
  <1>4. QED
    BY <1>3, TypeCorrect, PTL DEF Spec, EpochCountsChanges
-----------------------------------------------------------------------------
(* Changes.                                                                *)

(* Something else than the worker still knows that f has changed. *)
Awaited(f) ==
  \/ f \in missed
  \/ f \in events
  \/ \E r \in ToSet(queue) : f \in FactsOf(r)

(* The worker is about to see f as it is, or has seen it so. *)
Covered(f) ==
  /\ worker.pc \in {"debounce", "collect"}
  /\ f \in FactsOf(worker.request)
  /\ worker.outcomes[f] \in {None, source[f]}

(* Nothing was observed before the worker collects; an outcome that is no  *)
(* longer what the source gives is awaited again, and so is a stale fact,  *)
(* unless the worker covers it.                                            *)
Tracked ==
  /\ worker.pc # "collect" => worker.outcomes = Unobserved
  /\ \A f \in Watched :
       /\ worker.outcomes[f] \notin {None, source[f]} => Awaited(f)
       /\ Stale(f) => Awaited(f) \/ Covered(f)

(* A watched fact is among those that a notification refreshes. *)
LEMMA WatchedRefreshed == Watched \subseteq Facts /\ Watched \subseteq FactsOf(Notification)
  BY StatedAssumption DEF Watched, Notification, FactsOf

(* A change of sources is awaited where they are watched. *)
LEMMA ChangeTracked ==
  ASSUME TypeOK, Tracked, NEW changed \in SUBSET Facts, Notify(changed),
         UNCHANGED <<provider, worker, facts, queue>>,
         \A f \in Facts \ changed : source'[f] = source[f] /\ (valid' => valid)
  PROVE  Tracked'
  <1>1. Watched' = Watched
    BY DEF Watched
  <1>2. ASSUME NEW f \in Watched
        PROVE  /\ Awaited(f) => Awaited(f)'
               /\ f \in changed => Awaited(f)'
    BY <1>2 DEF Notify, Awaited, FactsOf
  <1>3. ASSUME NEW f \in Watched \ changed
        PROVE  /\ source'[f] = source[f]
               /\ Stale(f)' => Stale(f)
               /\ Covered(f) => Covered(f)'
    <2>1. source'[f] = source[f] /\ (valid' => valid)
      BY <1>3, WatchedRefreshed
    <2>2. QED
      BY <2>1 DEF Stale, Covered, FactsOf
  <1>4. worker'.pc # "collect" => worker'.outcomes = Unobserved'
    BY DEF Tracked, Unobserved
  <1>5. \A f \in Watched :
          /\ worker'.outcomes[f] \notin {None, source'[f]} => Awaited(f)'
          /\ Stale(f)' => Awaited(f)' \/ Covered(f)'
    BY <1>2, <1>3 DEF Tracked
  <1>6. QED
    BY <1>1, <1>4, <1>5 DEF Tracked

(* The channel and the timers keep track of every change. *)
LEMMA ChannelTracked ==
  ASSUME TypeOK, Tracked,
         (\E f \in Facts : Deliver(f)) \/ DynamicTimer \/ FullTimer \/ Serve
  PROVE  Tracked'
  <1>1. UNCHANGED <<provider, source, valid, worker, facts>>
    BY DEF Deliver, DynamicTimer, FullTimer, TimerFires, Serve, cache
  <1>2. queue \in Seq(RefreshRequests)
    BY DEF TypeOK
  <1>3. ASSUME NEW f \in Watched, Awaited(f) PROVE Awaited(f)'
    <2>1. CASE UNCHANGED queue /\ UNCHANGED <<events, missed>>
      BY <1>3, <2>1 DEF Awaited, FactsOf
    <2>2. ASSUME NEW r \in RefreshRequests, queue' = Append(queue, r),
                 missed' = missed, f \in events => f \in events' \/ f \in FactsOf(r)
          PROVE  Awaited(f)'
      <3>1. ToSet(queue) \cup {r} \subseteq ToSet(queue')
        BY <1>2, <2>2, Channel
      <3>2. \A request \in RefreshRequests : FactsOf(request)' = FactsOf(request)
        BY DEF FactsOf
      <3>3. ToSet(queue) \subseteq RefreshRequests
        BY <1>2, <2>2, Channel
      <3>4. QED
        BY <1>3, <2>2, <3>1, <3>2, <3>3 DEF Awaited
    <2>3. ASSUME NEW g \in Facts, Deliver(g) PROVE Awaited(f)'
      <3>1. Notification \in RefreshRequests /\ f \in FactsOf(Notification)
        BY WatchedRefreshed DEF Notification, RefreshRequests
      <3>2. CASE queue' = Append(queue, Notification) /\ UNCHANGED missed
        BY <2>2, <2>3, <3>1, <3>2 DEF Deliver
      <3>3. CASE /\ UNCHANGED queue
                 /\ missed' = IF \E r \in ToSet(queue) : g \in FactsOf(r)
                              THEN missed ELSE missed \cup {g}
        BY <1>3, <2>3, <3>3 DEF Deliver, Awaited, FactsOf
      <3>4. QED
        BY <2>3, <3>2, <3>3 DEF Deliver
    <2>4. CASE DynamicTimer \/ FullTimer
      BY <2>2, <2>4 DEF DynamicTimer, FullTimer, TimerFires, RefreshRequests
    <2>5. CASE Serve
      BY <2>1, <2>5 DEF Serve
    <2>6. QED
      BY <2>3, <2>4, <2>5
  <1>4. QED
    BY <1>1, <1>3 DEF Tracked, Watched, Unobserved, Stale, Covered, FactsOf

(* A refresh applies what the sources gave, or what is awaited again. *)
LEMMA RefreshedTracked ==
  ASSUME TypeOK, Tracked, Apply \/ RecordProviderError
  PROVE  Tracked'
  <1>1. /\ UNCHANGED <<provider, source, valid, events, queue, missed>>
        /\ worker' = [worker EXCEPT !.pc = "idle", !.outcomes = Unobserved]
    BY DEF Apply, RecordProviderError, Refreshed
  <1>2. worker \in Workers
    BY DEF TypeOK, Workers, Outcomes
  <1>3. worker'.pc = "idle" /\ worker'.outcomes = Unobserved
    BY <1>1, <1>2 DEF Workers
  <1>4. ASSUME NEW f \in Watched, Stale(f)' PROVE Awaited(f)
    <2>1. f \in Facts
      BY WatchedRefreshed
    <2>2. CASE RecordProviderError
      <3>1. facts'[f] = facts[f]
        BY <2>1, <2>2, StatedAssumption DEF RecordProviderError, Refreshed, NewFacts, Errors
      <3>2. Stale(f) /\ ~Covered(f)
        BY <1>1, <1>4, <2>2, <3>1 DEF RecordProviderError, Stale, Covered
      <3>3. QED
        BY <3>2 DEF Tracked
    <2>3. CASE Apply /\ f \notin FactsOf(worker.request)
      <3>1. facts'[f] = facts[f]
        BY <2>1, <2>3 DEF Apply, Refreshed, NewFacts
      <3>2. Stale(f) /\ ~Covered(f)
        BY <1>1, <1>4, <2>3, <3>1 DEF Stale, Covered
      <3>3. QED
        BY <3>2 DEF Tracked
    <2>4. CASE Apply /\ f \in FactsOf(worker.request)
      <3>1. worker.outcomes[f] # None
        BY <2>4 DEF Apply, ToObserve
      <3>2. CASE worker.outcomes[f] = source[f]
        <4>1. source[f] \in Values
          BY <1>1, <1>4 DEF Stale
        <4>2. facts'[f] = source[f]
          BY <2>1, <2>4, <3>2, <4>1 DEF Apply, Refreshed, NewFacts
        <4>3. QED
          BY <1>1, <1>4, <4>2 DEF Stale
      <3>3. CASE worker.outcomes[f] # source[f]
        BY <3>1, <3>3 DEF Tracked
      <3>4. QED
        BY <3>2, <3>3
    <2>5. QED
      BY <2>2, <2>3, <2>4
  <1>5. \A f \in Watched : Awaited(f) => Awaited(f)'
    BY <1>1 DEF Awaited, FactsOf
  <1>6. \A f \in Watched : worker'.outcomes[f] = None
    BY <1>3, WatchedRefreshed DEF Unobserved
  <1>7. Watched' = Watched /\ Unobserved' = Unobserved
    BY <1>1 DEF Watched, Unobserved
  <1>8. QED
    BY <1>3, <1>4, <1>5, <1>6, <1>7 DEF Tracked

(* The worker takes requests from the channel, and covers what they name. *)
LEMMA ReceiveTracked ==
  ASSUME TypeOK, Tracked, Receive \/ Drain
  PROVE  Tracked'
  <1>1. UNCHANGED <<provider, source, valid, events, facts, missed>>
    BY DEF Receive, Drain, cache
  <1>2. /\ worker \in Workers /\ queue \in Seq(RefreshRequests)
        /\ \A r \in RefreshRequests : FactsOf(r)' = FactsOf(r)
    BY DEF TypeOK, Workers, Outcomes, FactsOf
  <1>3. worker.outcomes = Unobserved /\ worker'.outcomes = Unobserved
    <2>1. worker.pc # "collect"
      BY DEF Receive, Drain
    <2>2. CASE Receive
      BY <1>2, <2>1, <2>2 DEF Receive, Tracked, Workers
    <2>3. CASE Drain
      BY <2>1, <2>3 DEF Drain, Tracked
    <2>4. QED
      BY <2>2, <2>3
  <1>4. Watched' = Watched /\ Unobserved' = Unobserved
    BY <1>1 DEF Watched, Unobserved
  <1>5. \A f \in Watched : worker'.outcomes[f] = None
    BY <1>3, WatchedRefreshed DEF Unobserved
  <1>6. ASSUME NEW f \in Watched, Awaited(f) \/ Covered(f) PROVE Awaited(f)' \/ Covered(f)'
    <2>1. CASE Receive
      <3>1. /\ worker'.pc = "debounce" /\ worker'.request = Head(queue)
            /\ queue # <<>> /\ queue' = Tail(queue) /\ ~Covered(f)
        BY <1>2, <2>1 DEF Receive, Workers, Covered
      <3>2. /\ Head(queue) \in RefreshRequests
            /\ ToSet(queue) \subseteq {Head(queue)} \cup ToSet(queue')
        BY <1>2, <3>1, Channel DEF RefreshRequests
      <3>3. ToSet(queue) \subseteq RefreshRequests
        BY <1>2, Channel DEF RefreshRequests
      <3>4. QED
        BY <1>1, <1>2, <1>5, <1>6, <3>1, <3>2, <3>3 DEF Awaited, Covered
    <2>2. CASE Drain
      <3>1. {worker.request} \cup ToSet(queue) \subseteq RefreshRequests
        BY <1>2, Channel DEF Workers, RefreshRequests
      <3>2. /\ worker'.pc = "collect"
            /\ worker'.request = Combined({worker.request} \cup ToSet(queue))
        BY <1>2, <2>2 DEF Drain, Workers
      <3>3. /\ worker'.request \in RefreshRequests
            /\ \A r \in {worker.request} \cup ToSet(queue) :
                 FactsOf(r) \subseteq FactsOf(worker'.request)
        BY <3>1, <3>2, CombinedCovers
      <3>4. QED
        BY <1>1, <1>2, <1>5, <1>6, <3>2, <3>3 DEF Awaited, Covered
    <2>3. QED
      BY <2>1, <2>2
  <1>7. \A f \in Watched : Stale(f)' => Stale(f)
    BY <1>1 DEF Stale
  <1>8. QED
    BY <1>3, <1>4, <1>5, <1>6, <1>7 DEF Tracked

(* What the worker observes is what the source gives, or it timed out. *)
LEMMA ObserveTracked ==
  ASSUME TypeOK, Tracked, NEW g \in Facts, Observe(g) \/ ObserveTimesOut(g)
  PROVE  Tracked'
  <1>1. UNCHANGED <<provider, source, valid, events, facts, queue>>
    BY DEF Observe, ObserveTimesOut, cache
  <1>2. /\ worker \in Workers /\ worker.pc = "collect"
        /\ worker.outcomes[g] = None /\ g \in FactsOf(worker.request)
    BY DEF Observe, ObserveTimesOut, ToObserve, TypeOK, Workers, Outcomes
  <1>3. PICK o \in Outcomes :
          /\ worker' = [worker EXCEPT !.outcomes = o]
          /\ \A f \in Facts \ {g} : o[f] = worker.outcomes[f]
          /\ \/ o[g] = source[g] /\ missed' = missed \ {g}
             \/ missed' = missed \cup {g}
    <2>1. CASE Observe(g)
      <3>1. [worker.outcomes EXCEPT ![g] = source[g]] \in Outcomes
        BY <1>2 DEF TypeOK, Workers, Outcomes, Errors
      <3>2. QED
        BY <1>2, <2>1, <3>1 DEF Observe, Workers, Outcomes
    <2>2. CASE ObserveTimesOut(g)
      <3>1. [worker.outcomes EXCEPT ![g] = Timeout] \in Outcomes
        BY <1>2 DEF Workers, Outcomes, Errors
      <3>2. QED
        BY <1>2, <2>2, <3>1 DEF ObserveTimesOut, Workers, Outcomes
    <2>3. QED
      BY <2>1, <2>2
  <1>4. worker'.pc = "collect" /\ worker'.request = worker.request /\ worker'.outcomes = o
    BY <1>2, <1>3 DEF Workers
  <1>5. Watched' = Watched /\ FactsOf(worker.request)' = FactsOf(worker.request)
    BY <1>1, <1>4 DEF Watched, FactsOf
  <1>6. ASSUME NEW f \in Watched
        PROVE  /\ o[f] \notin {None, source[f]} => Awaited(f)'
               /\ Stale(f) => Awaited(f)' \/ Covered(f)'
    <2>1. f \in Facts
      BY WatchedRefreshed
    <2>2. CASE f = g
      BY <1>1, <1>2, <1>3, <1>4, <1>5, <2>2 DEF Awaited, Covered
    <2>3. CASE f # g
      <3>1. o[f] = worker.outcomes[f] /\ (Covered(f) => Covered(f)')
        BY <1>1, <1>2, <1>3, <1>4, <1>5, <2>1, <2>3 DEF Covered
      <3>2. Awaited(f) => Awaited(f)'
        BY <1>1, <1>3, <2>3 DEF Awaited, FactsOf
      <3>3. QED
        BY <3>1, <3>2 DEF Tracked
    <2>4. QED
      BY <2>2, <2>3
  <1>7. \A f \in Watched : Stale(f)' => Stale(f)
    BY <1>1 DEF Stale
  <1>8. QED
    BY <1>1, <1>4, <1>5, <1>6, <1>7 DEF Tracked

(* A fixture is read as it is, or cannot be read and nothing is stale. *)
LEMMA LoadTracked ==
  ASSUME TypeOK, Tracked, LoadFixture
  PROVE  Tracked'
  <1>1. UNCHANGED <<provider, source, valid, events, facts, queue>>
    BY DEF LoadFixture, cache
  <1>2. worker \in Workers /\ worker.pc = "collect"
    BY DEF LoadFixture, TypeOK, Workers, Outcomes
  <1>3. /\ worker'.pc = IF valid THEN "collect" ELSE "invalid"
        /\ worker'.request = worker.request
        /\ worker'.outcomes = [f \in Facts |->
             IF f \in FactsOf(worker.request) /\ valid THEN source[f] ELSE None]
        /\ missed' = missed \ FactsOf(worker.request)
    BY <1>2 DEF LoadFixture, Workers
  <1>4. Watched' = Watched /\ Unobserved' = Unobserved
        /\ FactsOf(worker.request)' = FactsOf(worker.request)
    BY <1>1, <1>3 DEF Watched, Unobserved, FactsOf
  <1>5. worker'.pc # "collect" => worker'.outcomes = Unobserved'
    BY <1>3, <1>4 DEF Unobserved
  <1>6. ASSUME NEW f \in Watched
        PROVE  /\ worker'.outcomes[f] \in {None, source'[f]}
               /\ Stale(f)' => Awaited(f)' \/ Covered(f)'
    <2>1. f \in Facts
      BY WatchedRefreshed
    <2>2. worker'.outcomes[f] \in {None, source'[f]}
      BY <1>1, <1>3, <2>1
    <2>3. CASE f \in FactsOf(worker.request)
      BY <1>1, <1>3, <1>4, <2>2, <2>3 DEF Stale, Covered
    <2>4. CASE f \notin FactsOf(worker.request)
      <3>1. Awaited(f) => Awaited(f)'
        BY <1>1, <1>3, <2>4 DEF Awaited, FactsOf
      <3>2. Stale(f)' => Stale(f)
        BY <1>1 DEF Stale
      <3>3. ~Covered(f)
        BY <2>4 DEF Covered
      <3>4. QED
        BY <2>2, <3>1, <3>2, <3>3 DEF Tracked
    <2>5. QED
      BY <2>2, <2>3, <2>4
  <1>7. QED
    BY <1>4, <1>5, <1>6 DEF Tracked

(* Every step keeps track of every change. *)
LEMMA NextTracked == TypeOK /\ Tracked /\ [Next]_vars => Tracked'
  <1> SUFFICES ASSUME TypeOK, Tracked, [Next]_vars PROVE Tracked'
    OBVIOUS
  <1>1. ASSUME NEW f \in Facts, NEW v \in Values \cup {Failed}, ChangeSource(f, v) PROVE Tracked'
    <2>1. \A g \in Facts \ {f} : source'[g] = source[g]
      BY <1>1 DEF ChangeSource, TypeOK
    <2>2. QED
      BY <1>1, <2>1, ChangeTracked DEF ChangeSource, cache
  <1>2. CASE ChangeFixture
    BY <1>2, ChangeTracked DEF ChangeFixture, cache
  <1>3. CASE UNCHANGED vars
    BY <1>3 DEF vars, cache, Tracked, Watched, Unobserved, Awaited, Covered, Stale, FactsOf
  <1>4. QED
    BY <1>1, <1>2, <1>3, ChannelTracked, RefreshedTracked, ReceiveTracked, ObserveTracked,
       LoadTracked
    DEF Next, WorkerStep

(* No change of a watched source gets lost on its way into the cache,      *)
(* except where the daemon could not learn of it in time (start_watcher,   *)
(* combine_refresh, refresh_worker).                                       *)
THEOREM NoChangeIsEverLost == Spec => []NoChangeIsLost
  <1>1. Init => Tracked
    BY WatchedRefreshed DEF Init, Tracked, Unobserved, Covered, FactsOf
  <1>2. Tracked => NoChangeIsLost
    BY DEF Tracked, NoChangeIsLost, Awaited, Covered, Underway
  <1>3. QED
    BY <1>1, <1>2, TypeCorrect, NextTracked, PTL DEF Spec
-----------------------------------------------------------------------------
(* Requests.                                                               *)

(* What the worker has to do it keeps until it has done it: a request goes *)
(* from the channel to the worker, and the worker asks for no less than    *)
(* before until it is idle.                                                *)
RequestsKept ==
  /\ \A r \in ToSet(queue) :
       \/ r \in ToSet(queue')
       \/ worker'.pc \in {"debounce", "collect"} /\ FactsOf(r) \subseteq FactsOf(worker'.request)
  /\ worker.pc # "idle" =>
       worker'.pc = "idle" \/ FactsOf(worker.request) \subseteq FactsOf(worker'.request)

(* No step loses a request or a part of one. *)
LEMMA NextKeepsRequests == TypeOK /\ [Next]_vars => RequestsKept
  <1> SUFFICES ASSUME TypeOK, [Next]_vars PROVE RequestsKept
    OBVIOUS
  <1>1. worker \in Workers /\ queue \in Seq(RefreshRequests)
    BY DEF TypeOK, Workers, Outcomes
  <1>2. ToSet(queue) \subseteq RefreshRequests
    BY <1>1, Channel DEF RefreshRequests
  <1>3. ASSUME worker'.request = worker.request,
               queue' = queue \/ \E r \in RefreshRequests : queue' = Append(queue, r)
        PROVE  RequestsKept
    BY <1>1, <1>3, Channel DEF RequestsKept
  <1>4. CASE Receive
    <2>1. /\ worker'.pc = "debounce" /\ worker'.request = Head(queue)
          /\ worker.pc = "idle" /\ queue # <<>> /\ queue' = Tail(queue)
      BY <1>1, <1>4 DEF Receive, Workers
    <2>2. ToSet(queue) \subseteq {Head(queue)} \cup ToSet(queue')
      BY <1>1, <2>1, Channel DEF RefreshRequests
    <2>3. QED
      BY <2>1, <2>2 DEF RequestsKept
  <1>5. CASE Drain
    <2>1. {worker.request} \cup ToSet(queue) \subseteq RefreshRequests
      BY <1>1, <1>2 DEF Workers
    <2>2. /\ worker'.pc = "collect"
          /\ worker'.request = Combined({worker.request} \cup ToSet(queue))
      BY <1>5 DEF Drain
    <2>3. \A r \in {worker.request} \cup ToSet(queue) :
            FactsOf(r) \subseteq FactsOf(worker'.request)
      BY <2>1, <2>2, CombinedCovers
    <2>4. QED
      BY <2>2, <2>3 DEF RequestsKept
  <1>6. CASE LoadFixture \/ Apply \/ RecordProviderError
             \/ \E f \in Facts : Observe(f) \/ ObserveTimesOut(f)
    <2>1. worker'.request = worker.request /\ queue' = queue
      BY <1>1, <1>6
      DEF LoadFixture, Apply, RecordProviderError, Refreshed, Observe, ObserveTimesOut, Workers
    <2>2. QED
      BY <1>3, <2>1
  <1>7. CASE DynamicTimer \/ FullTimer \/ \E f \in Facts : Deliver(f)
    <2>1. worker' = worker
      BY <1>7 DEF DynamicTimer, FullTimer, TimerFires, Deliver
    <2>2. queue' = queue \/ \E r \in RefreshRequests : queue' = Append(queue, r)
      BY <1>7 DEF DynamicTimer, FullTimer, TimerFires, Deliver, Notification, RefreshRequests
    <2>3. QED
      BY <1>3, <2>1, <2>2
  <1>8. CASE UNCHANGED <<queue, worker>>
    BY <1>3, <1>8
  <1>9. QED
    BY <1>4, <1>5, <1>6, <1>7, <1>8
    DEF Next, WorkerStep, vars, cache, Serve, ChangeSource, ChangeFixture

(* For any catalog, any capacity and any order of notifications, timers    *)
(* and refreshes, no request that is in the channel or with the worker is  *)
(* ever dropped or narrowed before a refresh has carried it out            *)
(* (combine_refresh, refresh_worker).                                      *)
THEOREM RequestsAreNeverLost == Spec => [][RequestsKept]_vars
  <1>1. TypeOK /\ [Next]_vars => [RequestsKept]_vars
    BY NextKeepsRequests
  <1>2. QED
    BY <1>1, TypeCorrect, PTL DEF Spec

-----------------------------------------------------------------------------
(* Work comes to an end.                                                   *)

(* A worker that collects has outcomes only of facts that were asked for;  *)
(* from a fixture it has all of them or none.                              *)
Collected ==
  worker.pc = "collect" =>
    /\ \A f \in Facts \ FactsOf(worker.request) : worker.outcomes[f] = None
    /\ provider = "fixture" => ToObserve \in {{}, FactsOf(worker.request)}

(* Every step keeps that. *)
LEMMA NextCollected == TypeOK /\ Collected /\ [Next]_vars => Collected'
  <1> SUFFICES ASSUME TypeOK, Collected, [Next]_vars PROVE Collected'
    OBVIOUS
  <1>1. worker \in Workers /\ FactsOf(worker.request) \subseteq Facts
    BY FactsOfType DEF TypeOK, Workers, Outcomes
  <1>2. \A r \in RefreshRequests : FactsOf(r)' = FactsOf(r)
    BY DEF FactsOf
  <1>3. CASE UNCHANGED <<provider, worker>>
    BY <1>3 DEF Collected, ToObserve, FactsOf
  <1>4. CASE worker'.pc # "collect"
    BY <1>4 DEF Collected
  <1>5. CASE Drain
    <2>1. /\ worker'.outcomes = [f \in Facts |-> None] /\ worker'.pc = "collect"
          /\ worker'.request = Combined({worker.request} \cup ToSet(queue))
      BY <1>5 DEF Drain, Unobserved
    <2>2. {worker.request} \cup ToSet(queue) \subseteq RefreshRequests
      BY <1>1, Channel DEF TypeOK, Workers, RefreshRequests
    <2>3. worker'.request \in RefreshRequests
      BY <2>1, <2>2, CombinedCovers
    <2>4. FactsOf(worker.request)' \subseteq Facts
      BY <2>3, FactsOfType DEF FactsOf
    <2>5. ToObserve' = FactsOf(worker.request)'
      BY <2>1, <2>4 DEF ToObserve
    <2>6. QED
      BY <2>1, <2>5 DEF Collected
  <1>6. CASE LoadFixture /\ valid
    <2>1. /\ worker'.pc = "collect" /\ worker'.request = worker.request
          /\ worker'.outcomes = [f \in Facts |->
               IF f \in FactsOf(worker.request) THEN source[f] ELSE None]
      BY <1>1, <1>6 DEF LoadFixture, Workers
    <2>2. FactsOf(worker.request)' = FactsOf(worker.request)
      BY <2>1 DEF FactsOf
    <2>3. \A f \in Facts : source[f] # None
      BY StatedAssumption DEF TypeOK, Errors
    <2>4. ToObserve' = {}
      BY <1>1, <2>1, <2>2, <2>3 DEF ToObserve
    <2>5. QED
      BY <2>1, <2>2, <2>4 DEF Collected
  <1>7. ASSUME NEW f \in Facts, Observe(f) \/ ObserveTimesOut(f) PROVE Collected'
    <2>1. provider' = "live" /\ worker.pc = "collect" /\ f \in FactsOf(worker.request)
      BY <1>7 DEF Observe, ObserveTimesOut, ToObserve
    <2>2. /\ worker'.request = worker.request
          /\ \A g \in Facts \ {f} : worker'.outcomes[g] = worker.outcomes[g]
      BY <1>1, <1>7 DEF Observe, ObserveTimesOut, Workers, Outcomes
    <2>3. FactsOf(worker.request)' = FactsOf(worker.request)
      BY <2>2 DEF FactsOf
    <2>4. QED
      BY <2>1, <2>2, <2>3 DEF Collected
  <1>8. CASE Receive \/ Apply \/ RecordProviderError \/ (LoadFixture /\ ~valid)
    <2>1. worker'.pc # "collect"
      BY <1>1, <1>8 DEF Receive, Apply, RecordProviderError, Refreshed, LoadFixture, Workers
    <2>2. QED
      BY <1>4, <2>1
  <1>9. QED
    BY <1>3, <1>5, <1>6, <1>7, <1>8
    DEF Next, WorkerStep, vars, cache, Serve, ChangeSource, ChangeFixture, Deliver,
        DynamicTimer, FullTimer, TimerFires

(* The worker has something to do. *)
HasWork == worker.pc # "idle" \/ queue # <<>>

(* And can do it: the guards of Receive, Drain, Observe, LoadFixture,      *)
(* Apply and RecordProviderError.                                          *)
CanWork ==
  \/ worker.pc \in {"debounce", "invalid"}
  \/ worker.pc = "idle" /\ phase # "collect" /\ queue # <<>>
  \/ /\ worker.pc = "collect"
     /\ \/ ToObserve = {}
        \/ provider = "live" /\ \E f \in Facts : f \in ToObserve
        \/ provider = "fixture" /\ ToObserve = FactsOf(worker.request)

(* A worker with something to do can do it, and a timer waits for room in  *)
(* the channel only while the worker can go on and make room.              *)
WorkIsNeverStuck ==
  /\ HasWork => CanWork
  /\ phase # "collect" => Len(queue) < Capacity \/ CanWork

(* For any catalog and any capacity the worker, the watcher and the timers *)
(* never wait for each other in a circle, whatever fails or times out      *)
(* (refresh_worker, the bounded channel).                                  *)
THEOREM NobodyIsEverStuck == Spec => []WorkIsNeverStuck
  <1>1. Init => Filled /\ Collected
    <2> SUFFICES ASSUME Init PROVE Filled /\ Collected
      OBVIOUS
    <2>1. worker.pc = "collect" /\ worker.request = "all" /\ worker.outcomes = [f \in Facts |-> None]
      BY DEF Init, Unobserved
    <2>2. FactsOf(worker.request) = Facts
      BY <2>1 DEF FactsOf
    <2>3. QED
      BY <2>1, <2>2 DEF Init, Filled, Collected, ToObserve
  <1>2. TypeOK /\ Filled /\ Collected => WorkIsNeverStuck
    <2> SUFFICES ASSUME TypeOK, Filled, Collected PROVE WorkIsNeverStuck
      OBVIOUS
    <2>1. worker \in Workers /\ FactsOf(worker.request) \subseteq Facts /\ provider \in {"live", "fixture"}
      BY FactsOfType, StatedAssumption DEF TypeOK, Workers, Outcomes
    <2>2. HasWork => CanWork
      <3>1. CASE worker.pc = "idle"
        BY <3>1 DEF Filled, HasWork, CanWork
      <3>2. CASE worker.pc = "collect"
        <4>1. ToObserve \subseteq Facts
          BY <2>1 DEF ToObserve
        <4>2. ToObserve = {} \/ \E f \in Facts : f \in ToObserve
          BY <4>1
        <4>3. QED
          BY <2>1, <3>2, <4>2 DEF Collected, CanWork
      <3>3. QED
        BY <2>1, <3>1, <3>2 DEF Workers, CanWork
    <2>3. Len(queue) < Capacity \/ queue # <<>>
      <3>1. Capacity \in Nat \ {0}
        BY StatedAssumption
      <3>2. Len(<<>>) = 0
        OBVIOUS
      <3>3. QED
        BY <3>1, <3>2
    <2>4. QED
      BY <2>2, <2>3 DEF HasWork, WorkIsNeverStuck
  <1>3. QED
    BY <1>1, <1>2, TypeCorrect, NextFilled, NextCollected, PTL DEF Spec

(* The facts that a worker with these outcomes still has to observe. *)
Open(w) == {f \in FactsOf(w.request) : w.outcomes[f] = None}

(* A refresh only goes on: from the debounce time to the collection, there *)
(* from fact to fact, to the cache, never back and never in a circle.      *)
Onward ==
  \/ worker.pc = "idle"
  \/ worker' = worker
  \/ worker.pc = "debounce" /\ worker'.pc = "collect"
  \/ worker.pc \in {"collect", "invalid"} /\ worker'.pc = "idle"
  \/ worker.pc = "collect" /\ worker'.pc = "invalid"
  \/ /\ worker.pc = "collect" /\ worker'.pc = "collect"
     /\ worker'.request = worker.request
     /\ Open(worker') \subseteq Open(worker) /\ Open(worker') # Open(worker)

(* Every step of a busy worker takes its refresh on. *)
LEMMA NextOnward == TypeOK /\ Collected /\ [Next]_vars => Onward
  <1> SUFFICES ASSUME TypeOK, Collected, [Next]_vars PROVE Onward
    OBVIOUS
  <1>1. worker \in Workers /\ FactsOf(worker.request) \subseteq Facts
    BY FactsOfType DEF TypeOK, Workers, Outcomes
  <1>2. CASE UNCHANGED worker
    BY <1>2 DEF Onward
  <1>3. CASE Receive \/ Drain
    BY <1>3 DEF Receive, Drain, Onward
  <1>4. CASE Apply \/ RecordProviderError
    BY <1>1, <1>4 DEF Apply, RecordProviderError, Refreshed, Onward, Workers
  <1>5. CASE LoadFixture
    <2>1. PICK o \in Outcomes :
            /\ worker' = [worker EXCEPT !.pc = IF valid THEN "collect" ELSE "invalid",
                                        !.outcomes = o]
            /\ o = [f \in Facts |-> IF f \in FactsOf(worker.request) /\ valid THEN source[f] ELSE None]
      <3>1. [f \in Facts |-> IF f \in FactsOf(worker.request) /\ valid THEN source[f] ELSE None]
              \in Outcomes
        BY DEF TypeOK, Outcomes, Errors
      <3>2. QED
        BY <1>5, <3>1 DEF LoadFixture
    <2>2. /\ worker.pc = "collect" /\ worker'.outcomes = o /\ worker'.request = worker.request
          /\ worker'.pc = IF valid THEN "collect" ELSE "invalid"
      BY <1>1, <1>5, <2>1 DEF LoadFixture, Workers
    <2>3. CASE ~valid
      BY <2>2, <2>3 DEF Onward
    <2>4. CASE valid /\ FactsOf(worker.request) = {}
      <3>1. worker.outcomes = o
        BY <1>1, <2>1, <2>2, <2>4 DEF Collected, Workers, Outcomes
      <3>2. worker' = worker
        BY <1>1, <2>1, <2>2, <2>4, <3>1 DEF Workers
      <3>3. QED
        BY <3>2 DEF Onward
    <2>5. CASE valid /\ FactsOf(worker.request) # {}
      <3>1. \A f \in Facts : source[f] # None
        BY StatedAssumption DEF TypeOK, Errors
      <3>2. Open(worker') = {}
        BY <1>1, <2>1, <2>2, <2>5, <3>1 DEF Open
      <3>3. Open(worker) = FactsOf(worker.request)
        BY <1>5, <2>2 DEF LoadFixture, ToObserve, Open
      <3>4. QED
        BY <2>2, <2>5, <3>2, <3>3 DEF Onward
    <2>6. QED
      BY <2>3, <2>4, <2>5
  <1>6. ASSUME NEW f \in Facts, Observe(f) \/ ObserveTimesOut(f) PROVE Onward
    <2>1. worker.pc = "collect" /\ f \in Open(worker)
      BY <1>6 DEF Observe, ObserveTimesOut, ToObserve, Open
    <2>2. PICK v \in Values \cup Errors : worker' = [worker EXCEPT !.outcomes[f] = v]
      BY <1>6 DEF Observe, ObserveTimesOut, TypeOK, Errors
    <2>3. /\ worker'.pc = "collect" /\ worker'.request = worker.request
          /\ worker'.outcomes = [worker.outcomes EXCEPT ![f] = v]
      BY <1>1, <2>1, <2>2 DEF Workers
    <2>4. /\ worker'.outcomes[f] # None
          /\ \A g \in Facts \ {f} : worker'.outcomes[g] = worker.outcomes[g]
      BY <1>1, <2>2, <2>3, StatedAssumption DEF Workers, Outcomes
    <2>5. Open(worker') \subseteq Open(worker) /\ f \notin Open(worker')
      BY <1>1, <2>3, <2>4 DEF Open
    <2>6. QED
      BY <2>1, <2>3, <2>5 DEF Onward
  <1>7. QED
    BY <1>2, <1>3, <1>4, <1>5, <1>6
    DEF Next, WorkerStep, vars, cache, Serve, ChangeSource, ChangeFixture, Deliver,
        DynamicTimer, FullTimer, TimerFires

(* For any catalog a refresh never goes back or in a circle, whatever      *)
(* changes, fails or times out meanwhile: with finitely many facts it      *)
(* comes to its end if the worker goes on (refresh_worker).                *)
THEOREM RefreshesComeToAnEnd == Spec => [][Onward]_vars
  <1>1. Init => Collected
    <2> SUFFICES ASSUME Init PROVE Collected
      OBVIOUS
    <2>1. worker.pc = "collect" /\ worker.request = "all" /\ worker.outcomes = [f \in Facts |-> None]
      BY DEF Init, Unobserved
    <2>2. FactsOf(worker.request) = Facts
      BY <2>1 DEF FactsOf
    <2>3. QED
      BY <2>1, <2>2 DEF Collected, ToObserve
  <1>2. TypeOK /\ Collected /\ [Next]_vars => [Onward]_vars
    BY NextOnward
  <1>3. QED
    BY <1>1, <1>2, TypeCorrect, NextCollected, PTL DEF Spec
=============================================================================

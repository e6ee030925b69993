---------------------------- MODULE StatedCache ----------------------------
(***************************************************************************)
(* jiritsu-stated serve: how the daemon keeps its cache of facts.  Sources *)
(* change on their own; notifications and two timers put refresh requests  *)
(* into one bounded channel; a single worker combines the requests that    *)
(* wait, observes the facts they name and applies the outcomes.  Queries   *)
(* read the cache at any time once the daemon serves.                      *)
(***************************************************************************)
EXTENDS Naturals, FiniteSets, SequencesExt

CONSTANTS
  Facts,       \* fact IDs of the catalog
  Static,      \* those with RefreshClass::Static, the others are dynamic
  WatchedLive, \* facts whose live source lies under a watched path
  Values,      \* what a parser makes of a source
  Providers,   \* provider configurations of this instance: "live", "fixture"
  Capacity,    \* of the refresh channel (16 in the code)
  MaxChanges,  \* bound: how often a source changes or times out
  None         \* no value, no error, no outcome

Failed  == "source_failed"
Timeout == "source_timeout"
Invalid == "fixture_invalid"
Errors  == {Failed, Timeout, Invalid}

ASSUME StatedAssumption ==
  /\ Static \subseteq Facts /\ WatchedLive \subseteq Static
  /\ Providers \subseteq {"live", "fixture"}
  /\ Capacity \in Nat \ {0} /\ MaxChanges \in Nat
  /\ None \notin Values \cup Errors
  /\ Values \cap Errors = {}

VARIABLES
  provider,    \* the provider configuration, fixed at the start
  source,      \* source[f]: what observing and parsing source f gives now
  valid,       \* the fixture as a whole can be loaded
  phase,       \* serve: "collect" the first time, "spawned" its tasks, "serving"
  watching,    \* the file watcher was set up
  events,      \* facts with a notification on its way to the watcher's callback
  queue,       \* the refresh channel
  worker,      \* the refresh worker
  facts,       \* StateCache.facts, None where there is none
  errors,      \* StateCache.errors, None where there is none
  epoch,       \* StateCache.epoch
  lastErrors,  \* StateCache.last_refresh_errors
  missed,      \* history: facts of which the daemon could not learn in time
  changes      \* how often a source changed or timed out so far

cache == <<facts, errors, epoch, lastErrors>>
vars == <<provider, source, valid, phase, watching, events, queue, worker,
          facts, errors, epoch, lastErrors, missed, changes>>

-----------------------------------------------------------------------------
(* Refresh requests.                                                       *)

RefreshRequests == {"all", "static", "dynamic"}

FactsOf(request) ==
  CASE request = "all"     -> Facts
    [] request = "static"  -> Static
    [] request = "dynamic" -> Facts \ Static

(* combine_refresh *)
Combine(left, right) == IF left = right THEN left ELSE "all"

(* What combining these requests one after another gives, in any order. *)
Combined(requests) ==
  IF \E r \in requests : requests = {r} THEN CHOOSE r \in requests : TRUE ELSE "all"

(* start_watcher: what a notification asks for, and which facts have one.  *)
Notification_Static == "static"

Notification == IF provider = "fixture" THEN "all" ELSE "static"

Watched == IF provider = "fixture" THEN Facts ELSE WatchedLive

-----------------------------------------------------------------------------
(* The machine.                                                            *)

Change == changes < MaxChanges /\ changes' = changes + 1

(* Something happened to the sources of these facts.  Without a watcher    *)
(* nobody is told.                                                         *)
Notify(changed) ==
  IF watching
  THEN events' = events \cup (changed \cap Watched) /\ UNCHANGED missed
  ELSE missed' = missed \cup changed /\ UNCHANGED events

ChangeSource(f, v) ==
  /\ Change
  /\ v # source[f]
  /\ source' = [source EXCEPT ![f] = v]
  /\ Notify({f})
  /\ UNCHANGED <<provider, valid, phase, watching, queue, worker, cache>>

(* A fixture is damaged as a whole, or repaired. *)
ChangeFixture ==
  /\ provider = "fixture"
  /\ Change
  /\ valid' = ~valid
  /\ Notify(Facts)
  /\ UNCHANGED <<provider, source, phase, watching, queue, worker, cache>>

-----------------------------------------------------------------------------
(* The channel.                                                            *)

Deliver_Unbounded(f) ==
  /\ f \in events
  /\ events' = events \ {f}
  /\ queue' = Append(queue, Notification)
  /\ UNCHANGED <<provider, source, valid, phase, watching, worker, cache, missed, changes>>

(* The watcher's callback: try_send drops the request if there is no room, *)
(* and what comes as an error of the watcher is only logged.               *)
Deliver(f) ==
  /\ f \in events
  /\ events' = events \ {f}
  /\ \/ Len(queue) < Capacity /\ queue' = Append(queue, Notification) /\ UNCHANGED missed
     \/ /\ UNCHANGED queue
        /\ missed' = IF \E r \in ToSet(queue) : f \in FactsOf(r)
                     THEN missed ELSE missed \cup {f}
  /\ UNCHANGED <<provider, source, valid, phase, watching, worker, cache, changes>>

(* The timer tasks: send waits for room. *)
TimerFires(request) ==
  /\ phase # "collect"
  /\ Len(queue) < Capacity
  /\ queue' = Append(queue, request)
  /\ UNCHANGED <<provider, source, valid, phase, watching, events, worker, cache,
                 missed, changes>>

DynamicTimer == TimerFires("dynamic")

FullTimer_Dynamic == TimerFires("dynamic")
FullTimer == TimerFires("all")

-----------------------------------------------------------------------------
(* The refresh worker; at the start serve itself does the same once.       *)

Unobserved == [f \in Facts |-> None]

Receive ==
  /\ phase # "collect"
  /\ worker.pc = "idle" /\ queue # <<>>
  /\ worker' = [worker EXCEPT !.pc = "debounce", !.request = Head(queue)]
  /\ queue' = Tail(queue)
  /\ UNCHANGED <<provider, source, valid, phase, watching, events, cache, missed, changes>>

(* After the debounce time, all requests that wait become one. *)
Drain ==
  /\ worker.pc = "debounce"
  /\ worker' = [pc |-> "collect", request |-> Combined({worker.request} \cup ToSet(queue)),
                outcomes |-> Unobserved]
  /\ queue' = <<>>
  /\ UNCHANGED <<provider, source, valid, phase, watching, events, cache, missed, changes>>

ToObserve ==
  IF worker.pc = "collect"
  THEN {f \in FactsOf(worker.request) : worker.outcomes[f] = None} ELSE {}

(* Live sources are observed by a task each, in any order. *)
Observe(f) ==
  /\ provider = "live"
  /\ f \in ToObserve
  /\ worker' = [worker EXCEPT !.outcomes[f] = source[f]]
  /\ missed' = missed \ {f}
  /\ UNCHANGED <<provider, source, valid, phase, watching, events, queue, cache, changes>>

ObserveTimesOut(f) ==
  /\ provider = "live"
  /\ f \in ToObserve
  /\ Change
  /\ worker' = [worker EXCEPT !.outcomes[f] = Timeout]
  /\ missed' = missed \cup {f}
  /\ UNCHANGED <<provider, source, valid, phase, watching, events, queue, cache>>

(* A fixture is read once, and all facts are taken from this reading. *)
LoadFixture ==
  /\ provider = "fixture"
  /\ worker.pc = "collect" /\ ToObserve = FactsOf(worker.request)
  /\ worker' = [worker EXCEPT
       !.pc = IF valid THEN "collect" ELSE "invalid",
       !.outcomes = [f \in Facts |->
         IF f \in FactsOf(worker.request) /\ valid THEN source[f] ELSE None]]
  /\ missed' = missed \ FactsOf(worker.request)
  /\ UNCHANGED <<provider, source, valid, phase, watching, events, queue, cache, changes>>

(* StateCache::apply, and record_provider_error for outcomes that are all  *)
(* errors: facts are replaced, never removed; an error is kept only where  *)
(* there is no fact.                                                       *)
NewErrors_Kept(observed, o) ==
  [f \in Facts |-> IF f \in observed /\ o[f] \in Errors /\ facts[f] = None THEN o[f] ELSE errors[f]]

NewErrors(observed, o) ==
  [f \in Facts |->
     CASE f \in observed /\ o[f] \in Values -> None
       [] f \in observed /\ o[f] \in Errors /\ facts[f] = None -> o[f]
       [] OTHER -> errors[f]]

Changed_NewFactsOnly(observed, o) ==
  \E f \in observed : o[f] \in Values /\ facts[f] # o[f]

Changed(observed, o) ==
  \E f \in observed :
    \/ o[f] \in Values /\ (facts[f] # o[f] \/ errors[f] # None)
    \/ o[f] \in Errors /\ facts[f] = None /\ errors[f] # o[f]

NewFacts(observed, o) ==
  [f \in Facts |-> IF f \in observed /\ o[f] \in Values THEN o[f] ELSE facts[f]]

Refreshed(observed, o) ==
  /\ facts' = NewFacts(observed, o)
  /\ errors' = NewErrors(observed, o)
  /\ lastErrors' = {f \in observed : o[f] \in Errors}
  /\ epoch' = IF Changed(observed, o) THEN epoch + 1 ELSE epoch
  /\ worker' = [worker EXCEPT !.pc = "idle", !.outcomes = Unobserved]
  /\ phase' = IF phase = "collect" THEN "spawned" ELSE phase
  /\ UNCHANGED <<provider, source, valid, watching, events, queue, missed, changes>>

Apply ==
  /\ worker.pc = "collect" /\ ToObserve = {}
  /\ Refreshed(FactsOf(worker.request), worker.outcomes)

RecordProviderError ==
  /\ worker.pc = "invalid"
  /\ Refreshed(FactsOf(worker.request), [f \in Facts |-> Invalid])

(* serve sets the watcher up, unless --no-watch or an error keeps it from  *)
(* that, and accepts connections.                                          *)
Serve ==
  /\ phase = "spawned"
  /\ phase' = "serving"
  /\ watching' \in BOOLEAN
  /\ UNCHANGED <<provider, source, valid, events, queue, worker, cache, missed, changes>>

-----------------------------------------------------------------------------
(* StateCache::query for a selection of facts.                             *)

Status(ids) ==
  CASE {f \in ids : errors[f] # None} = {} -> "ok"
    [] {f \in ids : errors[f] # None} # {} /\ {f \in ids : facts[f] # None} = {} -> "error"
    [] OTHER -> "partial"

-----------------------------------------------------------------------------

Init ==
  /\ provider \in Providers
  /\ source \in [Facts -> Values \cup {Failed}]
  /\ valid \in IF provider = "fixture" THEN BOOLEAN ELSE {TRUE}
  /\ phase = "collect"
  /\ watching = FALSE
  /\ events = {}
  /\ queue = <<>>
  /\ worker = [pc |-> "collect", request |-> "all", outcomes |-> Unobserved]
  /\ facts = [f \in Facts |-> None]
  /\ errors = [f \in Facts |-> None]
  /\ epoch = 0
  /\ lastErrors = {}
  /\ missed = {}
  /\ changes = 0

WorkerStep ==
  \/ Receive \/ Drain \/ LoadFixture \/ Apply \/ RecordProviderError
  \/ \E f \in Facts : Observe(f)

Next ==
  \/ \E f \in Facts :
       \/ \E v \in Values \cup {Failed} : ChangeSource(f, v)
       \/ Deliver(f)
       \/ ObserveTimesOut(f)
  \/ ChangeFixture
  \/ DynamicTimer \/ FullTimer
  \/ WorkerStep
  \/ Serve

Spec == Init /\ [][Next]_vars

(* The runtime runs the daemon's tasks, a source answers or times out, and *)
(* the waiting senders of a channel get room in turn.                      *)
FairSpec ==
  /\ Spec
  /\ WF_vars(WorkerStep) /\ WF_vars(Serve)
  /\ SF_vars(FullTimer)

-----------------------------------------------------------------------------

(* The variables have their types. *)
TypeOK ==
  /\ provider \in Providers
  /\ source \in [Facts -> Values \cup {Failed}]
  /\ valid \in BOOLEAN
  /\ phase \in {"collect", "spawned", "serving"}
  /\ watching \in BOOLEAN
  /\ events \subseteq Facts
  /\ queue \in Seq(RefreshRequests) /\ Len(queue) <= Capacity
  /\ worker \in [pc : {"idle", "debounce", "collect", "invalid"}, request : RefreshRequests,
                 outcomes : [Facts -> Values \cup Errors \cup {None}]]
  /\ facts \in [Facts -> Values \cup {None}]
  /\ errors \in [Facts -> Errors \cup {None}]
  /\ epoch \in Nat
  /\ lastErrors \subseteq Facts
  /\ missed \subseteq Facts
  /\ changes \in 0..MaxChanges

(* From the first refresh on, whatever fails later, every selection gets   *)
(* the status that its facts deserve: ok if all are there, error if none   *)
(* is, partial in between (StateCache::query, which looks at the errors).  *)
AnswersAreComplete ==
  phase # "collect" =>
    \A ids \in (SUBSET Facts) \ {{}} :
      Status(ids) = CASE \A f \in ids : facts[f] # None -> "ok"
                      [] \A f \in ids : facts[f] = None -> "error"
                      [] OTHER -> "partial"

(* The epoch counts: it advances by one with every refresh that changes a  *)
(* fact or the availability of one, and with no other step (apply,         *)
(* record_provider_error).                                                 *)
EpochCountsChanges ==
  [][epoch' = IF <<facts, errors>>' = <<facts, errors>> THEN epoch ELSE epoch + 1]_vars

Stale(f) == valid /\ source[f] \in Values /\ facts[f] # source[f]

(* A refresh that will see the present source of f is on its way. *)
Underway(f) ==
  \/ f \in events
  \/ \E r \in ToSet(queue) : f \in FactsOf(r)
  \/ /\ worker.pc # "idle" /\ f \in FactsOf(worker.request)
     /\ worker.outcomes[f] \in {None, source[f]}

(* No change of a watched source gets lost between notification, channel,  *)
(* combination and collection: the cache holds it, or a refresh that will  *)
(* see it is under way.  Exceptions: a change before the watcher is set    *)
(* up, a notification that the callback drops (an error of the watcher, or *)
(* a full channel) while only requests for other facts wait, and a source  *)
(* that did not answer in time.                                            *)
NoChangeIsLost ==
  \A f \in Watched : Stale(f) => f \in missed \/ Underway(f)

(* Once the sources rest, the cache comes to agree with them for good,     *)
(* missed notifications or not (the full timer, combine_refresh).          *)
CacheCatchesUp == \A f \in Facts : <>[]~Stale(f)
=============================================================================

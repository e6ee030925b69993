---------------------------- MODULE StatedSocket ----------------------------
(***************************************************************************)
(* jiritsu-stated: daemons that start and stop at one socket path, and     *)
(* queries of clients.  A socket that is bound accepts connections into    *)
(* its backlog before the daemon reads them; whether a socket is stale is  *)
(* found out by connecting to it; removing it names the path, not the      *)
(* socket that was examined.                                               *)
(***************************************************************************)
EXTENDS Naturals, FiniteSets

CONSTANTS
  Daemons,     \* daemon processes, each may start again after it ended
  Clients,     \* query commands, each may ask again
  Limit,       \* CONNECTION_LIMIT (64 in the code)
  MaxStarts,   \* bound: how many daemons start
  MaxCrashes,  \* bound: how many of them are killed
  MaxQueries,  \* bound: how many queries are asked
  MaxMisses,   \* bound: how often a daemon that listens is taken for a dead one
  None         \* nothing at the path, no daemon

ASSUME SocketAssumption ==
  /\ None \notin Daemons \cup [owner : Daemons, live : BOOLEAN]
  /\ Limit \in Nat \ {0}
  /\ MaxStarts \in Nat /\ MaxCrashes \in Nat /\ MaxQueries \in Nat /\ MaxMisses \in Nat

VARIABLES
  path,     \* the socket at the path: who bound it, and does it still listen
  daemon,   \* daemon[d]: where in serve daemon d is
  client,   \* client[c]: where in its query client c is, and with which daemon
  backlog,  \* backlog[d]: the clients whose connections d has not accepted yet
  permits,  \* permits[d]: the clients whose connections d handles
  overlap,  \* history: daemons started or stopped at overlapping times
  misses,   \* history, bounded: failed probes of a daemon that listens
  starts, crashes, queries   \* what the bounds count

counts == <<starts, crashes, queries>>
vars == <<path, daemon, client, backlog, permits, overlap, misses, starts, crashes, queries>>

-----------------------------------------------------------------------------

Starting == {"inspect", "connect", "remove", "bind", "chmod", "collect"}

Live == path # None /\ path.live

ServedAt(d) == path # None /\ path.owner = d /\ path.live

(* The socket of d stops listening, if it is still at the path. *)
Closed(d) == IF ServedAt(d) THEN [path EXCEPT !.live = FALSE] ELSE path

(* The connections of d end, those that wait or those it handles. *)
CutOff(d, where) ==
  [c \in Clients |->
     IF client[c].with = d /\ client[c].pc \in where
     THEN [client[c] EXCEPT !.pc = "failed"] ELSE client[c]]

Becomes(d, pc) == daemon' = [daemon EXCEPT ![d] = pc]

Quiet == UNCHANGED <<client, backlog, permits, overlap, counts>>

StaysPut == Quiet /\ UNCHANGED misses

-----------------------------------------------------------------------------
(* prepare_socket_path and the start of serve.                             *)

Start(d) ==
  /\ daemon[d] = "off"
  /\ starts < MaxStarts
  /\ starts' = starts + 1
  /\ Becomes(d, "inspect")
  /\ overlap' = (overlap \/ \E e \in Daemons : daemon[e] \in Starting \cup {"unlink"})
  /\ UNCHANGED <<path, client, backlog, permits, misses, crashes, queries>>

Inspect(d) ==
  /\ daemon[d] = "inspect"
  /\ Becomes(d, IF path = None THEN "bind" ELSE "connect")
  /\ UNCHANGED path /\ StaysPut

ProbeOutcome_AlwaysStale == "remove"

(* daemon_already_running, if something accepts connections there. *)
ProbeOutcome == IF Live THEN "off" ELSE "remove"

(* Any error of the connection attempt, and no answer within 200 ms, count *)
(* as a stale socket, also if a daemon listens there whose backlog is full.*)
Connect(d) ==
  /\ daemon[d] = "connect"
  /\ \/ Becomes(d, ProbeOutcome) /\ UNCHANGED misses
     \/ Live /\ misses < MaxMisses /\ misses' = misses + 1 /\ Becomes(d, "remove")
  /\ UNCHANGED path /\ Quiet

Remove_NotRemoved(d) ==
  /\ daemon[d] = "remove"
  /\ Becomes(d, "bind")
  /\ UNCHANGED path /\ StaysPut

(* Whatever is at the path now goes; socket_cleanup_failed if nothing is. *)
Remove(d) ==
  /\ daemon[d] = "remove"
  /\ path' = None
  /\ Becomes(d, IF path = None THEN "off" ELSE "bind")
  /\ StaysPut

(* socket_bind_failed, if something is at the path. *)
Bind(d) ==
  /\ daemon[d] = "bind"
  /\ path' = IF path = None THEN [owner |-> d, live |-> TRUE] ELSE path
  /\ Becomes(d, IF path = None THEN "chmod" ELSE "off")
  /\ StaysPut

(* set_permissions names the path, too: if nothing is there any more, the  *)
(* listener is dropped and remove_socket follows.                          *)
Chmod(d) ==
  /\ daemon[d] = "chmod"
  /\ Becomes(d, IF path = None THEN "unlink" ELSE "collect")
  /\ IF path = None
     THEN client' = CutOff(d, {"queued"}) /\ backlog' = [backlog EXCEPT ![d] = {}]
     ELSE UNCHANGED <<client, backlog>>
  /\ UNCHANGED <<path, permits, overlap, misses, counts>>

(* The initial refresh is done; from now on connections are accepted. *)
Ready(d) ==
  /\ daemon[d] = "collect"
  /\ Becomes(d, "serving")
  /\ UNCHANGED path /\ StaysPut

-----------------------------------------------------------------------------
(* The end of a daemon.                                                    *)

(* A shutdown signal: the listener is dropped and its backlog with it; the *)
(* path comes after it, and connections that are handled go on till then.  *)
Shutdown(d) ==
  /\ daemon[d] = "serving"
  /\ Becomes(d, "unlink")
  /\ path' = Closed(d)
  /\ client' = CutOff(d, {"queued"})
  /\ backlog' = [backlog EXCEPT ![d] = {}]
  /\ overlap' = (overlap \/ \E e \in Daemons : daemon[e] \in Starting \cup {"unlink"})
  /\ UNCHANGED <<permits, misses, counts>>

(* remove_socket, whoever's socket it is by now, and the process ends. *)
Unlink(d) ==
  /\ daemon[d] = "unlink"
  /\ path' = None
  /\ Becomes(d, "off")
  /\ client' = CutOff(d, {"handled"})
  /\ permits' = [permits EXCEPT ![d] = {}]
  /\ UNCHANGED <<backlog, overlap, misses, counts>>

(* Killed: the socket stays where it is, and nobody listens to it. *)
Crash(d) ==
  /\ daemon[d] # "off"
  /\ crashes < MaxCrashes
  /\ crashes' = crashes + 1
  /\ Becomes(d, "off")
  /\ path' = Closed(d)
  /\ client' = CutOff(d, {"queued", "handled"})
  /\ backlog' = [backlog EXCEPT ![d] = {}]
  /\ permits' = [permits EXCEPT ![d] = {}]
  /\ UNCHANGED <<overlap, misses, starts, queries>>

-----------------------------------------------------------------------------
(* A query: the daemon first, the sources directly if that fails.          *)

ClientBecomes(c, pc, d) == client' = [client EXCEPT ![c] = [pc |-> pc, with |-> d]]

(* A connection is closed when its query is over, but the daemon may still *)
(* find it in its backlog.  No connection is made if nothing listens, and  *)
(* maybe none if something does.                                           *)
Ask(c) ==
  /\ client[c].pc \in {"idle", "answered", "busy", "direct", "refused"}
  /\ \A d \in Daemons : c \notin backlog[d] \cup permits[d]   \* no connection under c's name
  /\ queries < MaxQueries
  /\ queries' = queries + 1
  /\ \/ /\ Live
        /\ ClientBecomes(c, "queued", path.owner)
        /\ backlog' = [backlog EXCEPT ![path.owner] = @ \cup {c}]
     \/ ClientBecomes(c, "failed", None) /\ UNCHANGED backlog
  /\ UNCHANGED <<path, daemon, permits, overlap, misses, starts, crashes>>

(* The client of the connection, if it still waits for d, is now at pc. *)
Served(d, c, from, pc) ==
  client' = IF client[c] = [pc |-> from, with |-> d]
            THEN [client EXCEPT ![c].pc = pc] ELSE client

Accept_NoLimit(d, c) ==
  /\ c \in backlog[d] /\ daemon[d] = "serving"
  /\ backlog' = [backlog EXCEPT ![d] = @ \ {c}]
  /\ permits' = [permits EXCEPT ![d] = @ \cup {c}] /\ Served(d, c, "queued", "handled")
  /\ UNCHANGED <<path, daemon, overlap, misses, counts>>

(* The accept loop: a connection gets a permit, or the answer daemon_busy, *)
(* which the client takes for an answer; also if the client has left.      *)
Accept(d, c) ==
  /\ c \in backlog[d] /\ daemon[d] = "serving"
  /\ backlog' = [backlog EXCEPT ![d] = @ \ {c}]
  /\ IF Cardinality(permits[d]) < Limit
     THEN permits' = [permits EXCEPT ![d] = @ \cup {c}] /\ Served(d, c, "queued", "handled")
     ELSE UNCHANGED permits /\ Served(d, c, "queued", "busy")
  /\ UNCHANGED <<path, daemon, overlap, misses, counts>>

Handle_KeepsPermit(d, c) ==
  /\ c \in permits[d]
  /\ Served(d, c, "handled", "answered")
  /\ permits' = [permits EXCEPT ![d] = IF client' = client THEN @ ELSE @ \ {c}]
  /\ UNCHANGED <<path, daemon, backlog, overlap, misses, counts>>

(* handle_connection writes its answer and gives the permit back; for a    *)
(* client that left, the write fails.                                      *)
Handle(d, c) ==
  /\ c \in permits[d]
  /\ permits' = [permits EXCEPT ![d] = @ \ {c}]
  /\ Served(d, c, "handled", "answered")
  /\ UNCHANGED <<path, daemon, backlog, overlap, misses, counts>>

(* The client waits no longer than its timeout; its connection stays where *)
(* it is until the daemon finds it.                                        *)
GiveUp(c) ==
  /\ client[c].pc \in {"queued", "handled"}
  /\ ClientBecomes(c, "failed", None)
  /\ UNCHANGED <<path, daemon, backlog, permits, overlap, misses, counts>>

FallBack_NotConnectedOnly(c) ==
  /\ client[c].pc = "failed" /\ client[c].with = None
  /\ \E pc \in {"direct", "refused"} : ClientBecomes(c, pc, None)
  /\ UNCHANGED <<path, daemon, backlog, permits, overlap, misses, counts>>

(* Any error of query_daemon leads to direct_response, or, for a query     *)
(* with --require-daemon, to an error response.                            *)
FallBack(c) ==
  /\ client[c].pc = "failed"
  /\ \E pc \in {"direct", "refused"} : ClientBecomes(c, pc, None)
  /\ UNCHANGED <<path, daemon, backlog, permits, overlap, misses, counts>>

-----------------------------------------------------------------------------

Init ==
  /\ path = None
  /\ daemon = [d \in Daemons |-> "off"]
  /\ client = [c \in Clients |-> [pc |-> "idle", with |-> None]]
  /\ backlog = [d \in Daemons |-> {}]
  /\ permits = [d \in Daemons |-> {}]
  /\ overlap = FALSE /\ misses = 0
  /\ starts = 0 /\ crashes = 0 /\ queries = 0

DaemonStep(d) ==
  \/ Inspect(d) \/ Connect(d) \/ Remove(d) \/ Bind(d) \/ Chmod(d) \/ Ready(d) \/ Unlink(d)

Next ==
  \/ \E d \in Daemons :
       \/ Start(d) \/ DaemonStep(d) \/ Shutdown(d) \/ Crash(d)
       \/ \E c \in Clients : Accept(d, c) \/ Handle(d, c)
  \/ \E c \in Clients : Ask(c) \/ GiveUp(c) \/ FallBack(c)

Spec == Init /\ [][Next]_vars

(* Every process runs.  Clients time out; whether the daemon is faster is  *)
(* left open.                                                              *)
FairSpec ==
  /\ Spec
  /\ \A d \in Daemons : WF_vars(DaemonStep(d))
  /\ \A d \in Daemons, c \in Clients : WF_vars(Handle(d, c))
  /\ \A c \in Clients : WF_vars(GiveUp(c)) /\ WF_vars(FallBack(c))

-----------------------------------------------------------------------------

(* The variables have their types, and a daemon handles no more than Limit *)
(* connections.                                                            *)
TypeOK ==
  /\ path \in [owner : Daemons, live : BOOLEAN] \cup {None}
  /\ daemon \in [Daemons -> Starting \cup {"off", "serving", "unlink"}]
  /\ client \in [Clients ->
       [pc : {"idle", "queued", "handled", "answered", "busy", "failed", "direct", "refused"},
        with : Daemons \cup {None}]]
  /\ backlog \in [Daemons -> SUBSET Clients]
  /\ permits \in [Daemons -> SUBSET Clients]
  /\ \A d \in Daemons : Cardinality(permits[d]) <= Limit
  /\ overlap \in BOOLEAN /\ misses \in Nat

(* As long as daemons start and stop one after another, killed ones        *)
(* included, and no daemon that listens is taken for a dead one, a daemon  *)
(* that serves is the one at the path, so that there is no second one (the *)
(* connection attempt before remove_file).  What comes of the two          *)
(* exceptions is the subject of the runs with a violation.                 *)
ServingIsReachable ==
  ~overlap /\ misses = 0 =>
    \A d \in Daemons : daemon[d] \in {"collect", "serving"} => ServedAt(d)

(* A daemon that starts alone refuses only if another one serves: what a   *)
(* killed daemon leaves at the path keeps nobody from starting.            *)
RefusesOnlyForActive ==
  [][\A d \in Daemons :
       daemon[d] \in Starting /\ daemon'[d] \in {"off", "unlink"} /\ crashes' = crashes =>
         overlap \/ \E e \in Daemons \ {d} : daemon[e] = "serving" /\ ServedAt(e)]_vars

(* Every query ends with an answer of the daemon or of the sources, or     *)
(* with the refusal it asked for, also if its daemon dies, stops, or has   *)
(* not yet finished its first refresh.                                     *)
QueryEnds ==
  \A c \in Clients :
    client[c].pc \in {"queued", "handled", "failed"} ~>
      client[c].pc \in {"answered", "busy", "direct", "refused"}

(* Every permit comes back, also if the client has left. *)
PermitsReturn ==
  \A d \in Daemons, c \in Clients : c \in permits[d] ~> c \notin permits[d]

(* A daemon that starts removes only a stale socket (README.md, Error      *)
(* behavior), and one that stops only its own: nobody removes a socket at  *)
(* which another daemon accepts connections.  Two daemons that start at    *)
(* once break it, or one that starts while another one stops, or a probe   *)
(* that fails or takes too long.                                           *)
RemovesOnlyStale ==
  [][\A d \in Daemons :
       daemon'[d] # daemon[d] /\ path' = None /\ Live => path.owner = d]_vars
=============================================================================

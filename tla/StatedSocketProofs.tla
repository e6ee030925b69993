------------------------- MODULE StatedSocketProofs -------------------------
(***************************************************************************)
(* Theorems about StatedSocket, for any number of daemons and clients and  *)
(* any limits: the types with the connection limit, what daemons that      *)
(* start and stop one after another may rely on, and, however they start   *)
(* and stop, that connections and permits go together and that queries     *)
(* end.                                                                    *)
(***************************************************************************)
EXTENDS StatedSocket, FiniteSetTheorems, TLAPS

-----------------------------------------------------------------------------
(* Types.                                                                  *)

Types == TypeOK /\ crashes \in Nat /\ \A d \in Daemons : IsFiniteSet(permits[d])

DaemonStates == Starting \cup {"off", "serving", "unlink"}

ClientStates ==
  [pc : {"idle", "queued", "handled", "answered", "busy", "failed", "direct", "refused"},
   with : Daemons \cup {None}]

(* Connections that are cut off belong to clients as before. *)
LEMMA CutOffType ==
  ASSUME Types, NEW d \in Daemons, NEW where
  PROVE  CutOff(d, where) \in [Clients -> ClientStates]
  <1>1. ASSUME NEW c \in Clients PROVE [client[c] EXCEPT !.pc = "failed"] \in ClientStates
    BY DEF Types, TypeOK, ClientStates
  <1>2. client \in [Clients -> ClientStates]
    BY DEF Types, TypeOK, ClientStates
  <1>3. QED
    BY <1>1, <1>2 DEF CutOff

(* A permit more, where there is room, and permits that come back. *)
LEMMA PermitsType ==
  ASSUME Types, NEW d \in Daemons, NEW c \in Clients
  PROVE  /\ Cardinality(permits[d]) < Limit =>
              /\ IsFiniteSet(permits[d] \cup {c})
              /\ Cardinality(permits[d] \cup {c}) <= Limit
         /\ IsFiniteSet(permits[d] \ {c}) /\ Cardinality(permits[d] \ {c}) <= Limit
         /\ IsFiniteSet({}) /\ Cardinality({}) <= Limit
  <1>1. /\ IsFiniteSet(permits[d]) /\ Cardinality(permits[d]) \in Nat
        /\ Cardinality(permits[d]) <= Limit /\ Limit \in Nat \ {0}
    BY SocketAssumption, FS_CardinalityType DEF Types, TypeOK
  <1>2. /\ IsFiniteSet(permits[d] \cup {c})
        /\ Cardinality(permits[d] \cup {c}) \in {Cardinality(permits[d]), Cardinality(permits[d]) + 1}
    BY <1>1, FS_AddElement
  <1>3. /\ IsFiniteSet(permits[d] \ {c})
        /\ Cardinality(permits[d] \ {c}) \in {Cardinality(permits[d]), Cardinality(permits[d]) - 1}
    BY <1>1, FS_RemoveElement
  <1>4. IsFiniteSet({}) /\ Cardinality({}) = 0
    BY FS_EmptySet
  <1>5. QED
    BY <1>1, <1>2, <1>3, <1>4

(* The steps of a daemon keep the types. *)
LEMMA DaemonType ==
  ASSUME Types, NEW d \in Daemons, Start(d) \/ DaemonStep(d) \/ Shutdown(d) \/ Crash(d)
  PROVE  Types'
  <1>1. path' \in [owner : Daemons, live : BOOLEAN] \cup {None}
    <2>1. Closed(d) \in [owner : Daemons, live : BOOLEAN] \cup {None}
      BY DEF Closed, ServedAt, Types, TypeOK
    <2>2. [owner |-> d, live |-> TRUE] \in [owner : Daemons, live : BOOLEAN]
      OBVIOUS
    <2>3. path' \in {path, None, [owner |-> d, live |-> TRUE], Closed(d)}
      BY DEF Start, DaemonStep, Inspect, Connect, Remove, Bind, Chmod, Ready, Unlink, Shutdown,
             Crash
    <2>4. QED
      BY <2>1, <2>2, <2>3 DEF Types, TypeOK
  <1>2. daemon' \in [Daemons -> DaemonStates]
    <2>1. PICK pc \in DaemonStates : Becomes(d, pc)
      BY DEF Start, DaemonStep, Inspect, Connect, ProbeOutcome, Remove, Bind, Chmod, Ready,
             Unlink, Shutdown, Crash, DaemonStates, Starting
    <2>2. QED
      BY <2>1 DEF Becomes, Types, TypeOK, DaemonStates
  <1>3. client' \in [Clients -> ClientStates]
    <2>1. client' = client \/ \E where : client' = CutOff(d, where)
      BY DEF Start, DaemonStep, Inspect, Connect, Remove, Bind, Chmod, Ready, Unlink, Shutdown,
             Crash, StaysPut, Quiet
    <2>2. QED
      BY <2>1, CutOffType DEF Types, TypeOK, ClientStates
  <1>4. /\ permits' \in {permits, [permits EXCEPT ![d] = {}]}
        /\ backlog' \in {backlog, [backlog EXCEPT ![d] = {}]}
    BY DEF Start, DaemonStep, Inspect, Connect, Remove, Bind, Chmod, Ready, Unlink, Shutdown,
           Crash, StaysPut, Quiet
  <1>5. IsFiniteSet({}) /\ Cardinality({}) <= Limit
    BY FS_EmptySet, SocketAssumption
  <1>6. /\ permits' \in [Daemons -> SUBSET Clients]
        /\ backlog' \in [Daemons -> SUBSET Clients]
        /\ \A e \in Daemons : IsFiniteSet(permits'[e]) /\ Cardinality(permits'[e]) <= Limit
    BY <1>4, <1>5 DEF Types, TypeOK
  <1>7. overlap' \in BOOLEAN
    BY DEF Start, DaemonStep, Inspect, Connect, Remove, Bind, Chmod, Ready, Unlink, Shutdown,
           Crash, StaysPut, Quiet, Types, TypeOK
  <1>8. crashes' \in Nat /\ misses' \in Nat
    BY DEF Start, DaemonStep, Inspect, Connect, Remove, Bind, Chmod, Ready, Unlink, Shutdown,
           Crash, StaysPut, Quiet, counts, Types, TypeOK
  <1>9. QED
    BY <1>1, <1>2, <1>3, <1>6, <1>7, <1>8 DEF Types, TypeOK, DaemonStates, ClientStates

(* The steps of a query keep the types. *)
LEMMA ClientType ==
  ASSUME Types, NEW c \in Clients, Ask(c) \/ GiveUp(c) \/ FallBack(c)
  PROVE  Types'
  <1>1. client' \in [Clients -> ClientStates]
    <2>1. PICK pc \in {"queued", "failed", "direct", "refused"}, d \in Daemons \cup {None} :
            ClientBecomes(c, pc, d)
      BY DEF Ask, GiveUp, FallBack, Live, Types, TypeOK
    <2>2. [pc |-> pc, with |-> d] \in ClientStates
      BY DEF ClientStates
    <2>3. QED
      BY <2>1, <2>2 DEF ClientBecomes, ClientStates, Types, TypeOK
  <1>2. backlog' \in [Daemons -> SUBSET Clients]
    <2>1. CASE UNCHANGED backlog
      BY <2>1 DEF Types, TypeOK
    <2>2. CASE Live /\ backlog' = [backlog EXCEPT ![path.owner] = @ \cup {c}]
      BY <2>2 DEF Live, Types, TypeOK
    <2>3. QED
      BY <2>1, <2>2 DEF Ask, GiveUp, FallBack
  <1>3. UNCHANGED <<path, daemon, permits, overlap, misses, crashes>>
    BY DEF Ask, GiveUp, FallBack, counts
  <1>4. QED
    BY <1>1, <1>2, <1>3 DEF Types, TypeOK, ClientStates

(* The steps of a connection keep the types. *)
LEMMA ConnectionType ==
  ASSUME Types, NEW d \in Daemons, NEW c \in Clients, Accept(d, c) \/ Handle(d, c)
  PROVE  Types'
  <1>1. client' \in [Clients -> ClientStates]
    <2>1. PICK pc \in {"handled", "busy", "answered"} :
            client' = client \/ client' = [client EXCEPT ![c] = [client[c] EXCEPT !.pc = pc]]
      BY DEF Accept, Handle, Served
    <2>2. [client[c] EXCEPT !.pc = pc] \in ClientStates
      BY DEF Types, TypeOK, ClientStates
    <2>3. QED
      BY <2>1, <2>2 DEF Types, TypeOK, ClientStates
  <1>2. /\ permits' \in [Daemons -> SUBSET Clients]
        /\ \A e \in Daemons : IsFiniteSet(permits'[e]) /\ Cardinality(permits'[e]) <= Limit
    <2>1. CASE UNCHANGED permits
      BY <2>1 DEF Types, TypeOK
    <2>2. CASE /\ Cardinality(permits[d]) < Limit
               /\ permits' = [permits EXCEPT ![d] = permits[d] \cup {c}]
      BY <2>2, PermitsType DEF Types, TypeOK
    <2>3. CASE permits' = [permits EXCEPT ![d] = permits[d] \ {c}]
      BY <2>3, PermitsType DEF Types, TypeOK
    <2>4. QED
      BY <2>1, <2>2, <2>3 DEF Accept, Handle
  <1>3. backlog' \in [Daemons -> SUBSET Clients]
    BY DEF Accept, Handle, Types, TypeOK
  <1>4. UNCHANGED <<path, daemon, overlap, misses, crashes>>
    BY DEF Accept, Handle, counts
  <1>5. QED
    BY <1>1, <1>2, <1>3, <1>4 DEF Types, TypeOK, ClientStates

(* Every step keeps the types. *)
LEMMA NextType == Types /\ [Next]_vars => Types'
  <1>1. Types /\ UNCHANGED vars => Types'
    BY DEF vars, Types, TypeOK
  <1>2. QED
    BY <1>1, DaemonType, ClientType, ConnectionType DEF Next

(* A daemon has no connections to begin with. *)
LEMMA InitType == Init => Types
  <1> SUFFICES ASSUME Init PROVE Types
    OBVIOUS
  <1>1. IsFiniteSet({}) /\ Cardinality({}) <= Limit
    BY FS_EmptySet, SocketAssumption
  <1>2. \A d \in Daemons : permits[d] = {}
    BY DEF Init
  <1>3. \A d \in Daemons : IsFiniteSet(permits[d]) /\ Cardinality(permits[d]) <= Limit
    BY <1>1, <1>2
  <1>4. /\ client \in [Clients -> ClientStates]
        /\ backlog \in [Daemons -> SUBSET Clients]
        /\ permits \in [Daemons -> SUBSET Clients]
        /\ daemon \in [Daemons -> DaemonStates]
    BY DEF Init, ClientStates, DaemonStates
  <1>5. path \in {None} /\ overlap \in BOOLEAN /\ crashes \in Nat /\ misses \in Nat
    BY DEF Init
  <1>6. QED
    BY <1>3, <1>4, <1>5 DEF Types, TypeOK, ClientStates, DaemonStates

(* The variables have their types, and a daemon handles no more than Limit *)
(* connections at a time (the permits of serve and handle_connection).     *)
THEOREM TypeCorrect == Spec => []TypeOK
  <1>1. Init => Types
    BY InitType
  <1>2. Types => TypeOK
    BY DEF Types
  <1>3. QED
    BY <1>1, <1>2, NextType, PTL DEF Spec

(* The strengthened form of it, for the proofs that rest on it. *)
LEMMA TypesHold == Spec => []Types
  <1>1. QED
    BY InitType, NextType, PTL DEF Spec

-----------------------------------------------------------------------------
(* One daemon after another.                                               *)

Bound    == {"chmod", "collect", "serving"}
Changing == Starting \cup {"unlink"}

(* As long as no two daemons start or stop at once, what the one that does *)
(* has found at the path is still there, and whoever bound it listens.     *)
(* That a daemon which serves is still at the path, and one that removes a *)
(* socket removes a dead one, takes probes that do not err as well: if one *)
(* does, the end of the daemon it was about removes its successor's.       *)
Orderly ==
  ~overlap =>
    /\ \A d, e \in Daemons : daemon[d] \in Changing /\ daemon[e] \in Changing => d = e
    /\ \A d \in Daemons :
         /\ daemon[d] \in {"chmod", "collect"} => ServedAt(d)
         /\ daemon[d] \in {"connect", "remove"} => path # None
         /\ daemon[d] = "bind" => path = None
    /\ Live => daemon[path.owner] \in Bound
    /\ misses = 0 =>
         \A d \in Daemons :
           /\ daemon[d] = "serving" => ServedAt(d)
           /\ daemon[d] \in {"remove", "unlink"} => ~Live

(* Every step keeps order. *)
LEMMA NextOrderly == Types /\ Orderly /\ [Next]_vars => Orderly'
  <1> SUFFICES ASSUME Types, Orderly, [Next]_vars PROVE Orderly'
    OBVIOUS
  <1> USE DEF Live, ServedAt, Bound, Changing, Starting
  <1>1. /\ daemon \in [Daemons -> DaemonStates]
        /\ path \in [owner : Daemons, live : BOOLEAN] \cup {None}
        /\ overlap \in BOOLEAN /\ misses \in Nat
    BY DEF Types, TypeOK, DaemonStates
  <1>2. CASE UNCHANGED <<path, daemon, overlap, misses>>
    BY <1>2 DEF Orderly
  <1>3. ASSUME NEW d \in Daemons, Start(d) PROVE Orderly'
    BY <1>1, <1>3 DEF Start, Becomes, Orderly
  <1>4. ASSUME NEW d \in Daemons, Inspect(d) PROVE Orderly'
    BY <1>1, <1>4 DEF Inspect, Becomes, StaysPut, Quiet, Orderly
  <1>5. ASSUME NEW d \in Daemons, Connect(d) PROVE Orderly'
    <2>1. CASE Becomes(d, ProbeOutcome) /\ UNCHANGED misses
      BY <1>1, <1>5, <2>1 DEF Connect, ProbeOutcome, Becomes, Quiet, Orderly
    <2>2. CASE misses' = misses + 1 /\ Becomes(d, "remove")
      <3>1. misses' # 0
        BY <1>1, <2>2
      <3>2. QED
        BY <1>1, <1>5, <2>2, <3>1 DEF Connect, Becomes, Quiet, Orderly
    <2>3. QED
      BY <1>5, <2>1, <2>2 DEF Connect
  <1>6. ASSUME NEW d \in Daemons, Remove(d) PROVE Orderly'
    <2>1. /\ path' = None /\ overlap' = overlap /\ misses' = misses
          /\ daemon' = [daemon EXCEPT ![d] = IF path = None THEN "off" ELSE "bind"]
      BY <1>6 DEF Remove, Becomes, StaysPut, Quiet
    <2>2. ~overlap => \A e \in Daemons : daemon[e] \notin {"chmod", "collect"}
      BY <1>1, <1>6 DEF Remove, Orderly
    <2>3. ~overlap /\ misses = 0 => \A e \in Daemons : daemon[e] # "serving"
      BY <1>1, <1>6 DEF Remove, Orderly
    <2>4. QED
      BY <1>1, <1>6, <2>1, <2>2, <2>3 DEF Remove, Orderly
  <1>7. ASSUME NEW d \in Daemons, Bind(d) PROVE Orderly'
    <2>1. /\ overlap' = overlap /\ misses' = misses
          /\ IF path = None
             THEN path' = [owner |-> d, live |-> TRUE] /\ daemon' = [daemon EXCEPT ![d] = "chmod"]
             ELSE path' = path /\ daemon' = [daemon EXCEPT ![d] = "off"]
      BY <1>7 DEF Bind, Becomes, StaysPut, Quiet
    <2>2. [owner |-> d, live |-> TRUE] # None
      <3>1. [owner |-> d, live |-> TRUE] \in [owner : Daemons, live : BOOLEAN]
        OBVIOUS
      <3>2. QED
        BY <3>1, SocketAssumption
    <2>3. CASE path = None
      BY <1>1, <1>7, <2>1, <2>2, <2>3 DEF Bind, Orderly
    <2>4. CASE path # None
      BY <1>1, <1>7, <2>1, <2>4 DEF Bind, Orderly
    <2>5. QED
      BY <2>3, <2>4
  <1>8. ASSUME NEW d \in Daemons, Chmod(d) PROVE Orderly'
    BY <1>1, <1>8 DEF Chmod, Becomes, Orderly
  <1>9. ASSUME NEW d \in Daemons, Ready(d) PROVE Orderly'
    BY <1>1, <1>9 DEF Ready, Becomes, StaysPut, Quiet, Orderly
  <1>10. ASSUME NEW d \in Daemons, Unlink(d) PROVE Orderly'
    <2>1. /\ path' = None /\ overlap' = overlap /\ misses' = misses
          /\ daemon' = [daemon EXCEPT ![d] = "off"]
      BY <1>10 DEF Unlink, Becomes
    <2>2. ~overlap => \A e \in Daemons \ {d} : daemon[e] \notin Changing
      BY <1>10 DEF Unlink, Orderly
    <2>3. ~overlap /\ misses = 0 => \A e \in Daemons : daemon[e] # "serving"
      BY <1>1, <1>10 DEF Unlink, Orderly
    <2>4. QED
      BY <1>1, <1>10, <2>1, <2>2, <2>3 DEF Orderly
  <1>11. ASSUME NEW d \in Daemons, Shutdown(d) PROVE Orderly'
    <2>1. /\ path' = Closed(d) /\ misses' = misses
          /\ daemon[d] = "serving" /\ daemon' = [daemon EXCEPT ![d] = "unlink"]
          /\ ~overlap' => ~overlap /\ \A e \in Daemons : daemon[e] \notin Changing
      BY <1>1, <1>11 DEF Shutdown, Becomes
    <2>2. CASE ServedAt(d)
      <3>1. path' = [path EXCEPT !.live = FALSE] /\ path \in [owner : Daemons, live : BOOLEAN]
        BY <1>1, <2>1, <2>2 DEF Closed
      <3>2. path'.live = FALSE /\ path' # None
        BY <3>1, SocketAssumption
      <3>3. QED
        BY <1>1, <2>1, <2>2, <3>2 DEF Orderly
    <2>3. CASE ~ServedAt(d)
      BY <1>1, <2>1, <2>3 DEF Closed, Orderly
    <2>4. QED
      BY <2>2, <2>3
  <1>12. ASSUME NEW d \in Daemons, Crash(d) PROVE Orderly'
    <2>1. /\ overlap' = overlap /\ misses' = misses /\ path' = Closed(d)
          /\ daemon' = [daemon EXCEPT ![d] = "off"]
      BY <1>12 DEF Crash, Becomes
    <2>2. CASE ServedAt(d)
      <3>1. path' = [path EXCEPT !.live = FALSE] /\ path \in [owner : Daemons, live : BOOLEAN]
        BY <1>1, <2>1, <2>2 DEF Closed
      <3>2. path'.live = FALSE /\ path' # None
        BY <3>1, SocketAssumption
      <3>3. QED
        BY <1>1, <2>1, <2>2, <3>2 DEF Orderly
    <2>3. CASE ~ServedAt(d)
      BY <1>1, <2>1, <2>3 DEF Closed, Orderly
    <2>4. QED
      BY <2>2, <2>3
  <1>13. QED
    BY <1>2, <1>3, <1>4, <1>5, <1>6, <1>7, <1>8, <1>9, <1>10, <1>11, <1>12
    DEF Next, vars, DaemonStep, Handle, Ask, Accept, GiveUp, FallBack

(* The program starts in order, and keeps it. *)
LEMMA OrderlyHolds == Spec => []Orderly
  <1>1. Init => Orderly
    BY DEF Init, Orderly, Live, Bound, Changing, Starting
  <1>2. QED
    BY <1>1, TypesHold, NextOrderly, PTL DEF Spec

(* A daemon that serves is the one at the path, as long as daemons start   *)
(* and stop one after another and no daemon that listens is taken for a    *)
(* dead one, however many of them were killed and left their socket behind *)
(* (prepare_socket_path).                                                  *)
THEOREM ServingIsAlwaysReachable == Spec => []ServingIsReachable
  <1>1. Orderly => ServingIsReachable
    BY DEF Orderly, ServingIsReachable, Bound
  <1>2. QED
    BY <1>1, OrderlyHolds, PTL

(* A daemon that starts alone refuses only if another one serves, and a    *)
(* stale socket keeps nobody from starting (prepare_socket_path).          *)
THEOREM RefusesForActiveOnly == Spec => RefusesOnlyForActive
  <1>1. ASSUME Types, Orderly, [Next]_vars, NEW d \in Daemons,
               daemon[d] \in Starting, daemon'[d] \in {"off", "unlink"}, crashes' = crashes,
               ~overlap
        PROVE  \E e \in Daemons \ {d} : daemon[e] = "serving" /\ ServedAt(e)
    <2>1. daemon \in [Daemons -> DaemonStates] /\ crashes + 1 # crashes
      BY <1>1 DEF Types, TypeOK, DaemonStates
    <2>2. daemon[d] # daemon'[d] /\ daemon[d] \in Changing /\ daemon[d] # "unlink"
      BY <1>1 DEF Starting, Changing
    <2>3. \E e \in Daemons : DaemonStep(e)
      BY <1>1, <2>1, <2>2
      DEF Next, vars, Start, Shutdown, Crash, Handle, Ask, Accept, GiveUp, FallBack, Becomes,
          Starting
    <2>4. DaemonStep(d)
      <3>1. \A e \in Daemons \ {d} : ~DaemonStep(e)
        BY <2>1, <2>2
        DEF DaemonStep, Inspect, Connect, Remove, Bind, Chmod, Ready, Unlink, Becomes
      <3>2. QED
        BY <2>3, <3>1
    <2>5. Connect(d) /\ Live
      BY <1>1, <2>1, <2>2, <2>4
      DEF DaemonStep, Inspect, Connect, ProbeOutcome, Remove, Bind, Chmod, Ready, Unlink, Becomes,
          Orderly, Bound, ServedAt, Starting
    <2>6. daemon[path.owner] = "serving" /\ path.owner \in Daemons \ {d}
      BY <1>1, <2>1, <2>5 DEF Orderly, Connect, Bound, Changing, Starting, Types, TypeOK, Live
    <2>7. QED
      BY <2>5, <2>6 DEF Live, ServedAt
  <1>2. Types /\ Orderly /\ [Next]_vars =>
          [\A d \in Daemons :
             daemon[d] \in Starting /\ daemon'[d] \in {"off", "unlink"} /\ crashes' = crashes =>
               overlap \/ \E e \in Daemons \ {d} : daemon[e] = "serving" /\ ServedAt(e)]_vars
    BY <1>1
  <1>3. QED
    BY <1>2, TypesHold, OrderlyHolds, PTL DEF Spec, RefusesOnlyForActive

-----------------------------------------------------------------------------
(* Connections and permits, however daemons start, stop and die.           *)

Connections(d) == backlog[d] \cup permits[d]

(* Whoever waits for a daemon has a connection in its backlog, and whoever *)
(* is handled one of its permits; only a daemon that listens has a         *)
(* backlog, and only one that serves, or is about to end, permits; and no  *)
(* client has two connections (serve, handle_connection).                  *)
ConnectionsAreAttended ==
  /\ Live => daemon[path.owner] \in Bound
  /\ \A c \in Clients :
       /\ client[c].pc = "queued" =>
            client[c].with \in Daemons /\ c \in backlog[client[c].with]
       /\ client[c].pc = "handled" =>
            client[c].with \in Daemons /\ c \in permits[client[c].with]
  /\ \A d \in Daemons :
       /\ backlog[d] # {} => daemon[d] \in Bound
       /\ permits[d] # {} => daemon[d] \in {"serving", "unlink"}
       /\ backlog[d] \cap permits[d] = {}
  /\ \A d, e \in Daemons : Connections(d) \cap Connections(e) # {} => d = e

(* The steps of a daemon that does not end. *)
LEMMA DaemonAttends ==
  ASSUME Types, ConnectionsAreAttended, NEW d \in Daemons,
         \/ Start(d) \/ Inspect(d) \/ Connect(d) \/ Remove(d) \/ Bind(d) \/ Ready(d)
         \/ Chmod(d) /\ path # None
  PROVE  ConnectionsAreAttended'
  <1>1. UNCHANGED <<client, backlog, permits>>
    BY DEF Start, Inspect, Connect, Remove, Bind, Chmod, Ready, StaysPut, Quiet
  <1>2. PICK pc : /\ Becomes(d, pc) /\ (daemon[d] \in Bound => pc \in Bound)
                  /\ daemon[d] \notin {"serving", "unlink"}
    BY DEF Start, Inspect, Connect, ProbeOutcome, Remove, Bind, Chmod, Ready, Bound
  <1>3. daemon'[d] = pc /\ \A e \in Daemons \ {d} : daemon'[e] = daemon[e]
    BY <1>2 DEF Becomes, Types, TypeOK
  <1>4. \/ UNCHANGED path
        \/ path' = None
        \/ path' = [owner |-> d, live |-> TRUE] /\ pc = "chmod"
    BY <1>2, <1>3
    DEF Start, Inspect, Connect, Remove, Bind, Chmod, Ready, Becomes, StaysPut, Types, TypeOK
  <1>5. Live' => daemon'[path'.owner] \in Bound
    <2>1. Live => path.owner \in Daemons
      BY DEF Live, Types, TypeOK
    <2>2. QED
      BY <1>2, <1>3, <1>4, <2>1 DEF Live, Bound, ConnectionsAreAttended
  <1>6. \A e \in Daemons : /\ daemon[e] \in Bound => daemon'[e] \in Bound
                           /\ daemon[e] \in {"serving", "unlink"} => daemon'[e] = daemon[e]
    BY <1>2, <1>3
  <1>7. QED
    BY <1>1, <1>5, <1>6 DEF ConnectionsAreAttended, Connections

(* What ends of a daemon takes the connections with it that it serves. *)
LEMMA EndAttends ==
  ASSUME Types, ConnectionsAreAttended, NEW d \in Daemons, NEW where,
         client' = CutOff(d, where),
         backlog' \in {backlog, [backlog EXCEPT ![d] = {}]},
         permits' \in {permits, [permits EXCEPT ![d] = {}]},
         "queued" \in where \/ UNCHANGED backlog,
         "handled" \in where \/ UNCHANGED permits,
         NEW pc, Becomes(d, pc),
         backlog'[d] = {}, permits'[d] # {} => pc \in {"serving", "unlink"},
         path' \in {Closed(d), None}
  PROVE  ConnectionsAreAttended'
  <1>1. daemon'[d] = pc /\ \A e \in Daemons \ {d} : daemon'[e] = daemon[e]
    BY DEF Becomes, Types, TypeOK
  <1>2. /\ \A e \in Daemons : backlog'[e] \subseteq backlog[e] /\ permits'[e] \subseteq permits[e]
        /\ \A e \in Daemons \ {d} : backlog'[e] = backlog[e] /\ permits'[e] = permits[e]
    BY DEF Types, TypeOK
  <1>3. ASSUME NEW c \in Clients
        PROVE  IF client[c].with = d /\ client[c].pc \in where
               THEN client'[c].pc \notin {"queued", "handled"} ELSE client'[c] = client[c]
    <2>1. client[c] \in ClientStates
      BY DEF Types, TypeOK, ClientStates
    <2>2. QED
      BY <2>1 DEF CutOff, ClientStates
  <1>4. Live' => Live /\ path'.owner = path.owner /\ path.owner \in Daemons \ {d}
    <2>1. CASE path' = None
      BY <2>1 DEF Live
    <2>2. CASE path' = Closed(d) /\ ServedAt(d)
      <3>1. path' = [path EXCEPT !.live = FALSE] /\ path \in [owner : Daemons, live : BOOLEAN]
        BY <2>2 DEF Closed, ServedAt, Types, TypeOK
      <3>2. path'.live = FALSE
        BY <3>1
      <3>3. QED
        BY <3>2 DEF Live
    <2>3. CASE path' = Closed(d) /\ ~ServedAt(d)
      BY <2>3 DEF Closed, ServedAt, Live, Types, TypeOK
    <2>4. QED
      BY <2>1, <2>2, <2>3
  <1>5. Live' => daemon'[path'.owner] \in Bound
    BY <1>1, <1>4 DEF ConnectionsAreAttended
  <1>6. ASSUME NEW c \in Clients
        PROVE  /\ client'[c].pc = "queued" =>
                    client'[c].with \in Daemons /\ c \in backlog'[client'[c].with]
               /\ client'[c].pc = "handled" =>
                    client'[c].with \in Daemons /\ c \in permits'[client'[c].with]
    <2>1. CASE client'[c] = client[c] /\ (client[c].with = d => client[c].pc \notin where)
      BY <1>2, <2>1 DEF ConnectionsAreAttended
    <2>2. QED
      BY <1>3, <2>1
  <1>7. \A e \in Daemons : /\ backlog'[e] # {} => daemon'[e] \in Bound
                           /\ permits'[e] # {} => daemon'[e] \in {"serving", "unlink"}
                           /\ backlog'[e] \cap permits'[e] = {}
    BY <1>1, <1>2 DEF ConnectionsAreAttended
  <1>8. ASSUME NEW e \in Daemons, NEW f \in Daemons,
               Connections(e)' \cap Connections(f)' # {}
        PROVE  e = f
    <2>1. Connections(e) \cap Connections(f) # {}
      BY <1>2, <1>8 DEF Connections
    <2>2. QED
      BY <2>1 DEF ConnectionsAreAttended
  <1>9. QED
    BY <1>5, <1>6, <1>7, <1>8 DEF ConnectionsAreAttended

(* The steps of a query. *)
LEMMA ClientAttends ==
  ASSUME Types, ConnectionsAreAttended, NEW c \in Clients, Ask(c) \/ GiveUp(c) \/ FallBack(c)
  PROVE  ConnectionsAreAttended'
  <1>1. UNCHANGED <<path, daemon, permits>> /\ (Live' <=> Live)
    BY DEF Ask, GiveUp, FallBack, Live
  <1>2. client \in [Clients -> ClientStates]
    BY DEF Types, TypeOK, ClientStates
  <1>3. CASE UNCHANGED backlog /\ \E pc \in {"failed", "direct", "refused"} :
               ClientBecomes(c, pc, None)
    <2>1. /\ client'[c].pc \notin {"queued", "handled"}
          /\ \A b \in Clients \ {c} : client'[b] = client[b]
      BY <1>2, <1>3 DEF ClientBecomes
    <2>2. QED
      BY <1>1, <1>3, <2>1 DEF ConnectionsAreAttended, Connections
  <1>4. CASE Live /\ ClientBecomes(c, "queued", path.owner) /\ Ask(c)
             /\ backlog' = [backlog EXCEPT ![path.owner] = @ \cup {c}]
    <2>1. path.owner \in Daemons /\ daemon[path.owner] \in Bound
      BY <1>4 DEF Live, Types, TypeOK, ConnectionsAreAttended
    <2>2. /\ client'[c] = [pc |-> "queued", with |-> path.owner]
          /\ \A b \in Clients \ {c} : client'[b] = client[b]
      BY <1>2, <1>4 DEF ClientBecomes
    <2>3. /\ backlog'[path.owner] = backlog[path.owner] \cup {c}
          /\ \A d \in Daemons \ {path.owner} : backlog'[d] = backlog[d]
      BY <1>4, <2>1 DEF Types, TypeOK
    <2>4. \A d \in Daemons : c \notin backlog[d] /\ c \notin permits[d]
      BY <1>4 DEF Ask
    <2>5. ASSUME NEW b \in Clients
          PROVE  /\ client'[b].pc = "queued" =>
                      client'[b].with \in Daemons /\ b \in backlog'[client'[b].with]
                 /\ client'[b].pc = "handled" =>
                      client'[b].with \in Daemons /\ b \in permits'[client'[b].with]
      BY <1>1, <2>1, <2>2, <2>3 DEF ConnectionsAreAttended
    <2>6. \A d \in Daemons : /\ backlog'[d] # {} => daemon'[d] \in Bound
                             /\ permits'[d] # {} => daemon'[d] \in {"serving", "unlink"}
                             /\ backlog'[d] \cap permits'[d] = {}
      BY <1>1, <2>1, <2>3, <2>4 DEF ConnectionsAreAttended
    <2>7. ASSUME NEW d \in Daemons, NEW e \in Daemons, NEW b,
                 b \in Connections(d)', b \in Connections(e)'
          PROVE  d = e
      BY <1>1, <2>3, <2>4, <2>7 DEF ConnectionsAreAttended, Connections
    <2>8. QED
      BY <1>1, <2>5, <2>6, <2>7 DEF ConnectionsAreAttended
  <1>5. QED
    BY <1>3, <1>4 DEF Ask, GiveUp, FallBack

(* The steps of a connection. *)
LEMMA ConnectionAttends ==
  ASSUME Types, ConnectionsAreAttended, NEW d \in Daemons, NEW c \in Clients,
         Accept(d, c) \/ Handle(d, c)
  PROVE  ConnectionsAreAttended'
  <1>1. UNCHANGED <<path, daemon>> /\ (Live' <=> Live)
    BY DEF Accept, Handle, Live
  <1>2. client \in [Clients -> ClientStates] /\ client[c] \in ClientStates
    BY DEF Types, TypeOK, ClientStates
  <1>3. /\ \A e \in Daemons \ {d} : backlog'[e] = backlog[e] /\ permits'[e] = permits[e]
        /\ backlog'[d] \cup permits'[d] \subseteq Connections(d)
    BY DEF Accept, Handle, Types, TypeOK, Connections
  <1>4. \A b \in Clients \ {c} : /\ client'[b] = client[b]
                                 /\ b \in backlog'[d] <=> b \in backlog[d]
                                 /\ b \in permits'[d] <=> b \in permits[d]
    BY DEF Accept, Handle, Served, Types, TypeOK
  <1>5. /\ client'[c].pc = "queued" =>
             client'[c].with \in Daemons /\ c \in backlog'[client'[c].with]
        /\ client'[c].pc = "handled" =>
             client'[c].with \in Daemons /\ c \in permits'[client'[c].with]
        /\ backlog'[d] \cap permits'[d] = {}
    <2>1. c \in Connections(d) /\ \A e \in Daemons : c \in Connections(e) => e = d
      BY DEF Accept, Handle, Connections, ConnectionsAreAttended
    <2>2. ASSUME client[c].pc \in {"queued", "handled"} PROVE client[c].with = d
      BY <2>1, <2>2 DEF ConnectionsAreAttended, Connections
    <2>3. CASE Accept(d, c)
      <3>1. /\ c \in backlog[d] /\ backlog'[d] = backlog[d] \ {c}
            /\ client[c].pc # "handled"
        BY <2>2, <2>3 DEF Accept, ConnectionsAreAttended, Types, TypeOK
      <3>2. CASE /\ permits' = [permits EXCEPT ![d] = permits[d] \cup {c}]
                 /\ Served(d, c, "queued", "handled")
        <4>1. permits'[d] = permits[d] \cup {c}
          BY <3>2 DEF Types, TypeOK
        <4>2. client[c].pc = "queued" => client'[c].pc = "handled" /\ client'[c].with = d
          BY <1>2, <2>2, <3>2 DEF Served, ClientStates
        <4>3. client[c].pc # "queued" => client'[c] = client[c]
          BY <3>2 DEF Served
        <4>4. QED
          BY <3>1, <4>1, <4>2, <4>3 DEF ConnectionsAreAttended
      <3>3. CASE UNCHANGED permits /\ Served(d, c, "queued", "busy")
        <4>1. client[c].pc = "queued" => client'[c].pc = "busy"
          BY <1>2, <2>2, <3>3 DEF Served, ClientStates
        <4>2. client[c].pc # "queued" => client'[c] = client[c]
          BY <3>3 DEF Served
        <4>3. QED
          BY <3>1, <3>3, <4>1, <4>2 DEF ConnectionsAreAttended
      <3>4. QED
        BY <2>3, <3>2, <3>3 DEF Accept
    <2>4. CASE Handle(d, c)
      <3>1. /\ c \in permits[d] /\ permits'[d] = permits[d] \ {c} /\ backlog' = backlog
            /\ client[c].pc # "queued"
        BY <2>2, <2>4 DEF Handle, ConnectionsAreAttended, Types, TypeOK
      <3>2. client[c].pc = "handled" => client'[c].pc = "answered"
        BY <1>2, <2>2, <2>4 DEF Handle, Served, ClientStates
      <3>3. client[c].pc # "handled" => client'[c] = client[c]
        BY <2>4 DEF Handle, Served
      <3>4. QED
        BY <3>1, <3>2, <3>3 DEF ConnectionsAreAttended
    <2>5. QED
      BY <2>3, <2>4
  <1>6. ASSUME NEW b \in Clients
        PROVE  /\ client'[b].pc = "queued" =>
                    client'[b].with \in Daemons /\ b \in backlog'[client'[b].with]
               /\ client'[b].pc = "handled" =>
                    client'[b].with \in Daemons /\ b \in permits'[client'[b].with]
    <2>1. CASE b = c
      BY <1>5, <2>1
    <2>2. CASE b # c
      BY <1>3, <1>4, <2>2 DEF ConnectionsAreAttended
    <2>3. QED
      BY <2>1, <2>2
  <1>7. /\ backlog'[d] # {} => daemon'[d] \in Bound
        /\ permits'[d] # {} => daemon'[d] \in {"serving", "unlink"}
    BY <1>1 DEF Accept, Handle, ConnectionsAreAttended, Types, TypeOK
  <1>8. \A e \in Daemons : /\ backlog'[e] # {} => daemon'[e] \in Bound
                           /\ permits'[e] # {} => daemon'[e] \in {"serving", "unlink"}
                           /\ backlog'[e] \cap permits'[e] = {}
    BY <1>1, <1>3, <1>5, <1>7 DEF ConnectionsAreAttended
  <1>9. ASSUME NEW e \in Daemons, NEW f \in Daemons, Connections(e)' \cap Connections(f)' # {}
        PROVE  e = f
    <2>1. Connections(e)' \subseteq Connections(e) /\ Connections(f)' \subseteq Connections(f)
      BY <1>3 DEF Connections
    <2>2. QED
      BY <1>9, <2>1 DEF ConnectionsAreAttended
  <1>10. QED
    BY <1>1, <1>6, <1>8, <1>9 DEF ConnectionsAreAttended

LEMMA NextAttends == Types /\ ConnectionsAreAttended /\ [Next]_vars => ConnectionsAreAttended'
  <1> SUFFICES ASSUME Types, ConnectionsAreAttended, [Next]_vars PROVE ConnectionsAreAttended'
    OBVIOUS
  <1>1. CASE UNCHANGED vars
    BY <1>1 DEF vars, ConnectionsAreAttended, Connections, Live
  <1>2. ASSUME NEW d \in Daemons, Chmod(d), path = None PROVE ConnectionsAreAttended'
    <2>1. /\ client' = CutOff(d, {"queued"}) /\ backlog' = [backlog EXCEPT ![d] = {}]
          /\ UNCHANGED permits /\ Becomes(d, "unlink") /\ path' = Closed(d)
      BY <1>2 DEF Chmod, Closed, ServedAt
    <2>2. backlog'[d] = {}
      BY <2>1 DEF Types, TypeOK
    <2>3. QED
      BY <2>1, <2>2, EndAttends
  <1>3. ASSUME NEW d \in Daemons, Shutdown(d) PROVE ConnectionsAreAttended'
    <2>1. backlog'[d] = {}
      BY <1>3 DEF Shutdown, Types, TypeOK
    <2>2. QED
      BY <1>3, <2>1, EndAttends DEF Shutdown
  <1>4. ASSUME NEW d \in Daemons, Crash(d) PROVE ConnectionsAreAttended'
    <2>1. backlog'[d] = {} /\ permits'[d] = {}
      BY <1>4 DEF Crash, Types, TypeOK
    <2>2. QED
      BY <1>4, <2>1, EndAttends DEF Crash
  <1>5. ASSUME NEW d \in Daemons, Unlink(d) PROVE ConnectionsAreAttended'
    <2>1. backlog[d] = {}
      BY <1>5 DEF Unlink, ConnectionsAreAttended, Bound
    <2>2. backlog'[d] = {} /\ permits'[d] = {} /\ UNCHANGED backlog
      BY <1>5, <2>1 DEF Unlink, Types, TypeOK
    <2>3. QED
      BY <1>5, <2>2, EndAttends DEF Unlink
  <1>6. QED
    BY <1>1, <1>2, <1>3, <1>4, <1>5, DaemonAttends, ClientAttends, ConnectionAttends
    DEF Next, DaemonStep

(* Every connection that waits has a daemon that listens, every one that   *)
(* is handled its permit, and neither outlives its daemon, also if clients *)
(* leave, and daemons start and stop over one another's sockets, or die.   *)
THEOREM ConnectionsAreAlwaysAttended == Spec => []ConnectionsAreAttended
  <1>1. Init => ConnectionsAreAttended
    BY DEF Init, ConnectionsAreAttended, Connections, Live
  <1>2. QED
    BY <1>1, TypesHold, NextAttends, PTL DEF Spec

(* How many steps are left of a query, and of a daemon's start and end. *)
QueryLeft(pc) ==
  CASE pc = "queued"  -> 3
    [] pc = "handled" -> 2
    [] pc = "failed"  -> 1
    [] pc \in {"idle", "answered", "busy", "direct", "refused"} -> 0

DaemonLeft(pc) ==
  CASE pc = "inspect" -> 8
    [] pc = "connect" -> 7
    [] pc = "remove"  -> 6
    [] pc = "bind"    -> 5
    [] pc = "chmod"   -> 4
    [] pc = "collect" -> 3
    [] pc = "serving" -> 2
    [] pc = "unlink"  -> 1
    [] pc = "off"     -> 0

(* Whatever happens to a query that is asked brings its answer nearer, and *)
(* whatever happens to a daemon that runs brings it nearer to its end.     *)
Onward ==
  /\ \A c \in Clients :
       client[c].pc \in {"queued", "handled", "failed"} =>
         client'[c].pc = client[c].pc \/ QueryLeft(client'[c].pc) < QueryLeft(client[c].pc)
  /\ \A d \in Daemons :
       daemon[d] # "off" => daemon'[d] = daemon[d] \/ DaemonLeft(daemon'[d]) < DaemonLeft(daemon[d])

LEMMA NextOnward ==
  ASSUME Types, ConnectionsAreAttended, [Next]_vars
  PROVE  Onward
  <1>1. /\ client \in [Clients -> ClientStates] /\ daemon \in [Daemons -> DaemonStates]
    BY DEF Types, TypeOK, ClientStates, DaemonStates
  <1>2. ASSUME NEW c \in Clients, client[c].pc \in {"queued", "handled", "failed"},
               client'[c].pc # client[c].pc
        PROVE  QueryLeft(client'[c].pc) < QueryLeft(client[c].pc)
    <2>1. CASE \E d \in Daemons, where \in SUBSET {"queued", "handled"} : client' = CutOff(d, where)
      <3>1. client[c].pc \in {"queued", "handled"} /\ client'[c].pc = "failed"
        BY <1>1, <1>2, <2>1 DEF CutOff, ClientStates
      <3>2. QED
        BY <3>1 DEF QueryLeft
    <2>2. ASSUME NEW d \in Daemons, NEW b \in Clients, Accept(d, b) \/ Handle(d, b)
          PROVE  QueryLeft(client'[c].pc) < QueryLeft(client[c].pc)
      <3>1. PICK from \in {"queued", "handled"}, pc \in {"handled", "busy", "answered"} :
              /\ from = "handled" => pc = "answered"
              /\ client[b] = [pc |-> from, with |-> d]
              /\ client' = [client EXCEPT ![b] = [client[b] EXCEPT !.pc = pc]]
        BY <1>2, <2>2 DEF Accept, Handle, Served
      <3>2. b = c /\ client[c].pc = from /\ client'[c].pc = pc
        BY <1>1, <1>2, <3>1 DEF ClientStates
      <3>3. QED
        BY <3>1, <3>2 DEF QueryLeft
    <2>3. ASSUME NEW b \in Clients, Ask(b) \/ GiveUp(b) \/ FallBack(b)
          PROVE  QueryLeft(client'[c].pc) < QueryLeft(client[c].pc)
      <3>1. PICK pc, d : ClientBecomes(b, pc, d)
        BY <2>3 DEF Ask, GiveUp, FallBack
      <3>2. b = c /\ client'[c].pc = pc
        BY <1>1, <1>2, <3>1 DEF ClientBecomes
      <3>3. \/ client[c].pc \in {"queued", "handled"} /\ client'[c].pc = "failed"
            \/ client[c].pc = "failed" /\ client'[c].pc \in {"direct", "refused"}
        BY <1>1, <1>2, <2>3, <3>2 DEF Ask, GiveUp, FallBack, ClientBecomes
      <3>4. QED
        BY <3>3 DEF QueryLeft
    <2>4. CASE UNCHANGED client
      BY <1>2, <2>4
    <2>5. QED
      BY <2>1, <2>2, <2>3, <2>4
      DEF Next, vars, Start, DaemonStep, Inspect, Connect, Remove, Bind, Chmod, Ready, Unlink,
          Shutdown, Crash, StaysPut, Quiet
  <1>3. ASSUME NEW d \in Daemons, daemon[d] # "off", daemon'[d] # daemon[d]
        PROVE  DaemonLeft(daemon'[d]) < DaemonLeft(daemon[d])
    <2>1. PICK e \in Daemons : DaemonStep(e) \/ Shutdown(e) \/ Crash(e)
      BY <1>1, <1>3
      DEF Next, vars, Start, Handle, Ask, Accept, GiveUp, FallBack, Becomes
    <2>2. PICK pc : Becomes(e, pc)
      BY <2>1 DEF DaemonStep, Inspect, Connect, Remove, Bind, Chmod, Ready, Unlink, Shutdown, Crash
    <2>3. e = d /\ daemon'[d] = pc
      BY <1>1, <1>3, <2>2 DEF Becomes
    <2>4. \/ daemon[d] = "inspect" /\ pc \in {"connect", "bind"}
          \/ daemon[d] = "connect" /\ pc = "remove"
          \/ daemon[d] = "remove" /\ pc = "bind"
          \/ daemon[d] = "bind" /\ pc = "chmod"
          \/ daemon[d] = "chmod" /\ pc \in {"unlink", "collect"}
          \/ daemon[d] = "collect" /\ pc = "serving"
          \/ daemon[d] = "serving" /\ pc = "unlink"
          \/ pc = "off"
      BY <1>1, <2>1, <2>3
      DEF DaemonStep, Inspect, Connect, ProbeOutcome, Remove, Bind, Chmod, Ready, Unlink, Shutdown,
          Crash, Becomes
    <2>5. daemon[d] \in DaemonStates
      BY <1>1
    <2>6. QED
      BY <1>3, <2>3, <2>4, <2>5 DEF DaemonLeft, DaemonStates, Starting
  <1>4. QED
    BY <1>2, <1>3 DEF Onward

(* A query comes to its end within three steps, and a daemon that starts   *)
(* serves within six or has ended: prepare_socket_path and query_daemon    *)
(* have no way back, whatever other daemons do to the path meanwhile.  It  *)
(* is the safety half of QueryEnds.                                        *)
THEOREM QueriesComeToAnEnd == Spec => [][Onward]_vars
  <1>1. Types /\ ConnectionsAreAttended /\ [Next]_vars => [Onward]_vars
    BY NextOnward
  <1>2. QED
    BY <1>1, TypesHold, ConnectionsAreAlwaysAttended, PTL DEF Spec
=============================================================================

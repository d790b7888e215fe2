--------------------------- MODULE ConnectionRegistry ---------------------------
(***************************************************************************)
(* The QUIC server's connection registry, crates/transport/src/server.rs,  *)
(* with the connect and disconnect callbacks of bin/publisher/src/main.rs. *)
(*                                                                         *)
(* One task per connection runs handle_connection: it reads the client id, *)
(* registers the connection under the write lock (closing the one it       *)
(* replaces), calls on_connect, serves messages until the connection is    *)
(* closed, and then removes the entry under the lock if it is still its    *)
(* own and calls on_disconnect.  broadcast_raw copies the registry under   *)
(* the read lock and sends after releasing it.  Messages themselves are    *)
(* handled by tasks of their own and change nothing here: see Routing.     *)
(***************************************************************************)
EXTENDS Collections, FiniteSets

CONSTANTS
  Client,
  Conn,     \* connections, told apart by stable_id
  None

ASSUME ConnFinite == IsFiniteSet(Conn)
ASSUME NoSuchClient == None \notin Client

VARIABLES
  stage,               \* Conn -> where its handle_connection task is
  client,              \* Conn -> its client id, None before it is read
  closed,              \* connections closed by either side or lost
  shutdown,            \* QuicServer::close was called
  connections,         \* the registry: client -> connection
  connections_active,  \* the metrics gauge
  targets,             \* connections the running broadcast has yet to send to
  sent,                \* connections it sent to
  snapshot             \* connections it started with

broadcast == <<targets, sent, snapshot>>
vars == <<stage, client, closed, shutdown, connections, connections_active, broadcast>>

Init ==
  /\ stage = [k \in Conn |-> "idle"]
  /\ client = [k \in Conn |-> None]
  /\ closed = {}
  /\ shutdown = FALSE
  /\ connections = EmptyMap
  /\ connections_active = 0
  /\ targets = {}
  /\ sent = {}
  /\ snapshot = {}

--------------------------------------------------------------------------------
\* accept_loop spawns the connection's task
Accept(k) ==
  /\ stage[k] = "idle"
  /\ ~shutdown
  /\ stage' = [stage EXCEPT ![k] = "accepted"]
  /\ UNCHANGED <<client, closed, shutdown, connections, connections_active, broadcast>>

\* The id cannot be read or is not UTF-8: the task ends, dropping the connection
Refuse(k) ==
  /\ stage[k] = "accepted"
  /\ stage' = [stage EXCEPT ![k] = "done"]
  /\ closed' = closed \cup {k}
  /\ UNCHANGED <<client, shutdown, connections, connections_active, broadcast>>

Replaced(c) == {connections[d] : d \in {c} \cap DOMAIN connections}

\* The connection may have been closed since its id was read
Register(k, c) ==
  /\ stage[k] = "accepted"
  /\ client' = [client EXCEPT ![k] = c]
  /\ connections' = Insert(connections, c, k)
  /\ closed' = closed \cup Replaced(c)
  /\ stage' = [stage EXCEPT ![k] = "registered"]
  /\ UNCHANGED <<shutdown, connections_active, broadcast>>

CountAfterConnect_FirstOnly(k) ==
  IF \E j \in Conn \ {k} : client[j] = client[k] /\ stage[j] = "serving"
  THEN connections_active ELSE connections_active + 1
CountAfterConnect(k) == connections_active + 1

OnConnect(k) ==
  /\ stage[k] = "registered"
  /\ connections_active' = CountAfterConnect(k)
  /\ stage' = [stage EXCEPT ![k] = "serving"]
  /\ UNCHANGED <<client, closed, shutdown, connections, broadcast>>

Own_Any(k) == client[k] \in DOMAIN connections
Own_Not(k) == client[k] \in DOMAIN connections /\ connections[client[k]] # k
Own(k) == client[k] \in DOMAIN connections /\ connections[client[k]] = k

\* accept_bi fails, the loop ends, and the entry is removed if it is still this
\* connection's
Unregister(k) ==
  /\ stage[k] = "serving"
  /\ k \in closed
  /\ connections' = IF Own(k) THEN RemoveKeys(connections, {client[k]}) ELSE connections
  /\ stage' = [stage EXCEPT ![k] = "removed"]
  /\ UNCHANGED <<client, closed, shutdown, connections_active, broadcast>>

CountAfterDisconnect_Own(k) ==
  IF client[k] \in DOMAIN connections THEN connections_active ELSE connections_active - 1
CountAfterDisconnect(k) == connections_active - 1

OnDisconnect(k) ==
  /\ stage[k] = "removed"
  /\ connections_active' = CountAfterDisconnect(k)
  /\ stage' = [stage EXCEPT ![k] = "done"]
  /\ UNCHANGED <<client, closed, shutdown, connections, broadcast>>

--------------------------------------------------------------------------------
\* broadcast_raw: the copy under the read lock, leaving out one client
StartBroadcast(exclude) ==
  /\ snapshot = {}
  /\ snapshot' = {connections[c] : c \in DOMAIN connections \ {exclude}}
  /\ targets' = snapshot'
  /\ sent' = {}
  /\ UNCHANGED <<stage, client, closed, shutdown, connections, connections_active>>

AfterSending_StopOnError(k) == IF k \in closed THEN {} ELSE targets \ {k}
AfterSending(k) == targets \ {k}

\* send_frame fails on a closed connection; broadcast_raw goes on
SendFrame(k) ==
  /\ k \in targets
  /\ sent' = IF k \in closed THEN sent ELSE sent \cup {k}
  /\ targets' = AfterSending(k)
  /\ UNCHANGED <<stage, client, closed, shutdown, connections, connections_active, snapshot>>

\* broadcast_raw returns
EndBroadcast ==
  /\ snapshot # {}
  /\ targets = {}
  /\ snapshot' = {}
  /\ sent' = {}
  /\ UNCHANGED <<stage, client, closed, shutdown, connections, connections_active, targets>>

\* QuicServer::close
Close ==
  /\ ~shutdown
  /\ shutdown' = TRUE
  /\ closed' = Conn
  /\ UNCHANGED <<stage, client, connections, connections_active, broadcast>>

\* Environment: the peer closes the connection or it is lost
Lose(k) ==
  /\ stage[k] # "idle"
  /\ k \notin closed
  /\ closed' = closed \cup {k}
  /\ UNCHANGED <<stage, client, shutdown, connections, connections_active, broadcast>>

Task(k) ==
  \/ Refuse(k)
  \/ \E c \in Client : Register(k, c)
  \/ OnConnect(k)
  \/ Unregister(k)
  \/ OnDisconnect(k)

Next ==
  \/ \E k \in Conn : Accept(k) \/ Task(k) \/ SendFrame(k) \/ Lose(k)
  \/ \E exclude \in Client \cup {None} : StartBroadcast(exclude)
  \/ EndBroadcast
  \/ Close

Spec == Init /\ [][Next]_vars

--------------------------------------------------------------------------------
\* Properties

\* Every variable has its type; the gauge never goes below zero.
TypeOK ==
  /\ stage \in [Conn -> {"idle", "accepted", "registered", "serving", "removed", "done"}]
  /\ client \in [Conn -> Client \cup {None}]
  /\ closed \subseteq Conn
  /\ shutdown \in BOOLEAN
  /\ IsMap(connections, Client, Conn)
  /\ connections_active \in Nat
  /\ targets \subseteq snapshot /\ sent \subseteq snapshot /\ snapshot \subseteq Conn

\* An open connection that identified itself is its client's entry in the
\* registry: the task of a replaced connection, ending late, does not remove its
\* successor, and a replaced connection does not stay open unregistered.
OpenIsRegistered ==
  \A k \in Conn : stage[k] \in {"registered", "serving"} /\ k \notin closed
    => client[k] \in DOMAIN connections /\ connections[client[k]] = k

\* The registry holds no connection whose task has passed its cleanup, so no entry
\* stays behind for good.
NoStaleEntry ==
  \A c \in DOMAIN connections : LET k == connections[c] IN
    client[k] = c /\ stage[k] \in {"registered", "serving"}

\* Once no task is between registering and ending, the gauge is the size of the
\* registry: a connection that replaces another one is counted once.
GaugeMatchesRegistry ==
  (\A k \in Conn : \/ stage[k] \in {"idle", "accepted", "done"}
                   \/ stage[k] = "serving" /\ k \notin closed)
    => connections_active = Cardinality(DOMAIN connections)

\* One client's failure costs no other client the broadcast: when broadcast_raw
\* returns, it has sent on every connection of its copy that is still open.
BroadcastReachesOpen == targets = {} => snapshot \ closed \subseteq sent

\* The inductive invariant of the registry: the gauge counts the tasks between
\* on_connect and on_disconnect, and a broadcast has served or will serve every
\* open connection of its copy.
Counted == {k \in Conn : stage[k] \in {"serving", "removed"}}
RegistryInv ==
  /\ TypeOK
  /\ OpenIsRegistered
  /\ NoStaleEntry
  /\ \A k \in Conn : stage[k] \in {"registered", "serving", "removed"} => client[k] \in Client
  /\ connections_active = Cardinality(Counted)
  /\ snapshot \ closed \subseteq sent \cup targets

\* A closed connection leaves the registry for good, even one that was closed
\* before it was registered.
ClosedLeavesRegistry ==
  \A k \in Conn : (k \in closed) ~> [](k \notin Range(connections))

================================================================================

-------------------------------- MODULE Routing --------------------------------
(***************************************************************************)
(* Chain registration and message routing on top of the connection         *)
(* registry: on_connect and dispatch in main.rs and handlers.rs,           *)
(* register_chain, handle_mailbox_relay and handle_ping in coordinator.rs, *)
(* send_raw in server.rs.                                                  *)
(*                                                                         *)
(* on_connect and on_message spawn a task each, so a message may be        *)
(* handled before the registration of the connection it came on.  A task   *)
(* takes the coordinator's lock, then the connection registry's, then      *)
(* sends with neither: connections are replaced and chains registered in   *)
(* between.                                                                *)
(***************************************************************************)
EXTENDS ConnectionRegistry

CONSTANTS
  Numbered,    \* clients whose id parse_chain_id accepts
  MaxTasks     \* bound: messages being handled and broadcasts

ASSUME NumberedClients == Numbered \subseteq Client
ASSUME TaskBound == MaxTasks \in Nat

VARIABLES
  registered,  \* clients register_chain was called for, the keys of client_to_chain
  tasks        \* spawned tasks

routingVars == <<vars, registered, tasks>>

RoutingInit ==
  /\ Init
  /\ registered = {}
  /\ tasks = {}

\* A task spawned for connection k.  to: the client to send to.  via: the
\* connection to send on.
NewTask(kind, k) ==
  [kind |-> kind, conn |-> k, to |-> client[k], via |-> None,
   stage |-> IF kind = "ping" THEN "reply" ELSE "start"]

Handlers == {t \in tasks : t.kind # "connect"}

Advance(t, next) == tasks' = (tasks \ {t}) \cup {next}
End(t) == tasks' = tasks \ {t}

--------------------------------------------------------------------------------
SpawnOnConnect_First(k) ==
  IF \E j \in Conn \ {k} : client[j] = client[k] THEN tasks
  ELSE tasks \cup {NewTask("connect", k)}
SpawnOnConnect(k) == tasks \cup {NewTask("connect", k)}

\* on_connect
Connect(k) ==
  /\ OnConnect(k)
  /\ tasks' = SpawnOnConnect(k)
  /\ UNCHANGED registered

\* on_message: dispatch of a HandshakeRequest, a MailboxMessage or a Ping.  The last
\* streams of a connection may have been accepted before it was closed.
Dispatch(k, kind) ==
  /\ stage[k] = "serving"
  /\ Cardinality(Handlers) < MaxTasks /\ snapshot = {}
  /\ tasks' = tasks \cup {NewTask(kind, k)}
  /\ UNCHANGED <<vars, registered>>

\* on_connect's task: it registers the chain of the client id, if there is one
RegisterOnConnect(t) ==
  /\ t.kind = "connect"
  /\ registered' = registered \cup ({t.to} \cap Numbered)
  /\ End(t)
  /\ UNCHANGED vars

\* handle_handshake up to its answer: it registers the chain the message names, if
\* it names one
HandleHandshake(t) ==
  /\ t.kind = "handshake" /\ t.stage = "start"
  /\ registered' \in {registered, registered \cup {t.to}}
  /\ Advance(t, [t EXCEPT !.stage = "reply"])
  /\ UNCHANGED vars

\* handle_mailbox_relay looks up the client of the destination in chain_to_client:
\* there is none, or it is one that registered
HandleMailboxRelay(t) ==
  /\ t.kind = "mailbox" /\ t.stage = "start"
  /\ \/ End(t)
     \/ \E c \in registered : Advance(t, [t EXCEPT !.stage = "reply", !.to = c])
  /\ UNCHANGED <<vars, registered>>

\* send_raw: the connection is looked up under the read lock
FindConnection(t) ==
  /\ t.stage = "reply"
  /\ IF t.to \in DOMAIN connections
     THEN Advance(t, [t EXCEPT !.stage = "send", !.via = connections[t.to]])
     ELSE End(t)
  /\ UNCHANGED <<vars, registered>>

\* send_frame, which fails if the connection was closed meanwhile
SendTo(t) ==
  /\ t.stage = "send"
  /\ End(t)
  /\ UNCHANGED <<vars, registered>>

RunTask(t) ==
  \/ RegisterOnConnect(t)
  \/ HandleHandshake(t)
  \/ HandleMailboxRelay(t)
  \/ FindConnection(t)
  \/ SendTo(t)

\* The steps of a connection's task
ConnectionTask(k) ==
  \/ /\ Refuse(k) \/ Unregister(k) \/ OnDisconnect(k) \/ \E c \in Client : Register(k, c)
     /\ UNCHANGED <<registered, tasks>>
  \/ Connect(k)

\* The steps of the registry that belong to no connection's task
RegistryOnly ==
  /\ \/ \E k \in Conn : Accept(k) \/ SendFrame(k) \/ Lose(k)
     \/ /\ Cardinality(Handlers) < MaxTasks
        /\ \E exclude \in Client \cup {None} : StartBroadcast(exclude)
     \/ EndBroadcast
     \/ Close
  /\ UNCHANGED <<registered, tasks>>

RoutingNext ==
  \/ RegistryOnly
  \/ \E k \in Conn :
       \/ ConnectionTask(k)
       \/ \E kind \in {"handshake", "mailbox", "ping"} : Dispatch(k, kind)
  \/ \E t \in tasks : RunTask(t)

RoutingSpec == RoutingInit /\ [][RoutingNext]_routingVars

--------------------------------------------------------------------------------
\* Properties

\* A handshake or ping is answered on the very connection it came on, unless that
\* connection was closed: the answer is addressed to the client id, while the
\* client reconnects and the tasks of its older connections clean up.
AnsweredOnItsConnection ==
  \A t \in tasks : t.kind \in {"handshake", "ping"} /\ t.conn \notin closed =>
    /\ t.stage = "reply" => t.to \in DOMAIN connections /\ connections[t.to] = t.conn
    /\ t.stage = "send" => t.via = t.conn

TaskType == [kind : {"connect", "handshake", "mailbox", "ping"}, conn : Conn,
             to : Client \cup {None}, via : Conn \cup {None},
             stage : {"start", "reply", "send"}]
Answers == {t \in tasks : t.kind \in {"handshake", "ping"}}

\* The inductive invariant: what answers a message is addressed to the client of the
\* connection it came on, whose task goes on serving until the connection closes.
IndInv ==
  /\ RegistryInv
  /\ tasks \subseteq TaskType /\ registered \subseteq Client \cup {None}
  /\ \A t \in Answers : /\ t.conn \in Conn
                        /\ t.to = client[t.conn]
                        /\ stage[t.conn] \notin {"idle", "accepted"}
                        /\ t.conn \notin closed => stage[t.conn] = "serving"
  /\ AnsweredOnItsConnection

--------------------------------------------------------------------------------
\* tokio runs every ready task: the task of a closed connection, whose awaits fail,
\* and those that on_connect spawned.  Nothing is assumed of open connections, of
\* peers, of broadcasts or of the tasks that handle messages.
RoutingFairSpec ==
  /\ RoutingSpec
  /\ \A k \in Conn :
       /\ WF_routingVars(k \in closed /\ ConnectionTask(k))
       /\ WF_routingVars(\E t \in tasks : t.kind = "connect" /\ t.conn = k /\ RunTask(t))

\* A sidecar whose client id names a chain is registered sooner or later after it
\* connected, although messages may be handled and the connection replaced first.
ConnectedIsRegistered ==
  \A k \in Conn : (stage[k] = "serving" /\ client[k] \in Numbered) ~> client[k] \in registered

================================================================================

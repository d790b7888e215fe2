----------------------------- MODULE NetworkProofs -----------------------------
(***************************************************************************)
(* The safety of the connection registry and of the answers routed through *)
(* it, for all connections, clients and numbers of tasks; of framing and   *)
(* of chain ids in client ids, for inputs of every length and integers of  *)
(* every width.                                                            *)
(*                                                                         *)
(* Every step of Routing is a step of ConnectionRegistry or leaves its     *)
(* variables alone, so the registry's invariant is proved for the latter.  *)
(* That answers reach the connection that asked follows from it: an open   *)
(* connection is its client's entry, whatever the tasks of the client's    *)
(* other connections do.                                                   *)
(*                                                                         *)
(* What parsing a number computes is proved by induction, stated for a set *)
(* of numbers.  Each recursion is first shown to have a solution; then a   *)
(* number is compared with its digits one at a time.                       *)
(***************************************************************************)
EXTENDS Routing, Wire, FiniteSetTheorems, FunctionTheorems, SequenceTheorems,
        WellFoundedInduction, TLAPS

\* The connections the gauge counts are finitely many.
LEMMA CountedFinite == IsFiniteSet(Counted)
<1>1. Counted \subseteq Conn
  BY Zenon DEF Counted
<1> QED
  BY Zenon, <1>1, ConnFinite, FS_Subset

--------------------------------------------------------------------------------
\* The registry starts empty.
LEMMA RegistryInit == Init => RegistryInv
<1> SUFFICES ASSUME Init PROVE RegistryInv
  OBVIOUS
<1>1. TypeOK
  BY Zenon DEF Init, TypeOK, IsMap, EmptyMap
<1>2. OpenIsRegistered /\ NoStaleEntry
  BY DEF Init, OpenIsRegistered, NoStaleEntry, EmptyMap
<1>3. connections_active = Cardinality(Counted)
  <2>1. Counted = {}
    BY DEF Init, Counted
  <2> QED
    BY Zenon, <2>1, FS_EmptySet DEF Init
<1> QED
  BY <1>1, <1>2, <1>3 DEF Init, RegistryInv

\* accept_loop
LEMMA AcceptKeeps ==
  ASSUME RegistryInv, NEW k \in Conn, Accept(k)
  PROVE  RegistryInv'
<1> USE DEF RegistryInv, Accept, broadcast
<1>1. TypeOK'
  BY DEF TypeOK
<1>2. OpenIsRegistered' /\ NoStaleEntry'
  BY DEF TypeOK, OpenIsRegistered, NoStaleEntry, IsMap
<1>3. Counted' = Counted
  BY DEF Counted, TypeOK
<1> QED
  BY <1>1, <1>2, <1>3 DEF TypeOK

\* A connection dropped before it identified itself was in no entry.
LEMMA RefuseKeeps ==
  ASSUME RegistryInv, NEW k \in Conn, Refuse(k)
  PROVE  RegistryInv'
<1> USE DEF RegistryInv, Refuse, broadcast
<1>1. TypeOK'
  BY DEF TypeOK
<1>2. OpenIsRegistered' /\ NoStaleEntry'
  BY DEF TypeOK, OpenIsRegistered, NoStaleEntry, IsMap
<1>3. Counted' = Counted
  BY DEF Counted, TypeOK
<1> QED
  BY <1>1, <1>2, <1>3 DEF TypeOK

\* Registering a connection closes the one it replaces.
LEMMA RegisterKeeps ==
  ASSUME RegistryInv, NEW k \in Conn, NEW c \in Client, Register(k, c)
  PROVE  RegistryInv'
<1> USE DEF RegistryInv, Register, broadcast
<1>1. IsMap(connections', Client, Conn)
  BY DEF TypeOK, IsMap, Insert
<1>2. Replaced(c) \subseteq Conn
  BY DEF Replaced, TypeOK, IsMap
<1>3. TypeOK'
  BY <1>1, <1>2 DEF TypeOK
<1>4. /\ DOMAIN connections' = DOMAIN connections \cup {c}
      /\ connections'[c] = k
      /\ \A x \in DOMAIN connections \ {c} : connections'[x] = connections[x]
  BY DEF Insert
<1>5. OpenIsRegistered'
  BY <1>4 DEF OpenIsRegistered, Replaced, TypeOK
<1>6. NoStaleEntry'
  BY <1>4 DEF NoStaleEntry, TypeOK, IsMap
<1>7. Counted' = Counted
  BY DEF Counted, TypeOK
<1> QED
  BY SMTT(20), <1>3, <1>5, <1>6, <1>7 DEF TypeOK

\* on_connect counts a task that was not counted.
LEMMA OnConnectKeeps ==
  ASSUME RegistryInv, NEW k \in Conn, OnConnect(k)
  PROVE  RegistryInv'
<1> USE DEF RegistryInv, OnConnect, broadcast
<1>1. TypeOK'
  BY DEF TypeOK, CountAfterConnect
<1>2. OpenIsRegistered' /\ NoStaleEntry'
  BY DEF TypeOK, OpenIsRegistered, NoStaleEntry, IsMap
<1>3. connections_active' = Cardinality(Counted')
  <2>1. Counted' = Counted \cup {k} /\ k \notin Counted
    BY DEF Counted, TypeOK
  <2>2. Cardinality(Counted \cup {k}) = Cardinality(Counted) + 1
    BY ZenonT(30), <2>1, CountedFinite, FS_AddElement
  <2> QED
    BY <2>1, <2>2 DEF CountAfterConnect
<1> QED
  BY <1>1, <1>2, <1>3 DEF TypeOK

\* A closed connection's task removes the entry only if it is its own.
LEMMA UnregisterKeeps ==
  ASSUME RegistryInv, NEW k \in Conn, Unregister(k)
  PROVE  RegistryInv'
<1> USE DEF RegistryInv, Unregister, broadcast
<1>1. IsMap(connections', Client, Conn)
  BY DEF TypeOK, IsMap, RemoveKeys, Restrict
<1>2. TypeOK'
  BY <1>1 DEF TypeOK
<1>3. /\ DOMAIN connections' = IF Own(k) THEN DOMAIN connections \ {client[k]}
                               ELSE DOMAIN connections
      /\ \A x \in DOMAIN connections' : connections'[x] = connections[x]
  BY DEF RemoveKeys, Restrict
<1>4. OpenIsRegistered'
  BY <1>3 DEF OpenIsRegistered, Own, TypeOK
<1>5. NoStaleEntry'
  BY <1>3 DEF NoStaleEntry, Own, TypeOK, IsMap
<1>6. Counted' = Counted
  BY DEF Counted, TypeOK
<1> QED
  BY SMTT(20), <1>2, <1>4, <1>5, <1>6 DEF TypeOK

\* on_disconnect takes away a task that was counted, so the gauge stays a number.
LEMMA OnDisconnectKeeps ==
  ASSUME RegistryInv, NEW k \in Conn, OnDisconnect(k)
  PROVE  RegistryInv'
<1> USE DEF RegistryInv, OnDisconnect, broadcast
<1>1. connections_active' = Cardinality(Counted') /\ connections_active' \in Nat
  <2>1. Counted' = Counted \ {k} /\ k \in Counted
    BY DEF Counted, TypeOK
  <2>2. /\ Cardinality(Counted \ {k}) = Cardinality(Counted) - 1
        /\ IsFiniteSet(Counted \ {k})
    BY Zenon, <2>1, CountedFinite, FS_RemoveElement
  <2>3. Cardinality(Counted \ {k}) \in Nat
    BY Zenon, <2>2, FS_CardinalityType
  <2> QED
    BY <2>1, <2>2, <2>3 DEF CountAfterDisconnect
<1>2. TypeOK'
  BY <1>1 DEF TypeOK
<1>3. OpenIsRegistered' /\ NoStaleEntry'
  BY DEF TypeOK, OpenIsRegistered, NoStaleEntry, IsMap
<1> QED
  BY <1>1, <1>2, <1>3 DEF TypeOK

\* A broadcast, a shutdown and the peers change no entry, and close connections only.
LEMMA OthersKeep ==
  ASSUME RegistryInv, UNCHANGED <<stage, client, connections, connections_active>>,
         closed \subseteq closed', closed' \subseteq Conn, shutdown' \in BOOLEAN,
         targets' \subseteq snapshot' /\ sent' \subseteq snapshot' /\ snapshot' \subseteq Conn,
         snapshot' \ closed' \subseteq sent' \cup targets'
  PROVE  RegistryInv'
<1> USE DEF RegistryInv
<1>1. TypeOK'
  BY DEF TypeOK
<1>2. OpenIsRegistered' /\ NoStaleEntry'
  BY DEF OpenIsRegistered, NoStaleEntry
<1>3. Counted' = Counted
  BY DEF Counted
<1> QED
  BY <1>1, <1>2, <1>3

\* Every step of the registry keeps its invariant.
LEMMA RegistryStep == RegistryInv /\ [Next]_vars => RegistryInv'
<1> SUFFICES ASSUME RegistryInv, [Next]_vars PROVE RegistryInv'
  OBVIOUS
<1> DEFINE EntriesKept == UNCHANGED <<stage, client, connections, connections_active>>
           Closing == closed \subseteq closed' /\ closed' \subseteq Conn /\ shutdown' \in BOOLEAN
           Sending == /\ targets' \subseteq snapshot' /\ sent' \subseteq snapshot'
                      /\ snapshot' \subseteq Conn
                      /\ snapshot' \ closed' \subseteq sent' \cup targets'
<1>0. /\ closed \subseteq Conn /\ shutdown \in BOOLEAN
      /\ targets \subseteq snapshot /\ sent \subseteq snapshot /\ snapshot \subseteq Conn
      /\ snapshot \ closed \subseteq sent \cup targets
      /\ \A c \in DOMAIN connections : connections[c] \in Conn
  BY DEF RegistryInv, TypeOK, IsMap
<1>1. ASSUME EntriesKept, Closing, Sending PROVE RegistryInv'
  BY <1>1, OthersKeep, Zenon
<1> HIDE DEF EntriesKept, Closing, Sending
<1>2. ASSUME NEW k \in Conn, Task(k) PROVE RegistryInv'
  BY ZenonT(30), <1>2, RefuseKeeps, RegisterKeeps, OnConnectKeeps, UnregisterKeeps, OnDisconnectKeeps
     DEF Task
<1>3. ASSUME NEW k \in Conn, SendFrame(k) PROVE RegistryInv'
  <2>1. EntriesKept /\ Closing
    BY <1>0, <1>3, Zenon DEF EntriesKept, Closing, SendFrame
  <2>2. Sending
    BY <1>0, <1>3 DEF Sending, SendFrame, AfterSending
  <2> QED BY <1>1, <2>1, <2>2, Zenon
<1>4. ASSUME NEW k \in Conn, Lose(k) PROVE RegistryInv'
  <2>1. EntriesKept /\ Closing
    BY <1>0, <1>4, Zenon DEF EntriesKept, Closing, Lose
  <2>2. Sending
    BY <1>0, <1>4 DEF Sending, Lose, broadcast
  <2> QED BY <1>1, <2>1, <2>2, Zenon
<1>5. ASSUME NEW exclude, StartBroadcast(exclude) PROVE RegistryInv'
  <2>1. EntriesKept /\ Closing
    BY <1>0, <1>5, Zenon DEF EntriesKept, Closing, StartBroadcast
  <2>2. Sending
    BY <1>0, <1>5 DEF Sending, StartBroadcast
  <2> QED BY <1>1, <2>1, <2>2, Zenon
<1>6. CASE EndBroadcast
  <2>1. EntriesKept /\ Closing
    BY <1>0, <1>6, Zenon DEF EntriesKept, Closing, EndBroadcast
  <2>2. Sending
    BY <1>0, <1>6 DEF Sending, EndBroadcast
  <2> QED BY <1>1, <2>1, <2>2, Zenon
<1>7. CASE Close
  <2>1. EntriesKept /\ Closing
    BY <1>0, <1>7, Zenon DEF EntriesKept, Closing, Close
  <2>2. Sending
    BY <1>0, <1>7 DEF Sending, Close, broadcast
  <2> QED BY <1>1, <2>1, <2>2, Zenon
<1>8. CASE UNCHANGED vars
  <2>1. EntriesKept /\ Closing
    BY <1>0, <1>8, Zenon DEF EntriesKept, Closing, vars
  <2>2. Sending
    BY <1>0, <1>8 DEF Sending, vars, broadcast
  <2> QED BY <1>1, <2>1, <2>2, Zenon
<1> QED
  BY ZenonT(30), <1>2, <1>3, <1>4, <1>5, <1>6, <1>7, <1>8, AcceptKeeps DEF Next

--------------------------------------------------------------------------------
\* What the registry's invariant says about its state
LEMMA RegistryConsequences ==
  RegistryInv => TypeOK /\ OpenIsRegistered /\ NoStaleEntry /\ BroadcastReachesOpen
BY DEF RegistryInv, BroadcastReachesOpen

\* Once no task is between registering and ending, the entries and the counted
\* connections correspond one to one.
LEMMA GaugeFromInvariant == RegistryInv => GaugeMatchesRegistry
<1> SUFFICES ASSUME RegistryInv,
                    \A k \in Conn : \/ stage[k] \in {"idle", "accepted", "done"}
                                    \/ stage[k] = "serving" /\ k \notin closed
             PROVE  connections_active = Cardinality(DOMAIN connections)
  BY DEF GaugeMatchesRegistry
<1> USE DEF RegistryInv
<1>1. connections \in [DOMAIN connections -> Counted]
  <2>1. \A c \in DOMAIN connections : connections[c] \in Counted
    BY DEF Counted, NoStaleEntry, TypeOK, IsMap
  <2> QED
    BY <2>1 DEF TypeOK, IsMap
<1>2. \A c, d \in DOMAIN connections : connections[c] = connections[d] => c = d
  BY DEF NoStaleEntry
<1>3. \A k \in Counted : \E c \in DOMAIN connections : connections[c] = k
  BY DEF Counted, OpenIsRegistered
<1>4. connections \in Bijection(DOMAIN connections, Counted)
  BY SMTT(20), <1>1, <1>2, <1>3 DEF Bijection, Injection, Surjection, IsInjective
<1>5. ExistsBijection(Counted, DOMAIN connections)
  BY Zenon, <1>4, Fun_ExistsBijSymmetric DEF ExistsBijection
<1> QED
  BY ZenonT(30), <1>5, CountedFinite, FS_Bijection

--------------------------------------------------------------------------------
\* Every step of Routing is one of the registry or leaves the registry alone.
LEMMA RoutingRefinesRegistry == [RoutingNext]_routingVars => [Next]_vars
<1> SUFFICES ASSUME [RoutingNext]_routingVars PROVE [Next]_vars
  OBVIOUS
<1>1. CASE UNCHANGED routingVars
  BY Zenon, <1>1 DEF routingVars
<1>2. CASE RegistryOnly
  BY Zenon, <1>2 DEF RegistryOnly, Next
<1>3. ASSUME NEW k \in Conn, ConnectionTask(k) PROVE Next
  BY Zenon, <1>3 DEF ConnectionTask, Connect, Next, Task
<1>4. ASSUME NEW k \in Conn, NEW kind, Dispatch(k, kind) PROVE UNCHANGED vars
  BY Zenon, <1>4 DEF Dispatch
<1>5. ASSUME NEW t \in tasks, RunTask(t) PROVE UNCHANGED vars
  BY Zenon, <1>5
     DEF RunTask, RegisterOnConnect, HandleHandshake, HandleMailboxRelay, FindConnection, SendTo
<1> QED
  BY ZenonT(30), <1>1, <1>2, <1>3, <1>4, <1>5 DEF RoutingNext

\* What IndInv says about one answer
AnswerOK(t) ==
  /\ t.conn \in Conn
  /\ t.to = client[t.conn]
  /\ stage[t.conn] \notin {"idle", "accepted"}
  /\ t.conn \notin closed =>
       /\ stage[t.conn] = "serving"
       /\ t.stage = "reply" => t.to \in DOMAIN connections /\ connections[t.to] = t.conn
       /\ t.stage = "send" => t.via = t.conn

\* IndInv, task by task
TasksTyped == tasks \subseteq TaskType /\ registered \subseteq Client \cup {None}

LEMMA IndInvByTask ==
  IndInv <=> RegistryInv /\ TasksTyped /\ \A t \in Answers : AnswerOK(t)
BY DEF IndInv, TasksTyped, Answers, AnswerOK, AnsweredOnItsConnection

LEMMA IndInvByTaskPrime ==
  IndInv' <=> RegistryInv' /\ TasksTyped' /\ \A t \in Answers' : AnswerOK(t)'
BY DEF IndInv, TasksTyped, Answers, AnswerOK, AnsweredOnItsConnection

\* A step of the registry does not touch an answer under way: the connection of the
\* answer keeps its client and, while it is open, its entry.
LEMMA RegistryKeepsAnswer ==
  ASSUME RegistryInv, RegistryInv', [Next]_vars, NEW t, AnswerOK(t)
  PROVE  AnswerOK(t)'
<1> DEFINE Kept == /\ client'[t.conn] = client[t.conn]
                   /\ closed \subseteq closed'
                   /\ stage'[t.conn] \notin {"idle", "accepted"}
                   /\ t.conn \notin closed' => stage'[t.conn] = "serving"
           Untouched == UNCHANGED <<stage, client>> /\ closed \subseteq closed'
<1>0. /\ stage \in [Conn -> {"idle", "accepted", "registered", "serving", "removed", "done"}]
      /\ client \in [Conn -> Client \cup {None}] /\ closed \subseteq Conn
      /\ t.conn \in Conn /\ t.to = client[t.conn]
      /\ stage[t.conn] \notin {"idle", "accepted"}
      /\ t.conn \notin closed => stage[t.conn] = "serving"
  BY Zenon DEF RegistryInv, TypeOK, AnswerOK
<1>1. Kept
  <2>1. ASSUME NEW k \in Conn, Accept(k) PROVE Kept
    BY SMTT(20), <1>0, <2>1 DEF Accept
  <2>2. ASSUME NEW k \in Conn, Refuse(k) PROVE Kept
    BY SMTT(20), <1>0, <2>2 DEF Refuse
  <2>3. ASSUME NEW k \in Conn, NEW c \in Client, Register(k, c) PROVE Kept
    BY SMTT(20), <1>0, <2>3 DEF Register
  <2>4. ASSUME NEW k \in Conn, OnConnect(k) PROVE Kept
    BY SMTT(20), <1>0, <2>4 DEF OnConnect
  <2>5. ASSUME NEW k \in Conn, Unregister(k) PROVE Kept
    BY SMTT(20), <1>0, <2>5 DEF Unregister
  <2>6. ASSUME NEW k \in Conn, OnDisconnect(k) PROVE Kept
    BY SMTT(20), <1>0, <2>6 DEF OnDisconnect
  <2>7. ASSUME Untouched PROVE Kept
    <3>1. stage' = stage /\ client' = client /\ closed \subseteq closed'
      BY <2>7, Zenon
    <3> QED BY <1>0, <3>1, Zenon
  <2>8. ASSUME NEW k \in Conn, SendFrame(k) \/ Lose(k) PROVE Untouched
    BY <2>8, Zenon DEF SendFrame, Lose
  <2>9. ASSUME \/ \E exclude \in Client \cup {None} : StartBroadcast(exclude)
               \/ EndBroadcast \/ UNCHANGED vars
        PROVE  Untouched
    BY <2>9, Zenon DEF StartBroadcast, EndBroadcast, vars
  <2>10. ASSUME Close PROVE Untouched
    BY <1>0, <2>10, Zenon DEF Close
  <2> HIDE DEF Kept, Untouched
  <2> QED
    BY ZenonT(30), <2>1, <2>2, <2>3, <2>4, <2>5, <2>6, <2>7, <2>8, <2>9, <2>10 DEF Next, Task
<1>2. t.conn \notin closed' => t.to \in DOMAIN connections' /\ connections'[t.to] = t.conn
  BY <1>0, <1>1, Zenon DEF RegistryInv, OpenIsRegistered
<1> QED
  BY <1>0, <1>1, <1>2, Zenon DEF AnswerOK

\* Tasks keep their shape.
LEMMA TasksStayTyped ==
  ASSUME RegistryInv, TasksTyped, [RoutingNext]_routingVars
  PROVE  TasksTyped'
<1> USE DEF TasksTyped, TaskType
<1>1. CASE UNCHANGED <<registered, tasks>>
  BY <1>1
<1>2. ASSUME NEW k \in Conn, Connect(k) PROVE TasksTyped'
  BY <1>2 DEF Connect, SpawnOnConnect, NewTask, RegistryInv, TypeOK
<1>3. ASSUME NEW k \in Conn, NEW kind \in {"handshake", "mailbox", "ping"}, Dispatch(k, kind)
      PROVE  TasksTyped'
  BY <1>3 DEF Dispatch, NewTask, RegistryInv, TypeOK
<1>4. ASSUME NEW t \in tasks, RegisterOnConnect(t) PROVE TasksTyped'
  BY <1>4 DEF RegisterOnConnect, End
<1>5. ASSUME NEW t \in tasks, HandleHandshake(t) PROVE TasksTyped'
  BY SMTT(20), <1>5 DEF HandleHandshake, Advance
<1>6. ASSUME NEW t \in tasks, HandleMailboxRelay(t) PROVE TasksTyped'
  BY ZenonT(30), <1>6 DEF HandleMailboxRelay, Advance, End
<1>7. ASSUME NEW t \in tasks, FindConnection(t) PROVE TasksTyped'
  <2>1. CASE t.to \in DOMAIN connections
    <3>1. connections[t.to] \in Conn
      BY <2>1 DEF RegistryInv, TypeOK, IsMap
    <3>2. [t EXCEPT !.stage = "send", !.via = connections[t.to]] \in TaskType
      BY Zenon, <3>1
    <3> QED
      BY Zenon, <1>7, <2>1, <3>2 DEF FindConnection, Advance
  <2>2. CASE t.to \notin DOMAIN connections
    BY <1>7, <2>2 DEF FindConnection, End
  <2> QED
    BY <2>1, <2>2
<1>8. ASSUME NEW t \in tasks, SendTo(t) PROVE TasksTyped'
  BY <1>8 DEF SendTo, End
<1> HIDE DEF TasksTyped
<1> QED
  BY ZenonT(30), <1>1, <1>2, <1>3, <1>4, <1>5, <1>6, <1>7, <1>8
     DEF RoutingNext, RegistryOnly, ConnectionTask, RunTask, routingVars

\* Initially there are no tasks.
LEMMA IndInvInit == RoutingInit => IndInv
BY RegistryInit DEF RoutingInit, IndInv, Answers, AnsweredOnItsConnection

\* Every step keeps the inductive invariant.
LEMMA IndInvStep == IndInv /\ [RoutingNext]_routingVars => IndInv'
<1> SUFFICES ASSUME IndInv, [RoutingNext]_routingVars PROVE IndInv'
  OBVIOUS
<1>1. [Next]_vars
  BY Zenon, RoutingRefinesRegistry
<1>2. RegistryInv /\ RegistryInv'
  BY Zenon, <1>1, RegistryStep DEF IndInv
<1>3. \A t \in Answers : AnswerOK(t) /\ AnswerOK(t)'
  BY ZenonT(30), <1>1, <1>2, IndInvByTask, RegistryKeepsAnswer
<1> TasksTyped /\ TasksTyped'
  BY Zenon, <1>2, IndInvByTask, TasksStayTyped
<1> SUFFICES ASSUME NEW t \in Answers', t \notin Answers PROVE AnswerOK(t)'
  BY Zenon, <1>2, <1>3, IndInvByTaskPrime
<1>4. t \in tasks' \ tasks /\ t.kind \in {"handshake", "ping"}
  BY DEF Answers
<1>5. ASSUME NEW k \in Conn, Connect(k) PROVE FALSE
  BY <1>4, <1>5 DEF Connect, SpawnOnConnect, NewTask
<1>6. ASSUME NEW k \in Conn, NEW kind, Dispatch(k, kind) PROVE AnswerOK(t)'
  <2>1. t = NewTask(kind, k) /\ stage[k] = "serving" /\ UNCHANGED vars
    BY SMTT(20), <1>4, <1>6 DEF Dispatch
  <2>2. k \notin closed => client[k] \in DOMAIN connections /\ connections[client[k]] = k
    BY <1>2, <2>1 DEF RegistryInv, OpenIsRegistered
  <2> QED
    BY <2>1, <2>2 DEF AnswerOK, NewTask, vars
<1>7. ASSUME NEW u \in tasks, HandleHandshake(u) PROVE AnswerOK(t)'
  <2>1. u \in Answers /\ t = [u EXCEPT !.stage = "reply"] /\ UNCHANGED vars
    BY <1>4, <1>7 DEF HandleHandshake, Advance, Answers, TasksTyped, TaskType
  <2>2. AnswerOK(u)
    BY ZenonT(30), <1>3, <2>1
  <2>3. u.conn \notin closed =>
          client[u.conn] \in DOMAIN connections /\ connections[client[u.conn]] = u.conn
    BY <1>2, <2>2 DEF AnswerOK, RegistryInv, OpenIsRegistered
  <2> QED
    BY <2>1, <2>2, <2>3 DEF AnswerOK, vars
<1>8. ASSUME NEW u \in tasks, FindConnection(u) PROVE AnswerOK(t)'
  <2>1. /\ t = [u EXCEPT !.stage = "send", !.via = connections[u.to]]
        /\ u.stage = "reply" /\ UNCHANGED vars
    BY Zenon, <1>4, <1>8 DEF FindConnection, Advance, End
  <2>2. /\ t.kind = u.kind /\ t.conn = u.conn /\ t.to = u.to
        /\ t.stage = "send" /\ t.via = connections[u.to]
    BY <2>1 DEF TasksTyped, TaskType
  <2>3. AnswerOK(u)
    BY <1>3, <1>4, <2>2 DEF Answers
  <2> QED
    BY <2>1, <2>2, <2>3 DEF AnswerOK, vars
<1>9. ASSUME NEW u \in tasks, HandleMailboxRelay(u) PROVE FALSE
  BY ZenonT(60), <1>4, <1>9 DEF HandleMailboxRelay, Advance, End, TasksTyped, TaskType
<1>10. ASSUME NEW u \in tasks, RegisterOnConnect(u) \/ SendTo(u) PROVE FALSE
  BY <1>4, <1>10 DEF RegisterOnConnect, SendTo, End
<1>11. CASE tasks' = tasks
  BY <1>4, <1>11
<1> QED
  BY ZenonT(30), <1>5, <1>6, <1>7, <1>8, <1>9, <1>10, <1>11
     DEF RoutingNext, RegistryOnly, ConnectionTask, RunTask, routingVars

--------------------------------------------------------------------------------
\* The inductive invariant of the registry and the tasks holds in every reachable
\* state, whatever the number of connections, clients and tasks.
THEOREM Invariance == RoutingSpec => []IndInv
BY IndInvInit, IndInvStep, PTL DEF RoutingSpec

\* handle_connection: types; the gauge never goes below zero.
THEOREM TypeCorrect == RoutingSpec => []TypeOK
<1>1. IndInv => TypeOK
  BY DEF IndInv, RegistryInv
<1> QED
  BY <1>1, Invariance, PTL

\* handle_connection: an open connection that identified itself is its client's
\* entry, and no entry outlives its task.
THEOREM RegistrationSafety == RoutingSpec => [](OpenIsRegistered /\ NoStaleEntry)
<1>1. IndInv => OpenIsRegistered /\ NoStaleEntry
  BY DEF IndInv, RegistryInv
<1> QED
  BY <1>1, Invariance, PTL

\* on_connect, on_disconnect: the gauge is the size of the registry at rest.
THEOREM GaugeSafety == RoutingSpec => []GaugeMatchesRegistry
<1>1. IndInv => GaugeMatchesRegistry
  BY SMTT(20), GaugeFromInvariant DEF IndInv
<1> QED
  BY <1>1, Invariance, PTL

\* broadcast_raw: a failing client costs no other client the broadcast.
THEOREM BroadcastSafety == RoutingSpec => []BroadcastReachesOpen
<1>1. IndInv => BroadcastReachesOpen
  BY RegistryConsequences DEF IndInv
<1> QED
  BY <1>1, Invariance, PTL

\* handle_handshake, handle_ping, send_raw: an answer goes to the connection that
\* asked, unless that one was closed.
THEOREM AnswerSafety == RoutingSpec => []AnsweredOnItsConnection
<1>1. IndInv => AnsweredOnItsConnection
  BY DEF IndInv
<1> QED
  BY <1>1, Invariance, PTL

--------------------------------------------------------------------------------
\* The inputs under construction: the size of a payload and a client id.
InputsOK == size \in Nat /\ client_id \in Seq({"0", "1", "-"})

\* Payloads and client ids keep their types as they grow.
LEMMA InputsTyped == WireSpec => []InputsOK
<1>1. WireInit => InputsOK
  BY DEF WireInit, InputsOK
<1>2. ASSUME InputsOK, [WireNext]_wireVars PROVE InputsOK'
  <2>0. size \in Nat /\ client_id \in Seq({"0", "1", "-"})
    BY <1>2, Zenon DEF InputsOK
  <2>1. CASE LongerPayload
    <3>1. size' \in Nat /\ client_id' = client_id
      BY <2>0, <2>1 DEF LongerPayload
    <3> QED BY <2>0, <3>1, Zenon DEF InputsOK
  <2>2. ASSUME NEW c \in ChainId, MoreRequests(c) PROVE InputsOK'
    BY <2>0, <2>2, Zenon DEF MoreRequests, InputsOK
  <2>3. ASSUME NEW data \in Data, MoreTransactions(data) PROVE InputsOK'
    BY <2>0, <2>3, Zenon DEF MoreTransactions, InputsOK
  <2>4. ASSUME NEW ch \in {"0", "1", "-"}, LongerClientId(ch) PROVE InputsOK'
    <3>1. client_id' = Append(client_id, ch) /\ size' = size
      BY <2>4, Zenon DEF LongerClientId
    <3>2. client_id' \in Seq({"0", "1", "-"})
      BY <2>0, <3>1
    <3> QED BY <2>0, <3>1, <3>2, Zenon DEF InputsOK
  <2>5. CASE UNCHANGED wireVars
    BY <2>0, <2>5, Zenon DEF wireVars, InputsOK
  <2> QED BY <1>2, <2>1, <2>2, <2>3, <2>4, <2>5, Zenon DEF WireNext
<1> QED BY <1>1, <1>2, PTL DEF WireSpec

\* encode's cast to u32 cuts no payload short, whatever the size that is configured,
\* as long as it is below 2^32.
THEOREM FrameSafety == WireSpec => []FrameIntact
<1>1. ASSUME InputsOK PROVE FrameIntact
  <2>1. size \in Nat /\ MaxMessageSize \in Nat /\ HeaderMod \in Nat /\ MaxMessageSize < HeaderMod
    BY <1>1, Widths, SizeFitsHeader, Zenon DEF InputsOK
  <2>2. Error \notin Nat
    BY Symbols, Zenon
  <2> SUFFICES ASSUME Encode(size) # Error PROVE ReadFrame(Encode(size)) = size
    BY Zenon DEF FrameIntact
  <2>3. size <= MaxMessageSize /\ Encode(size) = [length |-> size % HeaderMod, body |-> size]
    BY <2>1 DEF Encode, TooLarge
  <2>4. size % HeaderMod = size
    BY <2>1, <2>3
  <2>5. Encode(size).length = size /\ Encode(size).body = size
    BY <2>3, <2>4
  <2>6. DecodeLength(size) = size
    BY <2>1, <2>3 DEF DecodeLength, TooLarge
  <2>7. size # Error /\ ~(size > size)
    BY <2>1, <2>2
  <2> QED BY <2>5, <2>6, <2>7, Zenon DEF ReadFrame
<1> QED BY <1>1, InputsTyped, PTL

--------------------------------------------------------------------------------
\* Chain ids

\* Induction over the natural numbers, for the numbers of a set
LEMMA NatSetInduction ==
  ASSUME NEW P, 0 \in P, \A n \in Nat : n \in P => n + 1 \in P
  PROVE  Nat \subseteq P
<1> SUFFICES ASSUME Nat \ P # {} PROVE FALSE
  OBVIOUS
<1>1. PICK n \in Nat \ P : \A m \in Nat \ P : <<m, n>> \notin OpToRel(<, Nat)
  <2>1. Nat \ P \subseteq Nat
    OBVIOUS
  <2> QED BY <2>1, NatLessThanWellFounded, WFMin, Zenon
<1>2. n \in Nat /\ n # 0 /\ n - 1 \in Nat /\ n - 1 < n
  OBVIOUS
<1>3. <<n - 1, n>> \in OpToRel(<, Nat)
  BY <1>2 DEF OpToRel
<1>4. (n - 1) + 1 = n
  BY <1>2
<1>5. n - 1 \in P
  BY <1>1, <1>2, <1>3, Zenon
<1> QED BY <1>1, <1>2, <1>4, <1>5, Zenon

\* A sequence is a sequence over any set that has its elements.
LEMMA Retyped ==
  ASSUME NEW S, NEW T, NEW s \in Seq(S), \A i \in 1..Len(s) : s[i] \in T
  PROVE  s \in Seq(T)
<1>1. Len(s) \in Nat /\ s \in [1..Len(s) -> S]
  OBVIOUS
<1>2. s \in [1..Len(s) -> T]
  BY <1>1, Zenon
<1> QED BY <1>1, <1>2, SeqDef

\* Halving a number, as the digits do.
LEMMA Halves ==
  ASSUME NEW n \in Nat
  PROVE  /\ n \div 2 \in Nat /\ n % 2 \in {0, 1} /\ n = 2 * (n \div 2) + (n % 2)
         /\ n >= 2 => n \div 2 >= 1 /\ n \div 2 < n
OBVIOUS

Bit(n) == IF n % 2 = 1 THEN "1" ELSE "0"

\* The recursion of Digits, up to n
IsDigits(n, f) ==
  f = [m \in 0..n |-> IF m < 2 THEN <<IF m = 1 THEN "1" ELSE "0">>
                      ELSE Append(f[m \div 2], IF m % 2 = 1 THEN "1" ELSE "0")]

\* The recursion of Digits has a solution up to every number.
LEMMA DigitsExist ==
  ASSUME NEW n \in Nat
  PROVE  \E f : IsDigits(n, f)
<1> DEFINE P == {k \in Nat : \E f : IsDigits(k, f)}
<1>1. 0 \in P
  <2>1. IsDigits(0, [m \in 0..0 |-> <<"0">>])
    BY DEF IsDigits
  <2> QED BY <2>1
<1>2. ASSUME NEW k \in Nat, k \in P PROVE k + 1 \in P
  <2>1. PICK f : IsDigits(k, f)
    BY <1>2
  <2> DEFINE Val(g, m) == IF m < 2 THEN <<IF m = 1 THEN "1" ELSE "0">>
                          ELSE Append(g[m \div 2], IF m % 2 = 1 THEN "1" ELSE "0")
             h == [m \in 0..(k + 1) |-> IF m <= k THEN f[m] ELSE Val(f, m)]
  <2>2. ASSUME NEW m \in 0..(k + 1) PROVE h[m] = Val(h, m)
    <3>1. m \in Nat /\ (~(m < 2) => m \div 2 \in 0..(k + 1) /\ m \div 2 <= k)
      BY Halves
    <3>2. ~(m < 2) => h[m \div 2] = f[m \div 2]
      BY <3>1, Zenon
    <3>3. Val(h, m) = Val(f, m)
      <4> HIDE DEF h
      <4>1. CASE m < 2
        BY <4>1
      <4>2. CASE ~(m < 2)
        BY <3>2, <4>2, Zenon
      <4> QED BY <4>1, <4>2
    <3>4. m <= k => m \in 0..k
      OBVIOUS
    <3>5. m <= k => f[m] = Val(f, m)
      BY <2>1, <3>4, Zenon DEF IsDigits
    <3>6. h[m] = IF m <= k THEN f[m] ELSE Val(f, m)
      BY Zenon
    <3> QED BY <3>3, <3>5, <3>6, Zenon
  <2>3. IsDigits(k + 1, h)
    BY <2>2, Zenon DEF IsDigits
  <2> QED BY <2>3
<1> HIDE DEF P
<1>3. Nat \subseteq P
  BY <1>1, <1>2, NatSetInduction
<1> QED BY <1>3, Zenon DEF P

\* Its solutions agree as far as both go, so the bound does not matter.
LEMMA DigitsAgree ==
  ASSUME NEW n \in Nat, NEW o \in Nat, NEW f, NEW g, IsDigits(n, f), IsDigits(o, g)
  PROVE  \A m \in Nat : m <= n /\ m <= o => f[m] = g[m]
<1> DEFINE P == {k \in Nat : \A m \in 0..k : m <= n /\ m <= o => f[m] = g[m]}
<1>0. ASSUME NEW m \in Nat, m <= n, m <= o, ~(m < 2) => f[m \div 2] = g[m \div 2]
      PROVE  f[m] = g[m]
  <2>1. m \in 0..n /\ m \in 0..o
    BY <1>0
  <2> QED BY <1>0, <2>1, Zenon DEF IsDigits
<1>1. 0 \in P
  <2>1. 0 < 2 /\ \A m \in 0..0 : m = 0
    OBVIOUS
  <2> QED BY <1>0, <2>1, Zenon
<1>2. ASSUME NEW k \in Nat, k \in P PROVE k + 1 \in P
  <2> SUFFICES ASSUME NEW m \in 0..(k + 1), m <= n, m <= o PROVE f[m] = g[m]
    OBVIOUS
  <2>1. m \in Nat /\ (~(m < 2) => m \div 2 \in 0..k /\ m \div 2 <= n /\ m \div 2 <= o)
    BY Halves
  <2> QED BY <1>0, <1>2, <2>1, Zenon
<1> HIDE DEF P
<1>3. Nat \subseteq P
  BY <1>1, <1>2, NatSetInduction
<1>4. \A m \in Nat : m \in 0..m
  OBVIOUS
<1> QED BY <1>3, <1>4, Zenon DEF P

\* What the digits of a number are
LEMMA DigitsOf ==
  ASSUME NEW n \in Nat
  PROVE  Digits(n) = IF n < 2 THEN <<Bit(n)>> ELSE Append(Digits(n \div 2), Bit(n))
<1> DEFINE F(k) == CHOOSE f : IsDigits(k, f)
<1>1. ASSUME NEW k \in Nat PROVE IsDigits(k, F(k)) /\ Digits(k) = F(k)[k]
  <2>1. IsDigits(k, F(k))
    BY DigitsExist, Zenon
  <2>2. Digits(k) = F(k)[k]
    BY Zenon DEF Digits, IsDigits
  <2> QED BY <2>1, <2>2
<1> HIDE DEF F
<1>2. n \in 0..n /\ (n < 2 => n % 2 = n)
  OBVIOUS
<1>3. F(n)[n] = IF n < 2 THEN <<Bit(n)>> ELSE Append(F(n)[n \div 2], Bit(n))
  BY <1>1, <1>2, Zenon DEF IsDigits, Bit
<1>4. ASSUME ~(n < 2) PROVE F(n)[n \div 2] = F(n \div 2)[n \div 2]
  <2> PICK m : m = n \div 2
    BY Zenon
  <2>1. m \in Nat /\ m <= n /\ m <= m
    BY Halves
  <2>2. IsDigits(n, F(n)) /\ IsDigits(m, F(m))
    BY <1>1, <2>1, Zenon
  <2>3. F(n)[m] = F(m)[m]
    BY <2>1, <2>2, DigitsAgree
  <2> QED BY <2>3, Zenon
<1>5. n \div 2 \in Nat
  BY Halves
<1> QED BY <1>1, <1>3, <1>4, <1>5, Zenon

\* Digits are digits, and there is at least one.
LEMMA DigitsType ==
  ASSUME NEW n \in Nat
  PROVE  Digits(n) \in Seq({"0", "1"}) /\ Len(Digits(n)) >= 1
<1> DEFINE T(m) == Digits(m) \in Seq({"0", "1"}) /\ Len(Digits(m)) >= 1
           P == {k \in Nat : \A m \in 0..k : T(m)}
<1>1. ASSUME NEW m \in Nat, m < 2 PROVE T(m)
  <2>1. Digits(m) = <<Bit(m)>>
    BY <1>1, DigitsOf, Zenon
  <2>2. Bit(m) \in {"0", "1"}
    BY Zenon DEF Bit
  <2> QED BY <2>1, <2>2
<1>2. ASSUME NEW m \in Nat, ~(m < 2), T(m \div 2) PROVE T(m)
  <2> PICK d, b : d = Digits(m \div 2) /\ b = Bit(m)
    BY Zenon
  <2>1. Digits(m) = Append(d, b)
    BY <1>2, DigitsOf, Zenon
  <2>2. b \in {"0", "1"}
    BY Zenon DEF Bit
  <2>3. d \in Seq({"0", "1"}) /\ Len(d) >= 1
    BY <1>2, Zenon
  <2>4. Append(d, b) \in Seq({"0", "1"}) /\ Len(Append(d, b)) >= 1
    BY <2>2, <2>3
  <2> QED BY <2>1, <2>4, Zenon
<1> HIDE DEF T
<1>3. 0 \in P
  <2>1. \A m \in 0..0 : m \in Nat /\ m < 2
    OBVIOUS
  <2> QED BY <1>1, <2>1
<1>4. ASSUME NEW k \in Nat, k \in P PROVE k + 1 \in P
  <2> SUFFICES ASSUME NEW m \in 0..(k + 1) PROVE T(m)
    OBVIOUS
  <2>1. m \in Nat /\ (~(m < 2) => m \div 2 \in 0..k)
    BY Halves
  <2> QED BY <1>1, <1>2, <1>4, <2>1, Zenon
<1> HIDE DEF P
<1>5. Nat \subseteq P
  BY <1>3, <1>4, NatSetInduction
<1>6. n \in 0..n
  OBVIOUS
<1> QED BY <1>5, <1>6, Zenon DEF P, T

\* A piece of a sequence and the element behind it.
LEMMA OneMore ==
  ASSUME NEW S, NEW s \in Seq(S), NEW k \in 0..(Len(s) - 1), NEW z \in 0..k
  PROVE  /\ SubSeq(s, z + 1, k) \in Seq(S) /\ Len(SubSeq(s, z + 1, k)) = k - z
         /\ s[k + 1] \in S
         /\ SubSeq(s, z + 1, k + 1) = Append(SubSeq(s, z + 1, k), s[k + 1])
<1>1. /\ SubSeq(s, z + 1, k) \in Seq(S) /\ Len(SubSeq(s, z + 1, k)) = k - z
      /\ \A i \in 1..(k - z) : SubSeq(s, z + 1, k)[i] = s[z + i]
  OBVIOUS
<1>2. /\ SubSeq(s, z + 1, k + 1) \in Seq(S) /\ Len(SubSeq(s, z + 1, k + 1)) = (k - z) + 1
      /\ \A i \in 1..((k - z) + 1) : SubSeq(s, z + 1, k + 1)[i] = s[z + i]
  OBVIOUS
<1>3. s[k + 1] \in S
  OBVIOUS
<1> PICK t, u, e : t = SubSeq(s, z + 1, k) /\ u = SubSeq(s, z + 1, k + 1) /\ e = s[k + 1]
  BY Zenon
<1>4. /\ t \in Seq(S) /\ u \in Seq(S) /\ e \in S /\ Len(t) = k - z /\ Len(u) = Len(t) + 1
      /\ \A i \in 1..Len(t) : u[i] = t[i]
      /\ u[Len(t) + 1] = e
  BY SMTT(20), <1>1, <1>2, <1>3
<1>5. u = Append(t, e)
  <2>1. /\ Append(t, e) \in Seq(S) /\ Len(Append(t, e)) = Len(u)
        /\ \A i \in 1..Len(u) : Append(t, e)[i] = IF i = Len(t) + 1 THEN e ELSE t[i]
    BY <1>4
  <2>2. \A i \in 1..Len(u) : i = Len(t) + 1 \/ i \in 1..Len(t)
    BY <1>4
  <2>3. \A i \in 1..Len(u) : u[i] = Append(t, e)[i]
    BY <1>4, <2>1, <2>2, Zenon
  <2> QED BY SMTT(20), <1>4, <2>1, <2>3, SeqEqual
<1> QED BY <1>4, <1>5, Zenon

\* What Append adds is the last element.
LEMMA AppendIs ==
  ASSUME NEW S, NEW t \in Seq(S), NEW d \in S
  PROVE  Len(Append(t, d)) = Len(t) + 1 /\ Append(t, d)[Len(t) + 1] = d /\ Len(t) \in Nat
OBVIOUS

\* Sequences that are the same with an element appended were the same before.
LEMMA SameAppended ==
  ASSUME NEW S, NEW s \in Seq(S), NEW t \in Seq(S), NEW d \in S, NEW e \in S,
         Append(s, d) = Append(t, e)
  PROVE  s = t /\ d = e
OBVIOUS

\* A sequence of one element is an element appended to none.
LEMMA AppendedTo ==
  ASSUME NEW S, NEW t \in Seq(S), NEW d \in S, NEW e \in S, Append(t, d) = <<e>>
  PROVE  Len(t) = 0 /\ d = e
<1>1. Len(Append(t, d)) = Len(t) + 1 /\ Append(t, d)[Len(t) + 1] = d /\ Len(t) \in Nat
  BY AppendIs, Zenon
<1>2. Len(<<e>>) = 1 /\ <<e>>[1] = e
  OBVIOUS
<1>3. Len(t) + 1 = 1
  BY <1>1, <1>2, Zenon
<1>4. Len(t) = 0
  BY <1>1, <1>3
<1> QED BY <1>1, <1>2, <1>3, <1>4, Zenon

\* An element appended to none is a sequence of one element.
LEMMA AppendedToNone ==
  ASSUME NEW S, NEW t \in Seq(S), NEW d \in S, Len(t) = 0
  PROVE  Append(t, d) = <<d>>
OBVIOUS

\* The first k characters of s show n, with any leading zeros
Zeros(s, k) == \A i \in 1..k : s[i] = "0"
Shows(s, k, n) ==
  IF k = 0 THEN n = 0
  ELSE \E z \in 0..(k - 1) : Zeros(s, z) /\ SubSeq(s, z + 1, k) = Digits(n)

\* Characters that show 0 are zeros
LEMMA ShowsZero ==
  ASSUME NEW s \in Seq({"0", "1"}), NEW k \in 0..Len(s)
  PROVE  Shows(s, k, 0) <=> Zeros(s, k)
<1>0. Len(s) \in Nat /\ k \in Nat
  OBVIOUS
<1>1. Digits(0) = <<"0">>
  <2>1. 0 < 2 /\ 0 % 2 # 1 /\ 0 \in Nat
    OBVIOUS
  <2> QED BY <2>1, DigitsOf, Zenon DEF Bit
<1>2. CASE k = 0
  <2>1. 1..k = {}
    BY <1>2
  <2> QED BY <1>2, <2>1, Zenon DEF Shows, Zeros
<1>3. CASE k # 0
  <2> PICK j : j = k - 1
    BY Zenon
  <2>0. j \in 0..(Len(s) - 1) /\ k = j + 1 /\ j \in 0..(k - 1) /\ j \in Nat
    BY <1>0, <1>3
  <2>1. \A z \in 0..(k - 1) : Len(SubSeq(s, z + 1, k)) = k - z
    BY <1>0
  <2>2. SubSeq(s, j + 1, k) = <<s[k]>>
    <3> PICK t, e : t = SubSeq(s, j + 1, j) /\ e = s[j + 1]
      BY Zenon
    <3>1. j \in 0..j /\ j - j = 0
      BY <2>0
    <3>2. /\ t \in Seq({"0", "1"}) /\ Len(t) = j - j /\ e \in {"0", "1"}
          /\ SubSeq(s, j + 1, j + 1) = Append(t, e)
      BY <2>0, <3>1, OneMore
    <3>3. Append(t, e) = <<e>>
      BY <3>1, <3>2, AppendedToNone, ZenonT(30)
    <3> QED BY <2>0, <3>2, <3>3, Zenon
  <2>3. ASSUME NEW z \in 0..(k - 1), SubSeq(s, z + 1, k) = Digits(0) PROVE z = j
    <3>1. Len(SubSeq(s, z + 1, k)) = 1
      BY <1>1, <2>3
    <3> QED BY <2>0, <2>1, <3>1
  <2>4. Zeros(s, k) <=> Zeros(s, j) /\ s[k] = "0"
    <3>1. \A i : i \in 1..k <=> i \in 1..j \/ i = k
      BY <2>0
    <3> QED BY <3>1, Zenon DEF Zeros
  <2>5. <<s[k]>> = <<"0">> <=> s[k] = "0"
    OBVIOUS
  <2>6. Shows(s, k, 0) <=> \E z \in 0..(k - 1) : Zeros(s, z) /\ SubSeq(s, z + 1, k) = Digits(0)
    BY <1>3, Zenon DEF Shows
  <2>7. ASSUME Shows(s, k, 0) PROVE Zeros(s, k)
    <3>1. Zeros(s, j) /\ SubSeq(s, j + 1, k) = Digits(0)
      BY <2>3, <2>6, <2>7, Zenon
    <3> QED BY <1>1, <2>2, <2>4, <2>5, <3>1, Zenon
  <2>8. ASSUME Zeros(s, k) PROVE Shows(s, k, 0)
    BY <1>1, <2>0, <2>2, <2>4, <2>6, <2>8, Zenon
  <2> QED BY <2>7, <2>8
<1> QED BY <1>2, <1>3

\* One character more: the number is doubled and the digit added
LEMMA ShowsMore ==
  ASSUME NEW s \in Seq({"0", "1"}), NEW k \in 0..(Len(s) - 1), NEW n \in Nat
  PROVE  Shows(s, k + 1, n) <=> Shows(s, k, n \div 2) /\ s[k + 1] = Bit(n)
<1> DEFINE C == {"0", "1"}
<1>0. /\ Len(s) \in Nat /\ k \in Nat /\ k + 1 # 0 /\ (k + 1) - 1 = k
      /\ k \in 0..Len(s) /\ k \in 0..k
  OBVIOUS
<1>1. Shows(s, k + 1, n) <=> \E z \in 0..k : Zeros(s, z) /\ SubSeq(s, z + 1, k + 1) = Digits(n)
  BY <1>0, Zenon DEF Shows
<1>2. ASSUME NEW z \in 0..k
      PROVE  /\ SubSeq(s, z + 1, k) \in Seq(C) /\ Len(SubSeq(s, z + 1, k)) = k - z
             /\ s[k + 1] \in C
             /\ SubSeq(s, z + 1, k + 1) = Append(SubSeq(s, z + 1, k), s[k + 1])
  BY OneMore
<1>3. Bit(n) \in C
  BY Zenon DEF Bit
<1> HIDE DEF C
<1>4. CASE n < 2
  <2>1. n \div 2 = 0
    BY <1>4
  <2>2. Digits(n) = <<Bit(n)>>
    BY <1>4, DigitsOf, Zenon
  <2>3. ASSUME NEW z \in 0..k
        PROVE  SubSeq(s, z + 1, k + 1) = Digits(n) <=> z = k /\ s[k + 1] = Bit(n)
    <3>0. PICK t, e, b : t = SubSeq(s, z + 1, k) /\ e = s[k + 1] /\ b = Bit(n)
      BY Zenon
    <3>1. t \in Seq(C) /\ Len(t) = k - z /\ e \in C /\ b \in C
      BY <1>2, <1>3, <3>0, Zenon
    <3>2. (Append(t, e) = <<b>>) <=> (Len(t) = 0 /\ e = b)
      <4>1. ASSUME Append(t, e) = <<b>> PROVE Len(t) = 0 /\ e = b
        BY <3>1, <4>1, AppendedTo
      <4>2. ASSUME Len(t) = 0, e = b PROVE Append(t, e) = <<b>>
        BY <3>1, <4>2, AppendedToNone, Zenon
      <4> QED BY <4>1, <4>2
    <3>3. (k - z = 0) <=> z = k
      BY <1>0
    <3>4. SubSeq(s, z + 1, k + 1) = Append(t, e)
      BY <1>2, <3>0, Zenon
    <3> QED BY <2>2, <3>0, <3>1, <3>2, <3>3, <3>4, Zenon
  <2>4. Shows(s, k + 1, n) <=> Zeros(s, k) /\ s[k + 1] = Bit(n)
    BY <1>0, <1>1, <2>3, Zenon
  <2>5. Shows(s, k, 0) <=> Zeros(s, k)
    BY <1>0, ShowsZero, Zenon
  <2> QED BY <2>1, <2>4, <2>5, Zenon
<1>5. CASE ~(n < 2)
  <2> PICK m : m = n \div 2
    BY Zenon
  <2>1. m \in Nat /\ m # 0
    BY <1>5, Halves
  <2>2. Digits(n) = Append(Digits(m), Bit(n)) /\ Digits(m) \in Seq(C) /\ Len(Digits(m)) >= 1
    BY <1>5, <2>1, DigitsOf, DigitsType, Zenon DEF C
  <2>3. ASSUME NEW z \in 0..k
        PROVE  SubSeq(s, z + 1, k + 1) = Digits(n)
                 <=> SubSeq(s, z + 1, k) = Digits(m) /\ s[k + 1] = Bit(n)
    <3>0. PICK t, e, u, b : /\ t = SubSeq(s, z + 1, k) /\ e = s[k + 1]
                            /\ u = Digits(m) /\ b = Bit(n)
      BY Zenon
    <3>1. t \in Seq(C) /\ e \in C /\ u \in Seq(C) /\ b \in C
      BY <1>2, <1>3, <2>2, <3>0, Zenon
    <3>2. (Append(t, e) = Append(u, b)) <=> (t = u /\ e = b)
      <4>1. ASSUME Append(t, e) = Append(u, b) PROVE t = u /\ e = b
        BY <3>1, <4>1, SameAppended
      <4>2. ASSUME t = u, e = b PROVE Append(t, e) = Append(u, b)
        BY <4>2, Zenon
      <4> QED BY <4>1, <4>2
    <3>3. SubSeq(s, z + 1, k + 1) = Append(t, e) /\ Digits(n) = Append(u, b)
      BY <1>2, <2>2, <3>0, Zenon
    <3> QED BY <3>0, <3>2, <3>3, Zenon
  <2>4. ASSUME NEW z \in 0..k, SubSeq(s, z + 1, k) = Digits(m)
        PROVE  k # 0 /\ z \in 0..(k - 1)
    <3>1. k - z >= 1
      BY <1>2, <2>2, <2>4, Zenon
    <3> QED BY <1>0, <3>1
  <2>5. k # 0 => \A z \in 0..(k - 1) : z \in 0..k
    BY <1>0
  <2>6. Shows(s, k, m) <=> \E z \in 0..k : Zeros(s, z) /\ SubSeq(s, z + 1, k) = Digits(m)
    BY <2>1, <2>4, <2>5, Zenon DEF Shows
  <2> QED BY <1>1, <2>3, <2>6, Zenon
<1> QED BY <1>4, <1>5

\* The recursion of ParseU64, up to k
IsNumber(s, k, f) ==
  f = [i \in 0..k |->
         IF i = 0 THEN 0
         ELSE IF f[i - 1] = Error \/ 2 * f[i - 1] + Digit(s[i]) > MaxChainId THEN Error
              ELSE 2 * f[i - 1] + Digit(s[i])]

\* The recursion of ParseU64 has a solution.
LEMMA NumbersExist ==
  ASSUME NEW s, NEW n \in Nat
  PROVE  \E f : IsNumber(s, n, f)
<1> DEFINE P == {k \in Nat : \E f : IsNumber(s, k, f)}
<1>1. 0 \in P
  <2>1. IsNumber(s, 0, [i \in 0..0 |-> 0])
    BY DEF IsNumber
  <2> QED BY <2>1
<1>2. ASSUME NEW k \in Nat, k \in P PROVE k + 1 \in P
  <2>1. PICK f : IsNumber(s, k, f)
    BY <1>2
  <2> DEFINE Step(v, d) == IF v = Error \/ 2 * v + d > MaxChainId THEN Error ELSE 2 * v + d
             Val(g, i) == IF i = 0 THEN 0 ELSE Step(g[i - 1], Digit(s[i]))
             h == [i \in 0..(k + 1) |-> IF i <= k THEN f[i] ELSE Val(f, i)]
  <2>2. ASSUME NEW i \in 0..(k + 1) PROVE h[i] = Val(h, i)
    <3>1. i # 0 => i - 1 \in 0..(k + 1) /\ i - 1 <= k
      OBVIOUS
    <3>2. i # 0 => h[i - 1] = f[i - 1]
      BY <3>1, Zenon
    <3>3. Val(h, i) = Val(f, i)
      <4> HIDE DEF h, Step
      <4> QED BY <3>2, Zenon
    <3>4. i <= k => i \in 0..k
      OBVIOUS
    <3>5. i <= k => f[i] = Val(f, i)
      BY <2>1, <3>4, Zenon DEF IsNumber
    <3>6. h[i] = IF i <= k THEN f[i] ELSE Val(f, i)
      BY Zenon
    <3> QED BY <3>3, <3>5, <3>6, Zenon
  <2>3. IsNumber(s, k + 1, h)
    BY <2>2, Zenon DEF IsNumber
  <2> QED BY <2>3
<1> HIDE DEF P
<1>3. Nat \subseteq P
  BY <1>1, <1>2, NatSetInduction
<1> QED BY <1>3, Zenon DEF P

\* Doubling and adding a digit, and taking them apart again.
LEMMA OneDigitMore ==
  ASSUME NEW v \in Nat, NEW d \in {0, 1}, NEW n \in Nat
  PROVE  n = 2 * v + d <=> n \div 2 = v /\ n % 2 = d
OBVIOUS

\* parse::<u64> returns the number that the digits show, if it is not too large.
LEMMA Parsed ==
  ASSUME NEW s \in Seq({"0", "1"}), NEW n \in Nat
  PROVE  (ParseU64(s) = n) <=> (n <= MaxChainId /\ Shows(s, Len(s), n))
<1> DEFINE len == Len(s)
           f == CHOOSE f : IsNumber(s, len, f)
           Right(k) == /\ f[k] \in Nat \cup {Error}
                       /\ \A m \in Nat : (f[k] = m) <=> (m <= MaxChainId /\ Shows(s, k, m))
           P == {k \in Nat : k <= len => Right(k)}
<1>0. len \in Nat /\ len \in 0..len /\ MaxChainId \in Nat /\ Error \notin Nat
  BY Widths, Symbols
<1>1. IsNumber(s, len, f)
  BY <1>0, NumbersExist, Zenon
<1>2. ParseU64(s) = f[len]
  BY Zenon DEF ParseU64, IsNumber
<1> HIDE DEF f
<1>3. 0 \in P
  <2>1. f[0] = 0
    BY <1>0, <1>1 DEF IsNumber
  <2>2. 0 \in Nat /\ \A m \in Nat : (0 = m) <=> (m <= MaxChainId /\ m = 0)
    BY <1>0
  <2>3. \A m : Shows(s, 0, m) <=> m = 0
    BY DEF Shows
  <2>4. Right(0)
    BY <2>1, <2>2, <2>3
  <2> QED BY <2>2, <2>4, Zenon
<1>4. ASSUME NEW k \in Nat, k \in P PROVE k + 1 \in P
  <2> SUFFICES ASSUME k + 1 <= len PROVE Right(k + 1)
    OBVIOUS
  <2>1. k <= len /\ k \in 0..(len - 1) /\ k + 1 \in 0..len /\ k + 1 # 0 /\ (k + 1) - 1 = k
    BY <1>0
  <2>2. Right(k)
    BY <1>4, <2>1, Zenon
  <2>3. PICK v, d, w : v = f[k] /\ d = Digit(s[k + 1]) /\ w = f[k + 1]
    BY Zenon
  <2>4. w = IF v = Error \/ 2 * v + d > MaxChainId THEN Error ELSE 2 * v + d
    BY <1>1, <2>1, <2>3, Zenon DEF IsNumber
  <2>5. s[k + 1] \in {"0", "1"} /\ d \in {0, 1}
    <3>1. s[k + 1] \in {"0", "1"}
      BY <2>1
    <3> QED BY <3>1, <2>3, Zenon DEF Digit
  <2>6. /\ v \in Nat \cup {Error}
        /\ \A m \in Nat : (v = m) <=> (m <= MaxChainId /\ Shows(s, k, m))
    BY <2>2, <2>3, Zenon
  <2>7. ASSUME NEW m \in Nat
        PROVE  Shows(s, k + 1, m) <=> (Shows(s, k, m \div 2) /\ d = m % 2)
    <3>1. m % 2 \in {0, 1}
      BY Halves
    <3>2. (s[k + 1] = Bit(m)) <=> (d = m % 2)
      BY SMTT(20), <3>1, <2>3, <2>5 DEF Bit, Digit
    <3> QED BY <2>1, <3>2, ShowsMore, Zenon
  <2>8. w \in Nat \cup {Error}
    BY SMTT(20), <1>0, <2>4, <2>5, <2>6
  <2>9. ASSUME NEW m \in Nat
        PROVE  (w = m) <=> (m <= MaxChainId /\ Shows(s, k + 1, m))
    <3>1. PICK h, b : h = m \div 2 /\ b = m % 2
      BY Zenon
    <3>2. h \in Nat /\ (m <= MaxChainId => h <= MaxChainId)
      BY <1>0, <3>1, Halves
    <3>3. (v = h) <=> (h <= MaxChainId /\ Shows(s, k, h))
      BY <2>6, <3>2, Zenon
    <3>4. Shows(s, k + 1, m) <=> (Shows(s, k, h) /\ d = b)
      BY <2>7, <3>1, Zenon
    <3>5. v \in Nat => ((m = 2 * v + d) <=> (h = v /\ b = d))
      BY <2>5, <3>1, OneDigitMore, Zenon
    <3>6. CASE v = Error
      BY <1>0, <2>4, <3>2, <3>3, <3>4, <3>6, Zenon
    <3>7. CASE v \in Nat
      BY <1>0, <2>4, <2>5, <3>2, <3>3, <3>4, <3>5, <3>7
    <3> QED BY <2>6, <3>6, <3>7, Zenon
  <2> QED BY <2>3, <2>8, <2>9, Zenon
<1> HIDE DEF P
<1>5. Nat \subseteq P
  BY <1>3, <1>4, NatSetInduction
<1>6. len <= len
  BY <1>0
<1> QED BY <1>0, <1>2, <1>5, <1>6, Zenon DEF P

\* A set of numbers has a least one.
LEMMA LeastOf ==
  ASSUME NEW S, S \subseteq Nat, S # {}
  PROVE  Min(S) \in S /\ \A m \in S : Min(S) <= m
<1>1. PICK n \in S : \A m \in S : <<m, n>> \notin OpToRel(<, Nat)
  BY NatLessThanWellFounded, WFMin, Zenon
<1>2. \A m \in S : n <= m
  <2> SUFFICES ASSUME NEW m \in S, m < n PROVE FALSE
    OBVIOUS
  <2>1. <<m, n>> \in OpToRel(<, Nat)
    BY DEF OpToRel
  <2> QED BY <1>1, <2>1, Zenon
<1> QED BY <1>2, Zenon DEF Min

\* The first k characters of a client id are all of its leading digits
Leading(chars, k) ==
  /\ \A i \in 1..k : IsDigit(chars[i])
  /\ k < Len(chars) => ~IsDigit(chars[k + 1])

\* take_while keeps the leading digits
LEMMA LeadingDigits ==
  ASSUME NEW chars \in Seq({"0", "1", "-"})
  PROVE  \E k \in 0..Len(chars) :
           /\ Leading(chars, k)
           /\ NumStr(chars) \in Seq({"0", "1"}) /\ Len(NumStr(chars)) = k
           /\ \A i \in 1..k : NumStr(chars)[i] = chars[i]
<1> DEFINE len == Len(chars)
           I == {i \in 1..len : ~IsDigit(chars[i])}
<1>0. len \in Nat /\ len \in 0..len /\ ~(len < len)
  OBVIOUS
<1>1. NumStr(chars) = LET stop == IF I # {} THEN Min(I) ELSE 0
                      IN IF stop = 0 THEN chars ELSE SubSeq(chars, 1, stop - 1)
  BY Zenon DEF NumStr, SelectInSeq
<1>2. CASE I = {}
  <2>1. NumStr(chars) = chars
    BY <1>1, <1>2, Zenon
  <2>2. \A i \in 1..len : IsDigit(chars[i])
    BY <1>2, Zenon
  <2>3. chars \in Seq({"0", "1"})
    BY <2>2, Retyped, Zenon DEF IsDigit
  <2> QED BY <1>0, <2>1, <2>2, <2>3, Zenon DEF Leading
<1>3. CASE I # {}
  <2>0. PICK stop : stop = Min(I)
    BY Zenon
  <2>1. I \subseteq Nat
    BY <1>0
  <2>2. stop \in I /\ \A i \in I : stop <= i
    BY <1>3, <2>0, <2>1, LeastOf, Zenon
  <2>3. stop \in 1..len /\ ~IsDigit(chars[stop])
    BY <2>2, Zenon
  <2>4. PICK k : k = stop - 1
    BY Zenon
  <2>5. k \in 0..len /\ stop = k + 1 /\ stop # 0
    BY <1>0, <2>3, <2>4
  <2>6. NumStr(chars) = SubSeq(chars, 1, k)
    BY <1>1, <1>3, <2>0, <2>4, <2>5, Zenon
  <2>7. ASSUME NEW i \in 1..k PROVE IsDigit(chars[i])
    <3>1. i \in 1..len /\ ~(stop <= i)
      BY <1>0, <2>5
    <3> QED BY <2>2, <3>1, Zenon
  <2>8. /\ SubSeq(chars, 1, k) \in Seq({"0", "1", "-"}) /\ Len(SubSeq(chars, 1, k)) = k
        /\ \A i \in 1..k : SubSeq(chars, 1, k)[i] = chars[i]
    BY <1>0, <2>5
  <2>9. SubSeq(chars, 1, k) \in Seq({"0", "1"})
    BY <2>7, <2>8, Retyped, Zenon DEF IsDigit
  <2>10. Leading(chars, k)
    BY <2>3, <2>5, <2>7, Zenon DEF Leading
  <2> QED BY <2>5, <2>6, <2>8, <2>9, <2>10, Zenon
<1> QED BY <1>2, <1>3, Zenon

\* There is only one way to take the leading digits.
LEMMA LeadingUnique ==
  ASSUME NEW chars \in Seq({"0", "1", "-"}), NEW j \in 0..Len(chars), NEW k \in 0..Len(chars),
         Leading(chars, j), Leading(chars, k)
  PROVE  j = k
<1> DEFINE len == Len(chars)
<1>0. len \in Nat
  OBVIOUS
<1>1. ASSUME NEW a \in 0..len, NEW b \in 0..len, Leading(chars, a), Leading(chars, b), a < b
      PROVE  FALSE
  <2>1. a + 1 \in 1..b /\ a < len
    BY <1>0, <1>1
  <2> QED BY <1>1, <2>1, Zenon DEF Leading
<1>2. ~(j < k) /\ ~(k < j)
  BY <1>1, Zenon
<1> QED BY <1>0, <1>2

\* parse_chain_id takes a client id to the number it starts with, whatever the width
\* of the integers and the length of the client id.
THEOREM ChainIdSafety == WireSpec => []ChainIdIsPrefix
<1>1. ASSUME InputsOK PROVE ChainIdIsPrefix
  <2>0. client_id \in Seq({"0", "1", "-"}) /\ Len(client_id) \in Nat
    <3>1. client_id \in Seq({"0", "1", "-"})
      BY <1>1, Zenon DEF InputsOK
    <3> QED BY <3>1
  <2>1. PICK k \in 0..Len(client_id) :
          /\ Leading(client_id, k)
          /\ NumStr(client_id) \in Seq({"0", "1"}) /\ Len(NumStr(client_id)) = k
          /\ \A i \in 1..k : NumStr(client_id)[i] = client_id[i]
    BY <2>0, LeadingDigits
  <2> SUFFICES ASSUME NEW n \in 0..(2 * MaxChainId)
               PROVE  (ParseChainId(client_id) = n) <=>
                        (/\ n <= MaxChainId
                         /\ \E j \in 1..Len(client_id) :
                              /\ Leading(client_id, j)
                              /\ \E z \in 0..(j - 1) :
                                   /\ Zeros(client_id, z)
                                   /\ SubSeq(client_id, z + 1, j) = Digits(n))
    BY Zenon DEF ChainIdIsPrefix, Leading, Zeros
  <2>2. n \in Nat /\ n # Error
    BY Widths, Symbols
  <2>3. PICK s : s = NumStr(client_id)
    BY Zenon
  <2>4. /\ s \in Seq({"0", "1"}) /\ Len(s) = k /\ k \in Nat
        /\ \A i \in 1..k : s[i] = client_id[i]
    BY <2>0, <2>1, <2>3
  <2>5. \A j \in 1..Len(client_id) : Leading(client_id, j) => j = k
    <3>1. \A j \in 1..Len(client_id) : j \in 0..Len(client_id)
      BY <2>0
    <3> QED BY <2>0, <2>1, <3>1, LeadingUnique, Zenon
  <2>6. CASE k = 0
    <3>1. s = <<>>
      BY <2>4, <2>6
    <3>2. 0 \notin 1..Len(client_id)
      OBVIOUS
    <3> QED BY <2>2, <2>3, <2>5, <2>6, <3>1, <3>2, Zenon DEF ParseChainId
  <2>7. CASE k # 0
    <3>1. s # <<>> /\ k \in 1..Len(client_id)
      BY <2>0, <2>4, <2>7
    <3>2. ParseChainId(client_id) = ParseU64(s)
      BY <2>3, <3>1, Zenon DEF ParseChainId
    <3>3. (ParseU64(s) = n) <=> (n <= MaxChainId /\ Shows(s, k, n))
      BY <2>2, <2>4, Parsed, Zenon
    <3>4. ASSUME NEW z \in 0..(k - 1)
          PROVE  /\ Zeros(s, z) <=> Zeros(client_id, z)
                 /\ SubSeq(s, z + 1, k) = SubSeq(client_id, z + 1, k)
      <4>1. \A i \in 1..z : i \in 1..k
        BY <2>4
      <4>2. Zeros(s, z) <=> Zeros(client_id, z)
        BY <2>4, <4>1, Zenon DEF Zeros
      <4>3. SubSeq(s, z + 1, k) = SubSeq(client_id, z + 1, k)
        BY <2>0, <2>4
      <4> QED BY <4>2, <4>3
    <3>5. Shows(s, k, n) <=> \E z \in 0..(k - 1) :
            Zeros(client_id, z) /\ SubSeq(client_id, z + 1, k) = Digits(n)
      BY <2>7, <3>4, Zenon DEF Shows
    <3> QED BY <2>1, <2>5, <3>1, <3>2, <3>3, <3>5, Zenon
  <2> QED BY <2>6, <2>7
<1> QED BY <1>1, InputsTyped, PTL

================================================================================

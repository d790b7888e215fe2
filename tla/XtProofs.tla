------------------------------- MODULE XtProofs --------------------------------
(***************************************************************************)
(* XtConsensus, for every set of chains and requests, timeout, queue limit *)
(* and bound: type correctness, the safety invariants, and that it         *)
(* implements AtomicCommit.                                                *)
(*                                                                         *)
(* IndInv is inductive: what the lock sections do to the active instances  *)
(* and to the messages is summed up once for starting (StartEffect),       *)
(* deciding (DecideEffect) and everything else (QuietEffect), and the      *)
(* actions are reduced to those.  In the refinement each lock section is a *)
(* start, a commit, a group of aborts, a ballot, or invisible to the       *)
(* rollups.                                                                *)
(***************************************************************************)
EXTENDS XtConsensus, SequenceTheorems, FiniteSetTheorems, TLAPS

--------------------------------------------------------------------------------
\* The map operations

\* HashMap operations keep a map's key and value types.

\* HashMap::insert of a key and value of the map's types
LEMMA InsertType ==
  ASSUME NEW K, NEW V, NEW map, IsMap(map, K, V), NEW k \in K, NEW v \in V
  PROVE  IsMap(Insert(map, k, v), K, V)
BY DEF IsMap, Insert

\* HashMap::remove
LEMMA RemoveType ==
  ASSUME NEW K, NEW V, NEW map, IsMap(map, K, V), NEW keys
  PROVE  IsMap(RemoveKeys(map, keys), K, V)
BY DEF IsMap, RemoveKeys, Restrict

\* HashMap::new
LEMMA EmptyType ==
  ASSUME NEW K, NEW V
  PROVE  IsMap(EmptyMap, K, V)
BY DEF IsMap, EmptyMap

\* Vec::remove keeps the other entries
LEMMA VecRemoveType ==
  ASSUME NEW S, NEW q \in Seq(S), NEW i \in 1..Len(q)
  PROVE  /\ VecRemove(q, i) \in Seq(S)
         /\ Len(VecRemove(q, i)) = Len(q) - 1
         /\ \A j \in 1..Len(VecRemove(q, i)) :
              \E k \in 1..Len(q) : VecRemove(q, i)[j] = q[k]
<1> DEFINE front == SubSeq(q, 1, i - 1)
           back == SubSeq(q, i + 1, Len(q))
<1>1. /\ front \in Seq(S)
      /\ Len(front) = i - 1
      /\ \A j \in 1..(i - 1) : front[j] = q[j]
  BY SubSeqProperties
<1>2. /\ back \in Seq(S)
      /\ Len(back) = Len(q) - i
      /\ \A j \in 1..(Len(q) - i) : back[j] = q[i + j]
  BY SubSeqProperties
<1>3. VecRemove(q, i) = front \o back
  BY DEF VecRemove
<1> HIDE DEF front, back
<1>4. /\ VecRemove(q, i) \in Seq(S)
      /\ Len(VecRemove(q, i)) = Len(q) - 1
  <2>1. front \o back \in Seq(S) /\ Len(front \o back) = Len(front) + Len(back)
    BY Zenon, <1>1, <1>2, ConcatProperties
  <2> QED
    BY <1>1, <1>2, <1>3, <2>1
<1>5. \A j \in 1..(Len(q) - 1) :
        VecRemove(q, i)[j] = IF j <= i - 1 THEN q[j] ELSE q[j + 1]
  BY SMTT(20), <1>1, <1>2, <1>3, ConcatProperties
<1> QED
  BY <1>4, <1>5

--------------------------------------------------------------------------------
\* Type correctness

\* extract_chains returns chains of the request
LEMMA ExtractType ==
  ASSUME NEW r \in XtRequest
  PROVE  extract_chains(r) \in SUBSET Chain
<1>1. TxChains[r] \in Seq(Chain)
  BY TxChainsAssumption
<1> QED
  BY <1>1 DEF extract_chains, Range

XtRecord == [chains : SUBSET Chain, votes : Votes, age : 0..ScpTimeout]

\* prepare_xt, called from handle_xt_request and from drain_queue, keeps the types
LEMMA PrepareType ==
  ASSUME TypeOK, NEW r \in XtRequest, prepare_xt(r)
  PROVE  /\ PreparedXt(r) \in Instance
         /\ IsMap(active_xts', Instance, XtRecord)
         /\ IsMap(active_chains', Chain, Instance)
         /\ next_sequence_num' \in Nat
<1>1. PreparedXt(r) \in Instance
  BY DEF TypeOK, PreparedXt, generate_instance_id, Instance
<1>2. EmptyMap \in Votes
  <2>1. EmptyMap \in [{} -> BOOLEAN] /\ {} \in SUBSET Chain
    BY DEF EmptyMap
  <2> QED
    BY <2>1 DEF Votes
<1>3. [chains |-> extract_chains(r), votes |-> EmptyMap, age |-> 0] \in XtRecord
  BY <1>2, ExtractType, BoundsAssumption DEF XtRecord
<1>4. IsMap(active_xts, Instance, XtRecord)
  BY DEF TypeOK, XtRecord
<1>5. IsMap(active_xts', Instance, XtRecord)
  BY <1>1, <1>3, <1>4, InsertType DEF prepare_xt
<1>6. IsMap(active_chains', Chain, Instance)
  BY <1>1, ExtractType DEF TypeOK, prepare_xt, reserve_chains, IsMap
<1>7. next_sequence_num' \in Nat
  BY DEF TypeOK, prepare_xt
<1> QED
  BY <1>1, <1>5, <1>6, <1>7

\* release_chains and HashMap::remove keep the types
LEMMA ReleaseType ==
  ASSUME TypeOK, NEW xts
  PROVE  /\ IsMap(release_chains(xts), Chain, Instance)
         /\ IsMap(RemoveKeys(active_xts, xts), Instance, XtRecord)
BY RemoveType DEF TypeOK, release_chains, XtRecord

\* Recording a vote that counts gives a map of votes
LEMMA VotesAfterType ==
  ASSUME TypeOK, NEW m \in cast, Counts(m)
  PROVE  VotesAfter(m) \in Votes
<1>1. m.chain \in Chain /\ m.vote \in BOOLEAN /\ m.xt \in DOMAIN active_xts
  BY DEF TypeOK, Counts
<1>2. active_xts[m.xt].votes \in Votes
  BY <1>1 DEF TypeOK, IsMap
<1>3. PICK S \in SUBSET Chain : active_xts[m.xt].votes \in [S -> BOOLEAN]
  BY <1>2 DEF Votes
<1>4. VotesAfter(m) \in [S \cup {m.chain} -> BOOLEAN]
  BY <1>1, <1>3 DEF VotesAfter, Insert
<1>5. S \cup {m.chain} \in SUBSET Chain
  BY <1>1
<1> QED
  BY <1>4, <1>5 DEF Votes

\* The initial state is well typed
LEMMA TypeInit == Init => TypeOK
<1> SUFFICES ASSUME Init PROVE TypeOK
  OBVIOUS
<1>1. /\ IsMap(active_xts, Instance, XtRecord)
      /\ IsMap(active_chains, Chain, Instance)
      /\ IsMap(tasks, Task, [todo : SUBSET Message, drain : BOOLEAN])
  BY EmptyType DEF Init
<1>2. pending_queue \in Seq(XtRequest) /\ Len(pending_queue) <= MaxPendingQueue
  BY BoundsAssumption DEF Init
<1> QED
  BY <1>1, <1>2, BoundsAssumption DEF Init, TypeOK, XtRecord

\* Every step keeps the types
LEMMA TypeStep == TypeOK /\ [Next]_vars => TypeOK'
<1> SUFFICES ASSUME TypeOK, [Next]_vars PROVE TypeOK'
  OBVIOUS
<1> DEFINE TaskState == [todo : SUBSET Message, drain : BOOLEAN]
<1>0. IsMap(tasks, Task, TaskState) /\ IsMap(active_xts, Instance, XtRecord)
  BY DEF TypeOK, XtRecord
<1>1. ASSUME NEW r \in XtRequest, arrivals < MaxArrivals, QueueXt(r) PROVE TypeOK'
  <2>1. pending_queue' \in Seq(XtRequest) /\ Len(pending_queue') <= MaxPendingQueue
    BY <1>1, BoundsAssumption DEF TypeOK, QueueXt, QueueFull
  <2>2. arrivals' \in 0..MaxArrivals
    BY <1>1, BoundsAssumption DEF TypeOK, QueueXt
  <2> QED
    BY <1>1, <2>1, <2>2 DEF TypeOK, QueueXt
<1>2. ASSUME NEW r \in XtRequest, arrivals < MaxArrivals, StartXt(r) PROVE TypeOK'
  <2>1. /\ PreparedXt(r) \in Instance
        /\ IsMap(active_xts', Instance, XtRecord)
        /\ IsMap(active_chains', Chain, Instance)
        /\ next_sequence_num' \in Nat
    BY <1>2, PrepareType DEF StartXt
  <2>2. XtTask(PreparedXt(r)) \in Task
    BY <2>1 DEF XtTask, Task
  <2>3. [todo |-> {StartInstance(PreparedXt(r))}, drain |-> FALSE] \in TaskState
    BY <2>1 DEF StartInstance, Message
  <2>4. IsMap(tasks', Task, TaskState)
    BY ZenonT(30), <1>2, <1>0, <2>2, <2>3, InsertType DEF StartXt
  <2>5. arrivals' \in 0..MaxArrivals
    BY <1>2, BoundsAssumption DEF TypeOK, StartXt
  <2> QED
    BY <1>2, <2>1, <2>4, <2>5 DEF TypeOK, StartXt, XtRecord
<1>3. ASSUME NEW m \in cast, RecordVote(m) PROVE TypeOK'
  <2>1. VotesAfter(m) \in Votes /\ m.xt \in DOMAIN active_xts
    BY <1>3, VotesAfterType DEF RecordVote, Counts
  <2>2. IsMap(active_xts', Instance, XtRecord)
    BY SMTT(20), <1>0, <1>3, <2>1 DEF RecordVote, IsMap, XtRecord
  <2> QED
    BY <1>3, <2>2 DEF TypeOK, RecordVote, XtRecord
<1>4. ASSUME NEW m \in cast, DecideByVote(m) PROVE TypeOK'
  <2>1. m.xt \in Instance
    BY <1>4 DEF TypeOK
  <2>2. Decision(m) \in BOOLEAN
    BY <1>4 DEF TypeOK, Decision
  <2>3. AfterDeciding({Decided(m.xt, Decision(m))}) \in TaskState
    BY <2>1, <2>2 DEF AfterDeciding, Decided, Message
  <2>4. VoteTask(m.xt) \in Task
    BY <2>1 DEF VoteTask, Task
  <2>5. IsMap(tasks', Task, TaskState)
    BY Zenon, <1>0, <1>4, <2>3, <2>4, InsertType DEF DecideByVote
  <2>6. IsMap(active_xts', Instance, XtRecord) /\ IsMap(active_chains', Chain, Instance)
    BY <1>4, ReleaseType DEF DecideByVote
  <2> QED
    BY <1>4, <2>5, <2>6 DEF TypeOK, DecideByVote, XtRecord
<1>5. ASSUME ReapTimedOutXts PROVE TypeOK'
  <2>1. {Decided(x, FALSE) : x \in TimedOut} \in SUBSET Message
    <3>1. \A x \in TimedOut : x \in Instance
      BY <1>0 DEF TimedOut, IsMap
    <3>2. \A x \in Instance : Decided(x, FALSE) \in Message
      BY DEF Decided, Message
    <3> QED
      BY Zenon, <3>1, <3>2
  <2>2. AfterDeciding({Decided(x, FALSE) : x \in TimedOut}) \in TaskState
    BY Zenon, <2>1 DEF AfterDeciding
  <2>3. ReaperTask \in Task
    BY DEF Task
  <2>4. IsMap(tasks', Task, TaskState)
    BY ZenonT(30), <1>0, <1>5, <2>2, <2>3, InsertType DEF ReapTimedOutXts
  <2>5. IsMap(active_xts', Instance, XtRecord) /\ IsMap(active_chains', Chain, Instance)
    BY <1>5, ReleaseType DEF ReapTimedOutXts
  <2> QED
    BY <1>5, <2>4, <2>5 DEF TypeOK, ReapTimedOutXts, XtRecord
<1>6. ASSUME AdvancePeriod PROVE TypeOK'
  <2>1. current_period_id' \in Nat /\ next_sequence_num' \in Nat
    BY <1>6 DEF AdvancePeriod, TypeOK
  <2>2. [todo |-> {StartPeriod(current_period_id')}, drain |-> FALSE] \in TaskState
    BY <2>1 DEF StartPeriod, Message
  <2>3. PeriodTask \in Task
    BY DEF Task
  <2>4. IsMap(tasks', Task, TaskState)
    BY ZenonT(30), <1>0, <1>6, <2>2, <2>3, InsertType DEF AdvancePeriod
  <2> QED
    BY <1>6, <2>1, <2>4 DEF TypeOK, AdvancePeriod
<1>7. ASSUME NEW t \in DOMAIN tasks, Broadcast(t) PROVE TypeOK'
  <2>1. PICK m \in tasks[t].todo :
          /\ sent' = sent \cup {m}
          /\ tasks' = IF tasks[t].todo = {m} /\ ~tasks[t].drain
                      THEN RemoveKeys(tasks, {t})
                      ELSE [tasks EXCEPT ![t].todo = @ \ {m}]
    BY Zenon, <1>7 DEF Broadcast
  <2>2. tasks[t] \in TaskState
    BY <1>0 DEF IsMap
  <2>3. m \in Message
    BY <2>2
  <2>4. IsMap([tasks EXCEPT ![t].todo = @ \ {m}], Task, TaskState)
    BY <1>0, <2>2 DEF IsMap
  <2>5. IsMap(tasks', Task, TaskState)
    BY <1>0, <2>1, <2>4, RemoveType
  <2> QED
    BY <1>7, <2>1, <2>3, <2>5 DEF TypeOK, Broadcast
<1>8. ASSUME NEW t \in DOMAIN tasks, DrainNext(t) PROVE TypeOK'
  <2>1. PICK i \in 1..Len(pending_queue) :
          /\ pending_queue' = VecRemove(pending_queue, i)
          /\ prepare_xt(pending_queue[i])
          /\ tasks' = [tasks EXCEPT ![t].todo =
                                   {StartInstance(PreparedXt(pending_queue[i]))}]
    BY Zenon, <1>8 DEF DrainNext
  <2> DEFINE r == pending_queue[i]
  <2>2. r \in XtRequest
    BY DEF TypeOK
  <2>3. /\ PreparedXt(r) \in Instance
        /\ IsMap(active_xts', Instance, XtRecord)
        /\ IsMap(active_chains', Chain, Instance)
        /\ next_sequence_num' \in Nat
    BY <2>1, <2>2, PrepareType
  <2>4. {StartInstance(PreparedXt(r))} \in SUBSET Message
    BY <2>3 DEF StartInstance, Message
  <2>5. tasks[t] \in TaskState
    BY <1>0 DEF IsMap
  <2>6. IsMap(tasks', Task, TaskState)
    BY <1>0, <2>1, <2>4, <2>5 DEF IsMap
  <2>7. pending_queue' \in Seq(XtRequest) /\ Len(pending_queue') <= MaxPendingQueue
    <3>1. pending_queue' \in Seq(XtRequest) /\ Len(pending_queue') = Len(pending_queue) - 1
      BY <2>1, VecRemoveType DEF TypeOK
    <3> QED
      BY <3>1, BoundsAssumption DEF TypeOK
  <2> QED
    BY <1>8, <2>3, <2>6, <2>7 DEF TypeOK, DrainNext, XtRecord
<1>9. ASSUME NEW t \in DOMAIN tasks, DrainDone(t) PROVE TypeOK'
  <2>1. IsMap(tasks', Task, TaskState)
    BY SMTT(20), <1>0, <1>9, RemoveType DEF DrainDone
  <2> QED
    BY <1>9, <2>1 DEF TypeOK, DrainDone
<1>10. ASSUME SidecarVote PROVE TypeOK'
  BY <1>10 DEF TypeOK, SidecarVote, Message, Vote
<1>11. ASSUME Tick PROVE TypeOK'
  <2>1. IsMap(active_xts', Instance, XtRecord)
    <3>1. ASSUME NEW x \in DOMAIN active_xts PROVE active_xts'[x] \in XtRecord
      <4>1. active_xts[x] \in XtRecord
        BY <1>0 DEF IsMap
      <4> QED
        BY <1>11, <4>1, BoundsAssumption DEF Tick, XtRecord
    <3> QED
      BY <1>0, <1>11, <3>1 DEF Tick, IsMap
  <2> QED
    BY <1>11, <2>1 DEF TypeOK, Tick, XtRecord
<1>12. ASSUME UNCHANGED vars PROVE TypeOK'
  BY <1>12 DEF TypeOK, vars
<1> QED
  BY SMTT(20), <1>1, <1>2, <1>3, <1>4, <1>5, <1>6, <1>7, <1>8, <1>9, <1>10, <1>11, <1>12
  DEF Next, HandleXtRequest, RejectXt, HandleVote, IgnoreVote, RunTask

\* Every variable keeps its type, and the queue its limit, for every queue limit,
\* timeout and set of chains and requests.
THEOREM TypeCorrect == Spec => []TypeOK
BY TypeInit, TypeStep, PTL DEF Spec

--------------------------------------------------------------------------------
\* The safety invariants

\* PreparedXt of a request is an instance that was never seen before: its
\* number follows every number handed out.
LEMMA PreparedIsFresh ==
  ASSUME TypeOK, IssuedBefore, NEW r \in XtRequest
  PROVE  /\ PreparedXt(r) \notin Issued
         /\ PreparedXt(r).period = current_period_id
         /\ PreparedXt(r).seq = next_sequence_num
         /\ PreparedXt(r).request = r
BY DEF TypeOK, IssuedBefore, PreparedXt, generate_instance_id

\* Issued instances are instances
LEMMA IssuedType ==
  ASSUME TypeOK
  PROVE  Issued \subseteq Instance
<1>1. Emitted \subseteq Message
  BY DEF TypeOK, Emitted, IsMap
<1>2. \A m \in Message : m.type # "StartPeriod" => m.xt \in Instance
  BY DEF Message
<1> QED
  BY <1>1, <1>2 DEF Issued, TypeOK, IsMap

\* An instance with a Decided message emitted is among the issued ones
LEMMA DecidedIsIssued ==
  ASSUME NEW x, NEW d, Decided(x, d) \in Emitted
  PROVE  x \in Issued
BY DEF Decided, Issued

\* A decision is counted exactly when its message is emitted
LEMMA DecidedInIff ==
  ASSUME NEW msgs, NEW x, NEW d
  PROVE  x \in DecidedIn(msgs, d) <=> Decided(x, d) \in msgs
BY DEF DecidedIn, Decided

\* prepare_xt after the overlap check, with the announcement handed to a task:
\* everything about active instances, numbers and decisions is preserved.
LEMMA StartEffect ==
  ASSUME IndInv, NEW r \in XtRequest, prepare_xt(r),
         ~has_overlap(extract_chains(r)),
         Emitted' = Emitted \cup {StartInstance(PreparedXt(r))},
         UNCHANGED <<current_period_id, cast>>
  PROVE  /\ ActiveFaithful' /\ ReservationsExact'
         /\ IssuedBefore' /\ NumbersNeverReused'
         /\ DecisionsAgree' /\ CommitNeedsEveryChain'
<1> DEFINE x == PreparedXt(r)
<1>0. TypeOK /\ IssuedBefore
  BY DEF IndInv
<1>1. /\ x \notin Issued
      /\ x.period = current_period_id
      /\ x.seq = next_sequence_num
      /\ x.request = r
  BY <1>0, PreparedIsFresh
<1>2. x \notin DOMAIN active_xts
  BY <1>1 DEF Issued
<1>3. /\ DOMAIN active_xts' = DOMAIN active_xts \cup {x}
      /\ active_xts'[x] = [chains |-> extract_chains(r), votes |-> EmptyMap, age |-> 0]
      /\ \A y \in DOMAIN active_xts : active_xts'[y] = active_xts[y]
  BY <1>2 DEF prepare_xt, Insert
<1>4. /\ DOMAIN active_chains' = DOMAIN active_chains \cup extract_chains(r)
      /\ \A c \in extract_chains(r) : active_chains'[c] = x
      /\ \A c \in DOMAIN active_chains : active_chains'[c] = active_chains[c]
      /\ extract_chains(r) \cap DOMAIN active_chains = {}
  BY DEF prepare_xt, reserve_chains, has_overlap
<1>5. next_sequence_num' = next_sequence_num + 1 /\ next_sequence_num \in Nat
  BY <1>0 DEF prepare_xt, TypeOK
<1>6. Issued' = Issued \cup {x}
  BY <1>3 DEF Issued, StartInstance
<1>7. \A y, d : Decided(y, d) \in Emitted' <=> Decided(y, d) \in Emitted
  BY DEF StartInstance, Decided
<1> HIDE DEF x
<1>8. ActiveFaithful'
  <2>1. DOMAIN active_xts'[x].votes = {} /\ active_xts'[x].chains = extract_chains(x.request)
    BY <1>1, <1>3 DEF EmptyMap
  <2> QED
    BY <1>3, <2>1 DEF IndInv, ActiveFaithful
<1>9. ReservationsExact'
  <2>1. active_xts'[x].chains = extract_chains(r)
    BY <1>3
  <2> QED
    BY <1>3, <1>4, <2>1 DEF IndInv, ReservationsExact
<1>10. IssuedBefore'
  <2>1. \A y \in Issued : y.seq \in Nat
    BY <1>0, IssuedType DEF Instance
  <2> QED
    BY <1>0, <1>1, <1>5, <1>6, <2>1 DEF IssuedBefore
<1>11. NumbersNeverReused'
  <2>1. \A y \in Issued : y.seq \in Nat /\ y.period \in Nat
    BY SMTT(20), <1>0, IssuedType DEF Instance
  <2>2. \A y \in Issued : ~(y.period = x.period /\ y.seq = x.seq)
    BY <1>0, <1>1, <1>5, <2>1 DEF IssuedBefore, TypeOK
  <2> QED
    BY <1>6, <2>2 DEF IndInv, NumbersNeverReused
<1>12. \A d : DecidedAs(d)' = DecidedAs(d)
  BY <1>7, DecidedInIff DEF DecidedAs
<1>13. DecisionsAgree' /\ CommitNeedsEveryChain'
  <2>1. \A d : x \notin DecidedAs(d)
    BY <1>1, DecidedIsIssued, DecidedInIff DEF DecidedAs
  <2> QED
    BY ZenonT(30), <1>3, <1>12, <2>1 DEF IndInv, DecisionsAgree, CommitNeedsEveryChain
<1> QED
  BY <1>8, <1>9, <1>10, <1>11, <1>13

\* Deciding instances, by a vote or by the reaper: they leave active_xts, release
\* exactly their chains, and their Decided messages are handed to a task.
LEMMA DecideEffect ==
  ASSUME IndInv, NEW xts \in SUBSET DOMAIN active_xts, NEW d \in BOOLEAN,
         active_xts' = RemoveKeys(active_xts, xts),
         active_chains' = release_chains(xts),
         Emitted' = Emitted \cup {Decided(x, d) : x \in xts},
         d => \A x \in xts : \A c \in extract_chains(x.request) : Vote(x, c, TRUE) \in cast,
         UNCHANGED <<current_period_id, next_sequence_num, cast>>
  PROVE  /\ ActiveFaithful' /\ ReservationsExact'
         /\ IssuedBefore' /\ NumbersNeverReused'
         /\ DecisionsAgree' /\ CommitNeedsEveryChain'
<1>1. /\ DOMAIN active_xts' = DOMAIN active_xts \ xts
      /\ \A x \in DOMAIN active_xts' : active_xts'[x] = active_xts[x]
  BY DEF RemoveKeys, Restrict
<1>2. /\ DOMAIN active_chains' =
           {c \in DOMAIN active_chains :
              ~\E x \in xts : c \in active_xts[x].chains /\ active_chains[c] = x}
      /\ \A c \in DOMAIN active_chains' : active_chains'[c] = active_chains[c]
  BY DEF release_chains, RemoveKeys, Restrict
<1>3. ActiveFaithful'
  BY <1>1 DEF IndInv, ActiveFaithful
<1>4. ReservationsExact'
  BY <1>1, <1>2 DEF IndInv, ReservationsExact
<1>5. Issued' \subseteq Issued
  <2>1. \A x \in xts : Decided(x, d).xt = x /\ x \in Issued
    BY DEF Decided, Issued
  <2> QED
    BY <1>1, <2>1 DEF Issued
<1>6. IssuedBefore' /\ NumbersNeverReused'
  BY <1>5 DEF IndInv, IssuedBefore, NumbersNeverReused
<1>7. \A x, e : Decided(x, e) \in Emitted' <=>
                  Decided(x, e) \in Emitted \/ (e = d /\ x \in xts)
  BY Zenon DEF Decided
<1>8. /\ \A x, e : x \in DecidedAs(e)' <=> Decided(x, e) \in Emitted'
      /\ \A x, e : x \in DecidedAs(e) <=> Decided(x, e) \in Emitted
  BY DecidedInIff DEF DecidedAs
<1>9. DecisionsAgree'
  <2>1. CASE d = TRUE
    BY Zenon, <1>1, <1>7, <1>8, <2>1 DEF IndInv, DecisionsAgree
  <2>2. CASE d = FALSE
    BY ZenonT(30), <1>1, <1>7, <1>8, <2>2 DEF IndInv, DecisionsAgree
  <2> QED
    BY Zenon, <2>1, <2>2
<1>10. CommitNeedsEveryChain'
  <2>1. CASE d = TRUE
    BY Zenon, <1>7, <1>8, <2>1 DEF IndInv, CommitNeedsEveryChain
  <2>2. CASE d = FALSE
    BY Zenon, <1>7, <1>8, <2>2 DEF IndInv, CommitNeedsEveryChain
  <2> QED
    BY Zenon, <2>1, <2>2
<1> QED
  BY <1>3, <1>4, <1>6, <1>9, <1>10

\* A vote that commits found the votes of every chain of the request in: as many
\* votes as chains, from chains of the request only, are all its chains.
LEMMA CommitHasAllVotes ==
  ASSUME IndInv, NEW m \in cast, Counts(m), Decides(m), Decision(m)
  PROVE  \A c \in extract_chains(m.xt.request) : Vote(m.xt, c, TRUE) \in cast
<1> DEFINE x == m.xt
           chains == active_xts[x].chains
           votes == VotesAfter(m)
<1>1. m.xt \in DOMAIN active_xts /\ m.chain \in chains /\ m.vote = TRUE
  BY DEF Counts, Decision, IndInv, TypeOK
<1>2. /\ chains = extract_chains(x.request)
      /\ DOMAIN active_xts[x].votes \subseteq chains
      /\ \A c \in DOMAIN active_xts[x].votes : Vote(x, c, active_xts[x].votes[c]) \in cast
  BY <1>1 DEF IndInv, ActiveFaithful
<1>3. /\ DOMAIN votes = DOMAIN active_xts[x].votes \cup {m.chain}
      /\ votes[m.chain] = TRUE
      /\ \A c \in DOMAIN active_xts[x].votes : c # m.chain => votes[c] = active_xts[x].votes[c]
  BY <1>1 DEF VotesAfter, Insert
<1>4. m = Vote(x, m.chain, TRUE)
  BY <1>1 DEF IndInv, TypeOK, Vote
<1>5. \A c \in DOMAIN votes : Vote(x, c, votes[c]) \in cast /\ votes[c]
  BY ZenonT(30), <1>2, <1>3, <1>4 DEF Decision
<1>6. DOMAIN votes \subseteq chains
  BY <1>1, <1>2, <1>3
<1>7. chains \subseteq Chain
  BY <1>1 DEF IndInv, TypeOK, IsMap
<1>8. IsFiniteSet(chains)
  BY <1>7, ChainAssumption, FS_Subset
<1>9. Cardinality(DOMAIN votes) >= Cardinality(chains)
  BY <1>1 DEF Decides, AllVoted
<1>10. DOMAIN votes = chains
  <2>1. Cardinality(DOMAIN votes) <= Cardinality(chains)
    BY <1>6, <1>8, FS_Subset
  <2>2. Cardinality(DOMAIN votes) = Cardinality(chains)
    <3>1. Cardinality(DOMAIN votes) \in Nat /\ Cardinality(chains) \in Nat
      BY <1>6, <1>8, FS_Subset, FS_CardinalityType
    <3> QED
      BY <1>9, <2>1, <3>1
  <2> QED
    BY <1>6, <1>8, <2>2, FS_Subset
<1>11. \A c \in DOMAIN votes : votes[c] = TRUE
  <2>1. \A c \in DOMAIN votes : votes[c] \in BOOLEAN
    <3>1. active_xts[x].votes \in Votes
      BY <1>1 DEF IndInv, TypeOK, IsMap
    <3>2. \A c \in DOMAIN active_xts[x].votes : active_xts[x].votes[c] \in BOOLEAN
      BY <3>1 DEF Votes
    <3> QED
      BY Zenon, <1>3, <3>2
  <2> QED
    BY <1>5, <2>1
<1> QED
  BY ZenonT(30), <1>2, <1>5, <1>10, <1>11

\* Spawning a task, or going on with one, adds what it holds to the emitted messages
LEMMA InsertEmits ==
  ASSUME NEW t, NEW st, tasks' = Insert(tasks, t, st), UNCHANGED sent,
         t \in DOMAIN tasks => tasks[t].todo \subseteq st.todo
  PROVE  Emitted' = Emitted \cup st.todo
<1>1. /\ DOMAIN tasks' = DOMAIN tasks \cup {t}
      /\ tasks'[t] = st
      /\ \A u \in DOMAIN tasks : u # t => tasks'[u] = tasks[u]
  BY DEF Insert
<1> QED
  BY <1>1 DEF Emitted

\* What each kind of step adds to the messages broadcast or about to be.

\* A handle_vote task that decides is the first one to decide its instance
LEMMA VoteTaskIsNew ==
  ASSUME IndInv, NEW x \in DOMAIN active_xts
  PROVE  VoteTask(x) \notin DOMAIN tasks
<1>1. x \notin DecidedAs(TRUE) \cup DecidedAs(FALSE)
  BY Zenon DEF IndInv, DecisionsAgree
<1>2. VoteTask(x).handler = "handle_vote" /\ VoteTask(x).xt = x
  BY DEF VoteTask
<1> QED
  BY Zenon, <1>1, <1>2 DEF IndInv, TaskShape

\* handle_xt_request starting an instance: its StartInstance
LEMMA StartXtEmits ==
  ASSUME IndInv, NEW r, StartXt(r)
  PROVE  Emitted' = Emitted \cup {StartInstance(PreparedXt(r))}
<1> DEFINE x == PreparedXt(r)
           st == [todo |-> {StartInstance(x)}, drain |-> FALSE]
<1>1. tasks' = Insert(tasks, XtTask(x), st) /\ UNCHANGED sent
  BY DEF StartXt
<1>2. XtTask(x) \in DOMAIN tasks => tasks[XtTask(x)].todo \subseteq st.todo
  BY ZenonT(30) DEF IndInv, TaskShape, XtTask
<1>3. Emitted' = Emitted \cup st.todo
  BY <1>1, <1>2, InsertEmits
<1> QED
  BY <1>3

\* handle_vote deciding: its Decided
LEMMA DecideByVoteEmits ==
  ASSUME IndInv, NEW m \in cast, DecideByVote(m)
  PROVE  Emitted' = Emitted \cup {Decided(m.xt, Decision(m))}
<1> DEFINE st == AfterDeciding({Decided(m.xt, Decision(m))})
<1>1. /\ m.xt \in DOMAIN active_xts
      /\ tasks' = Insert(tasks, VoteTask(m.xt), st)
      /\ UNCHANGED sent
  BY DEF DecideByVote, Counts
<1>2. VoteTask(m.xt) \notin DOMAIN tasks
  BY <1>1, VoteTaskIsNew
<1>3. Emitted' = Emitted \cup st.todo
  BY <1>1, <1>2, InsertEmits
<1> QED
  BY SMTT(20), <1>3 DEF AfterDeciding

\* The reaper: a Decided(false) for every timed-out instance
LEMMA ReapEmits ==
  ASSUME ReapTimedOutXts
  PROVE  Emitted' = Emitted \cup {Decided(x, FALSE) : x \in TimedOut}
<1> DEFINE decided == {Decided(x, FALSE) : x \in TimedOut}
<1>1. CASE TimedOut = {}
  BY <1>1 DEF ReapTimedOutXts, Emitted
<1>2. CASE TimedOut # {}
  <2>1. /\ tasks' = Insert(tasks, ReaperTask, AfterDeciding(decided))
        /\ ReaperTask \notin DOMAIN tasks
        /\ UNCHANGED sent
    BY <1>2 DEF ReapTimedOutXts
  <2>2. Emitted' = Emitted \cup AfterDeciding(decided).todo
    BY Zenon, <2>1, InsertEmits
  <2> QED
    BY <2>2 DEF AfterDeciding
<1> QED
  BY Zenon, <1>1, <1>2

\* advance_period: the StartPeriod of the new period
LEMMA PeriodEmits ==
  ASSUME AdvancePeriod
  PROVE  Emitted' = Emitted \cup {StartPeriod(current_period_id + 1)}
<1> DEFINE st == [todo |-> {StartPeriod(current_period_id + 1)}, drain |-> FALSE]
<1>1. /\ tasks' = Insert(tasks, PeriodTask, st)
      /\ PeriodTask \notin DOMAIN tasks
      /\ UNCHANGED sent
  BY DEF AdvancePeriod
<1>2. Emitted' = Emitted \cup st.todo
  BY <1>1, InsertEmits
<1> QED
  BY <1>2

\* The effect of task t broadcasting m on the tasks
BroadcastOf(t, m) ==
  /\ sent' = sent \cup {m}
  /\ DOMAIN tasks' \subseteq DOMAIN tasks
  /\ \A u \in DOMAIN tasks : u # t => u \in DOMAIN tasks' /\ tasks'[u] = tasks[u]
  /\ t \notin DOMAIN tasks' => tasks[t].todo = {m} /\ ~tasks[t].drain
  /\ t \in DOMAIN tasks' => /\ tasks'[t].todo = tasks[t].todo \ {m}
                            /\ tasks'[t].drain = tasks[t].drain

\* A broadcast takes one message off its task's list; a task that still has to
\* drain stays
LEMMA BroadcastTasks ==
  ASSUME TypeOK, NEW t \in DOMAIN tasks, Broadcast(t)
  PROVE  \E m \in tasks[t].todo : BroadcastOf(t, m)
<1>1. PICK m \in tasks[t].todo :
        /\ sent' = sent \cup {m}
        /\ tasks' = IF tasks[t].todo = {m} /\ ~tasks[t].drain
                    THEN RemoveKeys(tasks, {t})
                    ELSE [tasks EXCEPT ![t].todo = @ \ {m}]
  BY Zenon DEF Broadcast
<1>2. IsMap(tasks, Task, [todo : SUBSET Message, drain : BOOLEAN])
  BY DEF TypeOK
<1>3. CASE tasks[t].todo = {m} /\ ~tasks[t].drain
  BY <1>1, <1>3 DEF RemoveKeys, Restrict, BroadcastOf
<1>4. CASE ~(tasks[t].todo = {m} /\ ~tasks[t].drain)
  BY <1>1, <1>2, <1>4 DEF IsMap, BroadcastOf
<1> QED
  BY <1>3, <1>4

\* A broadcast moves a message from a task to the wire: nothing new is emitted
LEMMA BroadcastEmits ==
  ASSUME TypeOK, NEW t \in DOMAIN tasks, Broadcast(t)
  PROVE  Emitted' = Emitted
<1>1. PICK m \in tasks[t].todo : BroadcastOf(t, m)
  BY BroadcastTasks
<1>2. ASSUME NEW e \in Emitted PROVE e \in Emitted'
  <2>1. CASE e \in sent'
    BY <2>1 DEF Emitted
  <2>2. CASE e \notin sent'
    <3>1. PICK u \in DOMAIN tasks : e \in tasks[u].todo
      BY <1>1, <2>2 DEF Emitted, BroadcastOf
    <3>2. e # m
      BY <1>1, <2>2 DEF BroadcastOf
    <3>3. u \in DOMAIN tasks' /\ e \in tasks'[u].todo
      BY <1>1, <3>1, <3>2 DEF BroadcastOf
    <3> QED
      BY <3>3 DEF Emitted
  <2> QED
    BY <2>1, <2>2
<1>3. ASSUME NEW e \in Emitted' PROVE e \in Emitted
  <2>1. CASE e \in sent'
    BY <1>1, <2>1 DEF Emitted, BroadcastOf
  <2>2. CASE e \notin sent'
    <3>1. PICK u \in DOMAIN tasks' : e \in tasks'[u].todo
      BY <2>2 DEF Emitted
    <3>2. u \in DOMAIN tasks /\ e \in tasks[u].todo
      BY <1>1, <3>1 DEF BroadcastOf
    <3> QED
      BY <3>2 DEF Emitted
  <2> QED
    BY <2>1, <2>2
<1> QED
  BY SMTT(20), <1>2, <1>3

\* drain_queue starting an entry: its StartInstance
LEMMA DrainNextEmits ==
  ASSUME TypeOK, NEW t \in DOMAIN tasks, Draining(t), UNCHANGED sent, NEW r,
         tasks' = [tasks EXCEPT ![t].todo = {StartInstance(PreparedXt(r))}]
  PROVE  Emitted' = Emitted \cup {StartInstance(PreparedXt(r))}
<1>1. /\ DOMAIN tasks' = DOMAIN tasks
      /\ tasks'[t].todo = {StartInstance(PreparedXt(r))}
      /\ \A u \in DOMAIN tasks : u # t => tasks'[u] = tasks[u]
  BY DEF TypeOK, IsMap
<1>2. tasks[t].todo = {}
  BY DEF Draining
<1> QED
  BY <1>1, <1>2 DEF Emitted

\* drain_queue returning: nothing
LEMMA DrainDoneEmits ==
  ASSUME NEW t \in DOMAIN tasks, DrainDone(t)
  PROVE  Emitted' = Emitted
BY DEF DrainDone, Draining, RemoveKeys, Restrict, Emitted

\* Steps that start and decide nothing: at most a new period is announced
LEMMA QuietEffect ==
  ASSUME IndInv,
         DOMAIN active_xts' = DOMAIN active_xts,
         Emitted \subseteq Emitted',
         \A m \in Emitted' : m \in Emitted \/ m.type = "StartPeriod",
         cast \subseteq cast',
         \/ UNCHANGED <<current_period_id, next_sequence_num>>
         \/ current_period_id' = current_period_id + 1
  PROVE  /\ IssuedBefore' /\ NumbersNeverReused'
         /\ DecisionsAgree' /\ CommitNeedsEveryChain'
<1>1. Issued' \subseteq Issued
  BY DEF Issued
<1>2. \A d : DecidedAs(d)' = DecidedAs(d)
  <2>1. \A x, d : Decided(x, d) \in Emitted' <=> Decided(x, d) \in Emitted
    BY DEF Decided
  <2> QED
    BY <2>1, DecidedInIff DEF DecidedAs
<1>3. IssuedBefore'
  <2>1. \A x \in Issued : x.period \in Nat
    BY IssuedType DEF IndInv, Instance
  <2>2. current_period_id \in Nat
    BY DEF IndInv, TypeOK
  <2> QED
    BY <1>1, <2>1, <2>2 DEF IndInv, IssuedBefore
<1>4. NumbersNeverReused'
  BY <1>1 DEF IndInv, NumbersNeverReused
<1>5. DecisionsAgree' /\ CommitNeedsEveryChain'
  BY Zenon, <1>2 DEF IndInv, DecisionsAgree, CommitNeedsEveryChain
<1> QED
  BY <1>3, <1>4, <1>5

\* The invariant holds initially
LEMMA IndInit == Init => IndInv
<1> SUFFICES ASSUME Init PROVE IndInv
  OBVIOUS
<1>1. DOMAIN active_xts = {} /\ DOMAIN active_chains = {} /\ DOMAIN tasks = {}
  BY DEF Init, EmptyMap
<1>2. Emitted = {}
  BY <1>1 DEF Emitted, Init
<1>3. Issued = {} /\ \A d : DecidedAs(d) = {}
  BY <1>1, <1>2 DEF Issued, DecidedAs, DecidedIn
<1>4. NoLostWakeup
  BY DEF Init, NoLostWakeup
<1> QED
  BY ZenonT(30), <1>1, <1>3, <1>4, TypeInit
  DEF IndInv, ActiveFaithful, ReservationsExact, TaskShape, IssuedBefore,
      NumbersNeverReused, DecisionsAgree, CommitNeedsEveryChain

\* Decisions already made stay made, so tasks keep their shape
LEMMA DecidedGrows ==
  ASSUME Emitted \subseteq Emitted'
  PROVE  \A d : DecidedAs(d) \subseteq DecidedAs(d)'
BY DecidedInIff DEF DecidedAs

\* A queued request that is ready after its queue and the reservations only
\* became tighter was ready before
LEMMA ReadyShrinks ==
  ASSUME DOMAIN active_chains \subseteq DOMAIN active_chains',
         \A j \in 1..Len(pending_queue') :
           \E k \in 1..Len(pending_queue) : pending_queue'[j] = pending_queue[k],
         \E i \in 1..Len(pending_queue') : Ready(i)'
  PROVE  \E i \in 1..Len(pending_queue) : Ready(i)
BY DEF Ready, has_overlap

\* Every step preserves the invariant
LEMMA IndStep == IndInv /\ [Next]_vars => IndInv'
<1> SUFFICES ASSUME IndInv, [Next]_vars PROVE IndInv'
  OBVIOUS
<1>0. TypeOK'
  BY TypeStep DEF IndInv
<1> DEFINE Core == /\ ActiveFaithful /\ ReservationsExact
                   /\ IssuedBefore /\ NumbersNeverReused
                   /\ DecisionsAgree /\ CommitNeedsEveryChain
<1>a. ASSUME Core', TaskShape', NoLostWakeup' PROVE IndInv'
  BY <1>0, <1>a DEF IndInv
<1>1. ASSUME NEW r \in XtRequest, QueueXt(r) PROVE IndInv'
  <2>1. Core' /\ TaskShape'
    <3>1. Emitted' = Emitted
      BY <1>1 DEF QueueXt, Emitted
    <3>2. /\ IssuedBefore' /\ NumbersNeverReused'
          /\ DecisionsAgree' /\ CommitNeedsEveryChain'
      BY SMTT(20), <1>1, <3>1, QuietEffect DEF QueueXt
    <3>3. ActiveFaithful' /\ ReservationsExact'
      BY SMTT(20), <1>1 DEF QueueXt, IndInv, ActiveFaithful, ReservationsExact
    <3>4. TaskShape'
      BY Zenon, <1>1, <3>1 DEF QueueXt, IndInv, TaskShape, DecidedAs
    <3> QED
      BY <3>2, <3>3, <3>4
  <2>2. NoLostWakeup'
    <3> SUFFICES ASSUME NEW i \in 1..Len(pending_queue'), Ready(i)'
                 PROVE  \E t \in DOMAIN tasks : tasks[t].drain
      BY <1>1 DEF QueueXt, NoLostWakeup
    <3>1. pending_queue \in Seq(XtRequest)
      BY DEF IndInv, TypeOK
    <3>2. CASE i = Len(pending_queue) + 1
      <4>1. pending_queue'[i] = r
        BY <1>1, <3>1, <3>2 DEF QueueXt
      <4> QED
        BY <1>1, <4>1 DEF QueueXt, Ready, has_overlap
    <3>3. CASE i \in 1..Len(pending_queue)
      <4>1. pending_queue'[i] = pending_queue[i]
        BY <1>1, <3>1, <3>3 DEF QueueXt
      <4>2. Ready(i)
        BY <1>1, <4>1 DEF QueueXt, Ready, has_overlap
      <4> QED
        BY <3>3, <4>2 DEF IndInv, NoLostWakeup
    <3> QED
      BY SMTT(20), <1>1, <3>1, <3>2, <3>3 DEF QueueXt
  <2> QED
    BY <1>a, <2>1, <2>2
<1>2. ASSUME NEW r \in XtRequest, StartXt(r) PROVE IndInv'
  <2> DEFINE x == PreparedXt(r)
             st == [todo |-> {StartInstance(x)}, drain |-> FALSE]
  <2>1. tasks' = Insert(tasks, XtTask(x), st) /\ UNCHANGED sent
    BY <1>2 DEF StartXt
  <2>3. Emitted' = Emitted \cup {StartInstance(x)}
    BY <1>2, StartXtEmits
  <2>4. Core'
    BY SMTT(20), <1>2, <2>3, StartEffect DEF StartXt
  <2>5. /\ DOMAIN tasks' = DOMAIN tasks \cup {XtTask(x)}
        /\ tasks'[XtTask(x)] = st
        /\ \A u \in DOMAIN tasks : u # XtTask(x) => tasks'[u] = tasks[u]
    BY <2>1 DEF Insert
  <2>6. TaskShape'
    <3>1. \A d : DecidedAs(d) \subseteq DecidedAs(d)'
      BY <2>3, DecidedGrows
    <3>2. XtTask(x).handler = "handle_xt_request" /\ XtTask(x).xt = x
      BY SMTT(20) DEF XtTask
    <3>3. \A t \in DOMAIN tasks' : t.handler = "handle_xt_request" =>
            ~tasks'[t].drain /\ tasks'[t].todo \subseteq {StartInstance(t.xt)}
      <4>1. ASSUME NEW t \in DOMAIN tasks, t # XtTask(x), t.handler = "handle_xt_request"
            PROVE  ~tasks'[t].drain /\ tasks'[t].todo \subseteq {StartInstance(t.xt)}
        BY ZenonT(30), <2>5, <4>1 DEF IndInv, TaskShape
      <4>2. /\ ~tasks'[XtTask(x)].drain
            /\ tasks'[XtTask(x)].todo \subseteq {StartInstance(XtTask(x).xt)}
        BY <2>5, <3>2
      <4> QED
        BY <2>5, <4>1, <4>2
    <3>4. \A t \in DOMAIN tasks' : t.handler = "handle_vote" => t \in DOMAIN tasks
      BY SMTT(20), <2>5, <3>2
    <3> QED
      BY ZenonT(30), <3>1, <3>3, <3>4 DEF IndInv, TaskShape
  <2>7. NoLostWakeup'
    <3>1. DOMAIN active_chains \subseteq DOMAIN active_chains'
      BY SMTT(20), <1>2 DEF StartXt, prepare_xt, reserve_chains
    <3>2. (\E i \in 1..Len(pending_queue') : Ready(i)') =>
             \E i \in 1..Len(pending_queue) : Ready(i)
      BY SMTT(20), <1>2, <3>1, ReadyShrinks DEF StartXt
    <3>3. \A t \in DOMAIN tasks : tasks[t].drain => t # XtTask(x)
      BY Zenon DEF IndInv, TaskShape, XtTask
    <3> QED
      BY SMTT(20), <2>5, <3>2, <3>3 DEF IndInv, NoLostWakeup
  <2> QED
    BY SMTT(20), <1>a, <2>4, <2>6, <2>7
<1>3. ASSUME NEW m \in cast, RecordVote(m) PROVE IndInv'
  <2>1. /\ m.xt \in DOMAIN active_xts
        /\ m.chain \in active_xts[m.xt].chains
    BY <1>3 DEF RecordVote, Counts
  <2>2. active_xts[m.xt] \in XtRecord
    BY <2>1 DEF IndInv, TypeOK, IsMap, XtRecord
  <2>3. /\ DOMAIN active_xts' = DOMAIN active_xts
        /\ \A y \in DOMAIN active_xts : active_xts'[y].chains = active_xts[y].chains
        /\ \A y \in DOMAIN active_xts : y # m.xt => active_xts'[y] = active_xts[y]
        /\ active_xts'[m.xt].votes = VotesAfter(m)
    BY <1>3, <2>1, <2>2 DEF RecordVote, XtRecord
  <2>4. ActiveFaithful'
    <3>1. Vote(m.xt, m.chain, m.vote) = m
      BY SMTT(20) DEF IndInv, TypeOK, Vote
    <3>2. /\ DOMAIN VotesAfter(m) = DOMAIN active_xts[m.xt].votes \cup {m.chain}
          /\ \A c \in DOMAIN VotesAfter(m) :
               VotesAfter(m)[c] = IF c = m.chain THEN m.vote ELSE active_xts[m.xt].votes[c]
      BY SMTT(20) DEF VotesAfter, Insert
    <3>3. \A c \in DOMAIN VotesAfter(m) : Vote(m.xt, c, VotesAfter(m)[c]) \in cast
      BY SMTT(20), <2>1, <3>1, <3>2 DEF IndInv, ActiveFaithful
    <3>4. DOMAIN VotesAfter(m) \subseteq active_xts[m.xt].chains
      BY <2>1, <3>2 DEF IndInv, ActiveFaithful
    <3> QED
      BY SMTT(20), <1>3, <2>1, <2>3, <3>3, <3>4 DEF IndInv, ActiveFaithful, RecordVote
  <2>5. ReservationsExact'
    BY <1>3, <2>3 DEF IndInv, ReservationsExact, RecordVote
  <2>6. /\ IssuedBefore' /\ NumbersNeverReused'
        /\ DecisionsAgree' /\ CommitNeedsEveryChain'
    BY <1>3, <2>3, QuietEffect DEF RecordVote, Emitted
  <2>7. TaskShape' /\ NoLostWakeup'
    BY ZenonT(30), <1>3 DEF RecordVote, IndInv, TaskShape, DecidedAs, Emitted, NoLostWakeup,
                Ready, has_overlap
  <2> QED
    BY SMTT(20), <1>a, <2>4, <2>5, <2>6, <2>7
<1>4. ASSUME NEW m \in cast, DecideByVote(m) PROVE IndInv'
  <2> DEFINE x == m.xt
             d == Decision(m)
             st == AfterDeciding({Decided(x, d)})
  <2>1. /\ x \in DOMAIN active_xts
        /\ tasks' = Insert(tasks, VoteTask(x), st)
        /\ UNCHANGED sent
    BY <1>4 DEF DecideByVote, Counts
  <2>2. VoteTask(x) \notin DOMAIN tasks
    BY <2>1, VoteTaskIsNew
  <2>3. Emitted' = Emitted \cup {Decided(x, d)}
    BY SMTT(20), <1>4, DecideByVoteEmits
  <2>4. d \in BOOLEAN
    BY DEF Decision, IndInv, TypeOK
  <2>5. Core'
    <3>1. d => \A c \in extract_chains(x.request) : Vote(x, c, TRUE) \in cast
      BY ZenonT(30), <1>4, CommitHasAllVotes DEF DecideByVote
    <3>2. {x} \in SUBSET DOMAIN active_xts
      BY <2>1
    <3>3. Emitted' = Emitted \cup {Decided(y, d) : y \in {x}}
      BY <2>3
    <3>4. d => \A y \in {x} : \A c \in extract_chains(y.request) : Vote(y, c, TRUE) \in cast
      BY Zenon, <3>1
    <3> HIDE DEF x, d
    <3>5. /\ active_xts' = RemoveKeys(active_xts, {x})
          /\ active_chains' = release_chains({x})
          /\ UNCHANGED <<current_period_id, next_sequence_num, cast>>
      BY SMTT(20), <1>4 DEF DecideByVote, x
    <3> QED
      BY ZenonT(30), <2>4, <3>2, <3>3, <3>4, <3>5, DecideEffect
  <2>6. /\ DOMAIN tasks' = DOMAIN tasks \cup {VoteTask(x)}
        /\ tasks'[VoteTask(x)].drain = TRUE
        /\ \A u \in DOMAIN tasks : tasks'[u] = tasks[u]
    BY <2>1, <2>2 DEF Insert, AfterDeciding
  <2>7. TaskShape'
    <3>1. \A e : DecidedAs(e) \subseteq DecidedAs(e)'
      BY <2>3, DecidedGrows
    <3>2. VoteTask(x).handler = "handle_vote" /\ VoteTask(x).xt = x
      BY DEF VoteTask
    <3>3. x \in DecidedIn(Emitted', d)
      BY <2>3, DecidedInIff
    <3>4. x \in DecidedAs(TRUE)' \cup DecidedAs(FALSE)'
      BY Zenon, <2>4, <3>3 DEF DecidedAs
    <3> QED
      BY ZenonT(30), <2>6, <3>1, <3>2, <3>4 DEF IndInv, TaskShape
  <2>8. NoLostWakeup'
    BY <2>6 DEF NoLostWakeup
  <2> QED
    BY <1>a, <2>5, <2>7, <2>8
<1>5. ASSUME ReapTimedOutXts PROVE IndInv'
  <2>1. /\ active_xts' = RemoveKeys(active_xts, TimedOut)
        /\ active_chains' = release_chains(TimedOut)
        /\ UNCHANGED <<pending_queue, current_period_id, next_sequence_num, sent, cast>>
    BY <1>5 DEF ReapTimedOutXts
  <2>2. TimedOut \in SUBSET DOMAIN active_xts
    BY DEF TimedOut
  <2> DEFINE decided == {Decided(x, FALSE) : x \in TimedOut}
  <2>3. CASE TimedOut = {}
    <3>1. tasks' = tasks
      BY SMTT(20), <1>5, <2>3 DEF ReapTimedOutXts
    <3>2. Emitted' = Emitted
      BY <2>1, <3>1 DEF Emitted
    <3>3. Emitted' = Emitted \cup decided
      BY Zenon, <1>5, ReapEmits
    <3>4. Core'
      BY ZenonT(30), <2>1, <2>2, <3>3, DecideEffect
    <3>5. TaskShape'
      BY ZenonT(30), <3>1, <3>2 DEF IndInv, TaskShape, DecidedAs
    <3>6. DOMAIN active_chains' = DOMAIN active_chains
      BY SMTT(20), <2>1, <2>3 DEF release_chains, RemoveKeys, Restrict
    <3>7. NoLostWakeup'
      BY SMTT(20), <2>1, <3>1, <3>6 DEF IndInv, NoLostWakeup, Ready, has_overlap
    <3> QED
      BY SMTT(20), <1>a, <3>4, <3>5, <3>7
  <2>4. CASE TimedOut # {}
    <3>1. tasks' = Insert(tasks, ReaperTask, AfterDeciding(decided))
      BY <1>5, <2>4 DEF ReapTimedOutXts
    <3>2. ReaperTask \notin DOMAIN tasks
      BY SMTT(20), <1>5 DEF ReapTimedOutXts
    <3>4. Emitted' = Emitted \cup decided
      BY Zenon, <1>5, ReapEmits
    <3>5. Core'
      BY Zenon, <2>1, <2>2, <3>4, DecideEffect
    <3>6. /\ DOMAIN tasks' = DOMAIN tasks \cup {ReaperTask}
          /\ tasks'[ReaperTask].drain = TRUE
          /\ \A u \in DOMAIN tasks : tasks'[u] = tasks[u]
      BY Zenon, <3>1, <3>2 DEF Insert, AfterDeciding
    <3>7. TaskShape'
      <4>1. \A e : DecidedAs(e) \subseteq DecidedAs(e)'
        BY Zenon, <3>4, DecidedGrows
      <4>2. ReaperTask.handler = "reaper_loop"
        BY DEF ReaperTask
      <4> QED
        BY ZenonT(30), <3>6, <4>1, <4>2 DEF IndInv, TaskShape
    <3>8. NoLostWakeup'
      BY <3>6 DEF NoLostWakeup
    <3> QED
      BY <1>a, <3>5, <3>7, <3>8
  <2> QED
    BY <2>3, <2>4
<1>6. ASSUME AdvancePeriod PROVE IndInv'
  <2> DEFINE p == current_period_id + 1
             st == [todo |-> {StartPeriod(p)}, drain |-> FALSE]
  <2>1. /\ tasks' = Insert(tasks, PeriodTask, st)
        /\ PeriodTask \notin DOMAIN tasks
        /\ UNCHANGED sent
    BY <1>6 DEF AdvancePeriod
  <2>2. Emitted' = Emitted \cup {StartPeriod(p)}
    BY <1>6, PeriodEmits
  <2>3. \A m \in Emitted' : m \in Emitted \/ m.type = "StartPeriod"
    BY SMTT(20), <2>2 DEF StartPeriod
  <2>4. /\ IssuedBefore' /\ NumbersNeverReused'
        /\ DecisionsAgree' /\ CommitNeedsEveryChain'
    BY SMTT(20), <1>6, <2>2, <2>3, QuietEffect DEF AdvancePeriod
  <2>5. ActiveFaithful' /\ ReservationsExact'
    BY SMTT(20), <1>6 DEF AdvancePeriod, IndInv, ActiveFaithful, ReservationsExact
  <2>6. /\ DOMAIN tasks' = DOMAIN tasks \cup {PeriodTask}
        /\ \A u \in DOMAIN tasks : tasks'[u] = tasks[u]
    BY <2>1 DEF Insert
  <2>7. TaskShape'
    <3>1. \A e : DecidedAs(e) \subseteq DecidedAs(e)'
      BY <2>2, DecidedGrows
    <3>2. PeriodTask.handler = "period_loop"
      BY DEF PeriodTask
    <3> QED
      BY ZenonT(30), <2>6, <3>1, <3>2 DEF IndInv, TaskShape
  <2>8. NoLostWakeup'
    <3>1. UNCHANGED <<pending_queue, active_chains>>
      BY <1>6 DEF AdvancePeriod
    <3> QED
      BY SMTT(20), <2>6, <3>1 DEF IndInv, NoLostWakeup, Ready, has_overlap
  <2> QED
    BY SMTT(20), <1>a, <2>4, <2>5, <2>7, <2>8
<1>7. ASSUME NEW t \in DOMAIN tasks, Broadcast(t) PROVE IndInv'
  <2>3. /\ DOMAIN tasks' \subseteq DOMAIN tasks
        /\ \A u \in DOMAIN tasks : u # t => u \in DOMAIN tasks' /\ tasks'[u] = tasks[u]
        /\ t \notin DOMAIN tasks' => ~tasks[t].drain
        /\ t \in DOMAIN tasks' => /\ tasks'[t].todo \subseteq tasks[t].todo
                                  /\ tasks'[t].drain = tasks[t].drain
    <3>1. PICK m \in tasks[t].todo : BroadcastOf(t, m)
      BY <1>7, BroadcastTasks DEF IndInv
    <3> QED
      BY SMTT(20), <3>1 DEF BroadcastOf
  <2>4. Emitted' = Emitted
    BY <1>7, BroadcastEmits DEF IndInv
  <2>5. UNCHANGED <<active_xts, active_chains, pending_queue, current_period_id,
                    next_sequence_num, cast>>
    BY <1>7 DEF Broadcast
  <2>6. /\ IssuedBefore' /\ NumbersNeverReused'
        /\ DecisionsAgree' /\ CommitNeedsEveryChain'
    BY SMTT(20), <2>4, <2>5, QuietEffect
  <2>7. ActiveFaithful' /\ ReservationsExact'
    BY SMTT(20), <2>5 DEF IndInv, ActiveFaithful, ReservationsExact
  <2>8. TaskShape'
    BY ZenonT(30), <2>3, <2>4 DEF IndInv, TaskShape, DecidedAs
  <2>9. NoLostWakeup'
    BY SMTT(20), <2>3, <2>5 DEF IndInv, NoLostWakeup, Ready, has_overlap
  <2> QED
    BY SMTT(20), <1>a, <2>6, <2>7, <2>8, <2>9
<1>8. ASSUME NEW t \in DOMAIN tasks, DrainNext(t) PROVE IndInv'
  <2>1. PICK i \in 1..Len(pending_queue) :
          /\ IsNextReady(i)
          /\ pending_queue' = VecRemove(pending_queue, i)
          /\ prepare_xt(pending_queue[i])
          /\ tasks' = [tasks EXCEPT ![t].todo =
                                   {StartInstance(PreparedXt(pending_queue[i]))}]
    BY Zenon, <1>8 DEF DrainNext
  <2> DEFINE r == pending_queue[i]
             x == PreparedXt(r)
  <2>2. r \in XtRequest /\ ~has_overlap(extract_chains(r))
    BY <2>1 DEF IndInv, TypeOK, IsNextReady, Ready
  <2>3. /\ DOMAIN tasks' = DOMAIN tasks
        /\ tasks'[t].todo = {StartInstance(x)} /\ tasks'[t].drain = tasks[t].drain
        /\ \A u \in DOMAIN tasks : u # t => tasks'[u] = tasks[u]
    BY <2>1 DEF IndInv, TypeOK, IsMap
  <2>4. tasks[t].todo = {} /\ tasks[t].drain
    BY <1>8 DEF DrainNext, Draining
  <2>5. UNCHANGED <<current_period_id, sent, cast>>
    BY <1>8 DEF DrainNext
  <2>6. Emitted' = Emitted \cup {StartInstance(x)}
    BY ZenonT(30), <1>8, <2>1, <2>5, DrainNextEmits DEF IndInv, DrainNext
  <2>7. Core'
    <3> HIDE DEF r
    <3>1. prepare_xt(r)
      BY <2>1 DEF r
    <3> QED
      BY SMTT(20), <2>2, <2>5, <2>6, <3>1, StartEffect
  <2>8. TaskShape'
    <3>1. \A e : DecidedAs(e) \subseteq DecidedAs(e)'
      BY <2>6, DecidedGrows
    <3>2. t.handler # "handle_xt_request"
      BY Zenon, <2>4 DEF IndInv, TaskShape
    <3> QED
      BY ZenonT(30), <2>3, <3>1, <3>2 DEF IndInv, TaskShape
  <2>9. NoLostWakeup'
    BY ZenonT(30), <2>3, <2>4 DEF NoLostWakeup
  <2> QED
    BY <1>a, <2>7, <2>8, <2>9
<1>9. ASSUME NEW t \in DOMAIN tasks, DrainDone(t) PROVE IndInv'
  <2>1. /\ DOMAIN tasks' = DOMAIN tasks \ {t}
        /\ \A u \in DOMAIN tasks' : tasks'[u] = tasks[u]
        /\ tasks[t].todo = {}
    BY <1>9 DEF DrainDone, Draining, RemoveKeys, Restrict
  <2>2. UNCHANGED <<active_xts, active_chains, pending_queue, current_period_id,
                    next_sequence_num, sent, cast>>
    BY <1>9 DEF DrainDone
  <2>3. Emitted' = Emitted
    BY <1>9, DrainDoneEmits
  <2>4. /\ IssuedBefore' /\ NumbersNeverReused'
        /\ DecisionsAgree' /\ CommitNeedsEveryChain'
    BY SMTT(20), <2>2, <2>3, QuietEffect
  <2>5. ActiveFaithful' /\ ReservationsExact'
    BY SMTT(20), <2>2 DEF IndInv, ActiveFaithful, ReservationsExact
  <2>6. TaskShape'
    BY ZenonT(30), <2>1, <2>3 DEF IndInv, TaskShape, DecidedAs
  <2>7. NoLostWakeup'
    BY <1>9, <2>2 DEF DrainDone, NoLostWakeup, Ready, has_overlap
  <2> QED
    BY <1>a, <2>4, <2>5, <2>6, <2>7
<1>10. ASSUME SidecarVote PROVE IndInv'
  <2>1. /\ cast \subseteq cast'
        /\ UNCHANGED <<active_xts, active_chains, pending_queue, current_period_id,
                       next_sequence_num, tasks, sent>>
    BY <1>10 DEF SidecarVote
  <2>2. Emitted' = Emitted
    BY <2>1 DEF Emitted
  <2>3. /\ IssuedBefore' /\ NumbersNeverReused'
        /\ DecisionsAgree' /\ CommitNeedsEveryChain'
    BY SMTT(20), <2>1, <2>2, QuietEffect
  <2>4. ActiveFaithful' /\ ReservationsExact'
    BY SMTT(20), <2>1 DEF IndInv, ActiveFaithful, ReservationsExact
  <2>5. TaskShape' /\ NoLostWakeup'
    BY ZenonT(30), <2>1, <2>2 DEF IndInv, TaskShape, DecidedAs, NoLostWakeup, Ready, has_overlap
  <2> QED
    BY SMTT(20), <1>a, <2>3, <2>4, <2>5
<1>11. ASSUME Tick PROVE IndInv'
  <2>1. UNCHANGED <<active_chains, pending_queue, current_period_id,
                    next_sequence_num, tasks, sent, cast>>
    BY <1>11 DEF Tick
  <2>2. /\ DOMAIN active_xts' = DOMAIN active_xts
        /\ \A x \in DOMAIN active_xts : /\ active_xts'[x].chains = active_xts[x].chains
                                         /\ active_xts'[x].votes = active_xts[x].votes
    <3>1. \A x \in DOMAIN active_xts : active_xts[x] \in XtRecord
      BY DEF IndInv, TypeOK, IsMap, XtRecord
    <3> QED
      BY SMTT(20), <1>11, <3>1 DEF Tick, XtRecord
  <2>3. Emitted' = Emitted
    BY <2>1 DEF Emitted
  <2>4. /\ IssuedBefore' /\ NumbersNeverReused'
        /\ DecisionsAgree' /\ CommitNeedsEveryChain'
    BY SMTT(20), <2>1, <2>2, <2>3, QuietEffect
  <2>5. ActiveFaithful' /\ ReservationsExact'
    BY SMTT(20), <2>1, <2>2 DEF IndInv, ActiveFaithful, ReservationsExact
  <2>6. TaskShape' /\ NoLostWakeup'
    BY ZenonT(30), <2>1, <2>3 DEF IndInv, TaskShape, DecidedAs, NoLostWakeup, Ready, has_overlap
  <2> QED
    BY <1>a, <2>4, <2>5, <2>6
<1>12. ASSUME UNCHANGED vars PROVE IndInv'
  <2>1. Emitted' = Emitted
    BY <1>12 DEF vars, Emitted
  <2>2. UNCHANGED <<active_xts, active_chains, pending_queue, current_period_id,
                    next_sequence_num, tasks, cast>>
    BY <1>12 DEF vars
  <2>3. /\ IssuedBefore' /\ NumbersNeverReused'
        /\ DecisionsAgree' /\ CommitNeedsEveryChain'
    BY SMTT(20), <2>1, <2>2, QuietEffect
  <2>4. ActiveFaithful' /\ ReservationsExact'
    BY SMTT(20), <2>2 DEF IndInv, ActiveFaithful, ReservationsExact
  <2>5. TaskShape' /\ NoLostWakeup'
    BY ZenonT(30), <2>1, <2>2 DEF IndInv, TaskShape, DecidedAs, NoLostWakeup, Ready, has_overlap
  <2> QED
    BY <1>a, <2>3, <2>4, <2>5
<1> QED
  BY SMTT(20), <1>1, <1>2, <1>3, <1>4, <1>5, <1>6, <1>7, <1>8, <1>9, <1>10, <1>11, <1>12
  DEF Next, HandleXtRequest, RejectXt, HandleVote, IgnoreVote, RunTask

\* The inductive invariant holds in every reachable state.
THEOREM Invariance == Spec => []IndInv
BY IndInit, IndStep, PTL DEF Spec

\* Chains are reserved exactly while an active instance spans them, so concurrent
\* instances never share a chain (has_overlap, prepare_xt, release_chains).
THEOREM ReservationSafety == Spec => []ReservationsExact
<1>1. IndInv => ReservationsExact
  BY DEF IndInv
<1> QED
  BY <1>1, Invariance, PTL

\* No instance is decided twice with different outcomes, by votes and reaper
\* together, and none is decided while active.
THEOREM DecisionSafety == Spec => []DecisionsAgree
<1>1. IndInv => DecisionsAgree
  BY DEF IndInv
<1> QED
  BY <1>1, Invariance, PTL

\* An instance commits only with a yes vote for each of its chains.
THEOREM CommitSafety == Spec => []CommitNeedsEveryChain
<1>1. IndInv => CommitNeedsEveryChain
  BY DEF IndInv
<1> QED
  BY <1>1, Invariance, PTL

\* A ready queue entry always has a task that is going to drain the queue.
THEOREM WakeupSafety == Spec => []NoLostWakeup
<1>1. IndInv => NoLostWakeup
  BY DEF IndInv
<1> QED
  BY <1>1, Invariance, PTL

\* Period and sequence number identify an instance.
THEOREM NumberingSafety == Spec => []NumbersNeverReused
<1>1. IndInv => NumbersNeverReused
  BY DEF IndInv
<1> QED
  BY <1>1, Invariance, PTL

--------------------------------------------------------------------------------
\* The refinement

\* prepare_xt is an abstract Start: the instance is new, and free chains are
\* chains no running instance spans.
LEMMA PrepareIsStart ==
  ASSUME IndInv, NEW r \in XtRequest, prepare_xt(r),
         ~has_overlap(extract_chains(r)),
         Emitted' = Emitted \cup {StartInstance(PreparedXt(r))},
         UNCHANGED cast
  PROVE  Abstract!Next
<1>1. /\ PreparedXt(r) \notin Issued
      /\ PreparedXt(r).request = r
  BY SMTT(20), PreparedIsFresh DEF IndInv
<1> DEFINE x == PreparedXt(r)
<1>2. DOMAIN active_xts' = DOMAIN active_xts \cup {x}
  BY DEF prepare_xt, Insert
<1>3. \A d : DecidedAs(d)' = DecidedAs(d)
  <2>1. \A y, d : Decided(y, d) \in Emitted' <=> Decided(y, d) \in Emitted
    BY DEF StartInstance, Decided
  <2> QED
    BY SMTT(20), <2>1, DecidedInIff DEF DecidedAs
<1>4. x \notin DOMAIN active_xts \cup DecidedAs(TRUE) \cup DecidedAs(FALSE)
  <2>1. \A d : x \notin DecidedAs(d)
    BY SMTT(20), <1>1, DecidedIsIssued, DecidedInIff DEF DecidedAs
  <2> QED
    BY ZenonT(30), <1>1, <2>1 DEF Issued
<1>5. \A y \in DOMAIN active_xts : Participants(x) \cap Participants(y) = {}
  <2> SUFFICES ASSUME NEW y \in DOMAIN active_xts, NEW c \in Participants(y)
               PROVE  c \notin Participants(x)
    BY SMTT(20)
  <2>1. c \in active_xts[y].chains
    BY SMTT(20) DEF IndInv, ActiveFaithful, Participants
  <2>2. c \in DOMAIN active_chains
    BY <2>1 DEF IndInv, ReservationsExact
  <2> QED
    BY <1>1, <2>2 DEF has_overlap, Participants
<1> HIDE DEF x
<1>6. Abstract!Start(x)
  BY ZenonT(30), <1>2, <1>3, <1>4, <1>5 DEF Abstract!Start
<1>7. x \in DOMAIN active_xts'
  BY <1>2
<1> QED
  BY SMTT(20), <1>6, <1>7 DEF Abstract!Next

\* What the emitted Decided messages of a set of instances do to the outcomes
LEMMA DecidedBy ==
  ASSUME NEW xts, NEW d \in BOOLEAN,
         Emitted' = Emitted \cup {Decided(x, d) : x \in xts}
  PROVE  \A e \in BOOLEAN :
           DecidedAs(e)' = IF e = d THEN DecidedAs(e) \cup xts ELSE DecidedAs(e)
<1>1. \A x, e : Decided(x, e) \in Emitted' <=>
                  Decided(x, e) \in Emitted \/ (e = d /\ x \in xts)
  BY Zenon DEF Decided
<1>2. \A x, e : (x \in DecidedIn(Emitted', e)) <=>
                  (x \in DecidedIn(Emitted, e) \/ (e = d /\ x \in xts))
  BY <1>1, DecidedInIff
<1> QED
  BY <1>2 DEF DecidedAs

\* The outcomes depend only on the Decided messages
LEMMA SameDecisions ==
  ASSUME NEW A, NEW B, \A x, d : Decided(x, d) \in A <=> Decided(x, d) \in B
  PROVE  \A d : DecidedIn(A, d) = DecidedIn(B, d)
<1> TAKE d
<1>1. \A x : x \in DecidedIn(A, d) <=> x \in DecidedIn(B, d)
  BY DecidedInIff
<1>2. DecidedIn(A, d) \subseteq DecidedIn(B, d) /\ DecidedIn(B, d) \subseteq DecidedIn(A, d)
  BY <1>1
<1> QED
  BY <1>2

\* Steps without starts and decisions that leave the votes alone are invisible
LEMMA QuietIsStutter ==
  ASSUME DOMAIN active_xts' = DOMAIN active_xts,
         Emitted \subseteq Emitted',
         \A m \in Emitted' : m \in Emitted \/ m.type = "StartPeriod",
         UNCHANGED cast
  PROVE  UNCHANGED Abstract!vars
<1>1. \A x, d : Decided(x, d) \in Emitted' <=> Decided(x, d) \in Emitted
  BY DEF Decided
<1>2. \A d : DecidedIn(Emitted', d) = DecidedIn(Emitted, d)
  BY <1>1, SameDecisions
<1>3. DecidedAs(TRUE)' = DecidedAs(TRUE) /\ DecidedAs(FALSE)' = DecidedAs(FALSE)
  BY Zenon, <1>2 DEF DecidedAs
<1> QED
  BY Zenon, <1>3 DEF Abstract!vars

\* The coordinator implements atomic commit: instances that run together span
\* disjoint chains, and each ends at most once, committed only with every chain's
\* consent.
THEOREM Refinement == Spec => RefinesAtomicCommit
<1>1. Init => Abstract!Init
  <2> SUFFICES ASSUME Init PROVE Abstract!Init
    OBVIOUS
  <2>1. DOMAIN active_xts = {} /\ DOMAIN tasks = {}
    BY DEF Init, EmptyMap
  <2>2. Emitted = {}
    BY <2>1 DEF Emitted, Init
  <2>3. \A d : DecidedAs(d) = {}
    BY <2>2 DEF DecidedAs, DecidedIn
  <2> QED
    BY ZenonT(30), <2>1, <2>3 DEF Abstract!Init, Init
<1>2. IndInv /\ [Next]_vars => [Abstract!Next]_(Abstract!vars)
  <2> SUFFICES ASSUME IndInv, [Next]_vars
               PROVE  Abstract!Next \/ UNCHANGED Abstract!vars
    BY SMTT(20)
  <2> DEFINE Goal == Abstract!Next \/ UNCHANGED Abstract!vars
  <2>1. ASSUME NEW r \in XtRequest, QueueXt(r) PROVE Goal
    BY SMTT(20), <2>1, QuietIsStutter DEF QueueXt, Emitted
  <2>2. ASSUME NEW r \in XtRequest, StartXt(r) PROVE Goal
    BY <2>2, StartXtEmits, PrepareIsStart DEF StartXt
  <2>3. ASSUME NEW m \in cast, RecordVote(m) PROVE Goal
    <3>1. DOMAIN active_xts' = DOMAIN active_xts
      BY <2>3 DEF RecordVote
    <3> QED
      BY <2>3, <3>1, QuietIsStutter DEF RecordVote, Emitted
  <2>4. ASSUME NEW m \in cast, DecideByVote(m) PROVE Goal
    <3> DEFINE x == m.xt
    <3>1. /\ x \in DOMAIN active_xts
          /\ DOMAIN active_xts' = DOMAIN active_xts \ {x}
          /\ UNCHANGED cast
      BY <2>4 DEF DecideByVote, Counts, RemoveKeys, Restrict
    <3>2. Emitted' = Emitted \cup {Decided(x, Decision(m))}
      BY SMTT(20), <2>4, DecideByVoteEmits
    <3>3. CASE Decision(m) = TRUE
      <4>1. DecidedAs(TRUE)' = DecidedAs(TRUE) \cup {x} /\ DecidedAs(FALSE)' = DecidedAs(FALSE)
        <5>1. Emitted' = Emitted \cup {Decided(y, TRUE) : y \in {x}}
          BY <3>2, <3>3
        <5> QED
          BY Zenon, <5>1, DecidedBy
      <4>2. \A c \in Participants(x) : [xt |-> x, chain |-> c, vote |-> TRUE] \in cast
        BY <2>4, <3>3, CommitHasAllVotes DEF DecideByVote, Participants, Vote
      <4>3. Abstract!Commit(x)
        BY ZenonT(30), <3>1, <4>1, <4>2 DEF Abstract!Commit
      <4> QED
        BY <3>1, <4>3 DEF Abstract!Next
    <3>4. CASE Decision(m) = FALSE
      <4>1. DecidedAs(FALSE)' = DecidedAs(FALSE) \cup {x} /\ DecidedAs(TRUE)' = DecidedAs(TRUE)
        <5>1. Emitted' = Emitted \cup {Decided(y, FALSE) : y \in {x}}
          BY Zenon, <3>2, <3>4
        <5> QED
          BY Zenon, <5>1, DecidedBy
      <4>2. Abstract!Abort({x})
        BY ZenonT(30), <3>1, <4>1 DEF Abstract!Abort
      <4> QED
        BY <3>1, <4>2 DEF Abstract!Next
    <3>5. Decision(m) \in BOOLEAN
      BY DEF Decision, IndInv, TypeOK
    <3> QED
      BY ZenonT(30), <3>3, <3>4, <3>5
  <2>5. ASSUME ReapTimedOutXts PROVE Goal
    <3>1. /\ DOMAIN active_xts' = DOMAIN active_xts \ TimedOut
          /\ TimedOut \subseteq DOMAIN active_xts
          /\ UNCHANGED cast
      BY <2>5 DEF ReapTimedOutXts, RemoveKeys, Restrict, TimedOut
    <3>2. Emitted' = Emitted \cup {Decided(x, FALSE) : x \in TimedOut}
      BY Zenon, <2>5, ReapEmits
    <3>3. /\ DecidedAs(FALSE)' = DecidedAs(FALSE) \cup TimedOut
          /\ DecidedAs(TRUE)' = DecidedAs(TRUE)
      BY Zenon, <3>2, DecidedBy
    <3>4. Abstract!Abort(TimedOut)
      BY ZenonT(30), <3>1, <3>3 DEF Abstract!Abort
    <3> QED
      BY SMTT(20), <3>1, <3>4 DEF Abstract!Next
  <2>6. ASSUME AdvancePeriod PROVE Goal
    <3>1. Emitted' = Emitted \cup {StartPeriod(current_period_id + 1)}
      BY <2>6, PeriodEmits
    <3>2. \A m \in Emitted' : m \in Emitted \/ m.type = "StartPeriod"
      BY <3>1 DEF StartPeriod
    <3> QED
      BY SMTT(20), <2>6, <3>1, <3>2, QuietIsStutter DEF AdvancePeriod
  <2>7. ASSUME NEW t \in DOMAIN tasks, Broadcast(t) PROVE Goal
    <3>1. Emitted' = Emitted
      BY <2>7, BroadcastEmits DEF IndInv
    <3> QED
      BY SMTT(20), <2>7, <3>1, QuietIsStutter DEF Broadcast
  <2>8. ASSUME NEW t \in DOMAIN tasks, DrainNext(t) PROVE Goal
    <3>1. PICK i \in 1..Len(pending_queue) :
            /\ IsNextReady(i)
            /\ prepare_xt(pending_queue[i])
            /\ tasks' = [tasks EXCEPT ![t].todo =
                                     {StartInstance(PreparedXt(pending_queue[i]))}]
      BY Zenon, <2>8 DEF DrainNext
    <3> DEFINE r == pending_queue[i]
    <3>2. r \in XtRequest /\ ~has_overlap(extract_chains(r))
      BY <3>1 DEF IndInv, TypeOK, IsNextReady, Ready
    <3>3. Emitted' = Emitted \cup {StartInstance(PreparedXt(r))}
      BY ZenonT(30), <2>8, <3>1, DrainNextEmits DEF IndInv, DrainNext
    <3>4. prepare_xt(r) /\ UNCHANGED cast
      BY SMTT(20), <2>8, <3>1 DEF DrainNext
    <3> HIDE DEF r
    <3> QED
      BY SMTT(20), <3>2, <3>3, <3>4, PrepareIsStart
  <2>9. ASSUME NEW t \in DOMAIN tasks, DrainDone(t) PROVE Goal
    <3>1. Emitted' = Emitted
      BY <2>9, DrainDoneEmits
    <3> QED
      BY SMTT(20), <2>9, <3>1, QuietIsStutter DEF DrainDone
  <2>10. ASSUME SidecarVote PROVE Goal
    <3>1. Emitted' = Emitted
      BY <2>10 DEF SidecarVote, Emitted
    <3>2. \A d : DecidedAs(d)' = DecidedAs(d)
      BY <3>1 DEF DecidedAs
    <3>3. PICK b : cast' = cast \cup {b}
      BY Zenon, <2>10 DEF SidecarVote
    <3>4. Abstract!Cast(b) /\ b \in cast'
      BY Zenon, <2>10, <3>2, <3>3 DEF SidecarVote, Abstract!Cast
    <3> QED
      BY SMTT(20), <3>4 DEF Abstract!Next
  <2>11. ASSUME Tick PROVE Goal
    BY SMTT(20), <2>11, QuietIsStutter DEF Tick, Emitted
  <2>12. ASSUME UNCHANGED vars PROVE Goal
    BY <2>12, QuietIsStutter DEF vars, Emitted
  <2> QED
    BY SMTT(20), <2>1, <2>2, <2>3, <2>4, <2>5, <2>6, <2>7, <2>8, <2>9, <2>10, <2>11, <2>12
    DEF Next, HandleXtRequest, RejectXt, HandleVote, IgnoreVote, RunTask
<1> QED
  BY <1>1, <1>2, Invariance, PTL DEF Spec, RefinesAtomicCommit, Abstract!Spec

================================================================================

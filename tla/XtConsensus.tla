------------------------------ MODULE XtConsensus ------------------------------
(***************************************************************************)
(* The publisher's two-phase commit over cross-chain transactions (XTs):   *)
(* the XT half of CoordinatorState and of Coordinator in                   *)
(* crates/coordinator/src/coordinator.rs.                                  *)
(*                                                                         *)
(* Every handler takes the state's write lock once, releases it, and only  *)
(* then broadcasts.  A critical section is therefore one action here, and  *)
(* what the handler still has to do after it is an entry of `tasks': the   *)
(* messages left to broadcast, and whether the queue is drained after      *)
(* them.  Handlers run as separate tokio tasks, so tasks interleave        *)
(* freely.                                                                 *)
(*                                                                         *)
(* Each broadcast opens a fresh QUIC stream per sidecar and a failed send  *)
(* is only logged, so a sidecar may see messages in any order, or never:   *)
(* `sent' is the set of messages broadcast so far.  Sidecars are external. *)
(* One may vote on any instance whose StartInstance was broadcast, under   *)
(* any chain id, and its vote may arrive late, twice, or not at all.       *)
(***************************************************************************)
EXTENDS Collections, FiniteSets

CONSTANTS
  Chain,            \* chain ids
  XtRequest,        \* XtRequest payloads a sidecar may submit
  TxChains,         \* TxChains[r]: chain id of each transaction request of r
  ScpTimeout,       \* config scp.timeout, in clock ticks
  MaxPendingQueue,  \* MAX_PENDING_QUEUE_SIZE
  NoXt,             \* key of the tasks that belong to no instance
  MaxArrivals,      \* bound: XtRequests that reach the coordinator's state
  MaxPeriod,        \* bound: periods
  MaxVotes          \* bound: votes the sidecars send

ASSUME ChainAssumption == IsFiniteSet(Chain)
ASSUME TxChainsAssumption == TxChains \in [XtRequest -> Seq(Chain)]
ASSUME BoundsAssumption ==
  /\ ScpTimeout \in Nat \ {0}
  /\ MaxPendingQueue \in Nat
  /\ MaxArrivals \in Nat
  /\ MaxPeriod \in Nat
  /\ MaxVotes \in Nat

VARIABLES
  active_xts,        \* instance -> [chains, votes, age]; age stands for start_time
  active_chains,     \* chain -> the instance that reserved it
  pending_queue,     \* requests waiting for their chains
  current_period_id,
  next_sequence_num,
  tasks,             \* running handler -> [todo, drain]
  sent,              \* messages broadcast
  cast,              \* votes the sidecars have sent
  arrivals           \* requests that reached the state so far (for MaxArrivals)

vars == <<active_xts, active_chains, pending_queue, current_period_id,
          next_sequence_num, tasks, sent, cast, arrivals>>

Instance == [period : Nat, seq : Nat, request : XtRequest]

StartInstance(x) == [type |-> "StartInstance", xt |-> x]
Decided(x, d) == [type |-> "Decided", xt |-> x, decision |-> d]
StartPeriod(p) == [type |-> "StartPeriod", period |-> p]
Vote(x, c, v) == [xt |-> x, chain |-> c, vote |-> v]

Message ==
  [type : {"StartInstance"}, xt : Instance]
    \cup [type : {"Decided"}, xt : Instance, decision : BOOLEAN]
    \cup [type : {"StartPeriod"}, period : Nat]

XtTask(x) == [handler |-> "handle_xt_request", xt |-> x]
VoteTask(x) == [handler |-> "handle_vote", xt |-> x]
ReaperTask == [handler |-> "reaper_loop", xt |-> NoXt]
PeriodTask == [handler |-> "period_loop", xt |-> NoXt]

Task == [handler : {"handle_xt_request", "handle_vote"}, xt : Instance]
          \cup {ReaperTask, PeriodTask}

--------------------------------------------------------------------------------
\* The helpers of CoordinatorState

\* The distinct chains of a request.  The Vec's order is never observed.
extract_chains(r) == Range(TxChains[r])

has_overlap_AllChains(chains) == chains \subseteq DOMAIN active_chains
has_overlap(chains) == chains \cap DOMAIN active_chains # {}

reserve_chains(x, chains) ==
  [c \in DOMAIN active_chains \cup chains |->
     IF c \in chains THEN x ELSE active_chains[c]]

\* active_chains after release_chains(x) for every x in xts
release_chains(xts) ==
  RemoveKeys(active_chains,
             {c \in DOMAIN active_chains :
                \E x \in xts : c \in active_xts[x].chains /\ active_chains[c] = x})

\* generate_instance_id: SHA-256 over period, sequence number and request, taken
\* as injective.
generate_instance_id_NoSeq(period, seq, r) ==
  [period |-> period, seq |-> 1, request |-> r]
generate_instance_id(period, seq, r) ==
  [period |-> period, seq |-> seq, request |-> r]

PreparedXt(r) == generate_instance_id(current_period_id, next_sequence_num, r)

prepare_xt(r) ==
  /\ active_xts' = Insert(active_xts, PreparedXt(r),
                          [chains |-> extract_chains(r), votes |-> EmptyMap, age |-> 0])
  /\ active_chains' = reserve_chains(PreparedXt(r), extract_chains(r))
  /\ next_sequence_num' = next_sequence_num + 1

\* check_decision: every participant's vote is in
AllVoted(xt, votes) == Cardinality(DOMAIN votes) >= Cardinality(xt.chains)

Ready(i) == ~has_overlap(extract_chains(pending_queue[i]))

\* The index take_next_ready removes: the first entry without overlap
IsNextReady(i) ==
  /\ i \in 1..Len(pending_queue)
  /\ Ready(i)
  /\ \A j \in 1..(i - 1) : ~Ready(j)

--------------------------------------------------------------------------------
Init ==
  /\ active_xts = EmptyMap
  /\ active_chains = EmptyMap
  /\ pending_queue = <<>>
  /\ current_period_id = 0
  /\ next_sequence_num = 1
  /\ tasks = EmptyMap
  /\ sent = {}
  /\ cast = {}
  /\ arrivals = 0

--------------------------------------------------------------------------------
\* Handlers.  Rejections leave the state as it is.

QueueFull_OffByOne == Len(pending_queue) > MaxPendingQueue
QueueFull == Len(pending_queue) >= MaxPendingQueue

\* handle_xt_request turns a request away
RejectXt(r) ==
  /\ \/ Cardinality(extract_chains(r)) < 2
     \/ has_overlap(extract_chains(r)) /\ QueueFull
  /\ UNCHANGED vars

\* handle_xt_request queues a request whose chains are busy
QueueXt(r) ==
  /\ Cardinality(extract_chains(r)) >= 2
  /\ has_overlap(extract_chains(r))
  /\ ~QueueFull
  /\ pending_queue' = Append(pending_queue, r)
  /\ arrivals' = arrivals + 1
  /\ UNCHANGED <<active_xts, active_chains, current_period_id,
                 next_sequence_num, tasks, sent, cast>>

\* handle_xt_request starts a request at once, ahead of whatever is queued
StartXt(r) ==
  /\ Cardinality(extract_chains(r)) >= 2
  /\ ~has_overlap(extract_chains(r))
  /\ prepare_xt(r)
  /\ tasks' = Insert(tasks, XtTask(PreparedXt(r)),
                     [todo |-> {StartInstance(PreparedXt(r))}, drain |-> FALSE])
  /\ arrivals' = arrivals + 1
  /\ UNCHANGED <<pending_queue, current_period_id, sent, cast>>

HandleXtRequest(r) ==
  arrivals < MaxArrivals /\ (RejectXt(r) \/ QueueXt(r) \/ StartXt(r))

\* The votes record_vote takes into account
Counts_AnyChain(m) ==
  /\ m.xt \in DOMAIN active_xts
  /\ m.chain \notin DOMAIN active_xts[m.xt].votes
Counts(m) ==
  /\ m.xt \in DOMAIN active_xts
  /\ m.chain \in active_xts[m.xt].chains
  /\ m.chain \notin DOMAIN active_xts[m.xt].votes

VotesAfter(m) == Insert(active_xts[m.xt].votes, m.chain, m.vote)

\* A no decides at once, a yes only when it completes the votes
Decides(m) == ~m.vote \/ AllVoted(active_xts[m.xt], VotesAfter(m))

Decision(m) == m.vote /\ \A c \in DOMAIN VotesAfter(m) : VotesAfter(m)[c]

\* What handle_vote and the reaper do after deciding: broadcast, then drain_queue
AfterDeciding_NoDrain(decided) == [todo |-> decided, drain |-> FALSE]
AfterDeciding(decided) == [todo |-> decided, drain |-> TRUE]

\* handle_vote drops a vote for an instance that is not active, from a chain it
\* does not span, or from a chain that has voted
IgnoreVote(m) == ~Counts(m) /\ UNCHANGED vars

\* handle_vote records a yes that leaves the instance open
RecordVote(m) ==
  /\ Counts(m)
  /\ ~Decides(m)
  /\ active_xts' = [active_xts EXCEPT ![m.xt].votes = VotesAfter(m)]
  /\ UNCHANGED <<active_chains, pending_queue, current_period_id,
                 next_sequence_num, tasks, sent, cast, arrivals>>

\* handle_vote decides
DecideByVote(m) ==
  /\ Counts(m)
  /\ Decides(m)
  /\ active_chains' = release_chains({m.xt})
  /\ active_xts' = RemoveKeys(active_xts, {m.xt})
  /\ tasks' = Insert(tasks, VoteTask(m.xt),
                     AfterDeciding({Decided(m.xt, Decision(m))}))
  /\ UNCHANGED <<pending_queue, current_period_id, next_sequence_num,
                 sent, cast, arrivals>>

HandleVote(m) == IgnoreVote(m) \/ RecordVote(m) \/ DecideByVote(m)

TimedOut_Unvoted ==
  {x \in DOMAIN active_xts : active_xts[x].age >= ScpTimeout /\ active_xts[x].votes = EmptyMap}
TimedOut == {x \in DOMAIN active_xts : active_xts[x].age >= ScpTimeout}

\* reap_timed_out_xts, from reaper_loop, which starts no new pass before the
\* previous one has broadcast and drained
ReapTimedOutXts ==
  /\ ReaperTask \notin DOMAIN tasks
  /\ active_chains' = release_chains(TimedOut)
  /\ active_xts' = RemoveKeys(active_xts, TimedOut)
  /\ tasks' = IF TimedOut = {} THEN tasks
              ELSE Insert(tasks, ReaperTask,
                          AfterDeciding({Decided(x, FALSE) : x \in TimedOut}))
  /\ UNCHANGED <<pending_queue, current_period_id, next_sequence_num, sent,
                 cast, arrivals>>

\* advance_period, from period_loop
AdvancePeriod ==
  /\ current_period_id < MaxPeriod
  /\ PeriodTask \notin DOMAIN tasks
  /\ current_period_id' = current_period_id + 1
  /\ next_sequence_num' = 1
  /\ tasks' = Insert(tasks, PeriodTask,
                     [todo |-> {StartPeriod(current_period_id')}, drain |-> FALSE])
  /\ UNCHANGED <<active_xts, active_chains, pending_queue, sent, cast, arrivals>>

\* broadcast_raw of one of the messages task t holds; a task with nothing left
\* to do ends
Broadcast(t) ==
  \E m \in tasks[t].todo :
    /\ sent' = sent \cup {m}
    /\ tasks' = IF tasks[t].todo = {m} /\ ~tasks[t].drain
                THEN RemoveKeys(tasks, {t})
                ELSE [tasks EXCEPT ![t].todo = @ \ {m}]
    /\ UNCHANGED <<active_xts, active_chains, pending_queue, current_period_id,
                   next_sequence_num, cast, arrivals>>

Draining(t) == tasks[t].todo = {} /\ tasks[t].drain

\* A round of drain_queue's loop that starts the next ready entry
DrainNext(t) ==
  /\ Draining(t)
  /\ \E i \in 1..Len(pending_queue) :
       /\ IsNextReady(i)
       /\ pending_queue' = VecRemove(pending_queue, i)
       /\ prepare_xt(pending_queue[i])
       /\ tasks' = [tasks EXCEPT ![t].todo =
                                {StartInstance(PreparedXt(pending_queue[i]))}]
  /\ UNCHANGED <<current_period_id, sent, cast, arrivals>>

\* drain_queue finds nothing ready and returns, and its task ends
DrainDone(t) ==
  /\ Draining(t)
  /\ \A i \in 1..Len(pending_queue) : ~Ready(i)
  /\ tasks' = RemoveKeys(tasks, {t})
  /\ UNCHANGED <<active_xts, active_chains, pending_queue, current_period_id,
                 next_sequence_num, sent, cast, arrivals>>

RunTask(t) == Broadcast(t) \/ DrainNext(t) \/ DrainDone(t)

--------------------------------------------------------------------------------
\* Environment

\* A sidecar answers a StartInstance.  Nothing ties the chain id it writes into
\* the vote to the connection the vote arrives on.
SidecarVote ==
  /\ Cardinality(cast) < MaxVotes
  /\ \E m \in {s \in sent : s.type = "StartInstance"}, c \in Chain, v \in BOOLEAN :
       cast' = cast \cup {Vote(m.xt, c, v)}
  /\ UNCHANGED <<active_xts, active_chains, pending_queue, current_period_id,
                 next_sequence_num, tasks, sent, arrivals>>

\* Time passes for the instances that have not reached their timeout
Tick ==
  /\ \E x \in DOMAIN active_xts : active_xts[x].age < ScpTimeout
  /\ active_xts' = [x \in DOMAIN active_xts |->
                      [active_xts[x] EXCEPT !.age = IF @ < ScpTimeout THEN @ + 1 ELSE @]]
  /\ UNCHANGED <<active_chains, pending_queue, current_period_id,
                 next_sequence_num, tasks, sent, cast, arrivals>>

Next ==
  \/ \E r \in XtRequest : HandleXtRequest(r)
  \/ \E m \in cast : HandleVote(m)
  \/ ReapTimedOutXts
  \/ AdvancePeriod
  \/ \E t \in DOMAIN tasks : RunTask(t)
  \/ SidecarVote
  \/ Tick

Spec == Init /\ [][Next]_vars

--------------------------------------------------------------------------------
\* Properties

Votes == UNION {[S -> BOOLEAN] : S \in SUBSET Chain}

\* Every variable has its type, and pending_queue never exceeds
\* MAX_PENDING_QUEUE_SIZE (handle_xt_request's limit; drain_queue only removes).
TypeOK ==
  /\ IsMap(active_xts, Instance,
           [chains : SUBSET Chain, votes : Votes, age : 0..ScpTimeout])
  /\ IsMap(active_chains, Chain, Instance)
  /\ pending_queue \in Seq(XtRequest)
  /\ Len(pending_queue) <= MaxPendingQueue
  /\ current_period_id \in Nat
  /\ next_sequence_num \in Nat
  /\ IsMap(tasks, Task, [todo : SUBSET Message, drain : BOOLEAN])
  /\ sent \subseteq Message
  /\ cast \subseteq [xt : Instance, chain : Chain, vote : BOOLEAN]
  /\ arrivals \in 0..MaxArrivals

\* active_chains and active_xts never drift apart: a chain is reserved exactly
\* while an active instance spans it, and by that instance.  Hence no two active
\* instances share a chain, and no chain stays reserved once its instance is
\* decided by a vote or by the reaper (has_overlap, prepare_xt, release_chains).
ReservationsExact ==
  /\ \A c \in DOMAIN active_chains :
       /\ active_chains[c] \in DOMAIN active_xts
       /\ c \in active_xts[active_chains[c]].chains
  /\ \A x \in DOMAIN active_xts : \A c \in active_xts[x].chains :
       c \in DOMAIN active_chains /\ active_chains[c] = x

\* Messages broadcast or held by a task that will broadcast them
Emitted == sent \cup UNION {tasks[t].todo : t \in DOMAIN tasks}

DecidedIn(msgs, d) ==
  {x \in {m.xt : m \in {e \in msgs : e.type = "Decided"}} : Decided(x, d) \in msgs}

DecidedAs(d) == DecidedIn(Emitted, d)

\* An instance is never decided both ways, and one that is still active has not
\* been decided: a vote that arrives after the reaper has aborted its instance,
\* or after another vote has decided it, changes nothing (record_vote,
\* reap_timed_out).
DecisionsAgree ==
  /\ DecidedAs(TRUE) \cap DecidedAs(FALSE) = {}
  /\ DOMAIN active_xts \cap (DecidedAs(TRUE) \cup DecidedAs(FALSE)) = {}

\* Decided(true) is emitted only if a sidecar voted yes for every chain of the
\* request: duplicates and votes of other chains never stand in for a missing
\* vote (record_vote's guards and check_decision's count).
CommitNeedsEveryChain ==
  \A x \in DecidedAs(TRUE) : \A c \in extract_chains(x.request) :
    Vote(x, c, TRUE) \in cast

\* No lost wake-up: whenever a queued request could start, some task is still
\* going to run drain_queue.  Chains are released inside the lock but the queue
\* is drained later, by the task that released them.
NoLostWakeup ==
  (\E i \in 1..Len(pending_queue) : Ready(i)) => \E t \in DOMAIN tasks : tasks[t].drain

Issued == DOMAIN active_xts \cup {m.xt : m \in {e \in Emitted : e.type # "StartPeriod"}}

\* Two instances never carry the same period and sequence number, although
\* advance_period restarts the sequence while instances of the old period are
\* active and drain_queue starts requests that arrived periods ago.
NumbersNeverReused ==
  \A x, y \in Issued : x.period = y.period /\ x.seq = y.seq => x = y

\* The facts the safety invariants rest on.

\* An active instance spans its request's chains and holds votes that were cast,
\* of chains it spans.
ActiveFaithful ==
  \A x \in DOMAIN active_xts :
    /\ active_xts[x].chains = extract_chains(x.request)
    /\ DOMAIN active_xts[x].votes \subseteq active_xts[x].chains
    /\ \A c \in DOMAIN active_xts[x].votes :
         Vote(x, c, active_xts[x].votes[c]) \in cast

\* A handle_xt_request task only announces its own instance and never drains; a
\* handle_vote task exists only once its instance is decided.
TaskShape ==
  \A t \in DOMAIN tasks :
    /\ t.handler = "handle_xt_request" =>
         ~tasks[t].drain /\ tasks[t].todo \subseteq {StartInstance(t.xt)}
    /\ t.handler = "handle_vote" => t.xt \in DecidedAs(TRUE) \cup DecidedAs(FALSE)

\* Every instance so far precedes the next one in (period, sequence) order.
IssuedBefore ==
  \A x \in Issued :
    \/ x.period < current_period_id
    \/ x.period = current_period_id /\ x.seq < next_sequence_num

\* The inductive invariant: reservations, votes, task shapes and numbering as
\* above imply that the decisions, the wake-ups and the numbers are right.
IndInv ==
  /\ TypeOK
  /\ ActiveFaithful
  /\ ReservationsExact
  /\ TaskShape
  /\ IssuedBefore
  /\ NumbersNeverReused
  /\ DecisionsAgree
  /\ CommitNeedsEveryChain
  /\ NoLostWakeup

--------------------------------------------------------------------------------
\* The refinement: the instances in active_xts are under way, and an instance is
\* committed or aborted from the moment its Decided message exists.

Participants(x) == extract_chains(x.request)

Abstract == INSTANCE AtomicCommit WITH
  active <- DOMAIN active_xts,
  committed <- DecidedAs(TRUE),
  aborted <- DecidedAs(FALSE),
  ballots <- cast

\* XtConsensus implements AtomicCommit: every critical section of the coordinator
\* is a start, a commit, a group of aborts, a ballot, or invisible.
RefinesAtomicCommit == Abstract!Spec

--------------------------------------------------------------------------------
\* Liveness.  The runtime polls every ready task and sends either complete or
\* fail; the reaper's interval keeps ticking; time passes.  Nothing makes
\* sidecars vote or submit requests.
Fairness ==
  /\ WF_vars(Tick)
  /\ WF_vars(ReapTimedOutXts)
  /\ WF_vars(\E t \in DOMAIN tasks : RunTask(t))

FairSpec == Spec /\ Fairness

BoundedInstance == [period : 0..MaxPeriod, seq : 1..MaxArrivals, request : XtRequest]

\* Every instance that starts is eventually decided and the decision broadcast,
\* whatever the sidecars do: the reaper aborts what the votes leave open.
StartedXtIsDecided ==
  \A x \in BoundedInstance :
    x \in DOMAIN active_xts ~> \E d \in BOOLEAN : Decided(x, d) \in sent

\* With finitely many requests, the queue empties again and again.
QueueDrains == pending_queue # <<>> ~> pending_queue = <<>>

================================================================================

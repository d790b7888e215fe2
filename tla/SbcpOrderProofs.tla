---------------------------- MODULE SbcpOrderProofs ----------------------------
(***************************************************************************)
(* The messages of the composed protocol, for all chains, requests,        *)
(* initial numbers and bounds.                                             *)
(*                                                                         *)
(* What a sequencer does depends on the messages before it.  IndInv says   *)
(* of each message on its way what the publisher knew when it sent it, and *)
(* that it still holds: a period's announced superblock never changes, and *)
(* a StartInstance is followed by the Decided of its instance.  That gives *)
(* LockedInOwnBlock, LockReleasable and SettlementsAsAnnounced.  OrderInv  *)
(* says that the messages continue each other up to the publisher's period *)
(* and target, which gives QuietAgreement and StartsOnce.                  *)
(***************************************************************************)
EXTENDS SbcpInvariant, TLAPS

OrderOK(c) ==
  /\ PeriodsFollow(c)
  /\ InstancesFollow(c)
  /\ c \notin refused => TargetsFollow(c)

IsControl(msg) == msg.type \in {"StartPeriod", "Rollback"}

PublisherNumbers ==
  /\ period_id \in Nat
  /\ {target_superblock_number, last_finalized_superblock_number} \subseteq Int
  /\ DOMAIN aimed \subseteq 0..(period_id - 1)

LEMMA Basics == IndInv => Shapes /\ PublisherNumbers
BY Zenon DEF IndInv, PublisherNumbers

\* The publisher's part of Next
PublisherNext ==
  \/ PublisherStartsPeriod
  \/ PublisherTimesOut
  \/ \E r \in XtRequest : PublisherStartsInstance(r)
  \/ \E i \in undecided : PublisherDecidesInstance(i)
  \/ \E pf \in sent : PublisherReceivesProof(pf)
  \/ \E call \in proving : PublisherProves(call)
  \/ \E sb \in published : L1AcceptsSuperblock(sb)
  \/ \E n \in (InitFinalized + 1)..Pub!LatestNumber : PublisherSeesL1(n)

\* The record of a sequencer
IsState(s) ==
  s = [period_id |-> s.period_id,
       target_superblock_number |-> s.target_superblock_number,
       pending_block |-> s.pending_block,
       active_instance_id |-> s.active_instance_id,
       last_sequence_number |-> s.last_sequence_number,
       head |-> s.head,
       sealed_block_head |-> s.sealed_block_head,
       settled_state |-> s.settled_state]

--------------------------------------------------------------------------------
\* Queues

LEMMA OverItsRange ==
  ASSUME NEW S, NEW q \in Seq(S)
  PROVE  q \in Seq(Range(q))
<1>1. q \in [1..Len(q) -> Range(q)] /\ Len(q) \in Nat
  BY DEF Range
<1> QED
  BY <1>1

LEMMA AppendQueue ==
  ASSUME NEW q, q \in Seq(Range(q)), NEW msg
  PROVE  LET r == Append(q, msg) IN
         /\ r \in Seq(Range(r))
         /\ DOMAIN r = DOMAIN q \cup {Len(q) + 1}
         /\ DOMAIN q = 1..Len(q)
         /\ Len(q) \in Nat
         /\ \A k \in DOMAIN q : r[k] = q[k]
         /\ r[Len(q) + 1] = msg
<1>1. q \in Seq(Range(q) \cup {msg})
  BY SMTT(20)
<1>2. /\ Append(q, msg) \in Seq(Range(q) \cup {msg})
      /\ Len(Append(q, msg)) = Len(q) + 1
      /\ \A k \in 1..Len(q) : Append(q, msg)[k] = q[k]
      /\ Append(q, msg)[Len(q) + 1] = msg
  BY <1>1
<1>3. /\ DOMAIN q = 1..Len(q)
      /\ Len(q) \in Nat
      /\ DOMAIN Append(q, msg) = 1..(Len(q) + 1)
  BY <1>1, <1>2
<1>4. Append(q, msg) \in Seq(Range(Append(q, msg)))
  BY Zenon, <1>2, OverItsRange
<1> QED
  BY <1>2, <1>3, <1>4

LEMMA TailQueue ==
  ASSUME NEW q, q \in Seq(Range(q)), q # <<>>
  PROVE  LET r == Tail(q) IN
         /\ r \in Seq(Range(r))
         /\ Len(q) \in Nat \ {0}
         /\ DOMAIN q = 1..Len(q)
         /\ DOMAIN r = 1..(Len(q) - 1)
         /\ \A k \in DOMAIN r : r[k] = q[k + 1]
         /\ Head(q) = q[1]
<1>1. Tail(q) \in Seq(Range(q))
  OBVIOUS
<1>2. Tail(q) \in Seq(Range(Tail(q)))
  BY Zenon, <1>1, OverItsRange
<1>3. /\ Len(q) \in Nat \ {0}
      /\ DOMAIN q = 1..Len(q)
      /\ DOMAIN Tail(q) = 1..(Len(q) - 1)
      /\ \A k \in DOMAIN Tail(q) : Tail(q)[k] = q[k + 1]
      /\ Head(q) = q[1]
  OBVIOUS
<1> QED
  BY Zenon, <1>2, <1>3

--------------------------------------------------------------------------------
\* The instance lock and the settlements

\* What the steps of the publisher leave true of what it announced
AimedKept ==
  \A p \in DOMAIN aimed : p \in DOMAIN aimed' /\ aimed'[p] = aimed[p]

ChainOK(c) ==
  LET s == sequencer[c] IN
  /\ SequencerOK(c)
  /\ \A k \in DOMAIN inbox[c] : MessageOK(c, k)
  /\ s.active_instance_id # None =>
       /\ s.pending_block # None
       /\ s.pending_block.period_id = s.active_instance_id[1]
       /\ WillBeDecided(c, s.active_instance_id, 0)

\* The invariant is the conjunction of its groups.
LEMMA Groups ==
  IndInv <=> /\ Shapes /\ PublisherNumbers /\ SettlementsAsAnnounced
             /\ \A c \in Chain : ChainOK(c)
BY Zenon DEF IndInv, PublisherNumbers, ChainOK, LockedInOwnBlock, LockReleasable

LEMMA GroupsNext ==
  ASSUME Shapes', PublisherNumbers', SettlementsAsAnnounced',
         \A c \in Chain : ChainOK(c)'
  PROVE  IndInv'
BY Zenon DEF IndInv, PublisherNumbers, ChainOK, LockedInOwnBlock, LockReleasable

--------------------------------------------------------------------------------
LEMMA InitInvariant == Init => IndInv
<1> SUFFICES ASSUME Init PROVE IndInv
  BY Zenon
<1>1. Shapes
  <2>1. <<>> \in Seq(Range(<<>>))
    OBVIOUS
  <2> QED BY Zenon, <2>1 DEF Init, Shapes, SequencerInit
<1>2. PublisherNumbers
  BY SettledStart, PositiveStart DEF Init, Pub!Init, PublisherNumbers, EmptyMap
<1>3. SettlementsAsAnnounced
  BY Zenon DEF Init, SequencerInit, SettlementsAsAnnounced
<1>4. ASSUME NEW c \in Chain PROVE ChainOK(c)
  <2>1. inbox[c] = <<>> /\ DOMAIN inbox[c] = {}
    BY DEF Init
  <2>2. /\ sequencer[c].period_id \in Nat
        /\ sequencer[c].pending_block = None
        /\ sequencer[c].active_instance_id = None
    BY Zenon, PositiveStart DEF Init, SequencerInit
  <2> QED BY <2>1, <2>2, Zenon DEF ChainOK, SequencerOK
<1> QED
  BY <1>1, <1>2, <1>3, <1>4, Groups, Zenon

--------------------------------------------------------------------------------
\* What the publisher does keeps the invariant of a chain

\* A step that sends the chain nothing and decides none of its instances.
LEMMA NothingSent ==
  ASSUME NEW c \in Chain, ChainOK(c), AimedKept,
         sequencer'[c] = sequencer[c], inbox'[c] = inbox[c],
         \A i \in undecided : c \in Pub!chains_from_request(i.request) =>
           \E j \in undecided' : InstanceId(j) = InstanceId(i)
  PROVE  ChainOK(c)'
<1>1. ASSUME NEW id, NEW k, c \in Pub!chains_from_request(id[3]), WillBeDecided(c, id, k)
      PROVE  WillBeDecided(c, id, k)'
  <2>1. CASE \E i \in undecided : InstanceId(i) = id
    <3> PICK i \in undecided : InstanceId(i) = id
      BY Zenon, <2>1
    <3>1. id[3] = i.request
      BY Zenon DEF InstanceId
    <3> QED BY <3>1, <1>1, Zenon DEF WillBeDecided
  <2>2. CASE \E j \in InFlight(c, {"Decided"}) : j > k /\ inbox[c][j].id = id
    BY <2>2, Zenon DEF WillBeDecided, InFlight
  <2> QED BY <1>1, <2>1, <2>2, Zenon DEF WillBeDecided
<1>2. \A p, n : Announced(p, n) => Announced(p, n)'
  BY Zenon DEF Announced, AimedKept
<1>3. ASSUME NEW k \in DOMAIN inbox[c] PROVE MessageOK(c, k)'
  <2>1. MessageOK(c, k)
    BY Zenon DEF ChainOK
  <2> QED BY <2>1, <1>1, <1>2, Zenon DEF MessageOK
<1>4. SequencerOK(c)'
  BY <1>2, Zenon DEF ChainOK, SequencerOK
<1> QED
  BY <1>1, <1>3, <1>4, Zenon DEF ChainOK, SequencerOK

\* What must be true of a message for the invariant to hold with it
Sendable(c, msg) ==
  /\ msg.type \in {"StartPeriod", "Rollback"} => msg.period \in Nat
  /\ msg.type = "StartPeriod" => Announced(msg.period - 1, msg.target - 1)
  /\ msg.type = "StartInstance" => /\ msg.id[1] = msg.period
                                   /\ c \in Pub!chains_from_request(msg.id[3])
                                   /\ \E i \in undecided : InstanceId(i) = msg.id

\* A step that sends the chain a message, which may be a decision.
LEMMA MessageSent ==
  ASSUME NEW c \in Chain, ChainOK(c), Shapes, AimedKept,
         sequencer'[c] = sequencer[c],
         NEW msg, inbox'[c] = Append(inbox[c], msg), Sendable(c, msg)',
         \A i \in undecided : c \in Pub!chains_from_request(i.request) =>
           \/ \E j \in undecided' : InstanceId(j) = InstanceId(i)
           \/ msg.type = "Decided" /\ msg.id = InstanceId(i)
  PROVE  ChainOK(c)'
<1> PICK last : last = Len(inbox[c]) + 1
  BY Zenon
<1>1. /\ DOMAIN inbox'[c] = DOMAIN inbox[c] \cup {last}
      /\ DOMAIN inbox[c] = 1..Len(inbox[c])
      /\ Len(inbox[c]) \in Nat
      /\ \A k \in DOMAIN inbox[c] : inbox'[c][k] = inbox[c][k]
      /\ inbox'[c][last] = msg
  <2>1. inbox[c] \in Seq(Range(inbox[c]))
    BY Zenon DEF Shapes
  <2> QED BY <2>1, AppendQueue
<1>2. \A k \in DOMAIN inbox[c] \cup {0} : last > k
  BY <1>1
<1>3. ASSUME NEW id, NEW k \in DOMAIN inbox[c] \cup {0},
             c \in Pub!chains_from_request(id[3]), WillBeDecided(c, id, k)
      PROVE  WillBeDecided(c, id, k)'
  <2>1. CASE \E i \in undecided : InstanceId(i) = id
    <3> PICK i \in undecided : InstanceId(i) = id
      BY Zenon, <2>1
    <3>1. id[3] = i.request
      BY Zenon DEF InstanceId
    <3>2. CASE \E j \in undecided' : InstanceId(j) = InstanceId(i)
      BY <3>2, Zenon DEF WillBeDecided
    <3>3. CASE msg.type = "Decided" /\ msg.id = InstanceId(i)
      <4>1. last \in InFlight(c, {"Decided"})' /\ inbox'[c][last].id = id
        BY <3>3, <1>1, Zenon DEF InFlight
      <4> QED BY <4>1, <1>2, Zenon DEF WillBeDecided
    <3> QED BY <3>1, <3>2, <3>3, <1>3, Zenon
  <2>2. CASE \E j \in InFlight(c, {"Decided"}) : j > k /\ inbox[c][j].id = id
    BY <2>2, <1>1, Zenon DEF WillBeDecided, InFlight
  <2> QED BY <1>3, <2>1, <2>2, Zenon DEF WillBeDecided
<1>4. \A p, n : Announced(p, n) => Announced(p, n)'
  BY Zenon DEF Announced, AimedKept
<1>5. ASSUME NEW k \in DOMAIN inbox[c] PROVE MessageOK(c, k)'
  <2>1. MessageOK(c, k)
    BY Zenon DEF ChainOK
  <2>2. inbox'[c][k] = inbox[c][k]
    BY <1>1, Zenon
  <2> QED BY <2>1, <2>2, <1>3, <1>4, Zenon DEF MessageOK
<1>6. MessageOK(c, last)'
  <2>1. msg.type = "StartInstance" => WillBeDecided(c, msg.id, last)'
    BY Zenon DEF Sendable, WillBeDecided
  <2>2. inbox'[c][last] = msg
    BY <1>1, Zenon
  <2> QED BY <2>1, <2>2, Zenon DEF MessageOK, Sendable
<1>7. SequencerOK(c)'
  BY <1>4, Zenon DEF ChainOK, SequencerOK
<1>8. \A k \in DOMAIN inbox'[c] : MessageOK(c, k)'
  BY <1>1, <1>5, <1>6, Zenon
<1>9. ASSUME sequencer[c].active_instance_id # None
      PROVE  WillBeDecided(c, sequencer[c].active_instance_id, 0)'
  BY <1>3, <1>9, Zenon DEF ChainOK, SequencerOK
<1> QED
  BY <1>7, <1>8, <1>9, Zenon DEF ChainOK

\* A broadcast that starts from the invariant and leaves the sequencers alone.
LEMMA BroadcastStep ==
  ASSUME IndInv, UNCHANGED seqVars, AimedKept, PublisherNumbers',
         NEW chains, NEW msg, Broadcast(chains, msg),
         \A c \in chains : Sendable(c, msg)',
         \A i \in undecided :
           \/ \E j \in undecided' : InstanceId(j) = InstanceId(i)
           \/ /\ msg.type = "Decided" /\ msg.id = InstanceId(i)
              /\ chains = Pub!chains_from_request(i.request)
  PROVE  IndInv'
<1>1. Shapes /\ SettlementsAsAnnounced /\ \A c \in Chain : ChainOK(c)
  BY Groups, Zenon
<1>2. inbox' = [c \in Chain |-> IF c \in chains THEN Append(inbox[c], msg) ELSE inbox[c]]
  BY Zenon DEF Broadcast
<1>3. \A c \in Chain : inbox'[c] \in Seq(Range(inbox'[c]))
  BY Zenon, <1>1, <1>2, AppendQueue DEF Shapes
<1>4. Shapes'
  BY <1>1, <1>2, <1>3, Zenon DEF Shapes, seqVars
<1>5. SettlementsAsAnnounced'
  BY <1>1, Zenon DEF SettlementsAsAnnounced, AimedKept, seqVars
<1>6. ASSUME NEW c \in Chain PROVE ChainOK(c)'
  <2>1. ChainOK(c) /\ sequencer'[c] = sequencer[c]
    BY <1>1, Zenon DEF seqVars
  <2>2. CASE c \in chains
    <3>1. inbox'[c] = Append(inbox[c], msg)
      BY <1>2, <2>2, Zenon
    <3> QED BY <3>1, <2>1, <2>2, <1>1, MessageSent, Zenon
  <2>3. CASE c \notin chains
    <3>1. inbox'[c] = inbox[c]
      BY <1>2, <2>3, Zenon
    <3> QED BY <3>1, <2>1, <2>3, NothingSent, Zenon
  <2> QED BY Zenon, <2>2, <2>3
<1> QED
  BY <1>4, <1>5, <1>6, GroupsNext, Zenon

\* A step of the publisher or L1 that sends nothing.
LEMMA SilentStep ==
  ASSUME IndInv, UNCHANGED <<seqVars, inbox, aimed, undecided>>, PublisherNumbers'
  PROVE  IndInv'
<1>1. Shapes /\ SettlementsAsAnnounced /\ \A c \in Chain : ChainOK(c)
  BY Groups, Zenon
<1>2. Shapes' /\ SettlementsAsAnnounced'
  BY <1>1, Zenon DEF Shapes, SettlementsAsAnnounced, seqVars
<1>3. AimedKept
  BY Zenon DEF AimedKept
<1>4. ASSUME NEW c \in Chain PROVE ChainOK(c)'
  BY <1>1, <1>3, NothingSent, Zenon DEF seqVars
<1> QED
  BY <1>2, <1>4, GroupsNext, Zenon

LEMMA StartsPeriodStep ==
  ASSUME IndInv, PublisherStartsPeriod
  PROVE  IndInv'
<1>1. PublisherNumbers
  BY Groups, Zenon
<1>2. /\ period_id' = period_id + 1
      /\ target_superblock_number' = target_superblock_number + 1
      /\ UNCHANGED <<seqVars, undecided, last_finalized_superblock_number>>
      /\ aimed' = Insert(aimed, period_id, target_superblock_number)
  BY Zenon DEF PublisherStartsPeriod, Pub!StartPeriod, Pub!NextPeriod, Pub!finalized
<1>3. DOMAIN aimed' = DOMAIN aimed \cup {period_id}
  BY Zenon, <1>2 DEF Insert
<1>4. AimedKept
  <2>1. period_id \notin DOMAIN aimed
    BY <1>1 DEF PublisherNumbers
  <2> QED BY Zenon, <2>1, <1>2 DEF AimedKept, Insert
<1>5. PublisherNumbers'
  BY <1>1, <1>2, <1>3 DEF PublisherNumbers
<1> PICK msg : msg = [type |-> "StartPeriod", period |-> period_id',
                      target |-> target_superblock_number']
  BY Zenon
<1>6. Broadcast(Chain, msg)
  BY Zenon DEF PublisherStartsPeriod
<1>7. \A c \in Chain : Sendable(c, msg)'
  <2>1. /\ msg.type = "StartPeriod" /\ msg.period \in Nat
        /\ msg.period - 1 = period_id
        /\ msg.target - 1 = target_superblock_number
    BY <1>1, <1>2 DEF PublisherNumbers
  <2>2. Announced(msg.period - 1, msg.target - 1)'
    BY Zenon, <2>1, <1>2, <1>3 DEF Announced, Insert
  <2> QED BY Zenon, <2>1, <2>2 DEF Sendable
<1> QED
  BY <1>2, <1>4, <1>5, <1>6, <1>7, BroadcastStep, Zenon

LEMMA StartsInstanceStep ==
  ASSUME IndInv, NEW r \in XtRequest, PublisherStartsInstance(r)
  PROVE  IndInv'
<1> PICK i : i = [period |-> period_id, seq |-> sequence_number', request |-> r,
                  epoch |-> epoch]
  BY Zenon
<1> PICK msg : msg = [type |-> "StartInstance", id |-> InstanceId(i), period |-> i.period,
                      seq |-> i.seq]
  BY Zenon
<1>1. /\ undecided' = undecided \cup {i}
      /\ UNCHANGED <<seqVars, aimed, period_id, target_superblock_number,
                     last_finalized_superblock_number>>
  BY Zenon
     DEF PublisherStartsInstance, Pub!StartInstance, Pub!building, Pub!finalized, ghosts
<1>2. Broadcast(Pub!chains_from_request(r), msg)
  BY Zenon DEF PublisherStartsInstance, InstanceId
<1>3. AimedKept /\ PublisherNumbers'
  BY <1>1, Groups, Zenon DEF AimedKept, PublisherNumbers
<1>4. /\ msg.type = "StartInstance"
      /\ msg.id = InstanceId(i)
      /\ msg.id[1] = msg.period
      /\ msg.id[3] = r
  BY Zenon DEF InstanceId
<1>5. \A c \in Pub!chains_from_request(r) : Sendable(c, msg)'
  BY <1>1, <1>4, Zenon DEF Sendable
<1>6. \A j \in undecided : j \in undecided'
  BY <1>1, Zenon
<1> QED
  BY <1>1, <1>2, <1>3, <1>5, <1>6, BroadcastStep, Zenon

LEMMA DecidesInstanceStep ==
  ASSUME IndInv, NEW i \in undecided, PublisherDecidesInstance(i)
  PROVE  IndInv'
<1> PICK msg : msg = [type |-> "Decided", id |-> InstanceId(i)]
  BY Zenon
<1>1. /\ undecided' = undecided \ {i}
      /\ UNCHANGED <<seqVars, aimed, period_id, target_superblock_number,
                     last_finalized_superblock_number>>
      /\ Broadcast(Pub!chains_from_request(i.request), msg)
  BY Zenon
     DEF PublisherDecidesInstance, Pub!DecideInstance, Pub!building, Pub!finalized, ghosts
<1>2. AimedKept /\ PublisherNumbers'
  BY <1>1, Groups, Zenon DEF AimedKept, PublisherNumbers
<1>3. msg.type = "Decided" /\ msg.id = InstanceId(i)
  BY Zenon
<1>4. \A c \in Pub!chains_from_request(i.request) : Sendable(c, msg)'
  BY Zenon, <1>3 DEF Sendable
<1>5. \A j \in undecided : j \in undecided' \/ j = i
  BY <1>1, Zenon
<1> QED
  BY <1>1, <1>2, <1>3, <1>4, <1>5, BroadcastStep, Zenon

LEMMA RollbackStep ==
  ASSUME IndInv, Pub!rollback, BroadcastRollback
  PROVE  IndInv'
<1> PICK msg : msg = [type |-> "Rollback", period |-> period_id,
                      number |-> last_finalized_superblock_number,
                      hash |-> last_finalized_superblock_hash, epoch |-> epoch']
  BY Zenon
<1>1. /\ UNCHANGED <<seqVars, aimed, undecided, period_id, last_finalized_superblock_number>>
      /\ target_superblock_number' = last_finalized_superblock_number + 1
      /\ Broadcast(Chain, msg)
  BY Zenon DEF BroadcastRollback, Pub!rollback, Pub!TargetAfterRollback, Pub!finalized
<1>2. PublisherNumbers
  BY Groups, Zenon
<1>3. AimedKept /\ PublisherNumbers'
  BY <1>1, <1>2 DEF AimedKept, PublisherNumbers
<1>4. \A c \in Chain : Sendable(c, msg)'
  <2>1. msg.type = "Rollback" /\ msg.period \in Nat
    BY Zenon, <1>2 DEF PublisherNumbers
  <2> QED BY Zenon, <2>1 DEF Sendable
<1> QED
  BY <1>1, <1>3, <1>4, BroadcastStep, Zenon

LEMMA PublisherInvariant ==
  ASSUME IndInv, PublisherNext
  PROVE  IndInv'
<1> DEFINE Silent == UNCHANGED <<seqVars, inbox, aimed, undecided, period_id,
                                 target_superblock_number>>
<1>1. PublisherNumbers
  BY Groups, Zenon
<1>2. ASSUME Silent, last_finalized_superblock_number' \in Int
      PROVE  IndInv'
  <2>1. PublisherNumbers'
    BY Zenon, <1>1, <1>2 DEF PublisherNumbers
  <2> QED BY <2>1, <1>2, SilentStep, Zenon
<1>3. ASSUME Silent, UNCHANGED last_finalized_superblock_number
      PROVE  IndInv'
  BY Zenon, <1>1, <1>2, <1>3 DEF PublisherNumbers
<1>4. CASE PublisherTimesOut
  BY <1>4, RollbackStep, Zenon DEF PublisherTimesOut, Pub!ProofTimeout
<1>5. ASSUME NEW pf \in sent, PublisherReceivesProof(pf) PROVE IndInv'
  <2>1. Silent /\ UNCHANGED last_finalized_superblock_number
    BY Zenon, <1>5
       DEF PublisherReceivesProof, Pub!ReceiveProof, Pub!building, Pub!finalized,
                Pub!instances
  <2> QED BY <2>1, <1>3, Zenon
<1>6. ASSUME NEW call \in proving, PublisherProves(call) PROVE IndInv'
  <2>1. CASE Pub!ProverFails(call) /\ BroadcastRollback
    BY <2>1, RollbackStep, Zenon DEF Pub!ProverFails
  <2>2. CASE ~(Pub!ProverFails(call) /\ BroadcastRollback)
    <3>1. Silent /\ UNCHANGED last_finalized_superblock_number
      BY ZenonT(30), <1>6, <2>2
         DEF PublisherProves, Pub!ProverSucceeds, Pub!Publish, Pub!building,
                        Pub!finalized, Pub!instances, ghosts
    <3> QED BY <3>1, <1>3, Zenon
  <2> QED BY Zenon, <2>1, <2>2
<1>7. ASSUME NEW sb \in published, L1AcceptsSuperblock(sb) PROVE IndInv'
  <2>1. Silent /\ UNCHANGED last_finalized_superblock_number
    BY Zenon, <1>7 DEF L1AcceptsSuperblock, Pub!L1Accepts, Pub!building, Pub!finalized,
                Pub!instances
  <2> QED BY <2>1, <1>3, Zenon
<1>8. ASSUME NEW n \in (InitFinalized + 1)..Pub!LatestNumber, PublisherSeesL1(n)
      PROVE  IndInv'
  <2>1. Silent /\ last_finalized_superblock_number' = n
    BY Zenon, <1>8
       DEF PublisherSeesL1, Pub!AdvanceSettledState, Pub!building, Pub!instances,
                ghosts
  <2>2. n \in Int
    OBVIOUS
  <2> QED BY <2>1, <2>2, <1>2, Zenon
<1> QED
  BY <1>4, <1>5, <1>6, <1>7, <1>8, StartsPeriodStep, StartsInstanceStep,
     DecidesInstanceStep, Zenon DEF PublisherNext

--------------------------------------------------------------------------------
\* What a sequencer does keeps its own invariant and touches no other's

\* Assigning a field of a state leaves a state and the other fields.
LEMMA Assign ==
  ASSUME NEW s, IsState(s), NEW v
  PROVE  /\ IsState([s EXCEPT !.period_id = v])
         /\ IsState([s EXCEPT !.target_superblock_number = v])
         /\ IsState([s EXCEPT !.pending_block = v])
         /\ IsState([s EXCEPT !.active_instance_id = v])
         /\ IsState([s EXCEPT !.last_sequence_number = v])
         /\ IsState([s EXCEPT !.head = v])
         /\ IsState([s EXCEPT !.sealed_block_head = v])
         /\ IsState([s EXCEPT !.settled_state = v])
BY DEF IsState

\* The oldest message is taken, or none
InboxStep(c) ==
  \/ inbox' = inbox
  \/ inbox[c] # <<>> /\ inbox' = [inbox EXCEPT ![c] = Tail(@)]

\* A step of one sequencer.
LEMMA OneSequencer ==
  ASSUME IndInv, NEW c \in Chain,
         UNCHANGED <<period_id, target_superblock_number,
                     last_finalized_superblock_number, aimed, undecided>>,
         NEW s, IsState(s), sequencer' = [sequencer EXCEPT ![c] = s],
         InboxStep(c),
         \A call \in settling' : call = [chain |-> call.chain, period |-> call.period,
                                         superblock |-> call.superblock,
                                         header |-> call.header, stage |-> call.stage],
         SettlementsAsAnnounced', ChainOK(c)'
  PROVE  IndInv'
<1>1. Shapes /\ PublisherNumbers /\ \A d \in Chain : ChainOK(d)
  BY Groups, Zenon
<1>2. /\ \A d \in Chain \ {c} : sequencer'[d] = sequencer[d]
      /\ sequencer'[c] = s
      /\ sequencer' = [d \in Chain |-> sequencer'[d]]
  BY Zenon, <1>1 DEF Shapes
<1>3. /\ \A d \in Chain \ {c} : inbox'[d] = inbox[d]
      /\ inbox' = [d \in Chain |-> inbox'[d]]
      /\ inbox'[c] = inbox[c] \/ (inbox[c] # <<>> /\ inbox'[c] = Tail(inbox[c]))
  BY ZenonT(30), <1>1 DEF Shapes, InboxStep
<1>4. \A d \in Chain : inbox[d] \in Seq(Range(inbox[d]))
  BY <1>1, Zenon DEF Shapes
<1>5. \A d \in Chain : inbox'[d] \in Seq(Range(inbox'[d]))
  <2>1. inbox[c] # <<>> => Tail(inbox[c]) \in Seq(Range(Tail(inbox[c])))
    BY Zenon, <1>4, TailQueue
  <2>2. inbox'[c] \in Seq(Range(inbox'[c]))
    BY <2>1, <1>3, <1>4, Zenon
  <2> QED BY <2>2, <1>3, <1>4, Zenon
<1>6. \A d \in Chain : IsState(sequencer[d])
  BY <1>1, Zenon DEF Shapes, IsState
<1>7. \A d \in Chain : IsState(sequencer'[d])
  BY <1>2, <1>6, Zenon
<1>8. Shapes'
  BY <1>2, <1>3, <1>5, <1>7, Zenon DEF Shapes, IsState
<1>9. ASSUME NEW d \in Chain PROVE ChainOK(d)'
  <2>1. AimedKept
    BY Zenon DEF AimedKept
  <2>2. CASE d # c
    <3>1. /\ ChainOK(d) /\ sequencer'[d] = sequencer[d] /\ inbox'[d] = inbox[d]
          /\ \A i \in undecided : i \in undecided'
      BY <2>2, <1>1, <1>2, <1>3, Zenon
    <3> QED BY <2>1, <3>1, NothingSent, Zenon
  <2> QED BY Zenon, <2>2
<1>10. PublisherNumbers'
  BY <1>1, Zenon DEF PublisherNumbers
<1> QED
  BY <1>8, <1>9, <1>10, GroupsNext, Zenon

\* Taking the oldest message: what is behind it stays as it was.
LEMMA Taken ==
  ASSUME NEW c \in Chain, Shapes, ChainOK(c), UNCHANGED <<aimed, undecided>>,
         inbox[c] # <<>>, inbox' = [inbox EXCEPT ![c] = Tail(@)]
  PROVE  /\ Head(inbox[c]) = inbox[c][1]
         /\ MessageOK(c, 1)
         /\ \A k \in DOMAIN inbox'[c] : MessageOK(c, k)'
         /\ \A id : WillBeDecided(c, id, 1) => WillBeDecided(c, id, 0)'
         /\ \A id : WillBeDecided(c, id, 0)
                     /\ ~(inbox[c][1].type = "Decided" /\ inbox[c][1].id = id)
                     => WillBeDecided(c, id, 0)'
<1>1. /\ inbox[c] \in Seq(Range(inbox[c]))
      /\ inbox'[c] = Tail(inbox[c])
  BY Zenon DEF Shapes
<1>2. /\ Len(inbox[c]) \in Nat \ {0}
      /\ DOMAIN inbox[c] = 1..Len(inbox[c])
      /\ DOMAIN inbox'[c] = 1..(Len(inbox[c]) - 1)
      /\ \A k \in DOMAIN inbox'[c] : inbox'[c][k] = inbox[c][k + 1]
      /\ Head(inbox[c]) = inbox[c][1]
  BY ZenonT(30), <1>1, TailQueue
<1>3. MessageOK(c, 1)
  BY <1>2 DEF ChainOK
<1>4. ASSUME NEW id, NEW k \in Nat, WillBeDecided(c, id, k + 1)
      PROVE  WillBeDecided(c, id, k)'
  <2>1. CASE \E i \in undecided : InstanceId(i) = id
    BY <2>1, Zenon DEF WillBeDecided
  <2>2. CASE \E j \in InFlight(c, {"Decided"}) : j > k + 1 /\ inbox[c][j].id = id
    <3> PICK j \in InFlight(c, {"Decided"}) : j > k + 1 /\ inbox[c][j].id = id
      BY Zenon, <2>2
    <3>1. /\ j \in DOMAIN inbox[c] /\ inbox[c][j].type = "Decided"
      BY Zenon DEF InFlight
    <3>2. /\ j - 1 \in DOMAIN inbox'[c] /\ j - 1 > k
          /\ inbox'[c][j - 1] = inbox[c][j]
      BY <3>1, <1>2
    <3>3. j - 1 \in InFlight(c, {"Decided"})'
      BY Zenon, <3>1, <3>2 DEF InFlight
    <3> QED BY <3>2, <3>3, Zenon DEF WillBeDecided
  <2> QED BY <1>4, <2>1, <2>2, Zenon DEF WillBeDecided
<1>5. ASSUME NEW k \in DOMAIN inbox'[c] PROVE MessageOK(c, k)'
  <2>1. /\ k + 1 \in DOMAIN inbox[c] /\ k \in Nat
        /\ inbox'[c][k] = inbox[c][k + 1]
    BY <1>2
  <2>2. MessageOK(c, k + 1)
    BY <2>1, Zenon DEF ChainOK
  <2>3. \A p, n : Announced(p, n) <=> Announced(p, n)'
    BY Zenon DEF Announced
  <2> QED BY <2>1, <2>2, <2>3, <1>4, Zenon DEF MessageOK
<1>6. ASSUME NEW id, WillBeDecided(c, id, 1) PROVE WillBeDecided(c, id, 0)'
  BY <1>4, <1>6
<1>7. ASSUME NEW id, WillBeDecided(c, id, 0),
             ~(inbox[c][1].type = "Decided" /\ inbox[c][1].id = id)
      PROVE  WillBeDecided(c, id, 0)'
  <2>1. ASSUME NEW j \in InFlight(c, {"Decided"}), inbox[c][j].id = id PROVE j > 1
    BY <2>1, <1>2, <1>7 DEF InFlight
  <2>2. WillBeDecided(c, id, 1)
    BY <2>1, <1>7, Zenon DEF WillBeDecided
  <2> QED BY Zenon, <2>2, <1>6
<1> QED
  BY <1>2, <1>3, <1>5, <1>6, <1>7, ZenonT(30)

\* A step that leaves the inboxes, the announcements and the instances alone.
LEMMA NotTaken ==
  ASSUME NEW c \in Chain, ChainOK(c), UNCHANGED <<inbox, aimed, undecided>>
  PROVE  /\ \A k \in DOMAIN inbox'[c] : MessageOK(c, k)'
         /\ \A id : WillBeDecided(c, id, 0) => WillBeDecided(c, id, 0)'
<1>1. \A id, k : WillBeDecided(c, id, k) => WillBeDecided(c, id, k)'
  BY Zenon DEF WillBeDecided, InFlight
<1>2. \A p, n : Announced(p, n) => Announced(p, n)'
  BY Zenon DEF Announced
<1> QED
  BY <1>1, <1>2, Zenon DEF ChainOK, MessageOK

\* The calls a step leaves running keep their shape and their announcement.
LEMMA CallsKept ==
  ASSUME IndInv, UNCHANGED aimed, settling' \cup sent' \subseteq settling \cup sent,
         settling' \subseteq settling
  PROVE  /\ \A call \in settling' : call = [chain |-> call.chain, period |-> call.period,
                                            superblock |-> call.superblock,
                                            header |-> call.header, stage |-> call.stage]
         /\ SettlementsAsAnnounced'
BY Groups, Zenon DEF Shapes, SettlementsAsAnnounced

\* A settlement that starts is of an announced pair.
LEMMA CallAdded ==
  ASSUME IndInv, UNCHANGED <<aimed, sent>>, NEW c, NEW p, NEW n, Announced(p, n),
         settling' = settling \cup {Settlement(c, p, n)}
  PROVE  /\ \A call \in settling' : call = [chain |-> call.chain, period |-> call.period,
                                            superblock |-> call.superblock,
                                            header |-> call.header, stage |-> call.stage]
         /\ SettlementsAsAnnounced'
<1>1. LET call == Settlement(c, p, n) IN
      /\ call.period = p /\ call.superblock = n
      /\ call = [chain |-> call.chain, period |-> call.period,
                 superblock |-> call.superblock, header |-> call.header,
                 stage |-> call.stage]
  BY Zenon DEF Settlement
<1> QED
  BY <1>1, Groups, Zenon DEF Shapes, SettlementsAsAnnounced, Announced

\* Deliver of a StartPeriod
LEMMA DeliverStartPeriod ==
  ASSUME IndInv, NEW c \in Chain, Deliver(c), Head(inbox[c]).type = "StartPeriod"
  PROVE  IndInv'
<1> PICK msg : msg = Head(inbox[c])
  BY Zenon
<1> PICK s : s = [[[sequencer[c] EXCEPT !.period_id = msg.period]
                     EXCEPT !.target_superblock_number = msg.target]
                     EXCEPT !.last_sequence_number = None]
  BY Zenon
<1>1. Shapes /\ ChainOK(c) /\ IsState(sequencer[c])
  BY Groups, ZenonT(30) DEF Shapes, IsState
<1>2. /\ inbox[c] # <<>> /\ inbox' = [inbox EXCEPT ![c] = Tail(@)]
      /\ UNCHANGED <<aimed, undecided, period_id, target_superblock_number,
                     last_finalized_superblock_number>>
      /\ StartPeriod(c, msg.period, msg.target)
  BY Zenon DEF Deliver, pubVars
<1>3. IsState(s)
  BY <1>1, Assign, ZenonT(30)
<1>4. /\ sequencer' = [sequencer EXCEPT ![c] = s]
      /\ sequencer'[c] = s
  BY ZenonT(30), <1>1, <1>2 DEF StartPeriod, Shapes
<1>5. /\ s.period_id = msg.period
      /\ s.target_superblock_number = msg.target
      /\ s.pending_block = sequencer[c].pending_block
      /\ s.active_instance_id = sequencer[c].active_instance_id
  BY Zenon, <1>1 DEF IsState
<1>6. /\ msg = inbox[c][1] /\ MessageOK(c, 1)
      /\ \A k \in DOMAIN inbox'[c] : MessageOK(c, k)'
      /\ \A id : WillBeDecided(c, id, 0) => WillBeDecided(c, id, 0)'
  <2>1. inbox[c][1].type # "Decided" \/ msg # inbox[c][1]
    BY Zenon
  <2> QED BY <1>1, <1>2, <2>1, Taken, Zenon
<1>7. msg.period \in Nat /\ Announced(msg.period - 1, msg.target - 1)
  BY Zenon, <1>6 DEF MessageOK
<1>8. Announced(msg.period - 1, msg.target - 1)'
  BY <1>2, <1>7, Zenon DEF Announced
<1>9. SequencerOK(c)'
  BY <1>1, <1>4, <1>5, <1>7, <1>8, Zenon DEF SequencerOK, ChainOK
<1>10. ChainOK(c)'
  BY <1>1, <1>4, <1>5, <1>6, <1>9, ZenonT(30) DEF ChainOK
<1>11. /\ \A call \in settling' : call = [chain |-> call.chain, period |-> call.period,
                                            superblock |-> call.superblock,
                                            header |-> call.header, stage |-> call.stage]
       /\ SettlementsAsAnnounced'
  <2>1. CASE sequencer[c].pending_block = None
    <3>1. settling' = settling \cup {Settlement(c, msg.period - 1, msg.target - 1)}
          /\ UNCHANGED <<aimed, sent>>
      BY ZenonT(30), <2>1, <1>2 DEF StartPeriod
    <3> QED BY <3>1, <1>7, CallAdded, ZenonT(30)
  <2>2. CASE sequencer[c].pending_block # None
    <3>1. UNCHANGED <<settling, sent, aimed>>
      BY ZenonT(30), <2>2, <1>2 DEF StartPeriod
    <3>2. settling' \cup sent' \subseteq settling \cup sent /\ settling' \subseteq settling
      BY <3>1, Zenon
    <3> QED BY <3>1, <3>2, CallsKept, Zenon
  <2> QED BY Zenon, <2>1, <2>2
<1> QED
  BY <1>2, <1>3, <1>4, <1>10, <1>11, OneSequencer, Zenon DEF InboxStep

\* A step of one sequencer that starts and ends no settlement.
LEMMA NoSettlement ==
  ASSUME IndInv, NEW c \in Chain,
         UNCHANGED <<period_id, target_superblock_number,
                     last_finalized_superblock_number, aimed, undecided, settling, sent>>,
         NEW s, IsState(s), sequencer' = [sequencer EXCEPT ![c] = s],
         InboxStep(c),
         ChainOK(c)'
  PROVE  IndInv'
<1>1. settling' \cup sent' \subseteq settling \cup sent /\ settling' \subseteq settling
  BY Zenon
<1> QED
  BY <1>1, CallsKept, OneSequencer, Zenon

\* Deliver of a message the sequencer refuses
LEMMA DeliverRefused ==
  ASSUME IndInv, NEW c \in Chain, Deliver(c), UNCHANGED seqVars,
         ~(/\ Head(inbox[c]).type = "Decided"
           /\ Head(inbox[c]).id = sequencer[c].active_instance_id)
  PROVE  IndInv'
<1>1. Shapes /\ ChainOK(c) /\ IsState(sequencer[c])
  BY Groups, ZenonT(30) DEF Shapes, IsState
<1>2. /\ inbox[c] # <<>> /\ inbox' = [inbox EXCEPT ![c] = Tail(@)]
      /\ UNCHANGED <<aimed, undecided, period_id, target_superblock_number,
                     last_finalized_superblock_number, sequencer, settling, sent>>
  BY Zenon DEF Deliver, pubVars, seqVars
<1> PICK s : s = sequencer[c]
  BY Zenon
<1>3. sequencer' = [sequencer EXCEPT ![c] = s] /\ sequencer'[c] = s
  BY ZenonT(30), <1>1, <1>2 DEF Shapes
<1>4. /\ \A k \in DOMAIN inbox'[c] : MessageOK(c, k)'
      /\ WillBeDecided(c, s.active_instance_id, 0)
           => WillBeDecided(c, s.active_instance_id, 0)'
  BY <1>1, <1>2, Taken, Zenon
<1>5. SequencerOK(c)'
  BY <1>1, <1>2, Zenon DEF ChainOK, SequencerOK, Announced
<1>6. ChainOK(c)'
  BY <1>1, <1>3, <1>4, <1>5, Zenon DEF ChainOK
<1> QED
  BY <1>1, <1>2, <1>3, <1>6, NoSettlement, Zenon DEF InboxStep

\* Deliver of a StartInstance the sequencer takes: the lock is of the open block's
\* period, and the decision is behind the message.
LEMMA DeliverStartInstance ==
  ASSUME IndInv, NEW c \in Chain, Deliver(c), NEW msg, msg = Head(inbox[c]),
         msg.type = "StartInstance", OnStartInstance(c, msg.id, msg.period, msg.seq)
  PROVE  IndInv'
<1> PICK s : s = [[sequencer[c] EXCEPT !.last_sequence_number = msg.seq]
                    EXCEPT !.active_instance_id = msg.id]
  BY Zenon
<1>1. Shapes /\ ChainOK(c) /\ IsState(sequencer[c])
  BY Groups, ZenonT(30) DEF Shapes, IsState
<1>2. /\ inbox[c] # <<>> /\ inbox' = [inbox EXCEPT ![c] = Tail(@)]
      /\ UNCHANGED <<aimed, undecided, period_id, target_superblock_number,
                     last_finalized_superblock_number, settling, sent>>
  BY Zenon DEF Deliver, pubVars, OnStartInstance
<1>3. IsState(s)
  BY <1>1, Assign, Zenon
<1>4. /\ sequencer' = [sequencer EXCEPT ![c] = s]
      /\ sequencer'[c] = s
  BY Zenon, <1>1 DEF OnStartInstance, Shapes
<1>5. /\ s.period_id = sequencer[c].period_id
      /\ s.target_superblock_number = sequencer[c].target_superblock_number
      /\ s.pending_block = sequencer[c].pending_block
      /\ s.active_instance_id = msg.id
  BY ZenonT(30), <1>1 DEF IsState
<1>6. /\ msg = inbox[c][1] /\ MessageOK(c, 1)
      /\ \A k \in DOMAIN inbox'[c] : MessageOK(c, k)'
      /\ WillBeDecided(c, msg.id, 1) => WillBeDecided(c, msg.id, 0)'
  BY <1>1, <1>2, Taken, Zenon
<1>7. /\ msg.id[1] = msg.period
      /\ c \in Pub!chains_from_request(msg.id[3])
      /\ WillBeDecided(c, msg.id, 0)'
  BY <1>6, Zenon DEF MessageOK
<1>8. /\ sequencer[c].pending_block # None
      /\ sequencer[c].pending_block.period_id = msg.period
  BY Zenon DEF OnStartInstance, MayStartInstance
<1>9. SequencerOK(c)'
  BY <1>1, <1>2, <1>4, <1>5, <1>7, ZenonT(30) DEF ChainOK, SequencerOK, Announced
<1>10. /\ sequencer'[c].active_instance_id = msg.id
       /\ sequencer'[c].pending_block # None
       /\ sequencer'[c].pending_block.period_id = msg.id[1]
  BY <1>4, <1>5, <1>7, <1>8, ZenonT(30)
<1>11. WillBeDecided(c, sequencer[c].active_instance_id, 0)'
  BY <1>7, <1>10, Zenon
<1>12. ChainOK(c)'
  BY <1>6, <1>9, <1>10, <1>11, Zenon DEF ChainOK
<1> QED
  BY <1>2, <1>3, <1>4, <1>12, NoSettlement, Zenon DEF InboxStep

\* Deliver of the Decided of the instance that holds the lock, or of a Rollback: the
\* lock is free afterwards.
LEMMA DeliverUnlocks ==
  ASSUME IndInv, NEW c \in Chain, Deliver(c), UNCHANGED <<settling, sent>>,
         NEW s, IsState(s), sequencer' = [sequencer EXCEPT ![c] = s],
         s.active_instance_id = None, s.period_id \in Nat,
         \/ s.pending_block = None
         \/ /\ s.pending_block = sequencer[c].pending_block
            /\ s.period_id = sequencer[c].period_id
            /\ s.target_superblock_number = sequencer[c].target_superblock_number
  PROVE  IndInv'
<1>1. Shapes /\ ChainOK(c)
  BY Groups, ZenonT(30)
<1>2. /\ inbox[c] # <<>> /\ inbox' = [inbox EXCEPT ![c] = Tail(@)]
      /\ UNCHANGED <<aimed, undecided, period_id, target_superblock_number,
                     last_finalized_superblock_number, settling, sent>>
  BY ZenonT(30) DEF Deliver, pubVars
<1>3. sequencer'[c] = s
  BY ZenonT(30), <1>1 DEF Shapes
<1>4. \A k \in DOMAIN inbox'[c] : MessageOK(c, k)'
  BY <1>1, <1>2, Taken, Zenon
<1>5. SequencerOK(c)'
  BY <1>1, <1>2, <1>3, Zenon DEF ChainOK, SequencerOK, Announced
<1>6. ChainOK(c)'
  BY <1>3, <1>4, <1>5, Zenon DEF ChainOK
<1> QED
  BY <1>2, <1>6, NoSettlement, Zenon DEF InboxStep

LEMMA DeliverStep ==
  ASSUME IndInv, NEW c \in Chain, Deliver(c)
  PROVE  IndInv'
<1> PICK msg : msg = Head(inbox[c])
  BY Zenon
<1>1. Shapes /\ ChainOK(c) /\ IsState(sequencer[c])
  BY Groups, ZenonT(30) DEF Shapes, IsState
<1>2. /\ inbox[c] # <<>> /\ inbox' = [inbox EXCEPT ![c] = Tail(@)]
      /\ UNCHANGED <<aimed, undecided>>
  BY Zenon DEF Deliver, pubVars
<1>3. MessageOK(c, 1) /\ msg = inbox[c][1]
  BY <1>1, <1>2, Taken, Zenon
<1>4. CASE msg.type = "StartPeriod"
  BY <1>4, DeliverStartPeriod, Zenon
<1>5. CASE msg.type = "StartInstance"
  <2>1. OnStartInstance(c, msg.id, msg.period, msg.seq) \/ UNCHANGED seqVars
    BY Zenon, <1>5 DEF Deliver
  <2>2. msg.type # "Decided"
    BY Zenon, <1>5
  <2> QED BY <1>5, <2>1, <2>2, DeliverStartInstance, DeliverRefused, ZenonT(30)
<1>6. CASE msg.type = "Decided" /\ sequencer[c].active_instance_id # msg.id
  <2>1. UNCHANGED seqVars
    BY Zenon, <1>6 DEF Deliver
  <2> QED BY <1>6, <2>1, DeliverRefused, ZenonT(30)
<1>7. CASE msg.type = "Decided" /\ sequencer[c].active_instance_id = msg.id
  <2> PICK s : s = [sequencer[c] EXCEPT !.active_instance_id = None]
    BY ZenonT(30)
  <2>1. OnDecidedInstance(c, msg.id)
    BY Zenon, <1>7 DEF Deliver
  <2>2. sequencer' = [sequencer EXCEPT ![c] = s] /\ UNCHANGED <<settling, sent>>
    BY Zenon, <2>1, <1>1 DEF OnDecidedInstance, LockAfterDecision, Shapes
  <2>3. /\ s.period_id = sequencer[c].period_id
        /\ s.target_superblock_number = sequencer[c].target_superblock_number
        /\ s.pending_block = sequencer[c].pending_block
        /\ s.active_instance_id = None
    BY Zenon, <1>1 DEF IsState
  <2>4. IsState(s)
    BY <1>1, Assign, Zenon
  <2>5. s.period_id \in Nat
    BY <2>3, <1>1, Zenon DEF ChainOK, SequencerOK
  <2> QED BY <2>2, <2>3, <2>4, <2>5, DeliverUnlocks, Zenon
<1>8. CASE msg.type = "Rollback" /\ ~AtFinalized(c, msg.number, msg.hash)
  <2>1. UNCHANGED seqVars /\ msg.type # "Decided"
    BY Zenon, <1>8 DEF Deliver
  <2> QED BY <1>8, <2>1, DeliverRefused, ZenonT(30)
<1>9. CASE msg.type = "Rollback" /\ AtFinalized(c, msg.number, msg.hash)
  <2> DEFINE old == sequencer[c]
  <2> PICK s : s = [[[[[[old EXCEPT !.sealed_block_head = Retained(c)]
                      EXCEPT !.pending_block = None]
                      EXCEPT !.active_instance_id = None]
                      EXCEPT !.head = old.settled_state.block_header.number]
                      EXCEPT !.period_id = msg.period]
                      EXCEPT !.target_superblock_number =
                               old.settled_state.superblock_number + 1]
    BY Zenon
  <2>1. Rollback(c, msg.number, msg.hash, msg.period)
    BY Zenon, <1>9 DEF Deliver
  <2>2. sequencer' = [sequencer EXCEPT ![c] = s] /\ UNCHANGED <<settling, sent>>
    BY ZenonT(30), <2>1, <1>1 DEF Rollback, LockAfterRollback, Shapes
  <2>3. /\ s.period_id = msg.period
        /\ s.pending_block = None
        /\ s.active_instance_id = None
    BY Zenon, <1>1 DEF IsState
  <2>4. IsState(s)
    BY <1>1, Assign, ZenonT(30)
  <2>5. s.period_id \in Nat
    BY Zenon, <2>3, <1>3, <1>9 DEF MessageOK
  <2> QED BY <2>2, <2>3, <2>4, <2>5, DeliverUnlocks, Zenon
<1>10. msg.type \in {"StartPeriod", "StartInstance", "Decided", "Rollback"}
  BY Zenon DEF Deliver
<1> QED
  BY <1>4, <1>5, <1>6, <1>7, <1>8, <1>9, <1>10, ZenonT(30)

LEMMA BeginBlockStep ==
  ASSUME IndInv, NEW c \in Chain, NEW n, BeginBlock(c, n),
         UNCHANGED <<pubVars, inbox, ghosts>>
  PROVE  IndInv'
<1> PICK b : b = PendingBlock(c, n)
  BY Zenon
<1> PICK s : s = [sequencer[c] EXCEPT !.pending_block = b]
  BY Zenon
<1>1. Shapes /\ ChainOK(c) /\ IsState(sequencer[c])
  BY Groups, Zenon DEF Shapes, IsState
<1>2. UNCHANGED <<aimed, undecided, period_id, target_superblock_number,
                  last_finalized_superblock_number, inbox, settling, sent>>
  BY Zenon DEF pubVars, ghosts, BeginBlock
<1>3. IsState(s)
  BY <1>1, Assign, Zenon
<1>4. sequencer' = [sequencer EXCEPT ![c] = s] /\ sequencer'[c] = s
  BY Zenon, <1>1 DEF BeginBlock, Shapes
<1>5. sequencer[c].active_instance_id = None /\ sequencer[c].period_id \in Nat
  BY <1>1, Zenon DEF BeginBlock, ChainOK, SequencerOK
<1>6. /\ s.period_id = sequencer[c].period_id
      /\ s.pending_block.period_id = sequencer[c].period_id
      /\ s.active_instance_id = None
  BY ZenonT(30), <1>1, <1>5 DEF IsState, PendingBlock
<1>7. ~(s.pending_block.period_id < s.period_id)
  BY <1>5, <1>6
<1>8. ChainOK(c)'
  <2>1. \A k \in DOMAIN inbox'[c] : MessageOK(c, k)'
    BY <1>1, <1>2, NotTaken, Zenon
  <2>2. SequencerOK(c)'
    BY <1>4, <1>5, <1>6, <1>7, Zenon DEF SequencerOK
  <2> QED BY <2>1, <2>2, <1>4, <1>6, Zenon DEF ChainOK
<1>9. InboxStep(c)
  BY <1>2, Zenon DEF InboxStep
<1> QED
  BY <1>2, <1>3, <1>4, <1>8, <1>9, NoSettlement, Zenon

\* end_block: if the block's period has ended, the current period and target are
\* those of a StartPeriod, and the pair before them was announced.
LEMMA EndBlockStep ==
  ASSUME IndInv, NEW c \in Chain, NEW b, EndBlock(c, b),
         UNCHANGED <<pubVars, inbox, ghosts>>
  PROVE  IndInv'
<1> DEFINE old == sequencer[c]
           sealed == Insert(old.sealed_block_head, old.pending_block.period_id,
                            SealedBlockHeader(c, b))
<1> PICK s : s = [[[old EXCEPT !.sealed_block_head = sealed]
                        EXCEPT !.pending_block = None]
                        EXCEPT !.head = b.number]
  BY ZenonT(30)
<1>1. Shapes /\ ChainOK(c) /\ IsState(sequencer[c])
  BY Groups, Zenon DEF Shapes, IsState
<1>2. UNCHANGED <<aimed, undecided, period_id, target_superblock_number,
                  last_finalized_superblock_number, inbox, sent>>
  BY Zenon DEF pubVars, ghosts, EndBlock
<1>3. IsState(s)
  BY <1>1, Assign, Zenon
<1>4. sequencer' = [sequencer EXCEPT ![c] = s] /\ sequencer'[c] = s
  BY ZenonT(30), <1>1 DEF EndBlock, Shapes
<1>5. /\ s.period_id = old.period_id
      /\ s.pending_block = None
      /\ s.active_instance_id = None
  BY ZenonT(30), <1>1 DEF IsState, EndBlock
<1>6. ChainOK(c)'
  <2>1. \A k \in DOMAIN inbox'[c] : MessageOK(c, k)'
    BY <1>1, <1>2, NotTaken, Zenon
  <2>2. SequencerOK(c)'
    BY <1>1, <1>4, <1>5, Zenon DEF SequencerOK, ChainOK
  <2> QED BY <2>1, <2>2, <1>4, <1>5, Zenon DEF ChainOK
<1>7. /\ \A call \in settling' : call = [chain |-> call.chain, period |-> call.period,
                                           superblock |-> call.superblock,
                                           header |-> call.header, stage |-> call.stage]
      /\ SettlementsAsAnnounced'
  <2>1. CASE old.pending_block.period_id < old.period_id
    <3>1. settling' = settling \cup {Settlement(c, old.period_id - 1,
                                                old.target_superblock_number - 1)}
      BY ZenonT(30), <2>1 DEF EndBlock, SettlementSuperblock
    <3>2. Announced(old.period_id - 1, old.target_superblock_number - 1)
      BY <2>1, <1>1, Zenon DEF EndBlock, ChainOK, SequencerOK
    <3> QED BY <3>1, <3>2, <1>2, CallAdded, Zenon
  <2>2. CASE ~(old.pending_block.period_id < old.period_id)
    <3>1. settling' = settling
      BY Zenon, <2>2 DEF EndBlock
    <3>2. settling' \cup sent' \subseteq settling \cup sent /\ settling' \subseteq settling
      BY <3>1, <1>2, Zenon
    <3> QED BY <3>2, <1>2, CallsKept, Zenon
  <2> QED BY ZenonT(30), <2>1, <2>2
<1>8. InboxStep(c)
  BY <1>2, Zenon DEF InboxStep
<1> QED
  BY <1>2, <1>3, <1>4, <1>6, <1>7, <1>8, OneSequencer, ZenonT(30)

LEMMA SequencerSeesL1Step ==
  ASSUME IndInv, NEW c \in Chain, NEW n, SequencerSeesL1(c, n)
  PROVE  IndInv'
<1> PICK settled : settled = [block_header |-> SettledHeader(c, n), superblock_number |-> n,
                              superblock_hash |-> Pub!SettledHash(n)]
  BY Zenon
<1> PICK s : s = [sequencer[c] EXCEPT !.settled_state = settled]
  BY Zenon
<1>1. Shapes /\ ChainOK(c) /\ IsState(sequencer[c])
  BY Groups, Zenon DEF Shapes, IsState
<1>2. UNCHANGED <<aimed, undecided, period_id, target_superblock_number,
                  last_finalized_superblock_number, inbox, settling, sent>>
  BY Zenon DEF pubVars, ghosts, SequencerSeesL1, AdvanceSettledState
<1>3. IsState(s)
  BY <1>1, Assign, Zenon
<1>4. sequencer' = [sequencer EXCEPT ![c] = s] /\ sequencer'[c] = s
  BY Zenon, <1>1 DEF SequencerSeesL1, AdvanceSettledState, Shapes
<1>5. /\ s.period_id = sequencer[c].period_id
      /\ s.target_superblock_number = sequencer[c].target_superblock_number
      /\ s.pending_block = sequencer[c].pending_block
      /\ s.active_instance_id = sequencer[c].active_instance_id
  BY Zenon, <1>1 DEF IsState
<1>6. /\ \A k \in DOMAIN inbox'[c] : MessageOK(c, k)'
      /\ \A id : WillBeDecided(c, id, 0) => WillBeDecided(c, id, 0)'
  BY <1>1, <1>2, NotTaken, Zenon
<1>7. SequencerOK(c)'
  BY <1>1, <1>2, <1>4, <1>5, Zenon DEF ChainOK, SequencerOK, Announced
<1>8. ChainOK(c)'
  BY <1>1, <1>4, <1>5, <1>6, <1>7, ZenonT(30) DEF ChainOK
<1>9. InboxStep(c)
  BY <1>2, Zenon DEF InboxStep
<1> QED
  BY <1>2, <1>3, <1>4, <1>8, <1>9, NoSettlement, ZenonT(30)

\* start_settlement's steps leave the pair of a call as it is.
LEMMA SettleStep ==
  ASSUME IndInv, NEW call \in settling, Settle(call)
  PROVE  IndInv'
<1>1. Shapes /\ SettlementsAsAnnounced /\ PublisherNumbers /\ \A c \in Chain : ChainOK(c)
  BY Groups, Zenon
<1>2. UNCHANGED <<sequencer, inbox, aimed, undecided, period_id, target_superblock_number,
                  last_finalized_superblock_number>>
  BY Zenon DEF Settle, pubVars, ghosts, ReadHeader, SendProof, SettlementFails
<1> PICK header : header = IF call.period \in DOMAIN sequencer[call.chain].sealed_block_head
                           THEN sequencer[call.chain].sealed_block_head[call.period].block_header
                           ELSE None
  BY Zenon
<1> PICK next : next = [call EXCEPT !.stage = "proving", !.header = header]
  BY Zenon
<1> PICK proof : proof = [chain |-> call.chain, period |-> call.period,
                          superblock |-> call.superblock, header |-> call.header]
  BY Zenon
<1>3. /\ next = [chain |-> next.chain, period |-> next.period, superblock |-> next.superblock,
                 header |-> next.header, stage |-> next.stage]
      /\ next.period = call.period /\ next.superblock = call.superblock
  <2>1. call = [chain |-> call.chain, period |-> call.period, superblock |-> call.superblock,
                header |-> call.header, stage |-> call.stage]
    BY <1>1, Zenon DEF Shapes
  <2> QED BY ZenonT(30), <2>1
<1>4. proof.period = call.period /\ proof.superblock = call.superblock
  BY Zenon
<1>5. settling' \subseteq settling \cup {next} /\ sent' \subseteq sent \cup {proof}
  BY Zenon DEF Settle, ReadHeader, SendProof, SettlementFails
<1>6. SettlementsAsAnnounced'
  <2>1. /\ \A d \in settling \cup sent : Announced(d.period, d.superblock)
        /\ call \in settling \cup sent
    BY <1>1, Zenon DEF SettlementsAsAnnounced, Announced
  <2>2. \A d \in settling' \cup sent' : d \in settling \cup sent \/ d = next \/ d = proof
    BY <1>5, Zenon
  <2>3. \A d \in settling' \cup sent' : Announced(d.period, d.superblock)
    BY <2>1, <2>2, <1>3, <1>4, Zenon
  <2> QED BY <2>3, <1>2, Zenon DEF SettlementsAsAnnounced, Announced
<1>7. Shapes'
  BY <1>1, <1>2, <1>3, <1>5, Zenon DEF Shapes
<1>8. PublisherNumbers' /\ AimedKept
  BY <1>1, <1>2, Zenon DEF PublisherNumbers, AimedKept
<1>9. ASSUME NEW c \in Chain PROVE ChainOK(c)'
  <2>1. /\ ChainOK(c) /\ sequencer'[c] = sequencer[c] /\ inbox'[c] = inbox[c]
        /\ \A i \in undecided : i \in undecided'
    BY <1>1, <1>2, Zenon
  <2> QED BY <2>1, <1>8, NothingSent, Zenon
<1> QED
  BY <1>6, <1>7, <1>8, <1>9, GroupsNext, ZenonT(30)

--------------------------------------------------------------------------------
LEMMA StepInvariant == IndInv /\ [Next]_vars => IndInv'
<1> SUFFICES ASSUME IndInv, [Next]_vars PROVE IndInv'
  BY Zenon
<1>1. CASE PublisherNext
  BY ZenonT(30), <1>1, PublisherInvariant
<1>2. ASSUME NEW c \in Chain, BuildBlock(c) PROVE IndInv'
  BY <1>2, BeginBlockStep, EndBlockStep, Zenon DEF BuildBlock
<1>3. CASE \E call \in settling : Settle(call)
  BY <1>3, SettleStep, Zenon
<1>4. CASE \E n \in (InitFinalized + 1)..Pub!LatestNumber, c \in Chain : SequencerSeesL1(c, n)
  BY <1>4, SequencerSeesL1Step, Zenon
<1>5. CASE UNCHANGED vars
  <2>1. UNCHANGED <<seqVars, inbox, aimed, undecided, period_id, target_superblock_number,
                    last_finalized_superblock_number>>
    BY Zenon, <1>5 DEF vars, pubVars, ghosts
  <2>2. PublisherNumbers'
    BY <2>1, Groups, Zenon DEF PublisherNumbers
  <2> QED BY <2>1, <2>2, SilentStep, ZenonT(30)
<1>6. CASE Next
  BY <1>6, <1>1, <1>2, <1>3, <1>4, DeliverStep, ZenonT(30) DEF Next, PublisherNext
<1> QED
  BY Zenon, <1>5, <1>6

\* The invariant holds in every reachable state of the composed protocol.
THEOREM Invariance == Spec => []IndInv
<1> QED
  BY InitInvariant, StepInvariant, PTL DEF Spec

\* on_start_instance takes the lock only inside an open block of the instance's
\* period, and no other call lets the block go while it is held.
THEOREM LockSafety == Spec => []LockedInOwnBlock
<1>1. IndInv => LockedInOwnBlock
  BY Zenon DEF IndInv
<1> QED
  BY <1>1, Invariance, PTL

\* The instance that on_start_instance gave the lock to is undecided, or the Decided
\* that makes on_decided_instance release it is on its way.
THEOREM LockReleaseSafety == Spec => []LockReleasable
<1>1. IndInv => LockReleasable
  BY Zenon DEF IndInv
<1> QED
  BY <1>1, Invariance, PTL

\* Whatever start_period, end_block, rollbacks and refused rollbacks do, a settlement
\* of a period is of the superblock that the publisher was at when it ended.
THEOREM SettlementSafety == Spec => []SettlementsAsAnnounced
<1>1. IndInv => SettlementsAsAnnounced
  BY Zenon DEF IndInv
<1> QED
  BY <1>1, Invariance, PTL

--------------------------------------------------------------------------------
\* How the settings change when a message is sent or taken

LEMMA Positions ==
  ASSUME NEW c \in Chain, Shapes
  PROVE  /\ inbox[c] \in Seq(Range(inbox[c]))
         /\ Len(inbox[c]) \in Nat
         /\ DOMAIN inbox[c] = 1..Len(inbox[c])
         /\ Settings(c) \subseteq 0..Len(inbox[c])
<1>1. inbox[c] \in Seq(Range(inbox[c]))
  BY Zenon DEF Shapes
<1>2. Len(inbox[c]) \in Nat /\ DOMAIN inbox[c] = 1..Len(inbox[c])
  BY <1>1
<1> QED
  BY <1>1, <1>2 DEF Settings, InFlight

\* How the settings look when a message is sent as the last one
SentLast(c, msg, last) ==
  /\ last \in Nat \ {0}
  /\ Len(inbox'[c]) = last
  /\ DOMAIN inbox[c] = 1..(last - 1)
  /\ DOMAIN inbox'[c] = 1..last
  /\ \A k \in DOMAIN inbox[c] : inbox'[c][k] = inbox[c][k]
  /\ inbox'[c][last] = msg
  /\ \A types : /\ InFlight(c, types) \subseteq InFlight(c, types)'
                /\ InFlight(c, types)' \subseteq InFlight(c, types) \cup {last}
                /\ last \in InFlight(c, types)' <=> msg.type \in types
  /\ Settings(c) \subseteq 0..(last - 1)
  /\ IsControl(msg) => Settings(c)' = Settings(c) \cup {last}
  /\ ~IsControl(msg) => Settings(c)' = Settings(c)
  /\ \A j, k \in 0..last : InForce(c, j, k)' => InForce(c, j, k)
  /\ \A j \in 0..last : InForce(c, j, last + 1)' =>
       /\ IsControl(msg) => j = last
       /\ ~IsControl(msg) => InForce(c, j, last)

\* A message is sent: it comes last, and is in force at once if it is a control.
LEMMA SettingsSent ==
  ASSUME NEW c \in Chain, Shapes, NEW msg, inbox'[c] = Append(inbox[c], msg),
         NEW last, last = Len(inbox[c]) + 1
  PROVE  SentLast(c, msg, last)
<1>1. /\ Len(inbox[c]) \in Nat
      /\ DOMAIN inbox[c] = 1..Len(inbox[c])
      /\ Settings(c) \subseteq 0..Len(inbox[c])
      /\ inbox[c] \in Seq(Range(inbox[c]))
  BY Positions, Zenon
<1>2. /\ DOMAIN inbox'[c] = DOMAIN inbox[c] \cup {last}
      /\ \A k \in DOMAIN inbox[c] : inbox'[c][k] = inbox[c][k]
      /\ inbox'[c][last] = msg
      /\ inbox'[c] \in Seq(Range(inbox'[c]))
  BY <1>1, AppendQueue
<1>3. /\ last \in Nat \ {0}
      /\ DOMAIN inbox[c] = 1..(last - 1)
      /\ DOMAIN inbox'[c] = 1..last
      /\ Len(inbox'[c]) = last
      /\ last \notin DOMAIN inbox[c]
  BY <1>1, <1>2
<1>4. ASSUME NEW types
      PROVE  /\ InFlight(c, types) \subseteq InFlight(c, types)'
             /\ InFlight(c, types)' \subseteq InFlight(c, types) \cup {last}
             /\ last \in InFlight(c, types)' <=> msg.type \in types
  BY <1>2, <1>3, Zenon DEF InFlight
<1>5. /\ IsControl(msg) => Settings(c)' = Settings(c) \cup {last}
      /\ ~IsControl(msg) => Settings(c)' = Settings(c)
  BY <1>4, Zenon DEF Settings, IsControl
<1>6. Settings(c) \subseteq 0..(last - 1)
  BY <1>1
<1>7. ASSUME NEW j \in 0..last, NEW k \in 0..last, InForce(c, j, k)'
      PROVE  InForce(c, j, k)
  BY SMTT(30), <1>3, <1>5, <1>6, <1>7 DEF InForce
<1>8. ASSUME NEW j \in 0..last, InForce(c, j, last + 1)'
      PROVE  /\ IsControl(msg) => j = last
             /\ ~IsControl(msg) => InForce(c, j, last)
  BY <1>3, <1>5, <1>6, <1>8 DEF InForce
<1> QED
  BY <1>2, <1>3, <1>4, <1>5, <1>6, <1>7, <1>8, ZenonT(30) DEF SentLast

\* The setting before the oldest message was taken that became setting j
Before(msg, j) == IF j = 0 /\ ~IsControl(msg) THEN 0 ELSE j + 1

\* How the settings look when the oldest message is taken
TakenFirst(c, msg) ==
  /\ msg = inbox[c][1] /\ 1 \in DOMAIN inbox[c]
  /\ Len(inbox[c]) \in Nat \ {0}
  /\ Len(inbox'[c]) = Len(inbox[c]) - 1
  /\ \A k \in DOMAIN inbox'[c] : /\ k \in Nat \ {0} /\ k + 1 \in DOMAIN inbox[c]
                                 /\ inbox'[c][k] = inbox[c][k + 1]
  /\ \A types : \A k \in InFlight(c, types)' :
       k \in Nat \ {0} /\ k + 1 \in InFlight(c, types)
  /\ \A types : \A k \in InFlight(c, types) :
       k \in Nat \ {0} /\ (k # 1 => k - 1 \in InFlight(c, types)')
  /\ 0 \in Settings(c) /\ InForce(c, 0, 1)
  /\ \A j \in Settings(c)' : j \in Nat /\ Before(msg, j) \in Settings(c)
  /\ \A j \in Settings(c)', k \in Nat :
       InForce(c, j, k)' => InForce(c, Before(msg, j), k + 1)

\* The oldest message is taken: the others move up by one, and if it is a control it
\* becomes the sequencer's setting.
LEMMA SettingsTaken ==
  ASSUME NEW c \in Chain, Shapes, inbox[c] # <<>>, inbox'[c] = Tail(inbox[c]),
         NEW msg, msg = Head(inbox[c])
  PROVE  TakenFirst(c, msg)
<1>1. /\ inbox[c] \in Seq(Range(inbox[c]))
      /\ Len(inbox[c]) \in Nat
      /\ DOMAIN inbox[c] = 1..Len(inbox[c])
      /\ Settings(c) \subseteq 0..Len(inbox[c])
  BY Positions, Zenon
<1>2. /\ Len(inbox[c]) \in Nat \ {0}
      /\ DOMAIN inbox'[c] = 1..(Len(inbox[c]) - 1)
      /\ \A k \in DOMAIN inbox'[c] : inbox'[c][k] = inbox[c][k + 1]
      /\ msg = inbox[c][1]
      /\ inbox'[c] \in Seq(Range(inbox'[c]))
  BY ZenonT(30), <1>1, TailQueue
<1>3. /\ Len(inbox'[c]) = Len(inbox[c]) - 1
      /\ 1 \in DOMAIN inbox[c]
      /\ \A k \in DOMAIN inbox'[c] : k \in Nat \ {0} /\ k + 1 \in DOMAIN inbox[c]
      /\ \A k \in DOMAIN inbox[c] : k # 1 =>
           k \in Nat \ {0} /\ k - 1 \in DOMAIN inbox'[c] /\ inbox'[c][k - 1] = inbox[c][k]
  BY SMTT(30), <1>1, <1>2
<1>4. ASSUME NEW types, NEW k \in InFlight(c, types)'
      PROVE  k \in Nat \ {0} /\ k + 1 \in InFlight(c, types)
  BY ZenonT(30), <1>2, <1>3, <1>4 DEF InFlight
<1>5. ASSUME NEW types, NEW k \in InFlight(c, types)
      PROVE  k \in Nat \ {0} /\ (k # 1 => k - 1 \in InFlight(c, types)')
  BY <1>1, <1>2, <1>3, <1>5 DEF InFlight
<1>6. 0 \in Settings(c) /\ InForce(c, 0, 1)
  BY <1>1 DEF Settings, InForce
<1>7. ASSUME NEW j \in Settings(c)'
      PROVE  j \in Nat /\ Before(msg, j) \in Settings(c)
  <2>1. CASE j = 0
    BY <2>1, <1>2, <1>3 DEF Before, Settings, InFlight, IsControl
  <2>2. CASE j # 0
    BY Zenon, <2>2, <1>4, <1>7 DEF Before, Settings
  <2> QED BY Zenon, <2>1, <2>2
<1>8. ASSUME NEW j \in Settings(c)', NEW k \in Nat, InForce(c, j, k)'
      PROVE  InForce(c, Before(msg, j), k + 1)
  <2>1. /\ j \in Nat /\ Before(msg, j) \in Settings(c) /\ j < k
        /\ Before(msg, j) \in {j, j + 1}
        /\ Before(msg, j) = j => j = 0 /\ ~IsControl(msg)
    BY <1>7, <1>8 DEF InForce, Before
  <2>2. ASSUME NEW i \in Settings(c) PROVE i <= Before(msg, j) \/ k + 1 <= i
    <3>1. CASE i \in {0, 1}
      <4>1. i = 1 => IsControl(msg)
        BY <1>2, <3>1 DEF Settings, InFlight, IsControl
      <4> QED BY SMTT(30), <3>1, <4>1, <2>1
    <3>2. CASE i \notin {0, 1}
      <4>1. i - 1 \in Settings(c)' /\ i \in Nat
        BY Zenon, <3>2, <1>5 DEF Settings
      <4>2. i - 1 <= j \/ k <= i - 1
        BY Zenon, <4>1, <1>8 DEF InForce
      <4> QED BY <4>1, <4>2, <2>1, <3>2
    <3> QED BY ZenonT(30), <3>1, <3>2
  <2> QED BY <2>1, <2>2 DEF InForce
<1> QED
  BY <1>2, <1>3, <1>4, <1>5, <1>6, <1>7, <1>8, ZenonT(30) DEF TakenFirst

--------------------------------------------------------------------------------
\* What sending and taking a message does to the order

\* A step that leaves what the order is about as it was.
LEMMA OrderKept ==
  ASSUME NEW c \in Chain, OrderOK(c), inbox'[c] = inbox[c], started'[c] = started[c],
         sequencer'[c].period_id = sequencer[c].period_id,
         sequencer'[c].target_superblock_number = sequencer[c].target_superblock_number,
         sequencer'[c].last_sequence_number = sequencer[c].last_sequence_number,
         UNCHANGED <<period_id, target_superblock_number>>,
         c \in refused => c \in refused'
  PROVE  OrderOK(c)'
<1>1. \A types : InFlight(c, types)' = InFlight(c, types)
  BY Zenon DEF InFlight
<1>2. /\ Settings(c)' = Settings(c)
      /\ \A k : PeriodAt(c, k)' = PeriodAt(c, k) /\ TargetAt(c, k)' = TargetAt(c, k)
  BY <1>1, Zenon DEF Settings, PeriodAt, TargetAt
<1>3. \A j, k : InForce(c, j, k)' <=> InForce(c, j, k)
  BY <1>2, Zenon DEF InForce
<1>4. \A k : NoRollbackBehind(c, k)' <=> NoRollbackBehind(c, k)
  BY <1>1, ZenonT(30) DEF NoRollbackBehind
<1>5. PeriodsFollow(c)'
  BY <1>2, <1>3 DEF OrderOK, PeriodsFollow
<1>6. InstancesFollow(c)'
  BY <1>1, ZenonT(30) DEF OrderOK, InstancesFollow
<1>7. c \notin refused' => TargetsFollow(c)'
  BY SMTT(30), <1>1, <1>2, <1>3, <1>4 DEF OrderOK, TargetsFollow
<1> QED
  BY <1>5, <1>6, <1>7, Zenon DEF OrderOK

\* The publisher's numbers after it sent the message
SentWith(msg) ==
  \/ /\ msg.type = "StartPeriod"
     /\ period_id' = period_id + 1 /\ msg.period = period_id'
     /\ target_superblock_number' = target_superblock_number + 1
     /\ msg.target = target_superblock_number'
  \/ /\ msg.type = "Rollback"
     /\ period_id' = period_id /\ msg.period = period_id
     /\ msg.number \in Int
     /\ target_superblock_number' = msg.number + 1
  \/ /\ ~IsControl(msg)
     /\ UNCHANGED <<period_id, target_superblock_number>>
     /\ msg.type = "StartInstance" =>
          msg.period = period_id /\ msg.seq \in Nat /\ msg.id[2] = msg.seq

\* A broadcast.
LEMMA OrderSent ==
  ASSUME NEW c \in Chain, Shapes, PublisherNumbers, OrderOK(c),
         sequencer'[c] = sequencer[c], started'[c] = started[c], refused' = refused,
         NEW msg, inbox'[c] = Append(inbox[c], msg), SentWith(msg)
  PROVE  OrderOK(c)'
<1> PICK last : last = Len(inbox[c]) + 1
  BY ZenonT(30)
<1> SentLast(c, msg, last)
  BY SettingsSent, Zenon
<1>1. /\ last \in Nat \ {0}
      /\ Len(inbox'[c]) = last
      /\ DOMAIN inbox[c] = 1..(last - 1)
      /\ DOMAIN inbox'[c] = 1..last
      /\ \A k \in DOMAIN inbox[c] : inbox'[c][k] = inbox[c][k]
      /\ inbox'[c][last] = msg
      /\ \A types : /\ InFlight(c, types) \subseteq InFlight(c, types)'
                    /\ InFlight(c, types)' \subseteq InFlight(c, types) \cup {last}
                    /\ last \in InFlight(c, types)' <=> msg.type \in types
      /\ Settings(c) \subseteq 0..(last - 1)
      /\ IsControl(msg) => Settings(c)' = Settings(c) \cup {last}
      /\ ~IsControl(msg) => Settings(c)' = Settings(c)
      /\ \A j, k \in 0..last : InForce(c, j, k)' => InForce(c, j, k)
      /\ \A j \in 0..last : InForce(c, j, last + 1)' =>
           /\ IsControl(msg) => j = last
           /\ ~IsControl(msg) => InForce(c, j, last)
  BY Zenon DEF SentLast
<1>2. /\ period_id \in Nat /\ target_superblock_number \in Int
      /\ period_id' \in Nat /\ target_superblock_number' \in Int
      /\ period_id <= period_id'
  BY DEF PublisherNumbers, SentWith
<1>3. \A k \in Settings(c) : PeriodAt(c, k)' = PeriodAt(c, k)
                             /\ TargetAt(c, k)' = TargetAt(c, k)
  <2>1. \A k \in Settings(c) : k # 0 => k \in DOMAIN inbox[c]
    BY ZenonT(30) DEF Settings, InFlight
  <2> QED BY <2>1, <1>1, Zenon DEF PeriodAt, TargetAt
<1>4. ASSUME IsControl(msg)
      PROVE  /\ PeriodAt(c, last)' = period_id'
             /\ TargetAt(c, last)' = target_superblock_number'
  <2>1. PeriodAt(c, last)' = msg.period
    BY ZenonT(30), <1>1 DEF PeriodAt
  <2>2. TargetAt(c, last)' = IF msg.type = "StartPeriod" THEN msg.target ELSE msg.number + 1
    BY ZenonT(30), <1>1 DEF TargetAt
  <2> QED BY ZenonT(30), <1>4, <2>1, <2>2 DEF SentWith, IsControl
<1>5. /\ \A k \in Settings(c) :
           /\ PeriodAt(c, k) \in Int /\ TargetAt(c, k) \in Int
           /\ PeriodAt(c, k) <= period_id
           /\ \A j \in Settings(c) : j <= k => PeriodAt(c, j) <= PeriodAt(c, k)
      /\ \A j \in Settings(c) : InForce(c, j, last) => PeriodAt(c, j) = period_id
  BY ZenonT(30) DEF OrderOK, PeriodsFollow
<1>6. \A k \in Settings(c)' :
        /\ PeriodAt(c, k)' \in Int /\ TargetAt(c, k)' \in Int
        /\ PeriodAt(c, k)' <= period_id'
        /\ \A j \in Settings(c)' : j <= k => PeriodAt(c, j)' <= PeriodAt(c, k)'
  <2>1. ASSUME NEW k \in Settings(c)'
        PROVE  /\ k \in Settings(c) \/ (IsControl(msg) /\ k = last)
               /\ PeriodAt(c, k)' \in Int /\ TargetAt(c, k)' \in Int
               /\ PeriodAt(c, k)' <= period_id'
    BY SMTT(20), <2>1, <1>1, <1>2, <1>3, <1>4, <1>5
  <2>2. ASSUME NEW k \in Settings(c)', NEW j \in Settings(c)', j <= k
        PROVE  PeriodAt(c, j)' <= PeriodAt(c, k)'
    <3>1. CASE k \in Settings(c)
      <4>1. j \in Settings(c)
        BY SMTT(20), <2>1, <2>2, <3>1, <1>1
      <4> QED BY Zenon, <3>1, <4>1, <2>2, <1>3, <1>5
    <3>2. CASE IsControl(msg) /\ k = last
      BY Zenon, <2>1, <3>2, <1>4, <1>2
    <3> QED BY Zenon, <2>1, <3>1, <3>2
  <2> QED BY ZenonT(30), <2>1, <2>2
<1>7. ASSUME NEW k \in DOMAIN inbox'[c], NEW j \in Settings(c)', InForce(c, j, k)'
      PROVE  /\ inbox'[c][k].type = "StartPeriod" =>
                  inbox'[c][k].period = PeriodAt(c, j)' + 1
             /\ inbox'[c][k].type \in {"Rollback", "StartInstance"} =>
                  inbox'[c][k].period = PeriodAt(c, j)'
  <2>1. j \in Settings(c) /\ InForce(c, j, k)
    <3>1. j \in 0..last /\ k \in 0..last
      BY <1>1
    <3>2. InForce(c, j, k)
      BY Zenon, <3>1, <1>1, <1>7
    <3> QED BY Zenon, <3>2 DEF InForce
  <2>2. CASE k \in DOMAIN inbox[c]
    BY SMTT(20), <2>1, <2>2, <1>1, <1>3 DEF OrderOK, PeriodsFollow
  <2>3. CASE k = last
    <3>1. PeriodAt(c, j)' = period_id
      BY ZenonT(30), <2>1, <2>3, <1>3, <1>5
    <3> QED BY Zenon, <3>1, <2>3, <1>1 DEF SentWith, IsControl
  <2> QED BY SMTT(20), <2>2, <2>3, <1>1
<1>8. ASSUME NEW j \in Settings(c)', InForce(c, j, Len(inbox[c]) + 1)'
      PROVE  PeriodAt(c, j)' = period_id'
  <2>1. j \in 0..last /\ InForce(c, j, last + 1)'
    BY SMTT(20), <1>1, <1>8
  <2>2. CASE IsControl(msg)
    BY Zenon, <2>1, <2>2, <1>1, <1>4
  <2>3. CASE ~IsControl(msg)
    BY SMTT(20), <2>1, <2>3, <1>1, <1>3, <1>5 DEF SentWith, IsControl
  <2> QED BY ZenonT(30), <2>2, <2>3
<1>9. PeriodsFollow(c)'
  BY Zenon, <1>6, <1>7, <1>8 DEF PeriodsFollow
<1>10. InstancesFollow(c)'
  <2>1. ASSUME NEW k \in InFlight(c, {"StartInstance"})'
        PROVE  inbox'[c][k].seq \in Nat /\ inbox'[c][k].id[2] = inbox'[c][k].seq
    <3>1. CASE k \in InFlight(c, {"StartInstance"})
      <4>1. inbox'[c][k] = inbox[c][k]
        BY <3>1, <1>1, Zenon DEF InFlight
      <4> QED BY <3>1, <4>1, Zenon DEF OrderOK, InstancesFollow
    <3>2. CASE k = last /\ msg.type = "StartInstance"
      BY Zenon, <3>2, <1>1 DEF SentWith
    <3> QED BY ZenonT(60), <2>1, <3>1, <3>2, <1>1
  <2> QED BY <2>1, ZenonT(30) DEF OrderOK, InstancesFollow
<1>11. ASSUME c \notin refused' PROVE TargetsFollow(c)'
  <2>1. TargetsFollow(c)
    BY <1>11, ZenonT(30) DEF OrderOK
  <2>2. ASSUME NEW k \in InFlight(c, {"StartPeriod"})', NEW j \in Settings(c)',
               InForce(c, j, k)'
        PROVE  inbox'[c][k].target = TargetAt(c, j)' + 1
    <3>1. k \in DOMAIN inbox'[c]
      BY <2>2, Zenon DEF InFlight
    <3>2. j \in Settings(c) /\ InForce(c, j, k)
      <4>1. j \in 0..last /\ k \in 0..last
        BY SMTT(20), <3>1, <1>1
      <4>2. InForce(c, j, k)
        BY Zenon, <4>1, <1>1, <2>2
      <4> QED BY ZenonT(30), <4>2 DEF InForce
    <3>3. CASE k \in InFlight(c, {"StartPeriod"})
      <4>1. inbox'[c][k] = inbox[c][k]
        BY <3>3, <1>1, ZenonT(30) DEF InFlight
      <4> QED BY <3>2, <3>3, <4>1, <2>1, <1>3, ZenonT(30) DEF TargetsFollow
    <3>4. CASE k = last /\ msg.type = "StartPeriod"
      <4>1. PeriodAt(c, j) = period_id
        BY ZenonT(30), <3>2, <3>4, <1>5
      <4>2. NoRollbackBehind(c, j)
        <5>1. InFlight(c, {"Rollback"}) \subseteq Settings(c)
          BY Zenon DEF Settings, InFlight
        <5> QED BY SMTT(20), <5>1, <3>2, <3>4, <1>1 DEF InForce, NoRollbackBehind
      <4>3. TargetAt(c, j) - PeriodAt(c, j) = target_superblock_number - period_id
        BY <3>2, <4>2, <2>1, ZenonT(30) DEF TargetsFollow
      <4>4. TargetAt(c, j) = target_superblock_number
        BY SMTT(20), <4>1, <4>3, <3>2, <1>2, <1>5
      <4> QED BY ZenonT(30), <3>2, <3>4, <4>4, <1>1, <1>3 DEF SentWith, IsControl
    <3> QED BY ZenonT(30), <2>2, <3>3, <3>4, <1>1
  <2>3. ASSUME NEW k \in Settings(c)', NoRollbackBehind(c, k)'
        PROVE  TargetAt(c, k)' - PeriodAt(c, k)' = target_superblock_number' - period_id'
    <3>1. CASE k \in Settings(c)
      <4>1. msg.type # "Rollback"
        <5>1. msg.type = "Rollback" => last \in InFlight(c, {"Rollback"})'
          BY <1>1, ZenonT(30)
        <5>2. ~(last <= k)
          BY <3>1, <1>1
        <5> QED BY <5>1, <5>2, <2>3, ZenonT(30) DEF NoRollbackBehind
      <4>2. NoRollbackBehind(c, k)
        BY <2>3, <1>1, Zenon DEF NoRollbackBehind
      <4>3. TargetAt(c, k) - PeriodAt(c, k) = target_superblock_number - period_id
        BY <3>1, <4>2, <2>1, ZenonT(30) DEF TargetsFollow
      <4>4. target_superblock_number' - period_id' = target_superblock_number - period_id
        BY SMTT(20), <4>1, <1>2 DEF SentWith
      <4> QED BY Zenon, <3>1, <4>3, <4>4, <1>3
    <3>2. CASE k = last /\ IsControl(msg)
      BY ZenonT(60), <3>2, <1>4
    <3> QED BY SMTT(20), <3>1, <3>2, <1>1, <2>3
  <2> QED BY <2>2, <2>3, Zenon DEF TargetsFollow
<1> QED
  BY <1>9, <1>10, <1>11, Zenon DEF OrderOK

\* The oldest message is taken, and if it is a control and not refused the sequencer
\* gets its period and target.
LEMMA OrderTaken ==
  ASSUME NEW c \in Chain, Shapes, OrderOK(c), inbox[c] # <<>>,
         inbox'[c] = Tail(inbox[c]), NEW msg, msg = Head(inbox[c]),
         UNCHANGED <<period_id, target_superblock_number>>,
         sequencer'[c].period_id = PeriodAt(c, Before(msg, 0)),
         sequencer'[c].target_superblock_number \in Int,
         c \notin refused' =>
           /\ c \notin refused
           /\ sequencer'[c].target_superblock_number = TargetAt(c, Before(msg, 0))
  PROVE  PeriodsFollow(c)' /\ (c \notin refused' => TargetsFollow(c)')
<1>0. TakenFirst(c, msg)
  BY SettingsTaken, Zenon
<1>1. /\ Len(inbox[c]) \in Nat \ {0}
      /\ Len(inbox'[c]) = Len(inbox[c]) - 1
      /\ \A k \in DOMAIN inbox'[c] : /\ k \in Nat \ {0} /\ k + 1 \in DOMAIN inbox[c]
                                     /\ inbox'[c][k] = inbox[c][k + 1]
      /\ \A types : \A k \in InFlight(c, types)' :
           k \in Nat \ {0} /\ k + 1 \in InFlight(c, types)
      /\ \A types : \A k \in InFlight(c, types) :
           k \in Nat \ {0} /\ (k # 1 => k - 1 \in InFlight(c, types)')
      /\ \A j \in Settings(c)' : j \in Nat /\ Before(msg, j) \in Settings(c)
      /\ \A j \in Settings(c)', k \in Nat :
           InForce(c, j, k)' => InForce(c, Before(msg, j), k + 1)
  BY <1>0, ZenonT(30) DEF TakenFirst
<1>2. ASSUME NEW j \in Settings(c)'
      PROVE  /\ PeriodAt(c, j)' = PeriodAt(c, Before(msg, j))
             /\ j # 0 => TargetAt(c, j)' = TargetAt(c, Before(msg, j))
             /\ c \notin refused' => TargetAt(c, j)' = TargetAt(c, Before(msg, j))
             /\ TargetAt(c, j)' \in Int
  <2>1. CASE j = 0
    BY ZenonT(30), <2>1 DEF PeriodAt, TargetAt
  <2>2. CASE j # 0
    <3>1. Before(msg, j) = j + 1 /\ j + 1 # 0
      BY SMTT(20), <2>2, <1>1 DEF Before
    <3>2. inbox'[c][j] = inbox[c][j + 1]
      BY Zenon, <2>2, <1>1 DEF Settings, InFlight
    <3>3. TargetAt(c, Before(msg, j)) \in Int
      BY <1>1, Zenon DEF OrderOK, PeriodsFollow
    <3>4. /\ PeriodAt(c, j)' = PeriodAt(c, Before(msg, j))
          /\ TargetAt(c, j)' = TargetAt(c, Before(msg, j))
      BY <2>2, <3>1, <3>2, ZenonT(30) DEF PeriodAt, TargetAt
    <3> QED BY ZenonT(30), <3>3, <3>4
  <2> QED BY ZenonT(30), <2>1, <2>2
<1>3. \A j, k \in Settings(c)' : j <= k => Before(msg, j) <= Before(msg, k)
  BY SMTT(30), <1>1 DEF Before
<1>4. /\ \A k \in Settings(c) :
           /\ PeriodAt(c, k) \in Int
           /\ PeriodAt(c, k) <= period_id
           /\ \A j \in Settings(c) : j <= k => PeriodAt(c, j) <= PeriodAt(c, k)
      /\ \A j \in Settings(c) :
           InForce(c, j, Len(inbox[c]) + 1) => PeriodAt(c, j) = period_id
  BY ZenonT(30) DEF OrderOK, PeriodsFollow
<1>5. PeriodsFollow(c)'
  <2>1. \A k \in Settings(c)' :
          /\ PeriodAt(c, k)' \in Int /\ TargetAt(c, k)' \in Int
          /\ PeriodAt(c, k)' <= period_id'
          /\ \A j \in Settings(c)' : j <= k => PeriodAt(c, j)' <= PeriodAt(c, k)'
    BY <1>1, <1>2, <1>3, <1>4, ZenonT(30)
  <2>2. ASSUME NEW k \in DOMAIN inbox'[c], NEW j \in Settings(c)', InForce(c, j, k)'
        PROVE  /\ inbox'[c][k].type = "StartPeriod" =>
                    inbox'[c][k].period = PeriodAt(c, j)' + 1
               /\ inbox'[c][k].type \in {"Rollback", "StartInstance"} =>
                    inbox'[c][k].period = PeriodAt(c, j)'
    <3>1. /\ k \in Nat /\ k + 1 \in DOMAIN inbox[c] /\ inbox'[c][k] = inbox[c][k + 1]
          /\ Before(msg, j) \in Settings(c)
      BY ZenonT(30), <2>2, <1>1
    <3>2. InForce(c, Before(msg, j), k + 1)
      BY <2>2, <3>1, <1>1, ZenonT(30)
    <3>3. /\ inbox[c][k + 1].type = "StartPeriod" =>
               inbox[c][k + 1].period = PeriodAt(c, Before(msg, j)) + 1
          /\ inbox[c][k + 1].type \in {"Rollback", "StartInstance"} =>
               inbox[c][k + 1].period = PeriodAt(c, Before(msg, j))
      BY <3>1, <3>2, ZenonT(30) DEF OrderOK, PeriodsFollow
    <3>4. PeriodAt(c, j)' = PeriodAt(c, Before(msg, j))
      BY <1>2, Zenon
    <3> QED BY <3>1, <3>3, <3>4, ZenonT(30)
  <2>3. ASSUME NEW j \in Settings(c)', InForce(c, j, Len(inbox[c]) + 1)'
        PROVE  PeriodAt(c, j)' = period_id'
    <3>1. Len(inbox'[c]) + 1 \in Nat /\ (Len(inbox'[c]) + 1) + 1 = Len(inbox[c]) + 1
      BY SMTT(20), <1>1
    <3>2. PICK k \in Nat : k = Len(inbox'[c]) + 1
      BY Zenon, <3>1
    <3>3. InForce(c, j, k)'
      BY <2>3, <3>2, ZenonT(30)
    <3>4. InForce(c, Before(msg, j), k + 1)
      BY <3>3, <1>1, ZenonT(30)
    <3> QED BY ZenonT(30), <3>1, <3>2, <3>4, <1>1, <1>2, <1>4
  <2> QED BY Zenon, <2>1, <2>2, <2>3 DEF PeriodsFollow
<1>6. ASSUME c \notin refused' PROVE TargetsFollow(c)'
  <2>1. TargetsFollow(c)
    BY <1>6, Zenon DEF OrderOK
  <2>2. ASSUME NEW k \in InFlight(c, {"StartPeriod"})', NEW j \in Settings(c)',
               InForce(c, j, k)'
        PROVE  inbox'[c][k].target = TargetAt(c, j)' + 1
    <3>1. /\ k \in Nat /\ k + 1 \in InFlight(c, {"StartPeriod"})
          /\ inbox'[c][k] = inbox[c][k + 1]
      <4>1. k \in DOMAIN inbox'[c]
        BY <2>2, Zenon DEF InFlight
      <4> QED BY ZenonT(30), <2>2, <4>1, <1>1
    <3>2. Before(msg, j) \in Settings(c) /\ InForce(c, Before(msg, j), k + 1)
      BY <2>2, <3>1, <1>1, ZenonT(30)
    <3> QED BY <3>1, <3>2, <2>1, <1>2, <1>6, ZenonT(30) DEF TargetsFollow
  <2>3. ASSUME NEW k \in Settings(c)', NoRollbackBehind(c, k)'
        PROVE  TargetAt(c, k)' - PeriodAt(c, k)' = target_superblock_number' - period_id'
    <3>1. k \in Nat /\ Before(msg, k) \in Settings(c)
      BY ZenonT(30), <2>3, <1>1
    <3>2. NoRollbackBehind(c, Before(msg, k))
      <4>1. ASSUME NEW i \in InFlight(c, {"Rollback"}) PROVE i <= Before(msg, k)
        <5>1. CASE i = 1
          <6>1. IsControl(msg)
            BY ZenonT(60), <5>1, <4>1, <1>0 DEF TakenFirst, InFlight, IsControl
          <6> QED BY SMTT(20), <5>1, <6>1, <3>1 DEF Before
        <5>2. CASE i # 1
          <6>1. i \in Nat \ {0} /\ i - 1 \in InFlight(c, {"Rollback"})'
            BY <5>2, <1>1, Zenon
          <6>2. i - 1 <= k
            BY <6>1, <2>3, Zenon DEF NoRollbackBehind
          <6> QED BY SMTT(20), <5>2, <6>1, <6>2, <3>1 DEF Before
        <5> QED BY ZenonT(30), <5>1, <5>2
      <4> QED BY <4>1, ZenonT(30) DEF NoRollbackBehind
    <3>3. TargetAt(c, Before(msg, k)) - PeriodAt(c, Before(msg, k))
            = target_superblock_number - period_id
      BY <3>1, <3>2, <2>1, Zenon DEF TargetsFollow
    <3> QED BY ZenonT(30), <3>3, <1>2, <1>6, <2>3
  <2> QED BY <2>2, <2>3, Zenon DEF TargetsFollow
<1> QED
  BY ZenonT(30), <1>5, <1>6

--------------------------------------------------------------------------------
\* What a sequencer's step changes

OthersKept(c) ==
  \A d \in Chain \ {c} :
    /\ sequencer'[d] = sequencer[d] /\ inbox'[d] = inbox[d]
    /\ origin'[d] = origin[d] /\ started'[d] = started[d]
    /\ d \in refused' <=> d \in refused

SettingKept(c) ==
  /\ sequencer'[c].period_id = sequencer[c].period_id
  /\ sequencer'[c].target_superblock_number = sequencer[c].target_superblock_number

BlocksKept(c) ==
  /\ sequencer'[c].pending_block = sequencer[c].pending_block
  /\ sequencer'[c].head = sequencer[c].head
  /\ sequencer'[c].sealed_block_head = sequencer[c].sealed_block_head

\* start_period
TakesStartPeriod(c, msg) ==
  /\ sequencer'[c].period_id = msg.period
  /\ sequencer'[c].target_superblock_number = msg.target
  /\ sequencer'[c].last_sequence_number = None
  /\ sequencer'[c].active_instance_id = sequencer[c].active_instance_id
  /\ sequencer'[c].settled_state = sequencer[c].settled_state
  /\ BlocksKept(c)
  /\ settling' = IF sequencer[c].pending_block = None
                 THEN settling \cup {Settlement(c, msg.period - 1, msg.target - 1)}
                 ELSE settling
  /\ UNCHANGED <<origin, started, refused, sent>>

\* on_start_instance
TakesStartInstance(c, msg) ==
  /\ MayStartInstance(c, msg.period, msg.seq)
  /\ sequencer'[c].last_sequence_number = msg.seq
  /\ sequencer'[c].active_instance_id = msg.id
  /\ sequencer'[c].settled_state = sequencer[c].settled_state
  /\ SettingKept(c) /\ BlocksKept(c)
  /\ started'[c] = started[c] \cup {msg.id}
  /\ UNCHANGED <<origin, refused, settling, sent>>

\* rollback
TakesRollback(c, msg) ==
  /\ AtFinalized(c, msg.number, msg.hash)
  /\ sequencer'[c].sealed_block_head = Retained(c)
  /\ sequencer'[c].pending_block = None
  /\ sequencer'[c].active_instance_id = None
  /\ sequencer'[c].head = sequencer[c].settled_state.block_header.number
  /\ sequencer'[c].period_id = msg.period
  /\ sequencer'[c].target_superblock_number = msg.number + 1
  /\ sequencer'[c].last_sequence_number = sequencer[c].last_sequence_number
  /\ sequencer'[c].settled_state = sequencer[c].settled_state
  /\ origin'[c] = msg.epoch
  /\ UNCHANGED <<started, refused, settling, sent>>

\* rollback that returns an error
RefusesRollback(c) ==
  /\ refused' = refused \cup {c}
  /\ UNCHANGED <<sequencer, settling, sent, origin, started>>

\* on_decided_instance, and calls that return an error
TakesNothing(c) ==
  /\ sequencer'[c].active_instance_id \in {None, sequencer[c].active_instance_id}
  /\ sequencer'[c].last_sequence_number = sequencer[c].last_sequence_number
  /\ sequencer'[c].settled_state = sequencer[c].settled_state
  /\ SettingKept(c) /\ BlocksKept(c)
  /\ UNCHANGED <<origin, started, refused, settling, sent>>

\* Whatever message a sequencer takes.
LEMMA DeliverEffect ==
  ASSUME Shapes, DOMAIN started = Chain, DOMAIN origin = Chain, NEW c \in Chain, Deliver(c),
         NEW msg, msg = Head(inbox[c])
  PROVE  /\ inbox[c] # <<>> /\ inbox'[c] = Tail(inbox[c])
         /\ OthersKept(c)
         /\ UNCHANGED <<pubVars, kept, contents, aimed, overtaken>>
         /\ DOMAIN started' = Chain /\ DOMAIN origin' = Chain
         /\ \/ msg.type = "StartPeriod" /\ TakesStartPeriod(c, msg)
            \/ msg.type = "StartInstance" /\ TakesStartInstance(c, msg)
            \/ msg.type = "Rollback" /\ (TakesRollback(c, msg) \/ RefusesRollback(c))
            \/ ~IsControl(msg) /\ TakesNothing(c)
<1>1. IsState(sequencer[c]) /\ DOMAIN sequencer = Chain /\ DOMAIN inbox = Chain
  BY Zenon DEF Shapes, IsState
<1>2. /\ inbox[c] # <<>> /\ inbox' = [inbox EXCEPT ![c] = Tail(@)]
      /\ UNCHANGED <<pubVars, kept, contents, aimed, overtaken>>
  BY Zenon DEF Deliver
<1>3. inbox'[c] = Tail(inbox[c]) /\ \A d \in Chain \ {c} : inbox'[d] = inbox[d]
  BY <1>1, <1>2, Zenon
<1> DEFINE Rest == /\ OthersKept(c)
                   /\ DOMAIN started' = Chain /\ DOMAIN origin' = Chain
<1>4. ASSUME NEW s, sequencer' = [sequencer EXCEPT ![c] = s],
             UNCHANGED <<origin, started, refused>>
      PROVE  Rest /\ sequencer'[c] = s
  BY <1>1, <1>3, <1>4, Zenon DEF OthersKept
<1>5. CASE msg.type = "StartPeriod"
  <2> PICK s : s = [[[sequencer[c] EXCEPT !.period_id = msg.period]
                       EXCEPT !.target_superblock_number = msg.target]
                       EXCEPT !.last_sequence_number = None]
    BY ZenonT(30)
  <2>1. StartPeriod(c, msg.period, msg.target) /\ UNCHANGED <<origin, started, refused>>
    BY ZenonT(30), <1>5 DEF Deliver
  <2>2. sequencer' = [sequencer EXCEPT ![c] = s]
    BY ZenonT(30), <1>1, <2>1 DEF StartPeriod
  <2>3. Rest /\ sequencer'[c] = s
    BY <1>4, <2>1, <2>2, ZenonT(30)
  <2>4. /\ s.period_id = msg.period
        /\ s.target_superblock_number = msg.target
        /\ s.last_sequence_number = None
        /\ s.active_instance_id = sequencer[c].active_instance_id
        /\ s.settled_state = sequencer[c].settled_state
        /\ s.pending_block = sequencer[c].pending_block
        /\ s.head = sequencer[c].head
        /\ s.sealed_block_head = sequencer[c].sealed_block_head
    BY ZenonT(30), <1>1 DEF IsState
  <2>5. TakesStartPeriod(c, msg)
    BY Zenon, <2>1, <2>3, <2>4 DEF TakesStartPeriod, BlocksKept, StartPeriod
  <2> QED BY <1>2, <1>3, <1>5, <2>3, <2>5, ZenonT(30)
<1>6. CASE msg.type = "StartInstance" /\ MayStartInstance(c, msg.period, msg.seq)
  <2> PICK s : s = [[sequencer[c] EXCEPT !.last_sequence_number = msg.seq]
                      EXCEPT !.active_instance_id = msg.id]
    BY ZenonT(30)
  <2>1. /\ OnStartInstance(c, msg.id, msg.period, msg.seq) /\ UNCHANGED <<origin, refused>>
        /\ started' = [started EXCEPT ![c] = @ \cup {msg.id}]
    BY ZenonT(30), <1>6 DEF Deliver
  <2>2. sequencer' = [sequencer EXCEPT ![c] = s]
    BY ZenonT(30), <1>1, <2>1 DEF OnStartInstance
  <2>3. /\ DOMAIN started' = Chain /\ DOMAIN origin' = Chain
        /\ started'[c] = started[c] \cup {msg.id}
        /\ sequencer'[c] = s
        /\ OthersKept(c)
    BY <1>1, <1>3, <2>1, <2>2, ZenonT(30) DEF OthersKept
  <2>4. /\ s.last_sequence_number = msg.seq
        /\ s.active_instance_id = msg.id
        /\ s.period_id = sequencer[c].period_id
        /\ s.target_superblock_number = sequencer[c].target_superblock_number
        /\ s.settled_state = sequencer[c].settled_state
        /\ s.pending_block = sequencer[c].pending_block
        /\ s.head = sequencer[c].head
        /\ s.sealed_block_head = sequencer[c].sealed_block_head
    BY ZenonT(30), <1>1 DEF IsState
  <2>5. TakesStartInstance(c, msg)
    BY ZenonT(30), <1>6, <2>1, <2>3, <2>4
       DEF TakesStartInstance, BlocksKept, SettingKept, OnStartInstance
  <2> QED BY <1>2, <1>3, <1>6, <2>3, <2>5, Zenon
<1>7. ASSUME ~IsControl(msg), UNCHANGED <<origin, started, refused, settling, sent>>,
             \/ sequencer' = sequencer
             \/ sequencer' = [sequencer EXCEPT ![c].active_instance_id = None]
      PROVE  Rest /\ TakesNothing(c)
  <2>1. CASE sequencer' = sequencer
    BY <2>1, <1>3, <1>7, Zenon
       DEF TakesNothing, BlocksKept, SettingKept, OthersKept
  <2>2. CASE sequencer' = [sequencer EXCEPT ![c].active_instance_id = None]
    <3> PICK s : s = [sequencer[c] EXCEPT !.active_instance_id = None]
      BY ZenonT(30)
    <3>1. sequencer' = [sequencer EXCEPT ![c] = s]
      BY <1>1, <2>2, Zenon
    <3>2. Rest /\ sequencer'[c] = s
      BY <1>4, <1>7, <3>1, Zenon
    <3>3. /\ s.active_instance_id = None
          /\ s.last_sequence_number = sequencer[c].last_sequence_number
          /\ s.period_id = sequencer[c].period_id
          /\ s.target_superblock_number = sequencer[c].target_superblock_number
          /\ s.settled_state = sequencer[c].settled_state
          /\ s.pending_block = sequencer[c].pending_block
          /\ s.head = sequencer[c].head
          /\ s.sealed_block_head = sequencer[c].sealed_block_head
      BY ZenonT(30), <1>1 DEF IsState
    <3> QED BY ZenonT(30), <1>7, <3>2, <3>3 DEF TakesNothing, BlocksKept, SettingKept
  <2> QED BY ZenonT(30), <1>7, <2>1, <2>2
<1>8. CASE msg.type = "StartInstance" /\ ~MayStartInstance(c, msg.period, msg.seq)
  <2>1. UNCHANGED <<sequencer, settling, sent, origin, started, refused>>
    BY ZenonT(60), <1>8 DEF Deliver, seqVars
  <2>2. ~IsControl(msg)
    BY ZenonT(30), <1>8 DEF IsControl
  <2> QED BY <1>2, <1>3, <1>7, <2>1, <2>2, ZenonT(30)
<1>9. CASE msg.type = "Decided"
  <2>1. /\ UNCHANGED <<origin, started, refused, settling, sent>>
        /\ \/ sequencer' = sequencer
           \/ sequencer' = [sequencer EXCEPT ![c].active_instance_id = None]
    BY ZenonT(30), <1>9 DEF Deliver, seqVars, OnDecidedInstance, LockAfterDecision
  <2>2. ~IsControl(msg)
    BY ZenonT(60), <1>9 DEF IsControl
  <2> QED BY <1>2, <1>3, <1>7, <2>1, <2>2, ZenonT(30)
<1>10. CASE msg.type = "Rollback" /\ ~AtFinalized(c, msg.number, msg.hash)
  <2>1. RefusesRollback(c)
    BY ZenonT(30), <1>10 DEF Deliver, seqVars, RefusesRollback
  <2>2. Rest
    BY <2>1, <1>3, ZenonT(30) DEF RefusesRollback, OthersKept
  <2> QED BY <1>2, <1>3, <1>10, <2>1, <2>2, ZenonT(30)
<1>11. CASE msg.type = "Rollback" /\ AtFinalized(c, msg.number, msg.hash)
  <2> DEFINE old == sequencer[c]
  <2> PICK s : s = [[[[[[old EXCEPT !.sealed_block_head = Retained(c)]
                      EXCEPT !.pending_block = None]
                      EXCEPT !.active_instance_id = None]
                      EXCEPT !.head = old.settled_state.block_header.number]
                      EXCEPT !.period_id = msg.period]
                      EXCEPT !.target_superblock_number =
                               old.settled_state.superblock_number + 1]
    BY ZenonT(30)
  <2>1. /\ Rollback(c, msg.number, msg.hash, msg.period)
        /\ origin' = [origin EXCEPT ![c] = msg.epoch]
        /\ UNCHANGED <<started, refused>>
    BY ZenonT(60), <1>11 DEF Deliver
  <2>2. sequencer' = [sequencer EXCEPT ![c] = s] /\ UNCHANGED <<settling, sent>>
    BY ZenonT(30), <2>1, <1>1 DEF Rollback, LockAfterRollback
  <2>3. /\ Rest
        /\ origin'[c] = msg.epoch
        /\ sequencer'[c] = s
    BY <1>1, <1>3, <2>1, <2>2, ZenonT(30) DEF OthersKept
  <2>4. /\ s.sealed_block_head = Retained(c)
        /\ s.pending_block = None
        /\ s.active_instance_id = None
        /\ s.head = old.settled_state.block_header.number
        /\ s.period_id = msg.period
        /\ s.target_superblock_number = old.settled_state.superblock_number + 1
        /\ s.last_sequence_number = old.last_sequence_number
        /\ s.settled_state = old.settled_state
    BY ZenonT(60), <1>1 DEF IsState
  <2>5. old.settled_state.superblock_number = msg.number
    BY <1>11, Zenon DEF AtFinalized
  <2>6. TakesRollback(c, msg)
    BY <1>11, <2>1, <2>2, <2>3, <2>4, <2>5, ZenonT(30) DEF TakesRollback
  <2> QED BY <1>2, <1>3, <1>11, <2>3, <2>6, ZenonT(30)
<1>12. msg.type \in {"StartPeriod", "StartInstance", "Decided", "Rollback"}
  BY ZenonT(30) DEF Deliver
<1> QED
  BY <1>5, <1>6, <1>8, <1>9, <1>10, <1>11, <1>12, ZenonT(30)

\* begin_block
Begins(c) ==
  /\ sequencer[c].pending_block = None
  /\ sequencer'[c].pending_block = PendingBlock(c, sequencer[c].head + 1)
  /\ sequencer'[c].head = sequencer[c].head
  /\ sequencer'[c].sealed_block_head = sequencer[c].sealed_block_head
  /\ sequencer'[c].settled_state = sequencer[c].settled_state
  /\ UNCHANGED <<settling, sent>>

\* end_block
Ends(c) ==
  /\ sequencer[c].pending_block # None
  /\ sequencer'[c].sealed_block_head =
       Insert(sequencer[c].sealed_block_head, sequencer[c].pending_block.period_id,
              SealedBlockHeader(c, [number |-> sequencer[c].pending_block.number,
                                    hash |-> BlockHash(c)]))
  /\ sequencer'[c].pending_block = None
  /\ sequencer'[c].head = sequencer[c].pending_block.number
  /\ sequencer'[c].settled_state = sequencer[c].settled_state
  /\ settling' = IF sequencer[c].pending_block.period_id < sequencer[c].period_id
                 THEN settling \cup {Settlement(c, sequencer[c].period_id - 1,
                                                SettlementSuperblock(c))}
                 ELSE settling
  /\ sent' = sent

\* advance_settled_state
Advances(c, n) ==
  /\ n > sequencer[c].settled_state.superblock_number
  /\ sequencer'[c].settled_state = [block_header |-> SettledHeader(c, n),
                                    superblock_number |-> n,
                                    superblock_hash |-> Pub!SettledHash(n)]
  /\ BlocksKept(c)
  /\ UNCHANGED <<settling, sent>>

\* A sequencer's step that takes no message.
LEMMA BuildEffect ==
  ASSUME Shapes, NEW c \in Chain,
         BuildBlock(c)
           \/ \E n \in (InitFinalized + 1)..Pub!LatestNumber : SequencerSeesL1(c, n)
  PROVE  /\ SettingKept(c)
         /\ sequencer'[c].last_sequence_number = sequencer[c].last_sequence_number
         /\ sequencer'[c].active_instance_id = sequencer[c].active_instance_id
         /\ \A d \in Chain \ {c} : sequencer'[d] = sequencer[d]
         /\ UNCHANGED <<pubVars, inbox, ghosts>>
         /\ \/ Begins(c)
            \/ Ends(c)
            \/ \E n \in (InitFinalized + 1)..Pub!LatestNumber : Advances(c, n)
<1> DEFINE Rest == /\ SettingKept(c)
                   /\ sequencer'[c].last_sequence_number = sequencer[c].last_sequence_number
                   /\ sequencer'[c].active_instance_id = sequencer[c].active_instance_id
                   /\ \A d \in Chain \ {c} : sequencer'[d] = sequencer[d]
<1>1. IsState(sequencer[c]) /\ DOMAIN sequencer = Chain
  BY Zenon DEF Shapes, IsState
<1>2. UNCHANGED <<pubVars, inbox, ghosts>>
  BY Zenon DEF BuildBlock, SequencerSeesL1
<1>3. ASSUME NEW s, sequencer' = [sequencer EXCEPT ![c] = s],
             s.period_id = sequencer[c].period_id,
             s.target_superblock_number = sequencer[c].target_superblock_number,
             s.last_sequence_number = sequencer[c].last_sequence_number,
             s.active_instance_id = sequencer[c].active_instance_id
      PROVE  Rest /\ sequencer'[c] = s
  BY <1>1, <1>3, Zenon DEF SettingKept
<1>4. ASSUME BeginBlock(c, sequencer[c].head + 1) PROVE Rest /\ Begins(c)
  <2> PICK b : b = PendingBlock(c, sequencer[c].head + 1)
    BY ZenonT(30)
  <2> PICK s : s = [sequencer[c] EXCEPT !.pending_block = b]
    BY Zenon
  <2>1. sequencer' = [sequencer EXCEPT ![c] = s]
    BY <1>1, <1>4, ZenonT(30) DEF BeginBlock
  <2>2. /\ s.period_id = sequencer[c].period_id
        /\ s.target_superblock_number = sequencer[c].target_superblock_number
        /\ s.last_sequence_number = sequencer[c].last_sequence_number
        /\ s.active_instance_id = sequencer[c].active_instance_id
        /\ s.pending_block = b
        /\ s.head = sequencer[c].head
        /\ s.sealed_block_head = sequencer[c].sealed_block_head
        /\ s.settled_state = sequencer[c].settled_state
    BY ZenonT(30), <1>1 DEF IsState
  <2>3. Rest /\ sequencer'[c] = s
    BY <2>1, <2>2, <1>3, Zenon
  <2> QED BY <1>4, <2>2, <2>3, ZenonT(30) DEF Begins, BeginBlock
<1>5. ASSUME sequencer[c].pending_block # None,
             EndBlock(c, [number |-> sequencer[c].pending_block.number,
                          hash |-> BlockHash(c)])
      PROVE  Rest /\ Ends(c)
  <2> PICK b : b = [number |-> sequencer[c].pending_block.number, hash |-> BlockHash(c)]
    BY Zenon
  <2>1. EndBlock(c, b) /\ b.number = sequencer[c].pending_block.number
    BY ZenonT(30), <1>5
  <2> PICK sealed : sealed = Insert(sequencer[c].sealed_block_head,
                                    sequencer[c].pending_block.period_id,
                                    SealedBlockHeader(c, b))
    BY ZenonT(30)
  <2> PICK s : s = [[[sequencer[c] EXCEPT !.sealed_block_head = sealed]
                       EXCEPT !.pending_block = None]
                       EXCEPT !.head = b.number]
    BY ZenonT(30)
  <2>2. sequencer' = [sequencer EXCEPT ![c] = s]
    BY <1>1, <2>1, ZenonT(30) DEF EndBlock
  <2>3. /\ s.period_id = sequencer[c].period_id
        /\ s.target_superblock_number = sequencer[c].target_superblock_number
        /\ s.last_sequence_number = sequencer[c].last_sequence_number
        /\ s.active_instance_id = sequencer[c].active_instance_id
        /\ s.pending_block = None
        /\ s.head = b.number
        /\ s.sealed_block_head = sealed
        /\ s.settled_state = sequencer[c].settled_state
    BY ZenonT(30), <1>1 DEF IsState
  <2>4. Rest /\ sequencer'[c] = s
    BY <2>2, <2>3, <1>3, ZenonT(30)
  <2>5. /\ sent' = sent
        /\ settling' = IF sequencer[c].pending_block.period_id < sequencer[c].period_id
                       THEN settling \cup {Settlement(c, sequencer[c].period_id - 1,
                                                      SettlementSuperblock(c))}
                       ELSE settling
    BY <2>1, ZenonT(30) DEF EndBlock
  <2>6. Ends(c)
    BY ZenonT(30), <1>5, <2>1, <2>3, <2>4, <2>5 DEF Ends
  <2> QED BY ZenonT(30), <2>4, <2>6
<1>6. ASSUME NEW n, SequencerSeesL1(c, n) PROVE Rest /\ Advances(c, n)
  <2> PICK settled : settled = [block_header |-> SettledHeader(c, n),
                                superblock_number |-> n,
                                superblock_hash |-> Pub!SettledHash(n)]
    BY Zenon
  <2> PICK s : s = [sequencer[c] EXCEPT !.settled_state = settled]
    BY Zenon
  <2>1. AdvanceSettledState(c, settled) /\ settled.superblock_number = n
    BY ZenonT(30), <1>6 DEF SequencerSeesL1
  <2>2. sequencer' = [sequencer EXCEPT ![c] = s]
    BY <1>1, <2>1, ZenonT(30) DEF AdvanceSettledState
  <2>3. /\ s.period_id = sequencer[c].period_id
        /\ s.target_superblock_number = sequencer[c].target_superblock_number
        /\ s.last_sequence_number = sequencer[c].last_sequence_number
        /\ s.active_instance_id = sequencer[c].active_instance_id
        /\ s.pending_block = sequencer[c].pending_block
        /\ s.head = sequencer[c].head
        /\ s.sealed_block_head = sequencer[c].sealed_block_head
        /\ s.settled_state = settled
    BY ZenonT(30), <1>1 DEF IsState
  <2>4. Rest /\ sequencer'[c] = s
    BY <2>2, <2>3, <1>3, ZenonT(30)
  <2>5. Advances(c, n)
    BY Zenon, <2>1, <2>3, <2>4 DEF Advances, BlocksKept, AdvanceSettledState
  <2> QED BY ZenonT(30), <2>4, <2>5
<1>7. CASE BuildBlock(c)
  BY <1>2, <1>4, <1>5, <1>7, ZenonT(30) DEF BuildBlock
<1>8. CASE \E n \in (InitFinalized + 1)..Pub!LatestNumber : SequencerSeesL1(c, n)
  BY <1>2, <1>6, <1>8, ZenonT(30)
<1> QED
  BY ZenonT(30), <1>7, <1>8

--------------------------------------------------------------------------------
\* Every step keeps the order

LEMMA OrderOfChains ==
  OrderInv <=> /\ sequence_number \in Nat
               /\ DOMAIN started = Chain /\ DOMAIN origin = Chain
               /\ \A c \in Chain : OrderOK(c)
BY Zenon DEF OrderInv, OrderOK

LEMMA OrderOfChainsNext ==
  ASSUME sequence_number' \in Nat, DOMAIN started' = Chain, DOMAIN origin' = Chain,
         \A c \in Chain : OrderOK(c)'
  PROVE  OrderInv'
BY Zenon DEF OrderInv, OrderOK

LEMMA InitOrder == Init => OrderInv
<1> SUFFICES ASSUME Init PROVE OrderInv
  OBVIOUS
<1>1. /\ sequence_number = 0 /\ refused = {}
      /\ period_id = InitPeriod /\ target_superblock_number = InitTarget
      /\ InitPeriod \in Int /\ InitTarget \in Int
      /\ DOMAIN started = Chain /\ DOMAIN origin = Chain
  BY SMTT(30), PositiveStart DEF Init, Pub!Init
<1>2. ASSUME NEW c \in Chain
      PROVE  /\ inbox[c] = <<>> /\ started[c] = {}
             /\ sequencer[c].period_id = InitPeriod
             /\ sequencer[c].target_superblock_number = InitTarget
             /\ sequencer[c].last_sequence_number = None
  BY ZenonT(30) DEF Init, SequencerInit
<1>3. ASSUME NEW c \in Chain PROVE OrderOK(c)
  <2>1. DOMAIN inbox[c] = {} /\ \A types : InFlight(c, types) = {}
    BY <1>2 DEF InFlight
  <2>2. Settings(c) = {0}
    BY Zenon, <2>1 DEF Settings
  <2>3. PeriodAt(c, 0) = InitPeriod /\ TargetAt(c, 0) = InitTarget
    BY Zenon, <1>2 DEF PeriodAt, TargetAt
  <2>4. PeriodsFollow(c)
    BY SMTT(20), <1>1, <2>1, <2>2, <2>3 DEF PeriodsFollow
  <2>5. InstancesFollow(c)
    BY ZenonT(30), <1>2, <2>1 DEF InstancesFollow
  <2>6. TargetsFollow(c)
    BY ZenonT(30), <1>1, <2>1, <2>2, <2>3 DEF TargetsFollow
  <2> QED BY ZenonT(30), <2>4, <2>5, <2>6 DEF OrderOK
<1> QED
  BY ZenonT(30), <1>1, <1>3, OrderOfChains

\* A broadcast to some chains, of a StartPeriod or Rollback to all.
LEMMA OrderBroadcast ==
  ASSUME IndInv, OrderInv, NEW chains, NEW msg, Broadcast(chains, msg), SentWith(msg),
         IsControl(msg) => chains = Chain, sequence_number' \in Nat,
         UNCHANGED <<sequencer, origin, started, refused>>
  PROVE  OrderInv'
<1>1. Shapes /\ PublisherNumbers /\ \A c \in Chain : OrderOK(c)
  BY Basics, OrderOfChains, ZenonT(30)
<1>2. ASSUME NEW c \in Chain PROVE OrderOK(c)'
  <2>1. CASE c \in chains
    <3>1. inbox'[c] = Append(inbox[c], msg)
      BY <2>1, Zenon DEF Broadcast
    <3> QED BY <3>1, <1>1, OrderSent, ZenonT(30)
  <2>2. CASE c \notin chains
    <3>1. inbox'[c] = inbox[c]
      BY <2>2, ZenonT(30) DEF Broadcast
    <3>2. UNCHANGED <<period_id, target_superblock_number>>
      BY ZenonT(30), <2>2 DEF SentWith, IsControl
    <3> QED BY <3>1, <3>2, <1>1, OrderKept, ZenonT(30)
  <2> QED BY ZenonT(30), <2>1, <2>2
<1>3. DOMAIN started' = Chain /\ DOMAIN origin' = Chain
  BY OrderOfChains, Zenon
<1> QED
  BY <1>2, <1>3, OrderOfChainsNext, ZenonT(30)

\* A step of one of the others.
LEMMA OrderSilent ==
  ASSUME OrderInv, UNCHANGED <<sequencer, inbox, origin, started, refused, period_id,
                               target_superblock_number, sequence_number>>
  PROVE  OrderInv'
<1>1. ASSUME NEW c \in Chain PROVE OrderOK(c)'
  <2>1. OrderOK(c)
    BY OrderOfChains, ZenonT(30)
  <2> QED BY <2>1, OrderKept, Zenon
<1> QED
  BY <1>1, OrderOfChains, OrderOfChainsNext, ZenonT(30)

LEMMA OrderRollback ==
  ASSUME IndInv, OrderInv, BroadcastRollback, Pub!rollback
  PROVE  OrderInv'
<1> PICK msg : msg = [type |-> "Rollback", period |-> period_id,
                      number |-> last_finalized_superblock_number,
                      hash |-> last_finalized_superblock_hash, epoch |-> epoch']
  BY ZenonT(30)
<1>1. /\ Broadcast(Chain, msg) /\ UNCHANGED <<sequencer, origin, started, refused>>
  BY ZenonT(30) DEF BroadcastRollback, seqVars
<1>2. sequence_number' = 0 /\ SentWith(msg)
  <2>1. last_finalized_superblock_number \in Int
    BY ZenonT(30), Basics DEF PublisherNumbers
  <2>2. /\ msg.type = "Rollback" /\ msg.period = period_id
        /\ msg.number = last_finalized_superblock_number
    BY ZenonT(30)
  <2> QED BY ZenonT(30), <2>1, <2>2 DEF Pub!rollback, Pub!TargetAfterRollback, SentWith
<1> QED
  BY ZenonT(30), <1>1, <1>2, OrderBroadcast

LEMMA OrderPublisher ==
  ASSUME IndInv, OrderInv, PublisherNext
  PROVE  OrderInv'
<1>1. CASE PublisherStartsPeriod
  <2> PICK msg : msg = [type |-> "StartPeriod", period |-> period_id',
                        target |-> target_superblock_number']
    BY ZenonT(30)
  <2>1. /\ Broadcast(Chain, msg) /\ UNCHANGED <<sequencer, origin, started, refused>>
        /\ Pub!StartPeriod
    BY ZenonT(30), <1>1 DEF PublisherStartsPeriod, seqVars
  <2>2. sequence_number' = 0 /\ SentWith(msg)
    BY ZenonT(30), <2>1 DEF Pub!StartPeriod, Pub!NextPeriod, SentWith
  <2> QED BY ZenonT(30), <2>1, <2>2, OrderBroadcast
<1>2. ASSUME NEW r \in XtRequest, PublisherStartsInstance(r) PROVE OrderInv'
  <2> PICK id : id = <<period_id, sequence_number', r>>
    BY Zenon
  <2> PICK msg : msg = [type |-> "StartInstance", id |-> id, period |-> period_id,
                        seq |-> sequence_number']
    BY ZenonT(30)
  <2>1. /\ Broadcast(Pub!chains_from_request(r), msg)
        /\ UNCHANGED <<sequencer, origin, started, refused>>
        /\ Pub!StartInstance(r)
    BY ZenonT(30), <1>2 DEF PublisherStartsInstance, InstanceId, seqVars, ghosts
  <2>2. /\ sequence_number' \in Nat
        /\ UNCHANGED <<period_id, target_superblock_number>>
    BY SMTT(20), <2>1, OrderOfChains DEF Pub!StartInstance, Pub!building
  <2>3. ~IsControl(msg) /\ SentWith(msg)
    BY ZenonT(30), <2>2 DEF SentWith, IsControl
  <2> QED BY ZenonT(30), <2>1, <2>2, <2>3, OrderBroadcast
<1>3. ASSUME NEW i \in undecided, PublisherDecidesInstance(i) PROVE OrderInv'
  <2> PICK msg : msg = [type |-> "Decided", id |-> InstanceId(i)]
    BY ZenonT(30)
  <2>1. /\ Broadcast(Pub!chains_from_request(i.request), msg)
        /\ UNCHANGED <<sequencer, origin, started, refused>>
        /\ Pub!DecideInstance(i)
    BY ZenonT(30), <1>3 DEF PublisherDecidesInstance, seqVars, ghosts
  <2>2. /\ sequence_number' = sequence_number
        /\ UNCHANGED <<period_id, target_superblock_number>>
    BY ZenonT(30), <2>1 DEF Pub!DecideInstance, Pub!building
  <2>3. ~IsControl(msg) /\ SentWith(msg)
    BY ZenonT(30), <2>2 DEF SentWith, IsControl
  <2> QED BY ZenonT(30), <2>1, <2>2, <2>3, OrderOfChains, OrderBroadcast
<1>4. CASE PublisherTimesOut
  BY ZenonT(30), <1>4, OrderRollback DEF PublisherTimesOut, Pub!ProofTimeout
<1>5. ASSUME NEW call \in proving, Pub!ProverFails(call) /\ BroadcastRollback PROVE OrderInv'
  BY ZenonT(30), <1>5, OrderRollback DEF Pub!ProverFails
<1> DEFINE Silent == UNCHANGED <<sequencer, inbox, origin, started, refused, period_id,
                                 target_superblock_number, sequence_number>>
<1>6. ASSUME NEW pf \in sent, PublisherReceivesProof(pf) PROVE Silent
  BY ZenonT(30), <1>6
     DEF PublisherReceivesProof, Pub!ReceiveProof, seqVars, Pub!building, Pub!instances
<1>7. ASSUME NEW call \in proving, PublisherProves(call),
             ~(Pub!ProverFails(call) /\ BroadcastRollback)
      PROVE  Silent
  BY ZenonT(30), <1>7
     DEF PublisherProves, Pub!ProverSucceeds, Pub!Publish, seqVars, ghosts,
              Pub!building, Pub!instances
<1>8. ASSUME NEW sb \in published, L1AcceptsSuperblock(sb) PROVE Silent
  BY ZenonT(30), <1>8
     DEF L1AcceptsSuperblock, Pub!L1Accepts, seqVars, Pub!building, Pub!instances
<1>9. ASSUME NEW n, PublisherSeesL1(n) PROVE Silent
  BY ZenonT(30), <1>9
     DEF PublisherSeesL1, Pub!AdvanceSettledState, seqVars, ghosts, Pub!building,
              Pub!instances
<1>10. Silent => OrderInv'
  BY OrderSilent, Zenon
<1> QED
  BY <1>1, <1>2, <1>3, <1>4, <1>5, <1>6, <1>7, <1>8, <1>9, <1>10, ZenonT(30)
     DEF PublisherNext

\* The others are left alone by a sequencer's step.
LEMMA OrderOthers ==
  ASSUME OrderInv, NEW c \in Chain, OthersKept(c), OrderOK(c)',
         DOMAIN started' = Chain, DOMAIN origin' = Chain, UNCHANGED pubVars
  PROVE  OrderInv'
<1>1. UNCHANGED <<period_id, target_superblock_number, sequence_number>>
  BY ZenonT(30) DEF pubVars
<1>2. ASSUME NEW d \in Chain \ {c} PROVE OrderOK(d)'
  <2>1. OrderOK(d)
    BY OrderOfChains, Zenon
  <2>2. /\ sequencer'[d] = sequencer[d] /\ inbox'[d] = inbox[d]
        /\ started'[d] = started[d] /\ (d \in refused => d \in refused')
    BY Zenon DEF OthersKept
  <2> QED BY <2>1, <2>2, <1>1, OrderKept, ZenonT(30)
<1>3. \A d \in Chain : OrderOK(d)'
  BY <1>2, Zenon
<1> QED
  BY <1>1, <1>3, OrderOfChains, OrderOfChainsNext, ZenonT(30)

\* start_period forgets the last sequence number, but no instance of the new period
\* was started; rollback leaves the period and the sequence number as they are.
LEMMA OrderDeliver ==
  ASSUME IndInv, OrderInv, NEW c \in Chain, Deliver(c)
  PROVE  OrderInv'
<1> PICK msg : msg = Head(inbox[c])
  BY ZenonT(30)
<1>1. Shapes /\ OrderOK(c) /\ DOMAIN started = Chain /\ DOMAIN origin = Chain
  BY Basics, OrderOfChains, ZenonT(30)
<1>2. /\ inbox[c] # <<>> /\ inbox'[c] = Tail(inbox[c])
      /\ OthersKept(c)
      /\ UNCHANGED pubVars
      /\ DOMAIN started' = Chain /\ DOMAIN origin' = Chain
      /\ \/ msg.type = "StartPeriod" /\ TakesStartPeriod(c, msg)
         \/ msg.type = "StartInstance" /\ TakesStartInstance(c, msg)
         \/ msg.type = "Rollback" /\ (TakesRollback(c, msg) \/ RefusesRollback(c))
         \/ ~IsControl(msg) /\ TakesNothing(c)
  BY <1>1, DeliverEffect, ZenonT(30)
<1>3. /\ msg = inbox[c][1] /\ 1 \in DOMAIN inbox[c]
      /\ \A k \in DOMAIN inbox'[c] : inbox'[c][k] = inbox[c][k + 1]
      /\ \A types : \A k \in InFlight(c, types)' : k + 1 \in InFlight(c, types)
      /\ 0 \in Settings(c) /\ InForce(c, 0, 1)
  BY <1>1, <1>2, SettingsTaken, ZenonT(30) DEF TakenFirst
<1>4. PeriodAt(c, 0) = sequencer[c].period_id /\ PeriodAt(c, 1) = msg.period
      /\ TargetAt(c, 0) = sequencer[c].target_superblock_number
      /\ TargetAt(c, 1) = IF msg.type = "StartPeriod" THEN msg.target ELSE msg.number + 1
  BY SMTT(20), <1>3 DEF PeriodAt, TargetAt
<1>5. /\ sequencer[c].period_id \in Int /\ sequencer[c].target_superblock_number \in Int
      /\ IsControl(msg) => TargetAt(c, 1) \in Int
      /\ msg.type = "StartPeriod" => msg.period = sequencer[c].period_id + 1
      /\ msg.type \in {"Rollback", "StartInstance"} => msg.period = sequencer[c].period_id
  <2>1. IsControl(msg) => 1 \in Settings(c)
    BY ZenonT(30), <1>3 DEF Settings, InFlight, IsControl
  <2> QED BY ZenonT(60), <1>1, <1>3, <1>4, <2>1 DEF OrderOK, PeriodsFollow
<1>6. /\ IsControl(msg) => Before(msg, 0) = 1
      /\ ~IsControl(msg) => Before(msg, 0) = 0
  BY DEF Before
<1>7. PeriodsFollow(c)' /\ (c \notin refused' => TargetsFollow(c)')
  <2>1. /\ sequencer'[c].period_id = PeriodAt(c, Before(msg, 0))
        /\ sequencer'[c].target_superblock_number \in Int
        /\ c \notin refused' =>
             /\ c \notin refused
             /\ sequencer'[c].target_superblock_number = TargetAt(c, Before(msg, 0))
    <3>1. CASE msg.type = "StartPeriod" /\ TakesStartPeriod(c, msg)
      BY ZenonT(30), <3>1, <1>4, <1>5, <1>6 DEF TakesStartPeriod, IsControl
    <3>2. CASE msg.type = "StartInstance" /\ TakesStartInstance(c, msg)
      BY ZenonT(30), <3>2, <1>4, <1>5, <1>6 DEF TakesStartInstance, SettingKept, IsControl
    <3>3. CASE msg.type = "Rollback" /\ TakesRollback(c, msg)
      BY ZenonT(30), <3>3, <1>4, <1>5, <1>6 DEF TakesRollback, IsControl
    <3>4. CASE msg.type = "Rollback" /\ RefusesRollback(c)
      BY ZenonT(30), <3>4, <1>4, <1>5, <1>6 DEF RefusesRollback, IsControl
    <3>5. CASE ~IsControl(msg) /\ TakesNothing(c)
      BY ZenonT(30), <3>5, <1>4, <1>5, <1>6 DEF TakesNothing, SettingKept
    <3> QED BY <1>2, <3>1, <3>2, <3>3, <3>4, <3>5, ZenonT(30)
  <2>2. UNCHANGED <<period_id, target_superblock_number>>
    BY ZenonT(30), <1>2 DEF pubVars
  <2> QED BY <1>1, <1>2, <2>1, <2>2, OrderTaken, ZenonT(30)
<1>8. InstancesFollow(c)'
  <2>1. /\ sequencer[c].last_sequence_number # None =>
             sequencer[c].last_sequence_number \in Int
        /\ \A k \in InFlight(c, {"StartInstance"}) :
             inbox[c][k].seq \in Nat /\ inbox[c][k].id[2] = inbox[c][k].seq
        /\ \A id \in started[c] :
             /\ id[1] \in Int /\ id[2] \in Int
             /\ id[1] <= sequencer[c].period_id
             /\ id[1] = sequencer[c].period_id =>
                  /\ sequencer[c].last_sequence_number # None
                  /\ id[2] <= sequencer[c].last_sequence_number
    BY <1>1, ZenonT(30) DEF OrderOK, InstancesFollow
  <2>2. \A k \in InFlight(c, {"StartInstance"})' :
          inbox'[c][k].seq \in Nat /\ inbox'[c][k].id[2] = inbox'[c][k].seq
    <3>1. \A k \in InFlight(c, {"StartInstance"})' : k \in DOMAIN inbox'[c]
      BY Zenon DEF InFlight
    <3> QED BY <2>1, <3>1, <1>3, ZenonT(30)
  <2>3. CASE msg.type = "StartPeriod" /\ TakesStartPeriod(c, msg)
    <3>1. \A id \in started'[c] : /\ id[1] \in Int /\ id[2] \in Int
                                  /\ id[1] <= sequencer'[c].period_id
                                  /\ id[1] # sequencer'[c].period_id
      BY SMTT(20), <2>1, <2>3, <1>5 DEF TakesStartPeriod
    <3> QED BY <3>1, <2>2, <2>3, ZenonT(30) DEF TakesStartPeriod, InstancesFollow
  <2>4. CASE msg.type = "StartInstance" /\ TakesStartInstance(c, msg)
    <3>1. msg.seq \in Nat /\ msg.id[2] = msg.seq /\ msg.id[1] = msg.period
          /\ msg.seq # None
      <4>1. 1 \in InFlight(c, {"StartInstance"})
        BY ZenonT(30), <2>4, <1>3 DEF InFlight
      <4>2. MessageOK(c, 1)
        BY <1>3, Zenon DEF IndInv
      <4> QED BY <4>1, <4>2, <2>1, <2>4, <1>3, NoneIsNoNumber, ZenonT(30) DEF MessageOK
    <3>2. /\ sequencer'[c].last_sequence_number = msg.seq
          /\ sequencer'[c].period_id = sequencer[c].period_id
          /\ started'[c] = started[c] \cup {msg.id}
          /\ sequencer[c].last_sequence_number # None =>
               msg.seq > sequencer[c].last_sequence_number
      BY <2>4, ZenonT(30) DEF TakesStartInstance, SettingKept, MayStartInstance
    <3>3. \A id \in started'[c] : /\ id[1] \in Int /\ id[2] \in Int
                                  /\ id[1] <= sequencer'[c].period_id
                                  /\ id[1] = sequencer'[c].period_id => id[2] <= msg.seq
      <4> PICK p, last, n : /\ p = sequencer[c].period_id /\ n = msg.seq
                            /\ last = sequencer[c].last_sequence_number
        BY Zenon
      <4>1. p \in Int /\ n \in Nat /\ (last # None => last \in Int /\ n > last)
        BY <2>1, <3>1, <3>2, <1>5, Zenon
      <4>2. n \in Int /\ p <= p /\ n <= n
        BY <4>1
      <4>3. ASSUME NEW id \in started[c]
            PROVE  id[1] \in Int /\ id[2] \in Int /\ id[1] <= p /\ (id[1] = p => id[2] <= n)
        <5>1. /\ id[1] \in Int /\ id[2] \in Int /\ id[1] <= p
              /\ id[1] = p => last # None /\ id[2] <= last
          BY <2>1, Zenon
        <5> QED BY <4>1, <5>1
      <4>4. msg.id[1] = p /\ msg.id[2] = n
        BY <2>4, <3>1, <1>5, Zenon
      <4> QED BY <3>2, <4>1, <4>2, <4>3, <4>4, Zenon
    <3> QED BY ZenonT(30), <3>1, <3>2, <3>3, <2>2 DEF InstancesFollow
  <2>5. CASE /\ sequencer'[c].period_id = sequencer[c].period_id
             /\ sequencer'[c].last_sequence_number = sequencer[c].last_sequence_number
             /\ started' = started
    BY <2>1, <2>2, <2>5, ZenonT(30) DEF InstancesFollow
  <2>6. CASE msg.type = "Rollback" /\ TakesRollback(c, msg)
    BY Zenon, <2>5, <2>6, <1>5 DEF TakesRollback
  <2>7. CASE msg.type = "Rollback" /\ RefusesRollback(c)
    BY <2>5, <2>7, ZenonT(30) DEF RefusesRollback
  <2>8. CASE ~IsControl(msg) /\ TakesNothing(c)
    BY <2>5, <2>8, ZenonT(30) DEF TakesNothing, SettingKept
  <2> QED BY <1>2, <2>3, <2>4, <2>6, <2>7, <2>8, ZenonT(30)
<1> QED
  BY <1>2, <1>7, <1>8, OrderOthers, ZenonT(30) DEF OrderOK

LEMMA OrderBuild ==
  ASSUME IndInv, OrderInv, NEW c \in Chain,
         BuildBlock(c)
           \/ \E n \in (InitFinalized + 1)..Pub!LatestNumber : SequencerSeesL1(c, n)
  PROVE  OrderInv'
<1>1. Shapes /\ OrderOK(c) /\ DOMAIN started = Chain /\ DOMAIN origin = Chain
  BY Basics, OrderOfChains, ZenonT(30)
<1>2. /\ SettingKept(c)
      /\ sequencer'[c].last_sequence_number = sequencer[c].last_sequence_number
      /\ \A d \in Chain \ {c} : sequencer'[d] = sequencer[d]
      /\ UNCHANGED <<pubVars, inbox, ghosts>>
  BY <1>1, BuildEffect, ZenonT(30)
<1>3. UNCHANGED <<origin, started, refused, inbox, period_id, target_superblock_number>>
  BY ZenonT(30), <1>2 DEF pubVars, ghosts
<1>4. OrderOK(c)'
  BY <1>1, <1>2, <1>3, OrderKept, ZenonT(30) DEF SettingKept
<1>5. OthersKept(c) /\ UNCHANGED pubVars
  BY <1>2, <1>3, ZenonT(30) DEF OthersKept
<1> QED
  BY <1>1, <1>3, <1>4, <1>5, OrderOthers, ZenonT(30)

LEMMA OrderStep == IndInv /\ OrderInv /\ [Next]_vars => OrderInv'
<1> SUFFICES ASSUME IndInv, OrderInv, [Next]_vars PROVE OrderInv'
  BY ZenonT(30)
<1>1. ASSUME NEW call \in settling, Settle(call) PROVE OrderInv'
  <2>1. UNCHANGED <<sequencer, inbox, origin, started, refused, period_id,
                    target_superblock_number, sequence_number>>
    BY ZenonT(30), <1>1
       DEF Settle, pubVars, ghosts, ReadHeader, SendProof, SettlementFails
  <2> QED BY <2>1, OrderSilent, ZenonT(30)
<1>2. CASE UNCHANGED vars
  <2>1. UNCHANGED <<sequencer, inbox, origin, started, refused, period_id,
                    target_superblock_number, sequence_number>>
    BY ZenonT(30), <1>2 DEF vars, pubVars, seqVars, ghosts
  <2> QED BY <2>1, OrderSilent, ZenonT(30)
<1>3. CASE Next
  BY <1>1, <1>3, OrderPublisher, OrderDeliver, OrderBuild, ZenonT(30)
     DEF Next, PublisherNext
<1> QED
  BY ZenonT(30), <1>2, <1>3

--------------------------------------------------------------------------------
\* What the order gives

\* With no setting on its way a sequencer's own is the last.
LEMMA QuietFromOrder ==
  ASSUME IndInv, OrderInv
  PROVE  QuietAgreement
<1> SUFFICES ASSUME NEW c \in Chain, InFlight(c, {"StartPeriod", "Rollback"}) = {}
             PROVE  /\ sequencer[c].period_id = period_id
                    /\ c \notin refused =>
                         sequencer[c].target_superblock_number = target_superblock_number
  BY ZenonT(30) DEF QuietAgreement
<1>1. Shapes /\ OrderOK(c) /\ period_id \in Int /\ target_superblock_number \in Int
  BY Basics, OrderOfChains DEF PublisherNumbers
<1>2. Settings(c) = {0} /\ Len(inbox[c]) \in Nat
  BY <1>1, Positions, ZenonT(30) DEF Settings
<1>3. InForce(c, 0, Len(inbox[c]) + 1) /\ NoRollbackBehind(c, 0)
  <2>1. InFlight(c, {"Rollback"}) = {}
    BY ZenonT(30) DEF InFlight
  <2> QED BY SMTT(20), <1>2, <2>1 DEF InForce, NoRollbackBehind
<1>4. sequencer[c].period_id = period_id /\ TargetAt(c, 0) \in Int
  BY ZenonT(60), <1>1, <1>2, <1>3 DEF OrderOK, PeriodsFollow, PeriodAt
<1>5. c \notin refused =>
        TargetAt(c, 0) - PeriodAt(c, 0) = target_superblock_number - period_id
  BY <1>1, <1>2, <1>3, ZenonT(30) DEF OrderOK, TargetsFollow
<1> QED BY SMTT(20), <1>1, <1>4, <1>5 DEF PeriodAt, TargetAt

\* The step of StartsOnce
NewInstance ==
  \A c \in Chain :
    sequencer'[c].active_instance_id \notin {None, sequencer[c].active_instance_id}
      => sequencer'[c].active_instance_id \notin started[c]

\* An instance that was started has no number above the last, or is of an older period.
LEMMA OnceFromOrder ==
  ASSUME IndInv, OrderInv, Next
  PROVE  NewInstance
<1> SUFFICES ASSUME NEW c \in Chain,
                    sequencer'[c].active_instance_id
                      \notin {None, sequencer[c].active_instance_id}
             PROVE  sequencer'[c].active_instance_id \notin started[c]
  BY Zenon DEF NewInstance
<1>0. Shapes /\ DOMAIN started = Chain /\ DOMAIN origin = Chain /\ OrderOK(c)
  BY Basics, OrderOfChains, ZenonT(30)
<1>1. ~PublisherNext /\ ~\E call \in settling : Settle(call)
  <2>1. PublisherNext \/ (\E call \in settling : Settle(call)) => sequencer' = sequencer
    BY Zenon
       DEF PublisherNext, PublisherStartsPeriod, PublisherTimesOut, PublisherStartsInstance,
           PublisherDecidesInstance, PublisherReceivesProof, PublisherProves,
           BroadcastRollback, L1AcceptsSuperblock, PublisherSeesL1, Settle, ReadHeader,
           SendProof, SettlementFails, seqVars
  <2> QED BY <2>1, ZenonT(30)
<1>2. PICK d \in Chain :
        \/ Deliver(d)
        \/ BuildBlock(d)
             \/ \E n \in (InitFinalized + 1)..Pub!LatestNumber : SequencerSeesL1(d, n)
  BY <1>1, ZenonT(30) DEF Next, PublisherNext
<1>3. Deliver(d) /\ d = c
  <2>1. Deliver(d)
    BY <1>0, <1>2, BuildEffect, ZenonT(30)
  <2>2. OthersKept(d)
    BY <1>0, <2>1, DeliverEffect, ZenonT(30)
  <2> QED BY <2>1, <2>2, ZenonT(30) DEF OthersKept
<1> PICK msg : msg = Head(inbox[c])
  BY ZenonT(30)
<1>4. /\ inbox[c] # <<>> /\ inbox'[c] = Tail(inbox[c])
      /\ msg.type = "StartInstance" /\ TakesStartInstance(c, msg)
  <2>1. /\ inbox[c] # <<>> /\ inbox'[c] = Tail(inbox[c])
        /\ \/ msg.type = "StartPeriod" /\ TakesStartPeriod(c, msg)
           \/ msg.type = "StartInstance" /\ TakesStartInstance(c, msg)
           \/ msg.type = "Rollback" /\ (TakesRollback(c, msg) \/ RefusesRollback(c))
           \/ ~IsControl(msg) /\ TakesNothing(c)
    BY <1>0, <1>3, DeliverEffect, ZenonT(30)
  <2> QED BY <2>1, Zenon
     DEF TakesStartPeriod, TakesRollback, RefusesRollback, TakesNothing
<1>5. msg = inbox[c][1] /\ 1 \in DOMAIN inbox[c] /\ 0 \in Settings(c) /\ InForce(c, 0, 1)
  BY <1>0, <1>4, SettingsTaken, ZenonT(30) DEF TakenFirst
<1>6. msg.period = sequencer[c].period_id
  BY ZenonT(30), <1>0, <1>4, <1>5 DEF OrderOK, PeriodsFollow, PeriodAt
<1>7. MessageOK(c, 1)
  BY <1>5, Zenon DEF IndInv
<1>8. /\ msg.id[1] = sequencer[c].period_id
      /\ msg.id[2] = msg.seq /\ msg.seq \in Nat
  <2>1. 1 \in InFlight(c, {"StartInstance"})
    BY ZenonT(30), <1>4, <1>5 DEF InFlight
  <2> QED BY <1>0, <1>4, <1>5, <1>6, <1>7, <2>1, ZenonT(30)
          DEF OrderOK, InstancesFollow, MessageOK
<1>9. msg.id \in started[c] => /\ sequencer[c].last_sequence_number # None
                               /\ sequencer[c].last_sequence_number \in Int
                               /\ msg.seq <= sequencer[c].last_sequence_number
  BY <1>0, <1>8, ZenonT(30) DEF OrderOK, InstancesFollow
<1>10. sequencer[c].last_sequence_number # None => msg.seq > sequencer[c].last_sequence_number
  BY <1>4, ZenonT(30) DEF TakesStartInstance, MayStartInstance
<1>11. msg.id \notin started[c]
  BY SMTT(20), <1>8, <1>9, <1>10
<1> QED BY <1>4, <1>11, ZenonT(30) DEF TakesStartInstance

\* Every StartPeriod, StartInstance and Rollback that a sequencer is yet to take
\* continues the period and the target it will then have, up to the publisher's.
THEOREM OrderInvariance == Spec => []OrderInv
<1> QED
  BY InitOrder, OrderStep, Invariance, PTL DEF Spec

\* Once start_period's and rollback's messages have been taken, every sequencer is in
\* the publisher's period, and at its target unless it refused a rollback.
THEOREM QuietSafety == Spec => []QuietAgreement
<1>1. IndInv /\ OrderInv => QuietAgreement
  BY ZenonT(30), QuietFromOrder
<1> QED
  BY <1>1, Invariance, OrderInvariance, PTL

\* on_start_instance never accepts an instance id a second time: rollback keeps the
\* last sequence number while the period stays, and start_period, which forgets it,
\* comes with a period no instance was started in.
THEOREM StartsOnceSafety == Spec => StartsOnce
<1>1. IndInv /\ OrderInv /\ [Next]_vars => [NewInstance]_vars
  BY ZenonT(30), OnceFromOrder
<1>2. Spec => [][NewInstance]_vars
  BY <1>1, Invariance, OrderInvariance, PTL DEF Spec
<1> QED
  BY ZenonT(30), <1>2 DEF StartsOnce, NewInstance

--------------------------------------------------------------------------------
\* The parts of HistoryInv

ChainHistory(c) ==
  /\ RollbacksFollow(c)
  /\ NumbersFollow(c)
  /\ c \notin refused => SuperblocksFollow(c)
  /\ Orderly /\ c \notin refused => BlocksFollow(c) /\ HeadersFollow(c)

LEMMA HistoryGroups ==
  HistoryInv <=> L1Follows /\ ProofsFollow /\ KeptFollow /\ \A c \in Chain : ChainHistory(c)
BY ZenonT(30) DEF HistoryInv, ChainHistory

LEMMA HistoryGroupsNext ==
  ASSUME L1Follows', ProofsFollow', KeptFollow', \A c \in Chain : ChainHistory(c)'
  PROVE  HistoryInv'
BY ZenonT(30) DEF HistoryInv, ChainHistory

LEMMA HistoryNumbers ==
  ASSUME IndInv, L1Follows
  PROVE  /\ period_id \in Int /\ target_superblock_number \in Int
         /\ last_finalized_superblock_number \in Int
         /\ InitFinalized \in Nat /\ InitBlock \in Nat /\ Len(l1) \in Nat
         /\ Pub!LatestNumber \in Int /\ Pub!LatestNumber = InitFinalized + Len(l1)
         /\ InitFinalized <= last_finalized_superblock_number
         /\ last_finalized_superblock_number <= Pub!LatestNumber
         /\ epoch \in Nat
<1>1. period_id \in Int /\ target_superblock_number \in Int
      /\ last_finalized_superblock_number \in Int
  BY Basics DEF PublisherNumbers
<1>2. l1 \in Seq(published) /\ epoch \in Nat
      /\ last_finalized_superblock_number \in InitFinalized..Pub!LatestNumber
  BY Zenon DEF L1Follows
<1>3. Len(l1) \in Nat
  BY <1>2
<1> QED
  BY SMTT(30), <1>1, <1>2, <1>3, SettledStart DEF Pub!LatestNumber

\* A header on L1 is of a proof in one of its superblocks.
LEMMA HeadersIn ==
  ASSUME NEW c, NEW m, NEW h
  PROVE  h \in HeadersOnL1(c, m) <=>
           \E k \in 1..(m - InitFinalized) : \E q \in contents[l1[k]] :
             q.chain = c /\ q.header # None /\ h = q.header
BY Zenon DEF HeadersOnL1

LEMMA HeadersInNext ==
  ASSUME NEW c, NEW m, NEW h
  PROVE  h \in HeadersOnL1(c, m)' <=>
           \E k \in 1..(m - InitFinalized) : \E q \in contents'[l1'[k]] :
             q.chain = c /\ q.header # None /\ h = q.header
BY Zenon DEF HeadersOnL1

================================================================================

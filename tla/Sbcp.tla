--------------------------------- MODULE Sbcp ---------------------------------
(***************************************************************************)
(* The superblock construction protocol: the publisher and its sequencers. *)
(*                                                                         *)
(* What joins them is external to the two types and modelled from their    *)
(* traits and tests.  The publisher's messages reach each sequencer in the *)
(* order they were broadcast.  Proofs take any time, and may be lost or    *)
(* arrive twice.  L1's events reach the publisher and each sequencer       *)
(* independently and late.  The caller of start_instance tells the chains  *)
(* of the instance, and later tells them its decision.                     *)
(***************************************************************************)
EXTENDS SbcpSequencer

CONSTANTS
  XtRequest, TxChains, ProofWindow, MaxPeriod, MaxInstances, MaxRollbacks,
  MaxBlock,         \* bound: block numbers
  MaxXtPeriod,      \* bound: period of the last instance
  MaxInFlight       \* bound: messages on their way to a sequencer

\* No block's header is Option::None
ASSUME NoneIsNoHeader == None \notin [number : Int, hash : [superblock : Int, origin : Nat]]

\* The publisher's variables
VARIABLES
  period_id, target_superblock_number,
  last_finalized_superblock_number, last_finalized_superblock_hash,
  proofs, sequence_number, active_chains, proving, published, announced,
  undecided, epoch, l1

VARIABLES
  inbox,            \* messages on their way to each sequencer, oldest first
  kept,             \* the proofs behind the publisher's proofs
  contents,         \* superblock -> the proofs it aggregates
  aimed,            \* period -> the superblock the publisher was at when it ended
  origin,           \* epoch each chain builds in: that of its last rollback
  started,          \* instance ids each sequencer has started
  refused,          \* chains that ever refused a rollback
  overtaken         \* whether L1 has superblocks of an epoch that was rolled back

Pub == INSTANCE SbcpPublisher WITH Sender <- Chain

pubVars == <<period_id, target_superblock_number, last_finalized_superblock_number,
             last_finalized_superblock_hash, proofs, sequence_number, active_chains,
             proving, published, announced, undecided, epoch, l1>>
ghosts == <<kept, contents, aimed, origin, started, refused, overtaken>>
vars == <<pubVars, seqVars, inbox, ghosts>>

Init ==
  /\ Pub!Init
  /\ SequencerInit
  /\ inbox = [c \in Chain |-> <<>>]
  /\ kept = {}
  /\ contents = EmptyMap
  /\ aimed = EmptyMap
  /\ origin = [c \in Chain |-> 0]
  /\ started = [c \in Chain |-> {}]
  /\ refused = {}
  /\ overtaken = FALSE

Broadcast(chains, msg) ==
  /\ \A c \in chains : Len(inbox[c]) < MaxInFlight
  /\ inbox' = [c \in Chain |-> IF c \in chains THEN Append(inbox[c], msg)
                               ELSE inbox[c]]

--------------------------------------------------------------------------------
\* The publisher's calls and the messages they broadcast

PublisherStartsPeriod ==
  /\ Pub!StartPeriod
  /\ Broadcast(Chain, [type |-> "StartPeriod", period |-> period_id',
                       target |-> target_superblock_number'])
  /\ aimed' = Insert(aimed, period_id, target_superblock_number)
  /\ UNCHANGED <<seqVars, kept, contents, origin, started, refused, overtaken>>

\* generate_instance_id of an instance; it does not depend on rollbacks
InstanceId(i) == <<i.period, i.seq, i.request>>

PublisherStartsInstance(r) ==
  /\ period_id <= MaxXtPeriod
  /\ Pub!StartInstance(r)
  /\ LET i == [period |-> period_id, seq |-> sequence_number', request |-> r] IN
     Broadcast(Pub!chains_from_request(r),
               [type |-> "StartInstance", id |-> InstanceId(i), period |-> i.period,
                seq |-> i.seq])
  /\ UNCHANGED <<seqVars, ghosts>>

PublisherDecidesInstance(i) ==
  /\ Pub!DecideInstance(i)
  /\ Broadcast(Pub!chains_from_request(i.request),
               [type |-> "Decided", id |-> InstanceId(i)])
  /\ UNCHANGED <<seqVars, ghosts>>

BroadcastRollback ==
  /\ Broadcast(Chain, [type |-> "Rollback", period |-> period_id,
                       number |-> last_finalized_superblock_number,
                       hash |-> last_finalized_superblock_hash, epoch |-> epoch'])
  /\ kept' = {}
  /\ overtaken' = (overtaken \/ Pub!LatestNumber > last_finalized_superblock_number)
  /\ UNCHANGED <<seqVars, contents, aimed, origin, started, refused>>

PublisherTimesOut == Pub!ProofTimeout /\ BroadcastRollback

PublisherReceivesProof(pf) ==
  /\ Pub!ReceiveProof(pf.period, pf.superblock, pf.chain)
  /\ kept' = kept \cup {pf}
  /\ contents' = IF proving' = proving THEN contents
                 ELSE Insert(contents, Pub!Superblock(pf.superblock),
                             {q \in kept' : q.superblock = pf.superblock})
  /\ UNCHANGED <<seqVars, inbox, aimed, origin, started, refused, overtaken>>

PublisherProves(call) ==
  \/ /\ Pub!ProverSucceeds(call)
     /\ kept' = {pf \in kept : pf.superblock # call.superblock.number}
     /\ UNCHANGED <<seqVars, inbox, contents, aimed, origin, started, refused, overtaken>>
  \/ Pub!Publish(call) /\ UNCHANGED <<seqVars, inbox, ghosts>>
  \/ Pub!ProverFails(call) /\ BroadcastRollback

--------------------------------------------------------------------------------
\* L1

L1AcceptsSuperblock(sb) ==
  /\ Pub!L1Accepts(sb)
  /\ overtaken' = (overtaken \/ sb.epoch # epoch)
  /\ UNCHANGED <<seqVars, inbox, kept, contents, aimed, origin, started, refused>>

PublisherSeesL1(n) ==
  /\ Pub!AdvanceSettledState(n)
  /\ UNCHANGED <<seqVars, inbox, ghosts>>

\* The headers of a chain in the superblocks of L1 up to n
HeadersOnL1(c, n) ==
  {pf.header : pf \in {q \in UNION {contents[l1[k]] : k \in 1..(n - InitFinalized)} :
                         q.chain = c /\ q.header # None}}

\* The chain's block of the last superblock up to n that has one
SettledHeader(c, n) ==
  IF HeadersOnL1(c, n) = {} THEN SettledAtStart.block_header
  ELSE CHOOSE h \in HeadersOnL1(c, n) : \A g \in HeadersOnL1(c, n) : g.number <= h.number

SequencerSeesL1(c, n) ==
  /\ AdvanceSettledState(c, [block_header |-> SettledHeader(c, n),
                             superblock_number |-> n,
                             superblock_hash |-> Pub!SettledHash(n)])
  /\ UNCHANGED <<pubVars, inbox, ghosts>>

--------------------------------------------------------------------------------
\* The sequencers: the messages they take and the blocks they build

\* A handler that refuses its message leaves the sequencer as it was
Deliver(c) ==
  LET msg == Head(inbox[c]) IN
  /\ inbox[c] # <<>>
  /\ inbox' = [inbox EXCEPT ![c] = Tail(@)]
  /\ \/ /\ msg.type = "StartPeriod"
        /\ StartPeriod(c, msg.period, msg.target)
        /\ UNCHANGED <<origin, started, refused>>
     \/ /\ msg.type = "StartInstance"
        /\ IF MayStartInstance(c, msg.period, msg.seq)
           THEN /\ OnStartInstance(c, msg.id, msg.period, msg.seq)
                /\ started' = [started EXCEPT ![c] = @ \cup {msg.id}]
           ELSE UNCHANGED <<seqVars, started>>
        /\ UNCHANGED <<origin, refused>>
     \/ /\ msg.type = "Decided"
        /\ IF sequencer[c].active_instance_id = msg.id
           THEN OnDecidedInstance(c, msg.id)
           ELSE UNCHANGED seqVars
        /\ UNCHANGED <<origin, started, refused>>
     \/ /\ msg.type = "Rollback"
        /\ IF AtFinalized(c, msg.number, msg.hash)
           THEN /\ Rollback(c, msg.number, msg.hash, msg.period)
                /\ origin' = [origin EXCEPT ![c] = msg.epoch]
                /\ refused' = refused
           ELSE /\ refused' = refused \cup {c}
                /\ UNCHANGED <<seqVars, origin>>
        /\ started' = started
  /\ UNCHANGED <<pubVars, kept, contents, aimed, overtaken>>

\* A block's hash stands for what the block was built for
BlockHash(c) == [superblock |-> sequencer[c].pending_block.superblock_number,
                 origin |-> origin[c]]

BuildBlock(c) ==
  /\ \/ sequencer[c].head < MaxBlock /\ BeginBlock(c, sequencer[c].head + 1)
     \/ /\ sequencer[c].pending_block # None
        /\ EndBlock(c, [number |-> sequencer[c].pending_block.number,
                        hash |-> BlockHash(c)])
  /\ UNCHANGED <<pubVars, inbox, ghosts>>

Settle(call) ==
  /\ ReadHeader(call) \/ SendProof(call) \/ SettlementFails(call)
  /\ UNCHANGED <<pubVars, inbox, ghosts>>

Next ==
  \/ PublisherStartsPeriod
  \/ PublisherTimesOut
  \/ \E r \in XtRequest : PublisherStartsInstance(r)
  \/ \E i \in undecided : PublisherDecidesInstance(i)
  \/ \E pf \in sent : PublisherReceivesProof(pf)
  \/ \E call \in proving : PublisherProves(call)
  \/ \E sb \in published : L1AcceptsSuperblock(sb)
  \/ \E n \in (InitFinalized + 1)..Pub!LatestNumber :
       \/ PublisherSeesL1(n)
       \/ \E c \in Chain : SequencerSeesL1(c, n)
  \/ \E c \in Chain : Deliver(c) \/ BuildBlock(c)
  \/ \E call \in settling : Settle(call)

Spec == Init /\ [][Next]_vars

--------------------------------------------------------------------------------
\* Properties

InFlight(c, types) == {i \in DOMAIN inbox[c] : inbox[c][i].type \in types}

\* A sequencer with no StartPeriod or Rollback on its way is in the publisher's
\* period, and if it never refused a rollback it builds the publisher's target.
QuietAgreement ==
  \A c \in Chain : InFlight(c, {"StartPeriod", "Rollback"}) = {} =>
    /\ sequencer[c].period_id = period_id
    /\ c \notin refused => sequencer[c].target_superblock_number = target_superblock_number

\* The proofs the publisher keeps are of blocks built for their superblock since
\* the last rollback, although proofs of discarded blocks are still on their way
\* and the same superblock is built again: receive_proof's check of the period
\* tells them apart.  A chain that refused a rollback, and L1 settling what was
\* rolled back, are the exceptions.
KeptProofsCurrent ==
  \A pf \in kept :
    pf.header = None \/ pf.chain \in refused \/ overtaken
      \/ pf.header.hash = [superblock |-> pf.superblock, origin |-> epoch]

\* An instance holds a sequencer's lock only inside an open block of its period.
LockedInOwnBlock ==
  \A c \in Chain : sequencer[c].active_instance_id # None =>
    /\ sequencer[c].pending_block # None
    /\ sequencer[c].pending_block.period_id = sequencer[c].active_instance_id[1]

\* The instance is undecided, or its decision is on its way behind message k
WillBeDecided(c, id, k) ==
  \/ \E i \in undecided : InstanceId(i) = id
  \/ \E j \in InFlight(c, {"Decided"}) : j > k /\ inbox[c][j].id = id

\* A sequencer's lock is never orphaned: the instance that holds it is undecided,
\* or its decision is on its way.
LockReleasable ==
  \A c \in Chain : sequencer[c].active_instance_id # None =>
    WillBeDecided(c, sequencer[c].active_instance_id, 0)

\* A sequencer starts no instance id twice, although the publisher starts its
\* sequence numbers again after a rollback and issues the same ids.
StartsOnce ==
  [][\A c \in Chain :
       sequencer'[c].active_instance_id \notin {None, sequencer[c].active_instance_id}
         => sequencer'[c].active_instance_id \notin started[c]]_vars

\* The blocks a sequencer remembers are its own history: later periods have later
\* blocks of later superblocks, up to the head, and the head is not behind L1.
\* Unless L1 settles what was rolled back, or the chain refused a rollback: it then
\* keeps blocks of superblocks that the publisher builds again in later periods.
HistoryConsistent ==
  \A c \in Chain :
    LET s == sequencer[c] IN
    overtaken \/ c \in refused \/
      /\ \A p \in DOMAIN s.sealed_block_head :
           /\ s.sealed_block_head[p].period_id = p
           /\ s.sealed_block_head[p].block_header.number <= s.head
           /\ \A q \in DOMAIN s.sealed_block_head : p < q =>
                /\ s.sealed_block_head[p].block_header.number
                     < s.sealed_block_head[q].block_header.number
                /\ s.sealed_block_head[p].superblock_number
                     < s.sealed_block_head[q].superblock_number
      /\ s.settled_state.block_header.number <= s.head

\* A settlement of a period is of the superblock the publisher was at when the
\* period ended, so that every sequencer's proofs pair up: although rollbacks move
\* the target, a refused rollback leaves the sequencer at another one, and
\* end_block works the pair out from a later period than its block's.
SettlementsAsAnnounced ==
  \A call \in settling \cup sent :
    call.period \in DOMAIN aimed /\ aimed[call.period] = call.superblock

\* The publisher was at the superblock when the period ended
Announced(period, superblock) == period \in DOMAIN aimed /\ aimed[period] = superblock

\* What holds of a message until it is taken
MessageOK(c, k) ==
  LET msg == inbox[c][k] IN
  /\ msg.type \in {"StartPeriod", "Rollback"} => msg.period \in Nat
  /\ msg.type = "StartPeriod" => Announced(msg.period - 1, msg.target - 1)
  /\ msg.type = "StartInstance" => /\ msg.id[1] = msg.period
                                   /\ c \in Pub!chains_from_request(msg.id[3])
                                   /\ WillBeDecided(c, msg.id, k)

\* What a sequencer with an open block or a held lock remembers of the messages
SequencerOK(c) ==
  LET s == sequencer[c] IN
  /\ s.period_id \in Nat
  /\ s.pending_block # None /\ s.pending_block.period_id < s.period_id =>
       Announced(s.period_id - 1, s.target_superblock_number - 1)
  /\ s.active_instance_id # None => c \in Pub!chains_from_request(s.active_instance_id[3])

\* The sequencers' states and the messages are records, and the inboxes sequences
Shapes ==
  /\ sequencer = [c \in Chain |-> sequencer[c]]
  /\ \A c \in Chain : LET s == sequencer[c] IN
       s = [period_id |-> s.period_id,
            target_superblock_number |-> s.target_superblock_number,
            pending_block |-> s.pending_block,
            active_instance_id |-> s.active_instance_id,
            last_sequence_number |-> s.last_sequence_number,
            head |-> s.head,
            sealed_block_head |-> s.sealed_block_head,
            settled_state |-> s.settled_state]
  /\ \A call \in settling :
       call = [chain |-> call.chain, period |-> call.period,
               superblock |-> call.superblock, header |-> call.header,
               stage |-> call.stage]
  /\ inbox = [c \in Chain |-> inbox[c]]
  /\ \A c \in Chain : inbox[c] \in Seq(Range(inbox[c]))

\* The inductive invariant behind LockedInOwnBlock, LockReleasable and
\* SettlementsAsAnnounced: each message on its way still tells the truth when it is
\* taken, over later periods, decisions and rollbacks.
IndInv ==
  /\ Shapes
  /\ period_id \in Nat
  /\ {target_superblock_number, last_finalized_superblock_number} \subseteq Int
  /\ DOMAIN aimed \subseteq 0..(period_id - 1)
  /\ \A c \in Chain : SequencerOK(c) /\ \A k \in DOMAIN inbox[c] : MessageOK(c, k)
  /\ LockedInOwnBlock
  /\ LockReleasable
  /\ SettlementsAsAnnounced

================================================================================

----------------------------- MODULE SbcpPublisher -----------------------------
(***************************************************************************)
(* The superblock construction protocol's publisher, Publisher in          *)
(* crates/spec-sbcp/src/publisher.rs: periods, proof aggregation and       *)
(* instances behind one mutex.                                             *)
(*                                                                         *)
(* Every method is one critical section, its broadcasts included, except   *)
(* receive_proof: it releases the mutex while the prover runs, takes it    *)
(* again to drop the proofs, releases it and publishes.  Calls that return *)
(* an error or ignore their input change nothing and are stuttering steps. *)
(*                                                                         *)
(* The prover, L1 and the callers are external.  L1 accepts a published    *)
(* superblock that extends the latest by number and parent hash; its       *)
(* events may reach advance_settled_state late and with gaps.  A caller    *)
(* reports the decision of each instance it was given, at any later time.  *)
(***************************************************************************)
EXTENDS Collections, FiniteSets

CONSTANTS
  Chain,            \* the publisher's chains
  Sender,           \* chain ids a proof may arrive under
  XtRequest,
  TxChains,         \* TxChains[r]: chain id of each transaction request of r
  ProofWindow,      \* 0: no limit
  InitPeriod, InitTarget, InitFinalized,  \* the arguments of Publisher::new
  GenesisHash,      \* hash of superblock InitFinalized
  MaxPeriod,        \* bound: period_id
  MaxInstances,     \* bound: sequence numbers in a period
  MaxRollbacks      \* bound: rollbacks

ASSUME SbcpSets ==
  /\ IsFiniteSet(Chain)
  /\ Chain \subseteq Sender
  /\ TxChains \in [XtRequest -> Seq(Chain)]
ASSUME SbcpNumbers ==
  /\ {ProofWindow, MaxPeriod, MaxInstances, MaxRollbacks} \subseteq Nat
  /\ {InitPeriod, InitTarget, InitFinalized} \subseteq Nat
\* Publisher::new refuses a target below the finalized superblock
ASSUME ValidInitialState == InitTarget >= InitFinalized
\* A period builds one superblock: the caller's duty, unchecked by new
ASSUME OneSuperblockPerPeriod == InitTarget <= InitPeriod + InitFinalized + 1

VARIABLES
  period_id,
  target_superblock_number,
  last_finalized_superblock_number,
  last_finalized_superblock_hash,
  proofs,           \* superblock -> chains whose proof is in
  sequence_number,
  active_chains,
  proving,          \* running receive_proof calls: [superblock, chains, stage]
  published,        \* superblocks passed to publish_proof
  announced,        \* superblock -> period last announced as building it
  undecided,        \* instances whose decision has not been reported
  epoch,            \* rollbacks so far
  l1                \* superblocks accepted by L1 after InitFinalized

messages == <<published, announced>>
building == <<period_id, target_superblock_number>>
finalized == <<last_finalized_superblock_number, last_finalized_superblock_hash>>
instances == <<sequence_number, active_chains, undecided>>
vars == <<building, finalized, proofs, instances, proving, messages, epoch, l1>>

chains_from_request(r) == Range(TxChains[r])

\* A superblock as the prover aggregates it; its hash is taken as injective.  The
\* epoch tells apart the blocks built before and after a rollback.
Superblock(n) == [number |-> n, parent |-> last_finalized_superblock_hash, epoch |-> epoch]

LatestHash == IF l1 = <<>> THEN GenesisHash ELSE l1[Len(l1)]
LatestNumber == InitFinalized + Len(l1)
SettledHash(n) == IF n = InitFinalized THEN GenesisHash ELSE l1[n - InitFinalized]

--------------------------------------------------------------------------------
\* Publisher::new
Init ==
  /\ period_id = InitPeriod
  /\ target_superblock_number = InitTarget
  /\ last_finalized_superblock_number = InitFinalized
  /\ last_finalized_superblock_hash = GenesisHash
  /\ proofs = EmptyMap
  /\ sequence_number = 0
  /\ active_chains = {}
  /\ proving = {}
  /\ published = {}
  /\ announced = EmptyMap
  /\ undecided = {}
  /\ epoch = 0
  /\ l1 = <<>>

--------------------------------------------------------------------------------
WithinProofWindow ==
  \/ ProofWindow = 0
  \/ target_superblock_number + 1 <= last_finalized_superblock_number + 1 + ProofWindow

NextPeriod_Same == period_id
NextPeriod == period_id + 1

\* start_period
StartPeriod ==
  /\ period_id < MaxPeriod
  /\ WithinProofWindow
  /\ period_id' = NextPeriod
  /\ target_superblock_number' = target_superblock_number + 1
  /\ announced' = Insert(announced, target_superblock_number + 1, period_id')
  /\ sequence_number' = 0
  /\ UNCHANGED <<finalized, proofs, active_chains, undecided, proving, published,
                 epoch, l1>>

\* The period receive_proof expects a superblock's proof from.  The subtraction
\* of u64s must not underflow: see PeriodArithmeticSafe.
ExpectedPeriod(n) == period_id - (target_superblock_number - n)

Keeps_Unterminated(p, n, c) ==
  /\ n = last_finalized_superblock_number + 1
  /\ p = ExpectedPeriod(n)
  /\ n \in DOMAIN proofs => c \notin proofs[n]

Keeps_AnyPeriod(p, n, c) ==
  /\ n = last_finalized_superblock_number + 1
  /\ n < target_superblock_number
  /\ n \in DOMAIN proofs => c \notin proofs[n]

\* The proofs receive_proof keeps.  It does not ask whether the chain is one of
\* the publisher's.
Keeps(p, n, c) ==
  /\ n = last_finalized_superblock_number + 1
  /\ n < target_superblock_number
  /\ p = ExpectedPeriod(n)
  /\ n \in DOMAIN proofs => c \notin proofs[n]

ChainsWith(n, c) == {c} \cup UNION {proofs[m] : m \in {n} \cap DOMAIN proofs}

\* receive_proof up to releasing the mutex, and to the prover's call if the
\* proofs are enough in number
ReceiveProof(p, n, c) ==
  /\ Keeps(p, n, c)
  /\ proofs' = Insert(proofs, n, ChainsWith(n, c))
  /\ proving' = IF Cardinality(ChainsWith(n, c)) < Cardinality(Chain) THEN proving
                ELSE proving \cup {[superblock |-> Superblock(n),
                                    chains |-> ChainsWith(n, c), stage |-> "proving"]}
  /\ UNCHANGED <<building, finalized, instances, messages, epoch, l1>>

\* The prover returns a proof and the mutex is taken to drop the chains' proofs
ProverSucceeds(call) ==
  /\ call.stage = "proving"
  /\ proofs' = RemoveKeys(proofs, {call.superblock.number})
  /\ proving' = (proving \ {call}) \cup {[call EXCEPT !.stage = "proved"]}
  /\ UNCHANGED <<building, finalized, instances, messages, epoch, l1>>

\* publish_proof
Publish(call) ==
  /\ call.stage = "proved"
  /\ published' = published \cup {call.superblock}
  /\ proving' = proving \ {call}
  /\ UNCHANGED <<building, finalized, proofs, instances, announced, epoch, l1>>

TargetAfterRollback_Kept == target_superblock_number
TargetAfterRollback_Finalized == last_finalized_superblock_number
TargetAfterRollback == last_finalized_superblock_number + 1

\* rollback: the Rollback broadcast makes the sequencers build the superblock
\* after the finalized one in the current period
rollback ==
  /\ epoch < MaxRollbacks
  /\ active_chains' = {}
  /\ sequence_number' = 0
  /\ target_superblock_number' = TargetAfterRollback
  /\ announced' = Insert(announced, last_finalized_superblock_number + 1, period_id)
  /\ proofs' = EmptyMap
  /\ epoch' = epoch + 1
  /\ UNCHANGED <<period_id, finalized, published, undecided, l1>>

\* The prover returns an error
ProverFails(call) ==
  /\ call.stage = "proving"
  /\ rollback
  /\ proving' = proving \ {call}

\* proof_timeout
ProofTimeout == rollback /\ UNCHANGED proving

any_chain_already_active_All(r) == chains_from_request(r) \subseteq active_chains
any_chain_already_active(r) == chains_from_request(r) \cap active_chains # {}

\* start_instance
StartInstance(r) ==
  /\ sequence_number < MaxInstances
  /\ Len(TxChains[r]) >= 2
  /\ ~any_chain_already_active(r)
  /\ sequence_number' = sequence_number + 1
  /\ active_chains' = active_chains \cup chains_from_request(r)
  /\ undecided' = undecided \cup {[period |-> period_id, seq |-> sequence_number',
                                   request |-> r, epoch |-> epoch]}
  /\ UNCHANGED <<building, finalized, proofs, proving, messages, epoch, l1>>

\* decide_instance; when a chain is not active it returns ChainNotActive and
\* releases none
DecideInstance(i) ==
  /\ undecided' = undecided \ {i}
  /\ active_chains' = IF chains_from_request(i.request) \subseteq active_chains
                      THEN active_chains \ chains_from_request(i.request)
                      ELSE active_chains
  /\ UNCHANGED <<building, finalized, proofs, sequence_number, proving, messages,
                 epoch, l1>>

HashAfterSettling_Kept(n) == last_finalized_superblock_hash
HashAfterSettling(n) == SettledHash(n)

\* advance_settled_state, on the event of superblock n
AdvanceSettledState(n) ==
  /\ n > last_finalized_superblock_number
  /\ last_finalized_superblock_number' = n
  /\ last_finalized_superblock_hash' = HashAfterSettling(n)
  /\ UNCHANGED <<building, proofs, instances, proving, messages, epoch, l1>>

--------------------------------------------------------------------------------
\* Environment: L1 accepts a published superblock
L1Accepts(sb) ==
  /\ sb.number = LatestNumber + 1
  /\ sb.parent = LatestHash
  /\ l1' = Append(l1, sb)
  /\ UNCHANGED <<building, finalized, proofs, instances, proving, messages, epoch>>

Next ==
  \/ StartPeriod
  \/ \E p \in 0..MaxPeriod, n \in 1..(InitTarget + MaxPeriod), c \in Sender :
       ReceiveProof(p, n, c)
  \/ \E call \in proving : ProverSucceeds(call) \/ Publish(call) \/ ProverFails(call)
  \/ ProofTimeout
  \/ \E r \in XtRequest : StartInstance(r)
  \/ \E i \in undecided : DecideInstance(i)
  \/ \E n \in (InitFinalized + 1)..LatestNumber : AdvanceSettledState(n)
  \/ \E sb \in published : L1Accepts(sb)

Spec == Init /\ [][Next]_vars

--------------------------------------------------------------------------------
\* Properties

\* Every variable has its type; receive_proof stores proofs of terminated
\* superblocks only.
TypeOK ==
  /\ period_id \in Nat
  /\ target_superblock_number \in Nat
  /\ last_finalized_superblock_number \in Nat
  /\ IsMap(proofs, 1..(target_superblock_number - 1), SUBSET Sender)
  /\ sequence_number \in 0..MaxInstances
  /\ active_chains \subseteq Chain
  /\ \A call \in proving : /\ call.superblock.number \in Nat
                           /\ call.chains \subseteq Sender
                           /\ call.stage \in {"proving", "proved"}
  /\ \A sb \in published : sb.number \in Nat
  /\ IsMap(announced, Nat, Nat)
  /\ undecided \subseteq [period : Nat, seq : Nat, request : XtRequest, epoch : Nat]
  /\ epoch \in 0..MaxRollbacks
  /\ l1 \in Seq(published)

\* What Publisher::new demands of its arguments holds ever after: the target is
\* never below the finalized superblock, although rollback moves it down and a
\* superblock published before the rollback may settle after it.
TargetNotBelowFinalized == target_superblock_number >= last_finalized_superblock_number

\* receive_proof's period_id - (target - superblock) cannot underflow: at most one
\* superblock is targeted per period, through rollbacks and late settlement.
PeriodArithmeticSafe ==
  target_superblock_number <= period_id + last_finalized_superblock_number + 1

\* receive_proof expects each open superblock's proof from the period that was
\* last announced to the sequencers as building it, by StartPeriod or Rollback:
\* an honest proof is never dropped for its period.
ExpectsAnnouncedPeriod ==
  \A n \in DOMAIN announced :
    last_finalized_superblock_number < n /\ n <= target_superblock_number
      => announced[n] = ExpectedPeriod(n)

\* The finalized number and hash, which a Rollback carries and the prover chains
\* on, are those of one superblock that L1 accepted.
FinalizedPairOnL1 ==
  /\ last_finalized_superblock_number \in InitFinalized..LatestNumber
  /\ last_finalized_superblock_hash = SettledHash(last_finalized_superblock_number)

\* Until the first rollback the active chains are exactly those of the instances
\* still undecided, over periods that end while instances are open.
ActiveChainsExact ==
  epoch = 0 => active_chains = UNION {chains_from_request(i.request) : i \in undecided}

\* Superblocks being proved or published
SuperblocksUnderWay == published \cup {call.superblock : call \in proving}

\* The inductive invariant.  No superblock under way or on L1 is more than one
\* ahead of the finalized one, nor beyond the target: a rollback moves the target
\* down to the one after the finalized superblock, and no further.
IndInv ==
  /\ TypeOK
  /\ FinalizedPairOnL1
  /\ PeriodArithmeticSafe
  /\ ExpectsAnnouncedPeriod
  /\ ActiveChainsExact
  /\ \A call \in proving : call = [superblock |-> call.superblock, chains |-> call.chains,
                                   stage |-> call.stage]
  /\ \A n \in {sb.number : sb \in SuperblocksUnderWay} \cup {LatestNumber} :
       n <= last_finalized_superblock_number + 1 /\ n <= target_superblock_number
  /\ epoch = 0 => \A i, j \in undecided : i # j =>
       chains_from_request(i.request) \cap chains_from_request(j.request) = {}

--------------------------------------------------------------------------------
\* What the code's comments say and the code does not keep

\* proof_timeout "triggers a rollback to the last finalized superblock": nothing
\* built before a rollback is published after it.  receive_proof publishes what
\* the prover returns without looking whether a rollback came in between.
PublishedIsCurrent == [][\A sb \in published' \ published : sb.epoch = epoch]_vars

================================================================================

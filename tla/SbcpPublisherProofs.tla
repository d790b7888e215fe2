-------------------------- MODULE SbcpPublisherProofs --------------------------
(***************************************************************************)
(* The safety of the SBCP publisher, for all chains, requests, proof       *)
(* windows, initial numbers that satisfy the assumptions, and bounds.      *)
(*                                                                         *)
(* That the target never falls below the finalized superblock is not       *)
(* inductive: advance_settled_state would break it if L1 were ahead of the *)
(* target.  L1 never is, because it grows by superblocks whose proofs the  *)
(* publisher kept while they were the one after the finalized superblock.  *)
(*                                                                         *)
(* And of the ids that generate_instance_id, of the same crate, gives to   *)
(* instances, for requests of every length.  Their preimages are compared  *)
(* from the left: no part of one is a proper beginning of the part of the  *)
(* other at the same place.  This is proved by induction, stated for a set *)
(* of numbers, along the prefixes that FlattenSeq computes.                *)
(***************************************************************************)
EXTENDS SbcpPublisher, Wire, SequenceTheorems, WellFoundedInduction, TLAPS

\* The inductive invariant, grouped by the part of the state it is about.

NumbersOK ==
  /\ {period_id, target_superblock_number, last_finalized_superblock_number} \subseteq Nat
  /\ IsMap(announced, Nat, Nat)
  /\ PeriodArithmeticSafe
  /\ ExpectsAnnouncedPeriod

ProofsOK == IsMap(proofs, 1..(target_superblock_number - 1), SUBSET Sender)

InstancesOK ==
  /\ sequence_number \in 0..MaxInstances
  /\ epoch \in 0..MaxRollbacks
  /\ active_chains \subseteq Chain
  /\ undecided \subseteq [period : Nat, seq : Nat, request : XtRequest, epoch : Nat]
  /\ ActiveChainsExact
  /\ epoch = 0 => \A i, j \in undecided : i # j =>
       chains_from_request(i.request) \cap chains_from_request(j.request) = {}

CallOK(call) ==
  /\ call = [superblock |-> call.superblock, chains |-> call.chains, stage |-> call.stage]
  /\ call.chains \subseteq Sender
  /\ call.stage \in {"proving", "proved"}

UnderWay(n) ==
  /\ n \in Nat
  /\ n <= last_finalized_superblock_number + 1
  /\ n <= target_superblock_number

L1OK ==
  /\ \A call \in proving : CallOK(call) /\ UnderWay(call.superblock.number)
  /\ \A sb \in published : UnderWay(sb.number)
  /\ l1 \in Seq(published)
  /\ FinalizedPairOnL1
  /\ UnderWay(LatestNumber)

\* The groups make up the invariant.
LEMMA Grouping == IndInv <=> NumbersOK /\ ProofsOK /\ InstancesOK /\ L1OK
<1>1. ASSUME IndInv PROVE NumbersOK /\ ProofsOK /\ InstancesOK /\ L1OK
  <2>1. NumbersOK /\ ProofsOK /\ InstancesOK
    BY Zenon, <1>1 DEF IndInv, TypeOK, NumbersOK, ProofsOK, InstancesOK
  <2>2. \A call \in proving : CallOK(call) /\ UnderWay(call.superblock.number)
    BY <1>1 DEF IndInv, TypeOK, CallOK, UnderWay, SuperblocksUnderWay
  <2>3. \A sb \in published : UnderWay(sb.number)
    BY <1>1 DEF IndInv, TypeOK, UnderWay, SuperblocksUnderWay
  <2>4. l1 \in Seq(published) /\ FinalizedPairOnL1
    BY <1>1 DEF IndInv, TypeOK
  <2>5. LatestNumber \in Nat
    BY <2>4, SbcpNumbers DEF LatestNumber
  <2>6. UnderWay(LatestNumber)
    BY <1>1, <2>5 DEF IndInv, UnderWay
  <2> QED
    BY <2>1, <2>2, <2>3, <2>4, <2>6 DEF L1OK
<1>2. ASSUME NumbersOK, ProofsOK, InstancesOK, L1OK PROVE IndInv
  <2>1. TypeOK
    BY <1>2 DEF TypeOK, NumbersOK, ProofsOK, InstancesOK, L1OK, CallOK, UnderWay
  <2> QED
    BY ZenonT(30), <1>2, <2>1
       DEF IndInv, NumbersOK, InstancesOK, L1OK, CallOK, UnderWay, SuperblocksUnderWay
<1> QED
  BY Zenon, <1>1, <1>2

\* The invariant implies what Publisher::new demands of its arguments.
LEMMA TargetFromInvariant == IndInv => TargetNotBelowFinalized
BY SMTT(20), Grouping, SbcpNumbers
   DEF TargetNotBelowFinalized, L1OK, FinalizedPairOnL1, UnderWay, NumbersOK, LatestNumber

--------------------------------------------------------------------------------
\* Publisher::new establishes the invariant.
LEMMA IndInvInit == Init => IndInv
<1> SUFFICES ASSUME Init PROVE NumbersOK /\ ProofsOK /\ InstancesOK /\ L1OK
  BY Zenon, Grouping
<1> USE SbcpNumbers, ValidInitialState, OneSuperblockPerPeriod DEF Init
<1>1. NumbersOK
  BY DEF NumbersOK, PeriodArithmeticSafe, ExpectsAnnouncedPeriod, IsMap, EmptyMap
<1>2. ProofsOK
  BY DEF ProofsOK, IsMap, EmptyMap
<1>3. InstancesOK
  BY DEF InstancesOK, ActiveChainsExact
<1>4. L1OK
  BY DEF L1OK, UnderWay, FinalizedPairOnL1, LatestNumber, SettledHash
<1> QED
  BY <1>1, <1>2, <1>3, <1>4

--------------------------------------------------------------------------------
\* Periods and targets: a new period moves both by one, and a rollback announces
\* the one superblock that stays open.

LEMMA StartPeriodNumbers ==
  ASSUME NumbersOK, StartPeriod PROVE NumbersOK'
<1> USE DEF NumbersOK, StartPeriod, NextPeriod, finalized
<1>1. IsMap(announced', Nat, Nat)
  <2>1. target_superblock_number + 1 \in Nat /\ period_id + 1 \in Nat
    OBVIOUS
  <2> QED
    BY <2>1 DEF IsMap, Insert
<1>2. PeriodArithmeticSafe'
  BY DEF PeriodArithmeticSafe
<1>3. /\ DOMAIN announced' = DOMAIN announced \cup {target_superblock_number + 1}
      /\ \A n \in DOMAIN announced' :
           announced'[n] = IF n = target_superblock_number + 1 THEN period_id + 1
                           ELSE announced[n]
  BY DEF Insert
<1>4. ExpectsAnnouncedPeriod'
  BY <1>1, <1>3 DEF ExpectsAnnouncedPeriod, ExpectedPeriod, IsMap
<1> QED
  BY <1>1, <1>2, <1>4

LEMMA RollbackNumbers ==
  ASSUME NumbersOK, rollback PROVE NumbersOK'
<1> USE DEF NumbersOK, rollback, TargetAfterRollback, finalized
<1>1. IsMap(announced', Nat, Nat)
  <2>1. last_finalized_superblock_number + 1 \in Nat /\ period_id \in Nat
    OBVIOUS
  <2> QED
    BY <2>1 DEF IsMap, Insert
<1>2. PeriodArithmeticSafe'
  BY DEF PeriodArithmeticSafe
<1>3. announced'[last_finalized_superblock_number + 1] = period_id
  BY DEF Insert
<1>4. ExpectsAnnouncedPeriod'
  BY <1>1, <1>3 DEF ExpectsAnnouncedPeriod, ExpectedPeriod, IsMap
<1> QED
  BY <1>1, <1>2, <1>4

LEMMA SettledNumbers ==
  ASSUME NumbersOK, L1OK, NEW n \in (InitFinalized + 1)..LatestNumber, AdvanceSettledState(n)
  PROVE  NumbersOK'
<1> USE DEF NumbersOK, AdvanceSettledState, building, messages
<1>1. n \in Nat
  BY SbcpNumbers DEF L1OK, UnderWay
<1>2. PeriodArithmeticSafe'
  BY <1>1 DEF PeriodArithmeticSafe
<1>3. ExpectsAnnouncedPeriod'
  BY <1>1 DEF ExpectsAnnouncedPeriod, ExpectedPeriod, IsMap
<1> QED
  BY <1>1, <1>2, <1>3

\* Only these three steps change periods, targets and announcements.
LEMMA NumbersStep ==
  ASSUME NumbersOK, L1OK, [Next]_vars PROVE NumbersOK'
<1>1. CASE UNCHANGED <<building, last_finalized_superblock_number, announced>>
  BY <1>1
     DEF NumbersOK, building, PeriodArithmeticSafe, ExpectsAnnouncedPeriod, ExpectedPeriod, IsMap
<1>2. ASSUME NEW call \in proving, ProverFails(call) PROVE NumbersOK'
  BY Zenon, <1>2, RollbackNumbers DEF ProverFails
<1>3. CASE ProofTimeout
  BY Zenon, <1>3, RollbackNumbers DEF ProofTimeout
<1> QED
  BY Zenon, <1>1, <1>2, <1>3, StartPeriodNumbers, SettledNumbers
     DEF Next, vars, finalized, messages, ReceiveProof, ProverSucceeds, Publish, StartInstance,
         DecideInstance, L1Accepts

--------------------------------------------------------------------------------
\* receive_proof stores proofs of terminated superblocks, and a rollback that moves
\* the target down drops them all.
LEMMA ProofsStep ==
  ASSUME NumbersOK, ProofsOK, [Next]_vars PROVE ProofsOK'
<1>1. CASE UNCHANGED <<target_superblock_number, proofs>>
  BY <1>1 DEF ProofsOK, IsMap
<1>2. CASE StartPeriod
  BY <1>2 DEF StartPeriod, ProofsOK, NumbersOK, IsMap
<1>3. ASSUME NEW p, NEW n, NEW c \in Sender, ReceiveProof(p, n, c) PROVE ProofsOK'
  <2>1. n \in 1..(target_superblock_number - 1)
    BY <1>3 DEF ReceiveProof, Keeps, NumbersOK
  <2>2. ChainsWith(n, c) \in SUBSET Sender
    BY DEF ChainsWith, ProofsOK, IsMap
  <2>3. IsMap(proofs', 1..(target_superblock_number - 1), SUBSET Sender)
    BY <1>3, <2>1, <2>2 DEF ReceiveProof, ProofsOK, IsMap, Insert
  <2>4. target_superblock_number' = target_superblock_number
    BY Zenon, <1>3 DEF ReceiveProof, building
  <2> QED
    BY Zenon, <2>3, <2>4 DEF ProofsOK
<1>4. ASSUME NEW call, ProverSucceeds(call) PROVE ProofsOK'
  <2>1. IsMap(proofs', 1..(target_superblock_number - 1), SUBSET Sender)
    BY <1>4 DEF ProverSucceeds, ProofsOK, IsMap, RemoveKeys, Restrict
  <2>2. target_superblock_number' = target_superblock_number
    BY Zenon, <1>4 DEF ProverSucceeds, building
  <2> QED
    BY Zenon, <2>1, <2>2 DEF ProofsOK
<1>5. CASE rollback
  BY <1>5 DEF rollback, ProofsOK, IsMap, EmptyMap
<1> QED
  BY Zenon, <1>1, <1>2, <1>3, <1>4, <1>5
     DEF Next, vars, building, Publish, ProverFails, ProofTimeout, StartInstance, DecideInstance,
         AdvanceSettledState, L1Accepts

--------------------------------------------------------------------------------
\* Instances

\* A request's chains are the publisher's.
LEMMA RequestChains ==
  ASSUME NEW r \in XtRequest PROVE chains_from_request(r) \subseteq Chain
<1>1. TxChains[r] \in Seq(Chain)
  BY SbcpSets
<1> QED
  BY <1>1 DEF chains_from_request, Range

\* start_instance: a new instance's chains are active in no other.
LEMMA StartInstanceInstances ==
  ASSUME NumbersOK, InstancesOK, NEW r \in XtRequest, StartInstance(r) PROVE InstancesOK'
<1> DEFINE new == [period |-> period_id, seq |-> sequence_number', request |-> r, epoch |-> epoch]
<1>1. /\ sequence_number' \in 0..MaxInstances /\ epoch' = epoch
      /\ active_chains' = active_chains \cup chains_from_request(r)
      /\ undecided' = undecided \cup {new}
      /\ chains_from_request(r) \cap active_chains = {}
  BY SMTT(20), SbcpNumbers DEF InstancesOK, StartInstance, any_chain_already_active
<1>2. new \in [period : Nat, seq : Nat, request : XtRequest, epoch : Nat] /\ new.request = r
  BY <1>1, SbcpNumbers DEF NumbersOK, InstancesOK
<1> HIDE DEF new
<1>3. ActiveChainsExact'
  BY <1>1, <1>2 DEF InstancesOK, ActiveChainsExact, chains_from_request
<1>4. epoch' = 0 => \A i, j \in undecided' : i # j =>
        chains_from_request(i.request) \cap chains_from_request(j.request) = {}
  BY <1>1, <1>2 DEF InstancesOK, ActiveChainsExact
<1> QED
  BY <1>1, <1>2, <1>3, <1>4, RequestChains DEF InstancesOK, chains_from_request

\* decide_instance: the chains released are no other instance's.
LEMMA DecideInstanceInstances ==
  ASSUME InstancesOK, NEW i \in undecided, DecideInstance(i) PROVE InstancesOK'
<1>1. /\ undecided' = undecided \ {i} /\ UNCHANGED <<sequence_number, epoch>>
      /\ active_chains' \subseteq active_chains
  BY DEF DecideInstance
<1>2. ASSUME epoch = 0
      PROVE  active_chains' = active_chains \ chains_from_request(i.request)
  BY <1>2 DEF InstancesOK, ActiveChainsExact, DecideInstance
<1>3. ActiveChainsExact'
  BY <1>1, <1>2 DEF InstancesOK, ActiveChainsExact, chains_from_request
<1> QED
  BY <1>1, <1>3 DEF InstancesOK, chains_from_request

LEMMA InstancesStep ==
  ASSUME NumbersOK, InstancesOK, [Next]_vars PROVE InstancesOK'
<1>1. CASE UNCHANGED <<instances, epoch>>
  BY <1>1 DEF InstancesOK, instances, ActiveChainsExact, chains_from_request
<1>2. CASE StartPeriod
  BY <1>2, SbcpNumbers DEF StartPeriod, InstancesOK, ActiveChainsExact, chains_from_request
<1>3. CASE rollback
  BY <1>3, SbcpNumbers DEF rollback, InstancesOK, ActiveChainsExact, chains_from_request
<1> QED
  BY Zenon, <1>1, <1>2, <1>3, StartInstanceInstances, DecideInstanceInstances
     DEF Next, vars, ReceiveProof, ProverSucceeds, Publish, ProverFails, ProofTimeout,
         AdvanceSettledState, L1Accepts

--------------------------------------------------------------------------------
\* Superblocks under way and L1

\* A step that leaves L1, the finalized superblock and what is under way alone, and
\* does not move the target down, keeps L1OK.
LEMMA L1Frame ==
  ASSUME NumbersOK, NumbersOK', L1OK, UNCHANGED <<finalized, published, proving, l1>>,
         target_superblock_number' >= target_superblock_number
  PROVE  L1OK'
BY DEF L1OK, NumbersOK, finalized, CallOK, UnderWay, FinalizedPairOnL1, LatestNumber, SettledHash

\* receive_proof: a superblock goes to the prover while it is the one after the
\* finalized one and terminated.
LEMMA ReceiveProofL1 ==
  ASSUME NumbersOK, ProofsOK, L1OK, NEW p, NEW n, NEW c \in Sender, ReceiveProof(p, n, c)
  PROVE  L1OK'
<1> DEFINE call == [superblock |-> Superblock(n), chains |-> ChainsWith(n, c),
                    stage |-> "proving"]
<1>1. proving' \subseteq proving \cup {call}
  BY DEF ReceiveProof
<1>2. UNCHANGED <<building, finalized, published, l1>>
  BY DEF ReceiveProof, messages
<1>3. UnderWay(n)
  BY DEF ReceiveProof, Keeps, NumbersOK, UnderWay
<1>4. ChainsWith(n, c) \subseteq Sender
  BY DEF ChainsWith, ProofsOK, IsMap
<1>5. CallOK(call) /\ call.superblock.number = n
  BY <1>4 DEF CallOK, Superblock
<1> HIDE DEF call
<1>6. \A d \in proving' : CallOK(d) /\ UnderWay(d.superblock.number)
  BY <1>1, <1>3, <1>5 DEF L1OK
<1> QED
  BY <1>2, <1>6
     DEF L1OK, building, finalized, CallOK, UnderWay, FinalizedPairOnL1, LatestNumber, SettledHash

\* The prover's result, its publication and a failed call add no other superblock.
LEMMA ProverL1 ==
  ASSUME NumbersOK, L1OK, NEW call \in proving, ProverSucceeds(call) \/ Publish(call)
  PROVE  L1OK'
<1>1. UNCHANGED <<building, finalized, l1>>
  BY DEF ProverSucceeds, Publish
<1>2. \A d \in proving' : CallOK(d) /\ UnderWay(d.superblock.number)
  <2>1. CASE ProverSucceeds(call)
    <3> DEFINE proved == [call EXCEPT !.stage = "proved"]
    <3>1. CallOK(proved) /\ proved.superblock = call.superblock
      BY DEF L1OK, CallOK
    <3> HIDE DEF proved
    <3>2. proving' \subseteq proving \cup {proved}
      BY <2>1 DEF ProverSucceeds, proved
    <3> QED
      BY <3>1, <3>2 DEF L1OK
  <2>2. CASE Publish(call)
    BY <2>2 DEF Publish, L1OK
  <2> QED
    BY <2>1, <2>2
<1>3. /\ published \subseteq published'
      /\ \A sb \in published' : sb \in published \/ sb = call.superblock
  BY DEF ProverSucceeds, Publish, messages
<1>4. \A sb \in published' : UnderWay(sb.number)
  BY <1>3 DEF L1OK
<1>5. l1' \in Seq(published')
  BY <1>1, <1>3 DEF L1OK
<1> QED
  BY <1>1, <1>2, <1>4, <1>5
     DEF L1OK, building, finalized, CallOK, UnderWay, FinalizedPairOnL1, LatestNumber, SettledHash

\* rollback moves the target down to the superblock after the finalized one, beyond
\* which nothing is under way.
LEMMA RollbackL1 ==
  ASSUME NumbersOK, L1OK, rollback, proving' \subseteq proving PROVE L1OK'
BY DEF NumbersOK, L1OK, rollback, TargetAfterRollback, finalized, CallOK, UnderWay,
       FinalizedPairOnL1, LatestNumber, SettledHash

\* advance_settled_state takes number and hash from one event.
LEMMA SettledL1 ==
  ASSUME NumbersOK, L1OK, NEW n \in (InitFinalized + 1)..LatestNumber, AdvanceSettledState(n)
  PROVE  L1OK'
<1>1. /\ UNCHANGED <<building, published, proving, l1>>
      /\ last_finalized_superblock_number' = n
      /\ last_finalized_superblock_hash' = SettledHash(n)
      /\ n > last_finalized_superblock_number
  BY DEF AdvanceSettledState, HashAfterSettling, messages
<1>2. LatestNumber' = LatestNumber /\ SettledHash(n)' = SettledHash(n)
  BY <1>1 DEF LatestNumber, SettledHash
<1>3. n \in InitFinalized..LatestNumber /\ n \in Nat
  BY SbcpNumbers DEF L1OK, UnderWay
<1>4. FinalizedPairOnL1'
  BY <1>1, <1>2, <1>3 DEF FinalizedPairOnL1, SettledHash
<1>5. \A k : UnderWay(k) => UnderWay(k)'
  BY <1>1, <1>3 DEF UnderWay, building, NumbersOK
<1> QED
  BY <1>1, <1>2, <1>4, <1>5 DEF L1OK, CallOK

\* L1 accepts the published superblock after its latest one.
LEMMA L1AcceptsL1 ==
  ASSUME NumbersOK, L1OK, NEW sb \in published, L1Accepts(sb) PROVE L1OK'
<1>1. UNCHANGED <<building, finalized, published, proving>>
  BY DEF L1Accepts, messages
<1>2. /\ l1' \in Seq(published) /\ Len(l1') = Len(l1) + 1
      /\ \A k \in 1..Len(l1) : l1'[k] = l1[k]
  BY DEF L1Accepts, L1OK
<1>3. LatestNumber' = sb.number /\ LatestNumber \in Nat
  BY <1>2, SbcpNumbers DEF L1Accepts, LatestNumber, L1OK, UnderWay
<1>4. FinalizedPairOnL1'
  <2> DEFINE n == last_finalized_superblock_number
  <2>1. /\ n \in InitFinalized..LatestNumber
        /\ last_finalized_superblock_hash = SettledHash(n)
    BY DEF L1OK, FinalizedPairOnL1
  <2>2. n = InitFinalized \/ n - InitFinalized \in 1..Len(l1)
    BY SMTT(20), <2>1, SbcpNumbers DEF L1OK, NumbersOK, LatestNumber
  <2>3. (IF n = InitFinalized THEN GenesisHash ELSE l1'[n - InitFinalized]) = SettledHash(n)
    BY <1>2, <2>2 DEF SettledHash
  <2>4. n \in InitFinalized..LatestNumber'
    BY <1>2, <2>1, SbcpNumbers DEF L1OK, LatestNumber
  <2> QED
    BY <1>1, <2>1, <2>3, <2>4 DEF finalized, FinalizedPairOnL1, SettledHash
<1> QED
  BY <1>1, <1>2, <1>3, <1>4 DEF L1OK, building, finalized, CallOK, UnderWay

LEMMA L1Step ==
  ASSUME NumbersOK, NumbersOK', ProofsOK, L1OK, [Next]_vars PROVE L1OK'
<1>1. CASE UNCHANGED <<target_superblock_number, finalized, published, proving, l1>>
  BY <1>1, L1Frame DEF NumbersOK
<1>2. CASE StartPeriod
  BY <1>2, L1Frame DEF StartPeriod, NumbersOK
<1>3. ASSUME NEW call \in proving, ProverFails(call) PROVE L1OK'
  BY <1>3, RollbackL1 DEF ProverFails
<1>4. CASE ProofTimeout
  BY <1>4, RollbackL1 DEF ProofTimeout
<1> QED
  BY Zenon, <1>1, <1>2, <1>3, <1>4, ReceiveProofL1, ProverL1, SettledL1, L1AcceptsL1
     DEF Next, vars, building, messages, StartInstance, DecideInstance

--------------------------------------------------------------------------------
\* Every call, and every step of L1, keeps the invariant.
LEMMA IndInvStep == IndInv /\ [Next]_vars => IndInv'
<1> SUFFICES ASSUME NumbersOK, ProofsOK, InstancesOK, L1OK, [Next]_vars
             PROVE  NumbersOK' /\ ProofsOK' /\ InstancesOK' /\ L1OK'
  BY PTL, Grouping
<1> QED
  BY Zenon, NumbersStep, ProofsStep, InstancesStep, L1Step

\* The inductive invariant of the publisher holds in every reachable state.
THEOREM Invariance == Spec => []IndInv
BY IndInvInit, IndInvStep, PTL DEF Spec

\* Types; receive_proof stores proofs of terminated superblocks only.
THEOREM TypeCorrect == Spec => []TypeOK
<1>1. IndInv => TypeOK
  BY DEF IndInv
<1> QED
  BY <1>1, Invariance, PTL

\* rollback, advance_settled_state: the target stays at or above the finalized
\* superblock, over any number of rollbacks and late settlements.
THEOREM TargetSafety == Spec => []TargetNotBelowFinalized
BY TargetFromInvariant, Invariance, PTL

\* receive_proof: the subtractions of u64s never underflow, over any number of
\* periods and rollbacks.
THEOREM ArithmeticSafety == Spec => []PeriodArithmeticSafe
<1>1. IndInv => PeriodArithmeticSafe
  BY DEF IndInv
<1> QED
  BY <1>1, Invariance, PTL

\* receive_proof: each open superblock's proof is expected from the period announced
\* for it.
THEOREM PeriodSafety == Spec => []ExpectsAnnouncedPeriod
<1>1. IndInv => ExpectsAnnouncedPeriod
  BY DEF IndInv
<1> QED
  BY <1>1, Invariance, PTL

\* advance_settled_state: number and hash of the finalized superblock are those of
\* one superblock of L1.
THEOREM FinalizedSafety == Spec => []FinalizedPairOnL1
<1>1. IndInv => FinalizedPairOnL1
  BY DEF IndInv
<1> QED
  BY <1>1, Invariance, PTL

\* start_instance, decide_instance: until the first rollback the active chains are
\* those of the undecided instances.
THEOREM ActiveChainSafety == Spec => []ActiveChainsExact
<1>1. IndInv => ActiveChainsExact
  BY DEF IndInv
<1> QED
  BY <1>1, Invariance, PTL

--------------------------------------------------------------------------------
\* Instance ids: sequences of parts

\* Induction over the natural numbers, for the numbers of a set
LEMMA NatSetInduction ==
  ASSUME NEW P, 0 \in P, \A n \in Nat : n \in P => n + 1 \in P
  PROVE  Nat \subseteq P
<1> SUFFICES ASSUME Nat \ P # {} PROVE FALSE
  OBVIOUS
<1>1. PICK n \in Nat \ P : \A m \in Nat \ P : <<m, n>> \notin OpToRel(<, Nat)
  <2>1. Nat \ P \subseteq Nat
    OBVIOUS
  <2> QED BY <2>1, NatLessThanWellFounded, WFMin, Zenon
<1>2. n \in Nat /\ n # 0 /\ n - 1 \in Nat /\ n - 1 < n
  OBVIOUS
<1>3. <<n - 1, n>> \in OpToRel(<, Nat)
  BY <1>2 DEF OpToRel
<1>4. (n - 1) + 1 = n
  BY <1>2
<1>5. n - 1 \in P
  BY <1>1, <1>2, <1>3, Zenon
<1> QED BY <1>1, <1>2, <1>4, <1>5, Zenon

\* FlattenSeq by its prefixes
IsFlattening(S, seqs, f) ==
  /\ f \in [0..Len(seqs) -> Seq(S)]
  /\ f[0] = <<>>
  /\ \A i \in 1..Len(seqs) : f[i] = f[i - 1] \o seqs[i]

Extends(s, n, f) == f = [i \in 1..n |-> IF i = 1 THEN s[i] ELSE f[i - 1] \o s[i]]

\* The recursion of FlattenSeq has a solution.
LEMMA FlattenExists ==
  ASSUME NEW s, NEW n \in Nat
  PROVE  \E f : Extends(s, n, f)
<1> DEFINE P == {k \in Nat : \E f : Extends(s, k, f)}
<1>1. 0 \in P
  <2>1. Extends(s, 0, [i \in 1..0 |-> s[i]])
    BY DEF Extends
  <2> QED BY <2>1
<1>2. ASSUME NEW k \in Nat, k \in P PROVE k + 1 \in P
  <2>1. PICK f : Extends(s, k, f)
    BY <1>2
  <2> PICK last : last = IF k = 0 THEN s[1] ELSE f[k] \o s[k + 1]
    BY Zenon
  <2> DEFINE g == [i \in 1..(k + 1) |-> IF i <= k THEN f[i] ELSE last]
  <2>2. ASSUME NEW i \in 1..(k + 1)
        PROVE  g[i] = IF i = 1 THEN s[i] ELSE g[i - 1] \o s[i]
    <3>1. CASE i <= k
      <4>1. i \in 1..k /\ (i # 1 => i - 1 \in 1..(k + 1) /\ i - 1 <= k)
        BY <3>1
      <4>2. g[i] = f[i] /\ (i # 1 => g[i - 1] = f[i - 1])
        BY <3>1, <4>1, Zenon
      <4>3. f[i] = IF i = 1 THEN s[i] ELSE f[i - 1] \o s[i]
        BY <2>1, <4>1, Zenon DEF Extends
      <4> QED BY <4>2, <4>3, Zenon
    <3>2. CASE ~(i <= k)
      <4>1. i = k + 1 /\ g[i] = last /\ i - 1 = k
        BY <3>2
      <4>2. k # 0 => k \in 1..(k + 1) /\ k <= k /\ i # 1
        BY <4>1
      <4>3. k # 0 => g[k] = f[k]
        BY <4>2, Zenon
      <4>4. k = 0 => i = 1
        BY <4>1
      <4> QED BY <4>1, <4>2, <4>3, <4>4, Zenon
    <3> QED BY <3>1, <3>2
  <2>3. Extends(s, k + 1, g)
    BY <2>2, Zenon DEF Extends
  <2> QED BY <2>3
<1> HIDE DEF P
<1>3. Nat \subseteq P
  BY <1>1, <1>2, NatSetInduction
<1> QED BY <1>3, Zenon DEF P

\* FlattenSeq is the last of the prefixes, each the one before and one part more.
LEMMA Flattening ==
  ASSUME NEW S, NEW seqs \in Seq(Seq(S))
  PROVE  \E f : IsFlattening(S, seqs, f) /\ FlattenSeq(seqs) = f[Len(seqs)]
<1> DEFINE n == Len(seqs)
<1>0. n \in Nat /\ \A i \in 1..n : seqs[i] \in Seq(S)
  OBVIOUS
<1>1. CASE n = 0
  <2>1. seqs = <<>> /\ FlattenSeq(seqs) = <<>>
    BY <1>1 DEF FlattenSeq
  <2>2. IsFlattening(S, seqs, [i \in 0..n |-> <<>>])
    BY <1>1 DEF IsFlattening
  <2>3. [i \in 0..n |-> <<>>] \in [0..n -> Seq(S)] /\ n \in 0..n
    OBVIOUS
  <2> QED BY <2>1, <2>2, <2>3
<1>2. CASE n # 0
  <2> DEFINE g == CHOOSE g : g = [i \in 1..n |-> IF i = 1 THEN seqs[i] ELSE g[i - 1] \o seqs[i]]
  <2>1. Extends(seqs, n, g)
    <3>1. \E f : Extends(seqs, n, f)
      BY <1>0, FlattenExists, Zenon
    <3> QED BY <3>1, Zenon DEF Extends
  <2>2. FlattenSeq(seqs) = g[n]
    BY <1>2 DEF FlattenSeq
  <2> HIDE DEF g
  <2> DEFINE f == [i \in 0..n |-> IF i = 0 THEN <<>> ELSE g[i]]
             P == {k \in Nat : k <= n => f[k] \in Seq(S)}
  <2>3. ASSUME NEW i \in 1..n PROVE f[i] = f[i - 1] \o seqs[i]
    <3>1. g[i] = IF i = 1 THEN seqs[i] ELSE g[i - 1] \o seqs[i]
      BY <2>1, Zenon DEF Extends
    <3>2. CASE i = 1
      <4>1. f[i] = seqs[i] /\ f[i - 1] = <<>> /\ seqs[i] \in Seq(S)
        BY <3>1, <3>2, <1>0
      <4> HIDE DEF f
      <4> QED BY <4>1, ConcatEmptySeq
    <3>3. CASE i # 1
      <4>1. f[i] = g[i] /\ f[i - 1] = g[i - 1]
        BY <3>3, <1>0
      <4> QED BY <4>1, <3>1, <3>3, Zenon
    <3> QED BY <3>2, <3>3, Zenon
  <2>4. 0 \in P
    BY <1>0
  <2>5. ASSUME NEW k \in Nat, k \in P PROVE k + 1 \in P
    <3> SUFFICES ASSUME k + 1 <= n PROVE f[k + 1] \in Seq(S)
      BY <1>0
    <3>1. k + 1 \in 1..n /\ k <= n /\ (k + 1) - 1 = k
      BY <1>0
    <3>2. f[k + 1] = f[k] \o seqs[k + 1] /\ f[k] \in Seq(S) /\ seqs[k + 1] \in Seq(S)
      BY <3>1, <2>3, <2>5, <1>0, Zenon
    <3> HIDE DEF f
    <3> QED BY <3>2
  <2> HIDE DEF P
  <2>6. Nat \subseteq P
    BY <2>4, <2>5, NatSetInduction, Zenon
  <2>7. \A k \in 0..n : f[k] \in Seq(S)
    <3>1. \A k \in 0..n : k \in Nat /\ k <= n
      BY <1>0
    <3> QED BY <2>6, <3>1, Zenon DEF P
  <2>8. 0 \in 0..n /\ n \in 0..n /\ f[0] = <<>> /\ f[n] = g[n]
    BY <1>0, <1>2
  <2>9. DOMAIN f = 0..n /\ f = [i \in 0..n |-> f[i]]
    BY Zenon
  <2> HIDE DEF f
  <2>10. f \in [0..n -> Seq(S)]
    BY <2>7, <2>9, Zenon
  <2>11. IsFlattening(S, seqs, f)
    BY <2>3, <2>8, <2>10, Zenon DEF IsFlattening
  <2> QED BY <2>2, <2>8, <2>11, Zenon
<1> QED BY <1>1, <1>2

\* The elements of a sequence, and its domain.
LEMMA ElementType ==
  ASSUME NEW T, NEW s \in Seq(T)
  PROVE  /\ Len(s) \in Nat /\ DOMAIN s = 1..Len(s)
         /\ \A i \in 1..Len(s) : s[i] \in T
OBVIOUS

\* A sequence is a sequence over any set that has its elements.
LEMMA Retyped ==
  ASSUME NEW S, NEW T, NEW s \in Seq(S), \A i \in 1..Len(s) : s[i] \in T
  PROVE  s \in Seq(T)
<1>1. Len(s) \in Nat /\ s \in [1..Len(s) -> S]
  OBVIOUS
<1>2. s \in [1..Len(s) -> T]
  BY <1>1, Zenon
<1> QED BY <1>1, <1>2, SeqDef

\* s begins t
Begins(s, t) == Len(s) <= Len(t) /\ \A k \in 1..Len(s) : k \in 1..Len(t) /\ t[k] = s[k]

\* t is in s behind its first n symbols
PartAt(s, n, t) ==
  n + Len(t) <= Len(s) /\ \A k \in 1..Len(t) : n + k \in 1..Len(s) /\ s[n + k] = t[k]

\* Of a concatenation, the first part begins it and the second is behind the first.
LEMMA ConcatParts ==
  ASSUME NEW S, NEW s \in Seq(S), NEW t \in Seq(S)
  PROVE  /\ s \o t \in Seq(S) /\ Len(s \o t) = Len(s) + Len(t)
         /\ Begins(s, s \o t)
         /\ PartAt(s \o t, Len(s), t)
<1>1. Len(s) \in Nat /\ Len(t) \in Nat
  OBVIOUS
<1>2. s \o t \in Seq(S) /\ Len(s \o t) = Len(s) + Len(t)
  BY ConcatProperties
<1>3. Begins(s, s \o t)
  <2>1. ASSUME NEW k \in 1..Len(s)
        PROVE  k \in 1..Len(s \o t) /\ (s \o t)[k] = s[k]
    <3>1. k \in 1..(Len(s) + Len(t)) /\ k <= Len(s)
      BY <1>1
    <3> QED BY <1>2, <3>1, ConcatProperties, Zenon
  <2>2. Len(s) <= Len(s \o t)
    BY <1>1, <1>2
  <2> QED BY <2>1, <2>2, Zenon DEF Begins
<1>4. PartAt(s \o t, Len(s), t)
  <2>1. ASSUME NEW k \in 1..Len(t)
        PROVE  Len(s) + k \in 1..Len(s \o t) /\ (s \o t)[Len(s) + k] = t[k]
    <3>1. /\ Len(s) + k \in 1..(Len(s) + Len(t)) /\ ~(Len(s) + k <= Len(s))
          /\ (Len(s) + k) - Len(s) = k
      BY <1>1
    <3> QED BY <1>2, <3>1, ConcatProperties, Zenon
  <2>2. Len(s) + Len(t) <= Len(s \o t)
    BY <1>1, <1>2
  <2> QED BY <2>1, <2>2, Zenon DEF PartAt
<1> QED BY <1>2, <1>3, <1>4, Zenon

\* What begins a beginning of t begins t.
LEMMA BeginsTransitive ==
  ASSUME NEW r, NEW s, NEW t, Begins(r, s), Begins(s, t),
         Len(r) \in Nat, Len(s) \in Nat, Len(t) \in Nat
  PROVE  Begins(r, t)
<1>1. Len(r) <= Len(t)
  BY DEF Begins
<1> QED BY <1>1, Zenon DEF Begins

\* A part of a beginning of t is a part of t, at the same place.
LEMMA PartAtBegins ==
  ASSUME NEW s, NEW t, NEW n \in Nat, NEW part, PartAt(s, n, part), Begins(s, t),
         Len(part) \in Nat, Len(s) \in Nat, Len(t) \in Nat
  PROVE  PartAt(t, n, part)
<1>1. n + Len(part) <= Len(t)
  BY DEF Begins, PartAt
<1> QED BY <1>1, Zenon DEF Begins, PartAt

\* Each prefix of the flattening begins the whole
LEMMA FlatteningGrows ==
  ASSUME NEW S, NEW seqs \in Seq(Seq(S)), NEW f, IsFlattening(S, seqs, f),
         NEW i \in 0..Len(seqs), NEW j \in i..Len(seqs)
  PROVE  Begins(f[i], f[j])
<1> DEFINE P == {m \in Nat : i + m <= Len(seqs) => Begins(f[i], f[i + m])}
<1>0. i \in Nat /\ Len(seqs) \in Nat /\ i + 0 = i
  BY ElementType
<1>f. f \in [0..Len(seqs) -> Seq(S)]
  BY Zenon DEF IsFlattening
<1>1. 0 \in P
  <2>1. f[i] \in Seq(S)
    BY <1>f, Zenon
  <2>2. Begins(f[i], f[i])
    BY <2>1, ElementType DEF Begins
  <2> QED BY <1>0, <2>2
<1>2. ASSUME NEW m \in Nat, m \in P PROVE m + 1 \in P
  <2> SUFFICES ASSUME i + (m + 1) <= Len(seqs) PROVE Begins(f[i], f[i + (m + 1)])
    OBVIOUS
  <2> PICK n : n = i + m
    BY Zenon
  <2>1. /\ n + 1 \in 1..Len(seqs) /\ n \in 0..Len(seqs) /\ (n + 1) - 1 = n
        /\ n + 1 = i + (m + 1) /\ i + m <= Len(seqs)
    BY <1>0
  <2>2. f[i] \in Seq(S) /\ f[n] \in Seq(S) /\ seqs[n + 1] \in Seq(S)
    BY <1>f, <2>1, ElementType, Zenon
  <2>3. f[n + 1] = f[n] \o seqs[n + 1]
    BY <2>1, Zenon DEF IsFlattening
  <2>4. Begins(f[i], f[n])
    BY <1>2, <2>1, Zenon
  <2>5. Begins(f[i], f[n + 1])
    <3> PICK s, t : s = f[n] /\ t = seqs[n + 1]
      BY Zenon
    <3>1. s \in Seq(S) /\ t \in Seq(S) /\ f[n + 1] = s \o t /\ Begins(f[i], s)
      BY <2>2, <2>3, <2>4, Zenon
    <3>2. Begins(s, s \o t) /\ s \o t \in Seq(S)
      BY <3>1, ConcatParts, Zenon
    <3>3. Len(f[i]) \in Nat /\ Len(s) \in Nat /\ Len(s \o t) \in Nat
      BY <2>2, <3>1, <3>2, ElementType, Zenon
    <3>4. Begins(f[i], s \o t)
      BY <3>1, <3>2, <3>3, BeginsTransitive, Zenon
    <3> QED BY <3>1, <3>4, Zenon
  <2> QED BY <2>1, <2>5, Zenon
<1> HIDE DEF P
<1>3. Nat \subseteq P
  BY <1>1, <1>2, NatSetInduction, Zenon
<1>4. j - i \in Nat /\ i + (j - i) = j /\ j <= Len(seqs)
  BY <1>0
<1> QED BY <1>3, <1>4, Zenon DEF P

\* Where a part of the flattening is
LEMMA PartOfFlattening ==
  ASSUME NEW S, NEW seqs \in Seq(Seq(S)), NEW f, IsFlattening(S, seqs, f),
         NEW i \in 1..Len(seqs)
  PROVE  /\ f[i - 1] \in Seq(S) /\ seqs[i] \in Seq(S) /\ f[i] = f[i - 1] \o seqs[i]
         /\ PartAt(f[Len(seqs)], Len(f[i - 1]), seqs[i])
<1>1. /\ Len(seqs) \in Nat /\ i \in 0..Len(seqs) /\ Len(seqs) \in i..Len(seqs)
      /\ i - 1 \in 0..Len(seqs) /\ Len(seqs) \in 0..Len(seqs)
  BY ElementType
<1>2. /\ f[i - 1] \in Seq(S) /\ seqs[i] \in Seq(S) /\ f[i] \in Seq(S)
      /\ f[Len(seqs)] \in Seq(S)
  <2>1. f \in [0..Len(seqs) -> Seq(S)]
    BY Zenon DEF IsFlattening
  <2> QED BY <1>1, <2>1, ElementType, Zenon
<1>3. f[i] = f[i - 1] \o seqs[i]
  BY Zenon DEF IsFlattening
<1>4. Begins(f[i], f[Len(seqs)])
  BY <1>1, FlatteningGrows, Zenon
<1>5. PartAt(f[i], Len(f[i - 1]), seqs[i])
  BY <1>2, <1>3, ConcatParts, Zenon
<1>6. /\ Len(f[i - 1]) \in Nat /\ Len(seqs[i]) \in Nat /\ Len(f[i]) \in Nat
      /\ Len(f[Len(seqs)]) \in Nat
  BY <1>2, ElementType, Zenon
<1>7. PartAt(f[Len(seqs)], Len(f[i - 1]), seqs[i])
  BY <1>4, <1>5, <1>6, PartAtBegins, Zenon
<1> QED BY <1>2, <1>3, <1>7, Zenon

\* The sequences do not differ before the shorter one ends
Agree(s, t) == \A k \in 1..Len(s) : k \in 1..Len(t) => s[k] = t[k]

\* Parts at the same place of sequences that agree do so too.
LEMMA AgreeAt ==
  ASSUME NEW s, NEW t, NEW n, NEW x, NEW y, PartAt(s, n, x), PartAt(t, n, y), Agree(s, t)
  PROVE  Agree(x, y)
<1>1. ASSUME NEW k \in 1..Len(x), k \in 1..Len(y) PROVE x[k] = y[k]
  <2>1. /\ n + k \in 1..Len(s) /\ s[n + k] = x[k]
        /\ n + k \in 1..Len(t) /\ t[n + k] = y[k]
    BY <1>1, Zenon DEF PartAt
  <2> QED BY <2>1, Zenon DEF Agree
<1> QED BY <1>1, Zenon DEF Agree

\* No part of one list is a proper beginning of the other's
Delimited(A, B) ==
  \A i \in 1..Len(A) : i \in 1..Len(B) /\ Agree(A[i], B[i]) => A[i] = B[i]

\* Two lists of which no part of one is a proper beginning of the other's, and whose
\* flattenings f and g do not differ before the shorter one ends
TwoReadings(S, A, f, B, g) ==
  /\ A \in Seq(Seq(S)) /\ IsFlattening(S, A, f)
  /\ B \in Seq(Seq(S)) /\ IsFlattening(S, B, g)
  /\ Delimited(A, B) /\ Agree(f[Len(A)], g[Len(B)])

\* Then the lists are the same as far as both go.
LEMMA SameParts ==
  ASSUME NEW S, NEW A, NEW f, NEW B, NEW g, TwoReadings(S, A, f, B, g),
         NEW n \in 0..Len(A), n \in 0..Len(B)
  PROVE  f[n] = g[n] /\ \A i \in 1..n : A[i] = B[i]
<1> DEFINE Same(m) == f[m] = g[m] /\ \A i \in 1..m : A[i] = B[i]
           P == {m \in Nat : m <= n => Same(m)}
<1>a. A \in Seq(Seq(S)) /\ B \in Seq(Seq(S)) /\ IsFlattening(S, A, f) /\ IsFlattening(S, B, g)
  BY Zenon DEF TwoReadings
<1>b. Delimited(A, B) /\ Agree(f[Len(A)], g[Len(B)])
  BY Zenon DEF TwoReadings
<1>0. n \in Nat /\ Len(A) \in Nat /\ Len(B) \in Nat /\ n <= Len(A) /\ n <= Len(B)
  BY <1>a, ElementType
<1>1. 0 \in P
  <2>1. f[0] = g[0]
    BY <1>a, Zenon DEF IsFlattening
  <2> QED BY <2>1
<1>2. ASSUME NEW m \in Nat, m \in P PROVE m + 1 \in P
  <2> SUFFICES ASSUME m + 1 <= n PROVE Same(m + 1)
    OBVIOUS
  <2> PICK i, all, any : i = m + 1 /\ all = f[Len(A)] /\ any = g[Len(B)]
    BY Zenon
  <2>1. i \in 1..Len(A) /\ i \in 1..Len(B) /\ i - 1 = m /\ m <= n
    BY <1>0
  <2>2. f[m] = g[m] /\ \A k \in 1..m : A[k] = B[k]
    BY <1>2, <2>1, Zenon
  <2>3. f[i] = f[m] \o A[i] /\ PartAt(all, Len(f[m]), A[i])
    <3>1. f[i] = f[i - 1] \o A[i] /\ PartAt(f[Len(A)], Len(f[i - 1]), A[i])
      BY <1>a, <2>1, PartOfFlattening, Zenon
    <3> QED BY <2>1, <3>1, Zenon
  <2>4. g[i] = g[m] \o B[i] /\ PartAt(any, Len(f[m]), B[i])
    <3>1. g[i] = g[i - 1] \o B[i] /\ PartAt(g[Len(B)], Len(g[i - 1]), B[i])
      BY <1>a, <2>1, PartOfFlattening, Zenon
    <3> QED BY <2>1, <2>2, <3>1, Zenon
  <2>5. Agree(A[i], B[i])
    BY <1>b, <2>3, <2>4, AgreeAt, Zenon
  <2>6. A[i] = B[i]
    BY <1>b, <2>1, <2>5, Zenon DEF Delimited
  <2>7. \A k \in 1..i : k \in 1..m \/ k = i
    BY <2>1
  <2> QED BY <2>2, <2>3, <2>4, <2>6, <2>7, Zenon
<1> HIDE DEF P
<1>3. Nat \subseteq P
  BY <1>1, <1>2, NatSetInduction
<1>4. n <= n
  BY <1>0
<1> QED BY <1>0, <1>3, <1>4, Zenon DEF P

\* The same for FlattenSeq; and the list that goes on is longer by its next part.
LEMMA SameFlattened ==
  ASSUME NEW S, NEW A \in Seq(Seq(S)), NEW B \in Seq(Seq(S)), Delimited(A, B),
         Agree(FlattenSeq(A), FlattenSeq(B))
  PROVE  /\ \A i \in 1..Len(A) : i \in 1..Len(B) => A[i] = B[i]
         /\ Len(A) < Len(B) =>
              Len(FlattenSeq(A)) + Len(B[Len(A) + 1]) <= Len(FlattenSeq(B))
<1>1. PICK f : IsFlattening(S, A, f) /\ FlattenSeq(A) = f[Len(A)]
  BY Flattening, Zenon
<1>2. PICK g : IsFlattening(S, B, g) /\ FlattenSeq(B) = g[Len(B)]
  BY Flattening, Zenon
<1>3. TwoReadings(S, A, f, B, g)
  BY <1>1, <1>2, Zenon DEF TwoReadings
<1>4. Len(A) \in Nat /\ Len(B) \in Nat
  BY ElementType, Zenon
<1>s. \A n \in 0..Len(A) : n \in 0..Len(B) => f[n] = g[n]
  <2> SUFFICES ASSUME NEW n \in 0..Len(A), n \in 0..Len(B) PROVE f[n] = g[n]
    BY Zenon
  <2>1. f[n] = g[n] /\ \A i \in 1..n : A[i] = B[i]
    BY <1>3, SameParts
  <2> QED BY <2>1, Zenon
<1>5. ASSUME NEW i \in 1..Len(A), i \in 1..Len(B) PROVE A[i] = B[i]
  <2>1. i \in 0..Len(A) /\ i \in 0..Len(B) /\ i \in 1..i
    BY <1>4, <1>5
  <2>2. f[i] = g[i] /\ \A j \in 1..i : A[j] = B[j]
    BY <1>3, <2>1, SameParts
  <2> QED BY <2>1, <2>2, Zenon
<1>6. ASSUME Len(A) < Len(B)
      PROVE  Len(FlattenSeq(A)) + Len(B[Len(A) + 1]) <= Len(FlattenSeq(B))
  <2> PICK n, i : n = Len(A) /\ i = n + 1
    BY Zenon
  <2>1. n \in 0..Len(A) /\ n \in 0..Len(B) /\ i \in 1..Len(B) /\ i - 1 = n
    BY <1>4, <1>6
  <2>2. f[n] = g[n]
    BY <1>s, <2>1, Zenon
  <2>3. PartAt(g[Len(B)], Len(g[i - 1]), B[i])
    BY <1>2, <2>1, PartOfFlattening, Zenon
  <2>4. Len(g[n]) + Len(B[i]) <= Len(g[Len(B)])
    BY <2>1, <2>3, Zenon DEF PartAt
  <2> QED BY <1>1, <1>2, <2>2, <2>4, Zenon
<1> QED BY <1>5, <1>6, Zenon

\* Sequences of one length that agree are equal.
LEMMA AgreeSameLength ==
  ASSUME NEW S, NEW s \in Seq(S), NEW t \in Seq(S), Agree(s, t), Len(s) = Len(t)
  PROVE  s = t
<1>1. \A k \in 1..Len(s) : s[k] = t[k]
  BY Zenon DEF Agree
<1>2. DOMAIN s = 1..Len(s) /\ DOMAIN t = 1..Len(s)
  BY ElementType, Zenon
<1> QED BY <1>1, <1>2, SeqEqual

\* What generate_instance_id hashes, part by part

\* What is hashed for a transaction is its length and then its data.
LEMMA TransactionPartIs ==
  ASSUME NEW d \in Seq(Nat), d # <<>>
  PROVE  /\ TransactionPart(d) \in Seq(Nat)
         /\ Len(TransactionPart(d)) = 1 + Len(d)
         /\ TransactionPart(d)[1] = Len(d)
         /\ PartAt(TransactionPart(d), 1, d)
<1> PICK h : h = <<Len(d)>>
  BY Zenon
<1>1. h \in Seq(Nat) /\ Len(h) = 1 /\ h[1] = Len(d) /\ 1 \in 1..Len(h)
  OBVIOUS
<1>2. TransactionPart(d) = h \o d
  BY Zenon DEF TransactionPart
<1>3. /\ h \o d \in Seq(Nat) /\ Len(h \o d) = Len(h) + Len(d)
      /\ Begins(h, h \o d) /\ PartAt(h \o d, Len(h), d)
  BY <1>1, ConcatParts, Zenon
<1>4. (h \o d)[1] = h[1]
  BY <1>1, <1>3, Zenon DEF Begins
<1> QED BY <1>1, <1>2, <1>3, <1>4, Zenon

\* The length in front of a transaction says where it ends.
LEMMA TransactionsDelimited ==
  ASSUME NEW d \in Seq(Nat), NEW e \in Seq(Nat), d # <<>>, e # <<>>,
         Agree(TransactionPart(d), TransactionPart(e))
  PROVE  d = e
<1>1. /\ Len(TransactionPart(d)) = 1 + Len(d) /\ TransactionPart(d)[1] = Len(d)
      /\ PartAt(TransactionPart(d), 1, d)
  BY TransactionPartIs, Zenon
<1>2. /\ Len(TransactionPart(e)) = 1 + Len(e) /\ TransactionPart(e)[1] = Len(e)
      /\ PartAt(TransactionPart(e), 1, e)
  BY TransactionPartIs, Zenon
<1>3. Len(d) \in Nat /\ Len(e) \in Nat
  BY ElementType, Zenon
<1>4. 1 \in 1..(1 + Len(d)) /\ 1 \in 1..(1 + Len(e))
  BY <1>3
<1>5. Len(d) = Len(e)
  BY <1>1, <1>2, <1>4, Zenon DEF Agree
<1>6. Agree(d, e)
  BY <1>1, <1>2, AgreeAt, Zenon
<1> QED BY <1>5, <1>6, AgreeSameLength, Zenon

TransactionParts(ts) == [i \in DOMAIN ts |-> TransactionPart(ts[i])]

NonEmptySeqs == Seq(Nat) \ {<<>>}

\* The parts hashed for transactions are sequences, none of them empty.
LEMMA TransactionPartsType ==
  ASSUME NEW ts \in Seq(NonEmptySeqs)
  PROVE  /\ TransactionParts(ts) \in Seq(Seq(Nat))
         /\ Len(TransactionParts(ts)) = Len(ts) /\ Len(ts) \in Nat
         /\ \A i \in 1..Len(ts) : /\ ts[i] \in Seq(Nat) /\ ts[i] # <<>>
                                  /\ TransactionParts(ts)[i] = TransactionPart(ts[i])
<1>1. DOMAIN ts = 1..Len(ts) /\ Len(ts) \in Nat /\ \A i \in 1..Len(ts) : ts[i] \in NonEmptySeqs
  BY ElementType, Zenon
<1>2. \A i \in 1..Len(ts) : ts[i] \in Seq(Nat) /\ ts[i] # <<>>
  BY <1>1, Zenon DEF NonEmptySeqs
<1>3. \A i \in 1..Len(ts) : TransactionPart(ts[i]) \in Seq(Nat)
  BY <1>2, TransactionPartIs, Zenon
<1>4. TransactionParts(ts) = [i \in 1..Len(ts) |-> TransactionPart(ts[i])]
  BY <1>1, Zenon DEF TransactionParts
<1>5. TransactionParts(ts) \in [1..Len(ts) -> Seq(Nat)]
  BY <1>3, <1>4, Zenon
<1>6. TransactionParts(ts) \in Seq(Seq(Nat)) /\ Len(TransactionParts(ts)) = Len(ts)
  BY <1>1, <1>5
<1> QED BY <1>1, <1>2, <1>4, <1>6, Zenon

\* As many transactions, hashed to data that agree, are the same transactions.
LEMMA SameTransactions ==
  ASSUME NEW ts \in Seq(NonEmptySeqs), NEW us \in Seq(NonEmptySeqs), Len(ts) = Len(us),
         Agree(FlattenSeq(TransactionParts(ts)), FlattenSeq(TransactionParts(us)))
  PROVE  ts = us
<1> PICK A, B : A = TransactionParts(ts) /\ B = TransactionParts(us)
  BY Zenon
<1>1. /\ A \in Seq(Seq(Nat)) /\ Len(A) = Len(ts) /\ Len(ts) \in Nat
      /\ \A i \in 1..Len(ts) : ts[i] \in Seq(Nat) /\ ts[i] # <<>> /\ A[i] = TransactionPart(ts[i])
  BY TransactionPartsType, Zenon
<1>2. /\ B \in Seq(Seq(Nat)) /\ Len(B) = Len(us)
      /\ \A i \in 1..Len(us) : us[i] \in Seq(Nat) /\ us[i] # <<>> /\ B[i] = TransactionPart(us[i])
  BY TransactionPartsType, Zenon
<1>3. \A i \in 1..Len(ts) : Agree(A[i], B[i]) => ts[i] = us[i]
  BY <1>1, <1>2, TransactionsDelimited, Zenon
<1>4. Delimited(A, B)
  BY <1>1, <1>2, <1>3, Zenon DEF Delimited
<1>5. Agree(FlattenSeq(A), FlattenSeq(B))
  BY Zenon
<1>9. \A i \in 1..Len(ts) : A[i] = B[i]
  <2>1. \A i \in 1..Len(A) : i \in 1..Len(B) => A[i] = B[i]
    BY <1>1, <1>2, <1>4, <1>5, SameFlattened
  <2> QED BY <1>1, <1>2, <2>1, Zenon
<1>10. \A s : Agree(s, s)
  BY Zenon DEF Agree
<1>11. \A i \in 1..Len(ts) : ts[i] = us[i]
  BY <1>3, <1>9, <1>10, Zenon
<1> QED BY <1>11, SeqEqual

\* Sequences are flattened to a sequence over the same set.
LEMMA FlattenType ==
  ASSUME NEW S, NEW seqs \in Seq(Seq(S))
  PROVE  FlattenSeq(seqs) \in Seq(S)
<1>1. PICK f : IsFlattening(S, seqs, f) /\ FlattenSeq(seqs) = f[Len(seqs)]
  BY Flattening, Zenon
<1>2. f \in [0..Len(seqs) -> Seq(S)]
  BY <1>1, Zenon DEF IsFlattening
<1>3. Len(seqs) \in 0..Len(seqs)
  BY ElementType
<1> QED BY <1>1, <1>2, <1>3, Zenon

\* A header of two symbols before a body
Headed(s, a, b, body) ==
  /\ s \in Seq(Nat) /\ Len(s) = 2 + Len(body) /\ s[1] = a /\ s[2] = b
  /\ 1 \in 1..Len(s) /\ 2 \in 1..Len(s) /\ PartAt(s, 2, body)

\* Two fields in front of a body are the first two symbols.
LEMMA HeaderBefore ==
  ASSUME NEW a \in Nat, NEW b \in Nat, NEW body \in Seq(Nat)
  PROVE  Headed(<<a, b>> \o body, a, b, body)
<1> PICK s : s = <<a, b>> \o body
  BY Zenon
<1> PICK h : h = <<a, b>>
  BY Zenon
<1>1. h \in Seq(Nat) /\ Len(h) = 2 /\ h[1] = a /\ h[2] = b /\ 1 \in 1..Len(h) /\ 2 \in 1..Len(h)
  OBVIOUS
<1>2. /\ h \o body \in Seq(Nat) /\ Len(h \o body) = Len(h) + Len(body)
      /\ Begins(h, h \o body) /\ PartAt(h \o body, Len(h), body)
  BY <1>1, ConcatParts, Zenon
<1>3. s = h \o body
  BY Zenon
<1>4. s[1] = a /\ s[2] = b /\ 1 \in 1..Len(s) /\ 2 \in 1..Len(s)
  BY <1>1, <1>2, <1>3, Zenon DEF Begins
<1>5. s \in Seq(Nat) /\ Len(s) = 2 + Len(body) /\ PartAt(s, 2, body)
  BY <1>1, <1>2, <1>3, Zenon
<1> QED BY <1>4, <1>5, Zenon DEF Headed

\* The transactions of one chain, none of them empty
ChainRequests == [chain_id : Nat, transactions : Seq(NonEmptySeqs)]

TransactionBody(req) == FlattenSeq(TransactionParts(req.transactions))

\* What is hashed for a request is its chain, its count and its transactions.
LEMMA RequestPartIs ==
  ASSUME NEW req \in ChainRequests, NEW part, part = RequestPart(req)
  PROVE  /\ part \in Seq(Nat) /\ 1 \in 1..Len(part) /\ 2 \in 1..Len(part)
         /\ part[1] = req.chain_id /\ part[2] = Len(req.transactions)
         /\ PartAt(part, 2, TransactionBody(req))
         /\ Len(part) \in Nat /\ Len(part) > 0
<1> PICK ts, body : ts = req.transactions /\ body = TransactionBody(req)
  BY Zenon
<1>1. req.chain_id \in Nat /\ ts \in Seq(NonEmptySeqs)
  BY DEF ChainRequests
<1>2. TransactionParts(ts) \in Seq(Seq(Nat)) /\ Len(ts) \in Nat
  BY <1>1, TransactionPartsType, Zenon
<1>3. body \in Seq(Nat)
  <2>1. FlattenSeq(TransactionParts(ts)) \in Seq(Nat)
    BY <1>2, FlattenType, Zenon
  <2> QED BY <2>1, Zenon DEF TransactionBody
<1>4. part = <<req.chain_id, Len(ts)>> \o body
  BY Zenon DEF RequestPart, TransactionBody, TransactionParts
<1>5. /\ part \in Seq(Nat) /\ 1 \in 1..Len(part) /\ 2 \in 1..Len(part)
      /\ part[1] = req.chain_id /\ part[2] = Len(ts) /\ PartAt(part, 2, body)
  <2> PICK c, n : c = req.chain_id /\ n = Len(ts)
    BY Zenon
  <2>1. Headed(<<c, n>> \o body, c, n, body)
    BY <1>1, <1>2, <1>3, HeaderBefore
  <2>2. Headed(part, c, n, body)
    BY <1>4, <2>1, Zenon
  <2> QED BY <2>2, Zenon DEF Headed
<1>6. Len(part) \in Nat
  BY <1>5, ElementType, Zenon
<1>7. Len(part) > 0
  BY <1>5, <1>6
<1> QED BY <1>5, <1>6, <1>7, Zenon

\* The count in front of the transactions says where a request ends.
LEMMA RequestsDelimited ==
  ASSUME NEW req \in ChainRequests, NEW other \in ChainRequests,
         Agree(RequestPart(req), RequestPart(other))
  PROVE  req = other
<1> PICK part, part2 : part = RequestPart(req) /\ part2 = RequestPart(other)
  BY Zenon
<1>0. Agree(part, part2)
  BY Zenon
<1>1. /\ 1 \in 1..Len(part) /\ 2 \in 1..Len(part)
      /\ part[1] = req.chain_id /\ part[2] = Len(req.transactions)
      /\ PartAt(part, 2, TransactionBody(req))
  BY RequestPartIs
<1>2. /\ 1 \in 1..Len(part2) /\ 2 \in 1..Len(part2)
      /\ part2[1] = other.chain_id /\ part2[2] = Len(other.transactions)
      /\ PartAt(part2, 2, TransactionBody(other))
  BY SMTT(20), RequestPartIs
<1>3. part[1] = part2[1] /\ part[2] = part2[2]
  BY <1>0, <1>1, <1>2, Zenon DEF Agree
<1>4. req.chain_id = other.chain_id /\ Len(req.transactions) = Len(other.transactions)
  BY <1>1, <1>2, <1>3, Zenon
<1>5. Agree(TransactionBody(req), TransactionBody(other))
  BY <1>0, <1>1, <1>2, AgreeAt, Zenon
<1>6. /\ req.transactions \in Seq(NonEmptySeqs) /\ other.transactions \in Seq(NonEmptySeqs)
      /\ req = [chain_id |-> req.chain_id, transactions |-> req.transactions]
      /\ other = [chain_id |-> other.chain_id, transactions |-> other.transactions]
  BY DEF ChainRequests
<1>7. req.transactions = other.transactions
  BY <1>4, <1>5, <1>6, SameTransactions, Zenon DEF TransactionBody
<1> QED BY <1>4, <1>6, <1>7

RequestParts(xt) == [i \in DOMAIN xt |-> RequestPart(xt[i])]

\* The parts hashed for requests are sequences, none of them empty.
LEMMA RequestPartsType ==
  ASSUME NEW xt \in Seq(ChainRequests)
  PROVE  /\ RequestParts(xt) \in Seq(Seq(Nat))
         /\ Len(RequestParts(xt)) = Len(xt) /\ Len(xt) \in Nat
         /\ \A i \in 1..Len(xt) : /\ xt[i] \in ChainRequests
                                  /\ RequestParts(xt)[i] = RequestPart(xt[i])
                                  /\ Len(RequestParts(xt)[i]) \in Nat \ {0}
<1>1. DOMAIN xt = 1..Len(xt) /\ Len(xt) \in Nat /\ \A i \in 1..Len(xt) : xt[i] \in ChainRequests
  BY ElementType, Zenon
<1>2. \A i \in 1..Len(xt) : RequestPart(xt[i]) \in Seq(Nat) /\ Len(RequestPart(xt[i])) \in Nat \ {0}
  <2> SUFFICES ASSUME NEW i \in 1..Len(xt)
               PROVE  RequestPart(xt[i]) \in Seq(Nat) /\ Len(RequestPart(xt[i])) \in Nat \ {0}
    BY Zenon
  <2> PICK part : part = RequestPart(xt[i])
    BY Zenon
  <2>1. part \in Seq(Nat) /\ Len(part) \in Nat /\ Len(part) > 0
    BY <1>1, RequestPartIs, Zenon
  <2>2. Len(part) # 0
    BY <2>1
  <2> QED BY <2>1, <2>2, Zenon
<1>3. RequestParts(xt) = [i \in 1..Len(xt) |-> RequestPart(xt[i])]
  BY <1>1, Zenon DEF RequestParts
<1>4. RequestParts(xt) \in [1..Len(xt) -> Seq(Nat)]
  BY <1>2, <1>3, Zenon
<1>5. RequestParts(xt) \in Seq(Seq(Nat)) /\ Len(RequestParts(xt)) = Len(xt)
  BY <1>1, <1>4
<1>6. \A i \in 1..Len(xt) : RequestParts(xt)[i] = RequestPart(xt[i])
  BY <1>3, Zenon
<1> QED BY <1>1, <1>2, <1>5, <1>6, Zenon

\* One of two different requests is no beginning of the other
LEMMA RequestsFlattened ==
  ASSUME NEW xt \in Seq(ChainRequests), NEW yt \in Seq(ChainRequests),
         Agree(FlattenSeq(RequestParts(xt)), FlattenSeq(RequestParts(yt)))
  PROVE  /\ \A i \in 1..Len(xt) : i \in 1..Len(yt) => xt[i] = yt[i]
         /\ Len(xt) < Len(yt) =>
              Len(FlattenSeq(RequestParts(xt))) < Len(FlattenSeq(RequestParts(yt)))
<1> PICK A, B : A = RequestParts(xt) /\ B = RequestParts(yt)
  BY Zenon
<1>1. /\ A \in Seq(Seq(Nat)) /\ Len(A) = Len(xt) /\ Len(xt) \in Nat
      /\ \A i \in 1..Len(xt) : xt[i] \in ChainRequests /\ A[i] = RequestPart(xt[i])
  BY RequestPartsType, Zenon
<1>2. /\ B \in Seq(Seq(Nat)) /\ Len(B) = Len(yt) /\ Len(yt) \in Nat
      /\ \A i \in 1..Len(yt) : /\ yt[i] \in ChainRequests /\ B[i] = RequestPart(yt[i])
                               /\ Len(B[i]) \in Nat \ {0}
  BY RequestPartsType, Zenon
<1>3. \A i \in 1..Len(xt) : i \in 1..Len(yt) /\ Agree(A[i], B[i]) => xt[i] = yt[i]
  BY <1>1, <1>2, RequestsDelimited, Zenon
<1>4. Delimited(A, B)
  BY <1>1, <1>2, <1>3, Zenon DEF Delimited
<1>5. Agree(FlattenSeq(A), FlattenSeq(B))
  BY Zenon
<1>6. /\ \A i \in 1..Len(A) : i \in 1..Len(B) => A[i] = B[i]
      /\ Len(A) < Len(B) =>
           Len(FlattenSeq(A)) + Len(B[Len(A) + 1]) <= Len(FlattenSeq(B))
  BY SMTT(20), <1>1, <1>2, <1>4, <1>5, SameFlattened
<1>7. \A s : Agree(s, s)
  BY Zenon DEF Agree
<1>8. \A i \in 1..Len(xt) : i \in 1..Len(yt) => xt[i] = yt[i]
  BY <1>1, <1>2, <1>3, <1>6, <1>7, Zenon
<1>9. ASSUME Len(xt) < Len(yt) PROVE Len(FlattenSeq(A)) < Len(FlattenSeq(B))
  <2>1. Len(xt) + 1 \in 1..Len(yt)
    BY <1>1, <1>2, <1>9
  <2>2. Len(B[Len(A) + 1]) \in Nat \ {0}
    BY <1>1, <1>2, <2>1, Zenon
  <2>3. FlattenSeq(A) \in Seq(Nat) /\ FlattenSeq(B) \in Seq(Nat)
    BY <1>1, <1>2, FlattenType, Zenon
  <2>4. Len(FlattenSeq(A)) \in Nat /\ Len(FlattenSeq(B)) \in Nat
    BY <2>3, ElementType, Zenon
  <2>5. Len(FlattenSeq(A)) + Len(B[Len(A) + 1]) <= Len(FlattenSeq(B))
    BY <1>1, <1>2, <1>6, <1>9, Zenon
  <2> QED BY <2>2, <2>4, <2>5
<1> QED BY <1>8, <1>9, Zenon

\* Requests that are hashed to the same data are the same requests.
LEMMA RequestsUnique ==
  ASSUME NEW xt \in Seq(ChainRequests), NEW yt \in Seq(ChainRequests),
         FlattenSeq(RequestParts(xt)) = FlattenSeq(RequestParts(yt))
  PROVE  xt = yt
<1> PICK F, G : F = FlattenSeq(RequestParts(xt)) /\ G = FlattenSeq(RequestParts(yt))
  BY Zenon
<1>1. F = G /\ F \in Seq(Nat) /\ Len(F) \in Nat /\ ~(Len(F) < Len(G)) /\ ~(Len(G) < Len(F))
  <2>1. RequestParts(xt) \in Seq(Seq(Nat))
    BY RequestPartsType, Zenon
  <2>2. FlattenSeq(RequestParts(xt)) \in Seq(Nat)
    BY <2>1, FlattenType, Zenon
  <2>3. F = G /\ F \in Seq(Nat)
    BY <2>2, Zenon
  <2>4. Len(F) \in Nat
    BY <2>3, ElementType, Zenon
  <2> QED BY <2>3, <2>4
<1>2. Agree(F, G) /\ Agree(G, F)
  BY <1>1, Zenon DEF Agree
<1>3. /\ \A i \in 1..Len(xt) : i \in 1..Len(yt) => xt[i] = yt[i]
      /\ ~(Len(xt) < Len(yt)) /\ ~(Len(yt) < Len(xt))
  BY <1>1, <1>2, RequestsFlattened
<1>4. Len(xt) \in Nat /\ Len(yt) \in Nat
  BY ElementType, Zenon
<1>5. Len(xt) = Len(yt)
  BY <1>3, <1>4
<1>6. \A i \in 1..Len(xt) : xt[i] = yt[i]
  BY <1>3, <1>5, Zenon
<1> QED BY <1>5, <1>6, SeqEqual

\* generate_instance_id hashes different data for different instances, whatever
\* their periods, sequence numbers, chains and transactions, if none is empty.
THEOREM PreimageUnique ==
  ASSUME NEW period \in Nat, NEW seq \in Nat, NEW xt \in Seq(ChainRequests),
         NEW period2 \in Nat, NEW seq2 \in Nat, NEW yt \in Seq(ChainRequests),
         Preimage(period, seq, xt) = Preimage(period2, seq2, yt)
  PROVE  period = period2 /\ seq = seq2 /\ xt = yt
<1> PICK F, G : F = FlattenSeq(RequestParts(xt)) /\ G = FlattenSeq(RequestParts(yt))
  BY Zenon
<1> PICK s : s = Preimage(period, seq, xt)
  BY Zenon
<1>1. F \in Seq(Nat) /\ G \in Seq(Nat)
  <2>1. RequestParts(xt) \in Seq(Seq(Nat)) /\ RequestParts(yt) \in Seq(Seq(Nat))
    BY RequestPartsType, Zenon
  <2>2. FlattenSeq(RequestParts(xt)) \in Seq(Nat) /\ FlattenSeq(RequestParts(yt)) \in Seq(Nat)
    BY <2>1, FlattenType, Zenon
  <2> QED BY <2>2, Zenon
<1>2. s = <<period, seq>> \o F /\ s = <<period2, seq2>> \o G
  BY Zenon DEF Preimage, RequestParts
<1>3. Headed(s, period, seq, F)
  <2>1. Headed(<<period, seq>> \o F, period, seq, F)
    BY <1>1, HeaderBefore
  <2> QED BY <1>2, <2>1, Zenon
<1>4. Headed(s, period2, seq2, G)
  <2>1. Headed(<<period2, seq2>> \o G, period2, seq2, G)
    BY <1>1, HeaderBefore
  <2> QED BY <1>2, <2>1, Zenon
<1>5. period = period2 /\ seq = seq2 /\ 2 + Len(F) = 2 + Len(G)
      /\ PartAt(s, 2, F) /\ PartAt(s, 2, G)
  BY <1>3, <1>4, Zenon DEF Headed
<1>6. Agree(F, G)
  <2>1. Agree(s, s)
    BY Zenon DEF Agree
  <2> QED BY <1>5, <2>1, AgreeAt, Zenon
<1>7. Len(F) = Len(G)
  <2>1. Len(F) \in Nat /\ Len(G) \in Nat
    BY <1>1, ElementType, Zenon
  <2> QED BY <1>5, <2>1
<1>8. F = G
  BY SMTT(20), <1>1, <1>6, <1>7, AgreeSameLength
<1>9. xt = yt
  BY <1>8, RequestsUnique, Zenon
<1> QED BY <1>5, <1>9, Zenon

--------------------------------------------------------------------------------
\* The requests under construction
RequestOK == request \in Seq([chain_id : ChainId, transactions : Seq(Data)])

\* A request keeps its type as it grows.
LEMMA RequestTyped == WireSpec => []RequestOK
<1> DEFINE Req == [chain_id : ChainId, transactions : Seq(Data)]
<1>1. WireInit => RequestOK
  BY DEF WireInit, RequestOK
<1>2. ASSUME RequestOK, [WireNext]_wireVars PROVE RequestOK'
  <2>0. request \in Seq(Req)
    BY <1>2, Zenon DEF RequestOK
  <2>1. ASSUME NEW c \in ChainId, MoreRequests(c) PROVE RequestOK'
    <3> PICK req : req = [chain_id |-> c, transactions |-> <<>>]
      BY Zenon
    <3>1. req \in Req
      OBVIOUS
    <3>2. request' = Append(request, req)
      BY <2>1, Zenon DEF MoreRequests
    <3>3. request' \in Seq(Req)
      BY <2>0, <3>1, <3>2
    <3> QED BY <3>3, Zenon DEF RequestOK
  <2>2. ASSUME NEW data \in Data, MoreTransactions(data) PROVE RequestOK'
    <3> PICK n : n = Len(request)
      BY Zenon
    <3>1. request # <<>> /\ request' = [request EXCEPT ![n].transactions = Append(@, data)]
      BY <2>2, Zenon DEF MoreTransactions
    <3>2. n \in 1..Len(request) /\ request[n] \in Req
      <4>1. Len(request) \in Nat /\ (Len(request) = 0 => request = <<>>)
        BY <2>0
      <4>2. n \in 1..Len(request)
        BY <3>1, <4>1
      <4> QED BY <2>0, <4>2, ElementType, Zenon
    <3>3. [request[n] EXCEPT !.transactions = Append(@, data)] \in Req
      BY SMTT(20), <3>2
    <3> PICK new : new = [request[n] EXCEPT !.transactions = Append(@, data)]
      BY Zenon
    <3>4. request' = [request EXCEPT ![n] = new]
      BY <3>1, Zenon
    <3>5. request' \in Seq(Req)
      BY SMTT(20), <2>0, <3>2, <3>3, <3>4
    <3> QED BY <3>5, Zenon DEF RequestOK
  <2>3. CASE request' = request
    BY <2>0, <2>3, Zenon DEF RequestOK
  <2> QED
    BY <1>2, <2>1, <2>2, <2>3, Zenon DEF WireNext, LongerPayload, LongerClientId, wireVars
<1> QED BY <1>1, <1>2, PTL DEF WireSpec

\* The requests of PreimageInjective are among those of PreimageUnique
LEMMA NonEmptyRequests ==
  ASSUME NEW xt \in Seq([chain_id : ChainId, transactions : Seq(Data)]), NoEmptyTransaction(xt)
  PROVE  xt \in Seq(ChainRequests)
<1>1. /\ DOMAIN xt = 1..Len(xt) /\ Len(xt) \in Nat
      /\ \A i \in 1..Len(xt) : xt[i] \in [chain_id : ChainId, transactions : Seq(Data)]
  BY ElementType, Zenon
<1>2. ASSUME NEW i \in 1..Len(xt) PROVE xt[i] \in ChainRequests
  <2> PICK req, ts : req = xt[i] /\ ts = req.transactions
    BY Zenon
  <2>1. /\ req = [chain_id |-> req.chain_id, transactions |-> ts]
        /\ req.chain_id \in ChainId /\ ts \in Seq(Data)
    <3>1. req \in [chain_id : ChainId, transactions : Seq(Data)]
      BY <1>1, Zenon
    <3> QED BY <3>1
  <2>2. DOMAIN ts = 1..Len(ts) /\ Len(ts) \in Nat /\ \A j \in 1..Len(ts) : ts[j] \in Data
    BY <2>1, ElementType, Zenon
  <2>3. \A j \in 1..Len(ts) : ts[j] # <<>>
    BY <1>1, <2>2, Zenon DEF NoEmptyTransaction
  <2>4. \A j \in 1..Len(ts) : ts[j] \in NonEmptySeqs
    BY <2>2, <2>3, Symbols, Zenon DEF NonEmptySeqs
  <2>5. ts \in Seq(NonEmptySeqs)
    BY <2>1, <2>4, Retyped, Zenon
  <2>6. req.chain_id \in Nat
    BY <2>1, Symbols, Zenon
  <2> QED BY <2>1, <2>5, <2>6 DEF ChainRequests
<1> QED BY <1>2, Retyped, Zenon

\* ... for the instances that the model builds.
THEOREM PreimageSafety == WireSpec => []PreimageInjective
<1>1. ASSUME RequestOK PROVE PreimageInjective
  <2> DEFINE Req == [chain_id : ChainId, transactions : Seq(Data)]
  <2> SUFFICES ASSUME NoEmptyTransaction(request), NEW period \in 1..2, NEW seq \in 1..2,
                      NEW other \in Requests, NoEmptyTransaction(other),
                      Preimage(period, seq, other) = Preimage(1, 1, request)
               PROVE  period = 1 /\ seq = 1 /\ other = request
    BY Zenon DEF PreimageInjective
  <2>1. request \in Seq(ChainRequests)
    BY <1>1, NonEmptyRequests, Zenon DEF RequestOK
  <2>2. other \in Seq(Req)
    <3>1. PICK n \in 0..MaxItems :
            other \in [1..n -> [chain_id : ChainId, transactions : BoundedSeq(Data, MaxItems)]]
      BY Zenon DEF Requests, BoundedSeq, SeqOf
    <3>2. BoundedSeq(Data, MaxItems) \subseteq Seq(Data)
      <4>1. ASSUME NEW m \in 0..MaxItems, NEW s \in [1..m -> Data] PROVE s \in Seq(Data)
        BY Bounds
      <4> QED BY <4>1, Zenon DEF BoundedSeq, SeqOf
    <3>3. [chain_id : ChainId, transactions : BoundedSeq(Data, MaxItems)] \subseteq Req
      BY <3>2
    <3> HIDE DEF Req
    <3>4. other \in [1..n -> Req] /\ n \in Nat
      BY <3>1, <3>3, Bounds
    <3> QED BY <3>4
  <2>3. other \in Seq(ChainRequests)
    BY <2>2, NonEmptyRequests, Zenon
  <2>4. period \in Nat /\ seq \in Nat /\ 1 \in Nat
    OBVIOUS
  <2> QED BY <2>1, <2>3, <2>4, PreimageUnique
<1> QED BY <1>1, RequestTyped, PTL

================================================================================

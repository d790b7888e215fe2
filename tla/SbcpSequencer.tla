----------------------------- MODULE SbcpSequencer -----------------------------
(***************************************************************************)
(* The superblock construction protocol's sequencers, one Sequencer of     *)
(* crates/spec-sbcp/src/sequencer.rs per rollup: block building, the       *)
(* instance lock, settlement and rollback behind one mutex each.           *)
(*                                                                         *)
(* Every method is one critical section except start_period and end_block, *)
(* which release the mutex before they call start_settlement.  That call   *)
(* takes it again to read the header, and releases it for the prover and   *)
(* the messenger: a running call is an element of settling.  Calls that    *)
(* return an error change nothing; their conditions are named, so that a   *)
(* caller can tell a refused call from one that took effect.               *)
(***************************************************************************)
EXTENDS Collections, FiniteSets

CONSTANTS
  Chain,            \* one sequencer per chain
  None,             \* Option::None
  InitPeriod, InitTarget,            \* the arguments of Sequencer::new
  InitFinalized, GenesisHash,        \* its settled superblock
  InitBlock         \* number of the block settled with it

ASSUME FiniteChains == IsFiniteSet(Chain)
\* end_block subtracts one from the period and the target under the mutex
ASSUME PositiveStart == {InitPeriod, InitTarget} \subseteq Nat \ {0}
ASSUME SettledStart == {InitFinalized, InitBlock} \subseteq Nat
\* No sequence number is Option::None
ASSUME NoneIsNoNumber == None \notin Nat

VARIABLES
  sequencer,        \* the SequencerState of each chain
  settling,         \* running start_settlement calls
  sent              \* proofs passed to send_proof

seqVars == <<sequencer, settling, sent>>

SettledAtStart == [block_header |-> [number |-> InitBlock, hash |-> GenesisHash],
                   superblock_number |-> InitFinalized,
                   superblock_hash |-> GenesisHash]

\* Sequencer::new
SequencerInit ==
  /\ sequencer = [c \in Chain |->
       [period_id |-> InitPeriod,
        target_superblock_number |-> InitTarget,
        pending_block |-> None,
        active_instance_id |-> None,
        last_sequence_number |-> None,
        head |-> SettledAtStart.block_header.number,
        sealed_block_head |-> EmptyMap,
        settled_state |-> SettledAtStart]]
  /\ settling = {}
  /\ sent = {}

--------------------------------------------------------------------------------
\* start_settlement, called with the mutex released
Settlement(c, period, superblock) ==
  [chain |-> c, period |-> period, superblock |-> superblock,
   header |-> None, stage |-> "called"]

\* start_period: p and t are taken as they come.  Settlement waits while a block
\* is pending.
StartPeriod(c, p, t) ==
  /\ sequencer' = [sequencer EXCEPT ![c].period_id = p,
                                    ![c].target_superblock_number = t,
                                    ![c].last_sequence_number = None]
  /\ settling' = IF sequencer[c].pending_block = None
                 THEN settling \cup {Settlement(c, p - 1, t - 1)}
                 ELSE settling
  /\ sent' = sent

\* start_settlement reads the period's sealed block under the mutex
ReadHeader(call) ==
  LET sealed == sequencer[call.chain].sealed_block_head IN
  /\ call.stage = "called"
  /\ settling' = (settling \ {call}) \cup
       {[call EXCEPT !.stage = "proving",
                     !.header = IF call.period \in DOMAIN sealed
                                THEN sealed[call.period].block_header ELSE None]}
  /\ UNCHANGED <<sequencer, sent>>

\* request_proofs succeeds and send_proof passes the proof on
SendProof(call) ==
  /\ call.stage = "proving"
  /\ settling' = settling \ {call}
  /\ sent' = sent \cup {[chain |-> call.chain, period |-> call.period,
                         superblock |-> call.superblock, header |-> call.header]}
  /\ UNCHANGED sequencer

\* request_proofs or send_proof returns an error, and start_settlement with it
SettlementFails(call) ==
  /\ call.stage = "proving"
  /\ settling' = settling \ {call}
  /\ UNCHANGED <<sequencer, sent>>

--------------------------------------------------------------------------------
PendingBlock(c, number) ==
  [number |-> number,
   period_id |-> sequencer[c].period_id,
   superblock_number |-> sequencer[c].target_superblock_number]

\* begin_block
BeginBlock(c, number) ==
  /\ sequencer[c].pending_block = None
  /\ number = sequencer[c].head + 1
  /\ sequencer' = [sequencer EXCEPT ![c].pending_block = PendingBlock(c, number)]
  /\ UNCHANGED <<settling, sent>>

\* The superblock end_block settles
SettlementSuperblock_OfBlock(c) == sequencer[c].pending_block.superblock_number
SettlementSuperblock(c) == sequencer[c].target_superblock_number - 1

SealedBlockHeader(c, b) ==
  [block_header |-> b,
   period_id |-> sequencer[c].pending_block.period_id,
   superblock_number |-> sequencer[c].pending_block.superblock_number]

\* end_block seals the pending block as b, under the period it began in, and
\* settles the period before the current one if that one ended meanwhile
EndBlock(c, b) ==
  LET s == sequencer[c]
      pending == s.pending_block
  IN
  /\ pending # None
  /\ pending.number = b.number
  /\ s.active_instance_id = None
  /\ sequencer' = [sequencer EXCEPT
       ![c].sealed_block_head =
          Insert(s.sealed_block_head, pending.period_id, SealedBlockHeader(c, b)),
       ![c].pending_block = None,
       ![c].head = b.number]
  /\ settling' = IF pending.period_id < s.period_id
                 THEN settling \cup
                      {Settlement(c, s.period_id - 1, SettlementSuperblock(c))}
                 ELSE settling
  /\ sent' = sent

\* The checks of on_start_instance
MayStartInstance_AnySequence(c, p, n) ==
  /\ sequencer[c].pending_block # None
  /\ sequencer[c].active_instance_id = None
  /\ sequencer[c].pending_block.period_id = p

MayStartInstance(c, p, n) ==
  /\ sequencer[c].pending_block # None
  /\ sequencer[c].active_instance_id = None
  /\ sequencer[c].pending_block.period_id = p
  /\ sequencer[c].last_sequence_number # None => n > sequencer[c].last_sequence_number

\* on_start_instance
OnStartInstance(c, id, p, n) ==
  /\ MayStartInstance(c, p, n)
  /\ sequencer' = [sequencer EXCEPT ![c].last_sequence_number = n,
                                    ![c].active_instance_id = id]
  /\ UNCHANGED <<settling, sent>>

LockAfterDecision_Kept(c) == sequencer[c].active_instance_id
LockAfterDecision(c) == None

\* on_decided_instance
OnDecidedInstance(c, id) ==
  /\ sequencer[c].active_instance_id = id
  /\ sequencer' = [sequencer EXCEPT ![c].active_instance_id = LockAfterDecision(c)]
  /\ UNCHANGED <<settling, sent>>

\* advance_settled_state
AdvanceSettledState(c, settled) ==
  /\ settled.superblock_number > sequencer[c].settled_state.superblock_number
  /\ sequencer' = [sequencer EXCEPT ![c].settled_state = settled]
  /\ UNCHANGED <<settling, sent>>

\* The check of rollback
AtFinalized(c, number, hash) ==
  /\ number = sequencer[c].settled_state.superblock_number
  /\ hash = sequencer[c].settled_state.superblock_hash

Retained_All(c) == sequencer[c].sealed_block_head

\* The sealed blocks rollback retains
Retained(c) ==
  LET s == sequencer[c] IN
  RemoveKeys(s.sealed_block_head,
             {p \in DOMAIN s.sealed_block_head :
                s.sealed_block_head[p].superblock_number
                  > s.settled_state.superblock_number})

LockAfterRollback_Kept(c) == sequencer[c].active_instance_id
LockAfterRollback(c) == None

\* rollback.  It leaves last_sequence_number alone, although the publisher starts
\* its sequence numbers again.
Rollback(c, number, hash, p) ==
  LET settled == sequencer[c].settled_state IN
  /\ AtFinalized(c, number, hash)
  /\ sequencer' = [sequencer EXCEPT
       ![c].sealed_block_head = Retained(c),
       ![c].pending_block = None,
       ![c].active_instance_id = LockAfterRollback(c),
       ![c].head = settled.block_header.number,
       ![c].period_id = p,
       ![c].target_superblock_number = settled.superblock_number + 1]
  /\ UNCHANGED <<settling, sent>>

================================================================================

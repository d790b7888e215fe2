----------------------------- MODULE SbcpInvariant -----------------------------
(***************************************************************************)
(* Why the sequencers stay in step with the publisher: the inductive       *)
(* invariants behind QuietAgreement, StartsOnce, KeptProofsCurrent and     *)
(* HistoryConsistent of Sbcp.                                              *)
(*                                                                         *)
(* A sequencer is behind the publisher by the messages on their way to it. *)
(* Every StartPeriod and Rollback among them sets its period and target;   *)
(* setting 0 is the sequencer as it is.  The invariants say how each       *)
(* setting follows from the one before, and the last one from the          *)
(* publisher.  Between two rollbacks the target keeps its lead over the    *)
(* period, so a pair of period and superblock belongs to one rollback.     *)
(***************************************************************************)
EXTENDS Sbcp

--------------------------------------------------------------------------------
\* The settings of a sequencer's period and target

Settings(c) == {0} \cup InFlight(c, {"StartPeriod", "Rollback"})

PeriodAt(c, k) == IF k = 0 THEN sequencer[c].period_id ELSE inbox[c][k].period

TargetAt(c, k) ==
  IF k = 0 THEN sequencer[c].target_superblock_number
  ELSE IF inbox[c][k].type = "StartPeriod" THEN inbox[c][k].target
  ELSE inbox[c][k].number + 1

\* Setting j is in force when the message at k is taken
InForce(c, j, k) ==
  /\ j \in Settings(c) /\ j < k
  /\ \A i \in Settings(c) : i <= j \/ k <= i

\* No Rollback is behind setting k
NoRollbackBehind(c, k) == \A i \in InFlight(c, {"Rollback"}) : i <= k

--------------------------------------------------------------------------------
\* The order of the messages, of every chain

PeriodsFollow(c) ==
  /\ \A k \in Settings(c) :
       /\ PeriodAt(c, k) \in Int /\ TargetAt(c, k) \in Int
       /\ PeriodAt(c, k) <= period_id
       /\ \A j \in Settings(c) : j <= k => PeriodAt(c, j) <= PeriodAt(c, k)
  /\ \A k \in DOMAIN inbox[c], j \in Settings(c) : InForce(c, j, k) =>
       /\ inbox[c][k].type = "StartPeriod" => inbox[c][k].period = PeriodAt(c, j) + 1
       /\ inbox[c][k].type \in {"Rollback", "StartInstance"} =>
            inbox[c][k].period = PeriodAt(c, j)
  /\ \A j \in Settings(c) :
       InForce(c, j, Len(inbox[c]) + 1) => PeriodAt(c, j) = period_id

\* The instances started are those of the past, told apart by period and number
InstancesFollow(c) ==
  LET last == sequencer[c].last_sequence_number IN
  /\ last # None => last \in Int
  /\ \A k \in InFlight(c, {"StartInstance"}) :
       inbox[c][k].seq \in Nat /\ inbox[c][k].id[2] = inbox[c][k].seq
  /\ \A id \in started[c] :
       /\ id[1] \in Int /\ id[2] \in Int
       /\ id[1] <= sequencer[c].period_id
       /\ id[1] = sequencer[c].period_id => last # None /\ id[2] <= last

\* A chain that took every Rollback has the target that goes with its period
TargetsFollow(c) ==
  /\ \A k \in InFlight(c, {"StartPeriod"}), j \in Settings(c) :
       InForce(c, j, k) => inbox[c][k].target = TargetAt(c, j) + 1
  /\ \A k \in Settings(c) : NoRollbackBehind(c, k) =>
       TargetAt(c, k) - PeriodAt(c, k) = target_superblock_number - period_id

OrderInv ==
  /\ sequence_number \in Nat
  /\ DOMAIN started = Chain /\ DOMAIN origin = Chain
  /\ \A c \in Chain :
       /\ PeriodsFollow(c)
       /\ InstancesFollow(c)
       /\ c \notin refused => TargetsFollow(c)

--------------------------------------------------------------------------------
\* The blocks, their proofs and L1.  What follows is of chains that took every
\* Rollback, and as long as L1 settles nothing that was rolled back.

\* The publisher did not start at a superblock that was already finalized
Orderly == ~overtaken /\ InitTarget > InitFinalized

RollbacksFollow(c) ==
  LET Rollbacks == InFlight(c, {"Rollback"}) IN
  /\ origin[c] \in Nat
  /\ \A k \in Rollbacks : /\ inbox[c][k].epoch \in Nat /\ inbox[c][k].number \in Int
                          /\ inbox[c][k].epoch <= epoch
                          /\ inbox[c][k].number <= last_finalized_superblock_number
                          /\ inbox[c][k].epoch = epoch => NoRollbackBehind(c, k)
  /\ Rollbacks # {} => \E k \in Rollbacks : inbox[c][k].epoch = epoch
  /\ Rollbacks = {} /\ c \notin refused => origin[c] = epoch

\* What the publisher and L1 have under way
L1Follows ==
  /\ epoch \in Nat
  /\ l1 \in Seq(published)
  /\ last_finalized_superblock_number \in InitFinalized..Pub!LatestNumber
  /\ Orderly => Pub!LatestNumber < target_superblock_number
  /\ \A k \in DOMAIN l1 : l1[k].number = InitFinalized + k
  /\ \A sb \in Pub!SuperblocksUnderWay :
       /\ sb.number \in Int /\ sb.epoch \in Int /\ sb.epoch <= epoch
       /\ sb.epoch = epoch => sb.number < target_superblock_number
  /\ \A call \in proving : call = [superblock |-> call.superblock, chains |-> call.chains,
                                   stage |-> call.stage]

\* A proof that receive_proof would keep, now or once its superblock is next
Current(pf) ==
  /\ pf.superblock - pf.period = target_superblock_number - period_id
  /\ pf.superblock > last_finalized_superblock_number

\* Calls of start_settlement that have read their header
Proofs == sent \cup {call \in settling : call.stage = "proving"}

SealedHeader(c, p) ==
  LET sealed == sequencer[c].sealed_block_head IN
  IF p \in DOMAIN sealed THEN sealed[p].block_header ELSE None

\* A proof is of a period that ended, with no block of that period still open, and
\* if it may be kept it is of the block that the chain sealed last in the period
ProofsFollow ==
  /\ \A call \in settling \cup sent :
       LET s == sequencer[call.chain] IN
       /\ call.chain \in Chain
       /\ call.period \in Int /\ call.superblock \in Int
       /\ call.period < s.period_id
       /\ s.pending_block # None => call.period < s.pending_block.period_id
  /\ \A pf \in Proofs : Orderly /\ pf.chain \notin refused /\ Current(pf) =>
       pf.header = SealedHeader(pf.chain, pf.period)

\* The proofs that are kept, and those in the superblocks under way
KeptFollow ==
  /\ kept \subseteq sent
  /\ \A pf \in kept : pf.superblock > last_finalized_superblock_number => Current(pf)
  /\ \A n \in DOMAIN proofs : \A c \in proofs[n] :
       \E pf \in kept : pf.superblock = n /\ pf.chain = c
  /\ \A sb \in Pub!SuperblocksUnderWay :
       /\ sb \in DOMAIN contents /\ contents[sb] \subseteq sent
       /\ sb.epoch = epoch /\ sb.number > last_finalized_superblock_number =>
            /\ \A pf \in contents[sb] : pf.superblock = sb.number /\ Current(pf)
            /\ \A c \in Chain : \E pf \in contents[sb] : pf.chain = c
  /\ Orderly => KeptProofsCurrent

\* A sealed block is of the superblock its period goes with since the chain's last
\* rollback, or finalized
BlocksFollow(c) ==
  LET s == sequencer[c]
      sealed == s.sealed_block_head
      lead == s.target_superblock_number - s.period_id
  IN
  /\ \A k \in InFlight(c, {"Rollback"}) : inbox[c][k].number = Pub!LatestNumber
  /\ \A k \in Settings(c) : Pub!LatestNumber < TargetAt(c, k)
  /\ s.pending_block # None =>
       /\ s.pending_block.superblock_number - s.pending_block.period_id = lead
       /\ s.pending_block.superblock_number > Pub!LatestNumber
  /\ \A p \in DOMAIN sealed :
       \/ /\ sealed[p].superblock_number = p + lead
          /\ sealed[p].block_header.hash = [superblock |-> p + lead, origin |-> origin[c]]
       \/ /\ sealed[p].superblock_number <= last_finalized_superblock_number
          /\ p + lead <= last_finalized_superblock_number

\* The blocks are of the periods so far
NumbersFollow(c) ==
  LET s == sequencer[c]
      sealed == s.sealed_block_head
  IN
  /\ s.pending_block # None => /\ s.pending_block.period_id \in Int
                               /\ s.pending_block.superblock_number \in Int
                               /\ s.pending_block.period_id <= s.period_id
  /\ \A p \in DOMAIN sealed :
       /\ p \in Int /\ p <= s.period_id
       /\ s.pending_block # None => p <= s.pending_block.period_id
       /\ sealed[p].period_id = p
       /\ sealed[p].superblock_number \in Int

\* The chain's blocks on L1 are those it remembers, and its last rollback went no
\* further back than they do
SettledHeaders(c) ==
  LET settled == sequencer[c].settled_state IN
  /\ settled.superblock_number \in InitFinalized..Pub!LatestNumber
  /\ settled.block_header.number \in InitBlock..sequencer[c].head
  /\ \A h \in HeadersOnL1(c, settled.superblock_number) :
       h.number <= settled.block_header.number

L1Headers(c) ==
  LET s == sequencer[c] IN
  /\ s.head \in Int
  /\ s.pending_block # None => s.pending_block.number = s.head + 1
  /\ \A h \in HeadersOnL1(c, Pub!LatestNumber) : h.number \in InitBlock..s.head
  /\ \A n \in InitFinalized..Pub!LatestNumber : HeadersOnL1(c, n) # {} =>
       \E h \in HeadersOnL1(c, n) : \A g \in HeadersOnL1(c, n) : g.number <= h.number

SealedHeaders(c) ==
  LET sealed == sequencer[c].sealed_block_head IN
  \A p \in DOMAIN sealed :
    /\ sealed[p].block_header # None
    /\ sealed[p].block_header.number \in InitBlock..sequencer[c].head
    /\ sealed[p].superblock_number <= Pub!LatestNumber =>
         sealed[p].block_header \in HeadersOnL1(c, sealed[p].superblock_number)
    /\ \A q \in DOMAIN sealed : p < q =>
         sealed[p].block_header.number < sealed[q].block_header.number

HeadersFollow(c) == SettledHeaders(c) /\ L1Headers(c) /\ SealedHeaders(c)

\* The superblocks of the blocks are in the order of their periods
SuperblocksFollow(c) ==
  LET s == sequencer[c]
      sealed == s.sealed_block_head
  IN
  /\ s.pending_block # None =>
       /\ s.pending_block.superblock_number <= s.target_superblock_number
       /\ s.pending_block.period_id < s.period_id =>
            s.pending_block.superblock_number < s.target_superblock_number
  /\ \A p \in DOMAIN sealed :
       /\ sealed[p].superblock_number <= s.target_superblock_number
       /\ p < s.period_id => sealed[p].superblock_number < s.target_superblock_number
       /\ s.pending_block # None /\ p < s.pending_block.period_id =>
            sealed[p].superblock_number < s.pending_block.superblock_number
       /\ \A q \in DOMAIN sealed : p < q =>
            sealed[p].superblock_number < sealed[q].superblock_number

HistoryInv ==
  /\ L1Follows
  /\ ProofsFollow
  /\ KeptFollow
  /\ \A c \in Chain :
       /\ RollbacksFollow(c)
       /\ NumbersFollow(c)
       /\ c \notin refused => SuperblocksFollow(c)
       /\ Orderly /\ c \notin refused => BlocksFollow(c) /\ HeadersFollow(c)

\* The inductive invariant of the composed protocol
Inductive == IndInv /\ OrderInv /\ HistoryInv

================================================================================

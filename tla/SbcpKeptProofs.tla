---------------------------- MODULE SbcpKeptProofs -----------------------------
(***************************************************************************)
(* The proofs on their way to the publisher and those it keeps, and what   *)
(* it has under way with L1: how each step keeps L1Follows, ProofsFollow   *)
(* and KeptFollow.                                                         *)
(*                                                                         *)
(* The crux is CurrentMeansNoRollback: while a proof that receive_proof    *)
(* may still keep exists, no Rollback is on its way to its chain.          *)
(***************************************************************************)
EXTENDS SbcpOrderProofs

\* L1 and what the publisher has under way

LEMMA L1Kept ==
  ASSUME IndInv, L1Follows, UNCHANGED <<epoch, l1, last_finalized_superblock_number>>,
         published \subseteq published',
         Pub!SuperblocksUnderWay' \subseteq Pub!SuperblocksUnderWay,
         target_superblock_number' \in Int,
         target_superblock_number <= target_superblock_number',
         \A call \in proving' : call = [superblock |-> call.superblock,
                                        chains |-> call.chains, stage |-> call.stage],
         Orderly' => Orderly
  PROVE  L1Follows'
<1>1. /\ target_superblock_number \in Int /\ Pub!LatestNumber \in Int
  BY ZenonT(30), HistoryNumbers
<1>2. Pub!LatestNumber' = Pub!LatestNumber
  BY Zenon DEF Pub!LatestNumber
<1>3. l1' \in Seq(published')
  <2>1. l1 \in Seq(published) /\ l1' = l1
    BY Zenon DEF L1Follows
  <2> QED BY <2>1
<1>4. Orderly' => Pub!LatestNumber' < target_superblock_number'
  BY <1>1, <1>2 DEF L1Follows
<1>5. \A sb \in Pub!SuperblocksUnderWay' :
        /\ sb.number \in Int /\ sb.epoch \in Int /\ sb.epoch <= epoch'
        /\ sb.epoch = epoch' => sb.number < target_superblock_number'
  <2>1. \A sb \in Pub!SuperblocksUnderWay' :
          /\ sb.number \in Int /\ sb.epoch \in Int /\ sb.epoch <= epoch
          /\ sb.epoch = epoch => sb.number < target_superblock_number
    BY Zenon DEF L1Follows
  <2> QED BY <2>1, <1>1
<1> QED
  BY <1>2, <1>3, <1>4, <1>5, ZenonT(30) DEF L1Follows

LEMMA L1Rollback ==
  ASSUME IndInv, L1Follows, Pub!rollback, BroadcastRollback, proving' \subseteq proving
  PROVE  L1Follows'
<1>1. /\ target_superblock_number' = last_finalized_superblock_number + 1
      /\ epoch' = epoch + 1
      /\ UNCHANGED <<last_finalized_superblock_number, published, l1>>
      /\ overtaken' = (overtaken \/ Pub!LatestNumber > last_finalized_superblock_number)
  BY Zenon DEF Pub!rollback, Pub!TargetAfterRollback, Pub!finalized, BroadcastRollback
<1>2. /\ last_finalized_superblock_number \in Int /\ Pub!LatestNumber \in Int
      /\ epoch \in Nat
  BY ZenonT(30), HistoryNumbers
<1>3. Pub!LatestNumber' = Pub!LatestNumber
  BY ZenonT(30), <1>1 DEF Pub!LatestNumber
<1>4. Orderly' => Pub!LatestNumber' < target_superblock_number'
  <2>1. Orderly' => ~(Pub!LatestNumber > last_finalized_superblock_number)
    BY <1>1, Zenon DEF Orderly
  <2> QED BY SMTT(30), <1>1, <1>2, <1>3, <2>1
<1>5. \A sb \in Pub!SuperblocksUnderWay' :
        /\ sb.number \in Int /\ sb.epoch \in Int /\ sb.epoch <= epoch'
        /\ sb.epoch = epoch' => sb.number < target_superblock_number'
  <2>1. Pub!SuperblocksUnderWay' \subseteq Pub!SuperblocksUnderWay
    BY ZenonT(30), <1>1 DEF Pub!SuperblocksUnderWay
  <2>2. \A sb \in Pub!SuperblocksUnderWay' :
          sb.number \in Int /\ sb.epoch \in Int /\ sb.epoch <= epoch
    BY <2>1, Zenon DEF L1Follows
  <2> QED BY SMTT(30), <2>2, <1>1, <1>2
<1>6. \A call \in proving' : call = [superblock |-> call.superblock,
                                     chains |-> call.chains, stage |-> call.stage]
  BY Zenon DEF L1Follows
<1>7. epoch' \in Nat
  BY <1>1, <1>2
<1> QED
  BY <1>1, <1>3, <1>4, <1>5, <1>6, <1>7, ZenonT(30) DEF L1Follows

\* L1 accepts a superblock under way: of the current epoch, or L1 is overtaken.
LEMMA L1Accepted ==
  ASSUME IndInv, L1Follows, NEW sb \in published, L1AcceptsSuperblock(sb)
  PROVE  /\ L1Follows'
         /\ Pub!LatestNumber' = Pub!LatestNumber + 1
         /\ sb.number = Pub!LatestNumber + 1
         /\ l1'[Len(l1) + 1] = sb
         /\ \A k \in 1..Len(l1) : l1'[k] = l1[k]
<1>1. /\ sb.number = Pub!LatestNumber + 1
      /\ l1' = Append(l1, sb)
      /\ UNCHANGED <<epoch, last_finalized_superblock_number, target_superblock_number,
                     published, proving>>
      /\ overtaken' = (overtaken \/ sb.epoch # epoch)
  BY Zenon DEF L1AcceptsSuperblock, Pub!L1Accepts, Pub!building, Pub!finalized, Pub!messages
<1>2. /\ Len(l1) \in Nat /\ InitFinalized \in Nat
      /\ Pub!LatestNumber = InitFinalized + Len(l1)
      /\ last_finalized_superblock_number \in Int
      /\ InitFinalized <= last_finalized_superblock_number
      /\ last_finalized_superblock_number <= Pub!LatestNumber
  BY HistoryNumbers, Zenon
<1>3. l1 \in Seq(published)
  BY Zenon DEF L1Follows
<1>4. /\ l1' \in Seq(published') /\ Len(l1') = Len(l1) + 1
      /\ l1'[Len(l1) + 1] = sb
      /\ \A k \in 1..Len(l1) : l1'[k] = l1[k]
      /\ DOMAIN l1' = 1..(Len(l1) + 1) /\ DOMAIN l1 = 1..Len(l1)
  BY <1>1, <1>3
<1>5. Pub!LatestNumber' = Pub!LatestNumber + 1
  BY <1>2, <1>4 DEF Pub!LatestNumber
<1>6. Pub!SuperblocksUnderWay' = Pub!SuperblocksUnderWay
  BY <1>1, Zenon DEF Pub!SuperblocksUnderWay
<1>7. /\ sb.epoch = epoch => sb.number < target_superblock_number
      /\ sb \in Pub!SuperblocksUnderWay
  BY Zenon DEF L1Follows, Pub!SuperblocksUnderWay
<1>8. Orderly' => Pub!LatestNumber' < target_superblock_number'
  BY ZenonT(30), <1>1, <1>5, <1>7 DEF Orderly
<1>9. \A k \in DOMAIN l1' : l1'[k].number = InitFinalized + k
  <2>1. \A k \in DOMAIN l1 : l1[k].number = InitFinalized + k
    BY Zenon DEF L1Follows
  <2> SUFFICES ASSUME NEW k \in 1..(Len(l1) + 1) PROVE l1'[k].number = InitFinalized + k
    BY <1>4, Zenon
  <2>2. CASE k \in 1..Len(l1)
    BY <2>1, <2>2, <1>4, Zenon
  <2>3. CASE k = Len(l1) + 1
    <3>1. (InitFinalized + Len(l1)) + 1 = InitFinalized + (Len(l1) + 1)
      BY <1>2
    <3> QED BY <3>1, <2>3, <1>1, <1>2, <1>4, Zenon
  <2>4. k \in 1..Len(l1) \/ k = Len(l1) + 1
    BY <1>2
  <2> QED BY <2>2, <2>3, <2>4, Zenon
<1>10. last_finalized_superblock_number' \in InitFinalized..Pub!LatestNumber'
  BY SMTT(30), <1>1, <1>2, <1>5
<1>11. L1Follows'
  BY <1>1, <1>4, <1>6, <1>8, <1>9, <1>10, ZenonT(30) DEF L1Follows
<1> QED
  BY <1>1, <1>4, <1>5, <1>11, ZenonT(30)

--------------------------------------------------------------------------------
\* Proofs on their way

CallOK(call) ==
  /\ call.chain \in Chain
  /\ call.period \in Int /\ call.superblock \in Int
  /\ call.period < sequencer[call.chain].period_id
  /\ sequencer[call.chain].pending_block # None =>
       call.period < sequencer[call.chain].pending_block.period_id

ProofOK(pf) ==
  Orderly /\ pf.chain \notin refused /\ Current(pf) =>
    pf.header = SealedHeader(pf.chain, pf.period)

LEMMA ProofsEach ==
  ProofsFollow <=> /\ \A call \in settling \cup sent : CallOK(call)
                   /\ \A pf \in Proofs : ProofOK(pf)
BY Zenon DEF ProofsFollow, CallOK, ProofOK

LEMMA ProofsEachNext ==
  ASSUME \A call \in settling' \cup sent' : CallOK(call)',
         \A pf \in Proofs' : ProofOK(pf)'
  PROVE  ProofsFollow'
BY Zenon DEF ProofsFollow, CallOK, ProofOK

LEMMA ProofsAreCalls ==
  ASSUME ProofsFollow, NEW pf \in Proofs
  PROVE  CallOK(pf) /\ ProofOK(pf)
BY ProofsEach, Zenon DEF Proofs

\* While receive_proof may still keep a proof, no Rollback is on its way to its
\* chain, which builds since the publisher's last rollback and for its targets.
LEMMA CurrentMeansNoRollback ==
  ASSUME IndInv, OrderInv, L1Follows, NEW c \in Chain, RollbacksFollow(c), c \notin refused,
         NEW p \in Int, NEW n \in Int, p < sequencer[c].period_id,
         n - p = target_superblock_number - period_id,
         n > last_finalized_superblock_number
  PROVE  /\ InFlight(c, {"Rollback"}) = {}
         /\ origin[c] = epoch
         /\ \A k \in Settings(c) :
              /\ PeriodAt(c, k) \in Int /\ TargetAt(c, k) \in Int
              /\ PeriodAt(c, 0) <= PeriodAt(c, k)
              /\ TargetAt(c, k) - PeriodAt(c, k) = target_superblock_number - period_id
<1>1. OrderOK(c) /\ Shapes
  BY OrderOfChains, Basics, ZenonT(30)
<1>2. /\ period_id \in Int /\ target_superblock_number \in Int
      /\ last_finalized_superblock_number \in Int
  BY HistoryNumbers, ZenonT(30)
<1>3. /\ 0 \in Settings(c) /\ PeriodAt(c, 0) = sequencer[c].period_id
      /\ InFlight(c, {"Rollback"}) \subseteq Settings(c)
      /\ Settings(c) \subseteq Nat
  BY SMTT(20), <1>1, Positions DEF Settings, PeriodAt, InFlight
<1>4. \A k \in Settings(c) : /\ PeriodAt(c, k) \in Int /\ TargetAt(c, k) \in Int
                             /\ PeriodAt(c, 0) <= PeriodAt(c, k)
  BY <1>1, <1>3 DEF OrderOK, PeriodsFollow
<1>5. TargetsFollow(c)
  BY <1>1, ZenonT(30) DEF OrderOK
<1>6. InFlight(c, {"Rollback"}) = {}
  <2> SUFFICES ASSUME InFlight(c, {"Rollback"}) # {} PROVE FALSE
    BY Zenon
  <2>1. PICK k \in InFlight(c, {"Rollback"}) : inbox[c][k].epoch = epoch
    BY Zenon DEF RollbacksFollow
  <2>2. /\ inbox[c][k].number \in Int
        /\ inbox[c][k].number <= last_finalized_superblock_number
        /\ NoRollbackBehind(c, k)
    BY <2>1, Zenon DEF RollbacksFollow
  <2>3. k \in Settings(c) /\ TargetAt(c, k) = inbox[c][k].number + 1
    <3>1. k # 0 /\ inbox[c][k].type = "Rollback"
      BY <1>1, Positions DEF InFlight
    <3> QED BY ZenonT(30), <1>3, <3>1 DEF TargetAt
  <2>4. TargetAt(c, k) - PeriodAt(c, k) = target_superblock_number - period_id
    BY <2>2, <2>3, <1>5, ZenonT(30) DEF TargetsFollow
  <2> QED BY SMTT(30), <2>2, <2>3, <2>4, <1>2, <1>3, <1>4
<1>7. origin[c] = epoch
  BY <1>6, Zenon DEF RollbacksFollow
<1>8. \A k \in Settings(c) : NoRollbackBehind(c, k)
  BY <1>6, Zenon DEF NoRollbackBehind
<1>9. \A k \in Settings(c) :
        TargetAt(c, k) - PeriodAt(c, k) = target_superblock_number - period_id
  BY <1>5, <1>8, ZenonT(30) DEF TargetsFollow
<1> QED
  BY <1>4, <1>6, <1>7, <1>9, ZenonT(30)

\* A step of the publisher or L1 that makes no proof current.
LEMMA ProofsKept ==
  ASSUME ProofsFollow, UNCHANGED <<sequencer, settling, sent, refused>>, Orderly' => Orderly,
         \A pf \in Proofs : CallOK(pf) /\ Current(pf)' => Current(pf)
  PROVE  ProofsFollow'
<1>1. \A call \in settling' \cup sent' : CallOK(call)'
  BY ProofsEach, Zenon DEF CallOK
<1>2. ASSUME NEW pf \in Proofs' PROVE ProofOK(pf)'
  <2>1. pf \in Proofs
    BY Zenon DEF Proofs
  <2>2. SealedHeader(pf.chain, pf.period)' = SealedHeader(pf.chain, pf.period)
    BY Zenon DEF SealedHeader
  <2>3. CallOK(pf) /\ ProofOK(pf)
    BY ZenonT(30), <2>1, ProofsAreCalls
  <2> QED BY <2>1, <2>2, <2>3, ZenonT(30) DEF ProofOK
<1> QED
  BY <1>1, <1>2, ProofsEachNext, ZenonT(30)

\* start_period of the publisher moves the period and the target together.
LEMMA ProofsStartPeriod ==
  ASSUME IndInv, HistoryInv, Pub!StartPeriod,
         UNCHANGED <<sequencer, settling, sent, refused, overtaken>>
  PROVE  ProofsFollow' /\ \A pf : pf.superblock \in Int /\ pf.period \in Int =>
                                    (Current(pf)' <=> Current(pf))
<1>1. /\ period_id' = period_id + 1
      /\ target_superblock_number' = target_superblock_number + 1
      /\ UNCHANGED last_finalized_superblock_number
  BY ZenonT(30) DEF Pub!StartPeriod, Pub!NextPeriod, Pub!finalized
<1>2. L1Follows /\ ProofsFollow
  BY HistoryGroups, ZenonT(30)
<1>3. ASSUME NEW pf, pf.superblock \in Int, pf.period \in Int
      PROVE  Current(pf)' <=> Current(pf)
  <2>1. period_id \in Int /\ target_superblock_number \in Int
    BY <1>2, HistoryNumbers, ZenonT(30)
  <2> QED BY SMTT(20), <1>1, <1>3, <2>1 DEF Current
<1>4. Orderly' => Orderly
  BY Zenon DEF Orderly
<1>5. ProofsFollow'
  BY <1>2, <1>3, <1>4, ProofsKept, ZenonT(30) DEF CallOK
<1> QED
  BY ZenonT(30), <1>3, <1>5

\* After a rollback receive_proof keeps no proof that was sent before.
LEMMA ProofsRollback ==
  ASSUME IndInv, OrderInv, HistoryInv, Pub!rollback, BroadcastRollback
  PROVE  ProofsFollow' /\ \A pf \in Proofs : ~Current(pf)'
<1>1. /\ period_id' = period_id
      /\ target_superblock_number' = last_finalized_superblock_number + 1
      /\ UNCHANGED <<last_finalized_superblock_number, sequencer, settling, sent, refused>>
      /\ overtaken' = (overtaken \/ Pub!LatestNumber > last_finalized_superblock_number)
  BY ZenonT(30)
     DEF Pub!rollback, Pub!TargetAfterRollback, Pub!finalized, BroadcastRollback, seqVars
<1>2. L1Follows /\ ProofsFollow
  BY HistoryGroups, ZenonT(30)
<1>3. /\ period_id \in Int /\ last_finalized_superblock_number \in Int
  BY ZenonT(30), <1>2, HistoryNumbers
<1>4. ASSUME NEW pf \in Proofs PROVE ~Current(pf)'
  <2>1. CallOK(pf)
    BY ZenonT(30), <1>2, ProofsAreCalls
  <2>2. OrderOK(pf.chain) /\ 0 \in Settings(pf.chain)
    BY <2>1, OrderOfChains, ZenonT(30) DEF CallOK, Settings
  <2>3. /\ sequencer[pf.chain].period_id \in Int
        /\ sequencer[pf.chain].period_id <= period_id
    BY ZenonT(30), <2>2 DEF OrderOK, PeriodsFollow, PeriodAt
  <2> QED BY SMTT(30), <2>1, <2>3, <1>1, <1>3 DEF CallOK, Current
<1>5. Orderly' => Orderly
  BY <1>1, Zenon DEF Orderly
<1>6. ProofsFollow'
  BY <1>1, <1>2, <1>4, <1>5, ProofsKept, ZenonT(30)
<1> QED
  BY ZenonT(30), <1>4, <1>6

\* A step of one sequencer, which may call start_settlement.
LEMMA ProofsSequencer ==
  ASSUME ProofsFollow, NEW c \in Chain, \A d \in Chain \ {c} : sequencer'[d] = sequencer[d],
         UNCHANGED <<period_id, target_superblock_number, last_finalized_superblock_number,
                     overtaken, sent>>,
         refused \subseteq refused',
         NEW Added, settling' \subseteq settling \cup Added,
         \A call \in Added : call.stage = "called" /\ CallOK(call)',
         \A call \in settling \cup sent : CallOK(call) /\ call.chain = c => CallOK(call)',
         \A pf \in Proofs : CallOK(pf) /\ pf.chain = c /\ Orderly /\ c \notin refused'
                              /\ Current(pf) =>
           SealedHeader(c, pf.period)' = SealedHeader(c, pf.period)
  PROVE  ProofsFollow'
<1>1. ASSUME NEW call \in settling' \cup sent' PROVE CallOK(call)'
  <2>1. CASE call \in Added
    BY ZenonT(30), <2>1
  <2>2. CASE call \in settling \cup sent
    <3>1. CallOK(call)
      BY <2>2, ProofsEach, ZenonT(30)
    <3>2. CASE call.chain # c
      BY <3>1, <3>2, ZenonT(30) DEF CallOK
    <3> QED BY ZenonT(30), <2>2, <3>1, <3>2
  <2> QED BY ZenonT(30), <2>1, <2>2, <1>1
<1>2. ASSUME NEW pf \in Proofs' PROVE ProofOK(pf)'
  <2>1. pf \in Proofs
    BY <1>2, ZenonT(30) DEF Proofs
  <2>2. CallOK(pf) /\ ProofOK(pf)
    BY ZenonT(30), <2>1, ProofsAreCalls
  <2>3. (Orderly' => Orderly) /\ (Current(pf)' <=> Current(pf))
    BY Zenon DEF Orderly, Current
  <2>4. CASE pf.chain = c
    BY <2>1, <2>2, <2>3, <2>4, ZenonT(30) DEF ProofOK
  <2>5. CASE pf.chain # c
    <3>1. SealedHeader(pf.chain, pf.period)' = SealedHeader(pf.chain, pf.period)
      BY <2>2, <2>5, ZenonT(30) DEF SealedHeader, CallOK
    <3> QED BY <2>2, <2>3, <3>1, ZenonT(30) DEF ProofOK
  <2> QED BY ZenonT(30), <2>4, <2>5
<1> QED
  BY <1>1, <1>2, ProofsEachNext, ZenonT(30)

\* A step of one sequencer that does not.
LEMMA ProofsSequencerOnly ==
  ASSUME ProofsFollow, NEW c \in Chain, \A d \in Chain \ {c} : sequencer'[d] = sequencer[d],
         UNCHANGED <<period_id, target_superblock_number, last_finalized_superblock_number,
                     overtaken, settling, sent>>,
         refused \subseteq refused',
         \A call \in settling \cup sent : CallOK(call) /\ call.chain = c => CallOK(call)',
         \A pf \in Proofs : CallOK(pf) /\ pf.chain = c /\ Orderly /\ c \notin refused'
                              /\ Current(pf) =>
           SealedHeader(c, pf.period)' = SealedHeader(c, pf.period)
  PROVE  ProofsFollow'
<1> PICK Added : Added = {}
  BY ZenonT(30)
<1>1. /\ settling' \subseteq settling \cup Added
      /\ \A call \in Added : call.stage = "called" /\ CallOK(call)'
  BY Zenon
<1> QED
  BY <1>1, ProofsSequencer, ZenonT(30)

\* What holds of a settlement when start_settlement is called.
LEMMA NewCall ==
  ASSUME NEW c \in Chain, NEW p \in Int, NEW n \in Int, sequencer'[c].pending_block = None,
         p < sequencer'[c].period_id, NEW call, call = Settlement(c, p, n)
  PROVE  call.stage = "called" /\ CallOK(call)'
<1>1. /\ call.chain = c /\ call.period = p /\ call.superblock = n
      /\ call.stage = "called"
  BY Zenon DEF Settlement
<1> QED
  BY <1>1, ZenonT(30) DEF CallOK

\* A sequencer takes a message: it may drop sealed blocks on a Rollback, but then no
\* proof of the chain is current.
LEMMA ProofsDeliver ==
  ASSUME IndInv, OrderInv, HistoryInv, NEW c \in Chain, Deliver(c)
  PROVE  ProofsFollow'
<1> PICK msg : msg = Head(inbox[c])
  BY Zenon
<1>1. /\ Shapes /\ OrderOK(c) /\ DOMAIN started = Chain /\ DOMAIN origin = Chain
      /\ ProofsFollow /\ L1Follows /\ RollbacksFollow(c)
  BY Basics, OrderOfChains, HistoryGroups, ZenonT(30) DEF ChainHistory
<1>2. /\ inbox[c] # <<>> /\ inbox'[c] = Tail(inbox[c])
      /\ OthersKept(c)
      /\ UNCHANGED <<pubVars, overtaken>>
      /\ \/ msg.type = "StartPeriod" /\ TakesStartPeriod(c, msg)
         \/ msg.type = "StartInstance" /\ TakesStartInstance(c, msg)
         \/ msg.type = "Rollback" /\ (TakesRollback(c, msg) \/ RefusesRollback(c))
         \/ ~IsControl(msg) /\ TakesNothing(c)
  BY <1>1, DeliverEffect, ZenonT(30)
<1>3. UNCHANGED <<period_id, target_superblock_number, last_finalized_superblock_number,
                  overtaken>>
      /\ \A d \in Chain \ {c} : sequencer'[d] = sequencer[d]
  BY ZenonT(30), <1>2 DEF pubVars, OthersKept
<1>4. /\ msg = inbox[c][1] /\ 1 \in DOMAIN inbox[c]
      /\ 0 \in Settings(c) /\ InForce(c, 0, 1)
  BY <1>1, <1>2, SettingsTaken, ZenonT(30) DEF TakenFirst
<1>5. /\ sequencer[c].period_id \in Int
      /\ msg.type = "StartPeriod" => /\ msg.period = sequencer[c].period_id + 1
                                     /\ msg.target \in Int
      /\ msg.type = "Rollback" => msg.period = sequencer[c].period_id
  <2>1. IsControl(msg) => 1 \in Settings(c)
    BY ZenonT(30), <1>4 DEF Settings, InFlight, IsControl
  <2>2. msg.type = "StartPeriod" => TargetAt(c, 1) = msg.target
    BY <1>4 DEF TargetAt
  <2> QED BY ZenonT(30), <1>1, <1>4, <2>1, <2>2 DEF OrderOK, PeriodsFollow, PeriodAt, IsControl
<1>6. CASE msg.type = "StartPeriod" /\ TakesStartPeriod(c, msg)
  <2> PICK Added : Added = {Settlement(c, msg.period - 1, msg.target - 1)}
    BY Zenon
  <2>1. /\ sequencer'[c].period_id = sequencer[c].period_id + 1
        /\ sequencer'[c].pending_block = sequencer[c].pending_block
        /\ sent' = sent /\ refused \subseteq refused'
        /\ \A pf \in Proofs : SealedHeader(c, pf.period)' = SealedHeader(c, pf.period)
    BY <1>5, <1>6, ZenonT(30) DEF TakesStartPeriod, BlocksKept, SealedHeader
  <2>2. \A call \in settling \cup sent : CallOK(call) /\ call.chain = c => CallOK(call)'
    BY SMTT(20), <2>1, <1>5 DEF CallOK
  <2>3. CASE sequencer[c].pending_block = None
    <3>1. settling' \subseteq settling \cup Added
      BY Zenon, <1>6 DEF TakesStartPeriod
    <3>2. /\ msg.period - 1 \in Int /\ msg.target - 1 \in Int
          /\ msg.period - 1 < sequencer'[c].period_id
      BY SMTT(30), <1>5, <1>6, <2>1
    <3>3. \A call \in Added : call.stage = "called" /\ CallOK(call)'
      BY <2>1, <2>3, <3>2, NewCall, ZenonT(30)
    <3> QED BY <1>1, <1>3, <2>1, <2>2, <3>1, <3>3, ProofsSequencer, ZenonT(30)
  <2>4. CASE sequencer[c].pending_block # None
    <3>1. settling' = settling
      BY ZenonT(30), <1>6, <2>4 DEF TakesStartPeriod
    <3> QED BY <1>1, <1>3, <2>1, <2>2, <3>1, ProofsSequencerOnly, ZenonT(30)
  <2> QED BY ZenonT(30), <2>3, <2>4
<1>7. ASSUME SettingKept(c), BlocksKept(c), UNCHANGED <<settling, sent>>,
             refused \subseteq refused'
      PROVE  ProofsFollow'
  <2>1. \A pf \in Proofs : SealedHeader(c, pf.period)' = SealedHeader(c, pf.period)
    BY <1>7, ZenonT(30) DEF BlocksKept, SealedHeader
  <2>2. \A call \in settling \cup sent : CallOK(call) /\ call.chain = c => CallOK(call)'
    BY <1>7, ZenonT(30) DEF CallOK, SettingKept, BlocksKept
  <2> QED BY <1>1, <1>3, <1>7, <2>1, <2>2, ProofsSequencerOnly, ZenonT(30)
<1>8. CASE msg.type = "StartInstance" /\ TakesStartInstance(c, msg)
  BY <1>7, <1>8, ZenonT(30) DEF TakesStartInstance
<1>9. CASE RefusesRollback(c)
  BY <1>7, <1>9, ZenonT(30) DEF RefusesRollback, SettingKept, BlocksKept
<1>10. CASE TakesNothing(c)
  BY <1>7, <1>10, ZenonT(30) DEF TakesNothing
<1>11. CASE msg.type = "Rollback" /\ TakesRollback(c, msg)
  <2>1. /\ sequencer'[c].period_id = sequencer[c].period_id
        /\ sequencer'[c].pending_block = None
        /\ UNCHANGED <<settling, sent, refused>> /\ refused \subseteq refused'
    BY <1>5, <1>11, ZenonT(30) DEF TakesRollback
  <2>2. \A call \in settling \cup sent : CallOK(call) /\ call.chain = c => CallOK(call)'
    BY <2>1, ZenonT(30) DEF CallOK
  <2>3. InFlight(c, {"Rollback"}) # {}
    BY ZenonT(30), <1>4, <1>11 DEF InFlight
  <2>4. \A pf \in Proofs : ~(CallOK(pf) /\ pf.chain = c /\ c \notin refused' /\ Current(pf))
    <3> SUFFICES ASSUME NEW pf \in Proofs, CallOK(pf), pf.chain = c, c \notin refused',
                        Current(pf)
                 PROVE  FALSE
      BY Zenon
    <3>1. /\ pf.period \in Int /\ pf.superblock \in Int
          /\ pf.period < sequencer[c].period_id
          /\ pf.superblock - pf.period = target_superblock_number - period_id
          /\ pf.superblock > last_finalized_superblock_number
          /\ c \notin refused
      BY <2>1, ZenonT(30) DEF CallOK, Current
    <3> QED BY <3>1, <2>3, <1>1, CurrentMeansNoRollback, ZenonT(30)
  <2> QED BY <1>1, <1>3, <2>1, <2>2, <2>4, ProofsSequencerOnly, ZenonT(30)
<1> QED
  BY <1>2, <1>6, <1>8, <1>9, <1>10, <1>11, ZenonT(30)

\* end_block seals a block of a period later than that of any proof of the chain.
LEMMA ProofsBuild ==
  ASSUME IndInv, OrderInv, HistoryInv, NEW c \in Chain,
         BuildBlock(c)
           \/ \E n \in (InitFinalized + 1)..Pub!LatestNumber : SequencerSeesL1(c, n)
  PROVE  ProofsFollow'
<1>1. Shapes /\ OrderOK(c) /\ ProofsFollow /\ NumbersFollow(c)
  BY Basics, OrderOfChains, HistoryGroups, ZenonT(30) DEF ChainHistory
<1>2. /\ SettingKept(c)
      /\ \A d \in Chain \ {c} : sequencer'[d] = sequencer[d]
      /\ UNCHANGED <<pubVars, ghosts>>
      /\ \/ Begins(c)
         \/ Ends(c)
         \/ \E n \in (InitFinalized + 1)..Pub!LatestNumber : Advances(c, n)
  BY <1>1, BuildEffect, ZenonT(30)
<1>3. /\ UNCHANGED <<period_id, target_superblock_number, last_finalized_superblock_number,
                     overtaken, refused>>
      /\ refused \subseteq refused'
      /\ sequencer'[c].period_id = sequencer[c].period_id
  BY ZenonT(30), <1>2 DEF pubVars, ghosts, SettingKept
<1>4. sequencer[c].period_id \in Int /\ sequencer[c].target_superblock_number \in Int
  BY <1>1, ZenonT(30) DEF OrderOK, PeriodsFollow, Settings, PeriodAt, TargetAt
<1>5. CASE Begins(c)
  <2>1. /\ \A pf \in Proofs : SealedHeader(c, pf.period)' = SealedHeader(c, pf.period)
        /\ UNCHANGED <<settling, sent>>
    BY <1>5, ZenonT(30) DEF Begins, SealedHeader
  <2>2. sequencer'[c].pending_block.period_id = sequencer[c].period_id
    BY <1>5 DEF Begins, PendingBlock
  <2>3. \A call \in settling \cup sent : CallOK(call) /\ call.chain = c => CallOK(call)'
    BY <1>3, <2>2, ZenonT(30) DEF CallOK
  <2> QED BY <1>1, <1>2, <1>3, <2>1, <2>3, ProofsSequencerOnly, ZenonT(30)
<1>6. CASE Ends(c)
  <2>1. /\ sequencer'[c].pending_block = None /\ sequencer[c].pending_block # None
        /\ sent' = sent
    BY <1>6, ZenonT(30) DEF Ends
  <2>2. \A call \in settling \cup sent : CallOK(call) /\ call.chain = c => CallOK(call)'
    BY <1>3, <2>1, ZenonT(30) DEF CallOK
  <2>3. \A p \in Int : p < sequencer[c].pending_block.period_id =>
          SealedHeader(c, p)' = SealedHeader(c, p)
    <3> SUFFICES ASSUME NEW p \in Int, p < sequencer[c].pending_block.period_id
                 PROVE  SealedHeader(c, p)' = SealedHeader(c, p)
      BY Zenon
    <3>1. p # sequencer[c].pending_block.period_id
      BY SMTT(30), <1>1, <2>1 DEF NumbersFollow
    <3>2. /\ p \in DOMAIN sequencer'[c].sealed_block_head
               <=> p \in DOMAIN sequencer[c].sealed_block_head
          /\ p \in DOMAIN sequencer[c].sealed_block_head =>
               sequencer'[c].sealed_block_head[p] = sequencer[c].sealed_block_head[p]
      BY <3>1, <1>6, ZenonT(30) DEF Ends, Insert
    <3> QED BY <3>2, ZenonT(30) DEF SealedHeader
  <2>4. \A pf \in Proofs : CallOK(pf) /\ pf.chain = c =>
          SealedHeader(c, pf.period)' = SealedHeader(c, pf.period)
    BY <2>1, <2>3, ZenonT(30) DEF CallOK
  <2>5. CASE sequencer[c].pending_block.period_id < sequencer[c].period_id
    <3> PICK Added : Added = {Settlement(c, sequencer[c].period_id - 1,
                                         SettlementSuperblock(c))}
      BY ZenonT(30)
    <3>1. settling' \subseteq settling \cup Added
      BY ZenonT(30), <1>6 DEF Ends
    <3>2. /\ sequencer[c].period_id - 1 \in Int /\ SettlementSuperblock(c) \in Int
          /\ sequencer[c].period_id - 1 < sequencer'[c].period_id
      BY SMTT(30), <1>3, <1>4 DEF SettlementSuperblock
    <3>3. \A call \in Added : call.stage = "called" /\ CallOK(call)'
      BY <2>1, <3>2, NewCall, ZenonT(30)
    <3> QED BY <1>1, <1>2, <1>3, <2>1, <2>2, <2>4, <3>1, <3>3, ProofsSequencer, ZenonT(30)
  <2>6. CASE ~(sequencer[c].pending_block.period_id < sequencer[c].period_id)
    <3>1. settling' = settling
      BY ZenonT(30), <1>6, <2>6 DEF Ends
    <3> QED BY <1>1, <1>2, <1>3, <2>1, <2>2, <2>4, <3>1, ProofsSequencerOnly, ZenonT(30)
  <2> QED BY ZenonT(30), <2>5, <2>6
<1>7. ASSUME NEW n, Advances(c, n) PROVE ProofsFollow'
  <2>1. /\ \A pf \in Proofs : SealedHeader(c, pf.period)' = SealedHeader(c, pf.period)
        /\ sequencer'[c].pending_block = sequencer[c].pending_block
        /\ UNCHANGED <<settling, sent>>
    BY <1>7, Zenon DEF Advances, BlocksKept, SealedHeader
  <2>2. \A call \in settling \cup sent : CallOK(call) /\ call.chain = c => CallOK(call)'
    BY <1>3, <2>1, ZenonT(30) DEF CallOK
  <2> QED BY <1>1, <1>2, <1>3, <2>1, <2>2, ProofsSequencerOnly, ZenonT(30)
<1> QED
  BY <1>2, <1>5, <1>6, <1>7, ZenonT(30)

\* start_settlement reads the header of the period's sealed block.
LEMMA ProofsSettle ==
  ASSUME IndInv, HistoryInv, NEW call \in settling, Settle(call)
  PROVE  ProofsFollow' /\ sent \subseteq sent'
<1>1. Shapes /\ ProofsFollow
  BY Basics, HistoryGroups, ZenonT(30)
<1>2. UNCHANGED <<sequencer, period_id, target_superblock_number,
                  last_finalized_superblock_number, overtaken, refused>>
  BY ZenonT(30) DEF Settle, ReadHeader, SendProof, SettlementFails, pubVars, ghosts
<1>3. call = [chain |-> call.chain, period |-> call.period, superblock |-> call.superblock,
              header |-> call.header, stage |-> call.stage]
  BY <1>1, ZenonT(30) DEF Shapes
<1> PICK next : next = [call EXCEPT !.stage = "proving",
                                    !.header = SealedHeader(call.chain, call.period)]
  BY ZenonT(30)
<1> PICK proof : proof = [chain |-> call.chain, period |-> call.period,
                          superblock |-> call.superblock, header |-> call.header]
  BY Zenon
<1>4. /\ next.chain = call.chain /\ next.period = call.period
      /\ next.superblock = call.superblock
      /\ next.header = SealedHeader(call.chain, call.period)
  <2>1. next = [chain |-> call.chain, period |-> call.period, superblock |-> call.superblock,
                header |-> SealedHeader(call.chain, call.period), stage |-> "proving"]
    BY ZenonT(30), <1>3
  <2> QED BY ZenonT(30), <2>1
<1>5. /\ proof.chain = call.chain /\ proof.period = call.period
      /\ proof.superblock = call.superblock /\ proof.header = call.header
  BY ZenonT(30)
<1>6. \/ settling' \subseteq settling \cup {next} /\ sent' = sent
      \/ settling' \subseteq settling /\ sent' = sent \cup {proof} /\ call.stage = "proving"
  BY ZenonT(30) DEF Settle, ReadHeader, SendProof, SettlementFails, SealedHeader
<1>7. CallOK(call)
  BY <1>1, ProofsEach, ZenonT(30)
<1>8. ASSUME NEW new \in settling' \cup sent' PROVE CallOK(new)'
  <2>1. new \in settling \cup sent \/ new = next \/ new = proof
    BY <1>6, <1>8, ZenonT(30)
  <2>2. CallOK(new)
    <3>1. CASE new \in settling \cup sent
      BY <3>1, <1>1, ProofsEach, ZenonT(30)
    <3>2. CASE new = next
      BY <3>2, <1>4, <1>7, ZenonT(30) DEF CallOK
    <3>3. CASE new = proof
      BY <3>3, <1>5, <1>7, ZenonT(30) DEF CallOK
    <3> QED BY ZenonT(30), <2>1, <3>1, <3>2, <3>3
  <2> QED BY <2>2, <1>2, ZenonT(30) DEF CallOK
<1>9. ASSUME NEW pf \in Proofs' PROVE ProofOK(pf)'
  <2>1. pf \in Proofs \/ pf = next \/ (pf = proof /\ call \in Proofs)
    BY <1>6, <1>9, ZenonT(30) DEF Proofs
  <2>2. ProofOK(pf)
    <3>1. CASE pf \in Proofs
      BY ZenonT(60), <3>1, <1>1, ProofsAreCalls
    <3>2. CASE pf = next
      BY <3>2, <1>4, ZenonT(30) DEF ProofOK
    <3>3. CASE pf = proof /\ call \in Proofs
      <4>1. ProofOK(call)
        BY ZenonT(30), <3>3, <1>1, ProofsAreCalls
      <4>2. Current(pf) <=> Current(call)
        BY <3>3, <1>5, ZenonT(30) DEF Current
      <4> QED BY <3>3, <4>1, <4>2, <1>5, ZenonT(30) DEF ProofOK
    <3> QED BY ZenonT(30), <2>1, <3>1, <3>2, <3>3
  <2>3. /\ SealedHeader(pf.chain, pf.period)' = SealedHeader(pf.chain, pf.period)
        /\ Current(pf)' <=> Current(pf)
        /\ Orderly' <=> Orderly
    BY <1>2, ZenonT(30) DEF SealedHeader, Current, Orderly
  <2> QED BY <2>2, <2>3, <1>2, ZenonT(30) DEF ProofOK
<1> QED
  BY <1>6, <1>8, <1>9, ProofsEachNext, ZenonT(30)

--------------------------------------------------------------------------------
\* The proofs the publisher keeps

\* The proofs in a superblock under way
ContentsOK(sb) ==
  /\ sb \in DOMAIN contents /\ contents[sb] \subseteq sent
  /\ sb.epoch = epoch /\ sb.number > last_finalized_superblock_number =>
       /\ \A pf \in contents[sb] : pf.superblock = sb.number /\ Current(pf)
       /\ \A c \in Chain : \E pf \in contents[sb] : pf.chain = c

LEMMA KeptEach ==
  KeptFollow <=> /\ kept \subseteq sent
                 /\ \A pf \in kept :
                      pf.superblock > last_finalized_superblock_number => Current(pf)
                 /\ \A n \in DOMAIN proofs : \A c \in proofs[n] :
                      \E pf \in kept : pf.superblock = n /\ pf.chain = c
                 /\ \A sb \in Pub!SuperblocksUnderWay : ContentsOK(sb)
                 /\ Orderly => KeptProofsCurrent
BY Zenon DEF KeptFollow, ContentsOK

LEMMA KeptEachNext ==
  ASSUME kept' \subseteq sent',
         \A pf \in kept' : pf.superblock > last_finalized_superblock_number' => Current(pf)',
         \A n \in DOMAIN proofs' : \A c \in proofs'[n] :
           \E pf \in kept' : pf.superblock = n /\ pf.chain = c,
         \A sb \in Pub!SuperblocksUnderWay' : ContentsOK(sb)',
         Orderly' => KeptProofsCurrent'
  PROVE  KeptFollow'
BY Zenon DEF KeptFollow, ContentsOK

\* A step that leaves the kept proofs alone and current.
LEMMA KeptKept ==
  ASSUME IndInv, HistoryInv, UNCHANGED <<kept, proofs, contents, epoch>>, sent \subseteq sent',
         last_finalized_superblock_number' \in Int,
         last_finalized_superblock_number <= last_finalized_superblock_number',
         Pub!SuperblocksUnderWay' \subseteq Pub!SuperblocksUnderWay,
         refused \subseteq refused', overtaken => overtaken', Orderly' => Orderly,
         \A pf \in sent : CallOK(pf) /\ Current(pf)
                            /\ pf.superblock > last_finalized_superblock_number' => Current(pf)'
  PROVE  KeptFollow'
<1>1. L1Follows /\ ProofsFollow /\ KeptFollow
  BY HistoryGroups, ZenonT(30)
<1>2. last_finalized_superblock_number \in Int
  BY <1>1, HistoryNumbers, ZenonT(30)
<1>3. \A pf \in sent : CallOK(pf)
  BY <1>1, ProofsEach, ZenonT(30)
<1>4. kept \subseteq sent
  BY <1>1, KeptEach, ZenonT(30)
<1>5. ASSUME NEW pf \in kept', pf.superblock > last_finalized_superblock_number'
      PROVE  Current(pf)'
  <2>1. pf \in sent /\ CallOK(pf) /\ pf.superblock \in Int
    BY <1>3, <1>4, ZenonT(30) DEF CallOK
  <2>2. pf.superblock > last_finalized_superblock_number
    BY SMTT(30), <1>2, <1>5, <2>1
  <2> QED BY <1>1, <1>5, <2>1, <2>2, KeptEach, ZenonT(30)
<1>6. ASSUME NEW sb \in Pub!SuperblocksUnderWay' PROVE ContentsOK(sb)'
  <2>1. ContentsOK(sb) /\ sb.number \in Int
    BY <1>1, KeptEach, ZenonT(30) DEF L1Follows
  <2>2. ASSUME sb.epoch = epoch, sb.number > last_finalized_superblock_number'
        PROVE  /\ \A pf \in contents[sb] : pf.superblock = sb.number /\ Current(pf)'
               /\ \A c \in Chain : \E pf \in contents[sb] : pf.chain = c
    <3>1. sb.number > last_finalized_superblock_number
      BY SMTT(30), <1>2, <2>1, <2>2
    <3> QED BY <1>3, <2>1, <2>2, <3>1, ZenonT(30) DEF ContentsOK
  <2> QED BY <2>1, <2>2, ZenonT(30) DEF ContentsOK
<1>7. Orderly' => KeptProofsCurrent'
  BY <1>1, KeptEach, ZenonT(30) DEF KeptProofsCurrent
<1>8. \A n \in DOMAIN proofs' : \A c \in proofs'[n] :
        \E pf \in kept' : pf.superblock = n /\ pf.chain = c
  <2>1. \A n \in DOMAIN proofs : \A c \in proofs[n] :
          \E pf \in kept : pf.superblock = n /\ pf.chain = c
    BY <1>1, KeptEach, ZenonT(30)
  <2> QED BY <2>1
<1> QED
  BY <1>4, <1>5, <1>6, <1>7, <1>8, KeptEachNext, ZenonT(30)

\* rollback forgets all proofs, and what is under way is of an older epoch.
LEMMA KeptRollback ==
  ASSUME IndInv, HistoryInv, Pub!rollback, BroadcastRollback, proving' \subseteq proving
  PROVE  KeptFollow'
<1>1. /\ kept' = {} /\ proofs' = EmptyMap /\ epoch' = epoch + 1
      /\ UNCHANGED <<contents, sent, published>>
  BY ZenonT(30) DEF Pub!rollback, BroadcastRollback, seqVars, EmptyMap, Pub!EmptyMap
<1>2. L1Follows /\ KeptFollow /\ epoch \in Nat
  BY HistoryGroups, ZenonT(30) DEF L1Follows
<1>3. DOMAIN proofs' = {}
  BY ZenonT(30), <1>1 DEF EmptyMap
<1>4. ASSUME NEW sb \in Pub!SuperblocksUnderWay' PROVE ContentsOK(sb)'
  <2>1. sb \in Pub!SuperblocksUnderWay
    BY <1>1, ZenonT(30) DEF Pub!SuperblocksUnderWay
  <2>2. ContentsOK(sb) /\ sb.epoch <= epoch /\ sb.epoch \in Int
    BY <1>2, <2>1, KeptEach, ZenonT(30) DEF L1Follows
  <2>3. sb.epoch # epoch'
    BY SMTT(30), <1>1, <1>2, <2>2
  <2> QED BY <1>1, <2>2, <2>3, ZenonT(30) DEF ContentsOK
<1>5. KeptProofsCurrent'
  BY <1>1, ZenonT(30) DEF KeptProofsCurrent
<1> QED
  BY <1>1, <1>3, <1>4, <1>5, KeptEachNext, ZenonT(30)

\* The prover returned: the proofs of its superblock are dropped.
LEMMA KeptProved ==
  ASSUME IndInv, HistoryInv, NEW call \in proving, Pub!ProverSucceeds(call),
         kept' = {pf \in kept : pf.superblock # call.superblock.number},
         UNCHANGED <<seqVars, contents, refused, overtaken>>
  PROVE  KeptFollow' /\ Pub!SuperblocksUnderWay' \subseteq Pub!SuperblocksUnderWay
         /\ \A new \in proving' : new = [superblock |-> new.superblock,
                                         chains |-> new.chains, stage |-> new.stage]
<1> PICK next : next = [call EXCEPT !.stage = "proved"]
  BY Zenon
<1>1. /\ proofs' = Pub!RemoveKeys(proofs, {call.superblock.number})
      /\ proving' = (proving \ {call}) \cup {next}
      /\ UNCHANGED <<epoch, published, last_finalized_superblock_number, period_id,
                     target_superblock_number, sent>>
  BY ZenonT(30) DEF Pub!ProverSucceeds, Pub!building, Pub!finalized, Pub!messages, seqVars
<1>2. KeptFollow /\ L1Follows
  BY HistoryGroups, Zenon
<1>3. \A new \in proving : new = [superblock |-> new.superblock, chains |-> new.chains,
                                  stage |-> new.stage]
  BY <1>2, Zenon DEF L1Follows
<1>4. /\ next.superblock = call.superblock
      /\ next = [superblock |-> next.superblock, chains |-> next.chains,
                 stage |-> next.stage]
  <2>1. next = [superblock |-> call.superblock, chains |-> call.chains, stage |-> "proved"]
    BY <1>3
  <2> QED BY ZenonT(30), <2>1
<1>5. /\ Pub!SuperblocksUnderWay' \subseteq Pub!SuperblocksUnderWay
      /\ \A new \in proving' : new = [superblock |-> new.superblock, chains |-> new.chains,
                                      stage |-> new.stage]
  <2>1. \A new \in proving' : new = next \/ new \in proving
    BY <1>1, ZenonT(30)
  <2>2. \A new \in proving' :
          \E old \in proving : old.superblock = new.superblock
    BY <2>1, <1>4, ZenonT(30)
  <2>3. Pub!SuperblocksUnderWay' \subseteq Pub!SuperblocksUnderWay
    BY <2>2, <1>1, ZenonT(30) DEF Pub!SuperblocksUnderWay
  <2> QED BY <2>1, <2>3, <1>3, <1>4, ZenonT(30)
<1>6. \A pf : Current(pf)' <=> Current(pf)
  BY <1>1, ZenonT(30) DEF Current
<1>7. \A sb \in Pub!SuperblocksUnderWay' : ContentsOK(sb)'
  <2>1. \A sb \in Pub!SuperblocksUnderWay' : ContentsOK(sb)
    BY <1>2, <1>5, KeptEach, ZenonT(30)
  <2> QED BY <1>1, <1>6, <2>1, ZenonT(30) DEF ContentsOK
<1>8. ASSUME NEW n \in DOMAIN proofs', NEW c \in proofs'[n]
      PROVE  \E pf \in kept' : pf.superblock = n /\ pf.chain = c
  <2>1. n \in DOMAIN proofs /\ n # call.superblock.number /\ proofs'[n] = proofs[n]
    BY <1>1, <1>8, ZenonT(30) DEF Pub!RemoveKeys, Pub!Restrict
  <2>2. PICK pf \in kept : pf.superblock = n /\ pf.chain = c
    BY <1>2, <1>8, <2>1, KeptEach, ZenonT(30)
  <2> QED BY ZenonT(30), <2>1, <2>2
<1>9. /\ kept' \subseteq sent'
      /\ \A pf \in kept' : pf.superblock > last_finalized_superblock_number' => Current(pf)'
      /\ Orderly' => KeptProofsCurrent'
  BY <1>1, <1>2, <1>6, KeptEach, ZenonT(30) DEF KeptProofsCurrent, Orderly
<1> QED
  BY <1>5, <1>7, <1>8, <1>9, KeptEachNext, ZenonT(30)

\* The superblocks on L1 up to the latest are under way.
LEMMA OnL1 ==
  ASSUME IndInv, L1Follows, NEW m \in Int, m <= Pub!LatestNumber,
         NEW k \in 1..(m - InitFinalized)
  PROVE  k \in DOMAIN l1 /\ l1[k] \in Pub!SuperblocksUnderWay
<1>1. l1 \in Seq(published) /\ Len(l1) \in Nat /\ InitFinalized \in Nat
      /\ Pub!LatestNumber = InitFinalized + Len(l1)
  BY HistoryNumbers, ZenonT(30) DEF L1Follows
<1>2. k \in DOMAIN l1 /\ l1[k] \in published
  BY SMTT(20), <1>1
<1> QED
  BY <1>2, ZenonT(30) DEF Pub!SuperblocksUnderWay

\* A proof that may be kept is of the one block its chain sealed for the superblock.
LEMMA CurrentHeader ==
  ASSUME IndInv, HistoryInv, Orderly, NEW c \in Chain, c \notin refused,
         NEW q \in sent, q.chain = c, Current(q)
  PROVE  /\ q.period = q.superblock - (target_superblock_number - period_id)
         /\ q.header = SealedHeader(c, q.period)
<1>1. CallOK(q) /\ ProofOK(q) /\ L1Follows
  BY HistoryGroups, ProofsAreCalls, ZenonT(30) DEF Proofs
<1>2. q.header = SealedHeader(c, q.period)
  BY <1>1, ZenonT(30) DEF ProofOK
<1>3. period_id \in Int /\ target_superblock_number \in Int
  BY <1>1, HistoryNumbers, ZenonT(30)
<1>4. q.period \in Int /\ q.superblock \in Int
      /\ q.superblock - q.period = target_superblock_number - period_id
  BY <1>1, ZenonT(30) DEF CallOK, Current
<1> QED
  BY SMTT(30), <1>2, <1>3, <1>4

\* Such a block was built for its superblock since the last rollback.
LEMMA CurrentHash ==
  ASSUME IndInv, OrderInv, HistoryInv, Orderly, NEW c \in Chain, c \notin refused,
         NEW q \in sent, q.chain = c, Current(q)
  PROVE  q.header = None \/ q.header.hash = [superblock |-> q.superblock, origin |-> epoch]
<1> PICK s : s = sequencer[c]
  BY ZenonT(30)
<1> PICK p : p = q.period
  BY ZenonT(30)
<1>1. CallOK(q) /\ L1Follows /\ ChainHistory(c)
  BY HistoryGroups, ProofsAreCalls, ZenonT(30) DEF Proofs
<1>2. /\ p \in Int /\ q.superblock \in Int /\ p < s.period_id
      /\ q.superblock - p = target_superblock_number - period_id
      /\ q.superblock > last_finalized_superblock_number
      /\ BlocksFollow(c) /\ RollbacksFollow(c)
  BY <1>1, ZenonT(30) DEF CallOK, Current, ChainHistory
<1>3. /\ origin[c] = epoch
      /\ \A k \in Settings(c) :
           /\ PeriodAt(c, k) \in Int /\ TargetAt(c, k) \in Int
           /\ TargetAt(c, k) - PeriodAt(c, k) = target_superblock_number - period_id
  BY ZenonT(30), <1>1, <1>2, CurrentMeansNoRollback
<1>4. 0 \in Settings(c) /\ PeriodAt(c, 0) = s.period_id
      /\ TargetAt(c, 0) = s.target_superblock_number
  BY ZenonT(30) DEF Settings, PeriodAt, TargetAt
<1>5. /\ period_id \in Int /\ target_superblock_number \in Int
      /\ last_finalized_superblock_number \in Int
  BY <1>1, HistoryNumbers, ZenonT(30)
<1> PICK lead : lead = s.target_superblock_number - s.period_id
  BY Zenon
<1>6. p + lead = q.superblock
  BY SMTT(30), <1>2, <1>3, <1>4, <1>5
<1>7. p \in DOMAIN s.sealed_block_head =>
        s.sealed_block_head[p].block_header.hash
          = [superblock |-> q.superblock, origin |-> epoch]
  <2>1. ~(q.superblock <= last_finalized_superblock_number)
    BY SMTT(30), <1>2, <1>5
  <2> QED BY <1>2, <1>3, <1>6, <2>1, ZenonT(30) DEF BlocksFollow
<1> QED
  BY <1>7, CurrentHeader, ZenonT(30) DEF SealedHeader


\* The publisher counts as FiniteSets does.
LEMMA SameCount == ASSUME NEW S PROVE Pub!Cardinality(S) = Cardinality(S)
BY Zenon DEF Pub!Cardinality, Cardinality


\* As many chains as there are is all chains
AllCounted ==
  \A S \in SUBSET Chain : ~(Cardinality(S) < Cardinality(Chain)) => S = Chain

\* receive_proof keeps a proof, and aggregates once every chain's is in.
LEMMA KeptReceive ==
  ASSUME IndInv, OrderInv, HistoryInv, AllCounted, NEW pf \in sent,
         PublisherReceivesProof(pf)
  PROVE  /\ KeptFollow'
         /\ L1Follows'
         /\ \A c \in Chain, m \in Int :
              Orderly /\ c \notin refused /\ m <= Pub!LatestNumber =>
                HeadersOnL1(c, m)' = HeadersOnL1(c, m)
<1> PICK n : n = pf.superblock
  BY ZenonT(30)
<1> PICK sb : sb = Pub!Superblock(n)
  BY Zenon
<1> PICK with : with = Pub!ChainsWith(n, pf.chain)
  BY Zenon
<1>1. /\ n = last_finalized_superblock_number + 1
      /\ n < target_superblock_number
      /\ pf.period = period_id - (target_superblock_number - n)
      /\ proofs' = Pub!Insert(proofs, n, with)
      /\ kept' = kept \cup {pf}
      /\ UNCHANGED <<sequencer, settling, sent, refused, overtaken, epoch, l1, published,
                     period_id, target_superblock_number, last_finalized_superblock_number>>
  BY ZenonT(30) DEF PublisherReceivesProof, Pub!ReceiveProof, Pub!Keeps, Pub!ExpectedPeriod,
               seqVars, Pub!building, Pub!finalized, Pub!messages
<1>19. /\ Cardinality(with) < Cardinality(Chain) => proving' = proving
       /\ ~(Cardinality(with) < Cardinality(Chain)) =>
            proving' = proving \cup {[superblock |-> sb, chains |-> with,
                                      stage |-> "proving"]}
  BY ZenonT(30), SameCount DEF PublisherReceivesProof, Pub!ReceiveProof
<1>20. /\ proving' = proving => contents' = contents
       /\ proving' # proving =>
            contents' = Insert(contents, sb, {q \in kept' : q.superblock = n})
  BY Zenon DEF PublisherReceivesProof
<1>2. sb.number = n /\ sb.epoch = epoch
  BY Zenon DEF Pub!Superblock
<1>3. L1Follows /\ ProofsFollow /\ KeptFollow
  BY HistoryGroups, ZenonT(30)
<1>4. /\ period_id \in Int /\ target_superblock_number \in Int
      /\ last_finalized_superblock_number \in Int /\ epoch \in Nat
      /\ n \in Int /\ n > last_finalized_superblock_number
  BY SMTT(30), <1>1, <1>3, HistoryNumbers
<1>5. /\ \A q \in sent : CallOK(q)
      /\ Current(pf)
  BY SMTT(30), <1>1, <1>3, <1>4, ProofsEach DEF Current
<1>6. \A q : Current(q)' <=> Current(q)
  BY <1>1, ZenonT(30) DEF Current
<1>7. /\ kept' \subseteq sent'
      /\ \A q \in kept' : q.superblock > last_finalized_superblock_number => Current(q)
  BY <1>1, <1>3, <1>5, KeptEach, ZenonT(30)
<1>8. /\ DOMAIN proofs' = DOMAIN proofs \cup {n}
      /\ proofs'[n] = with
      /\ \A m \in DOMAIN proofs : m # n => proofs'[m] = proofs[m]
  BY <1>1, ZenonT(30) DEF Pub!Insert
<1>9. \A c \in with : c = pf.chain \/ (n \in DOMAIN proofs /\ c \in proofs[n])
  BY Zenon DEF Pub!ChainsWith
<1>10. \A m \in DOMAIN proofs' : \A c \in proofs'[m] :
         \E q \in kept' : q.superblock = m /\ q.chain = c
  <2>1. \A m \in DOMAIN proofs : \A c \in proofs[m] :
          \E q \in kept' : q.superblock = m /\ q.chain = c
    <3>1. \A m \in DOMAIN proofs : \A c \in proofs[m] :
            \E q \in kept : q.superblock = m /\ q.chain = c
      BY <1>3, KeptEach, ZenonT(30)
    <3>2. kept \subseteq kept'
      BY <1>1, ZenonT(30)
    <3> QED BY SMTT(30), <3>1, <3>2
  <2>2. \A c \in with : \E q \in kept' : q.superblock = n /\ q.chain = c
    <3>1. pf \in kept' /\ pf.superblock = n
      BY <1>1, ZenonT(30)
    <3> QED BY SMTT(30), <3>1, <1>9, <2>1
  <2> TAKE m \in DOMAIN proofs'
  <2>3. CASE m = n
    BY <1>8, <2>2, <2>3, ZenonT(30)
  <2>4. CASE m # n
    BY <1>8, <2>1, <2>4, ZenonT(30)
  <2> QED BY <2>3, <2>4, ZenonT(30)
<1>11. with \subseteq Chain
  <2>1. \A c \in with : \E q \in kept' : q.superblock = n /\ q.chain = c
    <3>1. n \in DOMAIN proofs' /\ proofs'[n] = with
      BY <1>8, ZenonT(30)
    <3> QED BY <1>10, <3>1, ZenonT(30)
  <2> QED BY <2>1, <1>1, <1>5, <1>7, ZenonT(30) DEF CallOK
<1>12. ASSUME proving' # proving
       PROVE  /\ contents' = Insert(contents, sb, {q \in kept' : q.superblock = n})
              /\ proving' = proving \cup {[superblock |-> sb, chains |-> with,
                                           stage |-> "proving"]}
              /\ \A c \in Chain : \E q \in kept' : q.superblock = n /\ q.chain = c
  <2>1. ~(Cardinality(with) < Cardinality(Chain))
    BY <1>19, <1>12, ZenonT(30)
  <2>2. with = Chain
    BY <1>11, <2>1, ZenonT(30) DEF AllCounted
  <2>3. \A c \in Chain : \E q \in kept' : q.superblock = n /\ q.chain = c
    <3>1. n \in DOMAIN proofs' /\ proofs'[n] = Chain
      BY <1>8, <2>2, ZenonT(30)
    <3> QED BY <1>10, <3>1, ZenonT(30)
  <2> QED BY <1>19, <1>20, <1>12, <2>1, <2>3, ZenonT(30)

<1>13. \A q \in kept' : q.superblock = n => Current(q)
  BY ZenonT(30), <1>4, <1>7
<1>14. ASSUME NEW b \in Pub!SuperblocksUnderWay'
       PROVE  /\ ContentsOK(b)'
              /\ b.number \in Int /\ b.epoch \in Int /\ b.epoch <= epoch'
              /\ b.epoch = epoch' => b.number < target_superblock_number'
  <2>1. b \in Pub!SuperblocksUnderWay \/ (b = sb /\ proving' # proving)
    <3>1. b \in published \/ \E call \in proving' : b = call.superblock
      BY <1>1, ZenonT(30) DEF Pub!SuperblocksUnderWay
    <3>2. CASE proving' = proving
      BY <3>1, <3>2, ZenonT(30) DEF Pub!SuperblocksUnderWay
    <3>3. CASE proving' # proving
      <4>1. \A call \in proving' : call \in proving \/ call.superblock = sb
        BY SMTT(30), <1>12, <3>3
      <4> QED BY <3>1, <3>3, <4>1, ZenonT(30) DEF Pub!SuperblocksUnderWay
    <3> QED BY <3>2, <3>3, ZenonT(30)
  <2>2. b \in Pub!SuperblocksUnderWay => ContentsOK(b)
    BY <1>3, KeptEach, ZenonT(30)
  <2>3. /\ b.number \in Int /\ b.epoch \in Int /\ b.epoch <= epoch
        /\ b.epoch = epoch => b.number < target_superblock_number
    <3>1. CASE b \in Pub!SuperblocksUnderWay
      BY <1>3, <3>1, ZenonT(30) DEF L1Follows
    <3>2. CASE b = sb
      <4>1. b.number = n /\ b.epoch = epoch
        BY <1>2, <3>2, ZenonT(30)
      <4> QED BY SMTT(30), <1>1, <1>4, <4>1
    <3> QED BY <2>1, <3>1, <3>2, ZenonT(30)
  <2>4. ContentsOK(b)'
    <3>1. CASE proving' # proving /\ b = sb
      <4>1. contents'[b] = {q \in kept' : q.superblock = n} /\ b \in DOMAIN contents'
        BY <1>12, <3>1, ZenonT(30) DEF Insert
      <4>2. contents'[b] \subseteq sent'
        BY <4>1, <1>7, ZenonT(30)
      <4>3. \A q \in contents'[b] : q.superblock = b.number /\ Current(q)'
        BY <4>1, <1>2, <1>6, <1>13, <3>1, ZenonT(30)
      <4>4. \A c \in Chain : \E q \in contents'[b] : q.chain = c
        BY <4>1, <1>12, <3>1, ZenonT(30)
      <4> QED BY <4>1, <4>2, <4>3, <4>4, ZenonT(30) DEF ContentsOK
    <3>2. CASE ~(proving' # proving /\ b = sb)
      <4>1. ContentsOK(b)
        BY <2>1, <2>2, <3>2, ZenonT(30)
      <4>2. b \in DOMAIN contents' /\ contents'[b] = contents[b]
        <5>1. CASE proving' = proving
          BY <1>20, <4>1, <5>1, ZenonT(30) DEF ContentsOK
        <5>2. CASE proving' # proving
          BY <1>12, <3>2, <4>1, <5>2, ZenonT(30) DEF ContentsOK, Insert
        <5> QED BY <5>1, <5>2, ZenonT(30)
      <4> QED BY <1>1, <1>6, <4>1, <4>2, ZenonT(30) DEF ContentsOK
    <3> QED BY <3>1, <3>2, ZenonT(30)
  <2> QED BY <1>1, <2>3, <2>4, ZenonT(30)
<1>15. Orderly' => KeptProofsCurrent'
  <2>1. ASSUME Orderly, pf.chain \notin refused
        PROVE  pf.header = None
               \/ pf.header.hash = [superblock |-> pf.superblock, origin |-> epoch]
    <3>1. pf.chain \in Chain
      BY <1>5, ZenonT(30) DEF CallOK
    <3> QED BY <1>5, <2>1, <3>1, CurrentHash, ZenonT(30)
  <2>2. Orderly => KeptProofsCurrent
    BY <1>3, KeptEach, ZenonT(30)
  <2> QED BY <1>1, <2>1, <2>2, ZenonT(30) DEF KeptProofsCurrent, Orderly
<1>16. KeptFollow'
  <2>1. \A q \in kept' : q.superblock > last_finalized_superblock_number' => Current(q)'
    BY <1>1, <1>6, <1>7, ZenonT(30)
  <2> QED BY <1>7, <1>10, <1>14, <1>15, <2>1, KeptEachNext, ZenonT(30)
<1>17. L1Follows'
  <2>1. \A call \in proving' : call = [superblock |-> call.superblock,
                                       chains |-> call.chains, stage |-> call.stage]
    <3>1. \A call \in proving : call = [superblock |-> call.superblock,
                                        chains |-> call.chains, stage |-> call.stage]
      BY <1>3, ZenonT(30) DEF L1Follows
    <3>2. CASE proving' = proving
      BY <3>1, <3>2, ZenonT(30)
    <3>3. CASE proving' # proving
      BY SMTT(30), <1>12, <3>1, <3>3
    <3> QED BY <3>2, <3>3, ZenonT(30)
  <2>2. Pub!LatestNumber' = Pub!LatestNumber /\ (Orderly' <=> Orderly)
    BY Zenon, <1>1 DEF Pub!LatestNumber, Orderly
  <2> QED BY <1>1, <1>3, <1>14, <2>1, <2>2, ZenonT(30) DEF L1Follows
<1>18. ASSUME NEW c \in Chain, NEW m \in Int, Orderly, c \notin refused,
              m <= Pub!LatestNumber
       PROVE  HeadersOnL1(c, m)' = HeadersOnL1(c, m)
  <2>1. ASSUME NEW k \in 1..(m - InitFinalized), NEW h
        PROVE  (\E q \in contents'[l1[k]] : q.chain = c /\ q.header # None /\ h = q.header)
          <=> (\E q \in contents[l1[k]] : q.chain = c /\ q.header # None /\ h = q.header)
    <3>1. l1[k] \in Pub!SuperblocksUnderWay /\ ContentsOK(l1[k])
      BY <1>3, <1>18, OnL1, KeptEach, ZenonT(30)
    <3>2. CASE proving' # proving /\ l1[k] = sb
      <4> PICK want : want = SealedHeader(c, n - (target_superblock_number - period_id))
        BY ZenonT(30)
      <4>1. \A q \in sent : q.chain = c /\ q.superblock = n /\ Current(q) => q.header = want
        BY <1>18, CurrentHeader, ZenonT(30)
      <4>2. contents'[l1[k]] = {q \in kept' : q.superblock = n}
        BY <1>12, <3>2, ZenonT(30) DEF Insert
      <4>3. /\ \A q \in contents'[l1[k]] : q.chain = c => q.header = want
            /\ \E q \in contents'[l1[k]] : q.chain = c
        BY <1>1, <1>7, <1>12, <1>13, <3>2, <4>1, <4>2, ZenonT(30)
      <4>4. /\ \A q \in contents[l1[k]] : q \in sent /\ q.superblock = n /\ Current(q)
            /\ \E q \in contents[l1[k]] : q.chain = c
        BY <1>2, <1>4, <3>1, <3>2, ZenonT(30) DEF ContentsOK
      <4> QED BY <4>1, <4>3, <4>4, ZenonT(30)
    <3>3. CASE ~(proving' # proving /\ l1[k] = sb)
      <4>1. contents'[l1[k]] = contents[l1[k]]
        <5>1. CASE proving' = proving
          BY <1>20, <5>1, ZenonT(30)
        <5>2. CASE proving' # proving
          BY <1>12, <3>1, <3>3, <5>2, ZenonT(30) DEF ContentsOK, Insert
        <5> QED BY <5>1, <5>2, ZenonT(30)
      <4> QED BY <4>1, ZenonT(30)
    <3> QED BY <3>2, <3>3, ZenonT(30)
  <2>2. ASSUME NEW h PROVE h \in HeadersOnL1(c, m)' <=> h \in HeadersOnL1(c, m)
    <3>1. \A k \in 1..(m - InitFinalized) :
            (\E q \in contents'[l1'[k]] : q.chain = c /\ q.header # None /\ h = q.header)
            <=> (\E q \in contents[l1[k]] : q.chain = c /\ q.header # None /\ h = q.header)
      BY SMTT(30), <1>1, <2>1
    <3>2. h \in HeadersOnL1(c, m) <=>
            \E k \in 1..(m - InitFinalized) : \E q \in contents[l1[k]] :
              q.chain = c /\ q.header # None /\ h = q.header
      BY SMTT(30), HeadersIn
    <3>3. h \in HeadersOnL1(c, m)' <=>
            \E k \in 1..(m - InitFinalized) : \E q \in contents'[l1'[k]] :
              q.chain = c /\ q.header # None /\ h = q.header
      BY SMTT(30), HeadersInNext
    <3> QED BY <3>1, <3>2, <3>3, ZenonT(30)
  <2> QED BY <2>2, ZenonT(30)
<1> QED
  BY <1>16, <1>17, <1>18, ZenonT(30)

--------------------------------------------------------------------------------
\* The steps of the publisher

\* The publisher starts a period, or an instance, or decides one.
LEMMA KeptBroadcast ==
  ASSUME IndInv, OrderInv, HistoryInv,
         \/ PublisherStartsPeriod
         \/ \E r \in XtRequest : PublisherStartsInstance(r)
         \/ \E i \in undecided : PublisherDecidesInstance(i)
  PROVE  L1Follows' /\ ProofsFollow' /\ KeptFollow'
<1>1. /\ L1Follows /\ ProofsFollow
      /\ \A call \in proving : call = [superblock |-> call.superblock,
                                       chains |-> call.chains, stage |-> call.stage]
  BY HistoryGroups, ZenonT(30) DEF L1Follows
<1>2. /\ UNCHANGED <<sequencer, settling, sent, origin, refused, contents, kept, overtaken>>
      /\ UNCHANGED <<l1, epoch, last_finalized_superblock_number, proofs, published, proving>>
      /\ \/ Pub!StartPeriod
         \/ UNCHANGED <<period_id, target_superblock_number>>
  BY Zenon
     DEF PublisherStartsPeriod, PublisherStartsInstance, PublisherDecidesInstance, seqVars,
         ghosts, Pub!StartPeriod, Pub!StartInstance, Pub!DecideInstance, Pub!building,
         Pub!finalized, Pub!messages
<1>3. /\ Orderly' <=> Orderly
      /\ Pub!SuperblocksUnderWay' = Pub!SuperblocksUnderWay
  BY <1>2, ZenonT(30) DEF Orderly, Pub!SuperblocksUnderWay
<1>4. /\ target_superblock_number \in Int /\ target_superblock_number' \in Int
      /\ target_superblock_number <= target_superblock_number'
      /\ last_finalized_superblock_number' \in Int
      /\ last_finalized_superblock_number <= last_finalized_superblock_number'
  BY SMTT(20), <1>1, <1>2, HistoryNumbers DEF Pub!StartPeriod
<1>5. L1Follows'
  <2>1. UNCHANGED <<epoch, l1, last_finalized_superblock_number>>
        /\ published \subseteq published' /\ proving' = proving
    BY <1>2, ZenonT(30)
  <2> QED BY <1>1, <1>3, <1>4, <2>1, L1Kept, ZenonT(30)
<1>6. /\ ProofsFollow'
      /\ \A pf \in Proofs : CallOK(pf) => (Current(pf)' <=> Current(pf))
  <2>1. CASE Pub!StartPeriod
    BY <1>2, <2>1, ProofsStartPeriod, ZenonT(30) DEF CallOK
  <2>2. CASE UNCHANGED <<period_id, target_superblock_number>>
    <3>1. \A pf : Current(pf)' <=> Current(pf)
      BY <1>2, <2>2, ZenonT(30) DEF Current
    <3>2. UNCHANGED <<sequencer, settling, sent, refused>>
      BY <1>2, Zenon
    <3> QED BY <1>1, <1>3, <3>1, <3>2, ProofsKept, ZenonT(30)
  <2> QED BY <1>2, <2>1, <2>2, ZenonT(30)
<1>7. KeptFollow'
  <2>1. /\ UNCHANGED <<kept, proofs, contents, epoch>> /\ sent \subseteq sent'
        /\ refused \subseteq refused' /\ (overtaken => overtaken')
    BY <1>2, Zenon
  <2>2. \A pf \in sent : CallOK(pf) /\ Current(pf) => Current(pf)'
    BY <1>6, Zenon DEF Proofs
  <2> QED BY <1>3, <1>4, <2>1, <2>2, KeptKept, ZenonT(30)
<1> QED
  BY <1>5, <1>6, <1>7, ZenonT(30)

\* The prover succeeds, or the superblock is published.
LEMMA KeptProves ==
  ASSUME IndInv, OrderInv, HistoryInv, NEW call \in proving, PublisherProves(call),
         ~(Pub!ProverFails(call) /\ BroadcastRollback)
  PROVE  L1Follows' /\ ProofsFollow' /\ KeptFollow'
<1>1. /\ L1Follows /\ ProofsFollow
      /\ \A other \in proving : other = [superblock |-> other.superblock,
                                         chains |-> other.chains, stage |-> other.stage]
  BY HistoryGroups, ZenonT(30) DEF L1Follows
<1>2. /\ UNCHANGED <<sequencer, settling, sent, inbox, origin, refused, overtaken, contents>>
      /\ UNCHANGED <<period_id, target_superblock_number, last_finalized_superblock_number,
                     epoch, l1>>
      /\ published \subseteq published'
  BY ZenonT(30)
     DEF PublisherProves, Pub!ProverSucceeds, Pub!Publish, seqVars, ghosts, Pub!building,
         Pub!finalized, Pub!messages
<1>3. (Orderly' <=> Orderly) /\ \A q : Current(q)' <=> Current(q)
  BY <1>2, ZenonT(30) DEF Orderly, Current
<1>4. /\ target_superblock_number' \in Int
      /\ target_superblock_number <= target_superblock_number'
      /\ last_finalized_superblock_number' \in Int
      /\ last_finalized_superblock_number <= last_finalized_superblock_number'
  BY SMTT(20), <1>1, <1>2, HistoryNumbers
<1>5. ProofsFollow'
  <2>1. UNCHANGED <<sequencer, settling, sent, refused>>
    BY <1>2, Zenon
  <2> QED BY <1>1, <1>3, <2>1, ProofsKept, ZenonT(30)
<1>6. /\ KeptFollow'
      /\ Pub!SuperblocksUnderWay' \subseteq Pub!SuperblocksUnderWay
      /\ \A new \in proving' : new = [superblock |-> new.superblock,
                                      chains |-> new.chains, stage |-> new.stage]
  <2>1. CASE /\ Pub!ProverSucceeds(call)
             /\ kept' = {pf \in kept : pf.superblock # call.superblock.number}
             /\ UNCHANGED <<seqVars, contents, refused, overtaken>>
    BY <2>1, KeptProved, ZenonT(30)
  <2>2. CASE Pub!Publish(call) /\ UNCHANGED <<seqVars, inbox, ghosts>>
    <3>1. /\ published' = published \cup {call.superblock} /\ proving' \subseteq proving
          /\ UNCHANGED <<kept, proofs, contents, epoch>>
      BY ZenonT(30), <2>2 DEF Pub!Publish, ghosts
    <3>2. Pub!SuperblocksUnderWay' \subseteq Pub!SuperblocksUnderWay
      BY ZenonT(30), <3>1 DEF Pub!SuperblocksUnderWay
    <3>3. sent \subseteq sent' /\ refused \subseteq refused' /\ (overtaken => overtaken')
      BY <1>2, ZenonT(30)
    <3> QED BY <1>1, <1>3, <1>4, <3>1, <3>2, <3>3, KeptKept, ZenonT(30)
  <2>3. \/ /\ Pub!ProverSucceeds(call)
           /\ kept' = {pf \in kept : pf.superblock # call.superblock.number}
           /\ UNCHANGED <<seqVars, contents, refused, overtaken>>
        \/ Pub!Publish(call) /\ UNCHANGED <<seqVars, inbox, ghosts>>
    BY Zenon DEF PublisherProves
  <2> QED BY <2>1, <2>2, <2>3, ZenonT(30)
<1>7. L1Follows'
  <2>1. UNCHANGED <<epoch, l1, last_finalized_superblock_number>>
    BY <1>2, Zenon
  <2> QED BY <1>1, <1>2, <1>3, <1>4, <1>6, <2>1, L1Kept, ZenonT(30)
<1> QED
  BY <1>5, <1>6, <1>7, ZenonT(30)

\* A step that leaves the publisher and L1 alone.
LEMMA HistorySequencers ==
  ASSUME IndInv, OrderInv, HistoryInv, UNCHANGED <<pubVars, kept, contents, overtaken>>,
         sent \subseteq sent', refused \subseteq refused', ProofsFollow',
         \A c \in Chain : ChainHistory(c)'
  PROVE  HistoryInv'
<1>1. /\ L1Follows
      /\ \A call \in proving : call = [superblock |-> call.superblock,
                                       chains |-> call.chains, stage |-> call.stage]
  BY HistoryGroups, ZenonT(30) DEF L1Follows
<1>2. UNCHANGED <<period_id, target_superblock_number, last_finalized_superblock_number,
                  epoch, l1, proofs, published, proving>>
  BY ZenonT(30) DEF pubVars
<1>3. /\ Orderly' <=> Orderly
      /\ overtaken => overtaken'
      /\ Pub!SuperblocksUnderWay' = Pub!SuperblocksUnderWay
      /\ \A q : Current(q)' <=> Current(q)
  BY <1>2, ZenonT(30) DEF Orderly, Pub!SuperblocksUnderWay, Current
<1>4. /\ target_superblock_number' \in Int
      /\ target_superblock_number <= target_superblock_number'
      /\ last_finalized_superblock_number' \in Int
      /\ last_finalized_superblock_number <= last_finalized_superblock_number'
  BY SMTT(20), <1>1, <1>2, HistoryNumbers
<1>5. L1Follows'
  <2>1. /\ UNCHANGED <<epoch, l1, last_finalized_superblock_number>>
        /\ published \subseteq published' /\ proving' = proving
    BY <1>2, Zenon
  <2> QED BY <1>1, <1>3, <1>4, <2>1, L1Kept, ZenonT(30)
<1>6. KeptFollow'
  <2>1. UNCHANGED <<kept, proofs, contents, epoch>>
    BY <1>2, ZenonT(30)
  <2> QED BY <1>3, <1>4, <2>1, KeptKept, ZenonT(30)
<1> QED
  BY <1>5, <1>6, HistoryGroupsNext, ZenonT(30)

--------------------------------------------------------------------------------
\* The initial state, and what the history gives

LEMMA InitHistory == Init => HistoryInv
<1> SUFFICES ASSUME Init PROVE HistoryInv
  BY ZenonT(30)
<1>1. /\ l1 = <<>> /\ published = {} /\ proving = {} /\ epoch = 0 /\ DOMAIN proofs = {}
      /\ target_superblock_number = InitTarget
      /\ last_finalized_superblock_number = InitFinalized
      /\ kept = {} /\ refused = {} /\ settling = {} /\ sent = {}
  BY ZenonT(30) DEF Init, SequencerInit, Pub!Init, Pub!EmptyMap
<1>2. /\ InitFinalized \in Nat /\ InitBlock \in Nat /\ InitTarget \in Nat
      /\ InitPeriod \in Nat
  BY ZenonT(30), PositiveStart, SettledStart
<1>3. Pub!LatestNumber = InitFinalized
  BY SMTT(20), <1>1, <1>2 DEF Pub!LatestNumber
<1>4. L1Follows
  <2>1. Pub!SuperblocksUnderWay = {}
    BY ZenonT(30), <1>1 DEF Pub!SuperblocksUnderWay
  <2>2. l1 \in Seq(published) /\ DOMAIN l1 = {} /\ epoch \in Nat
    BY <1>1
  <2>3. Orderly => Pub!LatestNumber < target_superblock_number
    BY ZenonT(30), <1>1, <1>2, <1>3 DEF Orderly
  <2>4. last_finalized_superblock_number \in InitFinalized..Pub!LatestNumber
    BY SMTT(20), <1>1, <1>2, <1>3
  <2> QED BY ZenonT(30), <1>1, <2>1, <2>2, <2>3, <2>4 DEF L1Follows
<1>5. ProofsFollow
  BY ZenonT(30), <1>1 DEF ProofsFollow, Proofs
<1>6. KeptFollow
  BY ZenonT(30), <1>1 DEF KeptFollow, KeptProofsCurrent, Pub!SuperblocksUnderWay
<1>7. ASSUME NEW c \in Chain PROVE ChainHistory(c)
  <2> PICK s : s = sequencer[c]
    BY ZenonT(30)
  <2>1. /\ inbox[c] = <<>> /\ origin[c] = 0
        /\ s.period_id = InitPeriod /\ s.target_superblock_number = InitTarget
        /\ s.pending_block = None /\ s.head = InitBlock
        /\ DOMAIN s.sealed_block_head = {}
        /\ s.settled_state.superblock_number = InitFinalized
        /\ s.settled_state.block_header.number = InitBlock
    BY ZenonT(30) DEF Init, SequencerInit, SettledAtStart, EmptyMap
  <2>2. DOMAIN inbox[c] = {} /\ \A types : InFlight(c, types) = {}
    BY SMTT(20), <2>1 DEF InFlight
  <2>3. RollbacksFollow(c)
    BY SMTT(20), <1>1, <2>1, <2>2 DEF RollbacksFollow
  <2>4. NumbersFollow(c) /\ SuperblocksFollow(c)
    BY <2>1, ZenonT(30) DEF NumbersFollow, SuperblocksFollow
  <2>5. ASSUME Orderly PROVE BlocksFollow(c)
    <3>1. Settings(c) = {0} /\ TargetAt(c, 0) = InitTarget
      BY ZenonT(30), <2>1, <2>2 DEF Settings, TargetAt
    <3>2. Pub!LatestNumber < InitTarget
      BY ZenonT(30), <1>2, <1>3, <2>5 DEF Orderly
    <3> QED BY ZenonT(30), <2>1, <2>2, <3>1, <3>2 DEF BlocksFollow
  <2>6. HeadersFollow(c)
    <3>1. \A n \in InitFinalized..Pub!LatestNumber : HeadersOnL1(c, n) = {}
      <4>1. ASSUME NEW n \in InitFinalized..Pub!LatestNumber PROVE HeadersOnL1(c, n) = {}
        <5>1. 1..(n - InitFinalized) = {}
          BY <1>2, <1>3
        <5>2. \A h : h \notin HeadersOnL1(c, n)
          BY <5>1, HeadersIn, ZenonT(30)
        <5> QED BY ZenonT(30), <5>2
      <4> QED BY ZenonT(30), <4>1
    <3>2. /\ InitFinalized \in InitFinalized..Pub!LatestNumber
          /\ Pub!LatestNumber \in InitFinalized..Pub!LatestNumber
          /\ InitBlock \in InitBlock..InitBlock /\ InitBlock \in Int
      BY SMTT(20), <1>2, <1>3
    <3> QED BY <2>1, <3>1, <3>2, ZenonT(30)
       DEF HeadersFollow, SettledHeaders, L1Headers, SealedHeaders
  <2> QED BY <2>3, <2>4, <2>5, <2>6, ZenonT(30) DEF ChainHistory
<1> QED
  BY <1>4, <1>5, <1>6, <1>7, HistoryGroups, ZenonT(30)

LEMMA KeptFromHistory ==
  ASSUME HistoryInv, InitTarget > InitFinalized
  PROVE  KeptProofsCurrent
<1>1. CASE overtaken
  BY <1>1, Zenon DEF KeptProofsCurrent
<1>2. CASE ~overtaken
  <2>1. KeptFollow /\ Orderly
    BY <1>2, HistoryGroups, ZenonT(30) DEF Orderly
  <2> QED BY <2>1, ZenonT(30) DEF KeptFollow
<1> QED
  BY <1>1, <1>2, ZenonT(30)

LEMMA ConsistentFromHistory ==
  ASSUME HistoryInv, InitTarget > InitFinalized
  PROVE  HistoryConsistent
<1>1. ASSUME NEW c \in Chain, ~overtaken, c \notin refused,
             NEW s, s = sequencer[c], NEW sealed, sealed = s.sealed_block_head
      PROVE  /\ \A p \in DOMAIN sealed :
                  /\ sealed[p].period_id = p
                  /\ sealed[p].block_header.number <= s.head
                  /\ \A q \in DOMAIN sealed : p < q =>
                       /\ sealed[p].block_header.number < sealed[q].block_header.number
                       /\ sealed[p].superblock_number < sealed[q].superblock_number
             /\ s.settled_state.block_header.number <= s.head
  <2>1. Orderly
    BY <1>1, Zenon DEF Orderly
  <2>2. NumbersFollow(c) /\ SuperblocksFollow(c) /\ HeadersFollow(c)
    BY <1>1, <2>1, HistoryGroups, ZenonT(30) DEF ChainHistory
  <2>3. /\ s.head \in Int /\ InitBlock \in Int
        /\ s.settled_state.block_header.number \in InitBlock..s.head
        /\ \A p \in DOMAIN sealed :
             /\ sealed[p].block_header.number \in InitBlock..s.head
             /\ \A q \in DOMAIN sealed : p < q =>
                  sealed[p].block_header.number < sealed[q].block_header.number
    <3>1. InitBlock \in Int
      BY SettledStart
    <3> QED BY <1>1, <2>2, <3>1, ZenonT(30)
       DEF HeadersFollow, SettledHeaders, L1Headers, SealedHeaders
  <2>4. \A p \in DOMAIN sealed :
          /\ sealed[p].period_id = p
          /\ \A q \in DOMAIN sealed : p < q =>
               sealed[p].superblock_number < sealed[q].superblock_number
    BY <1>1, <2>2, ZenonT(30) DEF NumbersFollow, SuperblocksFollow
  <2>5. \A n \in InitBlock..s.head : n <= s.head
    BY <2>3
  <2> QED BY <2>3, <2>4, <2>5, ZenonT(30)
<1> QED
  BY <1>1, Zenon DEF HistoryConsistent

================================================================================

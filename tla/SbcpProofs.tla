------------------------------ MODULE SbcpProofs -------------------------------
(***************************************************************************)
(* The blocks the sequencers keep and the proofs the publisher keeps, for  *)
(* all chains, requests, initial numbers and bounds: KeptProofsCurrent and *)
(* HistoryConsistent, from Inductive.                                      *)
(***************************************************************************)
EXTENDS SbcpChainProofs, SbcpKeptProofs, FiniteSetTheorems

\* L1 accepts a superblock whose proof of the chain may be kept: the chain is past it.
LEMMA PastAccepted ==
  ASSUME IndInv, OrderInv, HistoryInv, Orderly, NEW c \in Chain, c \notin refused,
         NEW q \in sent, q.chain = c, Current(q), NEW n, n = q.superblock,
         NEW lead, lead = sequencer[c].target_superblock_number - sequencer[c].period_id
  PROVE  /\ InFlight(c, {"Rollback"}) = {}
         /\ \A k \in Settings(c) : n < TargetAt(c, k)
         /\ sequencer[c].pending_block # None =>
              sequencer[c].pending_block.superblock_number > n
         /\ \A p \in Int : n = p + lead => q.header = SealedHeader(c, p)
<1> PICK s : s = sequencer[c]
  BY ZenonT(30)
<1> PICK at : at = q.period
  BY ZenonT(30)
<1>1. CallOK(q) /\ L1Follows /\ ChainHistory(c)
  BY HistoryGroups, ProofsAreCalls, ZenonT(30) DEF Proofs
<1>2. /\ at \in Int /\ n \in Int /\ at < s.period_id
      /\ n - at = target_superblock_number - period_id
      /\ n > last_finalized_superblock_number
      /\ BuiltFor(c) /\ NumbersFollow(c) /\ RollbacksFollow(c)
      /\ s.pending_block # None => at < s.pending_block.period_id
  BY <1>1, ChainParts, ZenonT(30) DEF CallOK, Current
<1>3. /\ InFlight(c, {"Rollback"}) = {}
      /\ \A k \in Settings(c) :
           /\ PeriodAt(c, k) \in Int /\ TargetAt(c, k) \in Int
           /\ PeriodAt(c, 0) <= PeriodAt(c, k)
           /\ TargetAt(c, k) - PeriodAt(c, k) = target_superblock_number - period_id
  BY <1>1, <1>2, CurrentMeansNoRollback, ZenonT(30)
<1>4. 0 \in Settings(c) /\ PeriodAt(c, 0) = s.period_id
      /\ TargetAt(c, 0) = s.target_superblock_number
      /\ s.period_id \in Int /\ s.target_superblock_number \in Int
  BY ChainNumbers, ZenonT(30)
<1>5. period_id \in Int /\ target_superblock_number \in Int
  BY <1>1, HistoryNumbers, ZenonT(30)
<1>6. lead = target_superblock_number - period_id /\ lead \in Int /\ n - at = lead
  BY SMTT(20), <1>2, <1>3, <1>4, <1>5
<1>7. \A k \in Settings(c) : n < TargetAt(c, k)
  BY SMTT(20), <1>2, <1>3, <1>4, <1>5
<1>8. s.pending_block # None => s.pending_block.superblock_number > n
  <2>1. s.pending_block # None =>
          /\ s.pending_block.period_id \in Int
          /\ s.pending_block.superblock_number \in Int
          /\ s.pending_block.superblock_number - s.pending_block.period_id = lead
    BY <1>2, ZenonT(30) DEF NumbersFollow, BuiltFor
  <2> QED BY SMTT(20), <1>2, <1>6, <2>1
<1>9. q.header = SealedHeader(c, at)
  BY CurrentHeader, ZenonT(30)
<1>10. \A p \in Int : n = p + lead => p = at
  BY SMTT(20), <1>2, <1>6
<1> QED
  BY <1>3, <1>7, <1>8, <1>9, <1>10, ZenonT(30)

\* L1 accepts a superblock.
LEMMA ChainL1 ==
  ASSUME IndInv, OrderInv, HistoryInv, NEW sb \in published, L1AcceptsSuperblock(sb),
         NEW c \in Chain
  PROVE  ChainHistory(c)'
<1> PICK latest : latest = Pub!LatestNumber
  BY ZenonT(30)
<1> PICK s : s = sequencer[c]
  BY ZenonT(30)
<1> PICK len : len = Len(l1)
  BY ZenonT(30)
<1>1. /\ overtaken' = (overtaken \/ sb.epoch # epoch)
      /\ UNCHANGED <<sequencer, sent, inbox, kept, contents, origin, refused, epoch,
                     last_finalized_superblock_number>>
  BY ZenonT(30) DEF L1AcceptsSuperblock, Pub!L1Accepts, seqVars, Pub!finalized
<1>2. L1Follows /\ KeptFollow /\ ChainHistory(c)
  BY HistoryGroups, Zenon
<1>3. /\ Pub!LatestNumber' = latest + 1 /\ sb.number = latest + 1
      /\ Appends(sb, len)
  BY <1>1, <1>2, L1Accepted, Zenon DEF Appends
<1>4. /\ last_finalized_superblock_number \in Int /\ latest \in Int
      /\ last_finalized_superblock_number <= last_finalized_superblock_number
      /\ latest + 1 > last_finalized_superblock_number
      /\ last_finalized_superblock_number < latest + 1
  BY SMTT(20), <1>2, HistoryNumbers
<1>5. /\ RollbacksFollow(c)
      /\ NumbersFollow(c)
      /\ c \notin refused => SuperblocksFollow(c)
      /\ Orderly /\ c \notin refused => Ahead(c) /\ BuiltFor(c) /\ HeadersFollow(c)
  BY <1>2, ChainParts, ZenonT(30)
<1>6. RollbacksFollow(c)'
  BY <1>1, <1>4, <1>5, RollbacksKept, ZenonT(30)
<1>7. NumbersFollow(c)' /\ (c \notin refused' => SuperblocksFollow(c)')
  BY <1>1, <1>5, ZenonT(30) DEF NumbersFollow, SuperblocksFollow
<1>8. ASSUME Orderly', c \notin refused'
      PROVE  Ahead(c)' /\ BuiltFor(c)' /\ HeadersFollow(c)'
  <2>1. Orderly /\ c \notin refused /\ sb.epoch = epoch
    BY <1>1, <1>8, ZenonT(30) DEF Orderly
  <2>2. /\ contents[sb] \subseteq sent
        /\ \A pf \in contents[sb] : pf.superblock = latest + 1 /\ Current(pf)
        /\ \E pf \in contents[sb] : pf.chain = c
    <3>1. ContentsOK(sb)
      BY <1>2, KeptEach, ZenonT(30) DEF Pub!SuperblocksUnderWay
    <3> QED BY <1>3, <1>4, <2>1, <3>1, ZenonT(30) DEF ContentsOK
  <2>3. PICK q \in contents[sb] : q.chain = c
    BY <2>2, ZenonT(30)
  <2> PICK lead : lead = s.target_superblock_number - s.period_id
    BY ZenonT(30)
  <2>4. /\ InFlight(c, {"Rollback"}) = {}
        /\ \A k \in Settings(c) : latest + 1 < TargetAt(c, k)
        /\ s.pending_block # None => s.pending_block.superblock_number > latest + 1
        /\ \A p \in Int : latest + 1 = p + lead => q.header = SealedHeader(c, p)
    <3>1. q \in sent /\ Current(q) /\ q.superblock = latest + 1
      BY <2>2, ZenonT(30)
    <3> QED BY SMTT(20), <2>1, <2>3, <3>1, PastAccepted
  <2>5. Ahead(c)'
    <3>1. \A types : InFlight(c, types)' = InFlight(c, types)
      BY <1>1, ZenonT(30) DEF InFlight
    <3>2. Settings(c)' = Settings(c) /\ \A k : TargetAt(c, k)' = TargetAt(c, k)
      BY <1>1, <3>1, ZenonT(30) DEF Settings, TargetAt
    <3> QED BY <1>3, <2>4, <3>1, <3>2, ZenonT(30) DEF Ahead
  <2>6. BuiltFor(c)'
    BY <1>1, <1>3, <1>5, <2>1, <2>4, ZenonT(30) DEF BuiltFor
  <2>7. HeadersFollow(c)'
    <3>1. AddsHeaders(c, latest, contents[sb])
      BY <1>2, <1>3, HeadersAccepted, ZenonT(30)
    <3>2. \A pf \in contents[sb] : pf.chain = c => pf.header = q.header
      <4>1. ASSUME NEW pf \in contents[sb], pf.chain = c PROVE pf.header = q.header
        <5>1. /\ q \in sent /\ Current(q) /\ q.superblock = latest + 1
              /\ pf \in sent /\ Current(pf) /\ pf.superblock = latest + 1
          BY <2>2, <4>1, ZenonT(30)
        <5>2. /\ pf.header = SealedHeader(c, pf.period)
              /\ pf.period = (latest + 1) - (target_superblock_number - period_id)
          BY <2>1, <4>1, <5>1, CurrentHeader, ZenonT(30)
        <5>3. /\ q.header = SealedHeader(c, q.period)
              /\ q.period = (latest + 1) - (target_superblock_number - period_id)
          BY <2>1, <2>3, <5>1, CurrentHeader, ZenonT(30)
        <5> QED BY <5>2, <5>3, ZenonT(30)
      <4> QED BY <4>1, ZenonT(30)
    <3>3. \A h : h \in HeadersOnL1(c, latest + 1)' <=>
            h \in HeadersOnL1(c, latest) \/ (q.header # None /\ h = q.header)
      BY <2>3, <3>1, <3>2, ZenonT(30) DEF AddsHeaders
    <3>4. q.header # None => \E p \in DOMAIN s.sealed_block_head :
                               q.header = s.sealed_block_head[p].block_header
      <4>1. q.header = SealedHeader(c, q.period)
        BY <2>1, <2>2, <2>3, CurrentHeader, ZenonT(30)
      <4> QED BY <4>1, ZenonT(30) DEF SealedHeader
    <3>5. ASSUME NEW p \in DOMAIN s.sealed_block_head,
                 s.sealed_block_head[p].superblock_number = latest + 1
          PROVE  q.header = s.sealed_block_head[p].block_header
      <4>1. p \in Int
        BY <1>5, ZenonT(30) DEF NumbersFollow
      <4>2. ~(latest + 1 <= last_finalized_superblock_number)
        BY SMTT(20), <1>4
      <4>3. latest + 1 = p + lead
        BY <1>5, <2>1, <3>5, <4>2, ZenonT(30) DEF BuiltFor
      <4>4. q.header = SealedHeader(c, p)
        BY <2>4, <4>1, <4>3, ZenonT(30)
      <4> QED BY <4>4, ZenonT(30) DEF SealedHeader
    <3>6. HeadersFollow(c) /\ NumbersFollow(c) /\ sequencer'[c] = sequencer[c]
      BY <1>1, <1>5, <2>1, ZenonT(30)
    <3>7. AddsHeader(c, latest, q.header)
      <4>1. \A m \in Int : m <= latest => HeadersOnL1(c, m)' = HeadersOnL1(c, m)
        BY <3>1, ZenonT(30) DEF AddsHeaders
      <4> QED BY <3>3, <3>4, <3>5, <4>1, ZenonT(30) DEF AddsHeader
    <3> QED BY <1>2, <1>3, <3>6, <3>7, HeadersL1, ZenonT(30)
  <2> QED BY <2>5, <2>6, <2>7, ZenonT(30)
<1> QED
  BY <1>6, <1>7, <1>8, ChainPartsNext, ZenonT(30)

--------------------------------------------------------------------------------
\* The steps

\* The publisher starts a period, or an instance, or decides one.
LEMMA HistoryBroadcast ==
  ASSUME IndInv, OrderInv, HistoryInv,
         \/ PublisherStartsPeriod
         \/ \E r \in XtRequest : PublisherStartsInstance(r)
         \/ \E i \in undecided : PublisherDecidesInstance(i)
  PROVE  HistoryInv'
BY KeptBroadcast, ChainsBroadcast, HistoryGroupsNext, ZenonT(30)

\* The publisher rolls back.
LEMMA HistoryRollback ==
  ASSUME IndInv, OrderInv, HistoryInv, Pub!rollback, BroadcastRollback,
         proving' \subseteq proving
  PROVE  HistoryInv'
<1>1. L1Follows
  BY HistoryGroups, ZenonT(30)
<1> QED
  BY <1>1, L1Rollback, ProofsRollback, KeptRollback, ChainsRollback, HistoryGroupsNext, ZenonT(30)

\* The publisher receives a proof.
LEMMA HistoryReceive ==
  ASSUME IndInv, OrderInv, HistoryInv, AllCounted, NEW pf \in sent,
         PublisherReceivesProof(pf)
  PROVE  HistoryInv'
<1>1. L1Follows /\ ProofsFollow /\ \A c \in Chain : ChainHistory(c)
  BY HistoryGroups, ZenonT(30)
<1>2. /\ UNCHANGED <<sequencer, settling, sent, inbox, origin, refused, overtaken>>
      /\ UNCHANGED <<period_id, target_superblock_number, last_finalized_superblock_number,
                     epoch, l1>>
  BY ZenonT(30)
     DEF PublisherReceivesProof, Pub!ReceiveProof, seqVars, Pub!building, Pub!finalized
<1>3. /\ L1Follows' /\ KeptFollow'
      /\ \A c \in Chain, m \in Int :
           Orderly /\ c \notin refused /\ m <= Pub!LatestNumber =>
             HeadersOnL1(c, m)' = HeadersOnL1(c, m)
  BY KeptReceive, ZenonT(30)
<1>4. (Orderly' <=> Orderly) /\ \A q : Current(q)' <=> Current(q)
  BY <1>2, ZenonT(30) DEF Orderly, Current
<1>5. ProofsFollow'
  <2>1. UNCHANGED <<sequencer, settling, sent, refused>>
    BY <1>2, ZenonT(30)
  <2> QED BY <1>1, <1>4, <2>1, ProofsKept, ZenonT(30)
<1>6. ASSUME NEW c \in Chain PROVE ChainHistory(c)'
  <2>1. /\ sequencer'[c] = sequencer[c] /\ inbox'[c] = inbox[c] /\ origin'[c] = origin[c]
        /\ UNCHANGED <<epoch, l1>> /\ (c \in refused => c \in refused')
    BY <1>2, ZenonT(30)
  <2>2. /\ last_finalized_superblock_number' \in Int
        /\ last_finalized_superblock_number <= last_finalized_superblock_number'
    BY SMTT(20), <1>1, <1>2, HistoryNumbers
  <2> QED BY <1>1, <1>3, <1>4, <2>1, <2>2, ChainKept, ZenonT(30)
<1> QED
  BY <1>3, <1>5, <1>6, HistoryGroupsNext, ZenonT(30)

\* The prover succeeds, or the superblock is published.
LEMMA HistoryProves ==
  ASSUME IndInv, OrderInv, HistoryInv, NEW call \in proving, PublisherProves(call),
         ~(Pub!ProverFails(call) /\ BroadcastRollback)
  PROVE  HistoryInv'
<1>1. L1Follows
  BY HistoryGroups, ZenonT(30)
<1>2. UNCHANGED <<sequencer, inbox, origin, epoch, l1, contents, refused, overtaken,
                  last_finalized_superblock_number>>
  BY ZenonT(30)
     DEF PublisherProves, Pub!ProverSucceeds, Pub!Publish, seqVars, ghosts, Pub!building,
         Pub!finalized, Pub!messages
<1>3. Orderly' <=> Orderly
  BY <1>2, ZenonT(30) DEF Orderly
<1>4. /\ last_finalized_superblock_number' \in Int
      /\ last_finalized_superblock_number <= last_finalized_superblock_number'
  BY SMTT(20), <1>1, <1>2, HistoryNumbers
<1>5. UNCHANGED <<sequencer, inbox, origin, epoch, l1, contents, refused>>
  BY <1>2, ZenonT(30)
<1> QED
  BY <1>3, <1>4, <1>5, KeptProves, ChainsKept, HistoryGroupsNext, ZenonT(30)

\* L1 accepts a superblock.
LEMMA HistoryL1 ==
  ASSUME IndInv, OrderInv, HistoryInv, NEW sb \in published, L1AcceptsSuperblock(sb)
  PROVE  HistoryInv'
<1>1. L1Follows /\ ProofsFollow
  BY HistoryGroups, ZenonT(30)
<1>2. /\ UNCHANGED <<sequencer, settling, sent, refused, kept, contents>>
      /\ UNCHANGED <<period_id, target_superblock_number, last_finalized_superblock_number,
                     epoch, proofs, published, proving>>
      /\ overtaken' = (overtaken \/ sb.epoch # epoch)
  BY ZenonT(30)
     DEF L1AcceptsSuperblock, Pub!L1Accepts, seqVars, Pub!building, Pub!finalized,
         Pub!messages
<1>3. /\ Orderly' => Orderly
      /\ \A q : Current(q)' <=> Current(q)
      /\ overtaken => overtaken'
      /\ Pub!SuperblocksUnderWay' = Pub!SuperblocksUnderWay
  BY <1>2, ZenonT(30) DEF Orderly, Current, Pub!SuperblocksUnderWay
<1>4. L1Follows'
  BY <1>1, L1Accepted, ZenonT(30)
<1>5. ProofsFollow'
  <2>1. UNCHANGED <<sequencer, settling, sent, refused>>
    BY <1>2, ZenonT(30)
  <2> QED BY <1>1, <1>3, <2>1, ProofsKept, ZenonT(30)
<1>6. KeptFollow'
  <2>1. UNCHANGED <<kept, proofs, contents, epoch>> /\ sent \subseteq sent'
        /\ refused \subseteq refused'
    BY <1>2, ZenonT(30)
  <2>2. /\ last_finalized_superblock_number' \in Int
        /\ last_finalized_superblock_number <= last_finalized_superblock_number'
    BY SMTT(20), <1>1, <1>2, HistoryNumbers
  <2> QED BY <1>3, <2>1, <2>2, KeptKept, ZenonT(30)
<1>7. \A c \in Chain : ChainHistory(c)'
  BY ChainL1, ZenonT(30)
<1> QED
  BY <1>4, <1>5, <1>6, <1>7, HistoryGroupsNext, ZenonT(30)

\* The publisher sees a superblock on L1.
LEMMA HistorySettled ==
  ASSUME IndInv, OrderInv, HistoryInv, NEW n \in (InitFinalized + 1)..Pub!LatestNumber,
         PublisherSeesL1(n)
  PROVE  HistoryInv'
<1>1. L1Follows /\ ProofsFollow
  BY HistoryGroups, ZenonT(30)
<1>2. /\ UNCHANGED <<sequencer, settling, sent, inbox, origin, refused, kept, contents,
                     overtaken>>
      /\ UNCHANGED <<period_id, target_superblock_number, epoch, l1, proofs, published,
                     proving>>
      /\ last_finalized_superblock_number' = n /\ n > last_finalized_superblock_number
  BY ZenonT(30)
     DEF PublisherSeesL1, Pub!AdvanceSettledState, seqVars, ghosts, Pub!building,
         Pub!messages
<1>3. /\ Orderly' <=> Orderly
      /\ overtaken => overtaken'
      /\ Pub!SuperblocksUnderWay' = Pub!SuperblocksUnderWay
      /\ Pub!LatestNumber' = Pub!LatestNumber
  BY <1>2, ZenonT(30) DEF Orderly, Pub!SuperblocksUnderWay, Pub!LatestNumber
<1>4. /\ last_finalized_superblock_number' \in Int
      /\ last_finalized_superblock_number <= last_finalized_superblock_number'
      /\ last_finalized_superblock_number' \in InitFinalized..Pub!LatestNumber
  BY SMTT(20), <1>1, <1>2, HistoryNumbers
<1>5. L1Follows'
  BY <1>1, <1>2, <1>3, <1>4, ZenonT(30) DEF L1Follows
<1>6. /\ \A q : CallOK(q) /\ Current(q)' => Current(q)
      /\ \A q : CallOK(q) /\ Current(q)
                  /\ q.superblock > last_finalized_superblock_number' => Current(q)'
  BY SMTT(20), <1>1, <1>2, <1>4, HistoryNumbers DEF CallOK, Current
<1>7. ProofsFollow'
  <2>1. UNCHANGED <<sequencer, settling, sent, refused>>
    BY <1>2, ZenonT(30)
  <2> QED BY <1>1, <1>3, <1>6, <2>1, ProofsKept, ZenonT(30)
<1>8. KeptFollow'
  <2>1. UNCHANGED <<kept, proofs, contents, epoch>> /\ sent \subseteq sent'
        /\ refused \subseteq refused'
    BY <1>2, ZenonT(30)
  <2> QED BY <1>3, <1>4, <1>6, <2>1, KeptKept, ZenonT(30)
<1>9. \A c \in Chain : ChainHistory(c)'
  <2>1. UNCHANGED <<sequencer, inbox, origin, epoch, l1, contents, refused>>
    BY <1>2, ZenonT(30)
  <2> QED BY <1>3, <1>4, <2>1, ChainsKept, ZenonT(30)
<1> QED
  BY <1>5, <1>7, <1>8, <1>9, HistoryGroupsNext, ZenonT(30)

\* A sequencer takes a message.
LEMMA HistoryDeliver ==
  ASSUME IndInv, OrderInv, HistoryInv, NEW c \in Chain, Deliver(c)
  PROVE  HistoryInv'
<1>1. /\ L1Follows /\ \A d \in Chain : ChainHistory(d)
      /\ Shapes /\ DOMAIN started = Chain /\ DOMAIN origin = Chain
  BY HistoryGroups, Basics, OrderOfChains, ZenonT(30)
<1> PICK msg : msg = Head(inbox[c])
  BY ZenonT(30)
<1>2. /\ inbox[c] # <<>> /\ inbox'[c] = Tail(inbox[c])
      /\ OthersKept(c)
      /\ UNCHANGED <<pubVars, kept, contents, aimed, overtaken>>
      /\ \/ msg.type = "StartPeriod" /\ TakesStartPeriod(c, msg)
         \/ msg.type = "StartInstance" /\ TakesStartInstance(c, msg)
         \/ msg.type = "Rollback" /\ (TakesRollback(c, msg) \/ RefusesRollback(c))
         \/ ~IsControl(msg) /\ TakesNothing(c)
  BY <1>1, DeliverEffect, ZenonT(30)
<1>3. UNCHANGED <<epoch, l1, last_finalized_superblock_number, contents, overtaken>>
  BY ZenonT(60), <1>2 DEF pubVars
<1>4. ChainHistory(c)'
  BY <1>1, <1>2, <1>3, ChainTaken, ZenonT(30)
<1>5. ASSUME NEW d \in Chain \ {c} PROVE ChainHistory(d)'
  <2>1. /\ d \in Chain /\ ChainHistory(d)
        /\ sequencer'[d] = sequencer[d] /\ inbox'[d] = inbox[d] /\ origin'[d] = origin[d]
        /\ UNCHANGED <<epoch, l1>> /\ (d \in refused => d \in refused')
    BY <1>1, <1>2, <1>3, ZenonT(30) DEF OthersKept
  <2>2. /\ last_finalized_superblock_number' \in Int
        /\ last_finalized_superblock_number <= last_finalized_superblock_number'
    BY SMTT(20), <1>1, <1>3, HistoryNumbers
  <2>3. /\ Orderly' <=> Orderly
        /\ \A m : HeadersOnL1(d, m)' = HeadersOnL1(d, m)
    BY <1>3, SameHeaders, ZenonT(30) DEF Orderly
  <2> QED BY <1>1, <2>1, <2>2, <2>3, ChainKept, ZenonT(30)
<1>6. sent \subseteq sent' /\ refused \subseteq refused'
  <2>1. sent' = sent /\ refused \subseteq refused'
    BY ZenonT(30)
       DEF Deliver, StartPeriod, OnStartInstance, OnDecidedInstance, Rollback, seqVars
  <2> QED BY ZenonT(60), <2>1
<1>7. UNCHANGED <<pubVars, kept, contents, overtaken>>
  BY <1>2, ZenonT(30)
<1> QED
  BY <1>4, <1>5, <1>6, <1>7, ProofsDeliver, HistorySequencers, ZenonT(30)

\* A sequencer builds a block, or sees a superblock on L1.
LEMMA HistoryBuild ==
  ASSUME IndInv, OrderInv, HistoryInv, NEW c \in Chain,
         BuildBlock(c)
           \/ \E n \in (InitFinalized + 1)..Pub!LatestNumber : SequencerSeesL1(c, n)
  PROVE  HistoryInv'
<1>1. L1Follows /\ Shapes /\ \A d \in Chain : ChainHistory(d)
  BY HistoryGroups, Basics, ZenonT(30)
<1>2. /\ SettingKept(c)
      /\ \A d \in Chain \ {c} : sequencer'[d] = sequencer[d]
      /\ UNCHANGED <<pubVars, inbox, ghosts>>
      /\ \/ Begins(c)
         \/ Ends(c)
         \/ \E n \in (InitFinalized + 1)..Pub!LatestNumber : Advances(c, n)
  BY <1>1, BuildEffect, ZenonT(30)
<1>3. UNCHANGED <<inbox, origin, epoch, l1, last_finalized_superblock_number, refused,
                  overtaken, contents>> /\ kept' = kept
  BY ZenonT(30), <1>2 DEF pubVars, ghosts
<1>4. ChainHistory(c)'
  <2>1. UNCHANGED <<inbox, origin, epoch, l1, last_finalized_superblock_number, refused,
                    overtaken, contents>>
    BY <1>3, ZenonT(30)
  <2>2. CASE Begins(c)
    BY <1>1, <1>2, <2>1, <2>2, ChainBegins, ZenonT(30)
  <2>3. CASE Ends(c)
    BY <1>1, <1>2, <2>1, <2>3, ChainEnds, ZenonT(30)
  <2>4. ASSUME NEW n \in (InitFinalized + 1)..Pub!LatestNumber, Advances(c, n)
        PROVE  ChainHistory(c)'
    BY <1>1, <1>2, <2>1, <2>4, ChainAdvances, ZenonT(30)
  <2> QED BY <1>2, <2>2, <2>3, <2>4, ZenonT(30)
<1>5. ASSUME NEW d \in Chain \ {c} PROVE ChainHistory(d)'
  <2>1. /\ d \in Chain /\ ChainHistory(d)
        /\ sequencer'[d] = sequencer[d] /\ inbox'[d] = inbox[d] /\ origin'[d] = origin[d]
        /\ UNCHANGED <<epoch, l1>> /\ (d \in refused => d \in refused')
    BY <1>1, <1>2, <1>3, ZenonT(30)
  <2>2. /\ last_finalized_superblock_number' \in Int
        /\ last_finalized_superblock_number <= last_finalized_superblock_number'
    BY SMTT(20), <1>1, <1>3, HistoryNumbers
  <2>3. /\ Orderly' <=> Orderly
        /\ \A m : HeadersOnL1(d, m)' = HeadersOnL1(d, m)
    BY <1>3, SameHeaders, ZenonT(30) DEF Orderly
  <2> QED BY <1>1, <2>1, <2>2, <2>3, ChainKept, ZenonT(30)
<1>6. sent \subseteq sent' /\ refused \subseteq refused'
  <2>1. sent' = sent
    BY ZenonT(30)
       DEF BuildBlock, BeginBlock, EndBlock, SequencerSeesL1, AdvanceSettledState
  <2> QED BY ZenonT(30), <1>3, <2>1
<1>7. UNCHANGED <<pubVars, kept, contents, overtaken>>
  BY <1>2, <1>3, ZenonT(30)
<1> QED
  BY <1>4, <1>5, <1>6, <1>7, ProofsBuild, HistorySequencers, ZenonT(30)

\* A settlement goes on, or nothing happens.
LEMMA HistorySilent ==
  ASSUME IndInv, OrderInv, HistoryInv,
         (\E call \in settling : Settle(call)) \/ UNCHANGED vars
  PROVE  HistoryInv'
<1>1. L1Follows /\ ProofsFollow
  BY HistoryGroups, ZenonT(30)
<1>2. UNCHANGED <<pubVars, sequencer, inbox, ghosts>>
  BY ZenonT(30) DEF Settle, ReadHeader, SendProof, SettlementFails, vars, seqVars
<1>3. /\ UNCHANGED <<sequencer, inbox, origin, epoch, l1, contents, refused>>
      /\ UNCHANGED <<pubVars, kept, contents, overtaken>>
      /\ UNCHANGED <<period_id, target_superblock_number, last_finalized_superblock_number>>
  BY ZenonT(30), <1>2 DEF pubVars, ghosts
<1>4. Orderly' <=> Orderly
  BY <1>3, ZenonT(30) DEF Orderly
<1>5. ProofsFollow' /\ sent \subseteq sent'
  <2>1. CASE UNCHANGED vars
    <3>1. UNCHANGED <<sequencer, settling, sent, refused>>
      BY ZenonT(60), <2>1 DEF vars, seqVars, ghosts
    <3>2. \A q : Current(q)' <=> Current(q)
      BY <1>3, ZenonT(30) DEF Current
    <3> QED BY <1>1, <1>4, <3>1, <3>2, ProofsKept, ZenonT(30)
  <2> QED BY <2>1, ProofsSettle, ZenonT(30)
<1>6. \A c \in Chain : ChainHistory(c)'
  <2>1. /\ last_finalized_superblock_number' \in Int
        /\ last_finalized_superblock_number <= last_finalized_superblock_number'
    BY SMTT(20), <1>1, <1>3, HistoryNumbers
  <2>2. UNCHANGED <<sequencer, inbox, origin, epoch, l1, contents, refused>>
    BY <1>3, ZenonT(30)
  <2> QED BY <1>4, <2>1, <2>2, ChainsKept, ZenonT(30)
<1> QED
  BY <1>3, <1>5, <1>6, HistorySequencers, ZenonT(30)

\* Every step keeps the history.
LEMMA HistoryStep ==
  IndInv /\ OrderInv /\ HistoryInv /\ AllCounted /\ [Next]_vars => HistoryInv'
<1> SUFFICES ASSUME IndInv, OrderInv, HistoryInv, AllCounted, [Next]_vars
             PROVE  HistoryInv'
  BY ZenonT(30)
<1>1. CASE PublisherTimesOut
  <2>1. Pub!rollback /\ BroadcastRollback /\ proving' \subseteq proving
    BY ZenonT(60), <1>1 DEF PublisherTimesOut, Pub!ProofTimeout
  <2> QED BY <2>1, HistoryRollback, ZenonT(30)
<1>2. ASSUME NEW call \in proving, PublisherProves(call) PROVE HistoryInv'
  <2>1. CASE Pub!ProverFails(call) /\ BroadcastRollback
    <3>1. Pub!rollback /\ BroadcastRollback /\ proving' \subseteq proving
      BY ZenonT(30), <2>1 DEF Pub!ProverFails
    <3> QED BY <3>1, HistoryRollback, ZenonT(30)
  <2> QED BY <1>2, <2>1, HistoryProves, ZenonT(30)
<1>3. CASE Next
  BY <1>1, <1>2, <1>3, HistoryBroadcast, HistoryReceive, HistoryL1, HistorySettled,
     HistoryDeliver, HistoryBuild, HistorySilent, ZenonT(60) DEF Next
<1>4. CASE UNCHANGED vars
  BY <1>4, HistorySilent, ZenonT(30)
<1> QED
  BY ZenonT(30), <1>3, <1>4

\* A set of chains with as many chains as there are is all of them.
LEMMA EveryChainCounted == AllCounted
<1>1. ASSUME NEW S \in SUBSET Chain, ~(Cardinality(S) < Cardinality(Chain))
      PROVE  S = Chain
  <2>1. /\ Cardinality(S) <= Cardinality(Chain)
        /\ Cardinality(Chain) = Cardinality(S) => Chain = S
        /\ IsFiniteSet(S)
    BY FiniteChains, FS_Subset, ZenonT(30)
  <2>2. Cardinality(S) \in Nat /\ Cardinality(Chain) \in Nat
    BY <2>1, FiniteChains, FS_CardinalityType, ZenonT(30)
  <2>3. Cardinality(Chain) = Cardinality(S)
    BY SMTT(20), <1>1, <2>1, <2>2
  <2> QED BY <2>1, <2>3, ZenonT(30)
<1> QED
  BY <1>1, ZenonT(30) DEF AllCounted

--------------------------------------------------------------------------------
\* What every chain remembers, every proof on its way and every superblock under way
\* agree, as far as L1 settles nothing that was rolled back.
THEOREM HistoryInvariance == Spec => []HistoryInv
<1>1. IndInv /\ OrderInv /\ HistoryInv /\ [Next]_vars => HistoryInv'
  BY HistoryStep, EveryChainCounted, ZenonT(30)
<1> QED
  BY <1>1, InitHistory, Invariance, OrderInvariance, PTL DEF Spec

\* The invariant of the composed protocol holds in every reachable state.
THEOREM InductiveInvariance == Spec => []Inductive
<1>1. IndInv /\ OrderInv /\ HistoryInv => Inductive
  BY ZenonT(30) DEF Inductive
<1> QED
  BY <1>1, Invariance, OrderInvariance, HistoryInvariance, PTL

\* receive_proof keeps only proofs of blocks built for their superblock since the last
\* rollback: its check of the period tells them from proofs of discarded blocks.  The
\* publisher starts ahead of the superblock that is finalized.
THEOREM KeptProofsSafety ==
  ASSUME InitTarget > InitFinalized
  PROVE  Spec => []KeptProofsCurrent
<1>1. HistoryInv => KeptProofsCurrent
  BY KeptFromHistory, ZenonT(30)
<1> QED
  BY <1>1, HistoryInvariance, PTL

\* end_block, rollback and advance_settled_state keep a sequencer's history in order:
\* later periods have later blocks of later superblocks, up to the head, which is not
\* behind L1.
THEOREM HistorySafety ==
  ASSUME InitTarget > InitFinalized
  PROVE  Spec => []HistoryConsistent
<1>1. HistoryInv => HistoryConsistent
  BY ConsistentFromHistory, Zenon
<1> QED
  BY <1>1, HistoryInvariance, PTL

================================================================================

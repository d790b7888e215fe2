---------------------------- MODULE SbcpChainProofs ----------------------------
(***************************************************************************)
(* The messages to a chain and the blocks it builds: how each step keeps   *)
(* ChainHistory, up to what L1 accepts.                                    *)
(***************************************************************************)
EXTENDS SbcpOrderProofs

\* The blocks of a chain.  What its messages say of L1 is kept apart from what its
\* blocks do.

Ahead(c) ==
  /\ \A k \in InFlight(c, {"Rollback"}) : inbox[c][k].number = Pub!LatestNumber
  /\ \A k \in Settings(c) : Pub!LatestNumber < TargetAt(c, k)

BuiltFor(c) ==
  LET s == sequencer[c]
      sealed == s.sealed_block_head
      lead == s.target_superblock_number - s.period_id
  IN
  /\ s.pending_block # None =>
       /\ s.pending_block.superblock_number - s.pending_block.period_id = lead
       /\ s.pending_block.superblock_number > Pub!LatestNumber
  /\ \A p \in DOMAIN sealed :
       \/ /\ sealed[p].superblock_number = p + lead
          /\ sealed[p].block_header.hash = [superblock |-> p + lead, origin |-> origin[c]]
       \/ /\ sealed[p].superblock_number <= last_finalized_superblock_number
          /\ p + lead <= last_finalized_superblock_number

LEMMA ChainParts ==
  ASSUME NEW c, ChainHistory(c)
  PROVE  /\ RollbacksFollow(c)
         /\ NumbersFollow(c)
         /\ c \notin refused => SuperblocksFollow(c)
         /\ Orderly /\ c \notin refused => Ahead(c) /\ BuiltFor(c) /\ HeadersFollow(c)
BY Zenon DEF ChainHistory, BlocksFollow, Ahead, BuiltFor

LEMMA ChainPartsNext ==
  ASSUME NEW c, RollbacksFollow(c)', NumbersFollow(c)',
         c \notin refused' => SuperblocksFollow(c)',
         Orderly' /\ c \notin refused' => Ahead(c)' /\ BuiltFor(c)' /\ HeadersFollow(c)'
  PROVE  ChainHistory(c)'
BY Zenon DEF ChainHistory, BlocksFollow, Ahead, BuiltFor

\* The numbers of a chain's setting.
LEMMA ChainNumbers ==
  ASSUME IndInv, OrderInv, NEW c \in Chain
  PROVE  /\ sequencer[c].period_id \in Int /\ sequencer[c].target_superblock_number \in Int
         /\ 0 \in Settings(c)
         /\ PeriodAt(c, 0) = sequencer[c].period_id
         /\ TargetAt(c, 0) = sequencer[c].target_superblock_number
         /\ Settings(c) \subseteq 0..Len(inbox[c]) /\ Len(inbox[c]) \in Nat
         /\ \A k \in Settings(c) : PeriodAt(c, k) \in Int /\ TargetAt(c, k) \in Int
<1>1. OrderOK(c) /\ Shapes
  BY OrderOfChains, Basics, Zenon
<1>2. 0 \in Settings(c) /\ PeriodAt(c, 0) = sequencer[c].period_id
      /\ TargetAt(c, 0) = sequencer[c].target_superblock_number
  BY Zenon DEF Settings, PeriodAt, TargetAt
<1>3. \A k \in Settings(c) : PeriodAt(c, k) \in Int /\ TargetAt(c, k) \in Int
  BY <1>1, Zenon DEF OrderOK, PeriodsFollow
<1>4. Settings(c) \subseteq 0..Len(inbox[c]) /\ Len(inbox[c]) \in Nat
  BY <1>1, Positions, Zenon
<1> QED
  BY <1>2, <1>3, <1>4, Zenon

--------------------------------------------------------------------------------
\* The messages on their way: kept, sent and taken

LEMMA RollbacksKept ==
  ASSUME NEW c \in Chain, RollbacksFollow(c), inbox'[c] = inbox[c], origin'[c] = origin[c],
         epoch' = epoch, last_finalized_superblock_number \in Int,
         last_finalized_superblock_number' \in Int,
         last_finalized_superblock_number <= last_finalized_superblock_number',
         c \in refused => c \in refused'
  PROVE  RollbacksFollow(c)'
<1>1. InFlight(c, {"Rollback"})' = InFlight(c, {"Rollback"})
  BY Zenon DEF InFlight
<1>2. \A k : NoRollbackBehind(c, k)' <=> NoRollbackBehind(c, k)
  BY <1>1, Zenon DEF NoRollbackBehind
<1>3. \A k \in InFlight(c, {"Rollback"}) :
        inbox[c][k].number <= last_finalized_superblock_number'
  <2>1. \A k \in InFlight(c, {"Rollback"}) :
          /\ inbox[c][k].number \in Int
          /\ inbox[c][k].number <= last_finalized_superblock_number
    BY Zenon DEF RollbacksFollow
  <2> QED BY <2>1
<1> QED
  BY <1>1, <1>2, <1>3, ZenonT(30) DEF RollbacksFollow

\* A message with no Rollback in it is sent.
LEMMA RollbacksSent ==
  ASSUME NEW c \in Chain, Shapes, RollbacksFollow(c), NEW msg, msg.type # "Rollback",
         inbox'[c] = Append(inbox[c], msg), origin'[c] = origin[c], refused' = refused,
         UNCHANGED <<epoch, last_finalized_superblock_number>>
  PROVE  RollbacksFollow(c)'
<1> PICK last : last = Len(inbox[c]) + 1
  BY Zenon
<1>1. SentLast(c, msg, last)
  BY SettingsSent, Zenon
<1>2. InFlight(c, {"Rollback"})' = InFlight(c, {"Rollback"})
  <2>1. last \notin InFlight(c, {"Rollback"})'
    <3>1. ~(msg.type \in {"Rollback"})
      BY Zenon
    <3> QED BY <1>1, <3>1, Zenon DEF SentLast
  <2>2. \A k : k \in InFlight(c, {"Rollback"})' <=> k \in InFlight(c, {"Rollback"})
    BY <1>1, <2>1, Zenon DEF SentLast
  <2> QED BY <2>2, Zenon
<1>3. \A k \in InFlight(c, {"Rollback"}) : inbox'[c][k] = inbox[c][k]
  BY <1>1, Zenon DEF SentLast, InFlight
<1>4. \A k : NoRollbackBehind(c, k)' <=> NoRollbackBehind(c, k)
  BY <1>2, Zenon DEF NoRollbackBehind
<1> QED
  BY <1>2, <1>3, <1>4, ZenonT(30) DEF RollbacksFollow

\* A Rollback is sent: it is the last one, and of the epoch that starts.
LEMMA RollbacksSentRollback ==
  ASSUME NEW c \in Chain, Shapes, RollbacksFollow(c), NEW msg, msg.type = "Rollback",
         inbox'[c] = Append(inbox[c], msg), origin'[c] = origin[c],
         epoch \in Nat, epoch' = epoch + 1, msg.epoch = epoch',
         msg.number = last_finalized_superblock_number,
         last_finalized_superblock_number \in Int,
         last_finalized_superblock_number' = last_finalized_superblock_number
  PROVE  RollbacksFollow(c)'
<1> PICK last : last = Len(inbox[c]) + 1
  BY Zenon
<1>1. SentLast(c, msg, last)
  BY SettingsSent, Zenon
<1>2. /\ last \in InFlight(c, {"Rollback"})' /\ inbox'[c][last] = msg
      /\ InFlight(c, {"Rollback"})' \subseteq InFlight(c, {"Rollback"}) \cup {last}
      /\ \A k \in InFlight(c, {"Rollback"}) : inbox'[c][k] = inbox[c][k]
  <2>1. msg.type \in {"Rollback"}
    BY Zenon
  <2> QED BY <1>1, <2>1, ZenonT(30) DEF SentLast, InFlight
<1>3. NoRollbackBehind(c, last)'
  <2>1. last \in Nat /\ \A k \in InFlight(c, {"Rollback"})' : k \in 1..last
    BY ZenonT(30), <1>1 DEF SentLast, InFlight
  <2>2. \A k \in InFlight(c, {"Rollback"})' : k <= last
    BY <2>1
  <2> QED BY <2>2, ZenonT(30) DEF NoRollbackBehind
<1>4. \A k \in InFlight(c, {"Rollback"}) :
        /\ inbox[c][k].epoch \in Nat /\ inbox[c][k].number \in Int
        /\ inbox[c][k].epoch <= epoch
        /\ inbox[c][k].number <= last_finalized_superblock_number
  BY Zenon DEF RollbacksFollow
<1>5. \A k \in InFlight(c, {"Rollback"}) :
        /\ inbox[c][k].epoch <= epoch' /\ inbox[c][k].epoch # epoch'
  BY <1>4
<1>6. epoch' \in Nat /\ epoch' <= epoch'
      /\ last_finalized_superblock_number <= last_finalized_superblock_number
  OBVIOUS
<1>7. ASSUME NEW k \in InFlight(c, {"Rollback"})'
      PROVE  /\ inbox'[c][k].epoch \in Nat /\ inbox'[c][k].number \in Int
             /\ inbox'[c][k].epoch <= epoch'
             /\ inbox'[c][k].number <= last_finalized_superblock_number'
             /\ inbox'[c][k].epoch = epoch' => NoRollbackBehind(c, k)'
  <2>1. CASE k = last
    BY <2>1, <1>2, <1>3, <1>6, ZenonT(30)
  <2>2. CASE k \in InFlight(c, {"Rollback"})
    BY <2>2, <1>2, <1>4, <1>5, ZenonT(30)
  <2> QED BY <1>2, <1>7, <2>1, <2>2, ZenonT(30)
<1>8. origin'[c] \in Nat
  BY Zenon DEF RollbacksFollow
<1> QED
  BY <1>2, <1>7, <1>8, Zenon DEF RollbacksFollow

\* The oldest message is taken: a Rollback starts the chain's new epoch, or is refused.
LEMMA RollbacksTaken ==
  ASSUME NEW c \in Chain, Shapes, RollbacksFollow(c), inbox[c] # <<>>,
         inbox'[c] = Tail(inbox[c]), NEW msg, msg = Head(inbox[c]),
         msg.type # "Rollback" => origin'[c] = origin[c],
         msg.type = "Rollback" /\ c \notin refused' => origin'[c] = msg.epoch,
         origin'[c] \in {origin[c], msg.epoch},
         c \in refused => c \in refused',
         UNCHANGED <<epoch, last_finalized_superblock_number>>
  PROVE  RollbacksFollow(c)'
<1>1. TakenFirst(c, msg)
  BY SettingsTaken, Zenon
<1>2. /\ \A k \in InFlight(c, {"Rollback"})' :
           /\ k \in Nat \ {0} /\ k + 1 \in InFlight(c, {"Rollback"})
           /\ inbox'[c][k] = inbox[c][k + 1]
      /\ \A k \in InFlight(c, {"Rollback"}) :
           k \in Nat \ {0} /\ (k # 1 => k - 1 \in InFlight(c, {"Rollback"})')
      /\ 1 \in InFlight(c, {"Rollback"}) <=> msg.type = "Rollback"
      /\ msg = inbox[c][1]
  <2>1. 1 \in InFlight(c, {"Rollback"}) <=> msg.type = "Rollback"
    BY ZenonT(30), <1>1 DEF TakenFirst, InFlight
  <2>2. \A k \in InFlight(c, {"Rollback"})' : inbox'[c][k] = inbox[c][k + 1]
    BY <1>1, Zenon DEF TakenFirst, InFlight
  <2> QED BY <1>1, <2>1, <2>2, ZenonT(30) DEF TakenFirst
<1>3. \A k \in InFlight(c, {"Rollback"}) :
        /\ inbox[c][k].epoch \in Nat /\ inbox[c][k].number \in Int
        /\ inbox[c][k].epoch <= epoch
        /\ inbox[c][k].number <= last_finalized_superblock_number
        /\ inbox[c][k].epoch = epoch => NoRollbackBehind(c, k)
  BY Zenon DEF RollbacksFollow
<1>4. \A k \in InFlight(c, {"Rollback"})' :
        NoRollbackBehind(c, k + 1) => NoRollbackBehind(c, k)'
  <2>1. ASSUME NEW k \in InFlight(c, {"Rollback"})', NoRollbackBehind(c, k + 1),
               NEW i \in InFlight(c, {"Rollback"})'
        PROVE  i <= k
    <3>1. i \in Nat /\ k \in Nat /\ i + 1 <= k + 1
      BY ZenonT(30), <1>2, <2>1 DEF NoRollbackBehind
    <3> QED BY <3>1
  <2> QED BY <2>1, Zenon DEF NoRollbackBehind
<1>5. origin'[c] \in Nat
  <2>1. CASE msg.type = "Rollback"
    BY <1>2, <1>3, <2>1, ZenonT(30) DEF RollbacksFollow
  <2>2. CASE msg.type # "Rollback"
    BY <2>2, Zenon DEF RollbacksFollow
  <2> QED BY <2>1, <2>2, ZenonT(30)
<1>6. ASSUME InFlight(c, {"Rollback"})' # {}
      PROVE  \E k \in InFlight(c, {"Rollback"})' : inbox'[c][k].epoch = epoch'
  <2>1. PICK j \in InFlight(c, {"Rollback"})' : TRUE
    BY <1>6, Zenon
  <2>2. j \in Nat \ {0} /\ j + 1 \in InFlight(c, {"Rollback"})
    BY <1>2, Zenon
  <2>3. PICK k \in InFlight(c, {"Rollback"}) : inbox[c][k].epoch = epoch
    BY <2>2, Zenon DEF RollbacksFollow
  <2>4. j + 1 <= k /\ k \in Nat
    BY <1>2, <1>3, <2>2, <2>3, ZenonT(30) DEF NoRollbackBehind
  <2>5. k # 1 /\ (k - 1) + 1 = k
    BY <2>2, <2>4
  <2>6. k - 1 \in InFlight(c, {"Rollback"})' /\ inbox'[c][k - 1] = inbox[c][(k - 1) + 1]
    BY <1>2, <2>5, ZenonT(30)
  <2> QED BY <2>3, <2>5, <2>6, ZenonT(30)
<1>7. ASSUME InFlight(c, {"Rollback"})' = {}, c \notin refused'
      PROVE  origin'[c] = epoch'
  <2>1. CASE msg.type = "Rollback"
    <3>1. PICK k \in InFlight(c, {"Rollback"}) : inbox[c][k].epoch = epoch
      BY <1>2, <2>1, Zenon DEF RollbacksFollow
    <3>2. k = 1
      BY <1>2, <1>7, <3>1, ZenonT(30)
    <3> QED BY <1>2, <1>7, <2>1, <3>1, <3>2, ZenonT(30)
  <2>2. CASE msg.type # "Rollback"
    <3>1. InFlight(c, {"Rollback"}) = {}
      BY <1>2, <1>7, <2>2, ZenonT(30)
    <3> QED BY <1>7, <2>2, <3>1, ZenonT(30) DEF RollbacksFollow
  <2> QED BY <2>1, <2>2, ZenonT(30)
<1>8. ASSUME NEW k \in InFlight(c, {"Rollback"})'
      PROVE  /\ inbox'[c][k].epoch \in Nat /\ inbox'[c][k].number \in Int
             /\ inbox'[c][k].epoch <= epoch'
             /\ inbox'[c][k].number <= last_finalized_superblock_number'
             /\ inbox'[c][k].epoch = epoch' => NoRollbackBehind(c, k)'
  <2>1. k + 1 \in InFlight(c, {"Rollback"}) /\ inbox'[c][k] = inbox[c][k + 1]
    BY <1>2, Zenon
  <2> QED BY <1>3, <1>4, <2>1, ZenonT(30)
<1> QED
  BY <1>5, <1>6, <1>7, <1>8, ZenonT(30) DEF RollbacksFollow

\* The chain's setting and messages are left alone, and so is L1.
LEMMA AheadKept ==
  ASSUME NEW c \in Chain, Ahead(c), inbox'[c] = inbox[c], l1' = l1,
         sequencer'[c].target_superblock_number = sequencer[c].target_superblock_number
  PROVE  Ahead(c)'
<1>1. \A types : InFlight(c, types)' = InFlight(c, types)
  BY Zenon DEF InFlight
<1>2. Settings(c)' = Settings(c) /\ \A k : TargetAt(c, k)' = TargetAt(c, k)
  BY <1>1, Zenon DEF Settings, TargetAt
<1>3. Pub!LatestNumber' = Pub!LatestNumber
  BY ZenonT(30) DEF Pub!LatestNumber
<1> QED
  BY <1>1, <1>2, <1>3, Zenon DEF Ahead

\* A broadcast: a StartPeriod or Rollback brings a target ahead of L1.
LEMMA AheadSent ==
  ASSUME NEW c \in Chain, Shapes, Ahead(c), NEW msg, inbox'[c] = Append(inbox[c], msg),
         l1' = l1,
         sequencer'[c].target_superblock_number = sequencer[c].target_superblock_number,
         Pub!LatestNumber \in Int,
         msg.type = "StartPeriod" => Pub!LatestNumber < msg.target,
         msg.type = "Rollback" => msg.number = Pub!LatestNumber
  PROVE  Ahead(c)'
<1> PICK last : last = Len(inbox[c]) + 1
  BY ZenonT(30)
<1>1. SentLast(c, msg, last)
  BY SettingsSent, Zenon
<1>2. Pub!LatestNumber' = Pub!LatestNumber
  BY ZenonT(30) DEF Pub!LatestNumber
<1>3. ASSUME NEW k \in InFlight(c, {"Rollback"})'
      PROVE  inbox'[c][k].number = Pub!LatestNumber
  <2>1. CASE k = last
    <3>1. msg.type \in {"Rollback"} /\ inbox'[c][last] = msg
      BY <1>1, <1>3, <2>1, ZenonT(30) DEF SentLast
    <3> QED BY <2>1, <3>1, ZenonT(30)
  <2>2. CASE k \in InFlight(c, {"Rollback"})
    <3>1. inbox'[c][k] = inbox[c][k]
      BY <1>1, <2>2, ZenonT(30) DEF SentLast, InFlight
    <3> QED BY <2>2, <3>1, Zenon DEF Ahead
  <2> QED BY <1>1, <1>3, <2>1, <2>2, ZenonT(30) DEF SentLast
<1>4. ASSUME NEW k \in Settings(c)' PROVE Pub!LatestNumber < TargetAt(c, k)'
  <2>1. CASE k = last /\ IsControl(msg)
    <3>1. /\ inbox'[c][last] = msg /\ last # 0
      BY ZenonT(30), <1>1 DEF SentLast
    <3>2. CASE msg.type = "StartPeriod"
      BY <2>1, <3>1, <3>2, ZenonT(30) DEF TargetAt
    <3>3. CASE msg.type = "Rollback"
      <4>1. TargetAt(c, k)' = msg.number + 1
        BY ZenonT(30), <2>1, <3>1, <3>3 DEF TargetAt
      <4> QED BY SMTT(30), <3>3, <4>1
    <3> QED BY ZenonT(30), <2>1, <3>2, <3>3 DEF IsControl
  <2>2. CASE k \in Settings(c)
    <3>1. k = 0 \/ inbox'[c][k] = inbox[c][k]
      BY <1>1, <2>2, Zenon DEF SentLast, Settings, InFlight
    <3>2. TargetAt(c, k)' = TargetAt(c, k)
      BY <3>1, ZenonT(30) DEF TargetAt
    <3> QED BY <2>2, <3>2, Zenon DEF Ahead
  <2>3. /\ IsControl(msg) => Settings(c)' = Settings(c) \cup {last}
        /\ ~IsControl(msg) => Settings(c)' = Settings(c)
    BY <1>1, Zenon DEF SentLast
  <2> QED BY <1>4, <2>1, <2>2, <2>3, ZenonT(30)
<1> QED
  BY <1>2, <1>3, <1>4, ZenonT(30) DEF Ahead

\* The oldest message is taken, and if it is a control the sequencer gets its target.
LEMMA AheadTaken ==
  ASSUME NEW c \in Chain, Shapes, Ahead(c), inbox[c] # <<>>, inbox'[c] = Tail(inbox[c]),
         NEW msg, msg = Head(inbox[c]), l1' = l1,
         sequencer'[c].target_superblock_number = TargetAt(c, Before(msg, 0))
  PROVE  Ahead(c)'
<1>1. TakenFirst(c, msg)
  BY SettingsTaken, Zenon
<1>2. Pub!LatestNumber' = Pub!LatestNumber
  BY ZenonT(30) DEF Pub!LatestNumber
<1>3. ASSUME NEW k \in InFlight(c, {"Rollback"})'
      PROVE  inbox'[c][k].number = Pub!LatestNumber
  <2>1. k + 1 \in InFlight(c, {"Rollback"}) /\ inbox'[c][k] = inbox[c][k + 1]
    BY <1>1, <1>3, Zenon DEF TakenFirst, InFlight
  <2> QED BY <2>1, Zenon DEF Ahead
<1>4. ASSUME NEW j \in Settings(c)' PROVE Pub!LatestNumber < TargetAt(c, j)'
  <2>1. j \in Nat /\ Before(msg, j) \in Settings(c)
    BY <1>1, Zenon DEF TakenFirst
  <2>2. TargetAt(c, j)' = TargetAt(c, Before(msg, j))
    <3>1. CASE j = 0
      BY <3>1, Zenon DEF TargetAt
    <3>2. CASE j # 0
      <4>1. Before(msg, j) = j + 1 /\ j + 1 # 0
        BY SMTT(30), <2>1, <3>2 DEF Before
      <4>2. inbox'[c][j] = inbox[c][j + 1]
        BY ZenonT(30), <1>1, <1>4, <3>2 DEF TakenFirst, Settings, InFlight
      <4> QED BY <3>2, <4>1, <4>2, ZenonT(30) DEF TargetAt
    <3> QED BY <3>1, <3>2, ZenonT(30)
  <2> QED BY <2>1, <2>2, Zenon DEF Ahead
<1> QED
  BY <1>2, <1>3, <1>4, ZenonT(30) DEF Ahead


--------------------------------------------------------------------------------
\* What a step does to the blocks

\* The chain keeps its blocks, over a StartPeriod too.
LEMMA NumbersKept ==
  ASSUME NEW c \in Chain, NumbersFollow(c), BlocksKept(c),
         sequencer[c].period_id \in Int, sequencer'[c].period_id \in Int,
         sequencer[c].period_id <= sequencer'[c].period_id
  PROVE  NumbersFollow(c)'
<1> PICK s : s = sequencer[c]
  BY Zenon
<1>1. s.pending_block # None => /\ s.pending_block.period_id \in Int
                                /\ s.pending_block.superblock_number \in Int
                                /\ s.pending_block.period_id <= sequencer'[c].period_id
  BY DEF NumbersFollow
<1>2. \A p \in DOMAIN s.sealed_block_head : p <= sequencer'[c].period_id
  BY DEF NumbersFollow
<1> QED
  BY <1>1, <1>2, ZenonT(30) DEF NumbersFollow, BlocksKept

LEMMA SuperblocksKept ==
  ASSUME NEW c \in Chain, SuperblocksFollow(c), NumbersFollow(c), BlocksKept(c),
         SettingKept(c)
  PROVE  SuperblocksFollow(c)'
BY Zenon DEF SuperblocksFollow, BlocksKept, SettingKept

LEMMA BuiltForKept ==
  ASSUME NEW c \in Chain, BuiltFor(c), NumbersFollow(c), BlocksKept(c),
         sequencer[c].period_id \in Int, sequencer[c].target_superblock_number \in Int,
         sequencer'[c].target_superblock_number - sequencer'[c].period_id
           = sequencer[c].target_superblock_number - sequencer[c].period_id,
         origin'[c] = origin[c], l1' = l1,
         last_finalized_superblock_number \in Int,
         last_finalized_superblock_number' \in Int,
         last_finalized_superblock_number <= last_finalized_superblock_number'
  PROVE  BuiltFor(c)'
<1> PICK s : s = sequencer[c]
  BY ZenonT(30)
<1> PICK lead : lead = s.target_superblock_number - s.period_id
  BY ZenonT(30)
<1>1. lead \in Int /\ sequencer'[c].target_superblock_number - sequencer'[c].period_id = lead
  OBVIOUS
<1>2. Pub!LatestNumber' = Pub!LatestNumber
  BY ZenonT(30) DEF Pub!LatestNumber
<1>3. \A p \in DOMAIN s.sealed_block_head :
        p \in Int /\ s.sealed_block_head[p].superblock_number \in Int
  BY Zenon DEF NumbersFollow
<1>4. \A p \in DOMAIN s.sealed_block_head :
        \/ /\ s.sealed_block_head[p].superblock_number = p + lead
           /\ s.sealed_block_head[p].block_header.hash
                = [superblock |-> p + lead, origin |-> origin[c]]
        \/ /\ s.sealed_block_head[p].superblock_number <= last_finalized_superblock_number
           /\ p + lead <= last_finalized_superblock_number
  BY ZenonT(30) DEF BuiltFor
<1>5. \A p \in DOMAIN s.sealed_block_head :
        /\ s.sealed_block_head[p].superblock_number <= last_finalized_superblock_number
        /\ p + lead <= last_finalized_superblock_number
        => /\ s.sealed_block_head[p].superblock_number <= last_finalized_superblock_number'
           /\ p + lead <= last_finalized_superblock_number'
  BY SMTT(30), <1>1, <1>3
<1>6. s.pending_block # None =>
        /\ s.pending_block.superblock_number - s.pending_block.period_id = lead
        /\ s.pending_block.superblock_number > Pub!LatestNumber
  BY Zenon DEF BuiltFor
<1> QED
  BY <1>1, <1>2, <1>4, <1>5, <1>6, ZenonT(30) DEF BuiltFor, BlocksKept

\* The headers on L1 are left alone.
LEMMA HeadersKept ==
  ASSUME NEW c \in Chain, HeadersFollow(c), BlocksKept(c),
         sequencer'[c].settled_state = sequencer[c].settled_state, l1' = l1,
         InitFinalized \in Int, Pub!LatestNumber \in Int, NumbersFollow(c),
         \A m \in Int : m <= Pub!LatestNumber => HeadersOnL1(c, m)' = HeadersOnL1(c, m)
  PROVE  HeadersFollow(c)'
<1> PICK s : s = sequencer[c]
  BY Zenon
<1>1. Pub!LatestNumber' = Pub!LatestNumber
  BY Zenon DEF Pub!LatestNumber
<1>2. HeadersOnL1(c, Pub!LatestNumber)' = HeadersOnL1(c, Pub!LatestNumber)
  <2>1. Pub!LatestNumber <= Pub!LatestNumber
    OBVIOUS
  <2>2. HeadersOnL1(c, Pub!LatestNumber)' = {pf.header : pf \in
          {q \in UNION {contents'[l1'[k]] : k \in 1..(Pub!LatestNumber' - InitFinalized)} :
             q.chain = c /\ q.header # None}}
    BY Zenon DEF HeadersOnL1
  <2> QED BY <1>1, <2>1, <2>2, Zenon DEF HeadersOnL1
<1>3. \A m \in InitFinalized..Pub!LatestNumber :
        HeadersOnL1(c, m)' = HeadersOnL1(c, m)
  BY SMT
<1>4. s.settled_state.superblock_number \in InitFinalized..Pub!LatestNumber
  BY Zenon DEF HeadersFollow, SettledHeaders
<1>5. \A p \in DOMAIN s.sealed_block_head :
        s.sealed_block_head[p].superblock_number <= Pub!LatestNumber =>
          HeadersOnL1(c, s.sealed_block_head[p].superblock_number)'
            = HeadersOnL1(c, s.sealed_block_head[p].superblock_number)
  BY Zenon DEF NumbersFollow
<1>6. SettledHeaders(c) /\ L1Headers(c) /\ SealedHeaders(c)
  BY Zenon DEF HeadersFollow
<1>7. SettledHeaders(c)'
  BY <1>1, <1>3, <1>4, <1>6, ZenonT(30) DEF SettledHeaders, BlocksKept
<1>8. L1Headers(c)'
  BY <1>1, <1>2, <1>3, <1>6, ZenonT(30) DEF L1Headers, BlocksKept
<1>9. SealedHeaders(c)'
  BY <1>1, <1>5, <1>6, ZenonT(30) DEF SealedHeaders, BlocksKept
<1> QED BY <1>7, <1>8, <1>9, Zenon DEF HeadersFollow


\* Neither contents nor L1 changes.
LEMMA SameHeaders ==
  ASSUME UNCHANGED <<contents, l1>>, NEW c, NEW m
  PROVE  HeadersOnL1(c, m)' = HeadersOnL1(c, m)
BY Zenon DEF HeadersOnL1

LEMMA SameLatest ==
  ASSUME UNCHANGED <<contents, l1>>, NEW c
  PROVE  HeadersOnL1(c, Pub!LatestNumber)' = HeadersOnL1(c, Pub!LatestNumber)
<1>1. Pub!LatestNumber' = Pub!LatestNumber
  BY Zenon DEF Pub!LatestNumber
<1> QED
  BY <1>1, Zenon DEF HeadersOnL1


\* A step that leaves the chain and its messages alone.
LEMMA ChainKept ==
  ASSUME IndInv, OrderInv, L1Follows, NEW c \in Chain, ChainHistory(c),
         sequencer'[c] = sequencer[c], inbox'[c] = inbox[c], origin'[c] = origin[c],
         UNCHANGED <<epoch, l1>>,
         last_finalized_superblock_number' \in Int,
         last_finalized_superblock_number <= last_finalized_superblock_number',
         c \in refused => c \in refused', Orderly' => Orderly,
         \A m \in Int : Orderly /\ c \notin refused /\ m <= Pub!LatestNumber =>
                          HeadersOnL1(c, m)' = HeadersOnL1(c, m)
  PROVE  ChainHistory(c)'
<1>1. /\ last_finalized_superblock_number \in Int /\ Pub!LatestNumber \in Int
      /\ InitFinalized \in Int
  BY HistoryNumbers
<1>2. /\ sequencer[c].period_id \in Int /\ sequencer[c].target_superblock_number \in Int
      /\ sequencer[c].period_id <= sequencer[c].period_id
  BY ChainNumbers
<1>3. /\ RollbacksFollow(c)
      /\ NumbersFollow(c)
      /\ c \notin refused => SuperblocksFollow(c)
      /\ Orderly /\ c \notin refused => Ahead(c) /\ BuiltFor(c) /\ HeadersFollow(c)
  BY ChainParts, Zenon
<1>4. BlocksKept(c) /\ SettingKept(c)
  BY Zenon DEF BlocksKept, SettingKept
<1>5. RollbacksFollow(c)'
  BY <1>1, <1>3, RollbacksKept, ZenonT(30)
<1>6. NumbersFollow(c)'
  BY <1>2, <1>3, <1>4, NumbersKept, ZenonT(30)
<1>7. c \notin refused' => SuperblocksFollow(c)'
  BY <1>3, <1>4, SuperblocksKept, ZenonT(30)
<1>8. ASSUME Orderly', c \notin refused'
      PROVE  Ahead(c)' /\ BuiltFor(c)' /\ HeadersFollow(c)'
  <2>1. Orderly /\ c \notin refused
    BY <1>8, ZenonT(30)
  <2>2. Ahead(c)'
    BY <1>3, <2>1, AheadKept, ZenonT(30)
  <2>3. BuiltFor(c)'
    BY <1>1, <1>2, <1>3, <1>4, <2>1, BuiltForKept, ZenonT(30)
  <2>4. HeadersFollow(c)'
    <3>1. \A m \in Int : m <= Pub!LatestNumber => HeadersOnL1(c, m)' = HeadersOnL1(c, m)
      BY <2>1, Zenon
    <3> QED BY <1>1, <1>3, <1>4, <2>1, <3>1, HeadersKept, ZenonT(30)
  <2> QED BY ZenonT(30), <2>2, <2>3, <2>4
<1> QED
  BY <1>5, <1>6, <1>7, <1>8, ChainPartsNext, Zenon

\* A broadcast to the chain.
LEMMA ChainSent ==
  ASSUME IndInv, OrderInv, L1Follows, NEW c \in Chain, ChainHistory(c),
         UNCHANGED <<sequencer, origin, refused, contents, l1,
                     last_finalized_superblock_number>>,
         Orderly' => Orderly, NEW msg, inbox'[c] = Append(inbox[c], msg),
         msg.type # "Rollback" => epoch' = epoch,
         msg.type = "StartPeriod" => (Orderly => Pub!LatestNumber < msg.target),
         msg.type = "Rollback" =>
           /\ epoch' = epoch + 1 /\ msg.epoch = epoch'
           /\ msg.number = last_finalized_superblock_number
           /\ Orderly' => Pub!LatestNumber = last_finalized_superblock_number
  PROVE  ChainHistory(c)'
<1>1. /\ last_finalized_superblock_number \in Int /\ Pub!LatestNumber \in Int
      /\ InitFinalized \in Int /\ epoch \in Nat
      /\ last_finalized_superblock_number <= last_finalized_superblock_number
  BY SMTT(30), HistoryNumbers
<1>2. /\ sequencer[c].period_id \in Int /\ sequencer[c].target_superblock_number \in Int
      /\ sequencer[c].period_id <= sequencer[c].period_id
      /\ Shapes
  BY ChainNumbers, Basics
<1>3. /\ RollbacksFollow(c)
      /\ NumbersFollow(c)
      /\ c \notin refused => SuperblocksFollow(c)
      /\ Orderly /\ c \notin refused => Ahead(c) /\ BuiltFor(c) /\ HeadersFollow(c)
  BY ChainParts, Zenon
<1>4. BlocksKept(c) /\ SettingKept(c)
  BY Zenon DEF BlocksKept, SettingKept
<1>5. RollbacksFollow(c)'
  <2>1. CASE msg.type = "Rollback"
    BY <1>1, <1>2, <1>3, <2>1, RollbacksSentRollback, ZenonT(30)
  <2>2. CASE msg.type # "Rollback"
    BY <1>2, <1>3, <2>2, RollbacksSent, ZenonT(30)
  <2> QED BY <2>1, <2>2, ZenonT(30)
<1>6. NumbersFollow(c)'
  BY <1>2, <1>3, <1>4, NumbersKept, ZenonT(30)
<1>7. c \notin refused' => SuperblocksFollow(c)'
  BY <1>3, <1>4, SuperblocksKept, ZenonT(30)
<1>8. ASSUME Orderly', c \notin refused'
      PROVE  Ahead(c)' /\ BuiltFor(c)' /\ HeadersFollow(c)'
  <2>1. Orderly /\ c \notin refused
    BY <1>8, ZenonT(30)
  <2>2. Ahead(c)'
    <3>1. msg.type = "StartPeriod" => Pub!LatestNumber < msg.target
      BY <2>1, ZenonT(30)
    <3>2. msg.type = "Rollback" => msg.number = Pub!LatestNumber
      BY <1>8, ZenonT(30)
    <3> QED BY <1>1, <1>2, <1>3, <2>1, <3>1, <3>2, AheadSent, ZenonT(30)
  <2>3. BuiltFor(c)'
    BY <1>1, <1>2, <1>3, <1>4, <2>1, BuiltForKept, ZenonT(30)
  <2>4. HeadersFollow(c)'
    <3>1. \A m \in Int : m <= Pub!LatestNumber => HeadersOnL1(c, m)' = HeadersOnL1(c, m)
      BY SameHeaders, Zenon
    <3> QED BY <1>1, <1>3, <1>4, <2>1, <3>1, HeadersKept, ZenonT(30)
  <2> QED BY ZenonT(30), <2>2, <2>3, <2>4
<1> QED
  BY <1>5, <1>6, <1>7, <1>8, ChainPartsNext, ZenonT(30)

\* What the oldest message says to its chain.
LEMMA FirstMessage ==
  ASSUME IndInv, OrderInv, NEW c \in Chain, inbox[c] # <<>>, inbox'[c] = Tail(inbox[c]),
         NEW msg, msg = Head(inbox[c])
  PROVE  /\ ~IsControl(msg) => TargetAt(c, Before(msg, 0)) = TargetAt(c, 0)
         /\ msg.type = "StartPeriod" =>
              /\ TargetAt(c, Before(msg, 0)) = msg.target
              /\ msg.period = sequencer[c].period_id + 1
              /\ c \notin refused => msg.target = sequencer[c].target_superblock_number + 1
         /\ msg.type = "Rollback" =>
              /\ TargetAt(c, Before(msg, 0)) = msg.number + 1
              /\ msg.period = sequencer[c].period_id
              /\ 1 \in InFlight(c, {"Rollback"}) /\ inbox[c][1] = msg
<1>1. OrderOK(c) /\ Shapes
  BY OrderOfChains, Basics, ZenonT(30)
<1>2. /\ msg = inbox[c][1] /\ 1 \in DOMAIN inbox[c]
      /\ 0 \in Settings(c) /\ InForce(c, 0, 1)
  BY <1>1, SettingsTaken, ZenonT(30) DEF TakenFirst
<1>3. /\ PeriodAt(c, 0) = sequencer[c].period_id
      /\ TargetAt(c, 0) = sequencer[c].target_superblock_number
      /\ msg.type = "StartPeriod" => TargetAt(c, 1) = msg.target
      /\ msg.type = "Rollback" => TargetAt(c, 1) = msg.number + 1
  BY <1>2 DEF PeriodAt, TargetAt
<1>4. /\ IsControl(msg) => Before(msg, 0) = 1
      /\ ~IsControl(msg) => Before(msg, 0) = 0
  BY DEF Before
<1>5. /\ msg.type = "StartPeriod" => IsControl(msg) /\ 1 \in InFlight(c, {"StartPeriod"})
      /\ msg.type = "Rollback" => IsControl(msg) /\ 1 \in InFlight(c, {"Rollback"})
  BY ZenonT(30), <1>2 DEF IsControl, InFlight
<1>6. /\ msg.type = "StartPeriod" => msg.period = sequencer[c].period_id + 1
      /\ msg.type = "Rollback" => msg.period = sequencer[c].period_id
  BY ZenonT(30), <1>1, <1>2, <1>3 DEF OrderOK, PeriodsFollow
<1>7. msg.type = "StartPeriod" /\ c \notin refused =>
        msg.target = sequencer[c].target_superblock_number + 1
  BY <1>1, <1>2, <1>3, <1>5, ZenonT(30) DEF OrderOK, TargetsFollow
<1> QED
  BY <1>2, <1>3, <1>4, <1>5, <1>6, <1>7, ZenonT(30)

\* The headers on L1 are more with every superblock.
LEMMA HeadersGrow ==
  ASSUME NEW c, NEW m \in Int, NEW n \in Int, m <= n, InitFinalized \in Int
  PROVE  HeadersOnL1(c, m) \subseteq HeadersOnL1(c, n)
<1>1. 1..(m - InitFinalized) \subseteq 1..(n - InitFinalized)
  OBVIOUS
<1> QED
  BY <1>1, ZenonT(30) DEF HeadersOnL1

\* What a Rollback leaves of the sealed blocks.
LEMMA RetainedBlocks ==
  ASSUME NEW c, sequencer[c].settled_state.superblock_number \in Int,
         \A p \in DOMAIN sequencer[c].sealed_block_head :
           sequencer[c].sealed_block_head[p].superblock_number \in Int
  PROVE  LET sealed == sequencer[c].sealed_block_head
             n == sequencer[c].settled_state.superblock_number
         IN
         /\ DOMAIN Retained(c) = {p \in DOMAIN sealed : sealed[p].superblock_number <= n}
         /\ \A p \in DOMAIN Retained(c) : Retained(c)[p] = sealed[p]
<1> PICK sealed : sealed = sequencer[c].sealed_block_head
  BY ZenonT(30)
<1> PICK n : n = sequencer[c].settled_state.superblock_number
  BY ZenonT(30)
<1>1. /\ DOMAIN Retained(c)
           = DOMAIN sealed \ {p \in DOMAIN sealed : sealed[p].superblock_number > n}
      /\ \A p \in DOMAIN Retained(c) : Retained(c)[p] = sealed[p]
  BY ZenonT(30) DEF Retained, RemoveKeys, Restrict
<1>2. \A p \in DOMAIN sealed :
        ~(sealed[p].superblock_number > n) <=> sealed[p].superblock_number <= n
  OBVIOUS
<1>3. DOMAIN Retained(c) = {p \in DOMAIN sealed : sealed[p].superblock_number <= n}
  BY <1>1, <1>2, ZenonT(30)
<1> QED
  BY <1>1, <1>3, ZenonT(30)

\* A block of a superblock up to n, when the target is beyond n, is of an earlier
\* period, also with the lead that a rollback to n starts.
LEMMA OnL1ByRollback ==
  ASSUME NEW p \in Int, NEW at \in Int, NEW target \in Int, NEW of \in Int, NEW n \in Int,
         NEW lead, lead = target - at, NEW new, new = (n + 1) - at, n < target, p <= at,
         of = p + lead \/ p + lead <= n, of <= n
  PROVE  p < at /\ p + new <= n
OBVIOUS

\* A Rollback that the chain takes leaves the blocks that are on L1.
LEMMA ChainRollback ==
  ASSUME IndInv, OrderInv, L1Follows, NEW c \in Chain, ChainHistory(c), NEW msg,
         1 \in InFlight(c, {"Rollback"}), inbox[c][1] = msg,
         msg.period = sequencer[c].period_id, TakesRollback(c, msg),
         UNCHANGED <<contents, l1, last_finalized_superblock_number>>
  PROVE  /\ NumbersFollow(c)'
         /\ c \notin refused => SuperblocksFollow(c)'
         /\ Orderly /\ c \notin refused => BuiltFor(c)' /\ HeadersFollow(c)'
<1> PICK s : s = sequencer[c]
  BY ZenonT(60)
<1> PICK sealed : sealed = s.sealed_block_head
  BY ZenonT(30)
<1> PICK settled : settled = s.settled_state
  BY ZenonT(30)
<1> PICK next : next = sequencer'[c]
  BY ZenonT(30)
<1> PICK n : n = msg.number
  BY ZenonT(30)
<1>1. /\ s.period_id \in Int /\ s.target_superblock_number \in Int
      /\ TargetAt(c, 0) = s.target_superblock_number /\ 0 \in Settings(c)
  BY ChainNumbers, Zenon
<1>2. /\ NumbersFollow(c) /\ RollbacksFollow(c)
      /\ c \notin refused => SuperblocksFollow(c)
      /\ Orderly /\ c \notin refused => Ahead(c) /\ BuiltFor(c) /\ HeadersFollow(c)
  BY ChainParts, Zenon
<1>3. /\ 1 \in InFlight(c, {"Rollback"}) /\ msg = inbox[c][1]
      /\ msg.period = s.period_id
  BY Zenon
<1>4. /\ next.pending_block = None /\ next.head = settled.block_header.number
      /\ next.period_id = s.period_id
      /\ next.target_superblock_number = n + 1
      /\ next.settled_state = settled
      /\ next.sealed_block_head = Retained(c)
      /\ n = settled.superblock_number
  BY <1>3, Zenon DEF TakesRollback, AtFinalized
<1>5. n \in Int /\ n <= last_finalized_superblock_number
  BY <1>2, <1>3, ZenonT(30) DEF RollbacksFollow
<1>6. \A p \in DOMAIN sealed :
        /\ p \in Int /\ p <= s.period_id /\ sealed[p].period_id = p
        /\ sealed[p].superblock_number \in Int
  BY <1>2, ZenonT(30) DEF NumbersFollow
<1>7. /\ DOMAIN next.sealed_block_head
           = {p \in DOMAIN sealed : sealed[p].superblock_number <= n}
      /\ \A p \in DOMAIN next.sealed_block_head : next.sealed_block_head[p] = sealed[p]
  <2>1. /\ sealed = sequencer[c].sealed_block_head
        /\ n = sequencer[c].settled_state.superblock_number
        /\ \A p \in DOMAIN sealed : sealed[p].superblock_number \in Int
    BY <1>4, <1>6, ZenonT(30)
  <2>2. /\ DOMAIN Retained(c) = {p \in DOMAIN sealed : sealed[p].superblock_number <= n}
        /\ \A p \in DOMAIN Retained(c) : Retained(c)[p] = sealed[p]
    BY <1>5, <2>1, RetainedBlocks, ZenonT(30)
  <2> QED BY <1>4, <2>2, ZenonT(30)
<1>8. NumbersFollow(c)'
  BY <1>4, <1>6, <1>7, ZenonT(30) DEF NumbersFollow
<1>9. ASSUME c \notin refused PROVE SuperblocksFollow(c)'
  <2>1. \A p \in DOMAIN next.sealed_block_head :
          /\ next.sealed_block_head[p].superblock_number <= n + 1
          /\ next.sealed_block_head[p].superblock_number < n + 1
    BY <1>5, <1>6, <1>7
  <2>2. \A p, q \in DOMAIN sealed : p < q =>
          sealed[p].superblock_number < sealed[q].superblock_number
    BY <1>2, <1>9, ZenonT(30) DEF SuperblocksFollow
  <2>3. \A p, q \in DOMAIN next.sealed_block_head : p < q =>
          next.sealed_block_head[p].superblock_number
            < next.sealed_block_head[q].superblock_number
    BY <1>7, <2>2
  <2> QED BY <1>4, <2>1, <2>3, ZenonT(30) DEF SuperblocksFollow
<1>10. ASSUME Orderly, c \notin refused
       PROVE  /\ n = Pub!LatestNumber /\ n = last_finalized_superblock_number
              /\ Ahead(c) /\ BuiltFor(c) /\ HeadersFollow(c)
              /\ Pub!LatestNumber' = Pub!LatestNumber /\ n < s.target_superblock_number
  <2>1. n = Pub!LatestNumber /\ Pub!LatestNumber < s.target_superblock_number
    BY <1>1, <1>2, <1>3, <1>10, ZenonT(30) DEF Ahead
  <2>2. last_finalized_superblock_number \in Int
        /\ last_finalized_superblock_number <= Pub!LatestNumber
    BY HistoryNumbers, ZenonT(30)
  <2>3. n = last_finalized_superblock_number
    BY SMTT(30), <1>5, <2>1, <2>2
  <2>4. Pub!LatestNumber' = Pub!LatestNumber
    BY ZenonT(60) DEF Pub!LatestNumber
  <2> QED BY <1>2, <1>10, <2>1, <2>3, <2>4, ZenonT(30)

<1>11. ASSUME Orderly, c \notin refused PROVE BuiltFor(c)'
  <2> PICK lead : lead = s.target_superblock_number - s.period_id
    BY ZenonT(60)
  <2> PICK new : new = next.target_superblock_number - next.period_id
    BY ZenonT(60)
  <2>1. lead \in Int /\ new \in Int /\ new = (n + 1) - s.period_id
    BY SMTT(30), <1>1, <1>4, <1>5
  <2>2. \A p \in DOMAIN sealed :
          sealed[p].superblock_number = p + lead \/ p + lead <= n
    BY <1>10, <1>11, ZenonT(30) DEF BuiltFor
  <2>3. n < s.target_superblock_number
    BY <1>10, <1>11, ZenonT(30)
  <2>4. \A p \in DOMAIN sealed : sealed[p].superblock_number <= n =>
          p < s.period_id /\ p + new <= n
    <3> TAKE p \in DOMAIN sealed
    <3>1. /\ p \in Int /\ p <= s.period_id /\ sealed[p].superblock_number \in Int
          /\ sealed[p].superblock_number = p + lead \/ p + lead <= n
      BY <1>6, <2>2, ZenonT(30)
    <3>2. /\ s.period_id \in Int /\ s.target_superblock_number \in Int
          /\ n \in Int /\ new = (n + 1) - s.period_id /\ n < s.target_superblock_number
      BY <1>1, <1>5, <2>1, <2>3, ZenonT(30)
    <3> HAVE sealed[p].superblock_number <= n
    <3> QED BY SMTT(30), <3>1, <3>2, OnL1ByRollback
  <2>5. \A p \in DOMAIN next.sealed_block_head :
          /\ next.sealed_block_head[p].superblock_number <= n /\ p + new <= n
    BY ZenonT(60), <1>7, <2>4
  <2>6. n = last_finalized_superblock_number'
    BY <1>10, <1>11, ZenonT(30)
  <2> QED BY <1>4, <2>5, <2>6, ZenonT(30) DEF BuiltFor
<1>12. ASSUME Orderly, c \notin refused PROVE HeadersFollow(c)'
  <2> PICK top : top = settled.block_header.number
    BY Zenon
  <2>1. HeadersFollow(c) /\ n = Pub!LatestNumber /\ Pub!LatestNumber' = Pub!LatestNumber
        /\ InitFinalized \in Int /\ InitBlock \in Int
    BY <1>10, <1>12, HistoryNumbers
  <2>2. /\ s.head \in Int
        /\ n \in InitFinalized..n
        /\ top \in InitBlock..s.head
        /\ \A h \in HeadersOnL1(c, n) : h.number <= top
        /\ \A h \in HeadersOnL1(c, n) : h.number \in InitBlock..s.head
        /\ \A m \in InitFinalized..n : HeadersOnL1(c, m) # {} =>
             \E h \in HeadersOnL1(c, m) : \A g \in HeadersOnL1(c, m) : g.number <= h.number
        /\ \A p \in DOMAIN sealed :
             /\ sealed[p].block_header # None
             /\ sealed[p].superblock_number <= n =>
                  sealed[p].block_header \in HeadersOnL1(c, sealed[p].superblock_number)
             /\ \A q \in DOMAIN sealed : p < q =>
                  sealed[p].block_header.number < sealed[q].block_header.number
    BY <1>4, <2>1, ZenonT(30)
       DEF HeadersFollow, SettledHeaders, L1Headers, SealedHeaders
  <2>3. \A h \in HeadersOnL1(c, n) : h.number \in InitBlock..top
    BY SMTT(30), <2>1, <2>2
  <2>4. top \in Int /\ top \in InitBlock..top
    BY <2>1, <2>2
  <2>5. ASSUME NEW p \in DOMAIN next.sealed_block_head
        PROVE  /\ next.sealed_block_head[p].block_header # None
               /\ next.sealed_block_head[p].block_header.number \in InitBlock..top
               /\ next.sealed_block_head[p].block_header
                    \in HeadersOnL1(c, next.sealed_block_head[p].superblock_number)
               /\ \A q \in DOMAIN next.sealed_block_head : p < q =>
                    next.sealed_block_head[p].block_header.number
                      < next.sealed_block_head[q].block_header.number
    <3>1. p \in DOMAIN sealed /\ sealed[p].superblock_number <= n
          /\ next.sealed_block_head[p] = sealed[p]
      BY ZenonT(30), <1>7
    <3>2. HeadersOnL1(c, sealed[p].superblock_number) \subseteq HeadersOnL1(c, n)
      BY <1>5, <1>6, <2>1, <3>1, HeadersGrow, ZenonT(30)
    <3>3. \A q \in DOMAIN next.sealed_block_head :
            q \in DOMAIN sealed /\ next.sealed_block_head[q] = sealed[q]
      BY ZenonT(30), <1>7
    <3> QED BY <2>2, <2>3, <3>1, <3>2, <3>3, ZenonT(30)
  <2>6. \A m : HeadersOnL1(c, m)' = HeadersOnL1(c, m)
    BY SameHeaders, ZenonT(30)
  <2>7. HeadersOnL1(c, Pub!LatestNumber)' = HeadersOnL1(c, n)
    <3>1. HeadersOnL1(c, Pub!LatestNumber)' = {pf.header : pf \in
            {q \in UNION {contents'[l1'[k]] : k \in 1..(Pub!LatestNumber' - InitFinalized)} :
               q.chain = c /\ q.header # None}}
      BY Zenon DEF HeadersOnL1
    <3> QED BY <2>1, <3>1, ZenonT(30) DEF HeadersOnL1
  <2>8. /\ next.head \in Int /\ next.pending_block = None
        /\ next.settled_state.superblock_number \in InitFinalized..Pub!LatestNumber'
        /\ next.settled_state.block_header.number \in InitBlock..next.head
        /\ \A h \in HeadersOnL1(c, next.settled_state.superblock_number) :
             h.number <= next.settled_state.block_header.number
    BY <1>4, <2>1, <2>2, <2>4, ZenonT(30)
  <2>9. /\ \A h \in HeadersOnL1(c, Pub!LatestNumber)' : h.number \in InitBlock..next.head
        /\ \A m \in InitFinalized..Pub!LatestNumber' : HeadersOnL1(c, m) # {} =>
             \E h \in HeadersOnL1(c, m) : \A g \in HeadersOnL1(c, m) : g.number <= h.number
    BY <1>4, <2>1, <2>2, <2>3, <2>7, ZenonT(30)
  <2>10. \A p \in DOMAIN next.sealed_block_head :
           next.sealed_block_head[p].block_header.number \in InitBlock..next.head
    BY <1>4, <2>5, ZenonT(30)
  <2>11. SettledHeaders(c)'
    BY <2>6, <2>8, ZenonT(30) DEF SettledHeaders
  <2>12. L1Headers(c)'
    BY <2>6, <2>8, <2>9, ZenonT(30) DEF L1Headers
  <2>13. SealedHeaders(c)'
    BY <2>5, <2>6, <2>10, ZenonT(30) DEF SealedHeaders
  <2> QED BY <2>11, <2>12, <2>13, Zenon DEF HeadersFollow
<1> QED
  BY <1>8, <1>9, <1>11, <1>12, ZenonT(30)


\* A StartPeriod ends the period of the blocks so far.
LEMMA SuperblocksStartPeriod ==
  ASSUME NEW c \in Chain, SuperblocksFollow(c), NumbersFollow(c), BlocksKept(c),
         sequencer[c].target_superblock_number \in Int,
         sequencer'[c].target_superblock_number = sequencer[c].target_superblock_number + 1
  PROVE  SuperblocksFollow(c)'
<1> PICK s : s = sequencer[c]
  BY ZenonT(60)
<1> PICK t : t = s.target_superblock_number
  BY ZenonT(60)
<1>1. s.pending_block # None =>
        /\ s.pending_block.superblock_number \in Int
        /\ s.pending_block.superblock_number <= t
  BY Zenon DEF SuperblocksFollow, NumbersFollow
<1>2. \A p \in DOMAIN s.sealed_block_head :
        /\ s.sealed_block_head[p].superblock_number \in Int
        /\ s.sealed_block_head[p].superblock_number <= t
  BY ZenonT(30) DEF SuperblocksFollow, NumbersFollow
<1>3. s.pending_block # None =>
        /\ s.pending_block.superblock_number <= t + 1
        /\ s.pending_block.superblock_number < t + 1
  BY SMTT(30), <1>1
<1>4. \A p \in DOMAIN s.sealed_block_head :
        /\ s.sealed_block_head[p].superblock_number <= t + 1
        /\ s.sealed_block_head[p].superblock_number < t + 1
  BY <1>2
<1> QED
  BY <1>3, <1>4, ZenonT(30) DEF SuperblocksFollow, BlocksKept

\* A chain takes its oldest message.
LEMMA ChainTaken ==
  ASSUME IndInv, OrderInv, L1Follows, NEW c \in Chain, ChainHistory(c), NEW msg,
         inbox[c] # <<>>, inbox'[c] = Tail(inbox[c]), msg = Head(inbox[c]),
         UNCHANGED <<epoch, l1, last_finalized_superblock_number, contents, overtaken>>,
         \/ msg.type = "StartPeriod" /\ TakesStartPeriod(c, msg)
         \/ msg.type = "StartInstance" /\ TakesStartInstance(c, msg)
         \/ msg.type = "Rollback" /\ (TakesRollback(c, msg) \/ RefusesRollback(c))
         \/ ~IsControl(msg) /\ TakesNothing(c)
  PROVE  ChainHistory(c)'
<1>1. /\ last_finalized_superblock_number \in Int /\ Pub!LatestNumber \in Int
      /\ InitFinalized \in Int
      /\ last_finalized_superblock_number <= last_finalized_superblock_number
  <2>1. /\ last_finalized_superblock_number \in Int /\ Pub!LatestNumber \in Int
        /\ InitFinalized \in Nat
    BY HistoryNumbers, ZenonT(30)
  <2> QED BY <2>1
<1>2. /\ sequencer[c].period_id \in Int /\ sequencer[c].target_superblock_number \in Int
      /\ TargetAt(c, 0) = sequencer[c].target_superblock_number
      /\ Shapes
  BY ChainNumbers, Basics, ZenonT(30)
<1>3. /\ RollbacksFollow(c)
      /\ NumbersFollow(c)
      /\ c \notin refused => SuperblocksFollow(c)
      /\ Orderly /\ c \notin refused => Ahead(c) /\ BuiltFor(c) /\ HeadersFollow(c)
  BY ChainParts, ZenonT(30)
<1>4. /\ ~IsControl(msg) => TargetAt(c, Before(msg, 0)) = TargetAt(c, 0)
      /\ msg.type = "StartPeriod" =>
           /\ TargetAt(c, Before(msg, 0)) = msg.target
           /\ msg.period = sequencer[c].period_id + 1
           /\ c \notin refused => msg.target = sequencer[c].target_superblock_number + 1
      /\ msg.type = "Rollback" =>
           /\ TargetAt(c, Before(msg, 0)) = msg.number + 1
           /\ msg.period = sequencer[c].period_id
           /\ 1 \in InFlight(c, {"Rollback"}) /\ inbox[c][1] = msg
  BY FirstMessage, ZenonT(30)
<1>5. /\ Orderly' <=> Orderly
      /\ c \in refused => c \in refused'
  BY Zenon DEF Orderly, TakesStartPeriod, TakesStartInstance, TakesRollback,
               RefusesRollback, TakesNothing
<1>6. \A m \in Int : m <= Pub!LatestNumber => HeadersOnL1(c, m)' = HeadersOnL1(c, m)
  BY SameHeaders, ZenonT(30)
<1>7. CASE msg.type = "Rollback" /\ TakesRollback(c, msg)
  <2>1. /\ origin'[c] = msg.epoch /\ refused' = refused
        /\ sequencer'[c].target_superblock_number = msg.number + 1
    BY <1>7, Zenon DEF TakesRollback
  <2>2. RollbacksFollow(c)'
    BY <1>2, <1>3, <1>5, <1>7, <2>1, RollbacksTaken, ZenonT(30)
  <2>3. /\ NumbersFollow(c)'
        /\ c \notin refused => SuperblocksFollow(c)'
        /\ Orderly /\ c \notin refused => BuiltFor(c)' /\ HeadersFollow(c)'
    BY <1>4, <1>7, ChainRollback, ZenonT(30)
  <2>4. Orderly /\ c \notin refused => Ahead(c)'
    BY <1>2, <1>3, <1>4, <1>7, <2>1, AheadTaken, ZenonT(30)
  <2> QED BY <1>5, <2>1, <2>2, <2>3, <2>4, ChainPartsNext, ZenonT(30)
<1>8. CASE msg.type = "Rollback" /\ RefusesRollback(c)
  <2>1. /\ origin' = origin /\ c \in refused' /\ sequencer' = sequencer
    BY <1>8, ZenonT(30) DEF RefusesRollback
  <2>2. RollbacksFollow(c)'
    BY <1>2, <1>3, <1>5, <1>8, <2>1, RollbacksTaken, ZenonT(30)
  <2>3. NumbersFollow(c)'
    BY <1>3, <2>1, ZenonT(30) DEF NumbersFollow
  <2> QED BY <2>1, <2>2, <2>3, ChainPartsNext, ZenonT(30)
<1>9. CASE msg.type = "StartPeriod" /\ TakesStartPeriod(c, msg)
  <2>1. /\ origin' = origin /\ refused' = refused /\ BlocksKept(c)
        /\ sequencer'[c].settled_state = sequencer[c].settled_state
        /\ sequencer'[c].period_id = sequencer[c].period_id + 1
        /\ sequencer'[c].target_superblock_number = msg.target
    BY <1>4, <1>9, ZenonT(30) DEF TakesStartPeriod
  <2>2. RollbacksFollow(c)'
    <3>1. msg.type # "Rollback"
      BY ZenonT(30), <1>9
    <3> QED BY <1>2, <1>3, <1>5, <2>1, <3>1, RollbacksTaken, ZenonT(30)
  <2>3. NumbersFollow(c)'
    <3>1. sequencer'[c].period_id \in Int
          /\ sequencer[c].period_id <= sequencer'[c].period_id
      BY SMTT(30), <1>2, <2>1
    <3> QED BY <1>2, <1>3, <2>1, <3>1, NumbersKept, ZenonT(30)
  <2>4. c \notin refused' => SuperblocksFollow(c)'
    BY <1>2, <1>3, <1>4, <1>9, <2>1, SuperblocksStartPeriod, ZenonT(30)
  <2>5. ASSUME Orderly, c \notin refused
        PROVE  Ahead(c)' /\ BuiltFor(c)' /\ HeadersFollow(c)'
    <3>1. Ahead(c)'
      BY <1>2, <1>3, <1>4, <1>9, <2>1, <2>5, AheadTaken, ZenonT(30)
    <3>2. sequencer'[c].target_superblock_number - sequencer'[c].period_id
            = sequencer[c].target_superblock_number - sequencer[c].period_id
      <4>1. sequencer'[c].target_superblock_number
              = sequencer[c].target_superblock_number + 1
        BY <1>4, <1>9, <2>1, <2>5, ZenonT(30)
      <4> QED BY SMTT(30), <1>2, <2>1, <4>1
    <3>3. BuiltFor(c)'
      BY <1>1, <1>2, <1>3, <2>1, <2>5, <3>2, BuiltForKept, ZenonT(30)
    <3>4. HeadersFollow(c)'
      BY <1>1, <1>3, <1>6, <2>1, <2>5, HeadersKept, ZenonT(30)
    <3> QED BY <3>1, <3>3, <3>4, ZenonT(30)
  <2> QED BY <1>5, <2>1, <2>2, <2>3, <2>4, <2>5, ChainPartsNext, ZenonT(30)
<1>10. CASE \/ msg.type = "StartInstance" /\ TakesStartInstance(c, msg)
            \/ ~IsControl(msg) /\ TakesNothing(c)
  <2>1. ~IsControl(msg) /\ msg.type # "Rollback"
    BY ZenonT(30), <1>10 DEF IsControl
  <2>2. /\ origin' = origin /\ refused' = refused /\ BlocksKept(c) /\ SettingKept(c)
        /\ sequencer'[c].settled_state = sequencer[c].settled_state
        /\ sequencer'[c].period_id = sequencer[c].period_id
        /\ sequencer'[c].target_superblock_number = sequencer[c].target_superblock_number
    BY <1>10, ZenonT(30) DEF TakesStartInstance, TakesNothing, SettingKept
  <2>3. RollbacksFollow(c)'
    BY <1>2, <1>3, <1>5, <2>1, <2>2, RollbacksTaken, ZenonT(30)
  <2>4. NumbersFollow(c)'
    <3>1. sequencer[c].period_id <= sequencer[c].period_id
      BY <1>2
    <3> QED BY <1>2, <1>3, <2>2, <3>1, NumbersKept, ZenonT(30)
  <2>5. c \notin refused' => SuperblocksFollow(c)'
    BY <1>3, <2>2, SuperblocksKept, ZenonT(30)
  <2>6. ASSUME Orderly, c \notin refused
        PROVE  Ahead(c)' /\ BuiltFor(c)' /\ HeadersFollow(c)'
    <3>1. Ahead(c)'
      BY <1>2, <1>3, <1>4, <2>1, <2>2, <2>6, AheadTaken, ZenonT(30)
    <3>2. BuiltFor(c)'
      BY <1>1, <1>2, <1>3, <2>2, <2>6, BuiltForKept, ZenonT(30)
    <3>3. HeadersFollow(c)'
      BY <1>1, <1>3, <1>6, <2>2, <2>6, HeadersKept, ZenonT(30)
    <3> QED BY <3>1, <3>2, <3>3, Zenon
  <2> QED BY <1>5, <2>2, <2>3, <2>4, <2>5, <2>6, ChainPartsNext, ZenonT(30)
<1> QED
  BY <1>7, <1>8, <1>9, <1>10, ZenonT(30)


\* What of a chain's history is not of its blocks, in a step that takes no message.
LEMMA BuildsOn ==
  ASSUME IndInv, OrderInv, L1Follows, NEW c \in Chain, ChainHistory(c), SettingKept(c),
         UNCHANGED <<inbox, origin, epoch, l1, last_finalized_superblock_number, refused,
                     overtaken>>,
         NumbersFollow(c)', c \notin refused => SuperblocksFollow(c)',
         Orderly /\ c \notin refused => BuiltFor(c)' /\ HeadersFollow(c)'
  PROVE  ChainHistory(c)'
<1>1. /\ last_finalized_superblock_number \in Int
      /\ last_finalized_superblock_number <= last_finalized_superblock_number
  BY HistoryNumbers
<1>2. RollbacksFollow(c) /\ (Orderly /\ c \notin refused => Ahead(c))
  BY ChainParts, ZenonT(30)
<1>3. RollbacksFollow(c)'
  BY <1>1, <1>2, RollbacksKept, ZenonT(30)
<1>4. Orderly' <=> Orderly
  BY Zenon DEF Orderly
<1>5. Orderly /\ c \notin refused => Ahead(c)'
  BY <1>2, AheadKept, ZenonT(30) DEF SettingKept
<1> QED
  BY <1>3, <1>4, <1>5, ChainPartsNext, ZenonT(30)

\* begin_block opens a block of the chain's period and target.
LEMMA ChainBegins ==
  ASSUME IndInv, OrderInv, L1Follows, NEW c \in Chain, ChainHistory(c), SettingKept(c),
         Begins(c),
         UNCHANGED <<inbox, origin, epoch, l1, last_finalized_superblock_number, refused,
                     overtaken, contents>>
  PROVE  ChainHistory(c)'
<1> PICK s : s = sequencer[c]
  BY ZenonT(30)
<1> PICK next : next = sequencer'[c]
  BY ZenonT(30)
<1>1. /\ next.pending_block.number = s.head + 1
      /\ next.pending_block.period_id = s.period_id
      /\ next.pending_block.superblock_number = s.target_superblock_number
      /\ next.head = s.head /\ next.sealed_block_head = s.sealed_block_head
      /\ next.settled_state = s.settled_state /\ next.period_id = s.period_id
      /\ next.target_superblock_number = s.target_superblock_number
  BY DEF Begins, PendingBlock, SettingKept
<1>2. /\ s.period_id \in Int /\ s.target_superblock_number \in Int
      /\ TargetAt(c, 0) = s.target_superblock_number /\ 0 \in Settings(c)
  BY ChainNumbers, ZenonT(30)
<1>3. /\ s.period_id <= s.period_id /\ ~(s.period_id < s.period_id)
      /\ s.target_superblock_number <= s.target_superblock_number
  BY SMTT(30), <1>2
<1>4. /\ NumbersFollow(c)
      /\ c \notin refused => SuperblocksFollow(c)
      /\ Orderly /\ c \notin refused => Ahead(c) /\ BuiltFor(c) /\ HeadersFollow(c)
  BY ChainParts, ZenonT(30)
<1>5. NumbersFollow(c)'
  BY <1>1, <1>2, <1>3, <1>4, ZenonT(30) DEF NumbersFollow
<1>6. c \notin refused => SuperblocksFollow(c)'
  BY <1>1, <1>3, <1>4, ZenonT(30) DEF SuperblocksFollow
<1>7. Pub!LatestNumber' = Pub!LatestNumber /\ Pub!LatestNumber \in Int
  BY ZenonT(60), HistoryNumbers DEF Pub!LatestNumber
<1>8. ASSUME Orderly, c \notin refused PROVE BuiltFor(c)'
  <2>1. Pub!LatestNumber < s.target_superblock_number
    BY <1>2, <1>4, <1>8, ZenonT(30) DEF Ahead
  <2>2. s.target_superblock_number > Pub!LatestNumber
    BY ZenonT(30), <1>2, <1>7, <2>1
  <2>3. /\ next.pending_block.superblock_number - next.pending_block.period_id
             = next.target_superblock_number - next.period_id
        /\ next.pending_block.superblock_number > Pub!LatestNumber'
    BY <1>1, <1>7, <2>2, ZenonT(30)
  <2> QED BY <1>1, <1>4, <1>8, <2>3, ZenonT(30) DEF BuiltFor
<1>9. ASSUME Orderly, c \notin refused PROVE HeadersFollow(c)'
  <2>1. HeadersFollow(c)
    BY <1>4, <1>9, Zenon
  <2>2. \A m : HeadersOnL1(c, m)' = HeadersOnL1(c, m)
    BY SameHeaders, Zenon
  <2>3. HeadersOnL1(c, Pub!LatestNumber)' = HeadersOnL1(c, Pub!LatestNumber)
    BY <1>7, SameLatest, Zenon
  <2>4. SettledHeaders(c) /\ L1Headers(c) /\ SealedHeaders(c)
    BY <2>1, Zenon DEF HeadersFollow
  <2>5. SettledHeaders(c)'
    BY <1>1, <1>7, <2>2, <2>4, ZenonT(30) DEF SettledHeaders
  <2>6. L1Headers(c)'
    BY <1>1, <1>7, <2>2, <2>3, <2>4, ZenonT(30) DEF L1Headers
  <2>7. SealedHeaders(c)'
    BY <1>1, <1>7, <2>2, <2>4, ZenonT(30) DEF SealedHeaders
  <2> QED BY <2>5, <2>6, <2>7, Zenon DEF HeadersFollow
<1> QED
  BY <1>5, <1>6, <1>8, <1>9, BuildsOn, ZenonT(30)

\* advance_settled_state takes the chain's last block up to superblock n on L1.
LEMMA ChainAdvances ==
  ASSUME IndInv, OrderInv, L1Follows, NEW c \in Chain, ChainHistory(c), SettingKept(c),
         NEW n \in (InitFinalized + 1)..Pub!LatestNumber, Advances(c, n),
         UNCHANGED <<inbox, origin, epoch, l1, last_finalized_superblock_number, refused,
                     overtaken, contents>>
  PROVE  ChainHistory(c)'
<1> PICK s : s = sequencer[c]
  BY ZenonT(30)
<1> PICK next : next = sequencer'[c]
  BY ZenonT(30)
<1>1. /\ next.settled_state.block_header = SettledHeader(c, n)
      /\ next.settled_state.superblock_number = n
      /\ BlocksKept(c)
  BY DEF Advances
<1>2. /\ next.pending_block = s.pending_block /\ next.head = s.head
      /\ next.sealed_block_head = s.sealed_block_head /\ next.period_id = s.period_id
      /\ next.target_superblock_number = s.target_superblock_number
  BY <1>1, ZenonT(30) DEF BlocksKept, SettingKept
<1>3. /\ NumbersFollow(c)
      /\ c \notin refused => SuperblocksFollow(c)
      /\ Orderly /\ c \notin refused => BuiltFor(c) /\ HeadersFollow(c)
  BY ChainParts, ZenonT(30)
<1>4. NumbersFollow(c)'
  BY <1>2, <1>3, ZenonT(30) DEF NumbersFollow
<1>5. c \notin refused => SuperblocksFollow(c)'
  BY <1>1, <1>3, SuperblocksKept, ZenonT(30)
<1>6. /\ Pub!LatestNumber' = Pub!LatestNumber /\ Pub!LatestNumber \in Int
      /\ InitFinalized \in Int /\ InitBlock \in Int /\ n \in Int /\ n <= Pub!LatestNumber
      /\ n \in InitFinalized..Pub!LatestNumber
  BY HistoryNumbers DEF Pub!LatestNumber
<1>7. Orderly /\ c \notin refused => BuiltFor(c)'
  BY <1>2, <1>3, <1>6, ZenonT(30) DEF BuiltFor
<1>8. ASSUME Orderly, c \notin refused PROVE HeadersFollow(c)'
  <2>1. HeadersFollow(c)
    BY <1>3, <1>8, Zenon
  <2>2. /\ HeadersOnL1(c, n) \subseteq HeadersOnL1(c, Pub!LatestNumber)
        /\ \A h \in HeadersOnL1(c, Pub!LatestNumber) : h.number \in InitBlock..s.head
        /\ HeadersOnL1(c, n) # {} =>
             \E h \in HeadersOnL1(c, n) : \A g \in HeadersOnL1(c, n) : g.number <= h.number
        /\ s.settled_state.block_header.number \in InitBlock..s.head /\ s.head \in Int
    BY <1>6, <2>1, HeadersGrow, Zenon
       DEF HeadersFollow, SettledHeaders, L1Headers, SealedHeaders
  <2>3. InitBlock \in InitBlock..s.head
    BY SMTT(30), <1>6, <2>2
  <2>4. /\ SettledHeader(c, n).number \in InitBlock..s.head
        /\ \A h \in HeadersOnL1(c, n) : h.number <= SettledHeader(c, n).number
    <3>1. CASE HeadersOnL1(c, n) = {}
      <4>1. SettledHeader(c, n).number = InitBlock
        BY ZenonT(30), <3>1 DEF SettledHeader, SettledAtStart
      <4> QED BY <2>3, <3>1, <4>1, ZenonT(30)
    <3>2. CASE HeadersOnL1(c, n) # {}
      <4>1. /\ SettledHeader(c, n) \in HeadersOnL1(c, n)
            /\ \A g \in HeadersOnL1(c, n) : g.number <= SettledHeader(c, n).number
        BY <2>2, <3>2, ZenonT(30) DEF SettledHeader
      <4> QED BY <2>2, <4>1, ZenonT(30)
    <3> QED BY <3>1, <3>2, ZenonT(30)
  <2>5. \A m : HeadersOnL1(c, m)' = HeadersOnL1(c, m)
    BY SameHeaders, ZenonT(30)
  <2>6. HeadersOnL1(c, Pub!LatestNumber)' = HeadersOnL1(c, Pub!LatestNumber)
    BY <1>6, SameLatest, ZenonT(30)
  <2>7. /\ next.settled_state.superblock_number \in InitFinalized..Pub!LatestNumber
        /\ next.settled_state.block_header.number \in InitBlock..next.head
        /\ \A h \in HeadersOnL1(c, next.settled_state.superblock_number) :
             h.number <= next.settled_state.block_header.number
    BY <1>1, <1>2, <1>6, <2>4, ZenonT(30)
  <2>8. /\ next.head \in Int
        /\ next.pending_block # None => next.pending_block.number = next.head + 1
        /\ \A h \in HeadersOnL1(c, Pub!LatestNumber) : h.number \in InitBlock..next.head
        /\ \A m \in InitFinalized..Pub!LatestNumber : HeadersOnL1(c, m) # {} =>
             \E h \in HeadersOnL1(c, m) : \A g \in HeadersOnL1(c, m) : g.number <= h.number
    BY <1>2, <2>1, ZenonT(30) DEF HeadersFollow, L1Headers
  <2>9. \A p \in DOMAIN next.sealed_block_head :
          LET sealed == next.sealed_block_head IN
          /\ sealed[p].block_header # None
          /\ sealed[p].block_header.number \in InitBlock..next.head
          /\ sealed[p].superblock_number <= Pub!LatestNumber =>
               sealed[p].block_header \in HeadersOnL1(c, sealed[p].superblock_number)
          /\ \A q \in DOMAIN sealed : p < q =>
               sealed[p].block_header.number < sealed[q].block_header.number
    BY <1>2, <2>1, ZenonT(30) DEF HeadersFollow, SealedHeaders
  <2>10. SettledHeaders(c)'
    BY <1>6, <2>5, <2>7, ZenonT(30) DEF SettledHeaders
  <2>11. L1Headers(c)'
    BY <1>6, <2>5, <2>6, <2>8, ZenonT(30) DEF L1Headers
  <2>12. SealedHeaders(c)'
    BY <1>6, <2>5, <2>9, ZenonT(30) DEF SealedHeaders
  <2> QED BY <2>10, <2>11, <2>12, Zenon DEF HeadersFollow
<1> QED
  BY <1>4, <1>5, <1>7, <1>8, BuildsOn, Zenon


\* end_block seals the open block, of a superblock that L1 does not have yet.
LEMMA ChainEnds ==
  ASSUME IndInv, OrderInv, L1Follows, NEW c \in Chain, ChainHistory(c), SettingKept(c),
         Ends(c),
         UNCHANGED <<inbox, origin, epoch, l1, last_finalized_superblock_number, refused,
                     overtaken, contents>>
  PROVE  ChainHistory(c)'
<1> PICK s : s = sequencer[c]
  OBVIOUS
<1> PICK next : next = sequencer'[c]
  OBVIOUS
<1> PICK block : block = s.pending_block
  BY ZenonT(30)
<1> PICK sealed : sealed = s.sealed_block_head
  BY ZenonT(30)
<1> PICK after : after = next.sealed_block_head
  BY ZenonT(30)
<1> PICK at : at = block.period_id
  BY ZenonT(30)
<1> PICK header : header = [number |-> block.number,
                            hash |-> [superblock |-> block.superblock_number,
                                      origin |-> origin[c]]]
  BY Zenon
<1>1. /\ block # None /\ next.pending_block = None /\ next.head = block.number
      /\ next.settled_state = s.settled_state /\ next.period_id = s.period_id
      /\ next.target_superblock_number = s.target_superblock_number
      /\ after = Insert(sealed, at, [block_header |-> header, period_id |-> at,
                                     superblock_number |-> block.superblock_number])
  BY ZenonT(30) DEF Ends, SettingKept, SealedBlockHeader, BlockHash
<1>2. /\ DOMAIN after = DOMAIN sealed \cup {at} /\ at \in DOMAIN after
      /\ \A p \in DOMAIN after : p # at => p \in DOMAIN sealed /\ after[p] = sealed[p]
      /\ after[at].block_header = header
      /\ after[at].period_id = at
      /\ after[at].superblock_number = block.superblock_number
  <2>1. /\ DOMAIN after = DOMAIN sealed \cup {at}
        /\ \A p \in DOMAIN after : p # at => p \in DOMAIN sealed /\ after[p] = sealed[p]
        /\ after[at] = [block_header |-> header, period_id |-> at,
                        superblock_number |-> block.superblock_number]
    <3>1. PICK v : v = [block_header |-> header, period_id |-> at,
                        superblock_number |-> block.superblock_number]
      BY Zenon
    <3>2. after = [p \in DOMAIN sealed \cup {at} |-> IF p = at THEN v ELSE sealed[p]]
      BY <1>1, <3>1, Zenon DEF Insert
    <3>3. /\ DOMAIN after = DOMAIN sealed \cup {at}
          /\ \A p \in DOMAIN sealed \cup {at} : after[p] = IF p = at THEN v ELSE sealed[p]
      BY <3>2, Zenon
    <3> QED BY <3>1, <3>3, Zenon
  <2> QED BY SMTT(30), <2>1
<1>3. /\ header.number = block.number
      /\ header.hash = [superblock |-> block.superblock_number, origin |-> origin[c]]
  BY Zenon
<1>4. /\ s.period_id \in Int /\ s.target_superblock_number \in Int
  BY ChainNumbers, ZenonT(30)
<1>5. /\ NumbersFollow(c) /\ RollbacksFollow(c)
      /\ c \notin refused => SuperblocksFollow(c)
      /\ Orderly /\ c \notin refused => BuiltFor(c) /\ HeadersFollow(c)
  BY ChainParts, ZenonT(30)
<1>6. /\ at \in Int /\ block.superblock_number \in Int /\ at <= s.period_id
      /\ \A p \in DOMAIN sealed :
           /\ p \in Int /\ p <= s.period_id /\ p <= at
           /\ sealed[p].period_id = p
           /\ sealed[p].superblock_number \in Int
  BY <1>1, <1>5, ZenonT(30) DEF NumbersFollow
<1>7. ASSUME NEW p \in DOMAIN after, NEW q \in DOMAIN after, p < q
      PROVE  p # at /\ p \in DOMAIN sealed /\ p < at
  <2>1. p \in Int /\ q \in Int /\ q <= at
    <3>1. \A x \in DOMAIN after : x = at \/ x \in DOMAIN sealed
      BY <1>2, ZenonT(30)
    <3>2. at <= at
      BY SMTT(30), <1>6
    <3> QED BY <1>6, <3>1, <3>2, ZenonT(30)
  <2>2. p < at /\ p # at
    BY SMTT(30), <1>6, <1>7, <2>1
  <2> QED BY <1>2, <2>2, ZenonT(30)
<1>8. NumbersFollow(c)'
  <2>1. ASSUME NEW p \in DOMAIN after
        PROVE  /\ p \in Int /\ p <= next.period_id
               /\ after[p].period_id = p
               /\ after[p].superblock_number \in Int
    <3>1. CASE p = at
      BY <1>1, <1>2, <1>6, <3>1, ZenonT(30)
    <3>2. CASE p # at
      <4>1. p \in DOMAIN sealed /\ after[p] = sealed[p]
        BY <1>2, <3>2, ZenonT(30)
      <4> QED BY <1>1, <1>6, <4>1, ZenonT(30)
    <3> QED BY <3>1, <3>2, ZenonT(30)
  <2> QED BY <1>1, <2>1, ZenonT(30) DEF NumbersFollow
<1>9. ASSUME c \notin refused PROVE SuperblocksFollow(c)'
  <2>1. /\ block.superblock_number <= s.target_superblock_number
        /\ at < s.period_id => block.superblock_number < s.target_superblock_number
        /\ \A p \in DOMAIN sealed :
             /\ sealed[p].superblock_number <= s.target_superblock_number
             /\ p < s.period_id => sealed[p].superblock_number < s.target_superblock_number
             /\ p < at => sealed[p].superblock_number < block.superblock_number
             /\ \A q \in DOMAIN sealed : p < q =>
                  sealed[p].superblock_number < sealed[q].superblock_number
    BY <1>1, <1>5, <1>9, ZenonT(30) DEF SuperblocksFollow
  <2>2. ASSUME NEW p \in DOMAIN after
        PROVE  /\ after[p].superblock_number <= next.target_superblock_number
               /\ p < next.period_id =>
                    after[p].superblock_number < next.target_superblock_number
    <3>1. CASE p = at
      BY <1>1, <1>2, <2>1, <3>1, ZenonT(30)
    <3>2. CASE p # at
      BY <1>1, <1>2, <2>1, <3>2, ZenonT(30)
    <3> QED BY <3>1, <3>2, ZenonT(30)
  <2>3. ASSUME NEW p \in DOMAIN after, NEW q \in DOMAIN after, p < q
        PROVE  after[p].superblock_number < after[q].superblock_number
    <3>1. p # at /\ p \in DOMAIN sealed /\ p < at /\ after[p] = sealed[p]
      BY <1>2, <1>7, <2>3, ZenonT(30)
    <3>2. CASE q = at
      BY <1>2, <2>1, <3>1, <3>2, ZenonT(30)
    <3>3. CASE q # at
      BY <1>2, <2>1, <2>3, <3>1, <3>3, ZenonT(30)
    <3> QED BY <3>2, <3>3, ZenonT(30)
  <2> QED BY <1>1, <2>2, <2>3, ZenonT(30) DEF SuperblocksFollow

<1>10. Pub!LatestNumber' = Pub!LatestNumber /\ Pub!LatestNumber \in Int /\ InitBlock \in Int
  BY SMTT(20), HistoryNumbers DEF Pub!LatestNumber
<1>11. ASSUME Orderly, c \notin refused PROVE BuiltFor(c)'
  <2> PICK lead : lead = s.target_superblock_number - s.period_id
    BY ZenonT(30)
  <2>1. /\ block.superblock_number - at = lead
        /\ \A p \in DOMAIN sealed :
             \/ /\ sealed[p].superblock_number = p + lead
                /\ sealed[p].block_header.hash
                     = [superblock |-> p + lead, origin |-> origin[c]]
             \/ /\ sealed[p].superblock_number <= last_finalized_superblock_number
                /\ p + lead <= last_finalized_superblock_number
    BY <1>1, <1>5, <1>11, ZenonT(30) DEF BuiltFor
  <2>2. lead \in Int /\ block.superblock_number = at + lead
    BY SMTT(30), <1>4, <1>6, <2>1
  <2>3. ASSUME NEW p \in DOMAIN after
        PROVE  \/ /\ after[p].superblock_number = p + lead
                  /\ after[p].block_header.hash
                       = [superblock |-> p + lead, origin |-> origin[c]]
               \/ /\ after[p].superblock_number <= last_finalized_superblock_number
                  /\ p + lead <= last_finalized_superblock_number
    <3>1. CASE p = at
      BY <1>2, <1>3, <2>2, <3>1, ZenonT(30)
    <3>2. CASE p # at
      BY <1>2, <2>1, <3>2, ZenonT(30)
    <3> QED BY <3>1, <3>2, ZenonT(30)
  <2>4. next.target_superblock_number - next.period_id = lead
    BY <1>1, Zenon
  <2> QED BY <1>1, <2>3, <2>4, ZenonT(30) DEF BuiltFor
<1>12. ASSUME Orderly, c \notin refused PROVE HeadersFollow(c)'
  <2>1. HeadersFollow(c) /\ block.superblock_number > Pub!LatestNumber
    BY <1>1, <1>5, <1>12, ZenonT(30) DEF BuiltFor
  <2>2. /\ s.head \in Int /\ block.number = s.head + 1
        /\ s.settled_state.superblock_number \in InitFinalized..Pub!LatestNumber
        /\ s.settled_state.block_header.number \in InitBlock..s.head
        /\ \A h \in HeadersOnL1(c, s.settled_state.superblock_number) :
             h.number <= s.settled_state.block_header.number
        /\ \A h \in HeadersOnL1(c, Pub!LatestNumber) : h.number \in InitBlock..s.head
        /\ \A m \in InitFinalized..Pub!LatestNumber : HeadersOnL1(c, m) # {} =>
             \E h \in HeadersOnL1(c, m) : \A g \in HeadersOnL1(c, m) : g.number <= h.number
    BY <1>1, <2>1, ZenonT(30)
       DEF HeadersFollow, SettledHeaders, L1Headers, SealedHeaders
  <2>3. \A p \in DOMAIN sealed :
          /\ sealed[p].block_header # None
          /\ sealed[p].block_header.number \in InitBlock..s.head
          /\ sealed[p].superblock_number <= Pub!LatestNumber =>
               sealed[p].block_header \in HeadersOnL1(c, sealed[p].superblock_number)
          /\ \A q \in DOMAIN sealed : p < q =>
               sealed[p].block_header.number < sealed[q].block_header.number
    BY <2>1, ZenonT(30) DEF HeadersFollow, SealedHeaders
  <2>4. /\ InitBlock..s.head \subseteq InitBlock..next.head
        /\ \A x \in InitBlock..s.head : x < next.head
        /\ next.head \in Int /\ next.head \in InitBlock..next.head
    BY SMTT(30), <1>1, <1>10, <2>2
  <2>5. ~(block.superblock_number <= Pub!LatestNumber)
    BY SMTT(30), <1>6, <1>10, <2>1
  <2>6. header # None
    <3>1. header \in [number : Int, hash : [superblock : Int, origin : Nat]]
      <4>1. origin[c] \in Nat /\ block.number \in Int /\ block.superblock_number \in Int
        BY <1>1, <1>5, <1>6, <2>4, ZenonT(30) DEF RollbacksFollow
      <4> QED BY ZenonT(30), <4>1
    <3> QED BY <3>1, NoneIsNoHeader, ZenonT(30)
  <2>7. ASSUME NEW p \in DOMAIN after
        PROVE  /\ after[p].block_header # None
               /\ after[p].block_header.number \in InitBlock..next.head
               /\ after[p].superblock_number <= Pub!LatestNumber =>
                    after[p].block_header \in HeadersOnL1(c, after[p].superblock_number)
    <3>1. CASE p = at
      BY <1>1, <1>2, <1>3, <2>4, <2>5, <2>6, <3>1, ZenonT(30)
    <3>2. CASE p # at
      BY <1>2, <2>3, <2>4, <3>2, ZenonT(30)
    <3> QED BY <3>1, <3>2, ZenonT(30)
  <2>8. ASSUME NEW p \in DOMAIN after, NEW q \in DOMAIN after, p < q
        PROVE  after[p].block_header.number < after[q].block_header.number
    <3>1. p # at /\ p \in DOMAIN sealed /\ after[p] = sealed[p]
      BY <1>2, <1>7, <2>8, ZenonT(30)
    <3>2. CASE q = at
      BY <1>1, <1>2, <1>3, <2>3, <2>4, <3>1, <3>2, ZenonT(30)
    <3>3. CASE q # at
      BY <1>2, <2>3, <2>8, <3>1, <3>3, ZenonT(30)
    <3> QED BY <3>2, <3>3, ZenonT(30)
  <2>9. \A m : HeadersOnL1(c, m)' = HeadersOnL1(c, m)
    BY SameHeaders, ZenonT(30)
  <2>10. HeadersOnL1(c, Pub!LatestNumber)' = HeadersOnL1(c, Pub!LatestNumber)
    BY SameLatest, ZenonT(30)
  <2>11. /\ next.settled_state.superblock_number \in InitFinalized..Pub!LatestNumber
         /\ next.settled_state.block_header.number \in InitBlock..next.head
         /\ \A h \in HeadersOnL1(c, next.settled_state.superblock_number) :
              h.number <= next.settled_state.block_header.number
         /\ \A h \in HeadersOnL1(c, Pub!LatestNumber) : h.number \in InitBlock..next.head
    BY <1>1, <2>2, <2>4, ZenonT(30)
  <2>12. /\ next.head \in Int /\ next.pending_block = None
         /\ \A m \in InitFinalized..Pub!LatestNumber : HeadersOnL1(c, m) # {} =>
              \E h \in HeadersOnL1(c, m) : \A g \in HeadersOnL1(c, m) : g.number <= h.number
    BY <1>1, <2>2, <2>4, ZenonT(30)
  <2>13. Pub!LatestNumber' = Pub!LatestNumber
    BY <1>10, ZenonT(30)
  <2>14. SettledHeaders(c)'
    BY <2>9, <2>11, <2>13, ZenonT(30) DEF SettledHeaders
  <2>15. L1Headers(c)'
    BY <2>9, <2>10, <2>11, <2>12, <2>13, ZenonT(30) DEF L1Headers
  <2>16. SealedHeaders(c)'
    BY <2>7, <2>8, <2>9, <2>13, ZenonT(30) DEF SealedHeaders
  <2> QED BY <2>14, <2>15, <2>16, Zenon DEF HeadersFollow
<1> QED
  BY <1>8, <1>9, <1>11, <1>12, BuildsOn, ZenonT(30)

\* A step that appends sb to the superblocks on L1, which were len
Appends(sb, len) ==
  /\ len = Len(l1) /\ l1'[len + 1] = sb
  /\ \A k \in 1..len : l1'[k] = l1[k]
  /\ contents' = contents

\* A step that adds to the headers of c on L1 those of the proofs in a superblock
AddsHeaders(c, latest, added) ==
  /\ \A m \in Int : m <= latest => HeadersOnL1(c, m)' = HeadersOnL1(c, m)
  /\ \A h : h \in HeadersOnL1(c, latest + 1)' <=>
       \/ h \in HeadersOnL1(c, latest)
       \/ \E pf \in added : pf.chain = c /\ pf.header # None /\ h = pf.header

\* A step that adds one header at most, that of the chain's block for superblock latest + 1
AddsHeader(c, latest, new) ==
  /\ \A m \in Int : m <= latest => HeadersOnL1(c, m)' = HeadersOnL1(c, m)
  /\ \A h : h \in HeadersOnL1(c, latest + 1)' <=>
       h \in HeadersOnL1(c, latest) \/ (new # None /\ h = new)
  /\ new # None => \E p \in DOMAIN sequencer[c].sealed_block_head :
                     new = sequencer[c].sealed_block_head[p].block_header
  /\ \A p \in DOMAIN sequencer[c].sealed_block_head :
       sequencer[c].sealed_block_head[p].superblock_number = latest + 1 =>
         new = sequencer[c].sealed_block_head[p].block_header

\* The headers on L1 when L1 accepts sb.
LEMMA HeadersAccepted ==
  ASSUME IndInv, L1Follows, NEW sb, NEW len, Appends(sb, len), NEW c,
         NEW latest, latest = Pub!LatestNumber
  PROVE  AddsHeaders(c, latest, contents[sb])
<1> /\ len = Len(l1) /\ l1'[len + 1] = sb
    /\ \A k \in 1..len : l1'[k] = l1[k]
    /\ contents' = contents
  BY ZenonT(30) DEF Appends
<1> DEFINE Of(q, h) == q.chain = c /\ q.header # None /\ h = q.header
<1>1. /\ len \in Nat /\ InitFinalized \in Nat /\ latest = InitFinalized + len
  BY HistoryNumbers, ZenonT(30)
<1>2. /\ \A m, h : h \in HeadersOnL1(c, m) <=>
           \E k \in 1..(m - InitFinalized) : \E q \in contents[l1[k]] : Of(q, h)
      /\ \A m, h : h \in HeadersOnL1(c, m)' <=>
           \E k \in 1..(m - InitFinalized) : \E q \in contents[l1'[k]] : Of(q, h)
  BY SMTT(30), HeadersIn, HeadersInNext
<1> HIDE DEF Of
<1>3. ASSUME NEW m \in Int, m <= latest PROVE HeadersOnL1(c, m)' = HeadersOnL1(c, m)
  <2>1. \A k \in 1..(m - InitFinalized) : l1'[k] = l1[k]
    <3>1. 1..(m - InitFinalized) \subseteq 1..len
      BY SMTT(30), <1>1, <1>3
    <3> QED BY <3>1, ZenonT(30)
  <2>2. ASSUME NEW h PROVE h \in HeadersOnL1(c, m)' <=> h \in HeadersOnL1(c, m)
    BY ZenonT(30), <1>2, <2>1
  <2> QED BY <2>2, ZenonT(30)
<1>4. ASSUME NEW h
      PROVE  h \in HeadersOnL1(c, latest + 1)' <=>
               h \in HeadersOnL1(c, latest) \/ \E q \in contents[sb] : Of(q, h)
  <2>1. /\ (latest + 1) - InitFinalized = len + 1 /\ latest - InitFinalized = len
        /\ 1..(len + 1) = 1..len \cup {len + 1}
    BY SMTT(30), <1>1
  <2>2. h \in HeadersOnL1(c, latest + 1)' <=>
          \E k \in 1..(len + 1) : \E q \in contents[l1'[k]] : Of(q, h)
    <3>1. h \in HeadersOnL1(c, latest + 1)' <=>
            \E k \in 1..((latest + 1) - InitFinalized) : \E q \in contents[l1'[k]] : Of(q, h)
      BY <1>2, ZenonT(30)
    <3> QED BY <2>1, <3>1, ZenonT(30)
  <2>3. h \in HeadersOnL1(c, latest) <=>
          \E k \in 1..len : \E q \in contents[l1[k]] : Of(q, h)
    <3>1. h \in HeadersOnL1(c, latest) <=>
            \E k \in 1..(latest - InitFinalized) : \E q \in contents[l1[k]] : Of(q, h)
      BY <1>2, ZenonT(30)
    <3> QED BY <2>1, <3>1, ZenonT(30)
  <2> QED BY <2>1, <2>2, <2>3, ZenonT(30)
<1> QED
  BY <1>3, <1>4, ZenonT(30) DEF AddsHeaders, Of

\* The headers of a chain up to the superblock that L1 accepts: the new one is of the
\* chain's block, and the later of two blocks is there.
LEMMA HeadersL1 ==
  ASSUME IndInv, L1Follows, NEW c \in Chain, HeadersFollow(c), NumbersFollow(c),
         sequencer'[c] = sequencer[c], NEW latest, latest = Pub!LatestNumber,
         Pub!LatestNumber' = latest + 1, NEW new, AddsHeader(c, latest, new)
  PROVE  HeadersFollow(c)'
<1> /\ \A m \in Int : m <= latest => HeadersOnL1(c, m)' = HeadersOnL1(c, m)
    /\ \A h : h \in HeadersOnL1(c, latest + 1)' <=>
         h \in HeadersOnL1(c, latest) \/ (new # None /\ h = new)
    /\ new # None => \E p \in DOMAIN sequencer[c].sealed_block_head :
                       new = sequencer[c].sealed_block_head[p].block_header
    /\ \A p \in DOMAIN sequencer[c].sealed_block_head :
         sequencer[c].sealed_block_head[p].superblock_number = latest + 1 =>
           new = sequencer[c].sealed_block_head[p].block_header
  BY ZenonT(30) DEF AddsHeader
<1> PICK s : s = sequencer[c]
  BY ZenonT(30)
<1> PICK sealed : sealed = s.sealed_block_head
  BY ZenonT(30)
<1>1. latest \in Int /\ InitFinalized \in Int /\ InitBlock \in Int
      /\ InitFinalized <= latest
  BY SMTT(30), HistoryNumbers
<1>2. /\ s.head \in Int
      /\ s.pending_block # None => s.pending_block.number = s.head + 1
      /\ s.settled_state.superblock_number \in InitFinalized..latest
      /\ s.settled_state.block_header.number \in InitBlock..s.head
      /\ \A h \in HeadersOnL1(c, s.settled_state.superblock_number) :
           h.number <= s.settled_state.block_header.number
      /\ \A h \in HeadersOnL1(c, latest) : h.number \in InitBlock..s.head
      /\ \A m \in InitFinalized..latest : HeadersOnL1(c, m) # {} =>
           \E h \in HeadersOnL1(c, m) : \A g \in HeadersOnL1(c, m) : g.number <= h.number
  BY ZenonT(30) DEF HeadersFollow, SettledHeaders, L1Headers, SealedHeaders
<1>3. \A p \in DOMAIN sealed :
        /\ sealed[p].block_header # None
        /\ sealed[p].block_header.number \in InitBlock..s.head
        /\ sealed[p].superblock_number <= latest =>
             sealed[p].block_header \in HeadersOnL1(c, sealed[p].superblock_number)
        /\ \A q \in DOMAIN sealed : p < q =>
             sealed[p].block_header.number < sealed[q].block_header.number
  BY ZenonT(30) DEF HeadersFollow, SealedHeaders
<1>4. /\ \A m \in InitFinalized..latest : m \in Int /\ m <= latest
      /\ InitFinalized..(latest + 1) = InitFinalized..latest \cup {latest + 1}
      /\ latest \in InitFinalized..latest
  BY <1>1
<1>5. new # None => new.number \in InitBlock..s.head
  BY <1>3, ZenonT(30)
<1>6. \A h \in HeadersOnL1(c, latest + 1)' : h.number \in InitBlock..s.head
  BY <1>2, <1>5, ZenonT(30)
<1>7. HeadersOnL1(c, latest + 1)' # {} =>
        \E h \in HeadersOnL1(c, latest + 1)' : \A g \in HeadersOnL1(c, latest + 1)' :
          g.number <= h.number
  <2>1. CASE new = None
    <3>1. HeadersOnL1(c, latest + 1)' = HeadersOnL1(c, latest)
      BY <2>1, Zenon
    <3> QED BY <1>2, <1>4, <3>1, ZenonT(30)
  <2>2. CASE new # None /\ HeadersOnL1(c, latest) = {}
    <3>1. \A h : h \in HeadersOnL1(c, latest + 1)' <=> h = new
      BY <2>2, ZenonT(30)
    <3>2. new.number <= new.number
      BY SMTT(30), <1>1, <1>2, <1>5, <2>2
    <3> QED BY <3>1, <3>2, ZenonT(30)
  <2>3. CASE new # None /\ HeadersOnL1(c, latest) # {}
    <3>1. PICK top \in HeadersOnL1(c, latest) :
            \A g \in HeadersOnL1(c, latest) : g.number <= top.number
      BY <1>2, <1>4, <2>3, ZenonT(30)
    <3>2. /\ \A g \in HeadersOnL1(c, latest) : g.number \in Int
          /\ top.number \in Int /\ new.number \in Int
      BY SMTT(30), <1>1, <1>2, <1>5, <2>3, <3>1
    <3>3. CASE top.number <= new.number
      <4>1. \A g \in HeadersOnL1(c, latest) : g.number <= new.number
        BY SMTT(30), <3>1, <3>2, <3>3
      <4>2. new.number <= new.number
        BY SMTT(30), <3>2
      <4> QED BY <2>3, <4>1, <4>2, ZenonT(30)
    <3>4. CASE new.number <= top.number
      BY <2>3, <3>1, <3>4, ZenonT(30)
    <3> QED BY SMTT(30), <3>2, <3>3, <3>4
  <2> QED BY <2>1, <2>2, <2>3, ZenonT(30)
<1>8. \A m \in InitFinalized..(latest + 1) : HeadersOnL1(c, m)' # {} =>
        \E h \in HeadersOnL1(c, m)' : \A g \in HeadersOnL1(c, m)' : g.number <= h.number
  <2>1. \A m \in InitFinalized..latest : HeadersOnL1(c, m)' = HeadersOnL1(c, m)
    BY <1>4, ZenonT(30)
  <2> TAKE m \in InitFinalized..(latest + 1)
  <2>2. CASE m = latest + 1
    BY <1>7, <2>2, ZenonT(30)
  <2>3. CASE m \in InitFinalized..latest
    BY <1>2, <2>1, <2>3, ZenonT(30)
  <2> QED BY <1>4, <2>2, <2>3, ZenonT(30)
<1>9. ASSUME NEW p \in DOMAIN sealed, sealed[p].superblock_number <= latest + 1
      PROVE  sealed[p].block_header \in HeadersOnL1(c, sealed[p].superblock_number)'
  <2>1. sealed[p].superblock_number \in Int
    BY ZenonT(30) DEF NumbersFollow
  <2> PICK n : n = sealed[p].superblock_number
    BY ZenonT(30)
  <2>2. CASE n <= latest
    BY <1>3, <2>1, <2>2, ZenonT(30)
  <2>3. CASE n = latest + 1
    BY <1>3, <2>3, ZenonT(30)
  <2> QED BY SMTT(30), <1>1, <1>9, <2>1, <2>2, <2>3
<1>10. /\ s.settled_state.superblock_number \in InitFinalized..(latest + 1)
       /\ \A h \in HeadersOnL1(c, s.settled_state.superblock_number)' :
            h.number <= s.settled_state.block_header.number
  BY <1>2, <1>4, ZenonT(30)
<1>11. \A h \in HeadersOnL1(c, Pub!LatestNumber)' : h.number \in InitBlock..s.head
  <2>1. HeadersOnL1(c, Pub!LatestNumber)' = HeadersOnL1(c, latest + 1)'
    BY ZenonT(30) DEF HeadersOnL1
  <2> QED BY <1>6, <2>1, ZenonT(30)
<1>12. /\ s.head \in Int /\ s.settled_state.block_header.number \in InitBlock..s.head
       /\ s.pending_block # None => s.pending_block.number = s.head + 1
  BY <1>2, ZenonT(30)
<1>13. \A p \in DOMAIN sealed :
         /\ sealed[p].block_header # None
         /\ sealed[p].block_header.number \in InitBlock..s.head
         /\ \A q \in DOMAIN sealed : p < q =>
              sealed[p].block_header.number < sealed[q].block_header.number
  BY <1>3, ZenonT(30)
<1>14. SettledHeaders(c)'
  BY <1>10, <1>12, ZenonT(30) DEF SettledHeaders
<1>15. L1Headers(c)'
  BY <1>8, <1>11, <1>12, ZenonT(30) DEF L1Headers
<1>16. SealedHeaders(c)'
  BY <1>9, <1>13, ZenonT(30) DEF SealedHeaders
<1> QED BY <1>14, <1>15, <1>16, Zenon DEF HeadersFollow

--------------------------------------------------------------------------------
\* All chains

\* A step that leaves the chains and L1 alone.
LEMMA ChainsKept ==
  ASSUME IndInv, OrderInv, HistoryInv,
         UNCHANGED <<sequencer, inbox, origin, epoch, l1, contents, refused>>,
         last_finalized_superblock_number' \in Int,
         last_finalized_superblock_number <= last_finalized_superblock_number',
         Orderly' => Orderly
  PROVE  \A c \in Chain : ChainHistory(c)'
<1>1. L1Follows /\ \A c \in Chain : ChainHistory(c)
  BY HistoryGroups, Zenon
<1> TAKE c \in Chain
<1>2. \A m : HeadersOnL1(c, m)' = HeadersOnL1(c, m)
  BY SameHeaders, Zenon
<1>3. /\ sequencer'[c] = sequencer[c] /\ inbox'[c] = inbox[c] /\ origin'[c] = origin[c]
      /\ UNCHANGED <<epoch, l1>> /\ (c \in refused => c \in refused')
  BY Zenon
<1> QED BY <1>1, <1>2, <1>3, ChainKept, Zenon

\* A message sent to some of the chains; a rollback is sent to all.
LEMMA ChainsSent ==
  ASSUME IndInv, OrderInv, HistoryInv, NEW chains, NEW msg, Broadcast(chains, msg),
         UNCHANGED <<sequencer, origin, refused, contents, l1,
                     last_finalized_superblock_number>>,
         Orderly' => Orderly,
         msg.type # "Rollback" => epoch' = epoch,
         msg.type = "StartPeriod" => (Orderly => Pub!LatestNumber < msg.target),
         msg.type = "Rollback" =>
           /\ chains = Chain /\ epoch' = epoch + 1 /\ msg.epoch = epoch'
           /\ msg.number = last_finalized_superblock_number
           /\ Orderly' => Pub!LatestNumber = last_finalized_superblock_number
  PROVE  \A c \in Chain : ChainHistory(c)'
<1>1. L1Follows /\ \A c \in Chain : ChainHistory(c)
  BY HistoryGroups, Zenon
<1> TAKE c \in Chain
<1>2. CASE c \in chains
  <2>1. inbox'[c] = Append(inbox[c], msg)
    BY <1>2, Zenon DEF Broadcast
  <2> QED BY <1>1, <2>1, ChainSent, Zenon
<1>3. CASE c \notin chains
  <2>1. inbox'[c] = inbox[c]
    BY <1>3, Zenon DEF Broadcast
  <2>2. epoch' = epoch /\ l1' = l1
    BY <1>3, Zenon
  <2>3. \A m : HeadersOnL1(c, m)' = HeadersOnL1(c, m)
    <3>1. UNCHANGED <<contents, l1>>
      BY Zenon
    <3> QED BY <3>1, SameHeaders, Zenon
  <2>4. /\ last_finalized_superblock_number' \in Int
        /\ last_finalized_superblock_number <= last_finalized_superblock_number'
    BY <1>1, HistoryNumbers
  <2> QED BY <1>1, <2>1, <2>2, <2>3, <2>4, ChainKept, Zenon
<1> QED BY <1>2, <1>3, Zenon

\* The publisher starts a period, or an instance, or decides one.
LEMMA ChainsBroadcast ==
  ASSUME IndInv, OrderInv, HistoryInv,
         \/ PublisherStartsPeriod
         \/ \E r \in XtRequest : PublisherStartsInstance(r)
         \/ \E i \in undecided : PublisherDecidesInstance(i)
  PROVE  \A c \in Chain : ChainHistory(c)'
<1>1. L1Follows
  BY HistoryGroups, Zenon
<1>2. UNCHANGED <<sequencer, origin, refused, contents, l1, epoch, overtaken,
                  last_finalized_superblock_number>>
  BY ZenonT(30)
     DEF PublisherStartsPeriod, PublisherStartsInstance, PublisherDecidesInstance, seqVars,
         ghosts, Pub!StartPeriod, Pub!StartInstance, Pub!DecideInstance, Pub!building,
         Pub!finalized, Pub!messages
<1>3. Orderly' <=> Orderly
  BY <1>2, Zenon DEF Orderly
<1>4. UNCHANGED <<sequencer, origin, refused, contents, l1,
                  last_finalized_superblock_number>> /\ epoch' = epoch
  BY <1>2, Zenon
<1>5. PICK chains, msg : /\ Broadcast(chains, msg) /\ msg.type # "Rollback"
                         /\ msg.type = "StartPeriod" =>
                              msg.target = target_superblock_number + 1
  <2>1. CASE PublisherStartsPeriod
    <3> PICK msg : msg = [type |-> "StartPeriod", period |-> period_id',
                          target |-> target_superblock_number']
      BY Zenon
    <3>1. Broadcast(Chain, msg) /\ target_superblock_number' = target_superblock_number + 1
      BY ZenonT(30), <2>1 DEF PublisherStartsPeriod, Pub!StartPeriod
    <3>2. msg.type = "StartPeriod" /\ msg.target = target_superblock_number'
      BY ZenonT(30)
    <3> QED BY ZenonT(30), <3>1, <3>2
  <2>2. ASSUME NEW r \in XtRequest, PublisherStartsInstance(r)
        PROVE  \E chains, msg : Broadcast(chains, msg) /\ msg.type = "StartInstance"
    <3> PICK id : id = <<period_id, sequence_number', r>>
      BY Zenon
    <3> PICK msg : msg = [type |-> "StartInstance", id |-> id, period |-> period_id,
                          seq |-> sequence_number']
      BY Zenon
    <3>1. Broadcast(Pub!chains_from_request(r), msg)
      BY ZenonT(30), <2>2 DEF PublisherStartsInstance, InstanceId
    <3>2. msg.type = "StartInstance"
      BY ZenonT(30)
    <3> QED BY <3>1, <3>2, Zenon
  <2>3. ASSUME NEW i \in undecided, PublisherDecidesInstance(i)
        PROVE  \E chains, msg : Broadcast(chains, msg) /\ msg.type = "Decided"
    <3> PICK msg : msg = [type |-> "Decided", id |-> InstanceId(i)]
      BY Zenon
    <3>1. Broadcast(Pub!chains_from_request(i.request), msg)
      BY <2>3, Zenon DEF PublisherDecidesInstance
    <3>2. msg.type = "Decided"
      BY ZenonT(30)
    <3> QED BY <3>1, <3>2, Zenon
  <2>4. "StartInstance" \notin {"Rollback", "StartPeriod"}
        /\ "Decided" \notin {"Rollback", "StartPeriod"}
    BY ZenonT(30)
  <2> QED BY <2>1, <2>2, <2>3, <2>4, Zenon
<1>6. Orderly => Pub!LatestNumber < target_superblock_number + 1
  BY <1>1, HistoryNumbers DEF L1Follows
<1> QED BY <1>3, <1>4, <1>5, <1>6, ChainsSent, Zenon

\* The publisher rolls back.
LEMMA ChainsRollback ==
  ASSUME IndInv, OrderInv, HistoryInv, Pub!rollback, BroadcastRollback
  PROVE  \A c \in Chain : ChainHistory(c)'
<1>1. L1Follows
  BY HistoryGroups, Zenon
<1>2. /\ UNCHANGED <<sequencer, origin, refused, contents, l1,
                     last_finalized_superblock_number>>
      /\ epoch' = epoch + 1
      /\ overtaken' = (overtaken \/ Pub!LatestNumber > last_finalized_superblock_number)
  BY ZenonT(30) DEF BroadcastRollback, seqVars, Pub!rollback, Pub!finalized
<1>3. /\ Orderly' => Orderly
      /\ Orderly' => ~(Pub!LatestNumber > last_finalized_superblock_number)
  BY <1>2, Zenon DEF Orderly
<1>4. Orderly' => Pub!LatestNumber = last_finalized_superblock_number
  BY <1>1, <1>3, HistoryNumbers
<1> PICK msg : msg = [type |-> "Rollback", period |-> period_id,
                      number |-> last_finalized_superblock_number,
                      hash |-> last_finalized_superblock_hash, epoch |-> epoch']
  BY Zenon
<1>5. Broadcast(Chain, msg)
  BY Zenon DEF BroadcastRollback
<1>6. /\ msg.type = "Rollback" /\ msg.epoch = epoch'
      /\ msg.number = last_finalized_superblock_number
      /\ msg.type # "StartPeriod"
  BY ZenonT(30)
<1>7. /\ msg.type # "Rollback" => epoch' = epoch
      /\ msg.type = "StartPeriod" => (Orderly => Pub!LatestNumber < msg.target)
      /\ msg.type = "Rollback" =>
           /\ Chain = Chain /\ epoch' = epoch + 1 /\ msg.epoch = epoch'
           /\ msg.number = last_finalized_superblock_number
           /\ Orderly' => Pub!LatestNumber = last_finalized_superblock_number
  BY <1>2, <1>4, <1>6, Zenon
<1>8. UNCHANGED <<sequencer, origin, refused, contents, l1,
                  last_finalized_superblock_number>>
  BY <1>2, Zenon
<1> QED BY <1>3, <1>5, <1>7, <1>8, ChainsSent, Zenon

================================================================================

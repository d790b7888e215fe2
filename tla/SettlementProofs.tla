--------------------------- MODULE SettlementProofs ----------------------------
(***************************************************************************)
(* The safety of registration, proof collection and the superblock         *)
(* numbers, for all chains, clients, outputs, windows and bounds.          *)
(*                                                                         *)
(* NeverAheadOfL1 is not inductive.  It needs to know that a submission    *)
(* whose transaction is mined carries a number L1 has, and for that, that  *)
(* a pending transaction either still extends L1 or carries a number that  *)
(* is taken: only then does a reverted transaction imply the number is on  *)
(* L1, which is what submit takes any receipt to mean.                     *)
(***************************************************************************)
EXTENDS Settlement, SequenceTheorems, TLAPS

SubmissionOK(s) ==
  s \in [number : Nat, proofs : Proofs, parent : {s.parent},
         attempt : 0..(MaxRetries - 1), stage : Stage]

\* The inductive invariant, grouped by the part of the state it is about.

RegistryOK ==
  /\ IsMap(chain_to_client, Chain, Client)
  /\ IsMap(client_to_chain, Client, Chain)
  /\ RegistrationConsistent

CollectionOK ==
  /\ admitted \subseteq [chain : Chain, outputs : Outputs \cup {DefaultOutputs}]
  /\ pending_proofs \in Proofs
  /\ proof_collection_started \in 0..ProofWindow \cup {None}
  /\ WindowRunsWithCollection

NumbersOK ==
  /\ next_superblock_number \in Nat
  /\ last_finalized_superblock_number \in Nat
  /\ NumbersAligned
  /\ NeverAheadOfL1

L1OK ==
  /\ spawned \in 0..MaxSubmissions
  /\ l1 \in Seq(Range(l1))
  /\ \A tx \in txs :
       /\ tx.id \in 1..spawned
       /\ tx.superblock.number \in Nat
       /\ tx.superblock.number <= Len(l1) \/ Extends(tx.superblock)
       /\ tx.id \in DOMAIN submissions =>
            tx.superblock.number = submissions[tx.id].number

ReaperOK ==
  /\ reaper \in {"idle", "rollback"}
  /\ \A r \in rollbacks : r.number \in Nat
  /\ restarts \in 0..MaxRestarts

SubmissionsOK ==
  /\ DOMAIN submissions \subseteq 1..spawned
  /\ submissions = [i \in DOMAIN submissions |-> submissions[i]]
  /\ \A i \in DOMAIN submissions : SubmissionOK(submissions[i])
  /\ \A i \in DOMAIN submissions :
       submissions[i].stage \in {"mined", "succeeded"} =>
         submissions[i].number <= Len(l1)

\* HashMap::insert gives a map that is not empty
LEMMA InsertNotEmpty ==
  ASSUME NEW map, NEW k, NEW v
  PROVE  Insert(map, k, v) # EmptyMap
BY DEF Insert, EmptyMap

\* The empty collection is a collection
LEMMA EmptyProofs == EmptyMap \in Proofs
<1>1. EmptyMap \in [{} -> Outputs \cup {DefaultOutputs}] /\ {} \in SUBSET Chain
  BY DEF EmptyMap
<1> QED
  BY Zenon, <1>1 DEF Proofs

\* The collection with one more proof is a collection
LEMMA WithProofType ==
  ASSUME CollectionOK, NEW p \in admitted
  PROVE  WithProof(p) \in Proofs /\ WithProof(p) # EmptyMap
<1>1. PICK S \in SUBSET Chain : pending_proofs \in [S -> Outputs \cup {DefaultOutputs}]
  BY DEF CollectionOK, Proofs
<1>2. p.chain \in Chain /\ p.outputs \in Outputs \cup {DefaultOutputs}
  BY DEF CollectionOK
<1>3. WithProof(p) \in [S \cup {p.chain} -> Outputs \cup {DefaultOutputs}]
  BY <1>1, <1>2 DEF WithProof, Insert
<1>4. S \cup {p.chain} \in SUBSET Chain
  BY <1>2
<1> QED
  BY <1>3, <1>4, InsertNotEmpty DEF Proofs, WithProof

\* Changing the stage, parent and attempt of one submission keeps the others
LEMMA UpdateSubmission ==
  ASSUME SubmissionsOK, NEW i \in DOMAIN submissions, NEW s, SubmissionOK(s),
         s.stage \in {"mined", "succeeded"} => s.number <= Len(l1),
         s.number = submissions[i].number,
         submissions' = [submissions EXCEPT ![i] = s],
         UNCHANGED <<spawned, l1>>
  PROVE  /\ SubmissionsOK'
         /\ DOMAIN submissions' = DOMAIN submissions
         /\ \A j \in DOMAIN submissions : submissions'[j].number = submissions[j].number
<1>1. /\ DOMAIN submissions' = DOMAIN submissions
      /\ \A j \in DOMAIN submissions :
           submissions'[j] = IF j = i THEN s ELSE submissions[j]
      /\ submissions' = [j \in DOMAIN submissions' |-> submissions'[j]]
  BY Zenon DEF SubmissionsOK
<1>2. \A j \in DOMAIN submissions : SubmissionOK(submissions'[j])
  BY <1>1 DEF SubmissionsOK
<1> QED
  BY <1>1, <1>2 DEF SubmissionsOK, SubmissionOK

\* A submission that ends leaves the others as they are
LEMMA EndSubmission ==
  ASSUME SubmissionsOK, NEW i, submissions' = RemoveKeys(submissions, {i}),
         UNCHANGED <<spawned, l1>>
  PROVE  /\ SubmissionsOK'
         /\ DOMAIN submissions' \subseteq DOMAIN submissions
         /\ \A j \in DOMAIN submissions' : submissions'[j].number = submissions[j].number
<1>1. /\ DOMAIN submissions' = DOMAIN submissions \ {i}
      /\ \A j \in DOMAIN submissions' : submissions'[j] = submissions[j]
      /\ submissions' = [j \in DOMAIN submissions' |-> submissions'[j]]
  BY DEF RemoveKeys, Restrict
<1> QED
  BY Zenon, <1>1 DEF SubmissionsOK, SubmissionOK

Grouped == RegistryOK /\ CollectionOK /\ NumbersOK /\ L1OK /\ ReaperOK /\ SubmissionsOK

\* Grouping loses nothing
LEMMA Grouping == (IndInv <=> Grouped) /\ (IndInv' <=> Grouped')
BY DEF IndInv, TypeOK, SubmissionsWithinL1, Grouped, RegistryOK, CollectionOK,
       NumbersOK, L1OK, ReaperOK, SubmissionsOK, SubmissionOK

\* A step that leaves a part of the state alone keeps what is said of it
LEMMA Frame ==
  ASSUME Grouped
  PROVE  /\ UNCHANGED registry => RegistryOK'
         /\ UNCHANGED <<admitted, collection>> => CollectionOK'
         /\ UNCHANGED <<numbers, l1>> => NumbersOK'
         /\ UNCHANGED <<tasks, txs, l1>> => L1OK'
         /\ UNCHANGED <<reaper, rollbacks, restarts>> => ReaperOK'
         /\ UNCHANGED <<tasks, l1>> => SubmissionsOK'
<1>1. UNCHANGED registry => RegistryOK'
  BY DEF Grouped, RegistryOK, registry, RegistrationConsistent
<1>2. UNCHANGED <<admitted, collection>> => CollectionOK'
  BY DEF Grouped, CollectionOK, collection, WindowRunsWithCollection
<1>3. UNCHANGED <<numbers, l1>> => NumbersOK'
  BY DEF Grouped, NumbersOK, numbers, NumbersAligned, NeverAheadOfL1
<1>4. UNCHANGED <<tasks, txs, l1>> => L1OK'
  BY DEF Grouped, L1OK, tasks, Extends, LatestHash
<1>5. UNCHANGED <<reaper, rollbacks, restarts>> => ReaperOK'
  BY DEF Grouped, ReaperOK
<1>6. UNCHANGED <<tasks, l1>> => SubmissionsOK'
  BY DEF Grouped, SubmissionsOK, tasks, SubmissionOK
<1> QED
  BY <1>1, <1>2, <1>3, <1>4, <1>5, <1>6

\* A fresh publisher satisfies the invariant
LEMMA IndInit == Init => IndInv
<1> SUFFICES ASSUME Init PROVE Grouped
  BY Grouping
<1>1. RegistryOK
  BY DEF Init, RegistryOK, RegistrationConsistent, IsMap, EmptyMap
<1>2. CollectionOK
  BY EmptyProofs DEF Init, CollectionOK, WindowRunsWithCollection
<1>3. l1 \in Seq(Range(l1)) /\ Len(l1) = 0
  BY DEF Init
<1>4. NumbersOK /\ L1OK /\ ReaperOK
  BY <1>3, SettlementBounds
     DEF Init, NumbersOK, NumbersAligned, NeverAheadOfL1, L1OK, ReaperOK
<1>5. SubmissionsOK
  BY DEF Init, SubmissionsOK, EmptyMap
<1> QED
  BY <1>1, <1>2, <1>4, <1>5 DEF Grouped

\* register_chain keeps the two maps in step: the only chain routed to the client
\* before is the one it had registered, and that entry is dropped.
LEMMA RegisterStep ==
  ASSUME RegistryOK, NEW k \in Client, NEW c \in Chain, RegisterChain(k, c)
  PROVE  RegistryOK'
<1>1. IsMap(chain_to_client', Chain, Client) /\ IsMap(client_to_chain', Client, Chain)
  BY DEF RegistryOK, RegisterChain, IsMap, Insert, RemoveKeys, Restrict
<1>2. SUFFICES ASSUME NEW d \in DOMAIN chain_to_client'
               PROVE  /\ chain_to_client'[d] \in DOMAIN client_to_chain'
                      /\ client_to_chain'[chain_to_client'[d]] = d
  BY <1>1 DEF RegistryOK, RegistrationConsistent
<1>3. /\ DOMAIN client_to_chain' = DOMAIN client_to_chain \cup {k}
      /\ \A j \in DOMAIN client_to_chain' :
           client_to_chain'[j] = IF j = k THEN c ELSE client_to_chain[j]
  BY DEF RegisterChain, Insert
<1>4. CASE d = c
  <2>1. chain_to_client'[d] = k
    BY <1>4 DEF RegisterChain, Insert
  <2> QED
    BY <1>3, <1>4, <2>1
<1>5. CASE d # c
  <2>1. /\ d \in DOMAIN chain_to_client \ Forgotten(k)
        /\ chain_to_client'[d] = chain_to_client[d]
    BY <1>5 DEF RegisterChain, Insert, RemoveKeys, Restrict
  <2>2. /\ chain_to_client[d] \in DOMAIN client_to_chain
        /\ client_to_chain[chain_to_client[d]] = d
    BY <2>1 DEF RegistryOK, RegistrationConsistent
  <2>3. chain_to_client[d] # k
    BY <2>1, <2>2 DEF Forgotten
  <2> QED
    BY <1>3, <2>1, <2>2, <2>3
<1> QED
  BY <1>4, <1>5

\* A new submission joins the others
LEMMA SpawnStep ==
  ASSUME Grouped, NEW p \in admitted, CompleteCollection(p)
  PROVE  SubmissionsOK' /\ L1OK'
<1> DEFINE s == [number |-> next_superblock_number, proofs |-> WithProof(p),
                 parent |-> ZeroHash, attempt |-> 0, stage |-> "spawned"]
<1>1. WithProof(p) \in Proofs /\ next_superblock_number \in Nat
  BY WithProofType DEF Grouped, NumbersOK
<1>2. SubmissionOK(s) /\ s.stage \notin {"mined", "succeeded"}
  BY <1>1, SettlementBounds DEF SubmissionOK, Stage
<1>3. /\ submissions' = Insert(submissions, spawned', s)
      /\ spawned' = spawned + 1
      /\ UNCHANGED <<l1, txs>>
      /\ spawned \in 0..MaxSubmissions
      /\ spawned < MaxSubmissions
  BY DEF CompleteCollection, chainside, Grouped, L1OK
<1> HIDE DEF s
<1>4. /\ DOMAIN submissions' = DOMAIN submissions \cup {spawned'}
      /\ \A i \in DOMAIN submissions' :
           submissions'[i] = IF i = spawned' THEN s ELSE submissions[i]
      /\ submissions' = [i \in DOMAIN submissions' |-> submissions'[i]]
  BY <1>3 DEF Insert
<1>5. DOMAIN submissions' \subseteq 1..spawned'
  BY <1>3, <1>4, SettlementBounds DEF Grouped, SubmissionsOK
<1>6. \A i \in DOMAIN submissions' : SubmissionOK(submissions'[i])
  BY <1>2, <1>4 DEF Grouped, SubmissionsOK
<1>7. \A i \in DOMAIN submissions' :
        submissions'[i].stage \in {"mined", "succeeded"} =>
          submissions'[i].number <= Len(l1)
  BY <1>2, <1>4 DEF Grouped, SubmissionsOK
<1>8. SubmissionsOK'
  BY <1>3, <1>4, <1>5, <1>6, <1>7 DEF SubmissionsOK, SubmissionOK
<1>9. L1OK'
  <2>1. \A tx \in txs : tx.id \in 1..spawned /\ tx.id # spawned' /\ tx.id \in 1..spawned'
    BY <1>3, SettlementBounds DEF Grouped, L1OK
  <2>2. \A tx \in txs : tx.id \in DOMAIN submissions' =>
          tx.superblock.number = submissions'[tx.id].number
    BY <1>4, <2>1 DEF Grouped, L1OK
  <2> QED
    BY <1>3, <2>1, <2>2, SettlementBounds DEF Grouped, L1OK, Extends, LatestHash
<1> QED
  BY <1>8, <1>9

\* A mined transaction extends L1 by one or leaves it alone; either way L1 then
\* has its number, so the submission that waits for it may report success.
LEMMA MineStep ==
  ASSUME Grouped, NEW tx \in txs, Mine(tx)
  PROVE  NumbersOK' /\ L1OK' /\ SubmissionsOK'
<1>1. /\ tx.superblock.number \in Nat
      /\ tx.superblock.number <= Len(l1) \/ Extends(tx.superblock)
      /\ l1 \in Seq(Range(l1))
      /\ Len(l1) \in Nat
  BY DEF Grouped, L1OK
<1>2. /\ l1' \in Seq(Range(l1'))
      /\ Len(l1') \in Nat
      /\ Len(l1) <= Len(l1')
      /\ tx.superblock.number <= Len(l1')
      /\ l1' = l1 \/ Len(l1') = Len(l1) + 1
  <2>1. CASE Extends(tx.superblock)
    <3>1. l1' = Append(l1, tx.superblock)
      BY <2>1 DEF Mine
    <3>2. l1 \in Seq(Range(l1) \cup {tx.superblock})
      BY <1>1
    <3>3. /\ Len(l1') = Len(l1) + 1
          /\ l1' \in Seq(Range(l1) \cup {tx.superblock})
      BY <3>1, <3>2, AppendProperties
    <3>4. l1' \in Seq(Range(l1'))
      BY <3>3 DEF Range
    <3> QED
      BY <1>1, <2>1, <3>3, <3>4 DEF Extends
  <2>2. CASE ~Extends(tx.superblock)
    BY <1>1, <2>2 DEF Mine
  <2> QED
    BY <2>1, <2>2
<1>3. NumbersOK'
  BY <1>1, <1>2 DEF Mine, numbers, Grouped, NumbersOK, NumbersAligned, NeverAheadOfL1
<1>4. /\ DOMAIN submissions' = DOMAIN submissions
      /\ \A i \in DOMAIN submissions :
           \/ submissions'[i] = submissions[i]
           \/ /\ i = tx.id
              /\ submissions'[i] = [submissions[i] EXCEPT !.stage = "mined"]
      /\ submissions' = [i \in DOMAIN submissions' |-> submissions'[i]]
  BY DEF Mine
<1>5. \A i \in DOMAIN submissions :
        /\ SubmissionOK(submissions'[i])
        /\ submissions'[i].number = submissions[i].number
        /\ submissions'[i].stage \in {"mined", "succeeded"} =>
             submissions'[i].number <= Len(l1')
  <2> SUFFICES ASSUME NEW i \in DOMAIN submissions
               PROVE  /\ SubmissionOK(submissions'[i])
                      /\ submissions'[i].number = submissions[i].number
                      /\ submissions'[i].stage \in {"mined", "succeeded"} =>
                           submissions'[i].number <= Len(l1')
    OBVIOUS
  <2>1. /\ SubmissionOK(submissions[i])
        /\ submissions[i].stage \in {"mined", "succeeded"} =>
             submissions[i].number <= Len(l1)
    BY DEF Grouped, SubmissionsOK
  <2>2. CASE submissions'[i] = submissions[i]
    BY <1>1, <1>2, <2>1, <2>2 DEF SubmissionOK
  <2>3. CASE i = tx.id /\ submissions'[i] = [submissions[i] EXCEPT !.stage = "mined"]
    <3>1. submissions[i].number = tx.superblock.number
      BY <2>3 DEF Grouped, L1OK
    <3> QED
      BY <1>2, <2>1, <2>3, <3>1 DEF SubmissionOK, Stage
  <2> QED
    BY <1>4, <2>2, <2>3
<1>6. SubmissionsOK'
  BY Zenon, <1>4, <1>5 DEF Mine, Grouped, SubmissionsOK, SubmissionOK
<1>7. L1OK'
  <2>1. \A t \in txs : t.superblock.number <= Len(l1) => t.superblock.number <= Len(l1')
    BY <1>1, <1>2 DEF Grouped, L1OK
  <2>2. \A t \in txs : Extends(t.superblock) =>
          t.superblock.number <= Len(l1') \/ Extends(t.superblock)'
    BY <1>1, <1>2 DEF Extends, LatestHash, Mine, Grouped, L1OK
  <2>3. \A t \in txs' : t \in txs
    BY DEF Mine
  <2>4. \A t \in txs' : t.superblock.number <= Len(l1') \/ Extends(t.superblock)'
    BY <2>1, <2>2, <2>3 DEF Grouped, L1OK
  <2> QED
    BY <1>2, <1>4, <1>5, <2>3, <2>4 DEF Mine, Grouped, L1OK
<1> QED
  BY <1>3, <1>6, <1>7

\* What is said of L1 and its pending transactions does not depend on the stage
\* of the submissions, only on which there are and on their numbers
LEMMA L1Frame ==
  ASSUME L1OK, UNCHANGED <<spawned, txs, l1>>,
         DOMAIN submissions' \subseteq DOMAIN submissions,
         \A j \in DOMAIN submissions' : submissions'[j].number = submissions[j].number
  PROVE  L1OK'
BY DEF L1OK, Extends, LatestHash

\* A retry changes nothing but the attempt and the stage
LEMMA RetriedOK ==
  ASSUME NEW r, SubmissionOK(r), NEW n \in 0..(MaxRetries - 1)
  PROVE  LET s == [r EXCEPT !.attempt = n, !.stage = "ready"]
         IN  /\ SubmissionOK(s)
             /\ s.number = r.number
             /\ s.stage \notin {"mined", "succeeded"}
BY Zenon DEF SubmissionOK, Stage

\* Every step of a submission keeps the invariant
LEMMA SubmitStep ==
  ASSUME Grouped, NEW i \in DOMAIN submissions, Submit(i)
  PROVE  NumbersOK' /\ L1OK' /\ SubmissionsOK'
<1> USE DEF Grouped
<1>1. /\ SubmissionOK(submissions[i])
      /\ submissions[i].stage \in {"mined", "succeeded"} =>
           submissions[i].number <= Len(l1)
  BY DEF SubmissionsOK
<1>2. CASE PrepareSubmission(i)
  <2> DEFINE s == [submissions[i] EXCEPT !.parent = parent_hash, !.stage = "ready"]
  <2>1. /\ submissions' = [submissions EXCEPT ![i] = s]
        /\ UNCHANGED <<spawned, txs, l1, numbers>>
    BY Zenon, <1>2 DEF PrepareSubmission, chainside
  <2>2. /\ SubmissionOK(s)
        /\ s.number = submissions[i].number
        /\ s.stage \notin {"mined", "succeeded"}
    BY Zenon, <1>1 DEF SubmissionOK, Stage
  <2> HIDE DEF s
  <2> QED
    BY Zenon, <2>1, <2>2, UpdateSubmission, L1Frame, Frame
<1>3. CASE ProviderFails(i)
  BY Zenon, <1>3, EndSubmission, L1Frame, Frame DEF ProviderFails, chainside
<1>4. CASE SendSubmission(i)
  <2> DEFINE s == [submissions[i] EXCEPT !.stage = "waiting"]
             sb == Superblock(submissions[i])
             tx == [id |-> i, attempt |-> submissions[i].attempt, superblock |-> sb]
  <2>1. /\ submissions' = [submissions EXCEPT ![i] = s]
        /\ UNCHANGED <<spawned, l1, numbers>>
        /\ txs' = txs \cup {tx}
        /\ Extends(sb)
    BY <1>4 DEF SendSubmission, SetStage
  <2>2. /\ SubmissionOK(s)
        /\ s.number = submissions[i].number
        /\ s.stage \notin {"mined", "succeeded"}
    BY <1>1 DEF SubmissionOK, Stage
  <2>3. /\ tx.id = i
        /\ tx.superblock = sb
        /\ sb.number = submissions[i].number
        /\ sb.number \in Nat
        /\ i \in 1..spawned
    BY <1>1 DEF Superblock, SubmissionOK, SubmissionsOK
  <2> HIDE DEF s, sb, tx
  <2>4. /\ SubmissionsOK'
        /\ DOMAIN submissions' = DOMAIN submissions
        /\ \A j \in DOMAIN submissions : submissions'[j].number = submissions[j].number
    BY Zenon, <2>1, <2>2, UpdateSubmission
  <2>5. L1OK'
    BY <2>1, <2>3, <2>4 DEF L1OK, Extends, LatestHash
  <2> QED
    BY <2>1, <2>4, <2>5, Frame
<1>5. CASE AttemptFails(i)
  <2>1. CASE RetriesLeft(i)
    <3> DEFINE s == [submissions[i] EXCEPT !.attempt = @ + 1, !.stage = "ready"]
    <3>1. /\ submissions' = [submissions EXCEPT ![i] = s]
          /\ UNCHANGED <<spawned, txs, l1, numbers>>
      BY Zenon, <1>5, <2>1 DEF AttemptFails, chainside
    <3>2. /\ SubmissionOK(s)
          /\ s.number = submissions[i].number
          /\ s.stage \notin {"mined", "succeeded"}
      <4>1. submissions[i].attempt \in 0..(MaxRetries - 1)
        BY <1>1 DEF SubmissionOK
      <4>2. submissions[i].attempt + 1 \in 0..(MaxRetries - 1)
        BY <2>1, <4>1, SettlementBounds DEF RetriesLeft
      <4> QED
        BY Zenon, <1>1, <4>2, RetriedOK
    <3> HIDE DEF s
    <3> QED
      BY Zenon, <3>1, <3>2, UpdateSubmission, L1Frame, Frame
  <2>2. CASE ~RetriesLeft(i)
    BY Zenon, <1>5, <2>2, EndSubmission, L1Frame, Frame DEF AttemptFails, chainside
  <2> QED
    BY <2>1, <2>2
<1>6. CASE SubmissionSucceeds(i)
  <2> DEFINE s == [submissions[i] EXCEPT !.stage = "succeeded"]
  <2>1. /\ submissions' = [submissions EXCEPT ![i] = s]
        /\ UNCHANGED <<spawned, txs, l1, numbers>>
    BY <1>6 DEF SubmissionSucceeds, SetStage, chainside
  <2>2. /\ SubmissionOK(s)
        /\ s.number = submissions[i].number
        /\ s.number <= Len(l1)
    BY <1>1, <1>6 DEF SubmissionOK, Stage, SubmissionSucceeds, HasReceipt
  <2> HIDE DEF s
  <2> QED
    BY Zenon, <2>1, <2>2, UpdateSubmission, L1Frame, Frame
<1>7. CASE AdvanceNumbers(i)
  <2>1. /\ submissions' = RemoveKeys(submissions, {i})
        /\ UNCHANGED <<spawned, txs, l1>>
    BY <1>7 DEF AdvanceNumbers, chainside
  <2>2. SubmissionsOK' /\ L1OK'
    BY Zenon, <2>1, EndSubmission, L1Frame
  <2>3. NumbersOK'
    BY <1>1, <1>7, <2>1
       DEF AdvanceNumbers, NextAfter, SubmissionOK, NumbersOK, NumbersAligned, NeverAheadOfL1
  <2> QED
    BY <2>2, <2>3
<1> QED
  BY <1>2, <1>3, <1>4, <1>5, <1>6, <1>7 DEF Submit

\* Every step keeps the invariant
LEMMA IndStep == IndInv /\ [Next]_vars => IndInv'
<1> SUFFICES ASSUME Grouped, [Next]_vars PROVE Grouped'
  BY Grouping
<1>1. ASSUME NEW k \in Client, NEW c \in Chain, RegisterChain(k, c) PROVE Grouped'
  <2>1. RegistryOK'
    BY <1>1, RegisterStep DEF Grouped
  <2>2. UNCHANGED <<admitted, collection, numbers, tasks, reaper, rollbacks, chainside>>
    BY <1>1 DEF RegisterChain
  <2> QED
    BY <2>1, <2>2, Frame DEF Grouped, chainside
<1>2. ASSUME NEW c \in Chain, NEW o \in Outputs \cup {DefaultOutputs}, Admit(c, o)
      PROVE  Grouped'
  <2>1. CollectionOK'
    BY <1>2 DEF Admit, collection, Grouped, CollectionOK, WindowRunsWithCollection
  <2>2. UNCHANGED <<registry, numbers, tasks, reaper, rollbacks, chainside>>
    BY <1>2 DEF Admit
  <2> QED
    BY <2>1, <2>2, Frame DEF Grouped, chainside
<1>3. ASSUME NEW p \in admitted, CollectProof(p) PROVE Grouped'
  <2>1. /\ admitted' \subseteq admitted
        /\ pending_proofs' \in Proofs
        /\ pending_proofs' # EmptyMap
    BY <1>3, WithProofType DEF CollectProof, Grouped
  <2>2. /\ proof_collection_started' \in 0..ProofWindow \cup {None}
        /\ proof_collection_started' # None
    BY <1>3, NoneAssumption, SettlementBounds
       DEF CollectProof, WindowAfterProof, Grouped, CollectionOK
  <2>3. CollectionOK'
    BY <2>1, <2>2 DEF Grouped, CollectionOK, WindowRunsWithCollection
  <2>4. UNCHANGED <<registry, numbers, tasks, reaper, rollbacks, chainside>>
    BY <1>3 DEF CollectProof
  <2> QED
    BY <2>3, <2>4, Frame DEF Grouped, chainside
<1>4. ASSUME NEW p \in admitted, CompleteCollection(p) PROVE Grouped'
  <2>1. CollectionOK'
    BY <1>4, EmptyProofs DEF CompleteCollection, WindowAfterDraining, Grouped,
                             CollectionOK, WindowRunsWithCollection
  <2>2. UNCHANGED <<registry, numbers, reaper, rollbacks, chainside>>
    BY <1>4 DEF CompleteCollection
  <2> QED
    BY <1>4, <2>1, <2>2, SpawnStep, Frame DEF Grouped, chainside
<1>5. ASSUME NEW i \in DOMAIN submissions, Submit(i) PROVE Grouped'
  <2>1. UNCHANGED <<registry, admitted, collection, reaper, rollbacks, restarts>>
    BY <1>5 DEF Submit, PrepareSubmission, ProviderFails, SendSubmission, AttemptFails,
                SubmissionSucceeds, AdvanceNumbers, chainside
  <2> QED
    BY <1>5, <2>1, SubmitStep, Frame DEF Grouped
<1>6. CASE ReapExpiredProofs
  <2>1. CollectionOK' /\ ReaperOK'
    BY <1>6, EmptyProofs DEF ReapExpiredProofs, Grouped, CollectionOK, ReaperOK,
                             WindowRunsWithCollection, chainside
  <2>2. UNCHANGED <<registry, numbers, tasks, chainside>>
    BY <1>6 DEF ReapExpiredProofs
  <2> QED
    BY <2>1, <2>2, Frame DEF Grouped, chainside
<1>7. CASE BroadcastRollback
  <2>1. ReaperOK' /\ NumbersOK'
    BY <1>7 DEF BroadcastRollback, Grouped, ReaperOK, NumbersOK, NumbersAligned,
                NeverAheadOfL1, chainside
  <2>2. UNCHANGED <<registry, admitted, collection, tasks, chainside>>
    BY <1>7 DEF BroadcastRollback
  <2> QED
    BY <2>1, <2>2, Frame DEF Grouped, chainside
<1>8. CASE Restart
  <2>1. RegistryOK'
    BY <1>8 DEF Restart, RegistryOK, RegistrationConsistent, IsMap, EmptyMap
  <2>2. CollectionOK'
    BY <1>8, EmptyProofs DEF Restart, CollectionOK, WindowRunsWithCollection
  <2>3. Len(l1) \in Nat /\ l1' = l1
    BY <1>8 DEF Restart, Grouped, L1OK
  <2>4. NumbersOK'
    BY <1>8, <2>3 DEF Restart, ReadFromL1, StartFromGenesis, NumbersOK, NumbersAligned,
                      NeverAheadOfL1
  <2>5. SubmissionsOK' /\ DOMAIN submissions' = {}
    BY <1>8 DEF Restart, SubmissionsOK, EmptyMap
  <2>6. L1OK'
    BY <1>8, <2>5, L1Frame DEF Restart, Grouped
  <2>7. ReaperOK'
    BY <1>8, SettlementBounds DEF Restart, Grouped, ReaperOK
  <2> QED
    BY <2>1, <2>2, <2>4, <2>5, <2>6, <2>7 DEF Grouped
<1>9. ASSUME NEW tx \in txs, Mine(tx) PROVE Grouped'
  <2>1. UNCHANGED <<registry, admitted, collection, reaper, rollbacks, restarts>>
    BY <1>9 DEF Mine
  <2> QED
    BY <1>9, <2>1, MineStep, Frame DEF Grouped
<1>10. CASE Tick
  <2>1. CollectionOK'
    BY <1>10, NoneAssumption, SettlementBounds
       DEF Tick, Grouped, CollectionOK, WindowRunsWithCollection
  <2>2. UNCHANGED <<registry, numbers, tasks, reaper, rollbacks, chainside>>
    BY <1>10 DEF Tick
  <2> QED
    BY <2>1, <2>2, Frame DEF Grouped, chainside
<1>11. CASE UNCHANGED vars
  <2>1. UNCHANGED <<registry, admitted, collection, numbers, tasks, reaper, rollbacks,
                    chainside>>
    BY <1>11 DEF vars
  <2> QED
    BY <2>1, Frame DEF Grouped, chainside
<1>12. ASSUME NEW c \in Chain, NEW o \in Outputs, SubmitProofHttp(c, o) PROVE Grouped'
  BY <1>2, <1>12 DEF SubmitProofHttp
<1>13. ASSUME NEW k \in Client, SubmitProofQuic(k) PROVE Grouped'
  <2>1. client_to_chain[k] \in Chain /\ Admit(client_to_chain[k], DefaultOutputs)
    BY <1>13 DEF SubmitProofQuic, Grouped, RegistryOK, IsMap
  <2> QED
    BY <1>2, <2>1
<1>14. ASSUME NEW p \in admitted, ReceiveProof(p) PROVE Grouped'
  BY <1>3, <1>4, <1>14 DEF ReceiveProof
<1> QED
  BY <1>1, <1>5, <1>6, <1>7, <1>8, <1>9, <1>10, <1>11, <1>12, <1>13, <1>14 DEF Next

\* The inductive invariant holds throughout.
THEOREM Invariance == Spec => []IndInv
BY IndInit, IndStep, PTL DEF Spec

\* The types of the settlement state are kept.
THEOREM TypeCorrect == Spec => []TypeOK
<1>1. IndInv => TypeOK
  BY DEF IndInv
<1> QED
  BY <1>1, Invariance, PTL

\* The client a chain is routed to is one that registered that chain last.
THEOREM RegistrationSafety == Spec => []RegistrationConsistent
<1>1. IndInv => RegistrationConsistent
  BY DEF IndInv
<1> QED
  BY <1>1, Invariance, PTL

\* The proof window runs exactly while proofs are being collected.
THEOREM WindowSafety == Spec => []WindowRunsWithCollection
<1>1. IndInv => WindowRunsWithCollection
  BY DEF IndInv
<1> QED
  BY <1>1, Invariance, PTL

\* The next superblock is always the one after the last finalized one.
THEOREM NumberSafety == Spec => []NumbersAligned
<1>1. IndInv => NumbersAligned
  BY DEF IndInv
<1> QED
  BY <1>1, Invariance, PTL

\* No superblock counts as finalized before L1 has its number, whatever the
\* retries, competing submissions and restarts.
THEOREM L1Safety == Spec => []NeverAheadOfL1
<1>1. IndInv => NeverAheadOfL1
  BY DEF IndInv
<1> QED
  BY <1>1, Invariance, PTL

================================================================================

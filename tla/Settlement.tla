------------------------------- MODULE Settlement -------------------------------
(***************************************************************************)
(* Chain registration, proof collection and L1 settlement of a publisher   *)
(* with a configured L1 submitter: the other half of CoordinatorState and  *)
(* Coordinator, L1Submitter, and the HTTP and QUIC entry points of proofs. *)
(*                                                                         *)
(* A proof passes its registration check under a read lock and is stored   *)
(* under a later write lock: in between it is in `admitted'.  A complete   *)
(* collection spawns a submission, which runs beside everything else: it   *)
(* reads the parent hash, sends up to MAX_RETRIES transactions, waits for  *)
(* receipts and only then takes the lock again to advance the superblock   *)
(* numbers.  The reaper clears an expired collection under one lock and    *)
(* prepares the Rollback under another.                                    *)
(*                                                                         *)
(* The L1 contract is external.  It accepts a superblock that extends the  *)
(* latest one by number and parent hash and reverts any other; a sent      *)
(* transaction may stay pending for any time, also past the end of its     *)
(* submission or a restart of the publisher.                               *)
(***************************************************************************)
EXTENDS Collections, FiniteSets

CONSTANTS
  Chain,           \* chain ids
  Client,          \* client ids of sidecar connections
  Outputs,         \* aggregation outputs posted over HTTP, l1_head non-zero
  DefaultOutputs,  \* AggregationOutputs::default(), what a QUIC proof carries
  ZeroHash,        \* B256::ZERO, and the empty hash of a new CoordinatorState
  None,
  ProofWindow,     \* config consensus.proof_window, in clock ticks
  MaxRetries,      \* MAX_RETRIES
  MaxAdmitted,     \* bound: proofs between their check and receive_proof
  MaxSubmissions,  \* bound: complete collections
  MaxRestarts      \* bound: restarts of the publisher

ASSUME NoneAssumption == None \notin Nat
ASSUME SettlementBounds ==
  /\ ProofWindow \in Nat \ {0}
  /\ MaxRetries \in Nat \ {0}
  /\ MaxAdmitted \in Nat
  /\ MaxSubmissions \in Nat
  /\ MaxRestarts \in Nat

VARIABLES
  chain_to_client,
  client_to_chain,
  admitted,          \* proofs that passed their check: [chain, outputs]
  pending_proofs,    \* chain -> outputs of its latest proof
  proof_collection_started,  \* None, or the age of the collection
  next_superblock_number,
  last_finalized_superblock_number,
  last_finalized_superblock_hash,
  parent_hash,       \* of L1Submitter
  submissions,       \* id -> [number, proofs, parent, attempt, stage]
  spawned,           \* ids given to submissions so far
  reaper,            \* "idle", or "rollback" between its two locks
  rollbacks,         \* Rollback messages broadcast
  txs,               \* pending L1 transactions: [id, attempt, superblock]
  l1,                \* the superblocks L1 has accepted, in order
  restarts

registry == <<chain_to_client, client_to_chain>>
collection == <<pending_proofs, proof_collection_started>>
numbers == <<next_superblock_number, last_finalized_superblock_number,
             last_finalized_superblock_hash>>
tasks == <<submissions, spawned>>
chainside == <<txs, l1, restarts>>
vars == <<registry, admitted, collection, numbers, parent_hash, tasks, reaper,
          rollbacks, chainside>>

\* How many elements of the map's domain have each value
Multiset(map) == [v \in Range(map) |-> Cardinality({k \in DOMAIN map : map[k] = v})]

\* SuperblockAggregationOutputs: number, parent and the boot infos of the proofs,
\* sorted, so a multiset.  A superblock's hash is taken as injective and the
\* superblock stands for it.
Superblock(s) ==
  [number |-> s.number, parent |-> s.parent, bootInfo |-> Multiset(s.proofs)]

--------------------------------------------------------------------------------
\* CoordinatorState::new(), with nothing on L1
Init ==
  /\ chain_to_client = EmptyMap
  /\ client_to_chain = EmptyMap
  /\ admitted = {}
  /\ pending_proofs = EmptyMap
  /\ proof_collection_started = None
  /\ next_superblock_number = 1
  /\ last_finalized_superblock_number = 0
  /\ last_finalized_superblock_hash = ZeroHash
  /\ parent_hash = ZeroHash
  /\ submissions = EmptyMap
  /\ spawned = 0
  /\ reaper = "idle"
  /\ rollbacks = {}
  /\ txs = {}
  /\ l1 = <<>>
  /\ restarts = 0

--------------------------------------------------------------------------------
\* Registration

\* The chain a client registered before, dropped from chain_to_client whoever
\* holds it now
Forgotten_Nothing(k) == {}
Forgotten(k) == {client_to_chain[j] : j \in {k} \cap DOMAIN client_to_chain}

\* register_chain, on connecting (the chain in the client id) or by a handshake
\* (the chain the message names)
RegisterChain(k, c) ==
  /\ chain_to_client' = Insert(RemoveKeys(chain_to_client, Forgotten(k)), c, k)
  /\ client_to_chain' = Insert(client_to_chain, k, c)
  /\ UNCHANGED <<admitted, collection, numbers, parent_hash, tasks, reaper,
                 rollbacks, chainside>>

--------------------------------------------------------------------------------
\* Proofs

Admit(c, o) ==
  /\ Cardinality(admitted) < MaxAdmitted
  /\ admitted' = admitted \cup {[chain |-> c, outputs |-> o]}
  /\ UNCHANGED <<registry, collection, numbers, parent_hash, tasks, reaper,
                 rollbacks, chainside>>

\* handle_submit_proof finds the chain registered.  A zero l1_head or an unknown
\* chain is turned away without a trace.
SubmitProofHttp(c, o) == c \in DOMAIN chain_to_client /\ Admit(c, o)

\* handle_proof: the chain is the one its client last registered
SubmitProofQuic(k) ==
  k \in DOMAIN client_to_chain /\ Admit(client_to_chain[k], DefaultOutputs)

WithProof(p) == Insert(pending_proofs, p.chain, p.outputs)

\* The count receive_proof compares: proofs in hand against registered chains
IsComplete(proofs) ==
  /\ DOMAIN chain_to_client # {}
  /\ Cardinality(DOMAIN proofs) >= Cardinality(DOMAIN chain_to_client)

WindowAfterProof_Restarted == 0
WindowAfterProof ==
  IF proof_collection_started = None THEN 0 ELSE proof_collection_started

\* receive_proof stores a proof, replacing an earlier one of its chain, and
\* starts the window if none runs
CollectProof(p) ==
  /\ ~IsComplete(WithProof(p))
  /\ admitted' = admitted \ {p}
  /\ pending_proofs' = WithProof(p)
  /\ proof_collection_started' = WindowAfterProof
  /\ UNCHANGED <<registry, numbers, parent_hash, tasks, reaper, rollbacks, chainside>>

WindowAfterDraining_Kept == WindowAfterProof
WindowAfterDraining == None

\* receive_proof drains the collection and spawns its submission.  Both entry
\* points leave mailbox_info empty, so validate_mailbox_consistency finds nothing
\* to compare.
CompleteCollection(p) ==
  /\ IsComplete(WithProof(p))
  /\ spawned < MaxSubmissions
  /\ admitted' = admitted \ {p}
  /\ pending_proofs' = EmptyMap
  /\ proof_collection_started' = WindowAfterDraining
  /\ spawned' = spawned + 1
  /\ submissions' = Insert(submissions, spawned',
       [number |-> next_superblock_number, proofs |-> WithProof(p),
        parent |-> ZeroHash, attempt |-> 0, stage |-> "spawned"])
  /\ UNCHANGED <<registry, numbers, parent_hash, reaper, rollbacks, chainside>>

ReceiveProof(p) == CollectProof(p) \/ CompleteCollection(p)

--------------------------------------------------------------------------------
\* L1Submitter::submit, as spawned by receive_proof

\* What the contract accepts
LatestHash == IF l1 = <<>> THEN ZeroHash ELSE l1[Len(l1)]
Extends(sb) == sb.number = Len(l1) + 1 /\ sb.parent = LatestHash

SetStage(i, stage) == submissions' = [submissions EXCEPT ![i].stage = stage]

\* submit reads parent_hash and encodes the outputs
PrepareSubmission(i) ==
  /\ submissions[i].stage = "spawned"
  /\ submissions' = [submissions EXCEPT ![i].parent = parent_hash, ![i].stage = "ready"]
  /\ UNCHANGED <<registry, admitted, collection, numbers, parent_hash, spawned,
                 reaper, rollbacks, chainside>>

\* build_provider fails on a malformed key or URL and submit returns the error
ProviderFails(i) ==
  /\ submissions[i].stage = "spawned"
  /\ submissions' = RemoveKeys(submissions, {i})
  /\ UNCHANGED <<registry, admitted, collection, numbers, parent_hash, spawned,
                 reaper, rollbacks, chainside>>

\* proposeL2Output(..).send() goes through: the provider estimates gas first, so
\* the contract would accept the superblock at this moment
SendSubmission(i) ==
  /\ submissions[i].stage = "ready"
  /\ Extends(Superblock(submissions[i]))
  /\ SetStage(i, "waiting")
  /\ txs' = txs \cup {[id |-> i, attempt |-> submissions[i].attempt,
                       superblock |-> Superblock(submissions[i])]}
  /\ UNCHANGED <<registry, admitted, collection, numbers, parent_hash, spawned,
                 reaper, rollbacks, l1, restarts>>

RetriesLeft_OffByOne(i) == submissions[i].attempt < MaxRetries
RetriesLeft(i) == submissions[i].attempt + 1 < MaxRetries

\* An attempt ends in an error: send fails, or the receipt of a transaction that
\* was sent cannot be had.  After the last attempt submit returns the error and
\* its task only logs it.
AttemptFails(i) ==
  /\ submissions[i].stage \in {"ready", "waiting", "mined"}
  /\ submissions' =
       IF RetriesLeft(i)
       THEN [submissions EXCEPT ![i].attempt = @ + 1, ![i].stage = "ready"]
       ELSE RemoveKeys(submissions, {i})
  /\ UNCHANGED <<registry, admitted, collection, numbers, parent_hash, spawned,
                 reaper, rollbacks, chainside>>

\* get_receipt returns a receipt; submit does not look at its status
HasReceipt_Sent(i) == submissions[i].stage \in {"waiting", "mined"}
HasReceipt(i) == submissions[i].stage = "mined"

SubmissionSucceeds(i) ==
  /\ HasReceipt(i)
  /\ parent_hash' = Superblock(submissions[i])
  /\ SetStage(i, "succeeded")
  /\ UNCHANGED <<registry, admitted, collection, numbers, spawned, reaper,
                 rollbacks, chainside>>

\* The spawned task takes the lock and advances the numbers
NextAfter_Same(n) == n
NextAfter(n) == n + 1

AdvanceNumbers(i) ==
  /\ submissions[i].stage = "succeeded"
  /\ last_finalized_superblock_number' = submissions[i].number
  /\ next_superblock_number' = NextAfter(submissions[i].number)
  /\ submissions' = RemoveKeys(submissions, {i})
  /\ UNCHANGED <<registry, admitted, collection, last_finalized_superblock_hash,
                 parent_hash, spawned, reaper, rollbacks, chainside>>

Submit(i) ==
  \/ PrepareSubmission(i)
  \/ ProviderFails(i)
  \/ SendSubmission(i)
  \/ AttemptFails(i)
  \/ SubmissionSucceeds(i)
  \/ AdvanceNumbers(i)

--------------------------------------------------------------------------------
\* The proof window

\* reap_expired_proofs, first lock
ReapExpiredProofs ==
  /\ reaper = "idle"
  /\ proof_collection_started \in Nat
  /\ proof_collection_started >= ProofWindow
  /\ pending_proofs' = EmptyMap
  /\ proof_collection_started' = None
  /\ reaper' = "rollback"
  /\ UNCHANGED <<registry, admitted, numbers, parent_hash, tasks, rollbacks, chainside>>

\* reap_expired_proofs, second lock and broadcast
BroadcastRollback ==
  /\ reaper = "rollback"
  /\ next_superblock_number' = last_finalized_superblock_number + 1
  /\ rollbacks' = rollbacks \cup {[number |-> last_finalized_superblock_number,
                                   hash |-> last_finalized_superblock_hash]}
  /\ reaper' = "idle"
  /\ UNCHANGED <<registry, admitted, collection, last_finalized_superblock_number,
                 last_finalized_superblock_hash, parent_hash, tasks, chainside>>

--------------------------------------------------------------------------------
\* Restart

\* What init_from_l1 leaves when L1 answers and has superblocks
ReadFromL1 ==
  /\ l1 # <<>>
  /\ last_finalized_superblock_number' = Len(l1)
  /\ last_finalized_superblock_hash' = LatestHash
  /\ next_superblock_number' = Len(l1) + 1
  /\ parent_hash' = LatestHash

\* What it leaves when L1 has none, or cannot be read
StartFromGenesis ==
  /\ last_finalized_superblock_number' = 0
  /\ last_finalized_superblock_hash' = ZeroHash
  /\ next_superblock_number' = 1
  /\ parent_hash' = ZeroHash

\* The publisher stops anywhere and starts anew: nothing but L1 survives
Restart ==
  /\ restarts < MaxRestarts
  /\ restarts' = restarts + 1
  /\ chain_to_client' = EmptyMap
  /\ client_to_chain' = EmptyMap
  /\ admitted' = {}
  /\ pending_proofs' = EmptyMap
  /\ proof_collection_started' = None
  /\ submissions' = EmptyMap
  /\ reaper' = "idle"
  /\ ReadFromL1 \/ StartFromGenesis
  /\ UNCHANGED <<spawned, rollbacks, txs, l1>>

--------------------------------------------------------------------------------
\* Environment

\* A pending transaction is mined: it extends the chain or it reverts.  Its
\* submission, if it still waits for it, can have the receipt now.
Mine(tx) ==
  /\ txs' = txs \ {tx}
  /\ l1' = IF Extends(tx.superblock) THEN Append(l1, tx.superblock) ELSE l1
  /\ submissions' =
       [i \in DOMAIN submissions |->
          IF i = tx.id /\ submissions[i].attempt = tx.attempt
                       /\ submissions[i].stage = "waiting"
          THEN [submissions[i] EXCEPT !.stage = "mined"]
          ELSE submissions[i]]
  /\ UNCHANGED <<registry, admitted, collection, numbers, parent_hash, spawned,
                 reaper, rollbacks, restarts>>

\* Time passes for a collection that has not reached its window
Tick ==
  /\ proof_collection_started \in Nat
  /\ proof_collection_started < ProofWindow
  /\ proof_collection_started' = proof_collection_started + 1
  /\ UNCHANGED <<registry, admitted, pending_proofs, numbers, parent_hash, tasks,
                 reaper, rollbacks, chainside>>

Next ==
  \/ \E k \in Client, c \in Chain : RegisterChain(k, c)
  \/ \E c \in Chain, o \in Outputs : SubmitProofHttp(c, o)
  \/ \E k \in Client : SubmitProofQuic(k)
  \/ \E p \in admitted : ReceiveProof(p)
  \/ \E i \in DOMAIN submissions : Submit(i)
  \/ ReapExpiredProofs
  \/ BroadcastRollback
  \/ Restart
  \/ \E tx \in txs : Mine(tx)
  \/ Tick

Spec == Init /\ [][Next]_vars

--------------------------------------------------------------------------------
\* Properties

Proofs == UNION {[S -> Outputs \cup {DefaultOutputs}] : S \in SUBSET Chain}

Stage == {"spawned", "ready", "waiting", "mined", "succeeded"}

\* Every variable has its type.
TypeOK ==
  /\ IsMap(chain_to_client, Chain, Client)
  /\ IsMap(client_to_chain, Client, Chain)
  /\ admitted \subseteq [chain : Chain, outputs : Outputs \cup {DefaultOutputs}]
  /\ pending_proofs \in Proofs
  /\ proof_collection_started \in 0..ProofWindow \cup {None}
  /\ next_superblock_number \in Nat
  /\ last_finalized_superblock_number \in Nat
  /\ DOMAIN submissions \subseteq 1..spawned
  /\ submissions = [i \in DOMAIN submissions |-> submissions[i]]
  /\ \A i \in DOMAIN submissions :
       submissions[i] \in [number : Nat, proofs : Proofs, parent : {submissions[i].parent},
                          attempt : 0..(MaxRetries - 1), stage : Stage]
  /\ spawned \in 0..MaxSubmissions
  /\ reaper \in {"idle", "rollback"}
  /\ \A r \in rollbacks : r.number \in Nat
  /\ \A tx \in txs : tx.id \in 1..spawned /\ tx.superblock.number \in Nat
  /\ l1 \in Seq(Range(l1))
  /\ restarts \in 0..MaxRestarts

\* The two registration maps never contradict each other: the client a chain is
\* routed to is one that registered that chain last, however clients change
\* chains and chains change clients (register_chain).
RegistrationConsistent ==
  \A c \in DOMAIN chain_to_client :
    /\ chain_to_client[c] \in DOMAIN client_to_chain
    /\ client_to_chain[chain_to_client[c]] = c

\* The proof window runs exactly while proofs are being collected: no collection
\* waits without a deadline, and no deadline outlives its collection to roll the
\* rollups back for nothing (receive_proof, reap_expired_proofs).
WindowRunsWithCollection ==
  proof_collection_started = None <=> pending_proofs = EmptyMap

\* StartPeriod names the superblock after the last finalized one, whichever of
\* several submissions, rollbacks and restarts set the numbers last.
NumbersAligned ==
  next_superblock_number = last_finalized_superblock_number + 1

\* The publisher never takes a superblock for finalized that L1 does not have,
\* nor announces one beyond the next, through retries, lost receipts, competing
\* submissions of one number and restarts: numbers move only on a receipt.
NeverAheadOfL1 == last_finalized_superblock_number <= Len(l1)

\* What NeverAheadOfL1 rests on: a pending transaction still extends L1 or its
\* number is taken, it carries the number of its submission, and once it is mined
\* L1 has that number.
SubmissionsWithinL1 ==
  /\ \A tx \in txs :
       /\ tx.superblock.number <= Len(l1) \/ Extends(tx.superblock)
       /\ tx.id \in DOMAIN submissions =>
            tx.superblock.number = submissions[tx.id].number
  /\ \A i \in DOMAIN submissions :
       submissions[i].stage \in {"mined", "succeeded"} =>
         submissions[i].number <= Len(l1)

\* The inductive invariant.
IndInv ==
  /\ TypeOK
  /\ RegistrationConsistent
  /\ WindowRunsWithCollection
  /\ NumbersAligned
  /\ NeverAheadOfL1
  /\ SubmissionsWithinL1

--------------------------------------------------------------------------------
\* What the code's comments say and the code does not keep

\* "submits once all chains report": a submission is spawned only with a proof of
\* every registered chain.  receive_proof compares counts, and counts proofs of
\* chains that are no longer registered.
EveryChainReported ==
  [][\A i \in DOMAIN submissions' \ DOMAIN submissions :
       DOMAIN chain_to_client \subseteq DOMAIN submissions'[i].proofs]_vars

\* parent_hash "tracks the hash of the last successfully submitted superblock":
\* it is zero or the hash of a superblock on L1.  submit stores the hash of a
\* superblock whose transaction reverted as well.
ParentWasAccepted == parent_hash \in {ZeroHash} \cup Range(l1)

\* A Rollback names a finalized superblock, which the sidecars can match with the
\* state L1 settled: number and hash belong together.
RollbackNamesSettledState ==
  \A r \in rollbacks :
    r.hash = IF r.number = 0 THEN ZeroHash ELSE l1[r.number]

--------------------------------------------------------------------------------
\* Liveness.  Time passes and the reaper's interval keeps ticking; nothing makes
\* a chain send its proof.
FairSpec ==
  Spec /\ WF_vars(Tick) /\ WF_vars(ReapExpiredProofs) /\ WF_vars(BroadcastRollback)

\* A collection that starts is eventually submitted or given up, even if proofs
\* keep arriving that do not complete it.
CollectionEnds == proof_collection_started # None ~> proof_collection_started = None

================================================================================

# A TLA+ model of the shared publisher

The shared publisher coordinates cross-chain transactions (XTs) of rollups: it
runs a two-phase commit over their sidecars, announces periods, collects the
rollups' proofs and settles superblocks on L1. This directory models its
concurrent state machines in TLA+, checks them with TLC and proves their main
safety properties with TLAPS.

## The system and its parts

| Part | Source | Modules |
|------|--------|---------|
| XT consensus (2PC, queue, timeouts, periods) | `coordinator.rs`, `handlers.rs`, `spec-sbcp/id.rs` | `XtConsensus`, `AtomicCommit` |
| Registration, proof collection, L1 settlement | `coordinator.rs`, `l1_submit.rs`, `handlers.rs`, `server/handlers/proofs.rs` | `Settlement` |
| QUIC connection registry | `transport/server.rs`, `main.rs` | `ConnectionRegistry` |
| Registration tasks, handshake, ping, mailbox relay | `main.rs`, `handlers.rs`, `coordinator.rs`, `transport/server.rs` | `Routing` |
| SBCP publisher (vendored protocol library) | `spec-sbcp/publisher.rs` | `SbcpPublisher` |
| SBCP sequencer (same library) | `spec-sbcp/sequencer.rs` | `SbcpSequencer` |
| The SBCP protocol: publisher and sequencers | both | `Sbcp`, `SbcpInvariant` |
| Framing, instance-id preimage, chain-id parsing | `framing.rs`, `id.rs`, `handlers.rs` | `Wire` |
| Configuration, tracing, TLS, sockets, HTTP views, protobuf types | | not modelled: no protocol state |

`main.rs` starts the QUIC server, the period loop and the reaper loop. Each
message of a sidecar is dispatched in a tokio task of its own. `Coordinator`
guards one `CoordinatorState` with one lock. Its 2PC fields and its settlement
fields are disjoint, and no handler but the period broadcast reads both, so they
are two modules. The SBCP publisher and sequencer are a library of the same
protocol that the binary does not instantiate; of its crate the binary uses
`generate_instance_id`.

## How the models correspond to the code

`Collections` has the `HashMap` and `Vec` operations. Variables have the names of
the fields they model. Every critical section is one action. What a handler does
after it releases the lock is explicit state.

**XtConsensus.** `HandleXtRequest`, `HandleVote`, `ReapTimedOutXts` and
`AdvancePeriod` are the handlers' critical sections. `tasks` holds what their
tasks still have to do: the messages to broadcast, one `Broadcast` step each, and
whether to run `drain_queue` (`DrainNext`, `DrainDone`) afterwards. `sent` is a
set, because every message has a QUIC stream of its own and failed sends are only
logged. Sidecars are external: they vote on any announced instance, under any
chain id, any number of times. Instance ids are an injective function of period,
sequence number and request.

**AtomicCommit** is what the publisher promises: concurrent instances span
disjoint chains, and each ends at most once, committed only with every chain's
consent. `XtConsensus` implements it. An instance counts as decided from the
moment its `Decided` message exists.

**Settlement.** `RegisterChain`, the two proof entry points (check first, store
under a later lock), `ReceiveProof`, the stages of a spawned submission, the two
locks of `reap_expired_proofs`, and `Restart` with `init_from_l1` succeeding or
failing. L1 is external: it accepts a superblock that extends its latest by number
and parent hash, and reverts any other. A transaction may stay pending past its
submission or a restart. `send()` estimates gas first, so a transaction is sent
only if L1 would accept it at that moment; `NeverAheadOfL1` depends on this.
A superblock stands for its hash.

**SbcpPublisher.** Each method is an action under the mutex. `receive_proof`
releases it while the prover runs, which gives `ReceiveProof`, then
`ProverSucceeds` and `Publish`, or `ProverFails`. `announced`, `published`,
`undecided`, `epoch` and `l1` record what the environment has seen. Calls that
return an error are stuttering steps.

**SbcpSequencer.** One record of `SequencerState` per chain, one operator per
method. `start_period` and `end_block` call `start_settlement` after they release
the mutex: a running call is an element of `settling`, which reads the sealed header
in a step of its own (`ReadHeader`) and then sends the proof or fails.

**Sbcp** composes the two. The publisher's messages are queued per sequencer and
arrive in order (`inbox`); a sequencer may refuse one, which then changes nothing.
A proof that was sent may reach the publisher at any time, several times or never.
L1's events reach the publisher and each sequencer separately and late, so a Rollback can
name a superblock whose event the sequencer has not seen; it is then refused
(`refused`), as `rollback` does. L1 may also settle what was rolled back
(`overtaken`), which is the behaviour of `sbcp_published_stale`. Some properties
except these two cases, because the library has no step that repairs them. `aimed`,
`kept`, `contents`, `origin` and `started` only record history.

**ConnectionRegistry** and **Routing.** One task per connection, with a step per lock
or callback, and `broadcast_raw` as a copy followed by one send per connection.
`Routing` adds the tasks that `on_connect` and `on_message` spawn, each a record that
steps through the coordinator's lock, the registry's lock and the send. Which client
a chain belongs to is `Settlement`'s; here a relay may address any registered client.

**Wire** has pure operators over inputs that grow step by step. Lengths, symbols and
digits stand for bytes; `Digits` and the frame's body are the references. What the code
loops over is a recursive function here (`ParseU64`, `Digits`) or `FlattenSeq`.

## Runs

| Run | Question | Bounds |
|-----|----------|--------|
| `xt_voting` | unique, unanimous decisions; unique numbers; refinement; the inductive invariant | 3 chains, 2 competing requests, 3 votes, 2 periods |
| `xt_queueing` | exact reservations, queue limit, no lost wake-up; started XTs are decided, the queue empties | 3 chains, 4 arrivals of 3 requests (one naming a chain twice), queue of 2, 1 vote, 1 period |
| `settlement_collection` | registration maps, proof window, numbers; a collection ends | 2 chains, 2 clients, 2 proofs in flight, 1 submission |
| `settlement_l1` | never ahead of L1; the inductive invariant | 1 chain, 2 attempts, 3 submissions, 1 restart |
| `sbcp_publisher` | numbers, periods and hashes agree with announcements and L1; active chains are those of undecided instances before a rollback; the inductive invariant | 2 chains, 3 new periods, 1 rollback, window 2, an instance a period |
| `sbcp` | agreement on period and target, no stale proof kept, the lock is released, no instance runs twice, history and settlements in order; the inductive invariant | 1 chain, 2 new periods, 1 rollback, 2 blocks, 3 messages in flight, an instance in the first period and another after a rollback in it |
| `routing` | a live connection is registered, no stale entry, exact gauge, broadcasts reach open connections, answers go where they belong; closed connections leave, connected sidecars register | 2 connections, 2 clients, 1 message or broadcast at a time |
| `wire` | frames, preimages and chain ids | payloads to 20 bytes for a header of 3 bits, requests of 2 chains with 2 transactions, ids of 5 characters |

The bounds are the smallest that let the interesting cases happen together. Two requests
that share a chain, with a third beside them, exercise every path of reservation,
queueing and draining. Timeouts and windows of one tick separate "before" from "after".
Three submissions give two that compete for one number and one after them. Three new
periods settle two superblocks around a rollback. One chain is enough for `sbcp`:
sequencers share nothing but the publisher, and how it counts several chains is
`sbcp_publisher`'s question. One rollback lets messages and proofs of one epoch meet the
next; a second one multiplies the states by seven, and what it could add is covered by
the proofs, which bound no rollbacks. Two connections give a replacement and a
reconnection. The SBCP and routing runs do not check deadlock: a library nobody calls
any more, and a server that was shut down, may stop; inputs of `wire` end at their
bound.

The inductive invariants (`IndInv`, of `sbcp` `Inductive`) that the runs check contain
the types (`TypeOK`), and that of `routing` contains `NoStaleEntry`.

Each checked property has a mutant, a plausible bug of the code under the name
`<definition>_<Bug>`, which TLC shows to violate it.

### Where the code departs from its comments

Four runs end in a counterexample.

- `parent_hash`: a reverted transaction's superblock becomes `parent_hash`
  (`l1_submit.rs:181`).
- `rollback_hash`: a Rollback after a successful submission carries the new number
  and the old hash (`coordinator.rs:680`). `FinalizedPairOnL1` shows that the SBCP
  publisher keeps the pair together.
- `chains_reported`: proofs of departed chains count as reports
  (`coordinator.rs:649`).
- `sbcp_published_stale`: a superblock built before a rollback is published after
  it (`publisher.rs:259`).

Five behaviours contradict no comment, or only a log line, and have no run.

- The decision of an instance from before a rollback, reported after it, frees a
  newer instance's chains in the publisher (`publisher.rs:320`).
- A block that outlives two periods settles only the later one (`sequencer.rs:283`),
  although the log of the first says that its settlement will wait
  (`sequencer.rs:141`). `SettlementsAsAnnounced` shows that what is settled is
  settled for the right superblock.
- After a rollback instance ids repeat, and a sequencer that starts only the second
  instance can be released by the late decision of the first (`sequencer.rs:235`).
- A publisher created with its target equal to the finalized superblock lets a block of
  that superblock prove the next one after a rollback (`publisher.rs:360`; see "What is
  proved").
- An empty transaction leaves nothing but its count in the instance id
  (`id.rs:22`). `PreimageInjective` is about requests without one.

## Fairness

- XtConsensus: time passes, the reaper's interval keeps ticking (`main.rs:162`),
  and tokio runs ready tasks; a send completes or fails. Nothing makes a sidecar
  vote.
- Settlement: time passes and the reaper keeps running. Nothing makes a chain
  prove.
- Routing: the task of a closed connection goes on, because its awaits fail, and
  tokio runs the tasks `on_connect` spawned. Nothing is assumed of open connections,
  of peers, of broadcasts or of the tasks that handle messages.

## What is proved

For every value of the constants that satisfies the named assumptions:

- `XtProofs`: `TypeCorrect`, types and the queue's limit; `Invariance` of `IndInv`, and
  from it `ReservationSafety`, `DecisionSafety`, `CommitSafety`, `WakeupSafety` and
  `NumberingSafety`; `Refinement`, that `XtConsensus` implements `AtomicCommit`.
- `SettlementProofs`: `Invariance`, and from it `TypeCorrect`,
  `RegistrationSafety`, `WindowSafety`, `NumberSafety` and `L1Safety`.
- `SbcpPublisherProofs`: `Invariance`, and from it `TypeCorrect`, `TargetSafety`,
  `ArithmeticSafety`, `PeriodSafety`, `FinalizedSafety` and `ActiveChainSafety`. Over
  `WireSpec`: `PreimageSafety`, from `PreimageUnique`, for requests of every length.
- `SbcpOrderProofs`, of the composed protocol: `Invariance` of `IndInv`, and from it
  `LockSafety`, `LockReleaseSafety` and `SettlementSafety`; `OrderInvariance`, and from
  it `QuietSafety` and the action property `StartsOnceSafety`.
- `SbcpChainProofs` and `SbcpKeptProofs`: lemmas, one per action, on the blocks of a chain
  and on the proofs of the publisher.
- `SbcpProofs`: from them `HistoryInvariance` and `InductiveInvariance`, then
  `KeptProofsSafety` and `HistorySafety`.
- `NetworkProofs`: `Invariance` over `RoutingSpec`, and from it `TypeCorrect`,
  `RegistrationSafety`, `GaugeSafety`, `BroadcastSafety` and `AnswerSafety`. Over
  `WireSpec`: `FrameSafety` and `ChainIdSafety`, for payloads and client ids of every
  length.

The 2PC invariants are not inductive alone. `DecisionsAgree` needs that a new
instance's number was never issued (`IssuedBefore`). `CommitNeedsEveryChain` needs
that recorded votes were cast, for chains the instance spans (`ActiveFaithful`):
then as many votes as chains means a vote of every chain. `NoLostWakeup` needs that
a task replaced in `tasks` was not one about to drain (`TaskShape`). `NeverAheadOfL1`
needs that a pending transaction either extends L1 or has a number L1 already has
(`SubmissionsWithinL1`): then a mined transaction's number is on L1 even if it
reverted.

For the SBCP publisher the key is what may be under way: no superblock being proved,
published or on L1 is more than one ahead of the finalized one, or beyond the target.
Then `advance_settled_state` cannot overtake the target, and a rollback, which sets the
target to one after the finalized superblock, cannot fall below anything under way.

For the composed protocol the invariant has three layers (`Inductive`). `IndInv` speaks
of single messages. A StartPeriod in flight
names a pair the publisher announced, and announcements never change. A StartInstance
in flight is of an undecided instance, or its Decided is behind it in the queue. A
sequencer whose block outlives its period holds the pair of the StartPeriod it took.
So `end_block` settles an announced pair, and whoever takes the lock has its release
still to come.

`OrderInv` (`SbcpInvariant`) speaks of the whole queue. Every StartPeriod and Rollback in
it sets the sequencer's period and target. Each setting continues the one before, the
first continues the sequencer, and the last is the publisher's; with an empty queue that
is `QuietAgreement`. An instance that arrives is of the period in force then, and those
started in a period have numbers up to `last_sequence_number`, so repeated ids are
refused (`StartsOnce`).

`HistoryInv` relates the blocks, their proofs and L1. Between two rollbacks the target
keeps its lead over the period. A rollback leaves the period and sets the target to the
one superblock after the final one, so every period that ended before it goes, with the
new lead, with a superblock that is final. A proof of a superblock that is not final,
with the publisher's present lead over its period (`Current`), was therefore made since
the last rollback, by a chain with no Rollback on its way, and its header is still the
one sealed for that period. This is why `receive_proof`'s check of the period is enough
(`KeptProofsCurrent`). What a chain remembers of superblocks on L1 is then what L1 has,
at or below its head, and a rollback to the latest settled superblock removes only later
blocks (`HistoryConsistent`). This layer is about chains that refused no rollback, and
while L1 settles nothing that was rolled back, like the properties.

The two theorems of `SbcpProofs` assume that the publisher starts with a target beyond
what is final (`InitTarget > InitFinalized`). `Publisher::new` also accepts a target equal
to it, and then both properties are false: the first rollback moves the target *up*, and
a block of the first period, of a superblock that was final already, is not discarded
but proves the next one.

For the registry, the entry of a client is the connection that registered last, and
its task is not past its clean-up; older connections of the client are closed. The
gauge is the number of connections between their callbacks (`Counted`). An answer
names the client of the connection its message came on, which stays the client's entry
until it closes.

The encodings need no invariant but the types of the inputs (`InputsTyped`,
`RequestTyped`); their proofs are inductions on lengths and numbers (`NatSetInduction`,
which is stated for a set, since the provers cannot instantiate an operator). Each
recursion is first shown to have a solution. Instances with the same preimage are
compared from the left: the length in front of a transaction, and the count in front of
a request's transactions, say where the part ends, so two parts at the same place are
the same or differ within both (`TransactionsDelimited`, `RequestsDelimited`). The empty
transaction is excluded because it has no part. For chain ids, a prefix of the digits
shows `n` if it is zeros and then `Digits(n)`; with one digit more it shows twice `n`
and the digit (`ShowsMore`), which is the step `ParseU64` takes; once too large, the
number stays so (`Parsed`). The leading digits are those before the first other
character (`LeadingDigits`), and there is one way to take them (`LeadingUnique`).

The assumptions say that the sets of chains and connections are finite, that requests
list chains, and that bounds are natural numbers; the timeout, the window and the
retries are not zero. `SbcpPublisher` also assumes what `Publisher::new` checks, and
that its caller passes at most one targeted superblock per period
(`OneSuperblockPerPeriod`), which `new` does not check. `SbcpSequencer` assumes that it
starts at a positive period and target (`PositiveStart`), because `end_block` subtracts
one from both, and `Option::None` is no sequence number and no header (`NoneIsNoNumber`,
`NoneIsNoHeader`). `Wire` assumes that the message limit fits the header
(`SizeFitsHeader`), that widths and bounds are natural numbers (`Widths`, `Bounds`), and
that chain ids and the symbols of transaction data are too, while an error is none
(`Symbols`): data may look like a length, a chain id or a count.

Only model-checked: liveness, which is out of the prover's reach (`StartedXtIsDecided`,
`QueueDrains`, `CollectionEnds`, `ClosedLeavesRegistry`, `ConnectedIsRegistered`). Every
other property of a passing run has a theorem.

## What is not modelled

- A publisher without an L1 submitter, which drops complete collections.
- Flow control of a sidecar that is connected and does not read: a broadcast that
  awaits it holds up its handler.
- A restart of the 2PC state. Nothing of it is persisted, and the sidecars, which
  would meet repeated instance ids, are not in the repository.
- `validate_mailbox_consistency`: both callers of `receive_proof` pass an empty
  `MailboxInfo` (`handlers.rs`, `server/handlers/proofs.rs`), so it compares nothing.
- Reordered or lost messages between SBCP publisher and sequencers: the library
  leaves transport to its users, and the sequencer takes any StartPeriod as it comes.
- Wrap-around of `u64` counters by counting up.
- Loading of the configuration, protobuf declarations and field-by-field
  conversions, HTTP views, metrics other than the connection gauge, TLS and sockets.

## What could follow

1. One `Coordinator` composed of `XtConsensus`, `Settlement` and `Routing`; today
   their shared state is disjoint, and a composition would repeat the runs.
2. A refinement of `Sbcp`: one chain per sequencer that only grows, and L1 a prefix of
   it. `HistoryInv` has what its proof would need.

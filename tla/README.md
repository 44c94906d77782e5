# Formal model of Ondris

TLA+ modules, TLC configurations and TLAPS proofs for Ondris: the consensus
core (`crates/ondris-core`) as atomic calls and as the writes they consist of,
the node around it (`crates/ondris-node`), the wallet's payments on their way
to a block, the two miners, the network of nodes and the message channel
between two of them, and the pure functions of the consensus rules. Every
definition is translated from the Rust source; `PROJECT.json` maps each one to
its lines. `tlc -config X.cfg M` checks a configuration, `tlapm M.tla` a proof
module.

## 1. Inventory of the system

| Part | State | Operations | Talks to |
|---|---|---|---|
| Consensus core, `ondris-core/src/chain.rs` | dataset cache, write lock | `submit_block`, `reconsider_tip`, `work_template`, `compute_next_difficulty`, `open` | state, PoW |
| Persistent state, `state.rs` | sled trees `blocks`, `chainwork`, `heights`, `accounts`, `meta` (tip), `mempool` | get/set per tree, `flush` | core, node |
| Rules, `difficulty.rs`, `block.rs`, `header.rs`, `transaction.rs`, `genesis.rs` | none | `next_difficulty`, `target_for_difficulty`, `merkle_root`, `id`, signature check | core |
| Node, `ondris-node/src/main.rs` | orphan buffer, tasks | event loop, `accept_and_broadcast`, `handle_outcome`, RPC handlers, rebroadcast timer | core, network |
| Network, `ondris-network/src/lib.rs` | peer map, `my_height`, event queue | listen, connect, per-connection reader and writer, `broadcast`, `send_to` | node, peers |
| Noise transport, `noise.rs` | cipher state, receive buffer | handshake, framed write and read | network |
| PoW, `ondris-pow` | none (datasets) | `epoch_of`, `epoch_seed`, dataset generation, `ondris_hash`, `meets_target` | core, miners |
| CPU miner, `ondris-miner`; GPU miner, `ondris-miner-gpu` | dataset of an epoch, device session, nonces, result, stop flag | fetch template, prepare dataset, search, submit | node RPC |
| Wallet | key file | read nonce, sign, submit | node RPC |

The node is the part with most concurrency on shared state. Its event loop takes
network events one at a time; every RPC request is a task of its own; both run
`accept_and_broadcast` on a multi-threaded runtime. `Chain::submit_block` holds
`write_lock` from beginning to end, but what is done about its outcome
(mempool, orphan buffer, announcements) happens after the lock is released.

What is hard, and what makes each part correct:

- *Core.* Blocks arrive in any order, on any branch, valid or not. Reorgs undo
  and reapply account changes; a branch may fail half way after its block is
  already stored. Correct means: the store is a tree with accumulated work, the
  index lists the tip's ancestors, the accounts are those of a replay of the
  canonical chain, the tip is the heaviest valid branch and never goes back, no
  transaction is executed twice or lost, no money appears.
- *Difficulty.* Two functions, one over the canonical index and one over a
  block's own branch, must agree; a branch's difficulty must not depend on what
  else a node has seen; arithmetic is integer arithmetic of fixed width.
- *Node.* The mempool must hold what is displaced and lose only what is mined;
  orphans must be retried; peers must hear of what becomes canonical; all this
  under interleaving, lost answers and restarts.
- *Miners.* Threads, or work-items of a device, race to write one result; a
  dataset is kept across templates and, for the GPU, a second time on the
  device. Correct means: what is submitted solves its block with the right
  dataset, no nonce is tried twice, a search ends.
- *Channel.* Messages, the frames they are cut into and the reader's requests
  have different boundaries. Correct means: messages arrive whole, in order and
  all of them.
- *Connections and gossip.* A connection is in the peer map before its
  handshake is over; it is dialled once and may be lost with all that is under
  way. Correct means: transactions reach the whole network, a node that missed
  blocks catches up, nothing of another network is handled.
- *Wallet, mempool and templates.* A payment is signed with a nonce read
  earlier, waits in an unflushed mempool, goes into a template whose tip was
  read later than the mempool, and comes back in a block. Correct means: what a
  wallet was told is accepted is mined, and a failed template costs nobody
  anything.
- *Crashes.* Every call of the core and every mempool operation is a series of
  writes to one database. Correct means: what is left after a stop can be gone
  on with.

The hazards are listed with their lines in `PROJECT.json`.

## 2. Modules

| Module | Models | Used by |
|---|---|---|
| `Difficulty` | u64 arithmetic (saturating, wrapping) and `next_difficulty` | `Ledger`, `Algorithms` |
| `Merkle` | `merkle_root` with its duplicated odd element | `Chain`, `Algorithms` |
| `Ledger` | rewards, and the undo and apply loops of `reconsider_tip` over an account overlay | `Chain` |
| `Chain` | the sled trees and `submit_block`, one action per way it returns | `Node`, `Commit`, `Mining` |
| `ChainProperties` | properties of the core | |
| `Node` | tasks, mempool, orphans, announcements, restart | |
| `NodeProperties` | properties of a node; the core as the specification it implements | |
| `Commit` | `submit_block` write by write, `work_template` read by read, a stop between any two | |
| `Mining` | wallets, GET /work, POST /block/submit and the mempool's durability over `Chain` | |
| `Gossip` | several nodes: peer map, life of a connection, event loop, rebroadcast timer | |
| `Algorithms` | the pure functions, one state per input | |
| `Miner` | both miners: the outer loop, threads, batches | |
| `Channel` | one direction of a connection: `write_message`, `read_message`, `EncryptedWriter`, `EncryptedReader` | |
| `MCChain`, `MCNode`, `MCCommit`, `MCMining`, `MCGossip`, `MCMiner`, `MCChannel` | instances for TLC | |
| `SetInduction` | induction over naturals stated for sets, and what it gives for functions defined step by step | proofs |
| `ChainProofs` | theorems about the ledger's operators and the core | `NodeProofs`, `CommitProofs` |
| `NodeProofs`, `CommitProofs`, `MiningProofs`, `MinerProofs`, `AlgorithmsProofs` | theorems about the module of that name | |
| `NetworkProofs` | theorems about `Gossip` and `Channel` | |

Conventions. A hash is the sequence of headers from the block after genesis up
to the block itself, so that `id(b)` appends one header to `b.prev_hash`: equal
hashes mean equal headers and equal ancestors (collision resistance), the
ancestor of depth `d` is a prefix, and the fork point is the longest common
prefix. A header's nonce is `"solves"` or `"misses"`: whether its hash meets the
target. A Merkle root is the list of leaves of the padded tree, so two lists
have equal roots exactly if the code gives them equal roots. A signature is
whether it verifies. A simulation of `reconsider_tip` is a record with `ok`,
which turns `FALSE` at the first `ensure!` that fails.

`Chain` has one action for every exit of `submit_block`, each repeating the
order of checks before it: `RejectBeforeHash` (height 0, or no dataset),
`ReturnAlreadyKnown`, `RejectStateless` (root, PoW, signature), `ReturnOrphan`,
`RejectContext` (height, difficulty), `StoreSideBranch`, `StoreThenFail` (the
block is stored, then `reconsider_tip` fails) and `StoreAndAdopt`.

`Node` gives each task the position it has in `accept_and_broadcast`: `announce`,
`prune`, `requeue` for an accepted block, `announce` for a side branch, `buffer`
for an orphan, `drain` for the queue of accepted hashes and the orphans taken
from the buffer. A step is what happens between two points at which another
task can get in: a call of `submit_block`, the height and the broadcast, the
removal loop, the insertion loop, an access to the buffer. The loops over
transactions are one step each, since their keys are independent.

`Commit` opens the call that `Chain` takes as one step: `store_block`,
`set_chainwork` (with the comparison and the simulation, which write nothing),
the accounts of the overlay in any order, as a HashMap gives them, the undone
heights, the applied heights, the tip. `call` holds what is still to be
written. `ReadTip`, `ReadLast` and `ReadStart` are the reads of a
`work_template` that runs beside it without the lock. All trees of a sled
database share one log, so a crash leaves the effect of a prefix of the writes;
losing the unflushed tail of the log is a crash before that write. `settled` is
a history variable: the trees as the last finished call left them. `Chain` is
instantiated over it, with the dataset cache as it was before the call while one
is running, and the run checks that the series of writes implements the atomic
call, until a crash interrupts one; `CommitImplementsAtomic` proves it.

`Mining` follows a payment: `fetch_account` and `submit_tx` are the two requests
of `ondris-wallet send`; `mempool_all` and `get_work` the two reads of GET
/work; `PostBlock` and `Prune` the two halves of POST /block/submit. Requests of
several wallets and miners overlap at all these points. `recoverable` holds the
snapshots of the mempool a stop may leave: since `mempool_insert` and
`mempool_remove` do not flush, any moment since the last flush. An owner in
`Patient` waits until a payment has counted before making the next; others do
not. All blocks come from the node's own templates, so nothing is reorganised
here; reorgs and the mempool meet in `Node`. A template's timestamp is fixed,
since nothing here depends on it.

`Gossip` takes the chain as a line (forks are `Chain`'s and `Node`'s subject)
and a node's store as its height. A connection has a stage at each end: `none`,
`dialled` (TCP and Noise), `open` (in the peer map: from here on messages are
queued for the other end) and `served` (`WriteHandshake`: the own Handshake is
written, the write task and the read loop run). `inbox` is what is under way to
an end, on the wire and behind it in the queue of the other end, and the
Handshake is a message in it like any other: that it comes out first is due to
`WriteHandshake` alone, which writes it before the write task takes over what
was queued meanwhile, and nothing else keeps a block or transaction in front of
it from being handled. Reading a message and handling it is one step of the
node. What is queued already is not queued again; in the code the queues are
unbounded, a transaction is echoed between two nodes for ever, and in a line of
three nodes already the echoes multiply, because the one in the middle sends
each on to both sides. A run has
either blocks or transactions, since the two do not interact here. The map entry
that a failed write of the Handshake leaves behind is abstracted to a connection
that is down: what is sent to it goes nowhere. A restart keeps chain and mempool;
what a stop can do to an unflushed mempool is `Mining`'s subject.

`Miner` separates what a thread does into hashing one nonce (with the result
stored if it is a hit), raising the flag and seeing the flag; a thread may hash
on after the flag is up, as a relaxed load allows. A kernel launch is one step
that reports any of its hits, or, as `Glitch`, any nonce at all. `Exit` is every
error that `?` turns into the end of the process. A device that overlooks a hit
is not modelled.

`Channel` treats a byte as the p-th byte of message m, and the length in the
prefix as the number itself: a body is far from 2^32 bytes long. A frame never
holds bytes of two messages, because every message is written by a call of its
own, but it does hold a prefix together with the body.

Operators called *mutation* change one definition the way a plausible bug
would; each property is known to notice one of them. They are not part of the
specification.

## 3. Runs

| Run | Instance | Checks |
|---|---|---|
| `chain_forks` | every order of 4 + 12 + 16 blocks on three heights with conflicting, dependent and unaffordable transactions, 6 malformed ones, at most 5 stored | tree, index, accounts, heaviest tip, supply, no replay, growth, re-queue |
| `chain_epoch` | epoch of 2, a branch of 3; fair | *fails*: the chain enters epoch 1 |
| `commit` | window 1, gaps of 1 and 16 s: a light branch of 3 blocks, a heavier one of 2, an overspending and 2 mis-targeted blocks, 1 crash | implements the atomic core; difficulty of each branch; index, accounts and tip after each call; what a crash leaves; templates |
| `node_pool` | event loop, 5 blocks on two branches, one overspending, 2 transactions, lost answers, 1 restart | mempool, announcements, height, orphans, implements the core |
| `node_race` | event loop and one request, 3 blocks | *fails*: displaced transactions are kept |
| `node_fork` | event loop, a 1-block and a 3-block branch; fair | *fails*: ends on the heavier branch |
| `mining` | 2 wallets with a payment each, 2 miners, 1 restart; fair | confirmed payments are mined, none goes missing, work is refused only if overtaken |
| `mining_stall` | the same, one wallet makes two payments at once, no restart; fair | *fails*: the other wallet's payment is mined |
| `gossip` | a line of 3 nodes and one of another network, 2 blocks or a transaction, 1 lost connection or restart; fair | transactions spread, the chain converges, networks stay apart |
| `algorithms` | u64 of 6 bits with its boundary values, targets of 4 base-4 digits, all lists of up to 4 distinct leaves | clamp, monotonicity, quotient, roots |
| `miner` | either miner, 3 templates in 2 epochs, 4 threads or batches of 3 over 16 nonces, one wrong report; fair | the submission solves its block, threads share no nonce, searches end |
| `channel` | all queues of up to 3 messages of 1, 2, 3, 7, 10 bytes, prefixes of 2, frames of 4, a limit of 9; fair | order, completeness, delivery |

Bounds. Five stored blocks are enough for a reorg that undoes two blocks and
applies three, for a failed branch in between and for going back; three heights
with a choice of transactions per block contain every pair of conflicting
spends. In `chain_forks` `MaxU64` is 31, above the total supply of the
instance, as `WidthAssumption` says it must be: nothing saturates there, and a
double credit shows in `SupplyConserved`. In `commit` a single block fills the window, so
branches differ in difficulty after two blocks and a two-block branch outweighs
a three-block one: the reorg lowers the height, undoes three blocks and applies
two. One crash can come between any two writes, and what a later call does with
its remains is explored too. In `node_pool` one restart can hit every step of a
task. In `mining` two miners are enough for every overlap of a template with
another's block, and the second wallet's transaction comes first in key order;
`MaxBlocks` is 0 because the blocks are bounded by the payments there. In
`gossip` the node in the middle must relay, the last one joins at any time, two
blocks make a late node ask back one block, and a transaction can be queued for
the node of the other network before either Handshake is written. In `miner` the solutions lie on different strides and, for the GPU,
several in one batch; the batch size does not divide the nonce space, so the
search wraps; the solutions with the wrong epoch's dataset are others. In
`channel` prefix and body together are shorter than a frame, exactly one, one
byte more, or several. A chain in TLC is a few blocks long, and each property that depends on
length (index, tree, growth) is proved for every length.

Fairness. `FairSpec` of `ChainProperties` (`chain_epoch`) offers every block
again and again, as peers and resubmitting miners do. `FairNodeSpec`
(`node_fork`) is weaker: each block is announced once, a task that has started
goes on (the runtime polls it), and a `GetBlock` for a block somebody mined is
answered; no restart. `FairMiningSpec`: miners ask for work over and over and a
request runs to its end; wallets need not do anything, restarts need not stop
but are bounded. Its condition is stated on `request`, because a PostBlock step
is exactly one that changes `request` from `mining` to one of two values; that
spares TLC evaluating ENABLED of the whole call. `FairGossipSpec`: nodes are
started, the ends of a connection get through the handshake, what is queued is
read, the timer ticks; nothing is lost except by the bounded `Break` and
`Restart`, and nobody dials again. `FairMinerSpec`: threads are scheduled, a
relaxed load sees the flag in the end, a kernel launch returns.
`FairChannelSpec`: the writing and the reading task are polled. Nothing else is
fair; in particular blocks need not be mined in `Gossip`, nodes need not hand
out templates in `Miner`, and connections need not stay up.

Stopping. `CHECK_DEADLOCK FALSE` stands where the system comes to rest: in
`mining` when all payments are mined (an idle miner's request for an empty
block is left out), in `gossip` when all messages are handled, and in the other
configurations that say so when the bounded inputs are used up.

### What the failing runs show

1. `chain_epoch`: the dataset of an epoch is seeded by the canonical block at
   the epoch's own first height, which cannot be validated without that
   dataset. No chain passes height 2047. `FirstEpochTheorem` proves it for every
   epoch length.
2. `node_race`: one task accepts a block, another reorgs it away and puts its
   transaction back into the mempool, then the first one prunes the mempool.
3. `node_fork`: orphans are only retried under a block that was accepted as the
   tip; a parent that arrives as a side-branch block releases nothing.
4. `mining_stall`: a wallet that runs `send` twice before the first payment is
   mined signs the same nonce twice. Both transactions are in every template,
   the second cannot be executed, so every block mined from a template is
   refused, and nothing takes it out of the mempool: no transaction of anybody
   is mined any more.

Observations in the models without a run of their own:

- Balances and nonces are only checked when a branch becomes the heaviest
  (`StoreSideBranch` has no such guard), although chain.rs:46 says that "Only
  `Accepted` and `SideBranch` mean the block was valid".
- `expected_difficulty_after` adjusts the difficulty at every block over a
  sliding window, where docs/WHITEPAPER.md:58 says "Difficulty retarget every 60
  blocks."
- After a reorg over several blocks only the last block's transactions leave
  the mempool (`prune`); the others' stay, and block every template as in
  `mining_stall`.
- A crash within a commit (`Commit`) can leave accounts, index and tip of
  different branches, and the block that caused it is `AlreadyKnown` afterwards.
  A crash between `store_block` and `set_chainwork` leaves a block whose
  children are all refused ("missing chainwork for known parent").
  `StoreSurvivesCrash` says how far this can go; nothing repairs it.
- A restart can forget a transaction whose wallet got a hash, although
  main.rs says that "a transaction submitted just before a restart isn't lost",
  or bring back one that was executed (`forgotten` and `resurrected` in
  `Mining`): the mempool is written without a flush.
- A peer that does not run yet when a node dials it, or that restarts, is never
  dialled again; the height in the Handshake is not looked at, so a node that
  joins late learns of the chain from the next block only (`Gossip`).

## 4. Proofs

All theorems hold for every value of the constants allowed by the named
assumptions: any genesis configuration with u64 numbers, any premine, any set
of well-formed submitted blocks, any epoch length above zero. The assumptions
that are more than types, and why the code justifies them:

- `WidthAssumption` (the theorems on accounts, fork choice, supply and replay):
  the premine and all rewards of the first epoch stay below `MaxU64`, and so
  does the number of transactions in an epoch of blocks. The shipped
  configuration has no premine, a reward of 5e9 and epochs of 2048 blocks, about
  1e13 in all. It is needed: `credit` saturates, and a saturated credit cannot be
  undone. The inequality is strict because `amount + fee` of a transaction is
  added in u64.
- `AddressAssumption`: finitely many accounts, so that balances have a sum.
- `GossipAssumption`: what wallets may submit is finite, so that a node can go
  through its pending transactions.
- `OneBoundary` (`Miner`): one boundary hash per epoch.
- `InputAssumption` (`Algorithms`): difficulties are at least 1, which
  next_difficulty ensures with `.max(1)`. `DigitsAssumption`: a base of at least
  2 and at least one digit.
- `SingleTask` is the hypothesis of four theorems on the node, not an assumption
  on a constant; see there.

### The core

- `TypeCorrectness`: `Spec => []TypeOK`. Balances and nonces stay u64 through
  every undo and apply; the first lemmas of `ChainProofs` carry the type through
  the recursive functions of `Ledger` by induction on their argument.
- `BlockTreeTheorem`, `CanonicalIndexTheorem`, `TipWorkGrowsTheorem`,
  `FirstEpochTheorem`. None of these is inductive alone: that `ReindexedHeights`
  yields exactly the new tip's ancestors needs the old index to list the old
  tip's; that every ancestor of the tip is stored needs the tree; that a block's
  dataset is that of epoch 0 needs every indexed height to be below the epoch
  length. `StoreInv` is their conjunction with the type of the store; it is
  inductive (`StoreInvInit`, `StoreInvNext`). `ForkHeightFacts` shows that the
  fork point exists and that both paths meet there.
- `BranchRetargetTheorem`: every stored block, on any branch, has the difficulty
  its own ancestors prescribe. `ExpectedIsPrescribed` shows that walking the
  stored blocks (`block_ancestor`) reads the same timestamps as the headers
  inside the hash; it needs `StoreInv` for the ancestors to be stored.
- `AccountsReplayTheorem`, `ForkChoiceTheorem`. `ChainInv` is `StoreInv` with
  these two and `StoredSubmitted` (what is stored was submitted); it is
  inductive (`ChainInvInit`, `ChainInvNext`). The argument is about a tree of
  blocks (`LedgerTree`) and the replay of one of its branches (`Replay`), with
  `TreeInduction` along a branch. `BranchSound` says of an executable branch
  that its balances sum to what was issued, that each nonce counts the account's
  transactions and none occurs twice. With room in the width (`RoomForBlock`)
  applying its next block saturates nothing, so undoing that block gives the
  parent's accounts back exactly, and the longer branch is sound again: both are
  `BranchStep`, and neither holds without the other. Undoing to the fork point
  (`UndoToFork`) and applying the other branch from there (`ApplyFromFork`) is
  then the replay of the new branch, `ReorgIsReplay`: `reconsider_tip` may work
  on differences. Fork choice follows since a simulation fails exactly if the
  branch cannot be replayed, and storing a block changes no other branch's
  replay (`ReplayInsert`).
- `SupplyTheorem`, `NoReplayTheorem`: the canonical branch is executable
  (`ChainInv`), hence sound (`CanonicalSound`).
- `RequeueExactTheorem`: what `reconsider_tip` hands back is what the undone
  blocks hold and the applied ones do not (`ReorgTxs`); that it is all that
  leaves the canonical chain needs that nothing is executed twice on either
  branch.

### A call of the core, write by write

- `CommitImplementsAtomic`: `CommitSpec => ImplementsAtomic`, the refinement
  between the two models of the core. While a call runs, `CommitInv` relates what
  is written to what is not: the remaining overlay on top of the accounts is the
  simulation's result (`AccountsLeft`), the remaining heights on top of the
  index are the atomic call's index (`HeightsLeft`). At the start this needs that
  the overlay names every account the simulation changes: `OverlayCovers`, from
  the frame lemmas of `ChainProofs` (an account that no transaction and no
  reward of a block names is left alone by applying and undoing it). Template
  requests stutter during a call because the call has cached their dataset
  (`CacheInFirstEpoch`). A crash within a call is a restart of the atomic core
  before that call.
- `SurvivesCrash`: `CommitSpec => []StoreSurvivesCrash`. Of the store's
  invariant only this much is left once crashes may come between any two writes:
  `CrashInv` keeps every block's parent stored and the recorded works
  consistent, says what the running call is about to write, and names the blocks
  whose work a crash cut off (`CutShort`, at most one per crash).
- `TemplateFollowsTipTheorem`: `CommitSpec => []TemplateFollowsTip`.
  `TemplateInv` follows the reads of `work_template`: what was read fits the
  parent, or the request is `Overtaken`, its parent no longer the tip or a commit
  running. A request never becomes valid again, because every new tip is a block
  that was not stored before (`SetTipTemplate`). `PrescribedRead` ties the stored
  blocks to the headers in a hash, `SettledIndex` carries the canonical index
  over a commit's writes.
- `WholeTheorem`: `CommitSpec => []WholeBetweenCalls`. The refinement covers
  what a call does; this is what stays between calls, for the writes themselves.
  `LedgerWhole` is the core's `ChainInv` as a predicate on one copy of the trees,
  and `SettledLedger` says it of the copy the last finished call left; the
  step is `ReorgIsReplay` again. That the trees are that copy whenever no call
  runs and none was interrupted is `CommitInv`.

### The node and its wallets and miners

- `NodeImplementsChain`: `NodeSpec => Spec`. The invariant `NodeInv` says that
  every block held by a task or the orphan buffer came from a peer or miner;
  with it every step of a node is a step of the core or leaves its variables
  alone. `NodeStoreTheorem` carries the core's theorems over to a node.
- `NodeLedgerTheorem`: accounts, fork choice, supply, replay and re-queueing of
  the core hold of a node, through the same refinement.
- `CanonicalAnnouncedTheorem`, for any tasks. `AnnounceInv` speaks of every
  stored block whose branch is executable, canonical or not: it has been passed
  on or a task is about to. That covers the block that was stored aside and
  adopted later.
- `HeightAdvertisedTheorem`, `NoOrphanOnTipTheorem`, `DisplacedKeptTheorem`,
  `PendingUntilMinedTheorem`, each under the hypothesis `SingleTask`: all blocks
  come from the network, or all from one miner. `SoloInv` says at every position
  of the task what it has left to do: the height still to be advertised, the
  orphans still to be retried (`Retried`), the displaced transactions still to be
  put back (`Kept`). With two tasks all of that can be undone by the other one
  between two steps; `node_race` shows it for the displaced transactions. The
  hypothesis is the configuration of `node_pool`.
- `NothingConfirmedMissingTheorem`: `MiningSpec => []NothingConfirmedMissing`
  for any wallets, payments, miners and restarts. The property needs that what
  was executed stays executed, hence that a chain built from its own templates
  never reorganises. `Line` states why: a canonical block's work plus the
  difficulty its child must have is at most the tip's work, so a late template,
  whose parent is on the line but no longer its end (`RequestsOK`), can only
  become a side branch (`SubmitOnLine`). What it must have depends on the line
  alone (`ExpectedOnLine`), not on the blocks beside it.

### Miners, network, pure functions

- `NetworksApart`: `GossipSpec => []NetworksStayApart` for any nodes,
  connections, restarts and losses. A node handles whatever is in front of the
  messages under way to it, so the invariant adds `Greeted`: between two networks
  that is the Handshake from the moment the other end's write task runs. What is
  queued behind it leaves it in front (`QueuedBehind`); this needs everything
  under way to be sequences of messages, and so the types of what nodes send:
  heights (`TopType`: the cascade of orphans stops) and pending transactions
  (`PendingSeq`), of which there are finitely many.
- `NonceSpaceSplitTheorem`: where the number of threads divides the nonce space,
  no nonce is tried by two CPU threads, wrapping included. `SplitInv` keeps each
  thread on its residue class; `StridesApart` says the classes are disjoint,
  `StrideWraps` that wrapping stays within one. For other thread counts it is
  false after a wrap of 2^64 nonces.
- `InOrderTheorem`, `NothingLostTheorem`: the channel for any messages, prefix
  length, frame size and limit. `ChannelInv` adds to the two properties that the
  reader waits for the length its next message really has. `WriteFrame` and
  `ReadFrame` only move bytes (`MovedOn`); when a prefix or a body is taken,
  `TakesFirst` says that the leftover begins with exactly those bytes. That a
  prefix arrives only if a message is left is part of `ReadPrefixKeeps`. The
  lemmas on `FlattenSeq` unfold its recursion at both ends.
- `SubmittedSolvesTheorem`: `MinerSpec => []SubmittedSolves` for any number of
  threads, batch size, nonce space and templates. `MinerInv` adds that the
  dataset kept during a search is the template's own (from the assumption
  `OneBoundary`: one boundary hash per epoch) and that the result is there
  before the flag is.
- `RetargetClampedTheorem`, `RetargetMonotoneTheorem`: `next_difficulty` for any
  width, difficulty and times. `DivAntitone` is the core of the second: a larger
  divisor gives no larger quotient.
- `TargetIsQuotientTheorem`: the digit-by-digit division for any base and number
  of digits. `LongDivision` carries the equation "digits so far times divisor
  plus carry is the number read so far" through both recursions, with each carry
  below the divisor, so that no digit overflows (`QuotientDigit`).
- `RootsDifferTheorem`: for any number of transactions. The root of a list is
  the list padded by copies of its own end (`RootFacts`, level by level in
  `LevelStep`); a list without repetitions ends where the first copy begins, so
  the root determines it (`MerkleInjective`).

Induction. The induction theorems of the library take an operator parameter;
`SetInduction` derives from well-foundedness of the naturals the same principle
for a set, which the provers can instantiate.

Only model-checked:

- liveness, in every run that states it: ENABLED and fairness are out of the
  prover's reach;
- `RefusedOnlyIfOvertaken`: whether a template's transactions are executable
  depends on how wallets choose nonces and amounts (`Patient`, `Payments`,
  `KeyOrder`), and `mining_stall` shows payments for which it fails;
- a node with two tasks: which of its properties still hold there is not
  stated (`CanonicalAnnounced`, the refinement and what follows from it are
  proved for any tasks), and `node_race` refutes one.

## 5. Not modelled

- The hash function, the generation of datasets, the OpenCL kernel's arithmetic
  and the reference implementation `blake3_ref.rs`: straight-line bit
  manipulation. Only whether a hash meets the target matters here.
- Signatures, key files, `create` and `balance` of the wallet, Noise
  cryptography: no state shared with anything.
- `ondris-primitives` and the RPC types: encodings and JSON.
- Ping and Pong, the website, logging.
- `init_genesis` as separate writes: a stop in between would credit a premine
  twice, but the shipped one is empty. `Commit` starts behind it.
- Epochs after the first in `Commit`, `Mining` and `Gossip`: no chain reaches
  them (`FirstEpochTheorem`).
- Reorgs in `Mining` and forks in `Gossip`; they are in `Chain`, `Commit` and
  `Node`.

## 6. Plan

Every invariant and action property that a passing run checks is proved, except
for `RefusedOnlyIfOvertaken`. What remains worth doing, in this order:

1. The node with two tasks: what of `SoloInv` is left when another task may step
   in, for instance that an orphan under the tip is only ever missed by a task
   that was overtaken.
2. `RefusedOnlyIfOvertaken` for wallets of which each waits for its last payment.
3. An instance of `Mining` with a second node's blocks, so that reorgs and
   templates meet.

------------------------------- MODULE Mining -------------------------------
(***************************************************************************)
(* From a wallet's `send` to a mined block: wallets (ondris-wallet), miners *)
(* asking for work and submitting it (ondris-miner), and the requests of   *)
(* one node (ondris-node/src/main.rs) in between, over the consensus core  *)
(* of module Chain.  Every HTTP request runs by itself and reads mempool   *)
(* and chain at different moments.                                         *)
(*                                                                         *)
(* All blocks come from this node's templates, so there is no reorg here:  *)
(* those are module Node's.                                                *)
(***************************************************************************)
EXTENDS ChainProperties, SequencesExt

CONSTANTS Miner,        \* the addresses miners ask work for
          Payments,       \* wallet -> the payments its owner means to make
          Patient,        \* the wallets whose owners wait for each payment
          KeyOrder,       \* all their transactions, in the order of their hashes
          MaxRestarts     \* bound: restarts of the node

ASSUME MiningAssumption ==
  /\ Miner \subseteq Address /\ Patient \subseteq Address
  /\ Payments \in [Address -> Seq([to : Address, amount : U64, fee : U64])]

VARIABLES
  mempool,      \* tree "mempool": the pending transactions
  recoverable,  \* what a stop of the process may leave of it: its contents at
                \*   the last flush and at any moment since
  wallet,       \* wallet -> its `send` in progress and the payments made
  request,      \* miner -> where it stands between GET /work and the answer
                \*   to POST /block/submit
  restarts,     \* restarts so far
  overtaken,    \* history: miners whose template may be out of date
  confirmed,    \* history: transactions whose wallet got a tx_hash back
  forgotten,    \* history: those of them a restart took out of the mempool
  resurrected   \* history: a restart left executed transactions pending

node_state == <<mempool, recoverable, wallet, request, restarts, overtaken, confirmed,
                forgotten, resurrected>>
mining_vars == <<vars, node_state>>

-----------------------------------------------------------------------------
(* ondris-wallet send.                                                     *)

\* An owner who waits looks at the account until the last payment has counted
\* and there is enough for the next.
MayPay(w) ==
  LET p == Payments[w][wallet[w].made + 1]
  IN  w \in Patient => /\ accounts[w].nonce = wallet[w].made
                       /\ accounts[w].balance >= p.amount + p.fee

\* Writing the mempool tree, with or without a flush.
Buffered(pool) == mempool' = pool /\ recoverable' = recoverable \cup {pool}

\* GET /account: the nonce of the canonical state; what is pending does not
\* count.
fetch_account(w) ==
  /\ wallet[w].pc = "idle"
  /\ wallet[w].made < Len(Payments[w])
  /\ MayPay(w)
  /\ wallet' = [wallet EXCEPT ![w].pc = "signing", ![w].nonce = accounts[w].nonce]
  /\ UNCHANGED <<mempool, recoverable, request, restarts, overtaken, confirmed,
                 forgotten, resurrected>>
  /\ UNCHANGED vars

PaymentOf(w) ==
  LET p == Payments[w][wallet[w].made + 1]
  IN  [from |-> w, to |-> p.to, amount |-> p.amount, fee |-> p.fee,
       account_nonce |-> wallet[w].nonce, sig |-> TRUE]

\* POST /tx/submit: only the signature is checked, and mempool_insert does not
\* flush.
submit_tx(w) ==
  LET tx == PaymentOf(w)
  IN  /\ wallet[w].pc = "signing"
      /\ tx.sig
      /\ Buffered(mempool \cup {tx})
      /\ confirmed' = confirmed \cup {tx}
      /\ wallet' = [wallet EXCEPT ![w].pc = "idle", ![w].made = @ + 1]
      /\ UNCHANGED <<request, restarts, overtaken, forgotten, resurrected>>
      /\ UNCHANGED vars

-----------------------------------------------------------------------------
(* GET /work, then the miner, then POST /block/submit.                     *)

NoRequest == [pc |-> "idle"]

\* A block was accepted and its transactions are still in the mempool.
Accepting == \E m \in Miner : request[m].pc = "prune"

\* Mutation: the iteration starts behind the first key.
mempool_all_but_first(m) ==
  LET txs == SelectSeq(KeyOrder, LAMBDA tx : tx \in mempool)
  IN  /\ request[m].pc = "idle"
      /\ Len(txs) > 1
      /\ request' = [request EXCEPT ![m] = [pc |-> "pending", txs |-> Tail(txs)]]
      /\ overtaken' = IF Accepting THEN overtaken \cup {m} ELSE overtaken \ {m}
      /\ UNCHANGED <<mempool, recoverable, wallet, restarts, confirmed, forgotten,
                     resurrected>>
      /\ UNCHANGED vars

\* mempool_all: a read, in key order.  A miner that finds nothing pending is
\* left out (bound: no empty blocks).
mempool_all(m) ==
  /\ request[m].pc = "idle"
  /\ mempool # {}
  /\ request' = [request EXCEPT ![m] =
                   [pc  |-> "pending",
                    txs |-> SelectSeq(KeyOrder, LAMBDA tx : tx \in mempool)]]
  /\ overtaken' = IF Accepting THEN overtaken \cup {m} ELSE overtaken \ {m}
  /\ UNCHANGED <<mempool, recoverable, wallet, restarts, confirmed, forgotten, resurrected>>
  /\ UNCHANGED vars

\* Mutation: a template leaves out the last transaction it was given.
TemplateDropping(m) ==
  [height |-> tip.height + 1, prev_hash |-> tip.hash,
   tx_root |-> merkle_root(request[m].txs), timestamp |-> GenesisTimestamp,
   difficulty |-> compute_next_difficulty(tip.height + 1), miner |-> m,
   nonce |-> "solves", transactions |-> Front(request[m].txs)]

\* The header built on the tip of this moment; the miner finds a nonce.
Template(m) ==
  [height |-> tip.height + 1, prev_hash |-> tip.hash,
   tx_root |-> merkle_root(request[m].txs), timestamp |-> GenesisTimestamp,
   difficulty |-> compute_next_difficulty(tip.height + 1), miner |-> m,
   nonce |-> "solves", transactions |-> request[m].txs]

get_work(m) ==
  /\ request[m].pc = "pending"
  /\ work_template
  /\ request' = [request EXCEPT ![m] = [pc |-> "mining", block |-> Template(m)]]
  /\ UNCHANGED <<mempool, recoverable, wallet, restarts, overtaken, confirmed, forgotten,
                 resurrected>>

\* submit_block; storing a block flushes every tree.
PostBlock(m) ==
  /\ request[m].pc = "mining"
  /\ submit_block(request[m].block)
  /\ LET accepted == outcome'.kind = "Accepted"
     IN  /\ request' = [request EXCEPT ![m] =
                          IF accepted THEN [pc |-> "prune", block |-> @.block] ELSE NoRequest]
         /\ overtaken' = IF accepted THEN Miner ELSE overtaken
  /\ recoverable' = IF blocks' # blocks THEN {mempool} ELSE recoverable
  /\ UNCHANGED <<mempool, wallet, restarts, confirmed, forgotten, resurrected>>

\* Mutation: everything pending is dropped.
PruneAll(m) ==
  /\ request[m].pc = "prune"
  /\ Buffered({})
  /\ request' = [request EXCEPT ![m] = NoRequest]
  /\ UNCHANGED <<wallet, restarts, overtaken, confirmed, forgotten, resurrected>>
  /\ UNCHANGED vars

\* handle_outcome: mempool_remove for the block's transactions, not flushed
\* either (without a reorg there is nothing to put back).
Prune(m) ==
  /\ request[m].pc = "prune"
  /\ Buffered(mempool \ TxsOf(<<request[m].block>>))
  /\ request' = [request EXCEPT ![m] = NoRequest]
  /\ UNCHANGED <<wallet, restarts, overtaken, confirmed, forgotten, resurrected>>
  /\ UNCHANGED vars

-----------------------------------------------------------------------------

\* sled writes its buffer out by itself every half second.
Flush ==
  /\ recoverable' = {mempool}
  /\ UNCHANGED <<mempool, wallet, request, restarts, overtaken, confirmed, forgotten,
                 resurrected>>
  /\ UNCHANGED vars

\* The node is stopped and started again.  Its requests fail, a miner at work
\* keeps its template, a wallet whose `send` failed makes that payment anew.
RestartNode ==
  /\ restarts < MaxRestarts
  /\ restarts' = restarts + 1
  /\ Restart
  /\ mempool' \in recoverable
  /\ recoverable' = {mempool'}
  /\ request' = [m \in Miner |-> IF request[m].pc = "mining" THEN request[m] ELSE NoRequest]
  /\ wallet' = [w \in Address |-> [wallet[w] EXCEPT !.pc = "idle", !.nonce = 0]]
  /\ forgotten' = forgotten \cup ((mempool \ mempool') \ CanonicalTxs)
  /\ resurrected' = (resurrected \/ mempool' \cap CanonicalTxs # {})
  /\ UNCHANGED <<overtaken, confirmed>>

MiningInit ==
  /\ Init
  /\ mempool = {} /\ recoverable = {{}}
  /\ wallet = [w \in Address |-> [pc |-> "idle", nonce |-> 0, made |-> 0]]
  /\ request = [m \in Miner |-> NoRequest]
  /\ restarts = 0 /\ overtaken = {} /\ confirmed = {} /\ forgotten = {} /\ resurrected = FALSE

MinerStep(m) == mempool_all(m) \/ get_work(m) \/ PostBlock(m) \/ Prune(m)

MiningNext ==
  \/ \E w \in Address : fetch_account(w) \/ submit_tx(w)
  \/ \E m \in Miner : MinerStep(m)
  \/ Flush
  \/ RestartNode

MiningSpec == MiningInit /\ [][MiningNext]_mining_vars

\* The answer to POST /block/submit, whatever it is.  A PostBlock(m) step is
\* one of these and the other way round; this form spares TLC the evaluation of
\* ENABLED submit_block.
Answered(m) ==
  /\ request[m].pc = "mining"
  /\ request' \in {[request EXCEPT ![m] = r] :
                    r \in {NoRequest, [pc |-> "prune", block |-> request[m].block]}}

\* Miners ask for work over and over, and requests run to their end.
FairMiningSpec ==
  /\ MiningSpec
  /\ \A m \in Miner : /\ WF_request(mempool_all(m) \/ get_work(m) \/ Prune(m))
                       /\ WF_request(Answered(m))

-----------------------------------------------------------------------------
(* What wallets and miners may count on.                                   *)

\* docs/ARCHITECTURE.md: "then mine a block and confirm the transaction gets
\* included and the mempool clears": a payment whose wallet got a hash back is
\* executed in the end, with several miners at work and the node restarted,
\* unless a restart forgot it or brought executed transactions back.
EveryPaymentMined ==
  \A i \in DOMAIN KeyOrder :
    LET tx == KeyOrder[i]
    IN  tx.from \in Patient /\ tx \in confirmed
          ~> tx \in CanonicalTxs \cup forgotten \/ resurrected

\* main.rs on GET /work: "a work template that's never submitted [...] must
\* not cost these transactions their place in the mempool": nothing a wallet
\* was told is accepted goes missing, whichever templates fail and however
\* requests overlap; only a restart can take it.
NothingConfirmedMissing ==
  confirmed \subseteq mempool \cup CanonicalTxs \cup forgotten

\* The node refuses a miner's work, block and all, only if another miner's
\* block was accepted, or was being cleared from the mempool, since it read the
\* mempool for that template: two reads that disagree cost one block at most.
RefusedOnlyIfOvertaken ==
  [][\A m \in Miner :
       /\ request[m].pc = "mining" /\ request'[m].pc = "idle"
       /\ outcome'.kind = "Err"
       => m \in overtaken \/ resurrected]_mining_vars

=============================================================================

------------------------------- MODULE Ledger -------------------------------
(***************************************************************************)
(* The account effects of transactions and blocks, as the overlay loop of  *)
(* Chain::reconsider_tip (ondris-core/src/chain.rs) computes them.  A      *)
(* simulation is a record [ok, accounts]: ok turns FALSE at the first      *)
(* `ensure!` that fails, and the rest of the loop is then skipped.         *)
(***************************************************************************)
EXTENDS Difficulty, Sequences, FiniteSets, Functions

CONSTANTS Address,           \* account addresses
          InitialReward,     \* genesis.initial_reward
          HalvingInterval    \* genesis.halving_interval

ASSUME AddressAssumption == IsFiniteSet(Address)

ASSUME RewardAssumption == InitialReward \in U64 /\ HalvingInterval \in U64

Account == [balance : U64, nonce : U64]
Accounts == [Address -> Account]
Simulation == [ok : BOOLEAN, accounts : Accounts]

\* `sig` abstracts the Ed25519 signature to whether it verifies.
Transaction == [from : Address, to : Address, amount : U64, fee : U64,
                account_nonce : U64, sig : BOOLEAN]

\* Chain::block_reward: `initial_reward >> halvings`, one bit at a time.
block_reward(height) ==
  LET halvings == height \div AtLeast(HalvingInterval, 1)
      shifted[i \in 0..halvings] == IF i = 0 THEN InitialReward ELSE shifted[i-1] \div 2
  IN  IF halvings >= 64 THEN 0 ELSE shifted[halvings]

-----------------------------------------------------------------------------

Credit(accounts, a, amount) ==
  [accounts EXCEPT ![a].balance = SatAdd(@, amount)]
Debit(accounts, a, amount) ==
  [accounts EXCEPT ![a].balance = SatSub(@, amount)]

\* The two checks a transaction must pass against the accounts it meets.
TxAppliesStale(accounts, tx) ==     \* mutation: an old nonce is accepted
  /\ tx.account_nonce <= accounts[tx.from].nonce
  /\ accounts[tx.from].balance >= SatAdd(tx.amount, tx.fee)
TxApplies(accounts, tx) ==
  /\ tx.account_nonce = accounts[tx.from].nonce
  /\ accounts[tx.from].balance >= SatAdd(tx.amount, tx.fee)

\* The sender pays amount + fee, then the recipient's entry is read again.
\* The fee is credited to nobody.
SpendTxFeeless(accounts, tx) ==    \* mutation: the fee is not taken
  [accounts EXCEPT ![tx.from].balance = Wrap(@ - tx.amount),
                   ![tx.from].nonce = Wrap(@ + 1)]
SpendTx(accounts, tx) ==
  [accounts EXCEPT ![tx.from].balance = Wrap(@ - Wrap(tx.amount + tx.fee)),
                   ![tx.from].nonce = Wrap(@ + 1)]
ApplyTx(accounts, tx) == Credit(SpendTx(accounts, tx), tx.to, tx.amount)

\* The inverse, in the opposite order.
RefundTx(accounts, tx) ==
  [accounts EXCEPT ![tx.from].balance = SatAdd(@, Wrap(tx.amount + tx.fee)),
                   ![tx.from].nonce = SatSub(@, 1)]
UndoTx(accounts, tx) == RefundTx(Debit(accounts, tx.to, tx.amount), tx)

\* All transactions of a block, first to last, then the miner's reward.
ApplyTxs(sim, txs) ==
  LET after[i \in 0..Len(txs)] ==
        IF i = 0 THEN sim
        ELSE IF after[i-1].ok /\ TxApplies(after[i-1].accounts, txs[i])
             THEN [ok |-> TRUE, accounts |-> ApplyTx(after[i-1].accounts, txs[i])]
             ELSE [after[i-1] EXCEPT !.ok = FALSE]
  IN  after[Len(txs)]

ApplyBlock(sim, b) ==
  LET paid == ApplyTxs(sim, b.transactions)
  IN  IF paid.ok
      THEN [ok |-> TRUE,
            accounts |-> Credit(paid.accounts, b.miner, block_reward(b.height))]
      ELSE paid

\* The miner's reward, then all transactions, last to first.
UndoBlockKeepingReward(accounts, b) ==   \* mutation: the reward stays
  LET n == Len(b.transactions)
      after[i \in 0..n] ==
        IF i = 0 THEN accounts ELSE UndoTx(after[i-1], b.transactions[n + 1 - i])
  IN  after[n]
UndoBlock(accounts, b) ==
  LET n == Len(b.transactions)
      after[i \in 0..n] ==
        IF i = 0 THEN Debit(accounts, b.miner, block_reward(b.height))
        ELSE UndoTx(after[i-1], b.transactions[n + 1 - i])
  IN  after[n]

\* The two outer loops of reconsider_tip, over blocks.
UndoBlocks(accounts, bs) ==
  LET after[i \in 0..Len(bs)] ==
        IF i = 0 THEN accounts ELSE UndoBlock(after[i-1], bs[i])
  IN  after[Len(bs)]

ApplyBlocks(accounts, bs) ==
  LET after[i \in 0..Len(bs)] ==
        IF i = 0 THEN [ok |-> TRUE, accounts |-> accounts]
        ELSE IF after[i-1].ok THEN ApplyBlock(after[i-1], bs[i]) ELSE after[i-1]
  IN  after[Len(bs)]

-----------------------------------------------------------------------------
(* What the properties of the ledger measure.                              *)

\* The money in all accounts, and what the transactions of a block pay in fees.
Supply(accounts) == SumFunction([a \in Address |-> accounts[a].balance])
FeesIn(b) == SumFunction([j \in DOMAIN b.transactions |-> b.transactions[j].fee])

=============================================================================

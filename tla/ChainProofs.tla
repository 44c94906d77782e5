----------------------------- MODULE ChainProofs -----------------------------
(***************************************************************************)
(* Theorems about the consensus core, for every genesis configuration,     *)
(* every set of submitted blocks and any number of them.                   *)
(***************************************************************************)
EXTENDS ChainProperties, SetInduction, FiniteSetTheorems

-----------------------------------------------------------------------------
(* What the ledger operators return.  Their loops are recursive functions; *)
(* each is shown to exist and to stay in its type by SetInduction.         *)

\* u64 arithmetic stays in u64.
LEMMA U64Arithmetic ==
  ASSUME NEW x \in U64, NEW y \in U64
  PROVE  /\ x \in Nat
         /\ SatAdd(x, y) \in U64
         /\ SatSub(x, y) \in U64
BY MaxU64Assumption DEF U64, SatAdd, SatSub, AtMost, AtLeast

LEMMA WrapType ==
  ASSUME NEW x \in Int
  PROVE  Wrap(x) \in U64
BY MaxU64Assumption DEF U64, Wrap

\* The reward of a height is a u64 and never more than the initial reward.
LEMMA RewardType ==
  ASSUME NEW height \in Nat
  PROVE  block_reward(height) \in U64 /\ block_reward(height) <= InitialReward
<1> DEFINE n == height \div AtLeast(HalvingInterval, 1)
           R == 0..InitialReward
           Body(f) == [i \in 0..n |-> IF i = 0 THEN InitialReward ELSE f[i-1] \div 2]
           shifted == CHOOSE f : f = Body(f)
<1>1. InitialReward \in Nat /\ InitialReward <= MaxU64 /\ MaxU64 \in Nat
  BY RewardAssumption, MaxU64Assumption DEF U64
<1>2. n \in Nat
  BY RewardAssumption, MaxU64Assumption DEF AtLeast, U64
<1>3. block_reward(height) = IF n >= 64 THEN 0 ELSE shifted[n]
  BY DEF block_reward
<1>4. \E f : f = Body(f)
  <2> DEFINE G == [i \in 1..n |-> [r \in R |-> r \div 2]]
  <2>1. InitialReward \in R /\ StepsStayIn(G, n, R)
    BY <1>1 DEF StepsStayIn
  <2> HIDE DEF n, R, G
  <2>2. PICK f : IsStepwise(f, n, InitialReward, G) /\ StaysIn(f, n, R)
    BY <1>2, <2>1, StepwiseFunction, Zenon
  <2>3. \A i \in 1..n : G[i][f[i-1]] = f[i-1] \div 2
    <3> TAKE i \in 1..n
    <3>1. f[i-1] \in R
      BY <1>2, <2>2 DEF StaysIn
    <3> QED BY <3>1 DEF G
  <2>4. f = Body(f)
    BY <1>2, <2>2, <2>3 DEF IsStepwise
  <2> QED BY <2>4
<1>5. shifted = Body(shifted)
  <2> HIDE DEF Body
  <2> QED BY <1>4, Zenon
<1> HIDE DEF n, shifted
<1>6. shifted[0] \in R /\ \A i \in 1..n : shifted[i-1] \in R => shifted[i] \in R
  BY <1>1, <1>2, <1>5
<1>7. shifted[n] \in R
  <2> HIDE DEF R
  <2>1. StaysIn(shifted, n, R)
    BY <1>2, <1>6, StepwiseType, Zenon
  <2> QED BY <1>2, <2>1 DEF StaysIn
<1> QED BY <1>1, <1>2, <1>3, <1>7 DEF U64


-----------------------------------------------------------------------------
(* One entry at a time.                                                    *)

LEMMA CreditType ==
  ASSUME NEW accts \in Accounts, NEW a, NEW amount \in U64
  PROVE  Credit(accts, a, amount) \in Accounts /\ Debit(accts, a, amount) \in Accounts
<1>1. CASE a \in Address
  <2>1. accts[a].balance \in U64 /\ accts[a].nonce \in U64
    BY <1>1 DEF Accounts, Account
  <2>2. SatAdd(accts[a].balance, amount) \in U64 /\ SatSub(accts[a].balance, amount) \in U64
    BY <2>1, U64Arithmetic
  <2> QED BY <1>1, <2>1, <2>2 DEF Credit, Debit, Accounts, Account
<1>2. CASE a \notin Address
  BY <1>2 DEF Credit, Debit, Accounts, Account
<1> QED BY <1>1, <1>2

LEMMA TxType ==
  ASSUME NEW accts \in Accounts, NEW tx \in Transaction
  PROVE  ApplyTx(accts, tx) \in Accounts /\ UndoTx(accts, tx) \in Accounts
<1>1. tx.from \in Address /\ tx.amount \in U64 /\ tx.fee \in U64
  BY DEF Transaction
<1>2. ASSUME NEW acc \in Accounts
      PROVE  SpendTx(acc, tx) \in Accounts /\ RefundTx(acc, tx) \in Accounts
  <2> DEFINE cost == Wrap(tx.amount + tx.fee)
             bal == acc[tx.from].balance
             non == acc[tx.from].nonce
  <2>1. bal \in U64 /\ non \in U64
    BY <1>1 DEF Accounts, Account
  <2>2. tx.amount \in Int /\ tx.fee \in Int /\ bal \in Int /\ non \in Int
    BY <1>1, <2>1 DEF U64
  <2>3. cost \in U64
    BY <2>2, WrapType
  <2> HIDE DEF cost
  <2>4. Wrap(bal - cost) \in U64 /\ Wrap(non + 1) \in U64
    BY <2>2, <2>3, WrapType DEF U64
  <2>5. 1 \in U64
    BY MaxU64Assumption DEF U64
  <2>6. SatAdd(bal, cost) \in U64 /\ SatSub(non, 1) \in U64
    BY <2>1, <2>3, <2>5, U64Arithmetic
  <2>7. SpendTx(acc, tx) = [acc EXCEPT ![tx.from].balance = Wrap(bal - cost),
                                       ![tx.from].nonce = Wrap(non + 1)]
    BY <1>1 DEF SpendTx, cost, Accounts, Account
  <2>8. RefundTx(acc, tx) = [acc EXCEPT ![tx.from].balance = SatAdd(bal, cost),
                                        ![tx.from].nonce = SatSub(non, 1)]
    BY <1>1 DEF RefundTx, cost, Accounts, Account
  <2>9. SpendTx(acc, tx) \in Accounts
    BY <1>1, <2>4, <2>7 DEF Accounts, Account
  <2>10. RefundTx(acc, tx) \in Accounts
    BY <1>1, <2>6, <2>8 DEF Accounts, Account
  <2> QED BY <2>9, <2>10
<1>3. ApplyTx(accts, tx) \in Accounts
  BY <1>1, <1>2, CreditType DEF ApplyTx
<1>4. UndoTx(accts, tx) \in Accounts
  BY <1>1, <1>2, CreditType DEF UndoTx
<1> QED BY <1>3, <1>4


-----------------------------------------------------------------------------
(* The loops over transactions and over blocks.                            *)

\* What the ledger reads of a block.
LedgerBlock(b) == b.transactions \in Seq(Transaction) /\ b.height \in Nat

\* One transaction of the application loop.
PayStep(s, tx) == IF s.ok /\ TxApplies(s.accounts, tx)
                  THEN [ok |-> TRUE, accounts |-> ApplyTx(s.accounts, tx)]
                  ELSE [s EXCEPT !.ok = FALSE]

\* The intermediate values of the four loops, first to last.
IsPayTrace(after, sim, txs) ==
  /\ after[0] = sim
  /\ \A i \in 1..Len(txs) : after[i] = PayStep(after[i-1], txs[i])
  /\ ApplyTxs(sim, txs) = after[Len(txs)]

IsUndoTrace(after, accts, b) ==
  /\ after[0] = Debit(accts, b.miner, block_reward(b.height))
  /\ \A i \in 1..Len(b.transactions) : after[i] = UndoTx(after[i-1], b.transactions[Len(b.transactions) + 1 - i])
  /\ UndoBlock(accts, b) = after[Len(b.transactions)]

IsUnwindTrace(after, accts, bs) ==
  /\ after[0] = accts
  /\ \A i \in 1..Len(bs) : after[i] = UndoBlock(after[i-1], bs[i])
  /\ UndoBlocks(accts, bs) = after[Len(bs)]

IsApplyTrace(after, accts, bs) ==
  /\ after[0] = [ok |-> TRUE, accounts |-> accts]
  /\ \A i \in 1..Len(bs) : after[i] = IF after[i-1].ok THEN ApplyBlock(after[i-1], bs[i]) ELSE after[i-1]
  /\ ApplyBlocks(accts, bs) = after[Len(bs)]

\* The values a loop goes through, as long as its steps do not leave a set.
\* Types, frames and what undoing does are read off them.
LEMMA ApplyTxsTrace ==
  ASSUME NEW S, NEW sim \in S, NEW txs, Len(txs) \in Nat,
         \A i \in 1..Len(txs) : \A s \in S : PayStep(s, txs[i]) \in S
  PROVE  \E after \in [0..Len(txs) -> S] : IsPayTrace(after, sim, txs)
<1> DEFINE n == Len(txs)
           Step(s, i) == PayStep(s, txs[i])
           Body(f) == [i \in 0..n |-> IF i = 0 THEN sim ELSE Step(f[i-1], i)]
           after == CHOOSE f : f = Body(f)
<1>0. n \in Nat
  OBVIOUS
<1>1. ApplyTxs(sim, txs) = after[n]
  BY DEF ApplyTxs, PayStep
<1>2. n \in Nat /\ \A i \in 1..n : \A s \in S : Step(s, i) \in S
  OBVIOUS
<1> HIDE DEF n, Step
<1>3. \E f : f = Body(f)
  <2> DEFINE G == [i \in 1..n |-> [s \in S |-> Step(s, i)]]
  <2>1. StepsStayIn(G, n, S)
    BY <1>2 DEF StepsStayIn
  <2> HIDE DEF G
  <2>2. PICK f : IsStepwise(f, n, sim, G) /\ StaysIn(f, n, S)
    BY <1>2, <2>1, StepwiseFunction, Zenon
  <2>3. \A i \in 1..n : G[i][f[i-1]] = Step(f[i-1], i)
    <3> TAKE i \in 1..n
    <3>1. f[i-1] \in S
      BY <1>2, <2>2 DEF StaysIn
    <3> QED BY <3>1 DEF G
  <2>4. \A i \in 0..n : i # 0 => G[i][f[i-1]] = Step(f[i-1], i)
    BY ONLY <1>0, <2>3
  <2>5. f = [i \in 0..n |-> IF i = 0 THEN sim ELSE G[i][f[i-1]]]
    BY <2>2, Zenon DEF IsStepwise
  <2> QED BY ONLY <2>4, <2>5
<1>4. after = Body(after)
  <2> HIDE DEF Body
  <2> QED BY <1>3, Zenon
<1> HIDE DEF after
<1>5. after[0] \in S /\ \A i \in 1..n : after[i-1] \in S => after[i] \in S
  <2>1. after[0] = sim /\ \A i \in 1..n : after[i] = Step(after[i-1], i)
    BY <1>2, <1>4
  <2> QED BY <1>2, <2>1, Zenon
<1>6. StaysIn(after, n, S)
  BY <1>2, <1>5, StepwiseType, Zenon
<1>7. after \in [0..n -> S]
  BY <1>2, <1>4, <1>6 DEF StaysIn
<1>8. after[0] = sim /\ \A i \in 1..n : after[i] = Step(after[i-1], i)
  BY <1>2, <1>4
<1> QED BY <1>1, <1>7, <1>8 DEF n, Step, IsPayTrace

LEMMA ApplyTxsStays ==
  ASSUME NEW S, NEW sim \in S, NEW txs, Len(txs) \in Nat,
         \A i \in 1..Len(txs) : \A s \in S : PayStep(s, txs[i]) \in S
  PROVE  ApplyTxs(sim, txs) \in S
BY ApplyTxsTrace DEF IsPayTrace

LEMMA UndoBlockTrace ==
  ASSUME NEW S, NEW accts, NEW b, Len(b.transactions) \in Nat,
         Debit(accts, b.miner, block_reward(b.height)) \in S,
         \A i \in 1..Len(b.transactions) : \A s \in S : UndoTx(s, b.transactions[i]) \in S
  PROVE  \E after \in [0..Len(b.transactions) -> S] : IsUndoTrace(after, accts, b)
<1> DEFINE n == Len(b.transactions)
           start == Debit(accts, b.miner, block_reward(b.height))
           Step(s, i) == UndoTx(s, b.transactions[n + 1 - i])
           Body(f) == [i \in 0..n |-> IF i = 0 THEN start ELSE Step(f[i-1], i)]
           after == CHOOSE f : f = Body(f)
<1>0. n \in Nat
  OBVIOUS
<1>1. UndoBlock(accts, b) = after[n]
  BY DEF UndoBlock
<1>2. n \in Nat /\ start \in S /\ \A i \in 1..n : \A s \in S : Step(s, i) \in S
  <2> SUFFICES ASSUME NEW i \in 1..n, NEW s \in S PROVE Step(s, i) \in S
    BY <1>0
  <2> DEFINE j == n + 1 - i
  <2>1. j \in 1..Len(b.transactions)
    BY <1>0
  <2> HIDE DEF j, n
  <2>2. UndoTx(s, b.transactions[j]) \in S
    BY <2>1
  <2> QED BY <2>2 DEF j
<1> HIDE DEF n, start, Step
<1>3. \E f : f = Body(f)
  <2> DEFINE G == [i \in 1..n |-> [s \in S |-> Step(s, i)]]
  <2>1. StepsStayIn(G, n, S)
    BY <1>2 DEF StepsStayIn
  <2> HIDE DEF G
  <2>2. PICK f : IsStepwise(f, n, start, G) /\ StaysIn(f, n, S)
    BY <1>2, <2>1, StepwiseFunction, Zenon
  <2>3. \A i \in 1..n : G[i][f[i-1]] = Step(f[i-1], i)
    <3> TAKE i \in 1..n
    <3>1. f[i-1] \in S
      BY <1>2, <2>2 DEF StaysIn
    <3> QED BY <3>1 DEF G
  <2>4. \A i \in 0..n : i # 0 => G[i][f[i-1]] = Step(f[i-1], i)
    BY ONLY <1>0, <2>3
  <2>5. f = [i \in 0..n |-> IF i = 0 THEN start ELSE G[i][f[i-1]]]
    BY <2>2, Zenon DEF IsStepwise
  <2> QED BY ONLY <2>4, <2>5
<1>4. after = Body(after)
  <2> HIDE DEF Body
  <2> QED BY <1>3, Zenon
<1> HIDE DEF after
<1>5. after[0] \in S /\ \A i \in 1..n : after[i-1] \in S => after[i] \in S
  <2>1. after[0] = start /\ \A i \in 1..n : after[i] = Step(after[i-1], i)
    BY <1>2, <1>4
  <2> QED BY <1>2, <2>1, Zenon
<1>6. StaysIn(after, n, S)
  BY <1>2, <1>5, StepwiseType, Zenon
<1>7. after \in [0..n -> S]
  BY <1>2, <1>4, <1>6 DEF StaysIn
<1>8. after[0] = start /\ \A i \in 1..n : after[i] = Step(after[i-1], i)
  BY <1>2, <1>4
<1> QED BY <1>1, <1>7, <1>8 DEF n, Step, start, IsUndoTrace

LEMMA UndoBlockStays ==
  ASSUME NEW S, NEW accts, NEW b, Len(b.transactions) \in Nat,
         Debit(accts, b.miner, block_reward(b.height)) \in S,
         \A i \in 1..Len(b.transactions) : \A s \in S : UndoTx(s, b.transactions[i]) \in S
  PROVE  UndoBlock(accts, b) \in S
<1>1. \E after \in [0..Len(b.transactions) -> S] : IsUndoTrace(after, accts, b)
  BY UndoBlockTrace, Zenon
<1> QED BY <1>1 DEF IsUndoTrace

LEMMA UndoBlocksTrace ==
  ASSUME NEW S, NEW accts \in S, NEW bs, Len(bs) \in Nat,
         \A i \in 1..Len(bs) : \A s \in S : UndoBlock(s, bs[i]) \in S
  PROVE  \E after \in [0..Len(bs) -> S] : IsUnwindTrace(after, accts, bs)
<1> DEFINE n == Len(bs)
           start == accts
           Step(s, i) == UndoBlock(s, bs[i])
           Body(f) == [i \in 0..n |-> IF i = 0 THEN start ELSE Step(f[i-1], i)]
           after == CHOOSE f : f = Body(f)
<1>0. n \in Nat
  OBVIOUS
<1>1. UndoBlocks(accts, bs) = after[n]
  BY DEF UndoBlocks
<1>2. n \in Nat /\ start \in S /\ \A i \in 1..n : \A s \in S : Step(s, i) \in S
  OBVIOUS
<1> HIDE DEF n, start, Step
<1>3. \E f : f = Body(f)
  <2> DEFINE G == [i \in 1..n |-> [s \in S |-> Step(s, i)]]
  <2>1. StepsStayIn(G, n, S)
    BY <1>2 DEF StepsStayIn
  <2> HIDE DEF G
  <2>2. PICK f : IsStepwise(f, n, start, G) /\ StaysIn(f, n, S)
    BY <1>2, <2>1, StepwiseFunction, Zenon
  <2>3. \A i \in 1..n : G[i][f[i-1]] = Step(f[i-1], i)
    <3> TAKE i \in 1..n
    <3>1. f[i-1] \in S
      BY <1>2, <2>2 DEF StaysIn
    <3> QED BY <3>1 DEF G
  <2>4. \A i \in 0..n : i # 0 => G[i][f[i-1]] = Step(f[i-1], i)
    BY ONLY <1>0, <2>3
  <2>5. f = [i \in 0..n |-> IF i = 0 THEN start ELSE G[i][f[i-1]]]
    BY <2>2, Zenon DEF IsStepwise
  <2> QED BY ONLY <2>4, <2>5
<1>4. after = Body(after)
  <2> HIDE DEF Body
  <2> QED BY <1>3, Zenon
<1> HIDE DEF after
<1>5. after[0] \in S /\ \A i \in 1..n : after[i-1] \in S => after[i] \in S
  <2>1. after[0] = start /\ \A i \in 1..n : after[i] = Step(after[i-1], i)
    BY <1>2, <1>4
  <2> QED BY <1>2, <2>1, Zenon
<1>6. StaysIn(after, n, S)
  BY <1>2, <1>5, StepwiseType, Zenon
<1>7. after \in [0..n -> S]
  BY <1>2, <1>4, <1>6 DEF StaysIn
<1>8. after[0] = start /\ \A i \in 1..n : after[i] = Step(after[i-1], i)
  BY <1>2, <1>4
<1> QED BY <1>1, <1>7, <1>8 DEF n, Step, start, IsUnwindTrace

LEMMA UndoBlocksStays ==
  ASSUME NEW S, NEW accts \in S, NEW bs, Len(bs) \in Nat,
         \A i \in 1..Len(bs) : \A s \in S : UndoBlock(s, bs[i]) \in S
  PROVE  UndoBlocks(accts, bs) \in S
BY UndoBlocksTrace DEF IsUnwindTrace

LEMMA ApplyBlocksTrace ==
  ASSUME NEW S, NEW accts, NEW bs, Len(bs) \in Nat,
         [ok |-> TRUE, accounts |-> accts] \in S,
         \A i \in 1..Len(bs) : \A s \in S : ApplyBlock(s, bs[i]) \in S
  PROVE  \E after \in [0..Len(bs) -> S] : IsApplyTrace(after, accts, bs)
<1> DEFINE n == Len(bs)
           start == [ok |-> TRUE, accounts |-> accts]
           Step(s, i) == IF s.ok THEN ApplyBlock(s, bs[i]) ELSE s
           Body(f) == [i \in 0..n |-> IF i = 0 THEN start ELSE Step(f[i-1], i)]
           after == CHOOSE f : f = Body(f)
<1>0. n \in Nat
  OBVIOUS
<1>1. ApplyBlocks(accts, bs) = after[n]
  BY DEF ApplyBlocks
<1>2. n \in Nat /\ start \in S /\ \A i \in 1..n : \A s \in S : Step(s, i) \in S
  OBVIOUS
<1> HIDE DEF n, start, Step
<1>3. \E f : f = Body(f)
  <2> DEFINE G == [i \in 1..n |-> [s \in S |-> Step(s, i)]]
  <2>1. StepsStayIn(G, n, S)
    BY <1>2 DEF StepsStayIn
  <2> HIDE DEF G
  <2>2. PICK f : IsStepwise(f, n, start, G) /\ StaysIn(f, n, S)
    BY <1>2, <2>1, StepwiseFunction, Zenon
  <2>3. \A i \in 1..n : G[i][f[i-1]] = Step(f[i-1], i)
    <3> TAKE i \in 1..n
    <3>1. f[i-1] \in S
      BY <1>2, <2>2 DEF StaysIn
    <3> QED BY <3>1 DEF G
  <2>4. \A i \in 0..n : i # 0 => G[i][f[i-1]] = Step(f[i-1], i)
    BY ONLY <1>0, <2>3
  <2>5. f = [i \in 0..n |-> IF i = 0 THEN start ELSE G[i][f[i-1]]]
    BY <2>2, Zenon DEF IsStepwise
  <2> QED BY ONLY <2>4, <2>5
<1>4. after = Body(after)
  <2> HIDE DEF Body
  <2> QED BY <1>3, Zenon
<1> HIDE DEF after
<1>5. after[0] \in S /\ \A i \in 1..n : after[i-1] \in S => after[i] \in S
  <2>1. after[0] = start /\ \A i \in 1..n : after[i] = Step(after[i-1], i)
    BY <1>2, <1>4
  <2> QED BY <1>2, <2>1, Zenon
<1>6. StaysIn(after, n, S)
  BY <1>2, <1>5, StepwiseType, Zenon
<1>7. after \in [0..n -> S]
  BY <1>2, <1>4, <1>6 DEF StaysIn
<1>8. after[0] = start /\ \A i \in 1..n : after[i] = Step(after[i-1], i)
  BY <1>2, <1>4
<1> QED BY <1>1, <1>7, <1>8 DEF n, Step, start, IsApplyTrace

LEMMA ApplyBlocksStays ==
  ASSUME NEW S, NEW accts, NEW bs, Len(bs) \in Nat,
         [ok |-> TRUE, accounts |-> accts] \in S,
         \A i \in 1..Len(bs) : \A s \in S : ApplyBlock(s, bs[i]) \in S
  PROVE  ApplyBlocks(accts, bs) \in S
BY ApplyBlocksTrace DEF IsApplyTrace


-----------------------------------------------------------------------------
(* Types.                                                                  *)

LEMMA PayStepType ==
  ASSUME NEW s \in Simulation, NEW tx \in Transaction
  PROVE  PayStep(s, tx) \in Simulation
<1>1. s.accounts \in Accounts /\ s.ok \in BOOLEAN
  BY DEF Simulation
<1>2. ApplyTx(s.accounts, tx) \in Accounts
  BY <1>1, TxType
<1> QED BY <1>1, <1>2 DEF Simulation, PayStep

LEMMA ApplyTxsType ==
  ASSUME NEW sim \in Simulation, NEW txs \in Seq(Transaction)
  PROVE  ApplyTxs(sim, txs) \in Simulation
<1>1. Len(txs) \in Nat /\ \A i \in 1..Len(txs) : txs[i] \in Transaction
  BY LenProperties
<1> QED BY <1>1, PayStepType, ApplyTxsStays

LEMMA ApplyBlockType ==
  ASSUME NEW sim \in Simulation, NEW b, LedgerBlock(b)
  PROVE  ApplyBlock(sim, b) \in Simulation
<1> DEFINE paid == ApplyTxs(sim, b.transactions)
<1>1. paid \in Simulation
  BY ApplyTxsType DEF LedgerBlock
<1>2. paid.accounts \in Accounts
  BY <1>1 DEF Simulation
<1>3. Credit(paid.accounts, b.miner, block_reward(b.height)) \in Accounts
  BY <1>2, RewardType, CreditType DEF LedgerBlock
<1> HIDE DEF paid
<1>4. ApplyBlock(sim, b) =
        IF paid.ok THEN [ok |-> TRUE,
                         accounts |-> Credit(paid.accounts, b.miner, block_reward(b.height))]
                   ELSE paid
  BY DEF ApplyBlock, paid
<1> QED BY <1>1, <1>3, <1>4 DEF Simulation

LEMMA UndoBlockType ==
  ASSUME NEW accts \in Accounts, NEW b, LedgerBlock(b)
  PROVE  UndoBlock(accts, b) \in Accounts
<1>1. /\ Len(b.transactions) \in Nat
      /\ \A i \in 1..Len(b.transactions) : b.transactions[i] \in Transaction
  BY LenProperties DEF LedgerBlock
<1>2. Debit(accts, b.miner, block_reward(b.height)) \in Accounts
  BY RewardType, CreditType DEF LedgerBlock
<1>3. \A i \in 1..Len(b.transactions) : \A s \in Accounts : UndoTx(s, b.transactions[i]) \in Accounts
  BY <1>1, TxType
<1> QED BY <1>1, <1>2, <1>3, UndoBlockStays

\* Undoing any list of blocks leaves an account map.
LEMMA UndoBlocksType ==
  ASSUME NEW accts \in Accounts, NEW bs, Len(bs) \in Nat,
         \A i \in 1..Len(bs) : LedgerBlock(bs[i])
  PROVE  UndoBlocks(accts, bs) \in Accounts
BY UndoBlockType, UndoBlocksStays

\* Applying any list of blocks leaves a simulation.
LEMMA ApplyBlocksType ==
  ASSUME NEW accts \in Accounts, NEW bs, Len(bs) \in Nat,
         \A i \in 1..Len(bs) : LedgerBlock(bs[i])
  PROVE  ApplyBlocks(accts, bs) \in Simulation
<1>1. [ok |-> TRUE, accounts |-> accts] \in Simulation
  BY DEF Simulation
<1>2. \A i \in 1..Len(bs) : \A s \in Simulation : ApplyBlock(s, bs[i]) \in Simulation
  BY ApplyBlockType
<1> QED BY <1>1, <1>2, ApplyBlocksStays

-----------------------------------------------------------------------------
(* Frames: an account that no block mentions keeps its entry.              *)

SpareTx(a, tx) == tx.from # a /\ tx.to # a
SpareBlock(a, b) ==
  /\ b.miner # a
  /\ \A i \in DOMAIN b.transactions : SpareTx(a, b.transactions[i])

AccountsWith(a, entry)   == {acc \in Accounts : acc[a] = entry}
SimulationWith(a, entry) == {s \in Simulation : s.accounts[a] = entry}

LEMMA CreditFrame ==
  ASSUME NEW accts \in Accounts, NEW a \in Address, NEW b, b # a, NEW amount
  PROVE  Credit(accts, b, amount)[a] = accts[a] /\ Debit(accts, b, amount)[a] = accts[a]
BY DEF Credit, Debit, Accounts

LEMMA TxFrame ==
  ASSUME NEW a \in Address, NEW accts \in Accounts, NEW tx \in Transaction, SpareTx(a, tx)
  PROVE  ApplyTx(accts, tx)[a] = accts[a] /\ UndoTx(accts, tx)[a] = accts[a]
<1>1. tx.amount \in U64 /\ tx.from # a /\ tx.to # a
  BY DEF Transaction, SpareTx
<1>2. Debit(accts, tx.to, tx.amount) \in Accounts
  BY <1>1, CreditType
<1>3. /\ SpendTx(accts, tx)[a] = accts[a] /\ DOMAIN SpendTx(accts, tx) = Address
      /\ \A acc \in Accounts : RefundTx(acc, tx)[a] = acc[a]
  BY <1>1 DEF SpendTx, RefundTx, Accounts
<1>4. ApplyTx(accts, tx)[a] = SpendTx(accts, tx)[a]
  BY <1>1, <1>3 DEF ApplyTx, Credit
<1> QED BY <1>1, <1>2, <1>3, <1>4, CreditFrame DEF UndoTx

LEMMA ApplyBlockFrame ==
  ASSUME NEW a \in Address, NEW entry, NEW sim \in SimulationWith(a, entry),
         NEW b, LedgerBlock(b), SpareBlock(a, b)
  PROVE  ApplyBlock(sim, b) \in SimulationWith(a, entry)
<1> DEFINE paid == ApplyTxs(sim, b.transactions)
           S == SimulationWith(a, entry)
<1>1. /\ Len(b.transactions) \in Nat /\ DOMAIN b.transactions = 1..Len(b.transactions)
      /\ \A i \in 1..Len(b.transactions) : b.transactions[i] \in Transaction
  BY LenProperties DEF LedgerBlock
<1>2. ASSUME NEW i \in 1..Len(b.transactions), NEW s \in S
      PROVE  PayStep(s, b.transactions[i]) \in S
  <2> DEFINE tx == b.transactions[i]
  <2>1. tx \in Transaction /\ SpareTx(a, tx)
    BY <1>1 DEF SpareBlock
  <2> HIDE DEF tx
  <2>2. s \in Simulation /\ s.accounts \in Accounts /\ s.accounts[a] = entry
    BY DEF SimulationWith, Simulation
  <2>3. ApplyTx(s.accounts, tx)[a] = entry
    BY <2>1, <2>2, TxFrame
  <2>4. PayStep(s, tx).accounts[a] = entry
    BY <2>2, <2>3 DEF PayStep, Simulation
  <2> QED BY <2>1, <2>2, <2>4, PayStepType DEF SimulationWith, tx
<1>3. paid \in S
  BY <1>1, <1>2, ApplyTxsStays
<1>4. paid.accounts \in Accounts /\ paid.accounts[a] = entry
  BY <1>3 DEF SimulationWith, Simulation
<1> HIDE DEF paid
<1>5. Credit(paid.accounts, b.miner, block_reward(b.height))[a] = entry
  BY <1>4, CreditFrame DEF SpareBlock
<1>6. ApplyBlock(sim, b) =
        IF paid.ok THEN [ok |-> TRUE,
                         accounts |-> Credit(paid.accounts, b.miner, block_reward(b.height))]
                   ELSE paid
  BY DEF ApplyBlock, paid
<1>7. ApplyBlock(sim, b) \in Simulation
  BY ApplyBlockType DEF SimulationWith
<1> QED BY <1>4, <1>5, <1>6, <1>7 DEF SimulationWith

LEMMA UndoBlockFrame ==
  ASSUME NEW a \in Address, NEW entry, NEW accts \in AccountsWith(a, entry),
         NEW b, LedgerBlock(b), SpareBlock(a, b)
  PROVE  UndoBlock(accts, b) \in AccountsWith(a, entry)
<1> DEFINE S == AccountsWith(a, entry)
<1>1. /\ Len(b.transactions) \in Nat /\ DOMAIN b.transactions = 1..Len(b.transactions)
      /\ \A i \in 1..Len(b.transactions) : b.transactions[i] \in Transaction
  BY LenProperties DEF LedgerBlock
<1>2. Debit(accts, b.miner, block_reward(b.height)) \in S
  BY RewardType, CreditType, CreditFrame DEF LedgerBlock, SpareBlock, AccountsWith
<1>3. \A i \in 1..Len(b.transactions) : \A s \in S : UndoTx(s, b.transactions[i]) \in S
  BY <1>1, TxType, TxFrame DEF AccountsWith, SpareBlock
<1> QED BY <1>1, <1>2, <1>3, UndoBlockStays

\* Undoing and applying lists of blocks leaves alone what they do not mention.
LEMMA ReorgFrame ==
  ASSUME NEW accts \in Accounts, NEW a \in Address,
         NEW undo, Len(undo) \in Nat, NEW apply, Len(apply) \in Nat,
         \A i \in 1..Len(undo) : LedgerBlock(undo[i]) /\ SpareBlock(a, undo[i]),
         \A i \in 1..Len(apply) : LedgerBlock(apply[i]) /\ SpareBlock(a, apply[i])
  PROVE  ApplyBlocks(UndoBlocks(accts, undo), apply).accounts[a] = accts[a]
<1> DEFINE entry == accts[a]
           undone == UndoBlocks(accts, undo)
<1>1. accts \in AccountsWith(a, entry)
  BY DEF AccountsWith
<1> HIDE DEF entry
<1>2. undone \in AccountsWith(a, entry)
  BY <1>1, UndoBlockFrame, UndoBlocksStays
<1> HIDE DEF undone
<1>3. [ok |-> TRUE, accounts |-> undone] \in SimulationWith(a, entry)
  BY <1>2 DEF AccountsWith, SimulationWith, Simulation
<1>4. ApplyBlocks(undone, apply) \in SimulationWith(a, entry)
  BY <1>3, ApplyBlockFrame, ApplyBlocksStays
<1> QED BY <1>4 DEF SimulationWith, entry, undone

-----------------------------------------------------------------------------
(* Exactness: as long as the money in all accts stays below the limit   *)
(* of u64, nothing saturates or wraps, and undoing gives back exactly what *)
(* was there before.                                                       *)

\* Writing both fields of an entry writes the entry.
WriteBoth(acc, a, x, y) == [acc EXCEPT ![a].balance = x, ![a].nonce = y]

LEMMA EntryUpdate ==
  ASSUME NEW acc \in Accounts, NEW a \in Address, NEW x, NEW y
  PROVE  WriteBoth(acc, a, x, y)
           = [acc EXCEPT ![a] = [balance |-> x, nonce |-> y]]
<1> DEFINE f == [acc EXCEPT ![a].balance = x]
           g == [f EXCEPT ![a].nonce = y]
           h == [acc EXCEPT ![a] = [balance |-> x, nonce |-> y]]
<1>1. acc[a] \in Account /\ DOMAIN acc = Address
  BY DEF Accounts
<1>2. f[a] = [balance |-> x, nonce |-> acc[a].nonce] /\ DOMAIN f = Address /\ \A z \in Address : z # a => f[z] = acc[z]
  BY <1>1 DEF Account
<1>6. f = [z \in Address |-> f[z]]
  BY <1>1
<1> HIDE DEF f
<1>3. g[a] = [balance |-> x, nonce |-> y] /\ DOMAIN g = Address /\ \A z \in Address : z # a => g[z] = acc[z]
  BY <1>2
<1>5. g = [z \in Address |-> g[z]]
  BY <1>2, <1>6
<1>4. g = h
  <2> HIDE DEF g
  <2> QED BY <1>1, <1>3, <1>5
<1> QED BY <1>4 DEF f, WriteBoth

BalancesOf(accts) == [a \in Address |-> accts[a].balance]

\* No account holds more than all of them.
LEMMA BalanceBound ==
  ASSUME NEW accts \in Accounts
  PROVE  /\ Supply(accts) \in Nat
         /\ \A a \in Address : /\ accts[a].balance \in Nat
                               /\ accts[a].balance <= Supply(accts)
                               /\ accts[a].nonce \in Nat
<1> DEFINE f == BalancesOf(accts)
<1>1. \A a \in Address : accts[a].balance \in Nat /\ accts[a].nonce \in Nat
  BY MaxU64Assumption DEF Accounts, Account, U64
<1>2. DOMAIN f = Address /\ \A a \in Address : f[a] = accts[a].balance /\ f[a] \in Nat
  BY <1>1 DEF BalancesOf
<1>3. Supply(accts) = SumFunctionOnSet(f, Address)
  BY <1>2 DEF Supply, SumFunction, BalancesOf
<1> HIDE DEF f
<1>4. SumFunctionOnSet(f, Address) \in Nat /\ \A a \in Address : f[a] <= SumFunctionOnSet(f, Address)
  BY <1>2, AddressAssumption, SumNat
<1> QED BY <1>1, <1>2, <1>3, <1>4

\* Changing one balance changes the supply by as much.
LEMMA SupplyChange ==
  ASSUME NEW acc \in Accounts, NEW new \in Accounts, NEW a \in Address,
         \A x \in Address : x # a => new[x].balance = acc[x].balance
  PROVE  Supply(new) = Supply(acc) - acc[a].balance + new[a].balance
<1> DEFINE f == BalancesOf(acc)
           g == BalancesOf(new)
<1>1. \A x \in Address : acc[x].balance \in Nat /\ new[x].balance \in Nat
  BY BalanceBound
<1>2. f \in [Address -> Int] /\ g \in [Address -> Int]
  BY <1>1 DEF BalancesOf
<1>3. \A x \in Address : f[x] = acc[x].balance /\ g[x] = new[x].balance
  BY DEF BalancesOf
<1>4. Supply(acc) = SumFunction(f) /\ Supply(new) = SumFunction(g)
  BY DEF Supply, BalancesOf
<1> HIDE DEF f, g
<1>5. \A x \in Address : x # a => g[x] = f[x]
  BY <1>3
<1>6. SumFunction(g) = SumFunction(f) - f[a] + g[a]
  BY <1>2, <1>5, AddressAssumption, SumChange
<1> QED BY <1>3, <1>4, <1>6

\* A credit that fits is exact, and the debit takes it back.
LEMMA CreditExact ==
  ASSUME NEW acc \in Accounts, NEW a \in Address, NEW amount \in U64,
         Supply(acc) + amount <= MaxU64
  PROVE  LET new == Credit(acc, a, amount)
         IN  /\ new \in Accounts
             /\ Supply(new) = Supply(acc) + amount
             /\ \A x \in Address : new[x].nonce = acc[x].nonce
             /\ Debit(new, a, amount) = acc
<1> DEFINE new == Credit(acc, a, amount)
           old == acc[a].balance
<1>1. amount \in Nat /\ MaxU64 \in Nat
  BY MaxU64Assumption DEF U64
<1>2. old \in Nat /\ old <= Supply(acc) /\ Supply(acc) \in Nat
  BY BalanceBound
<1>3. SatAdd(old, amount) = old + amount
  BY <1>1, <1>2 DEF SatAdd, AtMost
<1>4. new \in Accounts
  BY CreditType
<1>5. new = [acc EXCEPT ![a].balance = old + amount]
  BY <1>3 DEF Credit, Accounts
<1>6. /\ new[a].balance = old + amount
      /\ \A x \in Address : x # a => new[x] = acc[x]
      /\ \A x \in Address : new[x].nonce = acc[x].nonce
  BY <1>5 DEF Accounts, Account
<1>7. Supply(new) = Supply(acc) + amount
  BY <1>1, <1>2, <1>4, <1>6, SupplyChange
<1>8. SatSub(old + amount, amount) = old
  BY <1>1, <1>2 DEF SatSub, AtLeast
<1>9. Debit(new, a, amount) = [new EXCEPT ![a].balance = old]
  BY <1>4, <1>6, <1>8 DEF Debit, Accounts
<1>10. [new EXCEPT ![a].balance = old] = acc
  BY <1>5 DEF Accounts, Account
<1> QED BY <1>4, <1>6, <1>7, <1>9, <1>10

\* Spending what the sender has is exact, and the refund takes it back.
LEMMA SpendExact ==
  ASSUME NEW acc \in Accounts, NEW tx \in Transaction, TxApplies(acc, tx),
         Supply(acc) < MaxU64, acc[tx.from].nonce < MaxU64
  PROVE  LET new == SpendTx(acc, tx)
         IN  /\ new \in Accounts
             /\ Supply(new) = Supply(acc) - (tx.amount + tx.fee)
             /\ tx.amount + tx.fee <= Supply(acc)
             /\ new[tx.from].nonce = acc[tx.from].nonce + 1
             /\ \A x \in Address : x # tx.from => new[x].nonce = acc[x].nonce
             /\ RefundTx(new, tx) = acc
<1> DEFINE new == SpendTx(acc, tx)
           a == tx.from
           cost == tx.amount + tx.fee
           bal == acc[a].balance
           non == acc[a].nonce
<1>1. a \in Address /\ tx.amount \in Nat /\ tx.fee \in Nat /\ MaxU64 \in Nat
  BY MaxU64Assumption DEF U64, Transaction
<1>2. /\ bal \in Nat /\ bal <= Supply(acc) /\ Supply(acc) \in Nat
      /\ non \in Nat /\ non < MaxU64
  BY <1>1, BalanceBound
<1>3. bal >= SatAdd(tx.amount, tx.fee)
  BY DEF TxApplies
<1>4. cost \in Nat /\ cost <= bal
  BY <1>1, <1>2, <1>3 DEF SatAdd, AtMost
<1>5. /\ Wrap(cost) = cost /\ Wrap(bal - cost) = bal - cost /\ Wrap(non + 1) = non + 1
  <2>1. \A x \in 0..MaxU64 : Wrap(x) = x
    BY <1>1 DEF Wrap
  <2>2. cost \in 0..MaxU64 /\ bal - cost \in 0..MaxU64 /\ non + 1 \in 0..MaxU64
    BY <1>1, <1>2, <1>4
  <2> HIDE DEF cost, bal, non
  <2> QED BY <2>1, <2>2
<1>6. new = [acc EXCEPT ![a] = [balance |-> bal - cost, nonce |-> non + 1]]
  <2>1. new = WriteBoth(acc, tx.from, bal - cost, non + 1)
    <3>1. Wrap(acc[tx.from].balance - Wrap(tx.amount + tx.fee)) = bal - cost
      BY <1>5
    <3>2. Wrap(acc[tx.from].nonce + 1) = non + 1
      BY <1>5
    <3> QED BY <1>1, <3>1, <3>2 DEF SpendTx, WriteBoth, Accounts, Account
  <2> HIDE DEF new, bal, non, cost
  <2> QED BY <1>1, <2>1, EntryUpdate
<1>7. bal - cost \in U64 /\ non + 1 \in U64
  BY <1>1, <1>2, <1>4 DEF U64
<1> HIDE DEF cost, bal, non
<1>8. /\ new \in Accounts
      /\ new[a].balance = bal - cost /\ new[a].nonce = non + 1
      /\ \A x \in Address : x # a => new[x] = acc[x]
  BY <1>1, <1>6, <1>7 DEF Accounts, Account
<1>9. Supply(new) = Supply(acc) - cost
  <2>1. Supply(new) = Supply(acc) - acc[a].balance + new[a].balance
    BY <1>1, <1>8, SupplyChange
  <2> QED BY <1>1, <1>2, <1>4, <1>8, <2>1 DEF bal
<1>10. RefundTx(new, tx) = acc
  <2>1. SatAdd(bal - cost, cost) = bal /\ SatSub(non + 1, 1) = non
    BY <1>1, <1>2, <1>4 DEF SatAdd, AtMost, SatSub, AtLeast
  <2>2. RefundTx(new, tx) = [new EXCEPT ![a] = [balance |-> bal, nonce |-> non]]
    <3>1. Wrap(tx.amount + tx.fee) = cost
      BY <1>5 DEF cost
    <3> HIDE DEF new
    <3>2. RefundTx(new, tx) = WriteBoth(new, tx.from, bal, non)
      BY <1>1, <1>8, <2>1, <3>1 DEF RefundTx, WriteBoth, Accounts, Account
    <3> QED BY <1>1, <1>8, <3>2, EntryUpdate
  <2>3. [new EXCEPT ![a] = [balance |-> bal, nonce |-> non]] = [acc EXCEPT ![a] = [balance |-> bal, nonce |-> non]]
    BY <1>6 DEF Accounts
  <2>4. [balance |-> bal, nonce |-> non] = acc[a]
    BY <1>1 DEF bal, non, Accounts, Account
  <2> QED BY <2>2, <2>3, <2>4 DEF Accounts
<1>11. cost <= Supply(acc)
  BY <1>2, <1>4
<1> QED BY <1>8, <1>9, <1>10, <1>11 DEF cost, non

\* One transaction.
LEMMA TxExact ==
  ASSUME NEW acc \in Accounts, NEW tx \in Transaction, TxApplies(acc, tx),
         Supply(acc) < MaxU64, acc[tx.from].nonce < MaxU64
  PROVE  LET new == ApplyTx(acc, tx)
         IN  /\ new \in Accounts
             /\ Supply(new) = Supply(acc) - tx.fee
             /\ new[tx.from].nonce = acc[tx.from].nonce + 1
             /\ \A x \in Address : x # tx.from => new[x].nonce = acc[x].nonce
             /\ UndoTx(new, tx) = acc
<1> DEFINE mid == SpendTx(acc, tx)
           new == Credit(mid, tx.to, tx.amount)
<1>1. /\ tx.from \in Address /\ tx.to \in Address /\ tx.amount \in U64
      /\ tx.amount \in Nat /\ tx.fee \in Nat /\ MaxU64 \in Nat /\ Supply(acc) \in Nat
  BY MaxU64Assumption, BalanceBound DEF U64, Transaction
<1>2. /\ mid \in Accounts
      /\ Supply(mid) = Supply(acc) - (tx.amount + tx.fee)
      /\ mid[tx.from].nonce = acc[tx.from].nonce + 1
      /\ \A x \in Address : x # tx.from => mid[x].nonce = acc[x].nonce
      /\ RefundTx(mid, tx) = acc
  BY SpendExact
<1> HIDE DEF mid
<1>3. Supply(mid) + tx.amount <= MaxU64
  BY <1>1, <1>2
<1>4. /\ new \in Accounts
      /\ Supply(new) = Supply(mid) + tx.amount
      /\ \A x \in Address : new[x].nonce = mid[x].nonce
      /\ Debit(new, tx.to, tx.amount) = mid
  BY <1>1, <1>2, <1>3, CreditExact
<1>5. ApplyTx(acc, tx) = new
  BY DEF ApplyTx, mid
<1> HIDE DEF new
<1>6. UndoTx(new, tx) = acc
  BY <1>2, <1>4 DEF UndoTx
<1>7. Supply(new) = Supply(acc) - tx.fee
  BY <1>1, <1>2, <1>4
<1> QED BY <1>1, <1>2, <1>4, <1>5, <1>6, <1>7

\* What the first i transactions of a list pay in fees.
FeesOfFirst(txs, i) == SumFunction([j \in 1..i |-> txs[j].fee])

LEMMA FeesOfNext ==
  ASSUME NEW txs \in Seq(Transaction), NEW i \in 1..Len(txs)
  PROVE  /\ FeesOfFirst(txs, i - 1) \in Int
         /\ FeesOfFirst(txs, i) = FeesOfFirst(txs, i - 1) + txs[i].fee
<1> DEFINE f == [j \in 1..(i - 1) |-> txs[j].fee]
           g == [j \in 1..i |-> txs[j].fee]
<1>1. Len(txs) \in Nat /\ i - 1 \in Nat /\ (i - 1) + 1 = i
  BY LenProperties
<1>2. \A j \in 1..Len(txs) : txs[j].fee \in Int
  <2>1. \A j \in 1..Len(txs) : txs[j] \in Transaction
    BY LenProperties
  <2>2. \A tx \in Transaction : tx.fee \in Int
    BY MaxU64Assumption DEF Transaction, U64
  <2> QED BY <2>1, <2>2
<1>3. f \in [1..(i - 1) -> Int] /\ g \in [1..i -> Int]
  BY <1>1, <1>2
<1>4. (\A j \in 1..(i - 1) : g[j] = f[j]) /\ g[i] = txs[i].fee
  BY <1>1
<1> HIDE DEF f, g
<1>5. SumFunction(f) \in Int /\ SumFunction(g) = SumFunction(f) + g[i]
  BY <1>1, <1>3, <1>4, SumExtend
<1> QED BY <1>4, <1>5 DEF f, g, FeesOfFirst

LEMMA FeesType ==
  ASSUME NEW b, LedgerBlock(b)
  PROVE  FeesIn(b) \in Nat
<1> DEFINE n == Len(b.transactions)
           f == [j \in DOMAIN b.transactions |-> b.transactions[j].fee]
<1>1. n \in Nat /\ DOMAIN b.transactions = 1..n /\ \A i \in 1..n : b.transactions[i] \in Transaction
  BY LenProperties DEF LedgerBlock
<1>2. DOMAIN f = 1..n /\ \A j \in 1..n : f[j] \in Nat
  BY <1>1, MaxU64Assumption DEF Transaction, U64
<1>3. IsFiniteSet(1..n)
  BY <1>1, FS_Interval
<1>4. FeesIn(b) = SumFunctionOnSet(f, DOMAIN f)
  BY Zenon DEF FeesIn, SumFunction
<1> HIDE DEF f, n
<1> QED BY <1>2, <1>3, <1>4, SumNat

\* What the application loop of a block went through if it ended well.
PaidExactly(after, txs) ==
  /\ \A i \in 0..Len(txs) :
       /\ after[i].ok
       /\ Supply(after[i].accounts) + FeesOfFirst(txs, i) = Supply(after[0].accounts)
       /\ \A a \in Address : after[i].accounts[a].nonce <= after[0].accounts[a].nonce + i
  /\ \A i \in 1..Len(txs) :
       /\ TxApplies(after[i-1].accounts, txs[i])
       /\ after[i].accounts = ApplyTx(after[i-1].accounts, txs[i])
       /\ UndoTx(after[i].accounts, txs[i]) = after[i-1].accounts
       /\ Supply(after[i-1].accounts) < MaxU64
       /\ after[i-1].accounts[txs[i].from].nonce < MaxU64

LEMMA PayTraceExact ==
  ASSUME NEW acc \in Accounts, NEW txs \in Seq(Transaction),
         NEW after \in [0..Len(txs) -> Simulation],
         IsPayTrace(after, [ok |-> TRUE, accounts |-> acc], txs),
         ApplyTxs([ok |-> TRUE, accounts |-> acc], txs).ok,
         Supply(acc) < MaxU64,
         \A a \in Address : acc[a].nonce + Len(txs) <= MaxU64
  PROVE  PaidExactly(after, txs)
<1> DEFINE n == Len(txs)
<1>1. n \in Nat /\ \A i \in 1..n : txs[i] \in Transaction
  BY LenProperties
<1>2. /\ after[0] = [ok |-> TRUE, accounts |-> acc]
      /\ \A i \in 1..n : after[i] = PayStep(after[i-1], txs[i])
      /\ after[n].ok
  BY DEF IsPayTrace
<1>3. \A i \in 0..n : after[i] \in Simulation /\ after[i].accounts \in Accounts /\ after[i].ok \in BOOLEAN
  BY DEF Simulation
<1> HIDE DEF n
<1>4. \A i \in 0..n : after[i].ok
  <2> DEFINE T == {m \in 0..n : after[n - m].ok}
  <2>1. 0 \in T
    BY <1>1, <1>2
  <2>2. ASSUME NEW m \in 1..n, m - 1 \in T PROVE m \in T
    <3>1. n - m + 1 \in 1..n /\ (n - m + 1) - 1 = n - m /\ n - (m - 1) = n - m + 1
      BY <1>1
    <3>2. after[n - m + 1].ok /\ after[n - m + 1] = PayStep(after[n - m], txs[n - m + 1])
      BY <1>2, <2>2, <3>1
    <3>3. n - m \in 0..n
      BY <1>1
    <3>4. after[n - m].ok
      BY <1>3, <3>2, <3>3 DEF PayStep, Simulation
    <3> QED BY <3>4
  <2> HIDE DEF T
  <2>3. 0..n \subseteq T
    BY <1>1, <2>1, <2>2, BoundedInduction
  <2>4. \A i \in 0..n : n - i \in 0..n /\ n - (n - i) = i
    BY <1>1
  <2> QED BY <2>3, <2>4 DEF T
<1>5. ASSUME NEW i \in 1..n
      PROVE  /\ TxApplies(after[i-1].accounts, txs[i])
             /\ after[i].accounts = ApplyTx(after[i-1].accounts, txs[i])
  <2>1. i - 1 \in 0..n /\ i \in 0..n
    BY <1>1
  <2>2. after[i].ok /\ after[i] = PayStep(after[i-1], txs[i]) /\ after[i-1] \in Simulation
    BY <1>2, <1>3, <1>4, <2>1
  <2> QED BY <2>2 DEF PayStep, Simulation
<1> DEFINE Good(i) ==
             /\ Supply(after[i].accounts) + FeesOfFirst(txs, i) = Supply(acc)
             /\ Supply(after[i].accounts) <= Supply(acc)
             /\ \A a \in Address : after[i].accounts[a].nonce <= acc[a].nonce + i
           T == {i \in 0..n : Good(i)}
<1>6. \A i \in 1..n :
        /\ FeesOfFirst(txs, i - 1) \in Int
        /\ FeesOfFirst(txs, i) = FeesOfFirst(txs, i - 1) + txs[i].fee
  BY FeesOfNext DEF n
<1>7. Supply(acc) \in Nat /\ \A a \in Address : acc[a].nonce \in Nat
  BY BalanceBound
<1>8. 0 \in T
  <2>1. after[0].accounts = acc
    BY <1>2
  <2>2. FeesOfFirst(txs, 0) = 0
    BY SumNone DEF FeesOfFirst
  <2> QED BY <1>1, <1>7, <2>1, <2>2
<1>9. ASSUME NEW i \in 1..n, i - 1 \in T
      PROVE  /\ i \in T
             /\ UndoTx(after[i].accounts, txs[i]) = after[i-1].accounts
             /\ Supply(after[i-1].accounts) < MaxU64
             /\ after[i-1].accounts[txs[i].from].nonce < MaxU64
  <2> DEFINE old == after[i-1].accounts
             new == after[i].accounts
             tx == txs[i]
  <2>1. i - 1 \in 0..n /\ MaxU64 \in Nat
    BY <1>1, MaxU64Assumption
  <2>2. old \in Accounts /\ tx \in Transaction /\ TxApplies(old, tx) /\ new = ApplyTx(old, tx)
    BY <1>1, <1>3, <1>5, <2>1
  <2>3. Good(i - 1)
    BY <1>9
  <2>4. tx.from \in Address /\ tx.fee \in Nat
    BY <2>2, MaxU64Assumption DEF Transaction, U64
  <2>5. Supply(old) \in Nat /\ \A a \in Address : old[a].nonce \in Nat
    BY <2>2, BalanceBound
  <2>6. Supply(old) < MaxU64
    BY <1>7, <2>1, <2>3, <2>5
  <2>7. old[tx.from].nonce < MaxU64
    <3>1. old[tx.from].nonce <= acc[tx.from].nonce + (i - 1)
      BY <2>3, <2>4
    <3>2. acc[tx.from].nonce + n <= MaxU64 /\ acc[tx.from].nonce \in Nat
      BY <1>7, <2>4 DEF n
    <3>3. old[tx.from].nonce \in Nat
      BY <2>4, <2>5
    <3>4. i \in 1..n /\ n \in Nat /\ MaxU64 \in Nat
      BY <1>1, <2>1
    <3> HIDE DEF old, tx
    <3> QED BY ONLY <3>1, <3>2, <3>3, <3>4
  <2> HIDE DEF old, new, tx
  <2>8. /\ new \in Accounts
        /\ Supply(new) = Supply(old) - tx.fee
        /\ new[tx.from].nonce = old[tx.from].nonce + 1
        /\ \A x \in Address : x # tx.from => new[x].nonce = old[x].nonce
        /\ UndoTx(new, tx) = old
    BY <2>2, <2>6, <2>7, TxExact
  <2>9. Supply(new) + FeesOfFirst(txs, i) = Supply(acc) /\ Supply(new) <= Supply(acc)
    <3>1. Supply(old) + FeesOfFirst(txs, i - 1) = Supply(acc) /\ Supply(old) <= Supply(acc)
      BY <2>3 DEF old
    <3>2. FeesOfFirst(txs, i) = FeesOfFirst(txs, i - 1) + tx.fee /\ FeesOfFirst(txs, i - 1) \in Int
      BY <1>6 DEF tx
    <3> QED BY <1>7, <2>4, <2>5, <2>8, <3>1, <3>2
  <2>10. \A a \in Address : new[a].nonce <= acc[a].nonce + i
    <3> TAKE a \in Address
    <3>1. old[a].nonce <= acc[a].nonce + (i - 1)
      BY <2>3 DEF old
    <3>2. new[a].nonce <= old[a].nonce + 1
      BY <2>5, <2>8
    <3>3. new[a].nonce \in Nat /\ old[a].nonce \in Nat /\ acc[a].nonce \in Nat
      BY <1>7, <2>5, <2>8, BalanceBound
    <3>4. i \in Int
      BY <1>1
    <3>5. \A x, y, z \in Nat, k \in Int : x <= y + 1 /\ y <= z + (k - 1) => x <= z + k
      OBVIOUS
    <3> QED BY ONLY <3>1, <3>2, <3>3, <3>4, <3>5
  <2>11. i \in T
    BY <2>9, <2>10 DEF new
  <2> QED BY <2>6, <2>7, <2>8, <2>11 DEF old, new, tx
<1> HIDE DEF T
<1>10. 0..n \subseteq T
  BY <1>1, <1>8, <1>9, BoundedInduction
<1>11. \A i \in 0..n : Good(i)
  BY <1>10 DEF T
<1>12. \A i \in 1..n : i - 1 \in T
  BY <1>1, <1>10
<1>13. after[0].accounts = acc
  BY <1>2
<1> QED BY <1>4, <1>5, <1>9, <1>11, <1>12, <1>13 DEF PaidExactly, n

\* A block that applies creates its reward, destroys its fees, and is undone
\* exactly.
LEMMA BlockExact ==
  ASSUME NEW acc \in Accounts, NEW b, LedgerBlock(b), b.miner \in Address,
         ApplyBlock([ok |-> TRUE, accounts |-> acc], b).ok,
         Supply(acc) + block_reward(b.height) < MaxU64,
         \A a \in Address : acc[a].nonce + Len(b.transactions) <= MaxU64
  PROVE  LET new == ApplyBlock([ok |-> TRUE, accounts |-> acc], b).accounts
         IN  /\ new \in Accounts
             /\ FeesIn(b) \in Int
             /\ Supply(new) + FeesIn(b) = Supply(acc) + block_reward(b.height)
             /\ \A a \in Address : new[a].nonce <= acc[a].nonce + Len(b.transactions)
             /\ UndoBlock(new, b) = acc
<1> DEFINE txs == b.transactions
           n == Len(txs)
           sim == [ok |-> TRUE, accounts |-> acc]
           reward == block_reward(b.height)
           paid == ApplyTxs(sim, txs).accounts
           new == ApplyBlock(sim, b).accounts
<1>1. n \in Nat /\ DOMAIN txs = 1..n /\ txs \in Seq(Transaction) /\ \A i \in 1..n : txs[i] \in Transaction
  BY LenProperties DEF LedgerBlock
<1>2. sim \in Simulation
  BY DEF Simulation
<1>3. reward \in U64 /\ reward \in Nat /\ MaxU64 \in Nat
  BY RewardType, MaxU64Assumption DEF LedgerBlock, U64
<1>4. ApplyTxs(sim, txs).ok /\ new = Credit(paid, b.miner, reward)
  BY DEF ApplyBlock
<1>5. Supply(acc) \in Nat /\ Supply(acc) < MaxU64
  <2>1. Supply(acc) \in Nat
    BY BalanceBound
  <2> HIDE DEF reward
  <2>2. Supply(acc) + reward < MaxU64
    BY DEF reward
  <2> QED BY <1>3, <2>1, <2>2
<1>6. PICK after \in [0..n -> Simulation] : IsPayTrace(after, sim, txs)
  <2>1. \A i \in 1..n : \A s \in Simulation : PayStep(s, txs[i]) \in Simulation
    BY <1>1, PayStepType
  <2> HIDE DEF txs, sim, n
  <2>2. \E after \in [0..Len(txs) -> Simulation] : IsPayTrace(after, sim, txs)
    BY <1>1, <1>2, <2>1, ApplyTxsTrace DEF n
  <2> QED BY <2>2 DEF n
<1>7. PaidExactly(after, txs)
  <2>1. \A a \in Address : acc[a].nonce + Len(txs) <= MaxU64
    OBVIOUS
  <2> HIDE DEF txs
  <2> QED BY <1>1, <1>4, <1>5, <1>6, <2>1, PayTraceExact
<1>8. after[0].accounts = acc /\ after[n].accounts = paid
  BY <1>6 DEF IsPayTrace
<1>9. \A i \in 0..n : after[i].accounts \in Accounts
  BY DEF Simulation
<1>10. paid \in Accounts
  BY <1>1, <1>8, <1>9
<1>11. FeesIn(b) = FeesOfFirst(txs, n)
  BY <1>1 DEF FeesIn, FeesOfFirst
<1>12. FeesIn(b) \in Nat
  BY FeesType
<1> HIDE DEF n, txs, sim, reward, paid, new
<1>13. /\ Supply(paid) + FeesIn(b) = Supply(acc)
       /\ \A a \in Address : paid[a].nonce <= acc[a].nonce + n
  <2>1. n \in 0..n /\ n = Len(txs)
    BY <1>1 DEF n
  <2> QED BY <1>7, <1>8, <1>11, <2>1 DEF PaidExactly
<1>14. Supply(paid) \in Nat /\ Supply(paid) + reward <= MaxU64
  <2>1. Supply(paid) \in Nat
    BY <1>10, BalanceBound
  <2>2. Supply(acc) + reward < MaxU64
    BY DEF reward
  <2> QED BY ONLY <1>3, <1>5, <1>12, <1>13, <2>1, <2>2
<1>15. /\ new \in Accounts
       /\ Supply(new) = Supply(paid) + reward
       /\ \A a \in Address : new[a].nonce = paid[a].nonce
       /\ Debit(new, b.miner, reward) = paid
  BY <1>3, <1>4, <1>10, <1>14, CreditExact
<1>16. UndoBlock(new, b) = acc
  <2>1. \A i \in 1..n : \A s \in Accounts : UndoTx(s, txs[i]) \in Accounts
    BY <1>1, TxType
  <2>2. \E u \in [0..Len(b.transactions) -> Accounts] : IsUndoTrace(u, new, b)
    BY <1>1, <1>10, <1>15, <2>1, UndoBlockTrace DEF n, txs, reward
  <2>3. PICK u : IsUndoTrace(u, new, b)
    BY <2>2
  <2>4. /\ u[0] = paid
        /\ \A i \in 1..n : u[i] = UndoTx(u[i-1], txs[n + 1 - i])
        /\ UndoBlock(new, b) = u[n]
    BY <1>15, <2>3 DEF IsUndoTrace, n, txs, reward
  <2> DEFINE T == {i \in 0..n : u[i] = after[n - i].accounts}
  <2>5. 0 \in T
    BY <1>1, <1>8, <2>4
  <2>6. ASSUME NEW i \in 1..n, i - 1 \in T PROVE i \in T
    <3>1. n + 1 - i \in 1..n /\ n - (i - 1) = n + 1 - i /\ (n + 1 - i) - 1 = n - i
      BY <1>1
    <3>2. UndoTx(after[n + 1 - i].accounts, txs[n + 1 - i]) = after[n - i].accounts
      BY <1>7, <3>1 DEF PaidExactly, n
    <3>3. u[i-1] = after[n + 1 - i].accounts
      BY <2>6, <3>1
    <3> QED BY <2>4, <3>2, <3>3
  <2> HIDE DEF T
  <2>7. 0..n \subseteq T
    BY <1>1, <2>5, <2>6, BoundedInduction
  <2>8. u[n] = after[n - n].accounts
    BY <1>1, <2>7 DEF T
  <2>9. n - n = 0
    BY <1>1
  <2> QED BY <1>8, <2>4, <2>8, <2>9
<1>17. Supply(new) + FeesIn(b) = Supply(acc) + reward
  BY ONLY <1>3, <1>5, <1>12, <1>13, <1>14, <1>15
<1>18. \A a \in Address : new[a].nonce <= acc[a].nonce + n
  BY <1>13, <1>15
<1>19. /\ new = ApplyBlock([ok |-> TRUE, accounts |-> acc], b).accounts
       /\ reward = block_reward(b.height)
       /\ n = Len(b.transactions)
  BY DEF n, txs, sim, reward, new
<1>20. FeesIn(b) \in Int
  BY <1>12
<1> QED BY ONLY <1>15, <1>16, <1>17, <1>18, <1>19, <1>20, Zenon

-----------------------------------------------------------------------------
(* Nonces count what was executed.                                         *)

SentBy(T, a) == {tx \in T : tx.from = a}

\* acc is what executing the transactions of T, and no others, made of the
\* nonces.
Executed(acc, T) ==
  /\ IsFiniteSet(T) /\ T \subseteq Transaction
  /\ \A tx \in T : tx.account_nonce < acc[tx.from].nonce
  /\ \A a \in Address : acc[a].nonce = Cardinality(SentBy(T, a))

\* A transaction that applies was not executed before.
LEMMA TxExecutes ==
  ASSUME NEW acc \in Accounts, NEW tx \in Transaction, TxApplies(acc, tx),
         Supply(acc) < MaxU64, acc[tx.from].nonce < MaxU64,
         NEW T, Executed(acc, T)
  PROVE  tx \notin T /\ Executed(ApplyTx(acc, tx), T \cup {tx})
<1> DEFINE new == ApplyTx(acc, tx)
           U == T \cup {tx}
<1>1. /\ new[tx.from].nonce = acc[tx.from].nonce + 1
      /\ \A x \in Address : x # tx.from => new[x].nonce = acc[x].nonce
  BY TxExact
<1>2. \A a \in Address : acc[a].nonce \in Nat
  BY BalanceBound
<1>3. /\ tx.from \in Address /\ tx.account_nonce = acc[tx.from].nonce
      /\ \A t \in T : t \in Transaction /\ t.from \in Address /\ t.account_nonce \in Int
  BY MaxU64Assumption DEF TxApplies, Transaction, Executed, U64
<1> HIDE DEF new
<1>4. tx \notin T
  BY <1>2, <1>3 DEF Executed
<1>5. IsFiniteSet(U) /\ U \subseteq Transaction
  BY FS_AddElement DEF Executed
<1>6. ASSUME NEW t \in U PROVE t.account_nonce < new[t.from].nonce
  <2>1. CASE t = tx
    BY <1>1, <1>2, <1>3, <2>1
  <2>2. CASE t \in T
    <3>1. t.account_nonce < acc[t.from].nonce
      BY <2>2 DEF Executed
    <3>2. new[t.from].nonce = acc[t.from].nonce \/ new[t.from].nonce = acc[t.from].nonce + 1
      BY <1>1, <1>3, <2>2
    <3>3. acc[t.from].nonce \in Nat /\ t.account_nonce \in Int
      BY <1>2, <1>3, <2>2
    <3> QED BY ONLY <3>1, <3>2, <3>3
  <2> QED BY <2>1, <2>2
<1>7. ASSUME NEW a \in Address PROVE new[a].nonce = Cardinality(SentBy(U, a))
  <2>1. IsFiniteSet(SentBy(T, a)) /\ acc[a].nonce = Cardinality(SentBy(T, a))
    <3>1. SentBy(T, a) \in SUBSET T
      BY DEF SentBy
    <3> QED BY <3>1, FS_Subset DEF Executed
  <2>2. CASE a = tx.from
    <3>1. SentBy(U, a) = SentBy(T, a) \cup {tx} /\ tx \notin SentBy(T, a)
      BY <1>4, <2>2 DEF SentBy
    <3> QED BY <1>1, <2>1, <2>2, <3>1, FS_AddElement
  <2>3. CASE a # tx.from
    <3>1. SentBy(U, a) = SentBy(T, a)
      BY <2>3 DEF SentBy
    <3> QED BY <1>1, <2>1, <2>3, <3>1
  <2> QED BY <2>2, <2>3
<1> QED BY <1>4, <1>5, <1>6, <1>7 DEF Executed, new

\* The transactions of a block.
TxsIn(b) == {b.transactions[j] : j \in DOMAIN b.transactions}

\* A block that applies executes each of its transactions for the first time.
LEMMA BlockExecutes ==
  ASSUME NEW acc \in Accounts, NEW b, LedgerBlock(b), b.miner \in Address,
         ApplyBlock([ok |-> TRUE, accounts |-> acc], b).ok,
         Supply(acc) + block_reward(b.height) < MaxU64,
         \A a \in Address : acc[a].nonce + Len(b.transactions) <= MaxU64,
         NEW T, Executed(acc, T)
  PROVE  /\ Executed(ApplyBlock([ok |-> TRUE, accounts |-> acc], b).accounts, T \cup TxsIn(b))
         /\ T \cap TxsIn(b) = {}
         /\ \A i, j \in DOMAIN b.transactions :
              b.transactions[i] = b.transactions[j] => i = j
<1> DEFINE txs == b.transactions
           n == Len(txs)
           sim == [ok |-> TRUE, accounts |-> acc]
           reward == block_reward(b.height)
           paid == ApplyTxs(sim, txs).accounts
<1>1. n \in Nat /\ DOMAIN txs = 1..n /\ txs \in Seq(Transaction) /\ \A i \in 1..n : txs[i] \in Transaction
  BY LenProperties DEF LedgerBlock
<1>2. sim \in Simulation
  BY DEF Simulation
<1>3. reward \in U64 /\ reward \in Nat /\ MaxU64 \in Nat
  BY RewardType, MaxU64Assumption DEF LedgerBlock, U64
<1>4. ApplyTxs(sim, txs).ok /\ ApplyBlock(sim, b).accounts = Credit(paid, b.miner, reward)
  BY DEF ApplyBlock
<1>5. Supply(acc) < MaxU64
  <2>1. Supply(acc) \in Nat
    BY BalanceBound
  <2> HIDE DEF reward
  <2>2. Supply(acc) + reward < MaxU64
    BY DEF reward
  <2> QED BY <1>3, <2>1, <2>2
<1>6. PICK after \in [0..n -> Simulation] : IsPayTrace(after, sim, txs)
  <2>1. \A i \in 1..n : \A s \in Simulation : PayStep(s, txs[i]) \in Simulation
    BY <1>1, PayStepType
  <2> HIDE DEF txs, sim, n
  <2>2. \E after \in [0..Len(txs) -> Simulation] : IsPayTrace(after, sim, txs)
    BY <1>1, <1>2, <2>1, ApplyTxsTrace DEF n
  <2> QED BY <2>2 DEF n
<1>7. PaidExactly(after, txs)
  <2>1. \A a \in Address : acc[a].nonce + Len(txs) <= MaxU64
    OBVIOUS
  <2> HIDE DEF txs
  <2> QED BY <1>1, <1>4, <1>5, <1>6, <2>1, PayTraceExact
<1>8. after[0].accounts = acc /\ after[n].accounts = paid
  BY <1>6 DEF IsPayTrace
<1>9. \A i \in 0..n : after[i].accounts \in Accounts
  BY DEF Simulation
<1>10. paid \in Accounts
  BY <1>1, <1>8, <1>9
<1> DEFINE First(i) == T \cup {txs[j] : j \in 1..i}
           K == {i \in 0..n : Executed(after[i].accounts, First(i))}
<1> HIDE DEF n, txs, sim, reward, paid
<1>11. 0 \in K
  <2>1. First(0) = T
    OBVIOUS
  <2>2. Executed(acc, T) /\ 0 \in 0..n
    BY <1>1
  <2> HIDE DEF First
  <2> QED BY <1>8, <2>1, <2>2
<1>12. ASSUME NEW i \in 1..n, i - 1 \in K PROVE i \in K /\ txs[i] \notin First(i - 1)
  <2>1. /\ TxApplies(after[i-1].accounts, txs[i])
        /\ after[i].accounts = ApplyTx(after[i-1].accounts, txs[i])
        /\ Supply(after[i-1].accounts) < MaxU64
        /\ after[i-1].accounts[txs[i].from].nonce < MaxU64
    BY <1>7 DEF PaidExactly, n
  <2>2. i - 1 \in 0..n /\ txs[i] \in Transaction
    BY <1>1
  <2>3. First(i) = First(i - 1) \cup {txs[i]}
    <3>1. 1..i = 1..(i - 1) \cup {i}
      BY <1>1
    <3> QED BY <3>1
  <2>4. Executed(after[i-1].accounts, First(i - 1)) /\ after[i-1].accounts \in Accounts
    BY <1>9, <1>12, <2>2
  <2> HIDE DEF First
  <2>5. txs[i] \notin First(i - 1) /\ Executed(after[i].accounts, First(i))
    BY <2>1, <2>2, <2>3, <2>4, TxExecutes
  <2> QED BY <2>5
<1> HIDE DEF K
<1>13. 0..n \subseteq K
  BY <1>1, <1>11, <1>12, BoundedInduction
<1>14. \A i \in 1..n : txs[i] \notin First(i - 1)
  <2>1. \A i \in 1..n : i - 1 \in 0..n
    BY <1>1
  <2> QED BY <1>12, <1>13, <2>1
<1>15. T \cap TxsIn(b) = {}
  BY <1>1, <1>14 DEF TxsIn, txs
<1>16. \A i, j \in 1..n : txs[i] = txs[j] => i = j
  <2>1. \A i, j \in 1..n : i < j => txs[i] # txs[j]
    <3> SUFFICES ASSUME NEW i \in 1..n, NEW j \in 1..n, i < j PROVE txs[i] # txs[j]
      OBVIOUS
    <3>1. i \in 1..(j - 1)
      BY <1>1
    <3> QED BY <1>14, <3>1
  <2>2. \A i, j \in 1..n : i < j \/ j < i \/ i = j
    BY <1>1
  <2> QED BY <2>1, <2>2
<1>17. Executed(paid, T \cup TxsIn(b))
  <2>1. n \in K /\ First(n) = T \cup TxsIn(b)
    BY <1>1, <1>13 DEF TxsIn, txs
  <2> QED BY <1>8, <2>1 DEF K
<1>18. Executed(Credit(paid, b.miner, reward), T \cup TxsIn(b))
  <2> DEFINE new == Credit(paid, b.miner, reward)
  <2>1. \A a \in Address : new[a].nonce = paid[a].nonce
    BY <1>10 DEF Credit, Accounts, Account
  <2>2. \A tx \in T \cup TxsIn(b) : tx.from \in Address
    BY <1>17 DEF Executed, Transaction
  <2> DEFINE U == T \cup TxsIn(b)
  <2> HIDE DEF new, U
  <2>3. IsFiniteSet(U) /\ U \subseteq Transaction /\ Executed(paid, U)
    BY <1>17 DEF Executed, U
  <2>4. \A tx \in U : tx.account_nonce < new[tx.from].nonce
    BY <2>1, <2>2, <2>3 DEF Executed, U
  <2>5. \A a \in Address : new[a].nonce = Cardinality(SentBy(U, a))
    BY <2>1, <2>3 DEF Executed
  <2>6. Executed(new, U)
    BY <2>3, <2>4, <2>5 DEF Executed
  <2> QED BY <2>6 DEF new, U
<1> QED BY <1>1, <1>4, <1>15, <1>16, <1>18 DEF txs, sim

-----------------------------------------------------------------------------
(* Hashes.                                                                 *)

\* The header fields a block adds to its parent's hash.
Fields(b) == [height |-> b.height, tx_root |-> b.tx_root,
              timestamp |-> b.timestamp, difficulty |-> b.difficulty,
              miner |-> b.miner, nonce |-> b.nonce]

\* The hash of a submitted block is one header longer than its parent's, and
\* its parent's hash is what remains below.
LEMMA IdFacts ==
  ASSUME NEW b \in Submittable
  PROVE  /\ b \in Block
         /\ b.prev_hash \in Hash
         /\ Len(b.prev_hash) \in Nat
         /\ id(b) \in Hash
         /\ Len(id(b)) = Len(b.prev_hash) + 1
         /\ id(b) # b.prev_hash
         /\ id(b) # genesis_block_hash
         /\ \A k \in 0..Len(b.prev_hash) : SubSeq(id(b), 1, k) = SubSeq(b.prev_hash, 1, k)
         /\ SubSeq(id(b), 1, Len(id(b))) = id(b)
<1>1. b \in Block /\ b.prev_hash \in Hash
  BY SubmittableAssumption DEF Block
<1>2. Fields(b) \in HeaderFields
  BY <1>1 DEF Fields, HeaderFields, Block
<1>3. id(b) = Append(b.prev_hash, Fields(b))
  BY DEF id, Fields
<1>4. Len(b.prev_hash) \in Nat
  BY <1>1, LenProperties DEF Hash
<1>5. id(b) \in Hash /\ Len(id(b)) = Len(b.prev_hash) + 1
  <2> DEFINE p == b.prev_hash
             f == Fields(b)
  <2>1. p \in Seq(HeaderFields) /\ f \in HeaderFields
    BY <1>1, <1>2 DEF Hash
  <2> HIDE DEF p, f
  <2>2. Append(p, f) \in Seq(HeaderFields) /\ Len(Append(p, f)) = Len(p) + 1
    BY <2>1
  <2> QED BY <1>3, <2>2 DEF p, f, Hash
<1>6. \A k \in 0..Len(b.prev_hash) : SubSeq(id(b), 1, k) = SubSeq(b.prev_hash, 1, k)
  <2> DEFINE p == b.prev_hash
             f == Fields(b)
  <2>1. p \in Seq(HeaderFields) /\ f \in HeaderFields
    BY <1>1, <1>2 DEF Hash
  <2> HIDE DEF p, f
  <2>2. \A k \in 0..Len(p) : SubSeq(Append(p, f), 1, k) = SubSeq(p, 1, k)
    BY <2>1
  <2> QED BY <1>3, <2>2 DEF p, f
<1>7. SubSeq(id(b), 1, Len(id(b))) = id(b)
  BY <1>5, SubSeqFull, Zenon DEF Hash
<1>8. id(b) # b.prev_hash
  BY <1>4, <1>5
<1>9. id(b) # genesis_block_hash
  BY <1>4, <1>5 DEF genesis_block_hash
<1> QED BY <1>1, <1>4, <1>5, <1>6, <1>7, <1>8, <1>9

\* fork_paths finds an ancestor that both tips share.
LEMMA ForkHeightFacts ==
  ASSUME NEW s \in Hash, NEW t \in Hash
  PROVE  /\ ForkHeight(s, t) \in 0..Len(s)
         /\ ForkHeight(s, t) <= Len(t)
         /\ SubSeq(s, 1, ForkHeight(s, t)) = SubSeq(t, 1, ForkHeight(s, t))
<1> DEFINE P(k) == /\ k <= Len(t)
                   /\ SubSeq(s, 1, k) = SubSeq(t, 1, k)
                   /\ \/ k = Len(s)
                      \/ k = Len(t)
                      \/ s[k+1] # t[k+1]
<1>1. \E k \in 0..Len(s) : P(k)
  BY CommonPrefixExists, Zenon DEF Hash
<1>2. ForkHeight(s, t) = CHOOSE k \in 0..Len(s) : P(k)
  BY Zenon DEF ForkHeight
<1> HIDE DEF P
<1>3. ForkHeight(s, t) \in 0..Len(s) /\ P(ForkHeight(s, t))
  BY <1>1, <1>2, Zenon
<1> QED BY <1>3 DEF P

-----------------------------------------------------------------------------
(* The inductive invariant of the store.  BlockTree and CanonicalIndex are *)
(* not inductive without each other and without the types; the genesis     *)
(* block is needed for the height of its children, and StaysInFirstEpoch   *)
(* needs the index to be bounded by the tip.                               *)

\* Every ancestor of a stored block is stored.
PrefixClosed ==
  \A h \in DOMAIN blocks : \A k \in 0..Len(h) : SubSeq(h, 1, k) \in DOMAIN blocks

StoreInv ==
  /\ StoreTypeOK
  /\ CacheTypeOK
  /\ blocks[genesis_block_hash] = GenesisBlock
  /\ BlockTree
  /\ PrefixClosed
  /\ CanonicalIndex
  /\ StaysInFirstEpoch

\* A height whose dataset is available lies in epoch 0.
LEMMA AvailableInFirstEpoch ==
  ASSUME StoreInv, NEW h \in Nat, DatasetAvailable(h)
  PROVE  h < EpochLength /\ epoch_of(h) = 0
<1> DEFINE e == epoch_of(h)
<1>1. EpochLength \in Nat /\ EpochLength > 0
  BY EpochAssumption
<1>2. e \in Nat /\ h < (e + 1) * EpochLength
  BY <1>1 DEF epoch_of
<1>3. DOMAIN heights = 0..tip.height /\ tip.height < EpochLength /\ tip.height \in Nat
  <2>1. tip.hash \in DOMAIN blocks /\ tip.height = Len(tip.hash) /\ tip.height \in Nat
    BY DEF StoreInv, CanonicalIndex, StoreTypeOK
  <2>2. blocks[tip.hash].height = Len(tip.hash)
    <3>1. CASE tip.hash = genesis_block_hash
      BY <3>1 DEF StoreInv, genesis_block_hash, GenesisBlock
    <3>2. CASE tip.hash # genesis_block_hash
      BY <2>1, <3>2 DEF StoreInv, BlockTree
    <3> QED BY <3>1, <3>2
  <2> QED BY <2>1, <2>2 DEF StoreInv, CanonicalIndex, StaysInFirstEpoch
<1>4. e = 0
  <2>1. CASE IsCached(e)
    BY <2>1 DEF IsCached, StoreInv, StaysInFirstEpoch
  <2>2. CASE e * EpochLength \in DOMAIN heights
    <3>1. e * EpochLength < EpochLength
      BY <1>1, <1>2, <1>3, <2>2
    <3> HIDE DEF e
    <3> QED BY <1>1, <1>2, <3>1
  <2> QED BY <2>1, <2>2 DEF DatasetAvailable
<1> QED BY <1>1, <1>2, <1>4

\* Looking up a dataset keeps the cache to one entry, of epoch 0.
LEMMA CacheStep ==
  ASSUME StoreInv, NEW h \in Nat, DatasetAvailable(h), dataset_cache' = CacheAfter(h)
  PROVE  CacheTypeOK' /\ (\A d \in dataset_cache' : d.epoch = 0)
<1>1. epoch_of(h) = 0
  BY AvailableInFirstEpoch
<1>2. CASE IsCached(0)
  BY <1>1, <1>2 DEF CacheAfter, StoreInv, CacheTypeOK, StaysInFirstEpoch
<1>3. CASE ~ IsCached(0)
  <2>1. dataset_cache' = {[epoch |-> 0, seed |-> ZERO]}
    BY <1>1, <1>3 DEF CacheAfter
  <2>2. Cardinality(dataset_cache') = 1
    BY <2>1, FS_Singleton, Zenon
  <2> QED BY <2>1, <2>2 DEF CacheTypeOK
<1> QED BY <1>2, <1>3

\* Storing a block that passed every check keeps the tree a tree.
LEMMA StoreStep ==
  ASSUME StoreInv, NEW b \in Submittable, Storable(b), StoreBlock(b)
  PROVE  /\ DOMAIN blocks' = DOMAIN blocks \cup {id(b)}
         /\ DOMAIN blocks' \subseteq Hash /\ blocks' \in [DOMAIN blocks' -> Block]
         /\ DOMAIN chainwork' \subseteq Hash /\ chainwork' \in [DOMAIN chainwork' -> Nat]
         /\ CacheTypeOK'
         /\ blocks'[genesis_block_hash] = GenesisBlock
         /\ BlockTree'
         /\ PrefixClosed'
         /\ StaysInFirstEpoch'
         /\ b.height = Len(id(b))
         /\ chainwork'[id(b)] = ThisWork(b)
         /\ \A h \in DOMAIN chainwork : chainwork'[h] = chainwork[h]
<1> DEFINE n == id(b)
<1>1. /\ b \in Block /\ b.prev_hash \in Hash /\ n \in Hash
      /\ Len(b.prev_hash) \in Nat /\ Len(n) = Len(b.prev_hash) + 1
      /\ n # b.prev_hash /\ n # genesis_block_hash
  BY IdFacts
<1>2. /\ n \notin DOMAIN blocks /\ b.prev_hash \in DOMAIN blocks
      /\ blocks[b.prev_hash].height + 1 = b.height
      /\ DatasetAvailable(b.height)
  BY DEF Storable, Fresh, ParentStored, FollowsParent
<1>3. /\ DOMAIN chainwork = DOMAIN blocks
      /\ genesis_block_hash \in DOMAIN blocks
      /\ chainwork[genesis_block_hash] = InitialDifficulty
      /\ \A h \in DOMAIN blocks \ {genesis_block_hash} :
           /\ h = id(blocks[h])
           /\ blocks[h].height = Len(h)
           /\ blocks[h].prev_hash \in DOMAIN blocks
           /\ chainwork[h] = chainwork[blocks[h].prev_hash] + blocks[h].difficulty
  BY DEF StoreInv, BlockTree
<1>4. b.height \in Nat /\ b.difficulty \in Nat
  BY <1>1, MaxU64Assumption DEF Block, U64
<1>5. b.height = Len(n)
  <2>1. CASE b.prev_hash = genesis_block_hash
    BY <1>1, <1>2, <2>1 DEF StoreInv, GenesisBlock, genesis_block_hash
  <2>2. CASE b.prev_hash # genesis_block_hash
    BY <1>1, <1>2, <1>3, <2>2
  <2> QED BY <2>1, <2>2
<1> HIDE DEF n
<1>6. /\ DOMAIN blocks' = DOMAIN blocks \cup {n}
      /\ blocks'[n] = b
      /\ \A h \in DOMAIN blocks : blocks'[h] = blocks[h]
      /\ blocks' = [h \in DOMAIN blocks \cup {n} |-> IF h = n THEN b ELSE blocks[h]]
  BY <1>2 DEF StoreBlock, Insert, n
<1>7. /\ DOMAIN chainwork' = DOMAIN blocks \cup {n}
      /\ chainwork'[n] = ThisWork(b)
      /\ \A h \in DOMAIN blocks : chainwork'[h] = chainwork[h]
      /\ chainwork' = [h \in DOMAIN blocks \cup {n} |-> IF h = n THEN ThisWork(b) ELSE chainwork[h]]
  BY <1>2, <1>3 DEF StoreBlock, Insert, n
<1>8. ThisWork(b) = chainwork[b.prev_hash] + b.difficulty /\ ThisWork(b) \in Nat
  BY <1>2, <1>3, <1>4 DEF ThisWork, block_work, StoreInv, StoreTypeOK
<1>9. DOMAIN blocks' \subseteq Hash /\ blocks' \in [DOMAIN blocks' -> Block]
  BY <1>1, <1>6 DEF StoreInv, StoreTypeOK
<1>10. DOMAIN chainwork' \subseteq Hash /\ chainwork' \in [DOMAIN chainwork' -> Nat]
  BY <1>1, <1>3, <1>7, <1>8 DEF StoreInv, StoreTypeOK
<1>11. CacheTypeOK' /\ (\A d \in dataset_cache' : d.epoch = 0)
  BY <1>2, <1>4, CacheStep DEF StoreBlock
<1>12. blocks'[genesis_block_hash] = GenesisBlock
  BY <1>3, <1>6 DEF StoreInv
<1>13. BlockTree'
  <2>1. DOMAIN chainwork' = DOMAIN blocks' /\ genesis_block_hash \in DOMAIN blocks'
    BY <1>3, <1>6, <1>7
  <2>2. chainwork'[genesis_block_hash] = InitialDifficulty
    BY <1>3, <1>7
  <2>3. ASSUME NEW h \in DOMAIN blocks' \ {genesis_block_hash}
        PROVE  /\ h = id(blocks'[h])
               /\ blocks'[h].height = Len(h)
               /\ blocks'[h].prev_hash \in DOMAIN blocks'
               /\ chainwork'[h] = chainwork'[blocks'[h].prev_hash] + blocks'[h].difficulty
    <3>1. CASE h = n
      <4>1. h = id(blocks'[h])
        BY <1>6, <3>1 DEF n
      <4> QED BY <1>2, <1>5, <1>6, <1>7, <1>8, <3>1, <4>1
    <3>2. CASE h \in DOMAIN blocks
      BY <1>3, <1>6, <1>7, <3>2
    <3> QED BY <1>6, <3>1, <3>2
  <2> QED BY <2>1, <2>2, <2>3 DEF BlockTree, genesis_block_hash
<1>14. StaysInFirstEpoch'
  <2>1. b.height < EpochLength
    BY <1>2, <1>4, AvailableInFirstEpoch
  <2> QED BY <1>6, <1>11, <2>1 DEF StoreInv, StaysInFirstEpoch
<1>15. PrefixClosed'
  <2>1. \A k \in 0..Len(n) : SubSeq(n, 1, k) \in DOMAIN blocks \cup {n}
    <3> TAKE k \in 0..Len(n)
    <3>1. CASE k = Len(n)
      BY <3>1, IdFacts DEF n
    <3>2. CASE k \in 0..Len(b.prev_hash)
      <4>1. SubSeq(n, 1, k) = SubSeq(b.prev_hash, 1, k)
        BY <3>2, IdFacts DEF n
      <4> QED BY <1>2, <3>2, <4>1 DEF StoreInv, PrefixClosed
    <3> QED BY <1>1, <3>1, <3>2
  <2> QED BY <1>6, <2>1 DEF StoreInv, PrefixClosed
<1> QED
  BY <1>3, <1>5, <1>6, <1>7, <1>9, <1>10, <1>11, <1>12, <1>13, <1>14, <1>15 DEF n

-----------------------------------------------------------------------------
(* The canonical index across a reorg.                                     *)

\* ReindexedHeights of any index.
Reindex(index, old, new) ==
  LET undone  == {Len(old) + 1 - i : i \in DOMAIN undo_list(old, new)}
      applied == {Len(apply_list(old, new)[i]) : i \in DOMAIN apply_list(old, new)}
  IN  [k \in (DOMAIN index \ undone) \cup applied |->
         IF k \in applied THEN SubSeq(new, 1, k) ELSE index[k]]

\* Removing the undone heights and writing the applied ones turns the index
\* of one tip into the index of the other, whichever is longer.
LEMMA ReindexFacts ==
  ASSUME NEW old \in Hash, NEW new \in Hash, NEW index,
         index = [k \in 0..Len(old) |-> SubSeq(old, 1, k)]
  PROVE  Reindex(index, old, new) = [k \in 0..Len(new) |-> SubSeq(new, 1, k)]
<1> DEFINE f == ForkHeight(old, new)
           ul == undo_list(old, new)
           al == apply_list(old, new)
           undone == {Len(old) + 1 - i : i \in DOMAIN ul}
           applied == {Len(al[i]) : i \in DOMAIN al}
<1>1. /\ Len(old) \in Nat /\ Len(new) \in Nat
      /\ old \in Seq(HeaderFields) /\ new \in Seq(HeaderFields)
  BY LenProperties DEF Hash
<1>2. f \in 0..Len(old) /\ f <= Len(new) /\ SubSeq(old, 1, f) = SubSeq(new, 1, f)
  BY ForkHeightFacts
<1>3. DOMAIN ul = 1..(Len(old) - f)
  BY DEF undo_list
<1>4. DOMAIN al = 1..(Len(new) - f) /\ \A i \in DOMAIN al : al[i] = SubSeq(new, 1, f + i)
  BY DEF apply_list
<1> HIDE DEF f, ul, al
<1>5. undone = (f + 1)..Len(old)
  <2>1. \A i \in 1..(Len(old) - f) : Len(old) + 1 - i \in (f + 1)..Len(old)
    BY <1>1, <1>2
  <2>2. \A k \in (f + 1)..Len(old) : /\ Len(old) + 1 - k \in 1..(Len(old) - f)
                                     /\ Len(old) + 1 - (Len(old) + 1 - k) = k
    BY <1>1, <1>2
  <2> QED BY <1>3, <2>1, <2>2
<1>6. applied = (f + 1)..Len(new)
  <2>1. \A i \in 1..(Len(new) - f) : Len(al[i]) = f + i
    <3> TAKE i \in 1..(Len(new) - f)
    <3>1. f + i \in 0..Len(new)
      BY <1>1, <1>2
    <3>2. i \in DOMAIN al
      BY <1>4
    <3>3. al[i] = SubSeq(new, 1, f + i)
      BY <1>4, <3>2, Zenon
    <3> QED BY <1>1, <3>1, <3>3
  <2>2. \A i \in 1..(Len(new) - f) : f + i \in (f + 1)..Len(new)
    BY <1>1, <1>2
  <2>3. \A k \in (f + 1)..Len(new) : k - f \in 1..(Len(new) - f) /\ f + (k - f) = k
    BY <1>1, <1>2
  <2> QED BY <1>4, <2>1, <2>2, <2>3
<1> HIDE DEF undone, applied
<1>7. (DOMAIN index \ undone) \cup applied = 0..Len(new)
  BY <1>1, <1>2, <1>5, <1>6
<1>8. \A k \in 0..Len(new) : k \notin applied => index[k] = SubSeq(new, 1, k)
  <2> SUFFICES ASSUME NEW k \in 0..Len(new), k \notin applied
               PROVE  index[k] = SubSeq(new, 1, k)
    OBVIOUS
  <2>1. k \in 0..f /\ k \in 0..Len(old)
    BY <1>1, <1>2, <1>6
  <2>2. SubSeq(old, 1, k) = SubSeq(new, 1, k)
    BY <1>1, <1>2, <2>1, SharedPrefix, Zenon
  <2> QED BY <2>1, <2>2
<1>9. [k \in (DOMAIN index \ undone) \cup applied |->
         IF k \in applied THEN SubSeq(new, 1, k) ELSE index[k]]
        = [k \in 0..Len(new) |-> SubSeq(new, 1, k)]
  BY <1>7, <1>8
<1> QED BY <1>9, Zenon DEF Reindex, undone, applied, ul, al

LEMMA ReindexStep ==
  ASSUME NEW old \in Hash, NEW new \in Hash,
         heights = [k \in 0..Len(old) |-> SubSeq(old, 1, k)]
  PROVE  ReindexedHeights(old, new) = [k \in 0..Len(new) |-> SubSeq(new, 1, k)]
<1>1. ReindexedHeights(old, new) = Reindex(heights, old, new)
  BY Zenon DEF ReindexedHeights, Reindex
<1> QED BY <1>1, ReindexFacts, Zenon

-----------------------------------------------------------------------------
(* Init and Next.                                                          *)

LEMMA StoreInvInit == Init => StoreInv
<1> SUFFICES ASSUME Init PROVE StoreInv
  OBVIOUS
<1>1. genesis_block_hash \in Hash /\ Len(genesis_block_hash) = 0
  BY EmptySeq DEF genesis_block_hash, Hash
<1>2. GenesisBlock \in Block
  BY GenesisAssumption, EmptySeq DEF GenesisBlock, Block
<1>3. InitialDifficulty \in Nat
  BY GenesisAssumption, MaxU64Assumption DEF U64
<1>4. StoreTypeOK
  BY <1>1, <1>2, <1>3 DEF Init, StoreTypeOK, block_work
<1>5. CacheTypeOK
  BY FS_EmptySet DEF Init, CacheTypeOK
<1>6. blocks[genesis_block_hash] = GenesisBlock
  BY DEF Init
<1>7. BlockTree
  BY <1>1, <1>3 DEF Init, BlockTree, block_work
<1>8. CanonicalIndex
  <2>1. SubSeq(genesis_block_hash, 1, 0) = genesis_block_hash
    BY DEF genesis_block_hash
  <2> QED BY <1>1, <2>1 DEF Init, CanonicalIndex
<1>9. StaysInFirstEpoch
  BY EpochAssumption DEF Init, StaysInFirstEpoch, GenesisBlock
<1>10. PrefixClosed
  <2>1. \A k \in 0..0 : SubSeq(genesis_block_hash, 1, k) = genesis_block_hash
    BY DEF genesis_block_hash
  <2> QED BY <1>1, <2>1 DEF Init, PrefixClosed
<1> QED BY <1>4, <1>5, <1>6, <1>7, <1>8, <1>9, <1>10 DEF StoreInv

\* A step that leaves the trees alone and the cache in epoch 0.
LEMMA QuietStep ==
  ASSUME StoreInv, StoreUnchanged,
         CacheTypeOK', \A d \in dataset_cache' : d.epoch = 0
  PROVE  StoreInv'
BY DEF StoreInv, StoreUnchanged, StoreTypeOK, BlockTree, PrefixClosed, CanonicalIndex,
       StaysInFirstEpoch, genesis_block_hash, id

LEMMA StoreInvNext == StoreInv /\ [Next]_vars => StoreInv'
<1> SUFFICES ASSUME StoreInv, [Next]_vars PROVE StoreInv'
  OBVIOUS
<1>0. CacheTypeOK /\ (\A d \in dataset_cache : d.epoch = 0)
  BY DEF StoreInv, StaysInFirstEpoch
<1>1. ASSUME NEW b \in Submittable, Submit(b) PROVE StoreInv'
  <2>0. b.height \in Nat /\ id(b) \in Hash
    BY IdFacts DEF Block
  <2>1. CASE RejectBeforeHash(b)
    BY <1>0, <2>1, QuietStep DEF RejectBeforeHash, CacheTypeOK
  <2>2. CASE ReturnAlreadyKnown(b)
    BY <2>0, <2>2, CacheStep, QuietStep DEF ReturnAlreadyKnown
  <2>3. CASE RejectStateless(b)
    BY <2>0, <2>3, CacheStep, QuietStep DEF RejectStateless, Fresh
  <2>4. CASE ReturnOrphan(b)
    BY <2>0, <2>4, CacheStep, QuietStep DEF ReturnOrphan, Fresh
  <2>5. CASE RejectContext(b)
    BY <2>0, <2>5, CacheStep, QuietStep DEF RejectContext, Fresh
  <2>6. ASSUME Storable(b), StoreBlock(b), UNCHANGED <<heights, tip>>
        PROVE  StoreInv'
    <3>1. StoreTypeOK'
      BY <2>6, StoreStep DEF StoreInv, StoreTypeOK
    <3>2. CanonicalIndex'
      BY <2>6, StoreStep DEF StoreInv, CanonicalIndex
    <3> QED BY <2>6, <3>1, <3>2, StoreStep DEF StoreInv, genesis_block_hash
  <2>7. CASE StoreSideBranch(b)
    BY <2>6, <2>7 DEF StoreSideBranch
  <2>8. CASE StoreThenFail(b)
    BY <2>6, <2>8 DEF StoreThenFail
  <2>9. CASE StoreAndAdopt(b)
    <3>1. Storable(b) /\ StoreBlock(b)
      BY <2>9 DEF StoreAndAdopt
    <3>2. tip' = [height |-> b.height, hash |-> id(b)] /\ b.height = Len(id(b))
      BY <2>9, <3>1, StoreStep DEF StoreAndAdopt
    <3>3. heights' = [k \in 0..Len(id(b)) |-> SubSeq(id(b), 1, k)]
      <4>1. tip.hash \in Hash /\ heights = [k \in 0..Len(tip.hash) |-> SubSeq(tip.hash, 1, k)]
        BY DEF StoreInv, StoreTypeOK, CanonicalIndex
      <4> QED BY <2>0, <2>9, <4>1, ReindexStep, Zenon DEF StoreAndAdopt
    <3>4. CanonicalIndex'
      BY <3>1, <3>2, <3>3, StoreStep DEF CanonicalIndex
    <3>5. StoreTypeOK'
      <4>1. Len(id(b)) \in Nat
        BY <2>0, <3>2
      <4>2. \A k \in 0..Len(id(b)) : SubSeq(id(b), 1, k) \in Hash
        BY <2>0, <4>1 DEF Hash
      <4>3. DOMAIN heights' \subseteq Nat /\ heights' \in [DOMAIN heights' -> Hash]
        BY <3>3, <4>1, <4>2
      <4>4. tip' \in [height : Nat, hash : Hash]
        BY <2>0, <3>2
      <4> QED BY <3>1, <4>3, <4>4, StoreStep DEF StoreTypeOK
    <3> QED BY <3>1, <3>4, <3>5, StoreStep DEF StoreInv, genesis_block_hash
  <2> QED
    BY <1>1, <2>1, <2>2, <2>3, <2>4, <2>5, <2>7, <2>8, <2>9 DEF Submit, submit_block
<1>2. CASE work_template
  <2>1. tip.height + 1 \in Nat
    BY DEF StoreInv, StoreTypeOK
  <2> QED BY <1>2, <2>1, CacheStep, QuietStep DEF work_template
<1>3. CASE Restart
  <2>1. CacheTypeOK' /\ (\A d \in dataset_cache' : d.epoch = 0)
    BY <1>3, FS_EmptySet DEF Restart, CacheTypeOK
  <2> QED BY <1>3, <2>1, QuietStep DEF Restart
<1>4. CASE UNCHANGED vars
  BY <1>0, <1>4, QuietStep DEF vars, StoreUnchanged, CacheTypeOK
<1> QED BY <1>1, <1>2, <1>3, <1>4 DEF Next

\* The invariant of the store, for every genesis and every set of blocks.
THEOREM StoreInvariant == Spec => []StoreInv
BY StoreInvInit, StoreInvNext, PTL DEF Spec

\* The stored blocks form a tree in which chain work accumulates from parent
\* to child (the checks of submit_block and its set_chainwork).
THEOREM BlockTreeTheorem == Spec => []BlockTree
<1>1. StoreInv => BlockTree
  BY DEF StoreInv
<1> QED BY StoreInvariant, <1>1, PTL

\* The canonical index is exactly the tip's branch after any number of
\* extensions and reorgs (fork_paths and the commit loop of reconsider_tip).
THEOREM CanonicalIndexTheorem == Spec => []CanonicalIndex
<1>1. StoreInv => CanonicalIndex
  BY DEF StoreInv
<1> QED BY StoreInvariant, <1>1, PTL

\* No block at or past EPOCH_LENGTH is ever stored (dataset_for_height).
THEOREM FirstEpochTheorem == Spec => []StaysInFirstEpoch
<1>1. StoreInv => StaysInFirstEpoch
  BY DEF StoreInv
<1> QED BY StoreInvariant, <1>1, PTL

\* The tip only moves to strictly more cumulative work.
THEOREM TipWorkGrowsTheorem == Spec => TipWorkGrows
<1>1. ASSUME StoreInv, [Next]_vars
      PROVE  [tip' # tip => chainwork'[tip'.hash] > chainwork[tip.hash]]_vars
  <2> SUFFICES ASSUME tip' # tip PROVE chainwork'[tip'.hash] > chainwork[tip.hash]
    OBVIOUS
  <2>1. PICK b \in Submittable : StoreAndAdopt(b)
    BY <1>1 DEF Next, Submit, submit_block, RejectBeforeHash, ReturnAlreadyKnown,
       RejectStateless, ReturnOrphan, RejectContext, StoreSideBranch, StoreThenFail,
       StoreUnchanged, work_template, Restart, vars
  <2>2. Storable(b) /\ StoreBlock(b) /\ OutworksTip(b) /\ tip'.hash = id(b)
    BY <2>1 DEF StoreAndAdopt
  <2> QED BY <1>1, <2>2, StoreStep DEF OutworksTip
<1> QED BY <1>1, StoreInvariant, PTL DEF Spec, TipWorkGrows

-----------------------------------------------------------------------------
(* Retargeting.                                                            *)

\* The hash of a stored block ends with that block's own header.
LEMMA LastHeader ==
  ASSUME StoreInv, NEW h \in DOMAIN blocks, h # genesis_block_hash
  PROVE  /\ Len(h) \in Nat \ {0}
         /\ h[Len(h)].difficulty = blocks[h].difficulty
         /\ h[Len(h)].timestamp = blocks[h].timestamp
<1> DEFINE b == blocks[h]
           p == b.prev_hash
           f == Fields(b)
<1>1. h = Append(p, f) /\ p \in Seq(HeaderFields)
  BY DEF StoreInv, StoreTypeOK, BlockTree, id, Fields, Hash
<1>2. f.difficulty = b.difficulty /\ f.timestamp = b.timestamp
  BY DEF Fields
<1> HIDE DEF b, p, f
<1>3. Len(h) = Len(p) + 1 /\ Len(p) \in Nat /\ h[Len(p) + 1] = f
  BY <1>1
<1> QED BY <1>2, <1>3 DEF b

\* What submit_block expects after a stored parent is what the headers of the
\* new hash prescribe: the walk of block_ancestor reads the same headers.
LEMMA ExpectedIsPrescribed ==
  ASSUME StoreInv, NEW b \in Submittable, b.prev_hash \in DOMAIN blocks
  PROVE  expected_difficulty_after(b.prev_hash) = PrescribedDifficulty(id(b))
<1> DEFINE p == b.prev_hash
           n == id(b)
           k == Len(p)
           q == SubSeq(p, 1, k - Window)
           TimeAt(i) == IF i = 0 THEN GenesisTimestamp ELSE n[i].timestamp
<1>1. /\ p \in Seq(HeaderFields) /\ k \in Nat /\ Len(n) = k + 1
      /\ \A i \in 1..k : n[i] = p[i]
  <2>1. p \in Seq(HeaderFields) /\ k \in Nat /\ Len(n) = k + 1 /\ n = Append(p, Fields(b))
    BY IdFacts DEF Hash, id, Fields
  <2> DEFINE f == Fields(b)
  <2> HIDE DEF p, n, f
  <2> QED BY <2>1 DEF f
<1>2. Window \in Nat \ {0}
  BY GenesisAssumption DEF Window, AtLeast
<1>3. blocks[p].height = k
  BY <1>1 DEF StoreInv, BlockTree, GenesisBlock, genesis_block_hash
<1>4. PrescribedDifficulty(n) =
        IF k < Window THEN InitialDifficulty
        ELSE next_difficulty(n[k].difficulty, SatSub(TimeAt(k), TimeAt(k - Window)),
                             TargetBlockTime, Window)
  BY <1>1 DEF PrescribedDifficulty
<1>5. expected_difficulty_after(p) =
        IF k + 1 <= Window THEN InitialDifficulty
        ELSE next_difficulty(blocks[p].difficulty,
                             SatSub(blocks[p].timestamp, blocks[q].timestamp),
                             TargetBlockTime, Window)
  BY <1>3 DEF expected_difficulty_after, block_ancestor
<1>6. CASE k < Window
  BY <1>1, <1>2, <1>4, <1>5, <1>6
<1>7. CASE k >= Window
  <2>1. p # genesis_block_hash /\ n[k] = p[k]
    BY <1>1, <1>2, <1>7 DEF genesis_block_hash
  <2>2. n[k].difficulty = blocks[p].difficulty /\ TimeAt(k) = blocks[p].timestamp
    BY <1>1, <1>2, <1>7, <2>1, LastHeader
  <2>3. TimeAt(k - Window) = blocks[q].timestamp
    <3>1. k - Window \in 0..k /\ q \in DOMAIN blocks
      BY <1>1, <1>2, <1>7 DEF StoreInv, PrefixClosed
    <3>2. CASE k = Window
      <4>1. q = genesis_block_hash
        BY <1>1, <3>2 DEF genesis_block_hash
      <4>2. k - Window = 0
        BY <1>1, <1>2, <3>2
      <4>3. blocks[genesis_block_hash].timestamp = GenesisTimestamp
        BY DEF StoreInv, GenesisBlock
      <4> HIDE DEF q
      <4> QED BY <4>1, <4>2, <4>3
    <3>3. CASE k > Window
      <4>1. k - Window \in 1..k
        BY <1>1, <1>2, <3>3
      <4> HIDE DEF p, n
      <4>2. Len(q) = k - Window /\ q[k - Window] = p[k - Window]
        BY <1>1, <4>1
      <4>3. q # genesis_block_hash
        BY <4>1, <4>2 DEF genesis_block_hash
      <4>4. q[Len(q)].timestamp = blocks[q].timestamp
        BY <3>1, <4>3, LastHeader
      <4> QED BY <1>1, <4>1, <4>2, <4>4
    <3> QED BY <1>1, <1>2, <1>7, <3>2, <3>3
  <2> QED BY <1>1, <1>2, <1>4, <1>5, <1>7, <2>2, <2>3
<1> QED BY <1>1, <1>2, <1>6, <1>7

\* Storing a block keeps the rule, because it was checked against the block's
\* own branch.
LEMMA RetargetStep ==
  ASSUME StoreInv, BranchRetarget, NEW b \in Submittable, Storable(b), StoreBlock(b)
  PROVE  BranchRetarget'
<1>1. DOMAIN blocks' = DOMAIN blocks \cup {id(b)}
  BY StoreStep
<1>2. b.difficulty = PrescribedDifficulty(id(b))
  BY ExpectedIsPrescribed DEF Storable, ParentStored, FollowsParent
<1>3. id(b)[Len(id(b))].difficulty = b.difficulty
  <2> DEFINE p == b.prev_hash
             f == Fields(b)
  <2>1. p \in Seq(HeaderFields) /\ id(b) = Append(p, f) /\ f.difficulty = b.difficulty
    BY IdFacts DEF Hash, id, Fields
  <2> HIDE DEF p, f
  <2> QED BY <2>1
<1>4. \A h : PrescribedDifficulty(h)' = PrescribedDifficulty(h)
  BY DEF PrescribedDifficulty
<1> QED BY <1>1, <1>2, <1>3, <1>4 DEF BranchRetarget, genesis_block_hash

\* Every stored block, on any branch, carries the difficulty its own ancestors
\* prescribe, for every window, target time and timestamps
\* (expected_difficulty_after).
THEOREM BranchRetargetTheorem == Spec => []BranchRetarget
<1>1. Init => BranchRetarget
  BY DEF Init, BranchRetarget, genesis_block_hash
<1>2. StoreInv /\ BranchRetarget /\ [Next]_vars => BranchRetarget'
  <2> SUFFICES ASSUME StoreInv, BranchRetarget, [Next]_vars PROVE BranchRetarget'
    OBVIOUS
  <2>1. CASE UNCHANGED blocks
    BY <2>1 DEF BranchRetarget, PrescribedDifficulty, genesis_block_hash
  <2>2. UNCHANGED blocks \/ \E b \in Submittable : Storable(b) /\ StoreBlock(b)
    BY DEF Next, Submit, submit_block, RejectBeforeHash, ReturnAlreadyKnown,
       RejectStateless, ReturnOrphan, RejectContext, StoreSideBranch, StoreThenFail,
       StoreAndAdopt, StoreUnchanged, work_template, Restart, vars
  <2> QED BY <2>1, <2>2, RetargetStep
<1> QED BY <1>1, <1>2, StoreInvariant, PTL DEF Spec

-----------------------------------------------------------------------------
(* Accounts.                                                               *)

\* The simulation of a reorg between two stored tips yields u64 accounts.
LEMMA ReorgType ==
  ASSUME accounts \in Accounts, NEW tree, NEW old \in DOMAIN tree, NEW new \in DOMAIN tree,
         DOMAIN tree \subseteq Hash, \A h \in DOMAIN tree : tree[h] \in Block,
         \A h \in DOMAIN tree : \A k \in 0..Len(h) : SubSeq(h, 1, k) \in DOMAIN tree
  PROVE  SimulateReorg(tree, old, new) \in Simulation
<1> DEFINE f == ForkHeight(old, new)
           ul == undo_list(old, new)
           al == apply_list(old, new)
<1>1. old \in Hash /\ new \in Hash /\ Len(old) \in Nat /\ Len(new) \in Nat
  BY LenProperties DEF Hash
<1>2. f \in 0..Len(old) /\ f <= Len(new)
  BY <1>1, ForkHeightFacts
<1>3. ASSUME NEW m \in Nat, NEW hs, DOMAIN hs = 1..m, \A i \in 1..m : hs[i] \in DOMAIN tree
      PROVE  /\ Len(BlocksAt(tree, hs)) \in Nat
             /\ \A i \in 1..Len(BlocksAt(tree, hs)) : LedgerBlock(BlocksAt(tree, hs)[i])
  <2>1. BlocksAt(tree, hs) = [i \in 1..m |-> tree[hs[i]]]
    BY <1>3 DEF BlocksAt
  <2>2. Len(BlocksAt(tree, hs)) = m
    BY <2>1
  <2>3. \A i \in 1..m : LedgerBlock(tree[hs[i]])
    BY <1>3 DEF LedgerBlock, Block
  <2> QED BY <2>1, <2>2, <2>3
<1>4. DOMAIN ul = 1..(Len(old) - f) /\ \A i \in 1..(Len(old) - f) : ul[i] \in DOMAIN tree
  <2>1. \A i \in 1..(Len(old) - f) : Len(old) - (i - 1) \in 0..Len(old)
    BY <1>1, <1>2
  <2> QED BY <2>1 DEF undo_list, block_ancestor
<1>5. DOMAIN al = 1..(Len(new) - f) /\ \A i \in 1..(Len(new) - f) : al[i] \in DOMAIN tree
  <2>1. \A i \in 1..(Len(new) - f) : f + i \in 0..Len(new)
    BY <1>1, <1>2
  <2> QED BY <2>1 DEF apply_list
<1>6. Len(old) - f \in Nat /\ Len(new) - f \in Nat
  BY <1>1, <1>2
<1> HIDE DEF f, ul, al
<1>7. UndoBlocks(accounts, BlocksAt(tree, ul)) \in Accounts
  BY <1>3, <1>4, <1>6, UndoBlocksType
<1>8. ApplyBlocks(UndoBlocks(accounts, BlocksAt(tree, ul)), BlocksAt(tree, al)) \in Simulation
  BY <1>3, <1>5, <1>6, <1>7, ApplyBlocksType
<1> QED BY <1>8 DEF SimulateReorg, ul, al

LEMMA AccountsInit == Init => accounts \in Accounts
BY GenesisAssumption, MaxU64Assumption
   DEF Init, GenesisAccounts, Accounts, Account, U64

LEMMA AccountsNext == StoreInv /\ accounts \in Accounts /\ [Next]_vars => (accounts \in Accounts)'
<1> SUFFICES ASSUME StoreInv, accounts \in Accounts, [Next]_vars PROVE accounts' \in Accounts
  OBVIOUS
<1>1. ASSUME NEW b \in Submittable, StoreAndAdopt(b) PROVE accounts' \in Accounts
  <2> DEFINE sim == SimulateReorg(blocks', tip.hash, id(b))
  <2>1. Storable(b) /\ StoreBlock(b) /\ accounts' = sim.accounts
    BY <1>1 DEF StoreAndAdopt
  <2>2. /\ tip.hash \in DOMAIN blocks' /\ id(b) \in DOMAIN blocks'
        /\ DOMAIN blocks' \subseteq Hash /\ (\A h \in DOMAIN blocks' : blocks'[h] \in Block)
    BY <2>1, StoreStep DEF StoreInv, CanonicalIndex
  <2>3. \A h \in DOMAIN blocks' : \A k \in 0..Len(h) : SubSeq(h, 1, k) \in DOMAIN blocks'
    BY <2>1, StoreStep DEF PrefixClosed
  <2>4. sim \in Simulation
    BY <2>2, <2>3, ReorgType
  <2> QED BY <2>1, <2>4 DEF Simulation
<1>2. CASE UNCHANGED accounts
  BY <1>2
<1>3. UNCHANGED accounts \/ \E b \in Submittable : StoreAndAdopt(b)
  BY DEF Next, Submit, submit_block, RejectBeforeHash, ReturnAlreadyKnown,
     RejectStateless, ReturnOrphan, RejectContext, StoreSideBranch, StoreThenFail,
     StoreUnchanged, work_template, Restart, vars
<1> QED BY <1>1, <1>2, <1>3

\* Type correctness: whatever is submitted, in whatever order, every tree
\* stays well typed and no balance or nonce leaves u64.
THEOREM TypeCorrectness == Spec => []TypeOK
<1>1. Init => StoreInv /\ accounts \in Accounts
  BY StoreInvInit, AccountsInit
<1>2. (StoreInv /\ accounts \in Accounts) /\ [Next]_vars => (StoreInv /\ accounts \in Accounts)'
  BY StoreInvNext, AccountsNext
<1>3. StoreInv /\ accounts \in Accounts => TypeOK
  BY DEF StoreInv, TypeOK
<1> QED BY <1>1, <1>2, <1>3, PTL DEF Spec

-----------------------------------------------------------------------------
(* Replaying the branches of a block tree from genesis.  The lemmas are    *)
(* about any tree, so that they hold of the one before a step and of the   *)
(* one after it.                                                           *)

Parent(h) == SubSeq(h, 1, Len(h) - 1)

\* A tree of submitted blocks that never leaves the first epoch.
LedgerTree(tree) ==
  /\ DOMAIN tree \subseteq Hash
  /\ genesis_block_hash \in DOMAIN tree
  /\ \A h \in DOMAIN tree : \A k \in 0..Len(h) : SubSeq(h, 1, k) \in DOMAIN tree
  /\ \A h \in DOMAIN tree \ {genesis_block_hash} :
       /\ tree[h] \in Submittable
       /\ tree[h].height = Len(h)
       /\ Len(h) < EpochLength

\* ReplayOf in any tree.
Replay(tree, h) == ApplyBlocks(GenesisAccounts, BlocksAt(tree, PathTo(h)))

LEMMA ReplayIsReplayOf == \A h : ReplayOf(h) = Replay(blocks, h)
BY DEF ReplayOf, BranchOf, Replay

LEMMA GenesisAccountsType == GenesisAccounts \in Accounts
BY GenesisAssumption, MaxU64Assumption DEF GenesisAccounts, Accounts, Account, U64

\* The prefixes of a hash in the tree, its parent first among them.
LEMMA PrefixFacts ==
  ASSUME NEW tree, LedgerTree(tree), NEW h \in DOMAIN tree
  PROVE  /\ Len(h) \in Nat
         /\ SubSeq(h, 1, Len(h)) = h
         /\ SubSeq(h, 1, 0) = genesis_block_hash
         /\ \A k \in 0..Len(h) :
              /\ SubSeq(h, 1, k) \in DOMAIN tree
              /\ Len(SubSeq(h, 1, k)) = k
              /\ \A j \in 0..k : SubSeq(SubSeq(h, 1, k), 1, j) = SubSeq(h, 1, j)
         /\ \A k \in 1..Len(h) :
              /\ SubSeq(h, 1, k) # genesis_block_hash
              /\ Parent(SubSeq(h, 1, k)) = SubSeq(h, 1, k - 1)
<1>1. h \in Seq(HeaderFields) /\ Len(h) \in Nat
  BY LenProperties DEF LedgerTree, Hash
<1>2. SubSeq(h, 1, Len(h)) = h
  BY <1>1, SubSeqFull, Zenon
<1>3. SubSeq(h, 1, 0) = genesis_block_hash
  BY <1>1 DEF genesis_block_hash
<1>4. ASSUME NEW k \in 0..Len(h)
      PROVE  /\ SubSeq(h, 1, k) \in DOMAIN tree
             /\ Len(SubSeq(h, 1, k)) = k
             /\ \A j \in 0..k : SubSeq(SubSeq(h, 1, k), 1, j) = SubSeq(h, 1, j)
  <2>1. SubSeq(h, 1, k) \in DOMAIN tree
    BY DEF LedgerTree
  <2>2. Len(SubSeq(h, 1, k)) = k
    BY <1>1
  <2>3. \A j \in 0..k : SubSeq(SubSeq(h, 1, k), 1, j) = SubSeq(h, 1, j)
    BY <1>1
  <2> QED BY <2>1, <2>2, <2>3
<1>5. ASSUME NEW k \in 1..Len(h)
      PROVE  /\ SubSeq(h, 1, k) # genesis_block_hash
             /\ Parent(SubSeq(h, 1, k)) = SubSeq(h, 1, k - 1)
  <2>1. k \in 0..Len(h) /\ k - 1 \in 0..k
    BY <1>1
  <2>2. Len(SubSeq(h, 1, k)) = k /\ SubSeq(SubSeq(h, 1, k), 1, k - 1) = SubSeq(h, 1, k - 1)
    BY <1>4, <2>1
  <2>3. SubSeq(h, 1, k) # genesis_block_hash
    BY <2>2 DEF genesis_block_hash
  <2> QED BY <2>2, <2>3, Zenon DEF Parent
<1> QED BY <1>1, <1>2, <1>3, <1>4, <1>5

LEMMA ParentFacts ==
  ASSUME NEW tree, LedgerTree(tree), NEW h \in DOMAIN tree, h # genesis_block_hash
  PROVE  /\ Len(h) \in Nat \ {0}
         /\ Parent(h) \in DOMAIN tree
         /\ Len(Parent(h)) = Len(h) - 1
         /\ \A k \in 0..(Len(h) - 1) : SubSeq(Parent(h), 1, k) = SubSeq(h, 1, k)
<1>1. Len(h) \in Nat \ {0}
  <2>1. h \in Seq(HeaderFields)
    BY DEF LedgerTree, Hash
  <2> QED BY <2>1, LenProperties, EmptySeq DEF genesis_block_hash
<1>2. Len(h) - 1 \in 0..Len(h)
  BY <1>1
<1> QED BY <1>1, <1>2, PrefixFacts DEF Parent

\* What holds of genesis and passes from parents to children holds of the tree.
LEMMA TreeInduction ==
  ASSUME NEW tree, LedgerTree(tree), NEW S, genesis_block_hash \in S,
         \A h \in DOMAIN tree \ {genesis_block_hash} : Parent(h) \in S => h \in S
  PROVE  DOMAIN tree \subseteq S
<1> SUFFICES ASSUME NEW h \in DOMAIN tree PROVE h \in S
  OBVIOUS
<1> DEFINE Prefix(k) == SubSeq(h, 1, k)
           T == {k \in 0..Len(h) : Prefix(k) \in S}
<1>1. /\ Len(h) \in Nat /\ Prefix(Len(h)) = h /\ Prefix(0) = genesis_block_hash
      /\ \A k \in 0..Len(h) : Prefix(k) \in DOMAIN tree
      /\ \A k \in 1..Len(h) : Prefix(k) # genesis_block_hash /\ Parent(Prefix(k)) = Prefix(k - 1)
  BY PrefixFacts
<1> HIDE DEF Prefix
<1>2. 0 \in T
  BY <1>1
<1>3. ASSUME NEW k \in 1..Len(h), k - 1 \in T PROVE k \in T
  <2>1. k \in 0..Len(h)
    BY <1>1
  <2>2. Prefix(k) \in DOMAIN tree \ {genesis_block_hash}
    BY <1>1, <2>1
  <2>3. Parent(Prefix(k)) \in S
    BY <1>1, <1>3
  <2> QED BY <2>1, <2>2, <2>3
<1> HIDE DEF T
<1>4. 0..Len(h) \subseteq T
  BY <1>1, <1>2, <1>3, BoundedInduction
<1>5. Len(h) \in T
  BY <1>1, <1>4
<1> QED BY <1>1, <1>5 DEF T

\* The blocks behind a list of hashes of the tree.
LEMMA BlocksAtFacts ==
  ASSUME NEW tree, NEW n \in Nat, NEW hs, DOMAIN hs = 1..n
  PROVE  /\ Len(BlocksAt(tree, hs)) = n
         /\ \A i \in 1..n : BlocksAt(tree, hs)[i] = tree[hs[i]]
<1>1. BlocksAt(tree, hs) = [i \in 1..n |-> tree[hs[i]]]
  BY DEF BlocksAt
<1> QED BY <1>1

LEMMA TreeBlocks ==
  ASSUME NEW tree, LedgerTree(tree), NEW h \in DOMAIN tree, h # genesis_block_hash
  PROVE  /\ LedgerBlock(tree[h]) /\ tree[h].miner \in Address
         /\ tree[h].height = Len(h) /\ Len(h) < EpochLength
         /\ tree[h].transactions \in Seq(Transaction)
         /\ Len(tree[h].transactions) \in Nat
         /\ Len(tree[h].transactions) <= MaxU64 \div EpochLength
<1>1. /\ tree[h] \in Submittable /\ tree[h].height = Len(h) /\ Len(h) < EpochLength
  BY DEF LedgerTree
<1>2. tree[h] \in Block /\ tree[h].miner # ZERO
  BY <1>1, SubmittableAssumption
<1>3. Len(tree[h].transactions) <= MaxU64 \div EpochLength
  BY <1>1, WidthAssumption
<1> QED BY <1>1, <1>2, <1>3, LenProperties DEF Block, LedgerBlock

\* The simulations a replay goes through, block by block.
ReplayStep(s, b) == IF s.ok THEN ApplyBlock(s, b) ELSE s

IsReplayTrace(after, tree, h) ==
  /\ after[0] = [ok |-> TRUE, accounts |-> GenesisAccounts]
  /\ \A i \in 1..Len(h) : after[i] = ReplayStep(after[i-1], tree[SubSeq(h, 1, i)])
  /\ Replay(tree, h) = after[Len(h)]

LEMMA ReplayTrace ==
  ASSUME NEW tree, LedgerTree(tree), NEW h \in DOMAIN tree
  PROVE  \E after \in [0..Len(h) -> Simulation] : IsReplayTrace(after, tree, h)
<1> DEFINE n == Len(h)
           bs == BlocksAt(tree, PathTo(h))
<1>1. n \in Nat
  BY PrefixFacts
<1>2. DOMAIN PathTo(h) = 1..n /\ \A i \in 1..n : PathTo(h)[i] = SubSeq(h, 1, i)
  BY DEF PathTo
<1>3. Len(bs) = n /\ \A i \in 1..n : bs[i] = tree[SubSeq(h, 1, i)]
  <2> DEFINE hs == PathTo(h)
  <2>1. DOMAIN hs = 1..n
    BY <1>2
  <2> HIDE DEF hs, n
  <2>2. Len(BlocksAt(tree, hs)) = n /\ \A i \in 1..n : BlocksAt(tree, hs)[i] = tree[hs[i]]
    BY ONLY <1>1, <2>1, BlocksAtFacts
  <2> QED BY <1>2, <2>2 DEF hs
<1>4. ASSUME NEW i \in 1..n PROVE LedgerBlock(bs[i])
  <2>1. SubSeq(h, 1, i) \in DOMAIN tree /\ SubSeq(h, 1, i) # genesis_block_hash
    <3>1. i \in 0..n
      BY <1>1
    <3> QED BY <3>1, PrefixFacts
  <2> QED BY <1>3, <2>1, TreeBlocks
<1>5. [ok |-> TRUE, accounts |-> GenesisAccounts] \in Simulation
  BY GenesisAccountsType DEF Simulation
<1>6. \A i \in 1..Len(bs) : \A s \in Simulation : ApplyBlock(s, bs[i]) \in Simulation
  BY <1>3, <1>4, ApplyBlockType
<1>7. \E after \in [0..Len(bs) -> Simulation] : IsApplyTrace(after, GenesisAccounts, bs)
  <2> HIDE DEF bs
  <2>1. Len(bs) \in Nat
    BY <1>1, <1>3
  <2> QED BY <1>5, <1>6, <2>1, ApplyBlocksTrace
<1>8. PICK after \in [0..n -> Simulation] : IsApplyTrace(after, GenesisAccounts, bs)
  BY <1>3, <1>7
<1>9. IsReplayTrace(after, tree, h)
  <2>1. Replay(tree, h) = ApplyBlocks(GenesisAccounts, bs)
    BY DEF Replay
  <2> HIDE DEF bs
  <2> QED BY <1>3, <1>8, <2>1 DEF IsApplyTrace, IsReplayTrace, ReplayStep
<1> QED BY <1>8, <1>9

\* A replay ends where the last block takes the replay of its parent.
LEMMA ReplayUnfold ==
  ASSUME NEW tree, LedgerTree(tree)
  PROVE  /\ Replay(tree, genesis_block_hash) = [ok |-> TRUE, accounts |-> GenesisAccounts]
         /\ \A h \in DOMAIN tree :
              /\ Replay(tree, h) \in Simulation
              /\ h # genesis_block_hash =>
                   Replay(tree, h) = ReplayStep(Replay(tree, Parent(h)), tree[h])
<1>1. Replay(tree, genesis_block_hash) = [ok |-> TRUE, accounts |-> GenesisAccounts]
  <2>1. genesis_block_hash \in DOMAIN tree /\ Len(genesis_block_hash) = 0
    BY DEF LedgerTree, genesis_block_hash
  <2>2. \E after : IsReplayTrace(after, tree, genesis_block_hash)
    BY <2>1, ReplayTrace
  <2> QED BY <2>1, <2>2 DEF IsReplayTrace
<1>2. ASSUME NEW h \in DOMAIN tree PROVE Replay(tree, h) \in Simulation
  <2>1. PICK after \in [0..Len(h) -> Simulation] : IsReplayTrace(after, tree, h)
    BY ReplayTrace
  <2>2. Len(h) \in 0..Len(h)
    BY PrefixFacts
  <2> QED BY <2>1, <2>2 DEF IsReplayTrace
<1>3. ASSUME NEW h \in DOMAIN tree, h # genesis_block_hash
      PROVE  Replay(tree, h) = ReplayStep(Replay(tree, Parent(h)), tree[h])
  <2> DEFINE n == Len(h)
             p == Parent(h)
  <2>1. n \in Nat \ {0} /\ p \in DOMAIN tree /\ Len(p) = n - 1 /\ SubSeq(h, 1, n) = h
    BY <1>3, ParentFacts, PrefixFacts
  <2>2. \A k \in 0..(n - 1) : SubSeq(p, 1, k) = SubSeq(h, 1, k)
    BY <1>3, ParentFacts
  <2>3. PICK u \in [0..n -> Simulation] : IsReplayTrace(u, tree, h)
    BY ReplayTrace
  <2> HIDE DEF p
  <2>4. PICK v \in [0..Len(p) -> Simulation] : IsReplayTrace(v, tree, p)
    BY <2>1, ReplayTrace
  <2>5. /\ u[0] = v[0]
        /\ \A i \in 1..n : u[i] = ReplayStep(u[i-1], tree[SubSeq(h, 1, i)])
        /\ \A i \in 1..(n - 1) : v[i] = ReplayStep(v[i-1], tree[SubSeq(p, 1, i)])
        /\ Replay(tree, h) = u[n] /\ Replay(tree, p) = v[n - 1]
    BY <2>1, <2>3, <2>4 DEF IsReplayTrace
  <2> HIDE DEF n
  <2> DEFINE T == {i \in 0..(n - 1) : u[i] = v[i]}
  <2>6. 0 \in T
    BY <2>1, <2>5
  <2>7. ASSUME NEW i \in 1..(n - 1), i - 1 \in T PROVE i \in T
    <3>1. i \in 1..n /\ i \in 0..(n - 1) /\ u[i-1] = v[i-1]
      BY <2>1, <2>7
    <3>2. SubSeq(p, 1, i) = SubSeq(h, 1, i)
      BY <2>2, <3>1
    <3> QED BY <2>5, <3>1, <3>2
  <2> HIDE DEF T
  <2>8. n - 1 \in Nat /\ n \in 1..n /\ n - 1 \in 0..(n - 1)
    BY <2>1
  <2>9. 0..(n - 1) \subseteq T
    BY <2>6, <2>7, <2>8, BoundedInduction
  <2>10. u[n - 1] = v[n - 1]
    BY <2>8, <2>9 DEF T
  <2>11. u[n] = ReplayStep(u[n - 1], tree[h])
    BY <2>1, <2>5, <2>8
  <2> QED BY <2>5, <2>10, <2>11 DEF p
<1> QED BY <1>1, <1>2, <1>3

\* Storing a block does not change the replay of the branches that were there.
LEMMA ReplayInsert ==
  ASSUME NEW tree, LedgerTree(tree), NEW tree2,
         \A h \in DOMAIN tree : tree2[h] = tree[h],
         NEW h \in DOMAIN tree
  PROVE  Replay(tree2, h) = Replay(tree, h)
<1>1. \A k \in 1..Len(h) : SubSeq(h, 1, k) \in DOMAIN tree
  <2>1. \A k \in 1..Len(h) : k \in 0..Len(h)
    BY PrefixFacts
  <2> QED BY <2>1, PrefixFacts
<1>2. BlocksAt(tree2, PathTo(h)) = BlocksAt(tree, PathTo(h))
  BY <1>1 DEF BlocksAt, PathTo
<1> QED BY <1>2 DEF Replay

-----------------------------------------------------------------------------
(* What a branch whose transactions check out has done to the accounts.    *)

\* The fees and the transactions of a branch.
FeesOn(tree, h) == SumFunction([k \in 1..Len(h) |-> FeesIn(tree[SubSeq(h, 1, k)])])
TxsOn(tree, h)  == UNION {TxsIn(tree[SubSeq(h, 1, k)]) : k \in 1..Len(h)}

\* No transaction stands at two places of a branch.
OnceOn(tree, h) ==
  LET TxsAt(k) == tree[SubSeq(h, 1, k)].transactions
  IN  \A j, k \in 1..Len(h) :
        \A x \in DOMAIN TxsAt(j), y \in DOMAIN TxsAt(k) :
          TxsAt(j)[x] = TxsAt(k)[y] => j = k /\ x = y

\* Its money adds up, its nonces leave room and count what it executed, and it
\* executed nothing twice.
BranchSound(tree, h) ==
  LET acc == Replay(tree, h).accounts
  IN  /\ FeesOn(tree, h) \in Nat
      /\ Supply(acc) + FeesOn(tree, h) = SumFunction(Premine) + RewardsUpTo(Len(h))
      /\ \A a \in Address : acc[a].nonce <= Len(h) * (MaxU64 \div EpochLength)
      /\ Executed(acc, TxsOn(tree, h))
      /\ OnceOn(tree, h)

LEMMA PremineSum ==
  SumFunction(Premine) \in Nat /\ Supply(GenesisAccounts) = SumFunction(Premine)
<1>1. Premine \in [Address -> U64] /\ \A a \in Address : Premine[a] \in Nat
  BY GenesisAssumption, MaxU64Assumption DEF U64
<1>2. SumFunctionOnSet(Premine, Address) \in Nat
  BY <1>1, AddressAssumption, SumNat
<1>3. [a \in Address |-> GenesisAccounts[a].balance] = Premine
  BY <1>1 DEF GenesisAccounts
<1> QED BY <1>1, <1>2, <1>3 DEF SumFunction, Supply

\* Each block adds its reward to the total.
LEMMA RewardsNext ==
  /\ RewardsUpTo(0) = 0
  /\ \A n \in Nat : /\ RewardsUpTo(n) \in Int
                    /\ RewardsUpTo(n + 1) = RewardsUpTo(n) + block_reward(n + 1)
<1>1. RewardsUpTo(0) = 0
  BY SumNone DEF RewardsUpTo
<1>2. \A k \in Nat : block_reward(k) \in Int
  BY RewardType, MaxU64Assumption DEF U64
<1>3. ASSUME NEW n \in Nat
      PROVE  /\ RewardsUpTo(n) \in Int
             /\ RewardsUpTo(n + 1) = RewardsUpTo(n) + block_reward(n + 1)
  <2> DEFINE f == [k \in 1..n |-> block_reward(k)]
             g == [k \in 1..(n + 1) |-> block_reward(k)]
  <2>1. f \in [1..n -> Int] /\ g \in [1..(n + 1) -> Int]
    BY <1>2
  <2>2. (\A k \in 1..n : g[k] = f[k]) /\ g[n + 1] = block_reward(n + 1)
    OBVIOUS
  <2>3. SumFunction(f) = RewardsUpTo(n) /\ SumFunction(g) = RewardsUpTo(n + 1)
    BY DEF RewardsUpTo
  <2> HIDE DEF f, g
  <2> QED BY <2>1, <2>2, <2>3, SumExtend
<1> QED BY <1>1, <1>3

LEMMA RewardsGrow ==
  ASSUME NEW m \in Nat, NEW n \in 0..m
  PROVE  RewardsUpTo(n) \in Nat /\ RewardsUpTo(n) <= RewardsUpTo(m)
<1>0. \A k \in Nat : block_reward(k) \in Nat
  BY RewardType, MaxU64Assumption DEF U64
<1> DEFINE T == {k \in 0..m : \A j \in 0..k : RewardsUpTo(j) \in Nat /\ RewardsUpTo(j) <= RewardsUpTo(k)}
<1>1. 0 \in T
  BY RewardsNext
<1>2. ASSUME NEW k \in 1..m, k - 1 \in T PROVE k \in T
  <2>1. k - 1 \in Nat /\ (k - 1) + 1 = k /\ k \in Nat
    OBVIOUS
  <2>2. RewardsUpTo(k) = RewardsUpTo(k - 1) + block_reward(k)
    BY <2>1, RewardsNext
  <2>3. block_reward(k) \in Nat /\ RewardsUpTo(k - 1) \in Nat
    BY <1>0, <1>2, <2>1
  <2>4. \A j \in 0..k : j \in 0..(k - 1) \/ j = k
    BY <2>1
  <2>5. \A j \in 0..(k - 1) : RewardsUpTo(j) \in Nat /\ RewardsUpTo(j) <= RewardsUpTo(k - 1)
    BY <1>2
  <2> QED BY <2>2, <2>3, <2>4, <2>5
<1> HIDE DEF T
<1>3. m \in T
  <2>1. 0..m \subseteq T
    BY <1>1, <1>2, BoundedInduction
  <2> QED BY <2>1
<1> QED BY <1>3 DEF T

\* The next block of a sound branch meets accounts with room for its reward
\* and its transactions: the first epoch is short enough for u64.
LEMMA RoomForBlock ==
  ASSUME NEW tree, LedgerTree(tree), NEW h \in DOMAIN tree, h # genesis_block_hash,
         BranchSound(tree, Parent(h))
  PROVE  LET acc == Replay(tree, Parent(h)).accounts
         IN  /\ acc \in Accounts
             /\ Supply(acc) + block_reward(tree[h].height) < MaxU64
             /\ \A a \in Address : acc[a].nonce + Len(tree[h].transactions) <= MaxU64
<1> DEFINE n == Len(h)
           p == Parent(h)
           acc == Replay(tree, p).accounts
           q == MaxU64 \div EpochLength
           m == Len(tree[h].transactions)
<1>1. n \in Nat \ {0} /\ p \in DOMAIN tree /\ Len(p) = n - 1
  BY ParentFacts
<1>2. n < EpochLength /\ tree[h].height = n /\ m \in Nat /\ m <= q
  BY TreeBlocks
<1>3. acc \in Accounts
  BY <1>1, ReplayUnfold DEF Simulation
<1>4. Supply(acc) \in Nat /\ \A a \in Address : acc[a].nonce \in Nat
  BY <1>3, BalanceBound
<1>5. /\ FeesOn(tree, p) \in Nat
      /\ Supply(acc) + FeesOn(tree, p) = SumFunction(Premine) + RewardsUpTo(n - 1)
      /\ \A a \in Address : acc[a].nonce <= (n - 1) * q
  BY <1>1 DEF BranchSound
<1>6. EpochLength \in Nat \ {0} /\ MaxU64 \in Nat /\ q \in Nat /\ EpochLength * q <= MaxU64
  <2>1. EpochLength \in Nat \ {0} /\ MaxU64 \in Nat
    BY EpochAssumption, MaxU64Assumption
  <2>2. \A x \in Nat, e \in Nat \ {0} : x \div e \in Nat /\ e * (x \div e) <= x
    OBVIOUS
  <2> QED BY <2>1, <2>2
<1> HIDE DEF n, p, acc, q, m
<1>7. Supply(acc) + block_reward(n) < MaxU64
  <2>1. n - 1 \in Nat /\ (n - 1) + 1 = n /\ EpochLength - 1 \in Nat /\ n \in 0..(EpochLength - 1)
    BY <1>1, <1>2, <1>6
  <2>2. RewardsUpTo(n) = RewardsUpTo(n - 1) + block_reward(n)
    BY <2>1, RewardsNext
  <2>3. RewardsUpTo(n) \in Nat /\ RewardsUpTo(n) <= RewardsUpTo(EpochLength - 1)
    BY <2>1, RewardsGrow
  <2>4. RewardsUpTo(EpochLength - 1) \in Nat /\ RewardsUpTo(n - 1) \in Nat
    BY <2>1, RewardsGrow
  <2>5. SumFunction(Premine) + RewardsUpTo(EpochLength - 1) < MaxU64
    BY WidthAssumption
  <2>6. SumFunction(Premine) \in Nat
    BY PremineSum
  <2>7. block_reward(n) \in Nat
    BY <1>1, RewardType, MaxU64Assumption DEF U64
  <2> QED BY ONLY <1>4, <1>5, <1>6, <2>2, <2>3, <2>4, <2>5, <2>6, <2>7
<1>8. \A a \in Address : acc[a].nonce + m <= MaxU64
  <2> TAKE a \in Address
  <2>1. \A x, y, k, e, l \in Nat : k * y <= e * y /\ x + y <= k * y /\ e * y <= l => x + y <= l
    OBVIOUS
  <2>2. n * q <= EpochLength * q
    <3>1. \A x, y, z \in Nat : x < y => x * z <= y * z
      OBVIOUS
    <3> QED BY <1>1, <1>2, <1>6, <3>1
  <2>3. (n - 1) * q + q = n * q /\ n * q \in Nat /\ EpochLength * q \in Nat /\ (n - 1) * q \in Nat
    <3>1. \A x \in Nat \ {0}, y \in Nat : (x - 1) * y + y = x * y /\ x * y \in Nat /\ (x - 1) * y \in Nat
      OBVIOUS
    <3> QED BY <1>1, <1>6, <3>1
  <2>4. acc[a].nonce \in Nat /\ acc[a].nonce <= (n - 1) * q
    BY <1>4, <1>5
  <2>5. m \in Nat /\ m <= q /\ q \in Nat /\ EpochLength * q <= MaxU64 /\ MaxU64 \in Nat
    BY <1>2, <1>6
  <2>6. \A x, y, u, v, w, l, z \in Nat : x <= u /\ y <= z /\ u + z = v /\ v <= w /\ w <= l => x + y <= l
    OBVIOUS
  <2> QED BY ONLY <2>2, <2>3, <2>4, <2>5, <2>6
<1> QED BY <1>2, <1>3, <1>7, <1>8 DEF acc, p, m

\* A branch that checks out extends one that does, and its last block is
\* undone exactly.
LEMMA BranchStep ==
  ASSUME NEW tree, LedgerTree(tree), NEW h \in DOMAIN tree, h # genesis_block_hash,
         Replay(tree, h).ok,
         Replay(tree, Parent(h)).ok => BranchSound(tree, Parent(h))
  PROVE  /\ Replay(tree, Parent(h)).ok
         /\ BranchSound(tree, h)
         /\ UndoBlock(Replay(tree, h).accounts, tree[h]) = Replay(tree, Parent(h)).accounts
<1> DEFINE n == Len(h)
           p == Parent(h)
           b == tree[h]
           txs == b.transactions
           acc == Replay(tree, p).accounts
           new == Replay(tree, h).accounts
           q == MaxU64 \div EpochLength
<1>1. /\ n \in Nat \ {0} /\ p \in DOMAIN tree /\ Len(p) = n - 1 /\ SubSeq(h, 1, n) = h
      /\ \A k \in 1..(n - 1) : SubSeq(p, 1, k) = SubSeq(h, 1, k)
  <2>1. \A k \in 0..(n - 1) : SubSeq(p, 1, k) = SubSeq(h, 1, k)
    BY ParentFacts
  <2>2. n \in Nat \ {0} /\ p \in DOMAIN tree /\ Len(p) = n - 1 /\ SubSeq(h, 1, n) = h
    BY ParentFacts, PrefixFacts
  <2>3. \A k \in 1..(n - 1) : k \in 0..(n - 1)
    BY <2>2
  <2> QED BY <2>1, <2>2, <2>3
<1>2. /\ LedgerBlock(b) /\ b.miner \in Address /\ b.height = n
      /\ Len(txs) \in Nat /\ Len(txs) <= q
      /\ txs \in Seq(Transaction) /\ DOMAIN txs = 1..Len(txs)
  BY TreeBlocks
<1>3. Replay(tree, p).ok /\ Replay(tree, p) = [ok |-> TRUE, accounts |-> acc]
      /\ Replay(tree, h) = ApplyBlock([ok |-> TRUE, accounts |-> acc], b)
  <2>1. Replay(tree, p) \in Simulation /\ Replay(tree, h) = ReplayStep(Replay(tree, p), b)
    BY <1>1, ReplayUnfold
  <2>2. Replay(tree, p).ok
    BY <2>1 DEF ReplayStep
  <2> QED BY <2>1, <2>2 DEF ReplayStep, Simulation
<1>4. BranchSound(tree, p)
  BY <1>3
<1>5. /\ acc \in Accounts
      /\ Supply(acc) + block_reward(b.height) < MaxU64
      /\ \A a \in Address : acc[a].nonce + Len(txs) <= MaxU64
  BY <1>4, RoomForBlock
<1>6. /\ FeesOn(tree, p) \in Nat
      /\ Supply(acc) + FeesOn(tree, p) = SumFunction(Premine) + RewardsUpTo(n - 1)
      /\ \A a \in Address : acc[a].nonce <= (n - 1) * q
      /\ Executed(acc, TxsOn(tree, p))
      /\ OnceOn(tree, p)
  BY <1>1, <1>4 DEF BranchSound
<1> HIDE DEF acc, p, b, q
<1>7. new = ApplyBlock([ok |-> TRUE, accounts |-> acc], b).accounts
      /\ ApplyBlock([ok |-> TRUE, accounts |-> acc], b).ok
  BY <1>3
<1> HIDE DEF new
<1>8. /\ new \in Accounts
      /\ FeesIn(b) \in Int
      /\ Supply(new) + FeesIn(b) = Supply(acc) + block_reward(n)
      /\ \A a \in Address : new[a].nonce <= acc[a].nonce + Len(txs)
      /\ UndoBlock(new, b) = acc
  BY <1>2, <1>5, <1>7, BlockExact
<1>9. /\ Executed(new, TxsOn(tree, p) \cup TxsIn(b))
      /\ TxsOn(tree, p) \cap TxsIn(b) = {}
      /\ \A i, j \in DOMAIN txs : txs[i] = txs[j] => i = j
  BY <1>2, <1>5, <1>6, <1>7, BlockExecutes
<1>10. FeesOn(tree, h) = FeesOn(tree, p) + FeesIn(b) /\ FeesOn(tree, h) \in Nat
  <2> DEFINE f == [k \in 1..(n - 1) |-> FeesIn(tree[SubSeq(p, 1, k)])]
             g == [k \in 1..n |-> FeesIn(tree[SubSeq(h, 1, k)])]
  <2>1. \A k \in 1..n : FeesIn(tree[SubSeq(h, 1, k)]) \in Nat
    <3> TAKE k \in 1..n
    <3>1. SubSeq(h, 1, k) \in DOMAIN tree /\ SubSeq(h, 1, k) # genesis_block_hash
      <4>1. k \in 0..n
        BY <1>1
      <4> QED BY <4>1, PrefixFacts
    <3> QED BY <3>1, TreeBlocks, FeesType
  <2>2. n - 1 \in Nat /\ (n - 1) + 1 = n /\ \A k \in 1..(n - 1) : k \in 1..n /\ k \in 0..(n - 1)
    BY <1>1
  <2>3. \A k \in 1..(n - 1) : f[k] = FeesIn(tree[SubSeq(p, 1, k)])
    OBVIOUS
  <2>9. \A k \in 1..n : g[k] = FeesIn(tree[SubSeq(h, 1, k)])
    OBVIOUS
  <2>10. \A k \in 1..(n - 1) : FeesIn(tree[SubSeq(p, 1, k)]) = FeesIn(tree[SubSeq(h, 1, k)])
    BY <1>1, Zenon
  <2>4. f \in [1..(n - 1) -> Int] /\ g \in [1..n -> Int] /\ (\A k \in 1..(n - 1) : g[k] = f[k])
    <3>1. \A k \in 1..(n - 1) : FeesIn(tree[SubSeq(p, 1, k)]) \in Int
      BY <2>1, <2>2, <2>10
    <3>2. f \in [1..(n - 1) -> Int]
      BY <3>1
    <3>3. g \in [1..n -> Int]
      BY <2>1
    <3>4. \A k \in 1..(n - 1) : g[k] = f[k]
      BY <2>2, <2>3, <2>9, <2>10, Zenon
    <3> HIDE DEF f, g, n
    <3> QED BY <3>2, <3>3, <3>4
  <2>5. g[n] = FeesIn(b)
    <3>1. n \in 1..n
      BY <1>1
    <3> QED BY <1>1, <2>9, <3>1, Zenon DEF b
  <2>6. FeesOn(tree, p) = SumFunction(f) /\ FeesOn(tree, h) = SumFunction(g)
    BY <1>1 DEF FeesOn
  <2>7. FeesIn(b) \in Nat
    BY <1>2, FeesType
  <2> HIDE DEF f, g, n
  <2>8. SumFunction(g) = SumFunction(f) + g[n]
    BY <2>2, <2>4, SumExtend
  <2> QED BY <1>6, <2>5, <2>6, <2>7, <2>8
<1>11. Supply(new) + FeesOn(tree, h) = SumFunction(Premine) + RewardsUpTo(n)
  <2>1. RewardsUpTo(n) = RewardsUpTo(n - 1) + block_reward(n) /\ RewardsUpTo(n - 1) \in Int
    <3>1. n - 1 \in Nat /\ (n - 1) + 1 = n
      BY <1>1
    <3> QED BY <3>1, RewardsNext
  <2>2. SumFunction(Premine) \in Nat /\ Supply(acc) \in Nat /\ Supply(new) \in Nat
    BY <1>5, <1>8, PremineSum, BalanceBound
  <2>3. block_reward(n) \in Nat
    BY <1>1, RewardType, MaxU64Assumption DEF U64
  <2>4. /\ Supply(acc) + FeesOn(tree, p) = SumFunction(Premine) + RewardsUpTo(n - 1)
        /\ Supply(new) + FeesIn(b) = Supply(acc) + block_reward(n)
        /\ FeesIn(b) \in Int /\ FeesOn(tree, p) \in Nat
    BY <1>6, <1>8
  <2> HIDE DEF n, txs
  <2> QED BY ONLY <1>10, <2>1, <2>2, <2>3, <2>4
<1>12. \A a \in Address : new[a].nonce <= n * q
  <2> TAKE a \in Address
  <2>1. q \in Nat
    <3>1. \A x \in Nat, e \in Nat \ {0} : x \div e \in Nat
      OBVIOUS
    <3> QED BY <3>1, MaxU64Assumption, EpochAssumption DEF q
  <2>2. acc[a].nonce \in Nat /\ new[a].nonce \in Nat
    BY <1>5, <1>8, BalanceBound
  <2>3. \A x \in Nat \ {0}, y \in Nat : (x - 1) * y + y = x * y /\ x * y \in Nat /\ (x - 1) * y \in Nat
    OBVIOUS
  <2>4. (n - 1) * q + q = n * q /\ n * q \in Nat /\ (n - 1) * q \in Nat
    BY <1>1, <2>1, <2>3
  <2>5. \A x, y, u, v, w, z \in Nat : x <= y + u /\ u <= z /\ y <= v /\ v + z = w => x <= w
    OBVIOUS
  <2>6. new[a].nonce <= acc[a].nonce + Len(txs) /\ acc[a].nonce <= (n - 1) * q
    BY <1>6, <1>8
  <2>7. Len(txs) \in Nat /\ Len(txs) <= q
    BY <1>2
  <2> QED BY ONLY <2>1, <2>2, <2>4, <2>5, <2>6, <2>7
<1>13. TxsOn(tree, h) = TxsOn(tree, p) \cup TxsIn(b)
  <2> DEFINE S(k) == TxsIn(tree[SubSeq(h, 1, k)])
  <2>1. TxsOn(tree, h) = UNION {S(k) : k \in 1..n}
    BY DEF TxsOn
  <2>2. TxsOn(tree, p) = UNION {S(k) : k \in 1..(n - 1)}
    <3>1. \A k \in 1..(n - 1) : SubSeq(p, 1, k) = SubSeq(h, 1, k)
      BY <1>1
    <3> QED BY <1>1, <3>1 DEF TxsOn
  <2>3. S(n) = TxsIn(b)
    BY <1>1 DEF b
  <2>4. 1..n = 1..(n - 1) \cup {n}
    BY <1>1
  <2> HIDE DEF S
  <2> QED BY <2>1, <2>2, <2>3, <2>4
<1>14. OnceOn(tree, h)
  <2> DEFINE TxsAt(k) == tree[SubSeq(h, 1, k)].transactions
  <2>1. TxsAt(n) = txs
    BY <1>1 DEF b
  <2>2. \A j, k \in 1..(n - 1) : \A x \in DOMAIN TxsAt(j), y \in DOMAIN TxsAt(k) :
          TxsAt(j)[x] = TxsAt(k)[y] => j = k /\ x = y
    <3>1. \A k \in 1..(n - 1) : tree[SubSeq(p, 1, k)].transactions = TxsAt(k)
      BY <1>1, Zenon
    <3> HIDE DEF TxsAt
    <3> QED BY <1>1, <1>6, <3>1 DEF OnceOn
  <2>3. \A j \in 1..(n - 1) : \A x \in DOMAIN TxsAt(j) : TxsAt(j)[x] \in TxsOn(tree, p)
    <3>1. \A k \in 1..(n - 1) : tree[SubSeq(p, 1, k)].transactions = TxsAt(k)
      BY <1>1, Zenon
    <3> HIDE DEF TxsAt
    <3> QED BY <1>1, <3>1 DEF TxsOn, TxsIn
  <2>4. \A x \in DOMAIN txs : txs[x] \in TxsIn(b)
    BY DEF TxsIn
  <2>5. \A k \in 1..n : k \in 1..(n - 1) \/ k = n
    BY <1>1
  <2> HIDE DEF TxsAt
  <2>6. \A j, k \in 1..n : \A x \in DOMAIN TxsAt(j), y \in DOMAIN TxsAt(k) :
          TxsAt(j)[x] = TxsAt(k)[y] => j = k /\ x = y
    BY <1>9, <2>1, <2>2, <2>3, <2>4, <2>5
  <2> QED BY <2>6, Zenon DEF OnceOn, TxsAt
<1>15. BranchSound(tree, h)
  BY <1>9, <1>10, <1>11, <1>12, <1>13, <1>14 DEF BranchSound, new, q
<1> QED BY <1>3, <1>8, <1>15 DEF new, acc, p, b

\* Every branch of the tree that checks out is sound, and every branch it
\* extends checks out.
LEMMA BranchFacts ==
  ASSUME NEW tree, LedgerTree(tree), NEW h \in DOMAIN tree, Replay(tree, h).ok
  PROVE  /\ BranchSound(tree, h)
         /\ \A k \in 0..Len(h) : Replay(tree, SubSeq(h, 1, k)).ok
<1> DEFINE Good(g) == /\ BranchSound(tree, g)
                      /\ \A k \in 0..Len(g) : Replay(tree, SubSeq(g, 1, k)).ok
           S == {g \in DOMAIN tree : Replay(tree, g).ok => Good(g)}
<1>1. genesis_block_hash \in S
  <2> DEFINE g == genesis_block_hash
  <2>1. g \in DOMAIN tree /\ Len(g) = 0
    BY DEF LedgerTree, genesis_block_hash
  <2> HIDE DEF g
  <2>2. Replay(tree, g) = [ok |-> TRUE, accounts |-> GenesisAccounts]
    BY ReplayUnfold DEF g
  <2>3. FeesOn(tree, g) = 0 /\ TxsOn(tree, g) = {}
    BY <2>1, SumNone DEF FeesOn, TxsOn
  <2>4. SumFunction(Premine) \in Nat /\ Supply(GenesisAccounts) = SumFunction(Premine)
        /\ RewardsUpTo(0) = 0
    BY PremineSum, RewardsNext
  <2>5. \A a \in Address : GenesisAccounts[a].nonce = 0
    BY DEF GenesisAccounts
  <2>6. Executed(GenesisAccounts, {})
    <3>1. \A a \in Address : SentBy({}, a) = {}
      BY DEF SentBy
    <3> QED BY <2>5, <3>1, FS_EmptySet DEF Executed
  <2>7. OnceOn(tree, g)
    BY <2>1 DEF OnceOn
  <2>8. \A a \in Address : GenesisAccounts[a].nonce <= 0 * (MaxU64 \div EpochLength)
    <3>1. \A x \in Nat, e \in Nat \ {0} : 0 * (x \div e) = 0
      OBVIOUS
    <3>2. 0 * (MaxU64 \div EpochLength) = 0
      BY <3>1, MaxU64Assumption, EpochAssumption
    <3> QED BY <2>5, <3>2
  <2>9. BranchSound(tree, g)
    BY <2>1, <2>2, <2>3, <2>4, <2>6, <2>7, <2>8 DEF BranchSound
  <2>10. SubSeq(g, 1, 0) = g
    BY <2>1, PrefixFacts
  <2>11. \A k \in 0..Len(g) : Replay(tree, SubSeq(g, 1, k)).ok
    <3>1. \A k \in 0..Len(g) : k = 0
      <4>1. Len(g) = 0
        BY <2>1
      <4>2. \A k \in 0..0 : k = 0
        OBVIOUS
      <4> QED BY <4>1, <4>2, Zenon
    <3>2. Replay(tree, g).ok
      BY <2>2
    <3> QED BY <2>10, <3>1, <3>2, Zenon
  <2> QED BY <2>1, <2>9, <2>11 DEF g
<1>2. ASSUME NEW g \in DOMAIN tree \ {genesis_block_hash}, Parent(g) \in S PROVE g \in S
  <2> SUFFICES ASSUME Replay(tree, g).ok PROVE Good(g)
    OBVIOUS
  <2> DEFINE p == Parent(g)
  <2>1. Replay(tree, p).ok /\ BranchSound(tree, g)
    <3>1. Replay(tree, Parent(g)).ok => BranchSound(tree, Parent(g))
      BY <1>2
    <3> QED BY <3>1, BranchStep
  <2>2. \A k \in 0..Len(p) : Replay(tree, SubSeq(p, 1, k)).ok
    BY <1>2, <2>1
  <2>3. /\ Len(g) \in Nat \ {0} /\ Len(p) = Len(g) - 1
        /\ \A k \in 0..(Len(g) - 1) : SubSeq(p, 1, k) = SubSeq(g, 1, k)
        /\ SubSeq(g, 1, Len(g)) = g
    BY ParentFacts, PrefixFacts
  <2> HIDE DEF p
  <2>4. \A k \in 0..Len(g) : Replay(tree, SubSeq(g, 1, k)).ok
    <3>1. \A k \in 0..Len(g) : k \in 0..(Len(g) - 1) \/ k = Len(g)
      BY <2>3
    <3>2. \A k \in 0..(Len(g) - 1) : Replay(tree, SubSeq(g, 1, k)).ok
      <4>1. \A k \in 0..(Len(g) - 1) : Replay(tree, SubSeq(p, 1, k)).ok
        BY <2>2, <2>3
      <4> QED BY <2>3, <4>1, Zenon
    <3> QED BY <2>3, <3>1, <3>2, Zenon
  <2> QED BY <2>1, <2>4
<1> HIDE DEF S
<1>3. h \in S
  BY <1>1, <1>2, TreeInduction
<1> QED BY <1>3 DEF S

\* Undoing the last block of a branch that checks out gives its parent's
\* accounts.
LEMMA UndoLast ==
  ASSUME NEW tree, LedgerTree(tree), NEW h \in DOMAIN tree, Replay(tree, h).ok,
         NEW k \in 1..Len(h)
  PROVE  UndoBlock(Replay(tree, SubSeq(h, 1, k)).accounts, tree[SubSeq(h, 1, k)])
           = Replay(tree, SubSeq(h, 1, k - 1)).accounts
<1> DEFINE g == SubSeq(h, 1, k)
           p == SubSeq(h, 1, k - 1)
<1>1. k \in 0..Len(h) /\ k - 1 \in 0..Len(h)
  <2>1. Len(h) \in Nat
    BY PrefixFacts
  <2> QED BY <2>1
<1>2. /\ g \in DOMAIN tree /\ g # genesis_block_hash
      /\ Parent(g) = p /\ p \in DOMAIN tree
  BY <1>1, PrefixFacts
<1>3. Replay(tree, g).ok /\ Replay(tree, p).ok
  BY <1>1, BranchFacts
<1> HIDE DEF g, p
<1>4. BranchSound(tree, p)
  BY <1>2, <1>3, BranchFacts
<1>5. UndoBlock(Replay(tree, g).accounts, tree[g]) = Replay(tree, p).accounts
  BY <1>2, <1>3, <1>4, BranchStep
<1> QED BY <1>5 DEF g, p

-----------------------------------------------------------------------------
(* A reorg leads from the replay of one branch to that of the other.       *)

\* SimulateReorg from any accounts.
Reorg(tree, acc, old, new) ==
  ApplyBlocks(UndoBlocks(acc, BlocksAt(tree, undo_list(old, new))),
              BlocksAt(tree, apply_list(old, new)))

\* Undoing a branch down to height f gives the accounts of its prefix.
LEMMA UndoToFork ==
  ASSUME NEW tree, LedgerTree(tree), NEW old \in DOMAIN tree, NEW new \in DOMAIN tree,
         Replay(tree, old).ok
  PROVE  UndoBlocks(Replay(tree, old).accounts, BlocksAt(tree, undo_list(old, new)))
           = Replay(tree, SubSeq(old, 1, ForkHeight(old, new))).accounts
<1> DEFINE n == Len(old)
           f == ForkHeight(old, new)
           m == n - f
           hs == undo_list(old, new)
           bs == BlocksAt(tree, hs)
           At(k) == SubSeq(old, 1, k)
           acc == Replay(tree, old).accounts
<1>1. /\ n \in Nat /\ At(n) = old
      /\ \A k \in 0..n : At(k) \in DOMAIN tree
      /\ \A k \in 1..n : At(k) # genesis_block_hash
  BY PrefixFacts
<1>2. f \in 0..n
  BY ForkHeightFacts DEF LedgerTree
<1>3. /\ DOMAIN hs = 1..m
      /\ \A i \in 1..m : hs[i] = At(n - (i - 1))
  BY DEF undo_list, block_ancestor
<1>4. \A k \in 1..n : UndoBlock(Replay(tree, At(k)).accounts, tree[At(k)])
                        = Replay(tree, At(k - 1)).accounts
  BY UndoLast
<1>5. acc \in Accounts
  BY ReplayUnfold DEF Simulation
<1> HIDE DEF n, f, hs, At
<1>6. m \in Nat /\ m <= n /\ n - m = f
  BY <1>1, <1>2
<1>7. Len(bs) = m /\ \A i \in 1..m : bs[i] = tree[hs[i]]
  BY ONLY <1>3, <1>6, BlocksAtFacts
<1>8. \A i \in 1..m : /\ n - (i - 1) \in 1..n
                      /\ n - i = (n - (i - 1)) - 1
                      /\ n - i \in 0..n
  BY <1>1, <1>6
<1> HIDE DEF m
<1>9. ASSUME NEW i \in 1..m
      PROVE  /\ bs[i] = tree[At(n - (i - 1))]
             /\ LedgerBlock(bs[i])
             /\ UndoBlock(Replay(tree, At(n - (i - 1))).accounts, bs[i])
                  = Replay(tree, At(n - i)).accounts
  <2> DEFINE k == n - (i - 1)
  <2>1. k \in 1..n /\ n - i = k - 1 /\ k \in 0..n
    BY <1>1, <1>8
  <2> HIDE DEF k
  <2>2. bs[i] = tree[At(k)]
    BY <1>3, <1>7 DEF k
  <2>3. LedgerBlock(tree[At(k)])
    BY <1>1, <2>1, TreeBlocks
  <2> QED BY <1>4, <2>1, <2>2, <2>3 DEF k
<1> HIDE DEF bs, acc
<1>10. PICK u \in [0..m -> Accounts] : IsUnwindTrace(u, acc, bs)
  <2>1. \A i \in 1..Len(bs) : \A s \in Accounts : UndoBlock(s, bs[i]) \in Accounts
    BY <1>7, <1>9, UndoBlockType
  <2>2. \E u \in [0..Len(bs) -> Accounts] : IsUnwindTrace(u, acc, bs)
    BY <1>5, <1>6, <1>7, <2>1, UndoBlocksTrace
  <2> QED BY <1>7, <2>2
<1>11. /\ u[0] = acc
       /\ \A i \in 1..m : u[i] = UndoBlock(u[i-1], bs[i])
       /\ UndoBlocks(acc, bs) = u[m]
  BY <1>7, <1>10 DEF IsUnwindTrace
<1> DEFINE T == {i \in 0..m : u[i] = Replay(tree, At(n - i)).accounts}
<1>12. 0 \in T
  <2>1. n - 0 = n /\ 0 \in 0..m
    BY <1>1, <1>6
  <2> QED BY <1>1, <1>11, <2>1 DEF acc
<1>13. ASSUME NEW i \in 1..m, i - 1 \in T PROVE i \in T
  <2>1. u[i-1] = Replay(tree, At(n - (i - 1))).accounts /\ i \in 0..m
    BY <1>6, <1>13
  <2> QED BY <1>9, <1>11, <2>1
<1> HIDE DEF T
<1>14. m \in T
  <2>1. 0..m \subseteq T
    BY <1>6, <1>12, <1>13, BoundedInduction
  <2> QED BY <1>6, <2>1
<1>15. UndoBlocks(acc, bs) = Replay(tree, At(f)).accounts
  BY <1>6, <1>11, <1>14 DEF T
<1> QED BY <1>15 DEF acc, bs, hs, At, f

\* Applying a branch from height f on completes the replay of its prefix.
LEMMA ApplyFromFork ==
  ASSUME NEW tree, LedgerTree(tree), NEW old \in DOMAIN tree, NEW new \in DOMAIN tree,
         Replay(tree, SubSeq(new, 1, ForkHeight(old, new))).ok
  PROVE  ApplyBlocks(Replay(tree, SubSeq(new, 1, ForkHeight(old, new))).accounts,
                     BlocksAt(tree, apply_list(old, new)))
           = Replay(tree, new)
<1> DEFINE n == Len(new)
           f == ForkHeight(old, new)
           m == n - f
           hs == apply_list(old, new)
           bs == BlocksAt(tree, hs)
           At(k) == SubSeq(new, 1, k)
           acc == Replay(tree, At(f)).accounts
<1>1. /\ n \in Nat /\ At(n) = new
      /\ \A k \in 0..n : At(k) \in DOMAIN tree
      /\ \A k \in 1..n : At(k) # genesis_block_hash /\ Parent(At(k)) = At(k - 1)
  BY PrefixFacts
<1>2. f \in Nat /\ f <= n
  BY <1>1, ForkHeightFacts DEF LedgerTree
<1>3. /\ DOMAIN hs = 1..m
      /\ \A i \in 1..m : hs[i] = At(f + i)
  BY DEF apply_list
<1>4. Replay(tree, At(f)).ok
  OBVIOUS
<1> HIDE DEF n, f, hs, At
<1>5. \A k \in 1..n : Replay(tree, At(k)) = ReplayStep(Replay(tree, At(k - 1)), tree[At(k)])
  <2> TAKE k \in 1..n
  <2>1. At(k) \in DOMAIN tree /\ At(k) # genesis_block_hash /\ Parent(At(k)) = At(k - 1)
    <3>1. k \in 0..n
      BY <1>1
    <3> QED BY <1>1, <3>1
  <2> QED BY <2>1, ReplayUnfold
<1>6. m \in Nat /\ f + m = n /\ \A i \in 1..m : f + i \in 1..n /\ (f + i) - 1 = f + (i - 1)
  BY <1>1, <1>2
<1>7. Len(bs) = m /\ \A i \in 1..m : bs[i] = tree[hs[i]]
  BY ONLY <1>3, <1>6, BlocksAtFacts
<1> HIDE DEF m
<1>8. ASSUME NEW i \in 1..m
      PROVE  /\ LedgerBlock(bs[i])
             /\ Replay(tree, At(f + i)) = ReplayStep(Replay(tree, At(f + (i - 1))), bs[i])
  <2> DEFINE k == f + i
  <2>1. k \in 1..n /\ f + (i - 1) = k - 1 /\ k \in 0..n
    BY <1>1, <1>6
  <2> HIDE DEF k
  <2>2. bs[i] = tree[At(k)]
    BY <1>3, <1>7 DEF k
  <2>3. LedgerBlock(tree[At(k)])
    BY <1>1, <2>1, TreeBlocks
  <2> QED BY <1>5, <2>1, <2>2, <2>3 DEF k
<1>9. Replay(tree, At(f)) = [ok |-> TRUE, accounts |-> acc] /\ Replay(tree, At(f)) \in Simulation
  <2>1. f \in 0..n
    BY <1>1, <1>2
  <2>2. Replay(tree, At(f)) \in Simulation
    BY <1>1, <2>1, ReplayUnfold
  <2> QED BY <1>4, <2>2 DEF Simulation
<1> HIDE DEF bs, acc
<1>10. PICK u \in [0..m -> Simulation] : IsApplyTrace(u, acc, bs)
  <2>1. \A i \in 1..Len(bs) : \A s \in Simulation : ApplyBlock(s, bs[i]) \in Simulation
    BY <1>7, <1>8, ApplyBlockType
  <2>2. \E u \in [0..Len(bs) -> Simulation] : IsApplyTrace(u, acc, bs)
    BY <1>6, <1>7, <1>9, <2>1, ApplyBlocksTrace
  <2> QED BY <1>7, <2>2
<1>11. /\ u[0] = Replay(tree, At(f))
       /\ \A i \in 1..m : u[i] = ReplayStep(u[i-1], bs[i])
       /\ ApplyBlocks(acc, bs) = u[m]
  BY <1>7, <1>9, <1>10 DEF IsApplyTrace, ReplayStep
<1> DEFINE T == {i \in 0..m : u[i] = Replay(tree, At(f + i))}
<1>12. 0 \in T
  <2>1. f + 0 = f /\ 0 \in 0..m
    BY <1>2, <1>6
  <2> QED BY <1>11, <2>1
<1>13. ASSUME NEW i \in 1..m, i - 1 \in T PROVE i \in T
  <2>1. u[i-1] = Replay(tree, At(f + (i - 1))) /\ i \in 0..m
    BY <1>6, <1>13
  <2> QED BY <1>8, <1>11, <2>1
<1> HIDE DEF T
<1>14. m \in T
  <2>1. 0..m \subseteq T
    BY <1>6, <1>12, <1>13, BoundedInduction
  <2> QED BY <1>6, <2>1
<1>15. ApplyBlocks(acc, bs) = Replay(tree, new)
  BY <1>1, <1>6, <1>11, <1>14 DEF T
<1> QED BY <1>15 DEF acc, bs, hs, At, f

\* The simulation of a reorg from the accounts of the old branch is the replay
\* of the new one, success and accounts.
LEMMA ReorgIsReplay ==
  ASSUME NEW tree, LedgerTree(tree), NEW old \in DOMAIN tree, NEW new \in DOMAIN tree,
         Replay(tree, old).ok
  PROVE  Reorg(tree, Replay(tree, old).accounts, old, new) = Replay(tree, new)
<1> DEFINE f == ForkHeight(old, new)
<1>1. f \in 0..Len(old) /\ SubSeq(old, 1, f) = SubSeq(new, 1, f)
  BY ForkHeightFacts DEF LedgerTree
<1>2. Replay(tree, SubSeq(old, 1, f)).ok
  BY <1>1, BranchFacts
<1>3. UndoBlocks(Replay(tree, old).accounts, BlocksAt(tree, undo_list(old, new)))
        = Replay(tree, SubSeq(new, 1, f)).accounts
  BY <1>1, UndoToFork
<1>4. ApplyBlocks(Replay(tree, SubSeq(new, 1, f)).accounts, BlocksAt(tree, apply_list(old, new)))
        = Replay(tree, new)
  BY <1>1, <1>2, ApplyFromFork
<1> QED BY <1>3, <1>4, Zenon DEF Reorg

-----------------------------------------------------------------------------
(* The inductive invariant of the ledger: the store's, the accounts, and   *)
(* that every stored block but genesis was submitted.                      *)

StoredSubmitted == \A h \in DOMAIN blocks \ {genesis_block_hash} : blocks[h] \in Submittable

ChainInv ==
  /\ StoreInv
  /\ StoredSubmitted
  /\ AccountsReplayCanonical
  /\ TipIsHeaviestValid

LEMMA StoredTree ==
  ASSUME StoreInv, StoredSubmitted
  PROVE  LedgerTree(blocks)
<1>1. DOMAIN blocks \subseteq Hash /\ genesis_block_hash \in DOMAIN blocks
  BY DEF StoreInv, StoreTypeOK, BlockTree
<1>2. \A h \in DOMAIN blocks : \A k \in 0..Len(h) : SubSeq(h, 1, k) \in DOMAIN blocks
  BY DEF StoreInv, PrefixClosed
<1>3. ASSUME NEW h \in DOMAIN blocks \ {genesis_block_hash}
      PROVE  /\ blocks[h] \in Submittable
             /\ blocks[h].height = Len(h)
             /\ Len(h) < EpochLength
  <2>1. blocks[h].height = Len(h) /\ blocks[h].height < EpochLength
    BY DEF StoreInv, BlockTree, StaysInFirstEpoch
  <2> QED BY <2>1 DEF StoredSubmitted
<1> QED BY <1>1, <1>2, <1>3 DEF LedgerTree

\* Storing a block keeps the replay of every branch that was there; the
\* simulation of the switch to it is its own replay.
LEMMA StoreReplay ==
  ASSUME ChainInv, NEW b \in Submittable, Storable(b), StoreBlock(b)
  PROVE  /\ StoreInv => StoredSubmitted'
         /\ \A h \in DOMAIN blocks : ReplayOf(h)' = ReplayOf(h)
         /\ SimulateReorg(blocks', tip.hash, id(b)) = ReplayOf(id(b))'
         /\ DOMAIN blocks' = DOMAIN blocks \cup {id(b)}
         /\ chainwork'[id(b)] = ThisWork(b)
         /\ \A h \in DOMAIN blocks : chainwork'[h] = chainwork[h] /\ chainwork[h] \in Nat
         /\ tip.hash \in DOMAIN blocks
         /\ ThisWork(b) \in Nat
         /\ LedgerTree(blocks) /\ LedgerTree(blocks')
         /\ \A h \in DOMAIN blocks : blocks'[h] = blocks[h]
         /\ Replay(blocks', tip.hash).ok
<1>1. StoreInv /\ StoredSubmitted /\ AccountsReplayCanonical
  BY DEF ChainInv
<1>2. /\ DOMAIN blocks' = DOMAIN blocks \cup {id(b)}
      /\ chainwork'[id(b)] = ThisWork(b)
      /\ DOMAIN chainwork = DOMAIN blocks
      /\ \A h \in DOMAIN blocks : chainwork'[h] = chainwork[h] /\ chainwork[h] \in Nat
      /\ tip.hash \in DOMAIN blocks
  BY <1>1, StoreStep DEF StoreInv, BlockTree, CanonicalIndex, StoreTypeOK
<1>3. chainwork'[id(b)] \in Nat
  <2>1. chainwork' \in [DOMAIN chainwork' -> Nat] /\ BlockTree'
    BY <1>1, StoreStep
  <2> QED BY <1>2, <2>1 DEF BlockTree
<1>4. /\ blocks'[id(b)] = b
      /\ \A h \in DOMAIN blocks : blocks'[h] = blocks[h]
  <2>1. id(b) \notin DOMAIN blocks
    BY DEF Storable, Fresh
  <2>2. blocks' = [k \in DOMAIN blocks \cup {id(b)} |-> IF k = id(b) THEN b ELSE blocks[k]]
    BY DEF StoreBlock, Insert
  <2> QED BY <2>1, <2>2
<1>5. LedgerTree(blocks)
  BY <1>1, StoredTree
<1>6. LedgerTree(blocks')
  <2>1. DOMAIN blocks' \subseteq Hash /\ BlockTree' /\ PrefixClosed' /\ StaysInFirstEpoch'
    BY <1>1, StoreStep
  <2>2. \A h \in DOMAIN blocks' \ {genesis_block_hash} : blocks'[h] \in Submittable
    BY <1>1, <1>2, <1>4 DEF StoredSubmitted
  <2>3. genesis_block_hash \in DOMAIN blocks'
    BY <1>2, <1>5 DEF LedgerTree
  <2>4. \A h \in DOMAIN blocks' : \A k \in 0..Len(h) : SubSeq(h, 1, k) \in DOMAIN blocks'
    BY <2>1 DEF PrefixClosed
  <2>5. \A h \in DOMAIN blocks' \ {genesis_block_hash} :
          blocks'[h].height = Len(h) /\ blocks'[h].height < EpochLength
    BY <2>1 DEF BlockTree, StaysInFirstEpoch, genesis_block_hash
  <2> QED BY <2>1, <2>2, <2>3, <2>4, <2>5 DEF LedgerTree
<1>7. StoredSubmitted'
  BY <1>1, <1>2, <1>4 DEF StoredSubmitted, genesis_block_hash
<1>8. \A h : ReplayOf(h) = Replay(blocks, h) /\ ReplayOf(h)' = Replay(blocks', h)
  BY DEF ReplayOf, BranchOf, Replay, PathTo, GenesisAccounts
<1>9. \A h \in DOMAIN blocks : Replay(blocks', h) = Replay(blocks, h)
  BY <1>4, <1>5, ReplayInsert
<1>10. Replay(blocks', tip.hash).ok /\ accounts = Replay(blocks', tip.hash).accounts
  BY <1>1, <1>2, <1>8, <1>9 DEF AccountsReplayCanonical
<1>11. Reorg(blocks', Replay(blocks', tip.hash).accounts, tip.hash, id(b)) = Replay(blocks', id(b))
  BY <1>2, <1>6, <1>10, ReorgIsReplay
<1>12. SimulateReorg(blocks', tip.hash, id(b)) = Replay(blocks', id(b))
  BY <1>10, <1>11, Zenon DEF SimulateReorg, Reorg
<1> QED BY <1>2, <1>3, <1>4, <1>5, <1>6, <1>7, <1>8, <1>9, <1>10, <1>12

LEMMA ChainInvInit == Init => ChainInv
<1> SUFFICES ASSUME Init PROVE ChainInv
  OBVIOUS
<1>1. StoreInv
  BY StoreInvInit
<1>2. StoredSubmitted
  BY DEF Init, StoredSubmitted
<1>3. ReplayOf(genesis_block_hash) = [ok |-> TRUE, accounts |-> GenesisAccounts]
  BY <1>1, <1>2, StoredTree, ReplayUnfold, ReplayIsReplayOf
<1>4. tip.hash = genesis_block_hash /\ accounts = GenesisAccounts /\ DOMAIN blocks = {genesis_block_hash}
  BY DEF Init
<1>5. AccountsReplayCanonical
  BY <1>3, <1>4 DEF AccountsReplayCanonical
<1>6. TipIsHeaviestValid
  <2>1. chainwork[genesis_block_hash] \in Nat
    BY <1>1, <1>4 DEF StoreInv, StoreTypeOK, BlockTree
  <2> QED BY <1>4, <2>1 DEF TipIsHeaviestValid
<1> QED BY <1>1, <1>2, <1>5, <1>6 DEF ChainInv

LEMMA ChainInvNext == ChainInv /\ [Next]_vars => ChainInv'
<1> SUFFICES ASSUME ChainInv, [Next]_vars PROVE ChainInv'
  OBVIOUS
<1>1. StoreInv'
  BY StoreInvNext DEF ChainInv
<1>2. CASE StoreUnchanged
  <2>1. \A h : ReplayOf(h)' = ReplayOf(h)
    BY <1>2 DEF StoreUnchanged, ReplayOf, BranchOf, PathTo, GenesisAccounts
  <2>2. StoredSubmitted'
    BY <1>2 DEF ChainInv, StoreUnchanged, StoredSubmitted, genesis_block_hash
  <2>3. AccountsReplayCanonical'
    BY <1>2, <2>1 DEF ChainInv, StoreUnchanged, AccountsReplayCanonical
  <2>4. TipIsHeaviestValid'
    BY <1>2, <2>1 DEF ChainInv, StoreUnchanged, TipIsHeaviestValid
  <2> QED BY <1>1, <2>2, <2>3, <2>4 DEF ChainInv
<1>3. ASSUME NEW b \in Submittable, Storable(b), StoreBlock(b), UNCHANGED <<heights, tip, accounts>>,
             ~ OutworksTip(b) \/ ~ ReplayOf(id(b))'.ok
      PROVE  ChainInv'
  <2>1. /\ StoreInv => StoredSubmitted'
        /\ \A h \in DOMAIN blocks : ReplayOf(h)' = ReplayOf(h)
        /\ DOMAIN blocks' = DOMAIN blocks \cup {id(b)}
        /\ chainwork'[id(b)] = ThisWork(b)
        /\ \A h \in DOMAIN blocks : chainwork'[h] = chainwork[h] /\ chainwork[h] \in Nat
        /\ tip.hash \in DOMAIN blocks
        /\ ThisWork(b) \in Nat
    BY <1>3, StoreReplay
  <2>2. AccountsReplayCanonical'
    BY <1>3, <2>1 DEF ChainInv, AccountsReplayCanonical
  <2>3. TipIsHeaviestValid'
    <3> SUFFICES ASSUME NEW h \in DOMAIN blocks', ReplayOf(h)'.ok
                 PROVE  chainwork'[h] <= chainwork'[tip.hash]
      BY <1>3 DEF TipIsHeaviestValid
    <3>1. CASE h \in DOMAIN blocks
      BY <2>1, <3>1 DEF ChainInv, TipIsHeaviestValid
    <3>2. CASE h = id(b)
      BY <1>3, <2>1, <3>2 DEF OutworksTip
    <3> QED BY <2>1, <3>1, <3>2
  <2> QED BY <1>1, <2>1, <2>2, <2>3 DEF ChainInv
<1>4. ASSUME NEW b \in Submittable, StoreAndAdopt(b) PROVE ChainInv'
  <2>0. Storable(b) /\ StoreBlock(b) /\ OutworksTip(b) /\ tip'.hash = id(b)
        /\ SimulateReorg(blocks', tip.hash, id(b)).ok
        /\ accounts' = SimulateReorg(blocks', tip.hash, id(b)).accounts
    BY <1>4 DEF StoreAndAdopt
  <2>1. /\ StoreInv => StoredSubmitted'
        /\ \A h \in DOMAIN blocks : ReplayOf(h)' = ReplayOf(h)
        /\ SimulateReorg(blocks', tip.hash, id(b)) = ReplayOf(id(b))'
        /\ DOMAIN blocks' = DOMAIN blocks \cup {id(b)}
        /\ chainwork'[id(b)] = ThisWork(b)
        /\ \A h \in DOMAIN blocks : chainwork'[h] = chainwork[h] /\ chainwork[h] \in Nat
        /\ tip.hash \in DOMAIN blocks
        /\ ThisWork(b) \in Nat
    BY <2>0, StoreReplay
  <2>2. AccountsReplayCanonical'
    BY <2>0, <2>1 DEF AccountsReplayCanonical
  <2>3. TipIsHeaviestValid'
    <3> SUFFICES ASSUME NEW h \in DOMAIN blocks', ReplayOf(h)'.ok
                 PROVE  chainwork'[h] <= chainwork'[id(b)]
      BY <2>0 DEF TipIsHeaviestValid
    <3>1. CASE h \in DOMAIN blocks
      <4>1. chainwork[h] <= chainwork[tip.hash] /\ chainwork[tip.hash] < ThisWork(b)
        BY <2>0, <2>1, <3>1 DEF ChainInv, TipIsHeaviestValid, OutworksTip
      <4> QED BY <2>1, <3>1, <4>1
    <3>2. CASE h = id(b)
      BY <2>1, <3>2
    <3> QED BY <2>1, <3>1, <3>2
  <2> QED BY <1>1, <2>1, <2>2, <2>3 DEF ChainInv
<1>5. CASE \E b \in Submittable : StoreSideBranch(b)
  BY <1>3, <1>5 DEF StoreSideBranch
<1>6. CASE \E b \in Submittable : StoreThenFail(b)
  <2>1. PICK b \in Submittable : StoreThenFail(b)
    BY <1>6
  <2>2. Storable(b) /\ StoreBlock(b) /\ UNCHANGED <<heights, tip, accounts>>
        /\ ~ SimulateReorg(blocks', tip.hash, id(b)).ok
    BY <2>1 DEF StoreThenFail
  <2>3. ~ ReplayOf(id(b))'.ok
    BY <2>2, StoreReplay
  <2> QED BY <1>3, <2>2, <2>3
<1> QED
  BY <1>2, <1>4, <1>5, <1>6 DEF Next, Submit, submit_block, RejectBeforeHash, ReturnAlreadyKnown,
     RejectStateless, ReturnOrphan, RejectContext, StoreUnchanged, work_template, Restart, vars

\* The invariant of the ledger, for every genesis and every set of blocks an
\* epoch of which fits u64.
THEOREM ChainInvariant == Spec => []ChainInv
BY ChainInvInit, ChainInvNext, PTL DEF Spec

\* The accounts are those of replaying the canonical chain from genesis,
\* whatever was extended, tried, undone and reapplied before: undo inverts
\* apply, and a failed switch leaves no trace (reconsider_tip).
THEOREM AccountsReplayTheorem == Spec => []AccountsReplayCanonical
<1>1. ChainInv => AccountsReplayCanonical
  BY DEF ChainInv
<1> QED BY ChainInvariant, <1>1, PTL

\* No stored branch that checks out has more work than the tip, whatever the
\* order of arrival and whichever reorgs failed (submit_block).
THEOREM ForkChoiceTheorem == Spec => []TipIsHeaviestValid
<1>1. ChainInv => TipIsHeaviestValid
  BY DEF ChainInv
<1> QED BY ChainInvariant, <1>1, PTL

\* The canonical chain is a sound branch, read off the index.
LEMMA CanonicalSound ==
  ASSUME ChainInv
  PROVE  /\ BranchSound(blocks, tip.hash)
         /\ accounts = Replay(blocks, tip.hash).accounts
         /\ tip.height = Len(tip.hash)
         /\ \A k \in 1..tip.height : heights[k] = SubSeq(tip.hash, 1, k)
<1>1. StoreInv /\ StoredSubmitted /\ AccountsReplayCanonical
  BY DEF ChainInv
<1>2. /\ tip.hash \in DOMAIN blocks /\ tip.height = Len(tip.hash) /\ tip.height \in Nat
      /\ heights = [k \in 0..tip.height |-> SubSeq(tip.hash, 1, k)]
  BY <1>1 DEF StoreInv, CanonicalIndex, StoreTypeOK
<1>3. Replay(blocks, tip.hash).ok /\ accounts = Replay(blocks, tip.hash).accounts
  BY <1>1, ReplayIsReplayOf DEF AccountsReplayCanonical
<1>4. BranchSound(blocks, tip.hash)
  BY <1>1, <1>2, <1>3, StoredTree, BranchFacts
<1>5. \A k \in 1..tip.height : heights[k] = SubSeq(tip.hash, 1, k)
  <2>1. \A k \in 1..tip.height : k \in 0..tip.height
    BY <1>2
  <2> QED BY <1>2, <2>1
<1> QED BY <1>2, <1>3, <1>4, <1>5

\* Rewards are the only source of money and fees its only sink, on any
\* canonical chain and after any reorgs (reconsider_tip, block_reward).
THEOREM SupplyTheorem == Spec => []SupplyConserved
<1>1. ChainInv => SupplyConserved
  <2> SUFFICES ASSUME ChainInv PROVE SupplyConserved
    OBVIOUS
  <2> DEFINE n == tip.height
             f == [k \in 1..n |-> FeesIn(blocks[heights[k]])]
             g == [k \in 1..n |-> FeesIn(blocks[SubSeq(tip.hash, 1, k)])]
  <2>1. /\ BranchSound(blocks, tip.hash) /\ accounts = Replay(blocks, tip.hash).accounts
        /\ n = Len(tip.hash)
        /\ \A k \in 1..n : heights[k] = SubSeq(tip.hash, 1, k)
    BY CanonicalSound
  <2>2. \A k \in 1..n : FeesIn(blocks[heights[k]]) = FeesIn(blocks[SubSeq(tip.hash, 1, k)])
    BY <2>1, Zenon
  <2>3. f = g
    BY <2>2
  <2>4. FeesOn(blocks, tip.hash) = SumFunction(g)
    BY <2>1 DEF FeesOn
  <2>5. Supply(accounts) + SumFunction(f) = SumFunction(Premine) + RewardsUpTo(n)
    <3> HIDE DEF f, g
    <3> QED BY <2>1, <2>3, <2>4 DEF BranchSound
  <2> QED BY <2>5 DEF SupplyConserved
<1> QED BY ChainInvariant, <1>1, PTL

\* What leaving one branch for another does to the executed transactions:
\* those of the shared prefix stay, and none of them is undone.
LEMMA ReorgTxs ==
  ASSUME NEW tree, LedgerTree(tree), NEW old \in DOMAIN tree, NEW new \in DOMAIN tree,
         Replay(tree, old).ok
  PROVE  LET undone  == TxsOf(BlocksAt(tree, undo_list(old, new)))
             applied == TxsOf(BlocksAt(tree, apply_list(old, new)))
             shared  == TxsOn(tree, SubSeq(old, 1, ForkHeight(old, new)))
         IN  /\ TxsOn(tree, old) = shared \cup undone
             /\ TxsOn(tree, new) = shared \cup applied
             /\ shared \cap undone = {}
<1> DEFINE n == Len(old)
           m == Len(new)
           f == ForkHeight(old, new)
           ul == undo_list(old, new)
           al == apply_list(old, new)
           Old(k) == SubSeq(old, 1, k)
           New(k) == SubSeq(new, 1, k)
           undone == TxsOf(BlocksAt(tree, ul))
           applied == TxsOf(BlocksAt(tree, al))
           shared == TxsOn(tree, Old(f))
<1>1. n \in Nat /\ m \in Nat /\ Old(n) = old /\ New(m) = new
  BY PrefixFacts
<1>2. f \in 0..n /\ f \in 0..m /\ Old(f) = New(f)
  <2>1. old \in Hash /\ new \in Hash
    BY DEF LedgerTree
  <2>2. f \in 0..n /\ f <= m /\ Old(f) = New(f)
    BY <2>1, ForkHeightFacts
  <2> HIDE DEF f, n, m
  <2>3. f \in 0..m
    BY <1>1, <2>2
  <2> QED BY <2>2, <2>3
<1>3. /\ Len(Old(f)) = f
      /\ \A k \in 1..f : SubSeq(Old(f), 1, k) = Old(k) /\ SubSeq(New(f), 1, k) = New(k)
  <2>1. \A k \in 1..f : k \in 0..f
    BY <1>2
  <2>2. /\ Len(Old(f)) = f
        /\ \A k \in 0..f : SubSeq(Old(f), 1, k) = Old(k) /\ SubSeq(New(f), 1, k) = New(k)
    BY <1>2, PrefixFacts
  <2> QED BY <2>1, <2>2
<1>4. /\ DOMAIN ul = 1..(n - f) /\ \A i \in 1..(n - f) : ul[i] = Old(n - (i - 1))
      /\ DOMAIN al = 1..(m - f) /\ \A i \in 1..(m - f) : al[i] = New(f + i)
  BY DEF undo_list, apply_list, block_ancestor
<1>5. \A hs : TxsOf(BlocksAt(tree, hs)) = UNION {TxsIn(tree[hs[i]]) : i \in DOMAIN hs}
  BY DEF TxsOf, TxsIn, BlocksAt
<1>6. OnceOn(tree, old)
  BY BranchFacts DEF BranchSound
<1>7. /\ TxsOn(tree, old) = UNION {TxsIn(tree[Old(k)]) : k \in 1..n}
      /\ TxsOn(tree, new) = UNION {TxsIn(tree[New(k)]) : k \in 1..m}
  BY DEF TxsOn
<1>8. shared = UNION {TxsIn(tree[Old(k)]) : k \in 1..f}
      /\ shared = UNION {TxsIn(tree[New(k)]) : k \in 1..f}
  <2>1. shared = UNION {TxsIn(tree[SubSeq(Old(f), 1, k)]) : k \in 1..f}
    BY <1>3 DEF TxsOn
  <2>2. \A k \in 1..f : TxsIn(tree[SubSeq(Old(f), 1, k)]) = TxsIn(tree[Old(k)])
                     /\ TxsIn(tree[SubSeq(Old(f), 1, k)]) = TxsIn(tree[New(k)])
    BY <1>2, <1>3, Zenon
  <2> HIDE DEF shared, Old, New
  <2> QED BY <2>1, <2>2
<1>9. ASSUME NEW j \in 1..n, NEW k \in 1..n, NEW tx \in TxsIn(tree[Old(j)]),
             tx \in TxsIn(tree[Old(k)])
      PROVE  j = k
  <2> DEFINE TxsAt(i) == tree[Old(i)].transactions
  <2>1. PICK x \in DOMAIN TxsAt(j) : tx = TxsAt(j)[x]
    BY Zenon DEF TxsIn
  <2>2. PICK y \in DOMAIN TxsAt(k) : tx = TxsAt(k)[y]
    BY <1>9, Zenon DEF TxsIn
  <2> QED BY <1>6, <2>1, <2>2, Zenon DEF OnceOn
<1> HIDE DEF n, m, f, ul, al, Old, New, shared
<1>10. /\ \A i \in 1..(n - f) : n - (i - 1) \in (f + 1)..n
       /\ \A k \in (f + 1)..n : n - k + 1 \in 1..(n - f) /\ n - ((n - k + 1) - 1) = k
       /\ 1..n = 1..f \cup (f + 1)..n
       /\ \A i \in 1..(m - f) : f + i \in (f + 1)..m
       /\ \A k \in (f + 1)..m : k - f \in 1..(m - f) /\ f + (k - f) = k
       /\ 1..m = 1..f \cup (f + 1)..m
       /\ 1..f \cap (f + 1)..n = {}
  BY <1>1, <1>2
<1>11. undone = UNION {TxsIn(tree[Old(k)]) : k \in (f + 1)..n}
  <2>1. undone = UNION {TxsIn(tree[ul[i]]) : i \in DOMAIN ul}
    BY <1>5
  <2>2. undone = UNION {TxsIn(tree[Old(n - (i - 1))]) : i \in 1..(n - f)}
    BY <1>4, <2>1
  <2> HIDE DEF undone
  <2> QED BY <1>10, <2>2
<1>12. applied = UNION {TxsIn(tree[New(k)]) : k \in (f + 1)..m}
  <2>1. applied = UNION {TxsIn(tree[al[i]]) : i \in DOMAIN al}
    BY <1>5
  <2>2. applied = UNION {TxsIn(tree[New(f + i)]) : i \in 1..(m - f)}
    BY <1>4, <2>1
  <2> HIDE DEF applied
  <2> QED BY <1>10, <2>2
<1> HIDE DEF undone, applied
<1>13. TxsOn(tree, old) = shared \cup undone
  BY <1>7, <1>8, <1>10, <1>11
<1>14. TxsOn(tree, new) = shared \cup applied
  BY <1>7, <1>8, <1>10, <1>12
<1>15. shared \cap undone = {}
  <2> SUFFICES ASSUME NEW tx \in shared, tx \in undone PROVE FALSE
    OBVIOUS
  <2>1. PICK j \in 1..f : tx \in TxsIn(tree[Old(j)])
    BY <1>8
  <2>2. PICK k \in (f + 1)..n : tx \in TxsIn(tree[Old(k)])
    BY <1>11
  <2>3. j \in 1..n /\ k \in 1..n /\ j # k
    BY <1>10
  <2> QED BY <1>9, <2>1, <2>2, <2>3
<1> QED BY <1>13, <1>14, <1>15 DEF shared, undone, applied, ul, al, Old, f

\* The transactions of a branch that was there before a block was stored.
LEMMA TxsInsert ==
  ASSUME NEW tree, LedgerTree(tree), NEW tree2,
         \A h \in DOMAIN tree : tree2[h] = tree[h],
         NEW h \in DOMAIN tree
  PROVE  TxsOn(tree2, h) = TxsOn(tree, h)
<1>1. \A k \in 1..Len(h) : SubSeq(h, 1, k) \in DOMAIN tree
  <2>1. \A k \in 1..Len(h) : k \in 0..Len(h)
    BY PrefixFacts
  <2> QED BY <2>1, PrefixFacts
<1>2. \A k \in 1..Len(h) : TxsIn(tree2[SubSeq(h, 1, k)]) = TxsIn(tree[SubSeq(h, 1, k)])
  BY <1>1, Zenon
<1> QED BY <1>2 DEF TxsOn

\* The transactions of the blocks on the path to a hash.
LEMMA PathTxs == \A tree, h : TxsOf(BlocksAt(tree, PathTo(h))) = TxsOn(tree, h)
<1> SUFFICES ASSUME NEW tree, NEW h PROVE TxsOf(BlocksAt(tree, PathTo(h))) = TxsOn(tree, h)
  OBVIOUS
<1> DEFINE bs == BlocksAt(tree, PathTo(h))
<1>1. bs = [k \in 1..Len(h) |-> tree[SubSeq(h, 1, k)]]
  BY DEF PathTo, BlocksAt
<1>2. TxsOf(bs) = UNION {TxsIn(bs[k]) : k \in DOMAIN bs}
  BY DEF TxsOf, TxsIn
<1>3. TxsOn(tree, h) = UNION {TxsIn(tree[SubSeq(h, 1, k)]) : k \in 1..Len(h)}
  BY DEF TxsOn
<1> QED BY <1>1, <1>2, <1>3

\* Adopting a block hands back exactly the transactions that the switch takes
\* off the canonical chain.
LEMMA RequeueStep ==
  ASSUME ChainInv, NEW b \in Submittable, StoreAndAdopt(b)
  PROVE  /\ CanonicalTxs \subseteq CanonicalTxs' \cup outcome'.requeue
         /\ outcome'.requeue \cap CanonicalTxs' = {}
<1> DEFINE old == tip.hash
           new == id(b)
           undone == TxsOf(BlocksAt(blocks', undo_list(old, new)))
           applied == TxsOf(BlocksAt(blocks', apply_list(old, new)))
           shared == TxsOn(blocks', SubSeq(old, 1, ForkHeight(old, new)))
<1>1. /\ Storable(b) /\ StoreBlock(b) /\ tip'.hash = new
      /\ outcome'.requeue = undone \ applied
  BY DEF StoreAndAdopt, Requeue
<1>2. /\ LedgerTree(blocks) /\ LedgerTree(blocks')
      /\ old \in DOMAIN blocks /\ old \in DOMAIN blocks' /\ new \in DOMAIN blocks'
      /\ \A h \in DOMAIN blocks : blocks'[h] = blocks[h]
      /\ Replay(blocks', old).ok
  BY <1>1, StoreReplay
<1>3. /\ TxsOn(blocks', old) = shared \cup undone
      /\ TxsOn(blocks', new) = shared \cup applied
      /\ shared \cap undone = {}
  BY <1>2, ReorgTxs
<1>4. CanonicalTxs = TxsOn(blocks', old)
  <2>1. CanonicalTxs = TxsOn(blocks, old)
    BY PathTxs DEF CanonicalTxs, BranchOf
  <2> QED BY <1>2, <2>1, TxsInsert
<1>5. CanonicalTxs' = TxsOn(blocks', new)
  <2>1. CanonicalTxs' = TxsOf(BlocksAt(blocks', PathTo(tip'.hash)))
    BY DEF CanonicalTxs, BranchOf, PathTo
  <2> QED BY <1>1, <2>1, PathTxs
<1> HIDE DEF undone, applied, shared
<1> QED BY <1>1, <1>3, <1>4, <1>5

\* A reorg loses no transaction and hands none back that is executed after it
\* (the requeue list of submit_block).
THEOREM RequeueExactTheorem == Spec => RequeueExact
<1> DEFINE Exact == outcome' # outcome /\ outcome'.kind = "Accepted" =>
                      /\ CanonicalTxs \subseteq CanonicalTxs' \cup outcome'.requeue
                      /\ outcome'.requeue \cap CanonicalTxs' = {}
<1>1. ChainInv /\ [Next]_vars => [Exact]_vars
  <2> SUFFICES ASSUME ChainInv, Next, outcome' # outcome, outcome'.kind = "Accepted"
               PROVE  /\ CanonicalTxs \subseteq CanonicalTxs' \cup outcome'.requeue
                      /\ outcome'.requeue \cap CanonicalTxs' = {}
    OBVIOUS
  <2>1. \E b \in Submittable : StoreAndAdopt(b)
    BY DEF Next, Submit, submit_block, RejectBeforeHash, ReturnAlreadyKnown, RejectStateless,
       ReturnOrphan, RejectContext, StoreSideBranch, StoreThenFail, work_template, Restart
  <2> QED BY <2>1, RequeueStep
<1> QED BY ChainInvariant, <1>1, PTL DEF Spec, RequeueExact

\* No transaction is executed twice on the canonical chain, and each nonce is
\* the number of transactions its account has sent there (the nonce check of
\* reconsider_tip).
THEOREM NoReplayTheorem == Spec => []NoReplay
<1>1. ChainInv => NoReplay
  <2> SUFFICES ASSUME ChainInv PROVE NoReplay
    OBVIOUS
  <2> DEFINE n == tip.height
             TxsAt(k) == blocks[heights[k]].transactions
             Listed(k) == blocks[SubSeq(tip.hash, 1, k)].transactions
  <2>1. /\ OnceOn(blocks, tip.hash) /\ Executed(accounts, TxsOn(blocks, tip.hash))
        /\ n = Len(tip.hash)
        /\ \A k \in 1..n : heights[k] = SubSeq(tip.hash, 1, k)
    BY CanonicalSound DEF BranchSound
  <2>2. \A k \in 1..n : TxsAt(k) = Listed(k)
    BY <2>1, Zenon
  <2>3. \A j, k \in 1..n : \A x \in DOMAIN Listed(j), y \in DOMAIN Listed(k) :
          Listed(j)[x] = Listed(k)[y] => j = k /\ x = y
    BY <2>1, Zenon DEF OnceOn
  <2>4. CanonicalTxs = TxsOn(blocks, tip.hash)
    BY PathTxs DEF CanonicalTxs, BranchOf
  <2>5. \A a \in Address : accounts[a].nonce = Cardinality({tx \in CanonicalTxs : tx.from = a})
    BY <2>1, <2>4 DEF Executed, SentBy
  <2> HIDE DEF TxsAt, Listed
  <2>6. \A j, k \in 1..n : \A x \in DOMAIN TxsAt(j), y \in DOMAIN TxsAt(k) :
          TxsAt(j)[x] = TxsAt(k)[y] => j = k /\ x = y
    BY <2>2, <2>3
  <2> QED BY <2>5, <2>6, Zenon DEF NoReplay, TxsAt
<1> QED BY ChainInvariant, <1>1, PTL

=============================================================================

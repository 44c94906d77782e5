------------------------------ MODULE MCCommit ------------------------------
(***************************************************************************)
(* A small instance of the commit for TLC.  The window is one block and    *)
(* the target time four seconds: a block one second after its parent       *)
(* quadruples the difficulty of the next one, sixteen seconds quarter it.  *)
(***************************************************************************)
EXTENDS Commit, TLC

CONSTANTS a1, a2             \* addresses

Tx(f, t, amount) == [from |-> f, to |-> t, amount |-> amount, fee |-> 0,
                     account_nonce |-> 0, sig |-> TRUE]

\* A block on top of hash p, `gap` seconds later.
Mined(p, gap, d, m, txs) ==
  [height |-> Len(p) + 1, prev_hash |-> p, tx_root |-> merkle_root(txs),
   timestamp |-> gap + (IF p = << >> THEN GenesisTimestamp ELSE p[Len(p)].timestamp),
   difficulty |-> d, miner |-> m, nonce |-> "solves", transactions |-> txs]

\* A light branch x of three blocks, with 4, 5 and 9 units of work, and a heavy
\* branch y whose second block brings it to 20: adopting y lowers the height.
x1 == Mined(<< >>, 16, 4, a1, << >>)
x2 == Mined(id(x1), 1, 1, a2, <<Tx(a1, a2, 1)>>)
x3 == Mined(id(x2), 16, 4, a1, << >>)
y1 == Mined(<< >>, 1, 4, a2, << >>)
y2 == Mined(id(y1), 16, 16, a1, << >>)

\* A heavier block on top of y that spends what nobody owns.
bad3 == Mined(id(y2), 16, 4, a1, <<Tx(a2, a1, 9)>>)

\* Difficulties that another branch, or none, asks for.
Wrong == {Mined(id(x2), 16, 1, a1, << >>), Mined(id(y1), 16, 1, a1, << >>)}

CommitBlocks == {x1, x2, x3, y1, y2, bad3} \cup Wrong

NoPremine == [a \in {a1, a2} |-> 0]

=============================================================================

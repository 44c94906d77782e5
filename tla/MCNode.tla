------------------------------- MODULE MCNode -------------------------------
(***************************************************************************)
(* Small instances of a node for TLC.                                      *)
(***************************************************************************)
EXTENDS NodeProperties, TLC

CONSTANTS a1, a2             \* addresses

NodePremine == (a1 :> 3) @@ (a2 :> 0)

Mined(p, m, txs) ==
  [height |-> Len(p) + 1, prev_hash |-> p, tx_root |-> merkle_root(txs), timestamp |-> 1,
   difficulty |-> 1, miner |-> m, nonce |-> "solves", transactions |-> txs]

Tx(n, fee) == [from |-> a1, to |-> a2, amount |-> 1, fee |-> fee,
               account_nonce |-> n, sig |-> TRUE]

\* Two branches: x executes a transaction y does not, y comes to win.
pay   == Tx(0, 0)
other == Tx(0, 1)
x1 == Mined(<< >>, a1, <<pay>>)
y1 == Mined(<< >>, a2, << >>)
y2 == Mined(id(y1), a2, << >>)
y3 == Mined(id(y2), a2, <<other>>)
broke == Mined(id(x1), a2, <<Tx(1, 3)>>)

PoolBlocks   == {x1, y1, y2, y3, broke}
RaceBlocks   == {x1, y1, y2}
ForkBlocks   == {x1, y1, y2, y3}

PoolTxs      == {pay, other}
NoTxs        == {}

=============================================================================

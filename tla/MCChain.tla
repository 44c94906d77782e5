------------------------------- MODULE MCChain -------------------------------
(***************************************************************************)
(* Small instances of the consensus core for TLC.                          *)
(***************************************************************************)
EXTENDS ChainProperties, TLC

CONSTANTS a1, a2             \* addresses

\* A block on top of hash p.
Mined(p, ts, d, m, txs) ==
  [height |-> Len(p) + 1, prev_hash |-> p, tx_root |-> merkle_root(txs), timestamp |-> ts,
   difficulty |-> d, miner |-> m, nonce |-> "solves", transactions |-> txs]

\* Difficulty 1 everywhere: the window never fills.
PlainOn(ps, miners, lists) ==
  {Mined(p, 1, 1, m, l) : p \in ps, m \in miners, l \in lists}

Tx(f, t, amount, fee, n) == [from |-> f, to |-> t, amount |-> amount, fee |-> fee,
                             account_nonce |-> n, sig |-> TRUE]

\* Instance "forks": two transfers of a1 with the same nonce, a follow-up, a
\* transfer a1 can only afford with a mining reward, and a transfer by a2.
pay     == Tx(a1, a2, 2, 1, 0)
rival   == Tx(a1, a1, 1, 0, 0)
followup == Tx(a1, a2, 1, 0, 1)
back    == Tx(a2, a1, 1, 1, 0)

Ids(bs) == {id(b) : b \in bs}

Forks1 == PlainOn({<< >>}, {a1, a2}, {<< >>, <<pay>>})
Forks2 == PlainOn(Ids(Forks1), {a1}, {<< >>, <<followup>>, <<rival, back>>})
Forks3 == PlainOn(Ids({b \in Forks2 : b.transactions # <<followup>>}), {a2}, {<< >>, <<pay>>})

Defective ==
  LET b == Mined(<< >>, 1, 1, a1, <<pay>>)
  IN  {[b EXCEPT !.tx_root = << >>], [b EXCEPT !.nonce = "misses"],
       [b EXCEPT !.height = 0], [b EXCEPT !.height = 2], [b EXCEPT !.difficulty = 2],
       Mined(<< >>, 1, 1, a1, <<[pay EXCEPT !.sig = FALSE]>>)}

ForksSubmittable == Forks1 \cup Forks2 \cup Forks3 \cup Defective
ForksPremine == (a1 :> 3) @@ (a2 :> 0)

NoPremine == [a \in {a1, a2} |-> 0]

-----------------------------------------------------------------------------
(* Instance "epoch": a single branch across the first epoch boundary.      *)

EpochBlocks ==
  LET x1 == Mined(<< >>, 1, 1, a1, << >>)
      x2 == Mined(id(x1), 1, 1, a1, << >>)
      x3 == Mined(id(x2), 1, 1, a1, << >>)
  IN  {x1, x2, x3}

=============================================================================

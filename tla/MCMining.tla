------------------------------ MODULE MCMining ------------------------------
(***************************************************************************)
(* Small instances of wallets, miners and a node for TLC.                  *)
(***************************************************************************)
EXTENDS Mining, TLC

CONSTANTS a1, a2             \* addresses

MiningPremine == (a1 :> 5) @@ (a2 :> 1)

Pay(t, amount) == [to |-> t, amount |-> amount, fee |-> 0]

Sent(w, p, n) == [from |-> w, to |-> p.to, amount |-> p.amount, fee |-> p.fee,
                  account_nonce |-> n, sig |-> TRUE]

\* Instance "mining": both wait for their only payment.  The hash of a2's
\* transaction comes first.
Everyone == {a1, a2}
MiningPayments == (a1 :> <<Pay(a2, 2)>>) @@ (a2 :> <<Pay(a1, 1)>>)
MiningOrder == <<Sent(a2, Pay(a1, 1), 0), Sent(a1, Pay(a2, 2), 0)>>

\* Instance "stall": a1 runs `send` twice without waiting for the first
\* payment to be mined.
OnlyA2 == {a2}
StallPayments == (a1 :> <<Pay(a2, 2), Pay(a2, 1)>>) @@ (a2 :> <<Pay(a1, 1)>>)
StallOrder == <<Sent(a1, Pay(a2, 2), 0), Sent(a2, Pay(a1, 1), 0),
                Sent(a1, Pay(a2, 1), 0), Sent(a1, Pay(a2, 1), 1)>>

=============================================================================

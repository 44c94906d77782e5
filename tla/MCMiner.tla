------------------------------- MODULE MCMiner -------------------------------
(***************************************************************************)
(* Three templates over two epochs.  The nonces that solve a template with *)
(* the other epoch's dataset are different ones.                           *)
(***************************************************************************)
EXTENDS Miner, TLC

CONSTANTS w1, w2, w3

MinerTemplates == {w1, w2, w3}
MinerEpochs    == (w1 :> 0) @@ (w2 :> 0) @@ (w3 :> 1)
MinerBoundary  == (w1 :> "zero") @@ (w2 :> "zero") @@ (w3 :> "b1")
MinerSolutions ==
  LET d0 == Generate(w1)
      d1 == Generate(w3)
  IN  (w1 :> ((d0 :> {3, 6, 12}) @@ (d1 :> {0})))
   @@ (w2 :> ((d0 :> {13})       @@ (d1 :> {2, 4})))
   @@ (w3 :> ((d0 :> {1})        @@ (d1 :> {6, 7, 14})))

=============================================================================

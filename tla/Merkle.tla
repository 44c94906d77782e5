------------------------------- MODULE Merkle -------------------------------
(***************************************************************************)
(* merkle_root of ondris-core/src/block.rs.  The hash of a node is the     *)
(* list of leaves below it, so hashing a pair joins two lists of the same  *)
(* length: equal lists then mean equal subtrees, and what the code makes   *)
(* of an odd element stays visible.  The zero root of no leaves is << >>.  *)
(***************************************************************************)
EXTENDS Integers, Sequences

\* Mutation: the odd element is dropped (chunks_exact instead of chunks).
NextLevelDropping(level) ==
  [i \in 1..(IF Len(level) = 1 THEN 1 ELSE Len(level) \div 2) |->
     IF Len(level) = 1 THEN level[1] ELSE level[2*i - 1] \o level[2*i]]

\* One round of the loop: pairs from the left, an odd last one with itself.
NextLevel(level) ==
  IF Len(level) <= 1 THEN level
  ELSE [i \in 1..((Len(level) + 1) \div 2) |->
          level[2*i - 1] \o level[IF 2*i <= Len(level) THEN 2*i ELSE 2*i - 1]]

merkle_root(hashes) ==
  LET level[i \in 0..Len(hashes)] ==
        IF i = 0 THEN [k \in 1..Len(hashes) |-> <<hashes[k]>>]
        ELSE NextLevel(level[i-1])
  IN  IF hashes = << >> THEN << >> ELSE level[Len(hashes)][1]

=============================================================================

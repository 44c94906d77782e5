------------------------------ MODULE MCChannel ------------------------------
(***************************************************************************)
(* Frames of 4 bytes and prefixes of 2: all queues of up to three messages *)
(* that are shorter than a frame, end with one, go one byte beyond it,     *)
(* span several, or are over the reader's limit of 9.                      *)
(***************************************************************************)
EXTENDS Channel

ChannelQueues == UNION {[1..k -> {1, 2, 3, 7, 10}] : k \in 1..3}

=============================================================================

-------------------------------- MODULE Miner --------------------------------
(***************************************************************************)
(* The two miners, ondris-miner/src/main.rs (threads) and                  *)
(* ondris-miner-gpu (batches on an OpenCL device).  Both repeat: fetch a   *)
(* template, make sure of its epoch's dataset, search for a nonce, submit. *)
(* The node is the environment: it hands out templates.                    *)
(*                                                                         *)
(* A template stands for the header bytes and the target; which nonces     *)
(* solve it depends on the dataset they are hashed with, and a dataset is  *)
(* what Dataset::generate makes of an epoch and its boundary hash.         *)
(***************************************************************************)
EXTENDS Integers, FiniteSets

CONSTANTS Device,        \* {"cpu", "gpu"}, or one of them
          Threads,       \* threads.max(1) of the CPU miner
          BatchSize,     \* nonces per kernel launch of the GPU miner
          NonceSpace,    \* 2^64
          Template,      \* the templates the node hands out
          epoch,         \* template -> its epoch
          epoch_boundary_hash,  \* template -> the hash that seeds its dataset
          Solutions,     \* template, dataset -> nonces that solve it
          MaxGlitches    \* bound: wrong reports of the device

Nonce  == 0..(NonceSpace - 1)
Thread == 0..(Threads - 1)

\* The dataset of a template.
Generate(w) == [epoch |-> epoch[w], seed |-> epoch_boundary_hash[w]]
Dataset     == {Generate(w) : w \in Template}

ASSUME MinerAssumption ==
  /\ Threads \in Nat \ {0} /\ BatchSize \in Nat \ {0} /\ NonceSpace \in Nat \ {0}
  /\ MaxGlitches \in Nat
  /\ epoch \in [Template -> Nat]
  /\ DOMAIN epoch_boundary_hash = Template
  /\ Solutions \in [Template -> [Dataset -> SUBSET Nonce]]

\* The miners compare epochs, not boundary hashes: the node never hands out
\* two boundaries for one epoch (it would after a reorg of a boundary block).
ASSUME OneBoundary ==
  \A v, w \in Template :
    epoch[v] = epoch[w] => epoch_boundary_hash[v] = epoch_boundary_hash[w]

VARIABLES
  device,          \* which miner this is
  phase,           \* "fetch", "prepare", "mine", "submit", "exited"
  work,            \* the template in hand: a set of at most one
  cached_dataset,  \* Option: the dataset kept
  session,         \* Option: the dataset uploaded to the device
  nonce,           \* CPU: the next nonce of each thread; GPU: nonce_base of 0
  pc,              \* CPU: where each thread is: "search", "flag", "done"
  found,           \* CPU: the flag that ends the search
  result,          \* Option<nonce>
  tried,           \* history: the nonces each thread has hashed
  glitches         \* wrong reports so far

miner_vars == <<device, phase, work, cached_dataset, session, nonce, pc, found,
                result, tried, glitches>>

None == {}
Some(x) == {x}

Solves(n, w, dataset) == n \in Solutions[w][dataset]

-----------------------------------------------------------------------------
(* The outer loop.                                                         *)

Fetch(w) ==
  /\ phase = "fetch"
  /\ work' = Some(w)
  /\ phase' = "prepare"
  /\ UNCHANGED <<device, cached_dataset, session, nonce, pc, found, result, tried, glitches>>

\* Mutation: every thread starts at the same nonce.
StartNonceSame(t) == 0

StartNonce(t) == t

\* Mutation: whatever dataset is there is used.
DatasetForAny(w) == IF cached_dataset = None THEN Some(Generate(w)) ELSE cached_dataset

\* The kept dataset if it is the epoch's, else a new one.
DatasetFor(w) ==
  IF \E d \in cached_dataset : d.epoch = epoch[w] THEN cached_dataset ELSE Some(Generate(w))

\* Mutation: a new dataset does not drop the session.
SessionKept(dataset) ==
  IF device = "cpu" THEN None ELSE IF session # None THEN session ELSE dataset

\* A new dataset drops the session made with the old one; a missing session
\* is made with the present one.
SessionFor(dataset) ==
  IF device = "cpu" THEN None
  ELSE IF dataset = cached_dataset /\ session # None THEN session ELSE dataset

\* Dataset, then session, then the search starts.
Prepare ==
  /\ phase = "prepare"
  /\ \E w \in work :
       /\ cached_dataset' = DatasetFor(w)
       /\ session' = SessionFor(DatasetFor(w))
  /\ nonce' = [t \in Thread |-> StartNonce(t)]
  /\ pc' = [t \in Thread |-> "search"]
  /\ found' = FALSE
  /\ result' = None
  /\ tried' = [t \in Thread |-> {}]
  /\ phase' = "mine"
  /\ UNCHANGED <<device, work, glitches>>

\* Accepted, refused or not delivered: the next template is fetched anyway.
Submit ==
  /\ phase = "submit"
  /\ phase' = "fetch"
  /\ work' = None /\ result' = None
  /\ UNCHANGED <<device, cached_dataset, session, nonce, pc, found, tried, glitches>>

\* An error that `?` passes on ends the process: an answer that is no
\* template, or an OpenCL call that fails.
Exit ==
  /\ phase = "fetch" \/ (device = "gpu" /\ phase \in {"prepare", "mine"})
  /\ phase' = "exited"
  /\ UNCHANGED <<device, work, cached_dataset, session, nonce, pc, found, result, tried,
                 glitches>>

-----------------------------------------------------------------------------
(* mine_block: thread t hashes t, t + threads, t + 2*threads, ...          *)

Mining(d) == phase = "mine" /\ device = d

\* One turn of the loop.  `found` is loaded before the hash is computed and
\* with relaxed ordering, so a thread may hash on after it was set.
TryNonce(t) ==
  /\ Mining("cpu") /\ pc[t] = "search"
  /\ tried' = [tried EXCEPT ![t] = @ \cup {nonce[t]}]
  /\ \E w \in work, dataset \in cached_dataset :
       IF Solves(nonce[t], w, dataset)
       THEN /\ result' = Some(nonce[t])
            /\ pc' = [pc EXCEPT ![t] = "flag"]
            /\ UNCHANGED nonce
       ELSE /\ nonce' = [nonce EXCEPT ![t] = (@ + Threads) % NonceSpace]
            /\ UNCHANGED <<result, pc>>
  /\ UNCHANGED <<device, phase, work, cached_dataset, session, found, glitches>>

RaiseFlag(t) ==
  /\ Mining("cpu") /\ pc[t] = "flag"
  /\ found' = TRUE
  /\ pc' = [pc EXCEPT ![t] = "done"]
  /\ UNCHANGED <<device, phase, work, cached_dataset, session, nonce, result, tried, glitches>>

SeeFlag(t) ==
  /\ Mining("cpu") /\ pc[t] = "search" /\ found
  /\ pc' = [pc EXCEPT ![t] = "done"]
  /\ UNCHANGED <<device, phase, work, cached_dataset, session, nonce, found, result,
                 tried, glitches>>

\* The waiting thread sees the flag and the scope ends when every thread
\* has: the result is taken.
Join ==
  /\ Mining("cpu") /\ found
  /\ \A t \in Thread : pc[t] = "done"
  /\ phase' = "submit"
  /\ UNCHANGED <<device, work, cached_dataset, session, nonce, pc, found, result, tried,
                 glitches>>

-----------------------------------------------------------------------------
(* mine_block_gpu and MiningSession::try_batch.                            *)

Batch == {(nonce[0] + i) % NonceSpace : i \in 0..(BatchSize - 1)}

\* What the host makes of a nonce the device reports: it is hashed again
\* with the dataset of this process before it is used.
Recheck(n) ==
  \E w \in work, dataset \in cached_dataset :
    IF Solves(n, w, dataset)
    THEN /\ result' = Some(n) /\ phase' = "submit"
         /\ UNCHANGED nonce
    ELSE /\ nonce' = [nonce EXCEPT ![0] = (@ + BatchSize) % NonceSpace]
         /\ UNCHANGED <<result, phase>>

\* The work-items that meet the target all store their nonce in the same
\* place, in any order: any one of them is read back.
TryBatch ==
  LET hits == {n \in Batch : \E w \in work, dataset \in session : Solves(n, w, dataset)}
  IN  /\ Mining("gpu")
      /\ \/ \E n \in hits : Recheck(n)
         \/ /\ hits = {}
            /\ nonce' = [nonce EXCEPT ![0] = (@ + BatchSize) % NonceSpace]
            /\ UNCHANGED <<result, phase>>
      /\ UNCHANGED <<device, work, cached_dataset, session, pc, found, tried, glitches>>

\* The device reports any nonce at all: a wrong hash, or racing 8-byte stores
\* that mix.
Glitch ==
  /\ Mining("gpu") /\ glitches < MaxGlitches
  /\ glitches' = glitches + 1
  /\ \E n \in Nonce : Recheck(n)
  /\ UNCHANGED <<device, work, cached_dataset, session, pc, found, tried>>

-----------------------------------------------------------------------------

MinerInit ==
  /\ device \in Device
  /\ phase = "fetch" /\ work = None
  /\ cached_dataset = None /\ session = None
  /\ nonce = [t \in Thread |-> 0]
  /\ pc = [t \in Thread |-> "done"]
  /\ found = FALSE /\ result = None
  /\ tried = [t \in Thread |-> {}]
  /\ glitches = 0

ThreadStep(t) == TryNonce(t) \/ RaiseFlag(t) \/ SeeFlag(t)

MinerNext ==
  \/ \E w \in Template : Fetch(w)
  \/ Prepare \/ Submit \/ Exit
  \/ \E t \in Thread : ThreadStep(t)
  \/ Join \/ TryBatch \/ Glitch

MinerSpec == MinerInit /\ [][MinerNext]_miner_vars

\* Threads are scheduled, a load eventually sees the flag, the process goes
\* on, and a kernel launch returns.
FairMinerSpec ==
  /\ MinerSpec
  /\ \A t \in Thread : WF_miner_vars(TryNonce(t) \/ RaiseFlag(t)) /\ WF_miner_vars(SeeFlag(t))
  /\ WF_miner_vars(Prepare \/ Submit \/ Join)
  /\ WF_miner_vars(TryBatch)

-----------------------------------------------------------------------------

\* What is submitted solves the block for the node, that is with the dataset
\* of the template's own epoch, whatever the order of threads, a stale
\* session or a wrong report of the device; in particular there is a result
\* ("a thread must have found a nonce").
SubmittedSolves ==
  phase = "submit" =>
    \E w \in work, n \in result : Solves(n, w, Generate(w))

\* main.rs: "splitting the nonce space across `threads` threads": no nonce is
\* hashed by two threads (Threads divides NonceSpace).
NonceSpaceSplit ==
  \A t, u \in Thread : t # u => tried[t] \cap tried[u] = {}

\* A search for a block that has a solution ends, for any stride and batch,
\* past wrong reports and after any change of epoch, unless the device fails.
SearchEnds == phase = "mine" ~> phase \in {"submit", "exited"}

=============================================================================

------------------------------ MODULE NodeChain ------------------------------
(***************************************************************************)
(* The chain a node serves, as far as a wallet can tell one chain from     *)
(* another.  A block is the set of transactions it carries; a block's hash *)
(* commits to every block below it, so "the same block" at height h is     *)
(* "the same first h entries".  Consensus itself is neptune-core's and is  *)
(* external: only the rules the wallet's own code leans on are here (a     *)
(* transaction spends all its inputs and puts all its outputs in one       *)
(* block, a coin is spent once, and rule 2.f bounds how long a             *)
(* transaction can wait).                                                  *)
(***************************************************************************)
EXTENDS Integers, Sequences, FiniteSets

CONSTANTS
    Tx,          \* transactions that may ever exist
    Sends,       \* those this device builds; each stands for its txid
    Coin,        \* this wallet's coins, keyed as scan.rs does: commitment and index
    Commitment,  \* addition records a block can carry; a coin is one of them
    Inputs,      \* the coins each transaction spends
    Outputs      \* the commitments each transaction puts on the chain

ASSUME TxAssumption ==
    /\ Sends \subseteq Tx
    /\ Coin \subseteq Commitment
    /\ Inputs \in [Tx -> SUBSET Coin]
    /\ Outputs \in [Tx -> SUBSET Commitment]

Block == SUBSET Tx

\* Addition records of a block, the wallet's own among them, and its removals.
Carries(b) == UNION {Outputs[t] : t \in b}
Mints(b) == Carries(b) \cap Coin
Spends(b) == UNION {Inputs[t] : t \in b}

IsMinted(ch, c) == \E h \in 1..Len(ch) : c \in Mints(ch[h])
IsSpent(ch, c) == \E h \in 1..Len(ch) : c \in Spends(ch[h])
InChain(ch, t) == \E h \in 1..Len(ch) : t \in ch[h]

\* Whether a block of these transactions can follow `ch`: nothing is carried
\* twice, every input is there and unspent, and no two transactions of the
\* block spend or make the same coin.
CanFollow(ch, b) ==
    /\ \A t \in b : ~InChain(ch, t)
    /\ \A c \in Spends(b) : IsMinted(ch, c) /\ ~IsSpent(ch, c)
    /\ \A c \in Mints(b) : ~IsMinted(ch, c)
    /\ \A t, u \in b : t # u => /\ Inputs[t] \cap Inputs[u] = {}
                                /\ Outputs[t] \cap Outputs[u] \cap Coin = {}

\* The first h blocks, which is what the hash of block h stands for.
UpTo(ch, h) == SubSeq(ch, 1, h)

\* Whether a chain scanned so far is still the one the node is on.
OnChain(scanned, ch) == Len(scanned) <= Len(ch) /\ UpTo(ch, Len(scanned)) = scanned

\* A transaction the node's mempool would take now.
Confirmable(ch, t) ==
    /\ ~InChain(ch, t)
    /\ \A c \in Inputs[t] : IsMinted(ch, c) /\ ~IsSpent(ch, c)
==============================================================================

----------------------------- MODULE DurableStore -----------------------------
(***************************************************************************)
(* What the sealed log promises whoever writes through it, whatever the    *)
(* storage underneath: changes are kept one after another, each whole or   *)
(* not at all; the wallet in memory shows only what is kept; and it is at  *)
(* most one batch behind, so a crash forgets nothing anyone was told of.   *)
(***************************************************************************)
EXTENDS Naturals, Sequences

CONSTANT Batch  \* batches of changes

VARIABLES
    durable,  \* the batches kept
    open,     \* whether a wallet is open on them
    view      \* the batches the open wallet shows

dsVars == <<durable, open, view>>

DSInit == durable = <<>> /\ open = FALSE /\ view = <<>>

Open == ~open /\ open' = TRUE /\ view' = durable /\ UNCHANGED durable
Land == open /\ view = durable /\ \E b \in Batch : durable' = Append(durable, b) /\ UNCHANGED <<open, view>>
Show == open /\ view' = durable /\ UNCHANGED <<durable, open>>
Close == open /\ open' = FALSE /\ view' = <<>> /\ UNCHANGED durable

DSNext == Open \/ Land \/ Show \/ Close
DSSpec == DSInit /\ [][DSNext]_dsVars
===============================================================================

------------------------------- MODULE MCWallet -------------------------------
(***************************************************************************)
(* A small instance of Wallet, in two scenes: a behaviour belongs to one   *)
(* of them from its start, and the scene says which of the transactions it *)
(* uses and which actors run.  Every transaction spends the coin c1; c2 is *)
(* the change of a.                                                        *)
(***************************************************************************)
EXTENDS Wallet

CONSTANTS a, b, f, m1, c1, c2, p, q, id

VARIABLE scene

MCRank == [x \in Sends \cup Coin |-> IF x \in {a, c1} THEN 1 ELSE 2]
MCNodeId == [t \in Tx |-> <<id, t>>]
MCGenesis == <<{m1}>>
MCInputs == [t \in Tx |-> IF t = m1 THEN {} ELSE {c1}]
MCOutputs == [t \in Tx |-> CASE t = a -> {p, c2} [] t = b -> {q} [] t = m1 -> {c1} [] OTHER -> {}]

\* A transaction that a scene does without
Unused(t) ==
    /\ t \in Sends => phase'[t] = "idle"
    /\ \A h \in DOMAIN chain' : t \notin chain'[h]
    /\ poll'.tx # t

\* Whole: a send, another device's spend of its coin, and all the actors.
Whole == Next /\ Unused(b)
\* Rivals: two sends, the second made after the first was given up on; the
\* mempool is not looked at.
Rivals ==
    /\ Mine \/ Reorg \/ SyncStep \/ SendStep \/ GiveUpStep
    /\ Unused(f)
    /\ phase'[b] = "idle" \/ phase'[a] = "done"

MCInit ==
    /\ Init
    /\ scene \in {"whole", "rivals"}
    /\ scene # "whole" => wallet = NewWallet(1)
MCNext ==
    /\ \/ scene = "whole" /\ Whole
       \/ scene = "rivals" /\ Rivals
    /\ scene' = scene
MCSpec == MCInit /\ [][MCNext]_<<vars, scene>>

\* No coin of a waiting send is offered (HeldWhilePending of record_pending and
\* persist_scan), whatever another device or the watcher does; two sends of one
\* coin are left out.
CoinsHeld == scene # "rivals" => HeldWhilePending
===============================================================================

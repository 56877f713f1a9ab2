------------------------------- MODULE Restore -------------------------------
(***************************************************************************)
(* The fast restore (wallet/sync.ts restoreFast and the pass around it):   *)
(* the node's coin index names the blocks that pay the keys the wallet     *)
(* watches and the blocks that spend its coins; only those are scanned,    *)
(* round after round while keys or coins turn up.  What was scanned is     *)
(* kept, so that one cut short (a lock, a closed app, a node that fails,   *)
(* the sync stopped) carries on; then the ordinary scan takes over.        *)
(*                                                                         *)
(* The chain is given by where it pays and spends the wallet's coins.      *)
(* Reorganisations, and the ordinary pass in detail, are Sync's.           *)
(***************************************************************************)
EXTENDS Naturals, FiniteSetsExt

CONSTANTS
    NumCoins,      \* coins the chain ever pays this wallet
    Indices,       \* key indices it pays
    Lookahead,     \* KEY_LOOKAHEAD
    Handover,      \* RESTORE_HANDOVER
    Rounds,        \* RESTORE_ROUNDS
    SaveEvery,     \* blocks between two writes of the progress
    Strays,        \* sets of heights the index names although nothing of ours is there
    Rare,          \* "busy block": one that pays a late key pays or spends another coin too.
                   \* "rescan over progress": a fast rescan while an earlier restore's progress is kept
    MaxHeight, MaxBreaks, MaxRescans  \* bounds

ASSUME RestoreAssumption ==
    /\ {NumCoins, Rounds, SaveEvery, MaxHeight} \subseteq Nat \ {0}
    /\ {Lookahead, Handover, MaxBreaks, MaxRescans} \subseteq Nat /\ Indices \subseteq Nat
    /\ Strays \subseteq SUBSET (1..MaxHeight)
    /\ Rare \subseteq {"busy block", "rescan over progress"}

VARIABLES
    coins,   \* per coin: key, the block that pays it, the block that spends it (0: none)
    stray,
    tip,     \* the node's newest block
    index,   \* the node keeps the coin index
    wallet,  \* the ledger; see Reset
    note,    \* fastRestoreProgress, as kept: for each height scanned, the coins known then
    job,     \* the pass under way: a restore; see Idle
    said,    \* how the last pass ended
    spent    \* bounds

restoreVars == <<coins, stray, tip, index, wallet, note, job, said, spent>>
chain == <<coins, stray>>
Coins == 1..NumCoins

(* The ledger *)

FreshNext == 1
Reset(height, restore) ==
    [found |-> {}, gone |-> {}, next |-> FreshNext, restore |-> restore,
     begun |-> FALSE, synced |-> 0, birthday |-> height]
Unspent(w) == w.found \ w.gone
Watched(w) == 0..(w.next + Lookahead)

\* scan_blocks of one block, written by persist_scan: a coin found again stays spent
Scan(w, h) ==
    LET in == {c \in Coins : coins[c].paid = h /\ coins[c].key \in Watched(w)}
        out == {c \in Unspent(w) : coins[c].spent = h} IN
    [w EXCEPT !.found = @ \cup in, !.gone = @ \cup out,
              !.next = Max({@} \cup {coins[c].key + 1 : c \in in})]

(* The node's coin index *)

PaysFirstKeys(w) == {coins[c].paid : c \in {d \in Coins : coins[d].key \in 0..(FreshNext + Lookahead) /\ coins[d].paid <= tip}} \cup stray
Pays(w) == {coins[c].paid : c \in {d \in Coins : coins[d].key \in Watched(w) /\ coins[d].paid <= tip}} \cup stray
Spends(w) ==
    IF Unspent(w) = {} THEN {}
    ELSE ({coins[c].spent : c \in Unspent(w)} \cap (1..tip)) \cup stray

(* A restore *)

Nothing == [h \in {} |-> {}]
Idle == [at |-> "idle", tip |-> 0, scanned |-> Nothing, todo |-> {}, round |-> 0, unsaved |-> 0, lowest |-> 0]
Noting(n, h, known) == [k \in DOMAIN n \cup {h} |-> IF k = h THEN known ELSE n[k]]
Ends(how) == job' = Idle /\ said' = how

\* Mutants of Todo: no second look, and one whether or not anything changed
TodoOnce(w) == {h \in Pays(w) \cup Spends(w) : h \in 1..job.tip /\ h \notin DOMAIN job.scanned}
TodoWhileNamed(w) ==
    {h \in Pays(w) \cup Spends(w) : h \in 1..job.tip /\ (h \notin DOMAIN job.scanned \/ h \in Spends(w))}

\* A block asked for before gets a second look once the coins known have changed
Todo(w) ==
    LET again == {h \in Spends(w) \cap DOMAIN job.scanned : job.scanned[h] # Unspent(w)} IN
    {h \in Pays(w) \cup Spends(w) : h \in 1..job.tip /\ (h \notin DOMAIN job.scanned \/ h \in again)}

\* The chain pays late keys (not watched from the start) in blocks nothing else asks for
Alone(cs, c) ==
    /\ cs[c].paid \notin stray
    /\ \A d \in Coins \ {c} : cs[d].paid # cs[c].paid /\ cs[d].spent # cs[c].paid
Histories ==
    {cs \in [Coins -> [key : Indices, paid : 1..MaxHeight, spent : 0..MaxHeight]] :
        /\ \A c \in Coins : cs[c].spent = 0 \/ cs[c].spent > cs[c].paid
        /\ \A c \in Coins \ {1} : cs[c - 1].paid <= cs[c].paid
        /\ "busy block" \in Rare \/ \A c \in Coins : cs[c].key \notin 0..(FreshNext + Lookahead) => Alone(cs, c)}

RestoreInit ==
    /\ stray \in Strays /\ coins \in Histories
    /\ tip = MaxHeight - 1 /\ index \in BOOLEAN
    /\ wallet \in {Reset(0, "fast"), Reset(1, "rebuild")}
    /\ note = Nothing /\ job = Idle /\ said = "none"
    /\ spent = [breaks |-> 0, rescans |-> 0]

At(step) == job.at = step

\* A pass begins, and a restore takes up what an earlier one had scanned
Begin ==
    /\ At("idle") /\ wallet.restore # "none"
    /\ job' = [Idle EXCEPT !.at = "ask", !.tip = tip, !.scanned = note, !.lowest = tip]
    /\ said' = "none"
    /\ UNCHANGED <<chain, tip, index, wallet, note, spent>>

\* A node without the index: a rebuild goes on as a plain scan, a restore asked for says so
NoIndex ==
    /\ At("ask") /\ job.round < Rounds /\ ~index
    /\ Ends(IF wallet.restore = "rebuild" THEN "none" ELSE "no index")
    /\ wallet' = IF wallet.restore = "rebuild" THEN [wallet EXCEPT !.restore = "none"] ELSE wallet
    /\ UNCHANGED <<chain, tip, index, note, spent>>

\* A round: what the index names that has not been looked at
Ask ==
    /\ At("ask") /\ job.round < Rounds /\ index
    /\ job' = IF Todo(wallet) = {} THEN [job EXCEPT !.at = "settled"]
              ELSE [job EXCEPT !.at = "scan", !.todo = Todo(wallet)]
    /\ UNCHANGED <<chain, tip, index, wallet, note, said, spent>>

GiveUp ==
    /\ At("ask") /\ job.round = Rounds
    /\ Ends("unfinished")
    /\ UNCHANGED <<chain, tip, index, wallet, note, spent>>

\* One block, scanned and written; then its line in the progress, which is not kept at once
ScanBlock ==
    /\ At("scan")
    /\ LET h == Min(job.todo) IN
        /\ wallet' = Scan(wallet, h)
        /\ job' = [job EXCEPT !.at = "noted", !.todo = @ \ {h}, !.lowest = Min({@, h}),
                              !.scanned = Noting(@, h, Unspent(wallet)), !.unsaved = @ + 1]
    /\ UNCHANGED <<chain, tip, index, note, said, spent>>

\* keepRestoreProgress, every few blocks and when the round ends; a failure to write is let go
Keeps == note' = job.scanned \/ note' = note
Noted ==
    /\ At("noted")
    /\ IF job.unsaved >= SaveEvery \/ job.todo = {} THEN Keeps ELSE note' = note
    /\ job' = IF job.todo = {} THEN [job EXCEPT !.at = "ask", !.round = @ + 1, !.unsaved = 0]
              ELSE [job EXCEPT !.at = "scan", !.unsaved = IF @ >= SaveEvery THEN 0 ELSE @]
    /\ UNCHANGED <<chain, tip, index, wallet, said, spent>>

\* finishFastRestore: the position a little below the tip the restore began at
Below(t) == IF t > Handover THEN t - Handover ELSE 0
Finish ==
    /\ At("settled")
    /\ LET to == Below(job.tip) IN
        wallet' = [wallet EXCEPT !.begun = TRUE, !.synced = to, !.restore = "none",
                                 !.birthday = Max({1, Min({job.lowest, to + 1})})]
    /\ job' = [job EXCEPT !.at = "finished"]
    /\ UNCHANGED <<chain, tip, index, note, said, spent>>

\* The progress is dropped; a failure is let go
Forget ==
    /\ At("finished")
    /\ note' \in {Nothing, note}
    /\ Ends("none")
    /\ UNCHANGED <<chain, tip, index, wallet, spent>>

\* The ordinary pass, block by block
Ordinary ==
    LET h == IF wallet.begun THEN wallet.synced + 1 ELSE wallet.birthday IN
    /\ At("idle") /\ wallet.restore = "none" /\ h <= tip
    /\ wallet' = [Scan(wallet, h) EXCEPT !.begun = TRUE, !.synced = h]
    /\ said' = IF h = tip THEN "done" ELSE "none"
    /\ UNCHANGED <<chain, tip, index, note, job, spent>>

\* A lock, a closed app, a stop or a node that fails, at any point: what is not written is lost
Break ==
    /\ ~At("idle") /\ spent.breaks < MaxBreaks
    /\ spent' = [spent EXCEPT !.breaks = @ + 1]
    /\ Ends("none")
    /\ UNCHANGED <<chain, tip, index, wallet, note>>

\* rescanFrom, with no pass under way: what scanning found goes, the kept progress stays
Rescan ==
    /\ At("idle") /\ spent.rescans < MaxRescans
    /\ note = Nothing \/ "rescan over progress" \in Rare
    /\ wallet' = Reset(0, "fast") /\ said' = "none"
    /\ spent' = [spent EXCEPT !.rescans = @ + 1]
    /\ UNCHANGED <<chain, tip, index, note, job>>

Grow ==
    /\ tip < MaxHeight /\ tip' = tip + 1
    /\ said' = IF said = "done" THEN "none" ELSE said
    /\ UNCHANGED <<chain, index, wallet, note, job, spent>>

\* Another node is chosen in Settings, as the message says
ChooseNode ==
    /\ said = "no index" /\ At("idle")
    /\ index' = TRUE /\ said' = "none"
    /\ UNCHANGED <<chain, tip, wallet, note, job, spent>>

OfPass == Begin \/ NoIndex \/ Ask \/ GiveUp \/ ScanBlock \/ Noted \/ Finish \/ Forget \/ Ordinary
RestoreNext == OfPass \/ Break \/ Rescan \/ Grow \/ ChooseNode

RestoreSpec == RestoreInit /\ [][RestoreNext]_restoreVars /\ WF_restoreVars(OfPass)

(* What it must do *)

\* What a plain scan of every block up to h, in order, finds
FullScan[h \in 0..MaxHeight] == IF h = 0 THEN Reset(0, "none") ELSE Scan(FullScan[h - 1], h)

\* When the wallet says it is up to date, a restore that asked for a few blocks
\* only has found every payment a scan of every block would have.  Before that,
\* no height counts as looked at before its coins are written: what the kept
\* progress passes over, a payment to a key watched from the start, is there.
NoPaymentMissed ==
    /\ said = "done" => FullScan[tip].found \subseteq wallet.found
    /\ wallet.restore # "none" =>
          \A h \in DOMAIN note : \A c \in Coins :
              coins[c].paid = h /\ coins[c].key \in 0..(FreshNext + Lookahead) => c \in wallet.found

\* A coin the chain has spent is never shown as unspent by a wallet that is up
\* to date, although its spend was scanned before the coin was known.
NoSpendMissed == said = "done" => \A c \in wallet.found : coins[c].spent \in 1..tip => c \in wallet.gone

\* With an index to ask, a restore ends however often it was cut short: the
\* second looks do not go round for ever.
Settles == wallet.restore # "none" ~> (wallet.restore = "none" \/ ~index)
==============================================================================

-------------------------------- MODULE Wallet --------------------------------
(***************************************************************************)
(* One wallet and everything that writes to it while it runs: the sync     *)
(* (web/src/wallet/sync.ts), a send (web/src/app/send.ts), the mempool     *)
(* watcher (web/src/wallet/mempool.ts), the person, and the chain and the  *)
(* mempool of the node under them all.  Each of them asks the engine for   *)
(* one ledger operation at a time; what they read before asking may be out *)
(* of date when the operation runs, so a step that reads and a step that   *)
(* writes are two actions here whenever the code awaits between them.      *)
(***************************************************************************)
EXTENDS Ledger

CONSTANTS
    Genesis,       \* the chain when the wallet is made
    Birthdays,     \* start heights a wallet may be made with; 0 when made offline
    RescanFrom,    \* start heights a rescan may be given
    MaxHeight,     \* bound: no block is mined above this height
    MaxReorgs,     \* bound: reorganisations in one behaviour
    MaxDepth,      \* bound: blocks one reorganisation drops
    MaxTxPerBlock, \* bound: transactions in one block
    MaxAge,        \* consensus rule 2.f, in blocks: how old a transaction can be
    RollBackOnWord \* MAX_ROLLBACK_ON_WORD

ASSUME WalletAssumption ==
    /\ Genesis \in Seq(Block) /\ Genesis # <<>>
    /\ Birthdays \subseteq Nat
    /\ RescanFrom \subseteq Nat
    /\ MaxAge \in Nat /\ MaxAge <= SendLife
    /\ MaxHeight \in Nat /\ MaxReorgs \in Nat /\ MaxDepth \in Nat /\ RollBackOnWord \in Nat

VARIABLES
    chain,     \* the node's best chain
    reorgs,    \* how many reorganisations have been
    live,      \* transactions some node holds: a block can take them
    wallet,    \* the wallet as the engine keeps it
    pass,      \* the running sync pass, with the batch it has scanned and not yet written
    phase,     \* how far each send has come in SendService.send
    stamp,     \* the timestamp each send was built with
    review,    \* the rivals the review of the send in hand named
    poll,      \* the mempool poll: its snapshot of own outputs, what it found
    removing,  \* the send a person takes out of History, judged removable
    confirmed, \* history: sends shown as confirmed since they were recorded
    taken      \* history: sends whose row a person or a rescan took out of History

sendVars == <<phase, stamp, review>>
appVars == <<pass, phase, stamp, review, poll, removing>>
chainVars == <<chain, reorgs, live>>
vars == <<chainVars, wallet, appVars, confirmed, taken>>

NoBatch == [from |-> 0, blocks |-> <<>>, branch |-> <<>>]
NoPass == [on |-> FALSE, tip |-> 0, batch |-> NoBatch]
NoPoll == [on |-> FALSE, own |-> {}, tx |-> NoTx, ins |-> {}]
Phase == {"idle", "reviewed", "planned", "built", "recorded", "refused", "done"}

Init ==
    /\ chain = Genesis
    /\ reorgs = 0
    /\ live = Tx \ Sends
    /\ \E b \in Birthdays : wallet = NewWallet(b)
    /\ pass = NoPass
    /\ phase = [s \in Sends |-> "idle"]
    /\ stamp = [s \in Sends |-> 0]
    /\ review = {}
    /\ poll = NoPoll
    /\ removing = NoTx
    /\ confirmed = {} /\ taken = {}

\* One ledger operation: the engine applies it whole, one at a time.
Write(w) ==
    /\ wallet' = w
    /\ confirmed' = {s \in confirmed : w.row[s].status # "none"}
                      \cup {s \in Sends : w.row[s].status = "confirmed"}

(* The chain *)

\* A block cannot carry a transaction stamped too long before it (rule 2.f).
InTime(t) == t \in Sends => Len(chain) + 1 <= stamp[t] + MaxAge

Mine ==
    /\ Len(chain) < MaxHeight
    /\ \E b \in SUBSET live :
        /\ Cardinality(b) <= MaxTxPerBlock
        /\ CanFollow(chain, b)
        /\ \A t \in b : InTime(t)
        /\ chain' = Append(chain, b)
    /\ UNCHANGED <<reorgs, live, wallet, appVars, confirmed, taken>>

Reorg ==
    /\ reorgs < MaxReorgs
    /\ \E k \in 1..MaxDepth :
        /\ k < Len(chain)
        /\ chain' = UpTo(chain, Len(chain) - k)
    /\ reorgs' = reorgs + 1
    /\ UNCHANGED <<live, wallet, appVars, confirmed, taken>>

(* A sync pass *)

\* isBlockCanonical of the newest block scanned, and of a kept one.
Forked == wallet.linked /\ ~OnChain(wallet.branch, chain)
Canonical(h) == h <= Len(chain) /\ UpTo(wallet.branch, h) = UpTo(chain, h)

StartPass ==
    /\ ~pass.on
    /\ ~Forked
    /\ wallet.synced <= Len(chain)
    /\ \E hint \in 0..Len(chain) : Write(Started(wallet, Len(chain), hint))
    /\ pass' = [on |-> TRUE, tip |-> Len(chain), batch |-> NoBatch]
    /\ UNCHANGED <<chainVars, sendVars, poll, removing, taken>>

\* Found at the start of a pass, or by a block that does not link.  With no
\* kept block on the node's chain the pass stops and nothing is changed.
RollBackIfForked ==
    /\ pass.batch = NoBatch
    /\ Forked
    /\ wallet.synced <= IF pass.on THEN pass.tip ELSE Len(chain)
    /\ LET kept == ForkCandidates(wallet)
           agreed == {k \in kept : Canonical(k)}
       IN  \/ /\ agreed # {}
              /\ \E h \in agreed : (\A k \in agreed : k <= h) /\ Write(RollBack(wallet, h, TRUE))
           \/ /\ kept = {}
              /\ wallet.synced - (wallet.birthday - 1) <= RollBackOnWord
              /\ Write(RollBack(wallet, wallet.birthday - 1, FALSE))
    /\ pass' = [on |-> TRUE, tip |-> IF pass.on THEN pass.tip ELSE Len(chain), batch |-> NoBatch]
    /\ UNCHANGED <<chainVars, sendVars, poll, removing, taken>>

\* The blocks are scanned against the coins and the sends of this moment.
ScanBlocks ==
    /\ pass.on /\ pass.batch = NoBatch
    /\ ~Forked
    /\ LET from == Position(wallet) + 1
           watch == WatchedCommitments(wallet)
           first == ScanOf(chain[from], Unspent(wallet), watch)
           second == ScanOf(chain[from + 1], After(Unspent(wallet), first), watch)
       IN  \E n \in 1..MaxBatch :
            /\ from + n - 1 <= pass.tip /\ from + n - 1 <= Len(chain)
            /\ pass' = [pass EXCEPT !.batch =
                 [from |-> from, branch |-> UpTo(chain, from + n - 1),
                  blocks |-> IF n = 1 THEN <<first>> ELSE <<first, second>>]]
    /\ UNCHANGED <<chainVars, wallet, sendVars, poll, removing, confirmed, taken>>

PersistBatch ==
    /\ pass.batch # NoBatch
    /\ Write(PersistScan(wallet, pass.batch.from, pass.batch.blocks, pass.batch.branch))
    /\ pass' = [pass EXCEPT !.batch = NoBatch]
    /\ UNCHANGED <<chainVars, sendVars, poll, removing, taken>>

\* A pass that reached the tip it began with ends by expiring sends.
EndPass ==
    /\ pass.on /\ pass.batch = NoBatch
    /\ wallet.synced >= pass.tip
    /\ Write(ExpireSends(wallet))
    /\ pass' = NoPass
    /\ UNCHANGED <<chainVars, sendVars, poll, removing, taken>>

\* Stopped, locked out, or ended by an error: the batch in flight is not written.
StopPass ==
    /\ pass.on
    /\ pass' = NoPass
    /\ UNCHANGED <<chainVars, wallet, sendVars, poll, removing, confirmed, taken>>

\* History loses these rows.
RowsLeft == {s \in Sends : wallet.row[s].status # "none" /\ wallet'.row[s].status = "none"}

\* Settings waits for the pass to stop; nothing else waits for the rescan.
Rescan ==
    /\ ~pass.on
    /\ \E h \in RescanFrom : Write(ResetForRescan(wallet, h))
    /\ taken' = taken \cup RowsLeft
    /\ UNCHANGED <<chainVars, appVars>>

SyncStep == StartPass \/ RollBackIfForked \/ ScanBlocks \/ PersistBatch \/ EndPass \/ StopPass

(* A send *)

SendIdle == \A s \in Sends : phase[s] \in {"idle", "done"}
Move(s, to) == phase' = [phase EXCEPT ![s] = to]

\* Sends given up on that may still go through and have a coin that is free.
GivenUpRivals(w) == {r \in Sends : MayStillGo(w, r) /\ Inputs[r] \cap Spendable(w) # {}}

Review(s) ==
    /\ phase[s] = "idle" /\ SendIdle
    /\ Move(s, "reviewed")
    /\ review' = GivenUpRivals(wallet)
    /\ UNCHANGED <<chainVars, wallet, pass, stamp, poll, removing, confirmed, taken>>

\* The inputs are chosen once, from what is spendable then; a rival of the
\* review with no coin left to spend ends the send (RIVAL_GONE).
Plan(s) ==
    /\ phase[s] = "reviewed"
    /\ Inputs[s] \subseteq Spendable(wallet)
    /\ \A r \in review : Inputs[r] \cap Inputs[s] # {}
    /\ Move(s, "planned")
    /\ review' = {}
    /\ UNCHANGED <<chainVars, wallet, pass, stamp, poll, removing, confirmed, taken>>

\* The stamp is the newest block's time.  A membership proof of a coin that is
\* not there, or is spent, does not verify against the node's mutator set.
Build(s) ==
    /\ phase[s] = "planned"
    /\ Confirmable(chain, s)
    /\ Move(s, "built")
    /\ stamp' = [stamp EXCEPT ![s] = Len(chain)]
    /\ UNCHANGED <<chainVars, wallet, pass, review, poll, removing, confirmed, taken>>

\* Cancelled, not approved, or failed before the node hears of it.
Cancel(s) ==
    /\ phase[s] \in {"reviewed", "planned", "built"}
    /\ Move(s, "idle")
    /\ review' = {}
    /\ UNCHANGED <<chainVars, wallet, pass, stamp, poll, removing, confirmed, taken>>

Record(s) ==
    /\ phase[s] = "built"
    /\ wallet' = RecordPending(wallet, s, stamp[s])
    /\ confirmed' = confirmed \ {s}
    /\ Move(s, "recorded")
    /\ UNCHANGED <<chainVars, pass, stamp, review, poll, removing, taken>>

\* Taken, or not known to have been: everything stays held either way.
Submit(s) ==
    /\ phase[s] = "recorded"
    /\ Move(s, "done")
    /\ \/ UNCHANGED live
       \/ Confirmable(chain, s) /\ live' = live \cup {s}
    /\ UNCHANGED <<chain, reorgs, wallet, pass, stamp, review, poll, removing, confirmed, taken>>

\* The node's own no: nothing is out there.
Refuse(s) ==
    /\ phase[s] = "recorded"
    /\ Move(s, "refused")
    /\ UNCHANGED <<chainVars, wallet, pass, stamp, review, poll, removing, confirmed, taken>>

\* A refusal after the tip moved is built again from the same inputs, which
\* are not chosen anew.  Nobody saw the refused one, so the name is free.
Discard(s) ==
    /\ phase[s] = "refused"
    /\ Write(DiscardPending(wallet, s))
    /\ \/ Move(s, "idle")
       \/ stamp[s] # Len(chain) /\ Move(s, "planned")
    /\ UNCHANGED <<chainVars, pass, stamp, review, poll, removing, taken>>

SendStep ==
    \E s \in Sends : \/ Review(s) \/ Plan(s) \/ Build(s) \/ Cancel(s)
                     \/ Record(s) \/ Submit(s) \/ Refuse(s) \/ Discard(s)

(* The person *)

Forget(s) ==
    /\ IsPending(wallet, s)
    /\ Write(ForgetSend(wallet, s))
    /\ UNCHANGED <<chainVars, appVars, taken>>

\* `remove` judges a row and its coins as they are, then awaits the drop.
JudgeRemovable(s) ==
    /\ removing = NoTx
    /\ wallet.row[s].status = "failed" /\ ~MayStillGo(wallet, s)
    /\ removing' = s
    /\ UNCHANGED <<chainVars, wallet, pass, sendVars, poll, confirmed, taken>>

Remove ==
    /\ removing # NoTx
    /\ Write(DropRow(wallet, removing))
    /\ removing' = NoTx
    /\ taken' = taken \cup RowsLeft
    /\ UNCHANGED <<chainVars, pass, sendVars, poll>>

GiveUpStep == \E s \in Sends : Forget(s)
RemoveStep == Remove \/ \E s \in Sends : JudgeRemovable(s)

(* The mempool watcher *)

\* A poll reads its own sends' outputs once, before it asks for any kernel.
StartPoll ==
    /\ ~poll.on
    /\ poll' = [NoPoll EXCEPT !.on = TRUE,
                              !.own = UNION {RowOutputs(s) : s \in {r \in Sends : IsPending(wallet, r)}}]
    /\ UNCHANGED <<chainVars, wallet, pass, sendVars, removing, confirmed, taken>>

\* A kernel of the mempool spends this wallet's coins, and carries no output
\* to this wallet that the snapshot knows as its own.
FindSpend(t) ==
    /\ poll.on /\ poll.tx = NoTx
    /\ t \in live
    /\ Inputs[t] \cap Unspent(wallet) # {}
    /\ Outputs[t] \cap Coin \cap poll.own = {}
    /\ poll' = [poll EXCEPT !.tx = t, !.ins = Inputs[t] \cap Unspent(wallet)]
    /\ UNCHANGED <<chainVars, wallet, pass, sendVars, removing, confirmed, taken>>

RecordSpend ==
    /\ poll.on /\ poll.tx # NoTx
    /\ Write(RecordOutgoing(wallet, poll.tx, poll.ins))
    /\ poll' = [poll EXCEPT !.tx = NoTx, !.ins = {}]
    /\ UNCHANGED <<chainVars, pass, sendVars, removing, taken>>

\* This node's mempool dropped the transaction, or rewrote it; another node
\* may hold it still.
ExpireOutgoing(c) ==
    /\ poll.on /\ poll.tx = NoTx
    /\ wallet.out[c] # NoRow
    /\ Write(ExpireRow(wallet, c))
    /\ UNCHANGED <<chainVars, appVars, taken>>

EndPoll ==
    /\ poll.on /\ poll.tx = NoTx
    /\ poll' = NoPoll
    /\ UNCHANGED <<chainVars, wallet, pass, sendVars, removing, confirmed, taken>>

WatcherStep ==
    \/ StartPoll \/ RecordSpend \/ EndPoll
    \/ \E t \in Tx : FindSpend(t)
    \/ \E c \in Coin : ExpireOutgoing(c)

\* The app is closed or killed: what it had not asked the engine for is gone.
Crash ==
    /\ pass' = NoPass
    /\ poll' = NoPoll
    /\ removing' = NoTx
    /\ review' = {}
    /\ phase' = [s \in Sends |-> IF phase[s] \in {"recorded", "refused", "done"} THEN "done" ELSE "idle"]
    /\ UNCHANGED <<chainVars, wallet, stamp, confirmed, taken>>

Next ==
    \/ Mine \/ Reorg \/ SyncStep \/ Rescan \/ SendStep
    \/ GiveUpStep \/ RemoveStep \/ WatcherStep \/ Crash

Spec == Init /\ [][Next]_vars

(***************************************************************************)
(* Properties                                                              *)
(***************************************************************************)

\* Every variable keeps its shape: an operation of ledger.rs never makes a
\* wallet another operation could not read.
TypeOK ==
    /\ chain \in Seq(Block) /\ reorgs \in Nat /\ live \subseteq Tx
    /\ wallet \in WalletType
    /\ pass \in [on : BOOLEAN, tip : Nat,
                 batch : [from : Nat, blocks : Seq(ScannedBlock), branch : Seq(Block)]]
    /\ phase \in [Sends -> Phase] /\ stamp \in [Sends -> Nat] /\ review \subseteq Sends
    /\ poll \in [on : BOOLEAN, own : SUBSET Commitment, tx : Tx \cup {NoTx}, ins : SUBSET Coin]
    /\ removing \in Sends \cup {NoTx} /\ confirmed \subseteq Sends /\ taken \subseteq Sends

Scanned == wallet.birthday..wallet.synced

\* The blocks kept are an unbroken run that ends at the newest one scanned, so
\* that the fork can be found by halving and the chain's time is known.
KeptIsRun ==
    wallet.linked =>
        /\ wallet.synced \in wallet.kept
        /\ \A k \in wallet.kept : k..wallet.synced \subseteq wallet.kept
        /\ \A k \in wallet.kept : k <= wallet.synced /\ k > wallet.synced - KeepBlocks

\* The coins are those of the blocks scanned and no others, each found and
\* spent at the height where that chain has it: after any rollback, stopped
\* batch or rescan (persist_scan, roll_back, reset_for_rescan); and the blocks
\* kept are the run that a search for a fork needs.
CoinsFollowChain ==
    /\ KeptIsRun
    /\ \A c \in Coin :
           /\ \A h \in Scanned : c \in Mints(wallet.branch[h]) => wallet.conf[c] = h
           /\ Known(wallet, c) => /\ wallet.conf[c] \in Scanned
                                  /\ c \in Mints(wallet.branch[wallet.conf[c]])
           /\ IsUnspent(wallet, c) => \A h \in Scanned : c \notin Spends(wallet.branch[h])
           /\ wallet.spentAt[c] # 0 => /\ Known(wallet, c) /\ wallet.spentAt[c] \in Scanned
                                       /\ c \in Spends(wallet.branch[wallet.spentAt[c]])

\* Every spent coin is accounted for once in History: by a send of this device
\* confirmed at that height, or by the row spent:<height>; and a confirmed
\* send accounts for all of its coins the wallet knows (persist_scan).
HistoryExplainsSpends ==
    /\ \A c \in Coin : wallet.spentAt[c] # 0 =>
          IF wallet.spentBy[c] = NoTx
          THEN <<wallet.spentAt[c], c>> \in wallet.elsewhere
          ELSE \/ wallet.spentBy[c] \in taken
               \/ /\ wallet.row[wallet.spentBy[c]].status = "confirmed"
                  /\ wallet.row[wallet.spentBy[c]].height = wallet.spentAt[c]
    /\ \A p \in wallet.elsewhere : wallet.spentAt[p[2]] = p[1] /\ wallet.spentBy[p[2]] = NoTx
    /\ \A s \in Sends : wallet.row[s].status = "confirmed" =>
          \A c \in Inputs[s] : Known(wallet, c) => wallet.spentAt[c] = wallet.row[s].height

\* A send shows as confirmed at a height exactly when the block scanned there
\* carries it: never for another transaction that spends its coins, and never
\* left waiting or failed once it is in (the "carried" rule of persist_scan).
CreditMatchesChain ==
    \A s \in Sends \ Legacy :
        /\ wallet.row[s].status = "confirmed" =>
              wallet.row[s].height \in Scanned /\ s \in wallet.branch[wallet.row[s].height]
        /\ \A h \in Scanned :
              /\ s \in wallet.branch[h] /\ wallet.row[s].status # "none"
              /\ \E c \in Inputs[s] : Known(wallet, c)
              => wallet.row[s].status = "confirmed" /\ wallet.row[s].height = h

\* A send that went through once never comes to be called expired, though the
\* block that took it be dropped (roll_back's mark, read by expire_sends).
EverConfirmedNeverExpires ==
    \A s \in confirmed : ~wallet.row[s].expired

\* A send the network may hold, none of whose coins this wallet has seen
\* spent, is one the next scan looks out for: it is waiting, or failed in a
\* way that a block can undo (watched_commitments, roll_back, forget_send).
UnsettledIsWatched ==
    \A s \in (live \cap Sends) \ taken :
        (\A c \in Inputs[s] : wallet.spentAt[c] = 0) => IsPending(wallet, s) \/ MayStillGo(wallet, s)

\* No coin of a waiting send is offered to another one, from record_pending
\* until the send settles, across rollbacks and rescans.
HeldWhilePending ==
    \A s \in Sends : IsPending(wallet, s) => Inputs[s] \cap Spendable(wallet) = {}

\* Contradicted by a foreign spend replaced in a block, and by one rolled back:
\* a coin on hold is held for something History shows as waiting, so that it
\* comes free when that settles.
NoOrphanHold ==
    \A c \in Unspent(wallet) : wallet.held[c] # NoTx =>
        \/ \E s \in Sends : IsPending(wallet, s) /\ c \in Inputs[s] /\ wallet.held[c] = s
        \/ \E k \in Coin : /\ wallet.out[k] # NoRow /\ c \in wallet.out[k].ins
                            /\ NodeId[wallet.out[k].tx] = wallet.held[c]

\* A send that expired does not go back to waiting because the mempool shows
\* its coins spent: only a block can bring it back (record_outgoing).
ExpiredOnlyConfirms ==
    [][\A s \in Sends : wallet.row[s].expired => ~IsPending(wallet', s)]_vars

\* Contradicted by a rollback between JudgeRemovable and Remove: a row leaves
\* History only when the node refused the send, when it can no
\* longer go through, or by a rescan once it had settled.
RowsLeaveOnlyWhenDead ==
    [][\A s \in Sends :
          wallet.row[s].status # "none" /\ wallet'.row[s].status = "none" =>
              \/ phase[s] = "refused"
              \/ ~IsPending(wallet, s) /\ ~MayStillGo(wallet, s)]_vars
==============================================================================

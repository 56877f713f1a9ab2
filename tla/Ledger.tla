-------------------------------- MODULE Ledger --------------------------------
(***************************************************************************)
(* crates/vault-core/src/ledger.rs: every change to a wallet's coins,      *)
(* history and scan position.  An operation there reads the wallet as it   *)
(* is and answers the changes; applied in order they make the next wallet. *)
(* So an operation here is a function from wallet to wallet.               *)
(*                                                                         *)
(* A wallet is a record:                                                   *)
(*   conf      height each coin was confirmed at; 0 for a coin not known   *)
(*   spentAt   height each coin was spent at; 0 while unspent              *)
(*   spentBy   the own send a spent coin is credited to, or NoTx           *)
(*   held      pending_txid: whose transaction holds the coin, or NoTx     *)
(*   row       this device's sends, one history row each (key sent:<txid>) *)
(*   out       the watcher's rows outgoing:<first input>, by that input    *)
(*   elsewhere the rows spent:<height>, as pairs <<height, coin>>          *)
(*   kept      heights of the blocks kept for measuring a reorganisation   *)
(*   synced    last height scanned, or NoSync before the first scan        *)
(*   linked    whether synced_hash is known, for the next block to follow  *)
(*   branch    the blocks up to synced: what synced_hash commits to        *)
(*   birthday  where scanning starts; 0 for a wallet made offline          *)
(* Receipts (recv:<coin>) exist exactly while their coin does and carry no *)
(* state of their own; amounts, notes and wording are left out.            *)
(*                                                                         *)
(* A definition whose name another one refines (HeldByNobody beside        *)
(* HeldBy, ForgetAndDrop beside ForgetSend) is that one with a mistake in  *)
(* it, which the properties are there to catch; nothing else uses it.      *)
(***************************************************************************)
EXTENDS NodeChain

CONSTANTS
    NoTx,       \* no transaction: the None of pending_txid and spent_txid
    NoRow,      \* no row under an outgoing key
    NodeId,     \* the mempool's id of a transaction, which nodes rewrite
    Legacy,     \* sends recorded before a row listed its outputs
    Rank,       \* the order of history keys and of coin hashes
    SendLife,   \* SEND_LIFETIME_MS, in blocks
    KeepBlocks  \* how many blocks below the newest are kept

\* Keys are ordered; that every set of them has a first one is the
\* well-ordering of the naturals, stated here for the two sets it is used on.
ASSUME LedgerAssumption ==
    /\ Legacy \subseteq Sends
    /\ NoTx \notin Tx
    /\ \A t \in Tx : NodeId[t] # NoTx /\ NodeId[t] \notin Sends
    /\ NoRow \notin [tx : Tx, ins : SUBSET Coin]
    /\ Rank \in [Sends \cup Coin -> Nat]
    /\ \A S \in (SUBSET Sends) \cup (SUBSET Coin) :
          S # {} => \E x \in S : \A y \in S : Rank[x] <= Rank[y]
    /\ \A S \in SUBSET Sends :
          S # {} => \E x \in S : \A y \in S : Rank[y] <= Rank[x]
    /\ SendLife \in Nat
    /\ KeepBlocks \in Nat \ {0}

NoSync == -1
FirstOf(S) == CHOOSE x \in S : \A y \in S : Rank[x] <= Rank[y]
LastOf(S) == CHOOSE x \in S : \A y \in S : Rank[y] <= Rank[x]

Holder == Sends \cup {NodeId[t] : t \in Tx}
OutRow == [tx : Tx, ins : SUBSET Coin]
SendRow == [status : {"none", "pending", "confirmed", "failed"}, height : Nat,
            givenUp : BOOLEAN, expired : BOOLEAN, rolledBack : BOOLEAN, stamp : Nat]

WalletType ==
    [conf : [Coin -> Nat], spentAt : [Coin -> Nat],
     spentBy : [Coin -> Sends \cup {NoTx}], held : [Coin -> Holder \cup {NoTx}],
     row : [Sends -> SendRow], out : [Coin -> OutRow \cup {NoRow}],
     elsewhere : SUBSET (Nat \X Coin), kept : SUBSET Nat,
     synced : Nat \cup {NoSync}, linked : BOOLEAN, branch : Seq(Block), birthday : Nat]

\* No history row: what a send has before recordPending and after its row is dropped.
NoSend == [status |-> "none", height |-> 0, givenUp |-> FALSE, expired |-> FALSE,
           rolledBack |-> FALSE, stamp |-> 0]

NewWallet(birthday) ==
    [conf |-> [c \in Coin |-> 0], spentAt |-> [c \in Coin |-> 0],
     spentBy |-> [c \in Coin |-> NoTx], held |-> [c \in Coin |-> NoTx],
     row |-> [s \in Sends |-> NoSend], out |-> [c \in Coin |-> NoRow],
     elsewhere |-> {}, kept |-> {}, synced |-> NoSync, linked |-> FALSE,
     branch |-> <<>>, birthday |-> birthday]

(* Reading *)

Known(w, c) == w.conf[c] # 0
IsUnspent(w, c) == Known(w, c) /\ w.spentAt[c] = 0
Unspent(w) == {c \in Coin : IsUnspent(w, c)}
Spendable(w) == {c \in Unspent(w) : w.held[c] = NoTx}

IsPending(w, s) == w.row[s].status = "pending"
GivenUp(w, s) == w.row[s].status = "failed" /\ (w.row[s].givenUp \/ w.row[s].expired)
MayStillGo(w, s) == GivenUp(w, s) /\ \A c \in Inputs[s] : ~(Known(w, c) /\ w.spentAt[c] # 0)

RowOutputs(s) == IF s \in Legacy THEN {} ELSE Outputs[s]
WatchedCommitments(w) ==
    UNION {RowOutputs(s) : s \in {r \in Sends : IsPending(w, r) \/ MayStillGo(w, r)}}

\* The pending rows a coin written afresh is held for: the last key wins.
HeldByNobody(w, c) == NoTx
HeldBy(w, c) ==
    LET holders == {s \in Sends : IsPending(w, s) /\ c \in Inputs[s]}
    IN  IF holders = {} THEN NoTx ELSE LastOf(holders)

(* Holding and letting go *)

\* release_inputs of every send of S: each coin has one holder, so the order is no matter.
Release(w, S) ==
    [w EXCEPT !.held = [c \in Coin |->
        IF IsUnspent(w, c) /\ \E s \in S : c \in Inputs[s] /\ w.held[c] = s
        THEN NoTx ELSE w.held[c]]]

SetHold(w, coins, from, to) ==
    [w EXCEPT !.held = [c \in Coin |->
        IF c \in coins /\ IsUnspent(w, c) /\ w.held[c] = from THEN to ELSE w.held[c]]]

Revived(row, status, height) ==
    [row EXCEPT !.status = status, !.height = height, !.givenUp = FALSE, !.expired = FALSE]

FailedUnmarked(row, how) == [row EXCEPT !.status = "failed"]
FailedAs(row, how) == [row EXCEPT !.status = how]
Failed(row, how) ==
    [row EXCEPT !.status = "failed",
                !.givenUp = @ \/ how = "givenUp", !.expired = @ \/ how = "expired"]

(* Scanning: a block as scan_blocks answers it, and persist_scan writes it *)

ScannedBlock == [incoming : SUBSET Coin, spent : SUBSET Coin, seen : SUBSET Commitment]

ScanOf(b, unspent, watch) ==
    [incoming |-> Mints(b), spent |-> Spends(b) \cap unspent, seen |-> Carries(b) \cap watch]

\* A second block of the batch is scanned for the coins the first one left.
After(unspent, scanned) == (unspent \ scanned.spent) \cup scanned.incoming

\* New coins.  `from` is the wallet the whole batch started from: held_by is read there.
Receive(w, from, h, coins) ==
    [w EXCEPT !.conf = [c \in Coin |-> IF c \in coins THEN h ELSE w.conf[c]],
              !.held = [c \in Coin |-> IF c \in coins /\ ~Known(w, c)
                                       THEN HeldBy(from, c) ELSE w.held[c]]]

\* The sends of this device a block is taken to carry.
CarriedByCoins(w, b) ==
    {s \in Sends : (IsPending(w, s) \/ GivenUp(w, s)) /\ Inputs[s] \cap b.spent # {}}
Carried(w, b) ==
    {s \in Sends :
        /\ IsPending(w, s) \/ GivenUp(w, s)
        /\ Inputs[s] \cap b.spent # {}
        /\ IF RowOutputs(s) = {}
           THEN IsPending(w, s) /\ \E c \in Inputs[s] \cap b.spent : Known(w, c) /\ w.held[c] = s
           ELSE /\ \A c \in Inputs[s] : c \in b.spent \/ ~Known(w, c)
                /\ RowOutputs(s) \subseteq b.seen}

\* The send a spent coin is credited to.
CreditedTo(carried, c) ==
    LET spenders == {s \in carried : c \in Inputs[s]}
    IN  IF spenders = {} THEN NoTx ELSE FirstOf(spenders)

\* Pending sends that can no longer go through: the block spends a coin of theirs.
LostTo(w, carried, gone) ==
    {s \in Sends : IsPending(w, s) /\ s \notin carried /\ Inputs[s] \cap gone # {}}

\* Confirming a pending row clears marks it does not have, so one form serves both kinds.
Settle(w, carried, gone, h) ==
    LET lost == LostTo(w, carried, gone)
        elsewhere == {c \in gone : CreditedTo(carried, c) = NoTx}
    IN  [w EXCEPT
            !.spentAt = [c \in Coin |-> IF c \in gone THEN h ELSE w.spentAt[c]],
            !.spentBy = [c \in Coin |-> IF c \in gone THEN CreditedTo(carried, c) ELSE w.spentBy[c]],
            !.held = [c \in Coin |-> IF c \in gone THEN CreditedTo(carried, c)
                                     ELSE IF IsUnspent(w, c) /\ w.held[c] \in lost THEN NoTx
                                     ELSE w.held[c]],
            !.row = [s \in Sends |-> IF s \in carried THEN Revived(w.row[s], "confirmed", h)
                                     ELSE IF s \in lost THEN [w.row[s] EXCEPT !.status = "failed", !.height = h]
                                     ELSE w.row[s]],
            !.elsewhere = IF elsewhere = {} THEN @ ELSE {p \in @ : p[1] # h} \cup ({h} \X elsewhere),
            !.kept = @ \cup {h}]

\* The watcher's rows for a coin the block spent, whoever spent it.
DropStale(w, spent) ==
    [w EXCEPT !.out = [c \in Coin |->
        IF w.out[c] # NoRow /\ w.out[c].ins \cap spent # {} THEN NoRow ELSE w.out[c]]]

WriteBlock(w, from, h, b) ==
    LET got == Receive(w, from, h, b.incoming)
        settled == Settle(got, Carried(got, b), {c \in b.spent : Known(got, c)}, h)
    IN  DropStale(settled, b.spent)

\* A batch here is one block or two: enough for one to depend on the other.
MaxBatch == 2

WriteBlocks(w, h, blocks) ==
    IF Len(blocks) = 1
    THEN WriteBlock(w, w, h, blocks[1])
    ELSE WriteBlock(WriteBlock(w, w, h, blocks[1]), w, h + 1, blocks[2])

PersistScan(w, h, blocks, branch) ==
    LET last == h + Len(blocks) - 1
    IN  [WriteBlocks(w, h, blocks) EXCEPT
            !.kept = {k \in @ : k > last - KeepBlocks},
            !.synced = last, !.linked = TRUE, !.branch = branch]

(* Where a pass starts, and going back *)

\* The start height of a wallet that was never scanned; the hint is the app's.
Started(w, tip, hint) ==
    IF w.synced = NoSync /\ (w.birthday = 0 \/ w.birthday > tip)
    THEN [w EXCEPT !.birthday = IF w.birthday = 0 /\ hint \in 1..tip THEN hint ELSE tip]
    ELSE w

Position(w) == IF w.synced = NoSync THEN w.birthday - 1 ELSE w.synced

ForkCandidates(w) == {k \in w.kept : k < w.synced}

\* What a rollback to h undoes: coins found above it, coins spent above it,
\* and the rows of sends that settled above it.
CoinsAbove(w, h) == {c \in Coin : w.conf[c] > h}
SpentAbove(w, h) == {c \in Coin : w.conf[c] <= h /\ w.spentAt[c] > h}
RowsFrom(w, h) == {s \in Sends : w.row[s].status # "none" /\ w.row[s].height >= h}
RowsAbove(w, h) == {s \in Sends : w.row[s].status # "none" /\ w.row[s].height > h}
KeptUpTo(w, h) == {k \in w.kept : k <= h}

\* Coins found above h are deleted, so nothing of them is left; a send goes
\* back to waiting and takes again those of its coins nobody else holds.
RollBack(w, h, linked) ==
    LET gone == CoinsAbove(w, h)
        unspent == SpentAbove(w, h)
        back == RowsAbove(w, h)
        holder(c) == LET owners == {s \in back : c \in Inputs[s]}
                     IN  IF owners = {} THEN NoTx ELSE FirstOf(owners)
    IN  [w EXCEPT
            !.conf = [c \in Coin |-> IF c \in gone THEN 0 ELSE w.conf[c]],
            !.spentAt = [c \in Coin |-> IF c \in gone \cup unspent THEN 0 ELSE w.spentAt[c]],
            !.spentBy = [c \in Coin |-> IF c \in gone \cup unspent THEN NoTx ELSE w.spentBy[c]],
            !.held = [c \in Coin |->
                IF c \in gone THEN NoTx
                ELSE IF w.held[c] = NoTx /\ (IsUnspent(w, c) \/ c \in unspent) THEN holder(c)
                ELSE w.held[c]],
            !.row = [s \in Sends |->
                IF s \in back
                THEN [w.row[s] EXCEPT !.status = "pending", !.height = 0,
                                      !.rolledBack = @ \/ w.row[s].status = "confirmed"]
                ELSE w.row[s]],
            !.elsewhere = {e \in @ : e[1] <= h},
            !.kept = KeptUpTo(w, h),
            !.synced = h, !.linked = linked,
            !.branch = IF h <= Len(@) THEN UpTo(@, h) ELSE @]

\* Everything scanning found goes; sends that have not settled stay.
ResetKeepingCoins(w, height) ==
    [w EXCEPT !.birthday = height, !.synced = NoSync, !.linked = FALSE, !.kept = {}, !.branch = <<>>]
ResetForRescan(w, height) ==
    [NewWallet(height) EXCEPT !.row = [s \in Sends |->
        IF IsPending(w, s) \/ GivenUp(w, s) THEN w.row[s] ELSE NoSend]]

(* Sends *)

RecordPending(w, s, stamp) ==
    [w EXCEPT !.held = [c \in Coin |-> IF c \in Inputs[s] /\ Known(w, c) THEN s ELSE w.held[c]],
              !.row[s] = [NoSend EXCEPT !.status = "pending", !.stamp = stamp]]

DropRow(w, s) == [w EXCEPT !.row[s] = NoSend]

DiscardPending(w, s) ==
    IF w.row[s].status = "none" THEN w ELSE DropRow(Release(w, {s}), s)

ForgetSend(w, s) ==
    IF IsPending(w, s) THEN [Release(w, {s}) EXCEPT !.row[s] = Failed(@, "givenUp")] ELSE w

\* Blocks are stamped with their height: chain_time is the height of the
\* newest block scanned, when that block is still kept.
ChainTimeKnown(w) == w.synced \in w.kept

OverdueUnmarked(w) ==
    {s \in Sends : IsPending(w, s) /\ ChainTimeKnown(w) /\ w.synced > w.row[s].stamp + SendLife}
Overdue(w) ==
    {s \in Sends : /\ IsPending(w, s) /\ ~w.row[s].rolledBack
                   /\ ChainTimeKnown(w) /\ w.synced > w.row[s].stamp + SendLife}

ExpireSends(w) ==
    [Release(w, Overdue(w)) EXCEPT !.row = [s \in Sends |->
        IF s \in Overdue(w) THEN Failed(w.row[s], "expired") ELSE w.row[s]]]

(* The mempool *)

\* A transaction in the mempool spends these coins, and is not one this
\* device is known to have made.
AnyRow(row) == TRUE
Revivable(row) == ~row.expired
RecordOutgoing(w, t, ins) ==
    LET key == FirstOf(ins)
        ours == {c \in ins : Known(w, c) /\ \E s \in Sends : w.held[c] = s /\ IsPending(w, s)}
        givenUpOn(c) == {s \in Sends : c \in Inputs[s] /\ MayStillGo(w, s)}
        shared == {c \in ins : givenUpOn(c) # {}}
        sent == FirstOf(givenUpOn(FirstOf(shared)))
    IN  IF w.out[key] # NoRow \/ ours = ins THEN w
        ELSE IF shared # {} /\ Revivable(w.row[sent])
        THEN SetHold([w EXCEPT !.row[sent] = Revived(@, "pending", 0)], Inputs[sent], NoTx, sent)
        ELSE SetHold([w EXCEPT !.out[key] = [tx |-> t, ins |-> ins]], ins, NoTx, NodeId[t])

ExpireRow(w, key) ==
    IF w.out[key] = NoRow THEN w
    ELSE SetHold([w EXCEPT !.out[key] = NoRow], w.out[key].ins, NodeId[w.out[key].tx], NoTx)
==============================================================================

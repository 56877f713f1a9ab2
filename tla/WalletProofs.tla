----------------------------- MODULE WalletProofs -----------------------------
(***************************************************************************)
(* Proofs about Ledger and Wallet for every set of sends, coins and        *)
(* transactions, every chain, any number of blocks and reorganisations,    *)
(* and every interleaving of the sync, the sends, the person and the       *)
(* watcher: what a send that was confirmed can become, that the wallet's   *)
(* coins are those of the chain it scanned, and that its sends are         *)
(* confirmed where that chain carries them.                                *)
(***************************************************************************)
EXTENDS Wallet, SequenceTheorems, TLAPS

USE DEF NoSync

\* The first key of a nonempty set is one of the set (sorted history keys).
LEMMA FirstOfMember ==
    ASSUME NEW S \in (SUBSET Sends) \cup (SUBSET Coin), S # {}
    PROVE  FirstOf(S) \in S
BY LedgerAssumption DEF FirstOf

LEMMA LastOfMember ==
    ASSUME NEW S \in SUBSET Sends, S # {}
    PROVE  LastOf(S) \in S
BY LedgerAssumption DEF LastOf

\* A wallet just made, or just reset, is a wallet.
LEMMA NewWalletType ==
    ASSUME NEW h \in Nat
    PROVE  NewWallet(h) \in WalletType
BY DEF NewWallet, WalletType, NoSend, SendRow

LEMMA ReleaseType ==
    ASSUME NEW w \in WalletType, NEW S
    PROVE  Release(w, S) \in WalletType
BY DEF Release, WalletType

LEMMA SetHoldType ==
    ASSUME NEW w \in WalletType, NEW coins, NEW from, NEW to \in Holder \cup {NoTx}
    PROVE  SetHold(w, coins, from, to) \in WalletType
BY DEF SetHold, WalletType

LEMMA HeldByType ==
    ASSUME NEW w \in WalletType, NEW c \in Coin
    PROVE  HeldBy(w, c) \in Holder \cup {NoTx}
<1> DEFINE holders == {s \in Sends : IsPending(w, s) /\ c \in Inputs[s]}
<1>1. holders # {} => LastOf(holders) \in Sends
  BY LastOfMember
<1> QED BY <1>1 DEF HeldBy, Holder

LEMMA ReceiveType ==
    ASSUME NEW w \in WalletType, NEW from \in WalletType, NEW h \in Nat, NEW coins
    PROVE  Receive(w, from, h, coins) \in WalletType
<1>1. \A c \in Coin : HeldBy(from, c) \in Holder \cup {NoTx}
  BY HeldByType
<1> QED BY <1>1 DEF Receive, WalletType

\* What a scan, a rollback and a person do to a history row leaves it a row.
LEMMA RevivedType ==
    ASSUME NEW row \in SendRow, NEW status \in {"pending", "confirmed"}, NEW h \in Nat
    PROVE  Revived(row, status, h) \in SendRow
BY DEF Revived, SendRow

LEMMA LostType ==
    ASSUME NEW row \in SendRow, NEW h \in Nat
    PROVE  [row EXCEPT !.status = "failed", !.height = h] \in SendRow
BY DEF SendRow

LEMMA RolledBackType ==
    ASSUME NEW row \in SendRow, NEW mark \in BOOLEAN
    PROVE  [row EXCEPT !.status = "pending", !.height = 0, !.rolledBack = mark] \in SendRow
BY DEF SendRow

LEMMA CreditedToType ==
    ASSUME NEW carried \in SUBSET Sends, NEW c
    PROVE  CreditedTo(carried, c) \in Sends \cup {NoTx}
<1> DEFINE spenders == {s \in carried : c \in Inputs[s]}
<1>1. spenders # {} => FirstOf(spenders) \in Sends
  BY FirstOfMember
<1> QED BY <1>1 DEF CreditedTo

LEMMA SettleType ==
    ASSUME NEW w \in WalletType, NEW carried \in SUBSET Sends, NEW gone \in SUBSET Coin, NEW h \in Nat
    PROVE  Settle(w, carried, gone, h) \in WalletType
<1> DEFINE lost == LostTo(w, carried, gone)
           elsewhere == {c \in gone : CreditedTo(carried, c) = NoTx}
           rows == [s \in Sends |-> IF s \in carried THEN Revived(w.row[s], "confirmed", h)
                                    ELSE IF s \in lost THEN [w.row[s] EXCEPT !.status = "failed", !.height = h]
                                    ELSE w.row[s]]
<1>1. \A c \in Coin : CreditedTo(carried, c) \in Sends \cup {NoTx}
  BY CreditedToType
<1>2. rows \in [Sends -> SendRow]
  <2> SUFFICES ASSUME NEW s \in Sends
               PROVE  rows[s] \in SendRow
    OBVIOUS
  <2>1. w.row[s] \in SendRow
    BY DEF WalletType
  <2>2. Revived(w.row[s], "confirmed", h) \in SendRow
    BY <2>1, RevivedType
  <2>3. [w.row[s] EXCEPT !.status = "failed", !.height = h] \in SendRow
    BY <2>1, LostType
  <2> QED BY <2>1, <2>2, <2>3
<1>3. ({h} \X elsewhere) \subseteq Nat \X Coin
  OBVIOUS
<1>4. w.elsewhere \subseteq Nat \X Coin /\ w.kept \subseteq Nat
  BY DEF WalletType
<1>5. [c \in Coin |-> IF c \in gone THEN h ELSE w.spentAt[c]] \in [Coin -> Nat]
  BY DEF WalletType
<1>6. [c \in Coin |-> IF c \in gone THEN CreditedTo(carried, c) ELSE w.spentBy[c]]
        \in [Coin -> Sends \cup {NoTx}]
  BY <1>1 DEF WalletType
<1>7. [c \in Coin |-> IF c \in gone THEN CreditedTo(carried, c)
                      ELSE IF IsUnspent(w, c) /\ w.held[c] \in lost THEN NoTx
                      ELSE w.held[c]] \in [Coin -> Holder \cup {NoTx}]
  BY <1>1 DEF WalletType, Holder
<1> HIDE DEF lost, elsewhere, rows
<1> QED BY <1>2, <1>3, <1>4, <1>5, <1>6, <1>7 DEF Settle, WalletType, lost, elsewhere, rows

LEMMA WriteBlockType ==
    ASSUME NEW w \in WalletType, NEW from \in WalletType, NEW h \in Nat, NEW b \in ScannedBlock
    PROVE  WriteBlock(w, from, h, b) \in WalletType
<1> DEFINE got == Receive(w, from, h, b.incoming)
           gone == {c \in b.spent : Known(got, c)}
           settled == Settle(got, Carried(got, b), gone, h)
<1>1. got \in WalletType
  BY ReceiveType
<1>2. Carried(got, b) \in SUBSET Sends /\ gone \in SUBSET Coin
  BY DEF Carried, ScannedBlock
<1>3. settled \in WalletType
  <2> HIDE DEF got, gone
  <2> QED BY <1>1, <1>2, SettleType
<1>4. DropStale(settled, b.spent) \in WalletType
  <2> HIDE DEF settled
  <2> QED BY <1>3 DEF DropStale, WalletType
<1> QED BY <1>4 DEF WriteBlock

LEMMA PersistScanType ==
    ASSUME NEW w \in WalletType, NEW h \in Nat \ {0}, NEW blocks \in Seq(ScannedBlock),
           Len(blocks) \in 1..2, NEW branch \in Seq(Block)
    PROVE  PersistScan(w, h, blocks, branch) \in WalletType
<1> DEFINE v == WriteBlocks(w, h, blocks)
<1>1. v \in WalletType
  <2>1. CASE Len(blocks) = 1
    <3>1. blocks[1] \in ScannedBlock
      BY <2>1
    <3> QED BY <2>1, <3>1, WriteBlockType DEF WriteBlocks
  <2>2. CASE Len(blocks) = 2
    <3>1. 1 \in 1..Len(blocks) /\ 2 \in 1..Len(blocks)
      BY <2>2
    <3>2. blocks[1] \in ScannedBlock /\ blocks[2] \in ScannedBlock
      BY <3>1
    <3>3. WriteBlock(w, w, h, blocks[1]) \in WalletType
      BY <3>2, WriteBlockType
    <3>4. WriteBlock(WriteBlock(w, w, h, blocks[1]), w, h + 1, blocks[2]) \in WalletType
      BY <3>2, <3>3, WriteBlockType
    <3> QED BY <2>2, <3>4 DEF WriteBlocks
  <2> QED BY <2>1, <2>2
<1>2. h + Len(blocks) - 1 \in Nat
  OBVIOUS
<1> HIDE DEF v
<1>3. {k \in v.kept : k > h + Len(blocks) - 1 - KeepBlocks} \in SUBSET Nat
  BY <1>1 DEF WalletType
<1> QED BY <1>1, <1>2, <1>3 DEF PersistScan, WalletType, v

LEMMA StartedType ==
    ASSUME NEW w \in WalletType, NEW tip \in Nat, NEW hint \in Nat
    PROVE  Started(w, tip, hint) \in WalletType
BY DEF Started, WalletType

LEMMA RollBackType ==
    ASSUME NEW w \in WalletType, NEW h \in Nat, NEW linked \in BOOLEAN
    PROVE  RollBack(w, h, linked) \in WalletType
<1> DEFINE back == RowsAbove(w, h)
           owners(c) == {s \in back : c \in Inputs[s]}
           holder(c) == IF owners(c) = {} THEN NoTx ELSE FirstOf(owners(c))
           gone == CoinsAbove(w, h)
           unspent == SpentAbove(w, h)
<1>1. \A c : holder(c) \in Sends \cup {NoTx}
  <2> TAKE c
  <2>1. owners(c) \in SUBSET Sends
    BY DEF RowsAbove
  <2>2. owners(c) # {} => FirstOf(owners(c)) \in owners(c)
    BY <2>1, FirstOfMember
  <2> QED BY <2>1, <2>2
<1> HIDE DEF holder
<1>2. [c \in Coin |-> IF c \in gone THEN NoTx
                      ELSE IF w.held[c] = NoTx /\ (IsUnspent(w, c) \/ c \in unspent) THEN holder(c)
                      ELSE w.held[c]] \in [Coin -> Holder \cup {NoTx}]
  BY <1>1 DEF WalletType, Holder
<1>3. [s \in Sends |-> IF s \in back
                       THEN [w.row[s] EXCEPT !.status = "pending", !.height = 0,
                                  !.rolledBack = @ \/ w.row[s].status = "confirmed"]
                       ELSE w.row[s]] \in [Sends -> SendRow]
  BY RolledBackType DEF WalletType
<1>4. w.branch \in Seq(Block)
  BY DEF WalletType
<1>5. h <= Len(w.branch) => UpTo(w.branch, h) \in Seq(Block)
  BY <1>4 DEF UpTo
<1>6. {e \in w.elsewhere : e[1] <= h} \in SUBSET (Nat \X Coin) /\ KeptUpTo(w, h) \in SUBSET Nat
  BY DEF WalletType, KeptUpTo
<1>7. /\ [c \in Coin |-> IF c \in gone THEN 0 ELSE w.conf[c]] \in [Coin -> Nat]
      /\ [c \in Coin |-> IF c \in gone \cup unspent THEN 0 ELSE w.spentAt[c]] \in [Coin -> Nat]
      /\ [c \in Coin |-> IF c \in gone \cup unspent THEN NoTx ELSE w.spentBy[c]]
            \in [Coin -> Sends \cup {NoTx}]
  BY DEF WalletType
<1> QED BY <1>2, <1>3, <1>4, <1>5, <1>6, <1>7 DEF RollBack, WalletType, holder

LEMMA ResetForRescanType ==
    ASSUME NEW w \in WalletType, NEW h \in Nat
    PROVE  ResetForRescan(w, h) \in WalletType
<1>1. NoSend \in SendRow
  BY DEF NoSend, SendRow
<1> QED BY <1>1, NewWalletType DEF ResetForRescan, WalletType

LEMMA RecordPendingType ==
    ASSUME NEW w \in WalletType, NEW s \in Sends, NEW at \in Nat
    PROVE  RecordPending(w, s, at) \in WalletType
<1>1. [NoSend EXCEPT !.status = "pending", !.stamp = at] \in SendRow
  BY DEF NoSend, SendRow
<1> QED BY <1>1 DEF RecordPending, WalletType, Holder

LEMMA DropRowType ==
    ASSUME NEW w \in WalletType, NEW s \in Sends
    PROVE  DropRow(w, s) \in WalletType
<1>1. NoSend \in SendRow
  BY DEF NoSend, SendRow
<1> QED BY <1>1 DEF DropRow, WalletType

LEMMA FailedType ==
    ASSUME NEW row \in SendRow, NEW how
    PROVE  Failed(row, how) \in SendRow
BY DEF Failed, SendRow

LEMMA DiscardPendingType ==
    ASSUME NEW w \in WalletType, NEW s \in Sends
    PROVE  DiscardPending(w, s) \in WalletType
BY ReleaseType, DropRowType DEF DiscardPending

LEMMA ForgetSendType ==
    ASSUME NEW w \in WalletType, NEW s \in Sends
    PROVE  ForgetSend(w, s) \in WalletType
<1> DEFINE v == Release(w, {s})
<1>1. v \in WalletType
  BY ReleaseType
<1> HIDE DEF v
<1>2. Failed(v.row[s], "givenUp") \in SendRow
  BY <1>1, FailedType DEF WalletType
<1>3. [v EXCEPT !.row[s] = Failed(@, "givenUp")] \in WalletType
  BY <1>1, <1>2 DEF WalletType
<1> QED BY <1>3 DEF ForgetSend, v

LEMMA ExpireSendsType ==
    ASSUME NEW w \in WalletType
    PROVE  ExpireSends(w) \in WalletType
<1> DEFINE v == Release(w, Overdue(w))
           rows == [s \in Sends |-> IF s \in Overdue(w) THEN Failed(w.row[s], "expired") ELSE w.row[s]]
<1>1. v \in WalletType
  BY ReleaseType
<1>2. rows \in [Sends -> SendRow]
  BY FailedType DEF WalletType
<1> HIDE DEF v, rows
<1>3. [v EXCEPT !.row = rows] \in WalletType
  BY <1>1, <1>2 DEF WalletType
<1> QED BY <1>3 DEF ExpireSends, v, rows

LEMMA ExpireRowType ==
    ASSUME NEW w \in WalletType, NEW key \in Coin
    PROVE  ExpireRow(w, key) \in WalletType
<1>1. [w EXCEPT !.out[key] = NoRow] \in WalletType
  BY DEF WalletType
<1> QED BY <1>1, SetHoldType DEF ExpireRow

\* A mempool kernel that spends coins of this wallet is written down as a row
\* of its own, or wakes the send of this device that was given up on.
LEMMA RecordOutgoingType ==
    ASSUME NEW w \in WalletType, NEW t \in Tx, NEW ins \in (SUBSET Coin) \ {{}}
    PROVE  RecordOutgoing(w, t, ins) \in WalletType
<1> DEFINE key == FirstOf(ins)
           givenUpOn(c) == {s \in Sends : c \in Inputs[s] /\ MayStillGo(w, s)}
           shared == {c \in ins : givenUpOn(c) # {}}
           sent == FirstOf(givenUpOn(FirstOf(shared)))
           revived == [w EXCEPT !.row[sent] = Revived(@, "pending", 0)]
           seen == [w EXCEPT !.out[key] = [tx |-> t, ins |-> ins]]
<1>1. key \in Coin
  BY FirstOfMember
<1>2. NodeId[t] \in Holder \cup {NoTx}
  BY DEF Holder
<1>3. SetHold(seen, ins, NoTx, NodeId[t]) \in WalletType
  <2>1. [tx |-> t, ins |-> ins] \in OutRow
    BY DEF OutRow
  <2>2. seen \in WalletType
    BY <1>1, <2>1 DEF WalletType
  <2> HIDE DEF seen
  <2> QED BY <1>2, <2>2, SetHoldType
<1>4. shared # {} => SetHold(revived, Inputs[sent], NoTx, sent) \in WalletType
  <2> SUFFICES ASSUME shared # {}
               PROVE  SetHold(revived, Inputs[sent], NoTx, sent) \in WalletType
    OBVIOUS
  <2>1. FirstOf(shared) \in shared
    BY FirstOfMember
  <2>2. givenUpOn(FirstOf(shared)) # {}
    BY <2>1
  <2>3. sent \in Sends
    <3> HIDE DEF shared
    <3> QED BY <2>2, FirstOfMember
  <2> HIDE DEF sent
  <2>4. Revived(w.row[sent], "pending", 0) \in SendRow
    BY <2>3, RevivedType DEF WalletType
  <2>5. revived \in WalletType
    BY <2>3, <2>4 DEF WalletType
  <2> HIDE DEF revived
  <2> QED BY <2>3, <2>5, SetHoldType DEF Holder
<1> HIDE DEF key, shared, sent, revived, seen
<1> QED BY <1>3, <1>4 DEF RecordOutgoing, key, shared, sent, revived, seen

(* The inductive invariant *)

\* What a pass and a poll rely on while they run: a start height, a hash only
\* with a height, a batch of one or two blocks, a spend of at least one coin.
Working ==
    /\ chain # <<>>
    /\ pass.on \/ wallet.synced # NoSync => wallet.birthday # 0
    /\ wallet.linked => wallet.synced # NoSync
    /\ pass.batch # NoBatch => /\ pass.on /\ pass.batch.from # 0
                               /\ Len(pass.batch.blocks) \in 1..MaxBatch
    /\ poll.tx # NoTx => poll.ins # {}

\* A row waits at no height, and only a failed row that no block decided is expired.
RowOK(row) ==
    /\ row.status = "pending" => row.height = 0
    /\ row.expired => row.status = "failed" /\ row.height = 0

\* A send once confirmed is confirmed still, or carries the mark of a rollback.
Marked(row) == row.status = "confirmed" \/ row.rolledBack

Marks ==
    \A s \in Sends :
        /\ RowOK(wallet.row[s])
        /\ s \in confirmed => Marked(wallet.row[s]) /\ ~wallet.row[s].expired
        /\ phase[s] \in {"idle", "reviewed", "planned", "built"} => wallet.row[s].status = "none"

IInv == TypeOK /\ Working /\ Marks

LEMMA WriteType ==
    ASSUME TypeOK, NEW w \in WalletType, Write(w)
    PROVE  wallet' \in WalletType /\ confirmed' \subseteq Sends
BY DEF TypeOK, Write

LEMMA NoPassType ==
    NoPass \in [on : BOOLEAN, tip : Nat,
                batch : [from : Nat, blocks : Seq(ScannedBlock), branch : Seq(Block)]]
BY DEF NoPass, NoBatch

LEMMA NoPollType ==
    NoPoll \in [on : BOOLEAN, own : SUBSET Commitment, tx : Tx \cup {NoTx}, ins : SUBSET Coin]
BY DEF NoPoll

LEMMA InitShape == Init => TypeOK /\ Working
<1> SUFFICES ASSUME Init PROVE TypeOK /\ Working
  OBVIOUS
<1>1. PICK b \in Birthdays : wallet = NewWallet(b)
  BY DEF Init
<1>2. b \in Nat /\ wallet \in WalletType
  BY <1>1, NewWalletType, WalletAssumption
<1>3. TypeOK
  BY <1>2, NoPassType, NoPollType, WalletAssumption, TxAssumption DEF Init, TypeOK, Phase
<1>4. Working
  BY <1>1, WalletAssumption DEF Init, Working, NoPass, NoPoll, NoBatch, NewWallet
<1> QED BY <1>3, <1>4

(* The chain *)

LEMMA MineShape == TypeOK /\ Working /\ Mine => TypeOK' /\ Working'
<1> SUFFICES ASSUME TypeOK, Working, Mine PROVE TypeOK' /\ Working'
  OBVIOUS
<1>1. chain' \in Seq(Block) /\ chain' # <<>>
  <2>1. PICK b \in SUBSET live : chain' = Append(chain, b)
    BY DEF Mine
  <2>2. b \in Block /\ chain \in Seq(Block)
    BY <2>1 DEF TypeOK, Block
  <2> QED BY <2>1, <2>2
<1> QED BY <1>1 DEF TypeOK, Working, Mine, appVars, sendVars

LEMMA ReorgShape == TypeOK /\ Working /\ Reorg => TypeOK' /\ Working'
<1> SUFFICES ASSUME TypeOK, Working, Reorg PROVE TypeOK' /\ Working'
  OBVIOUS
<1>1. PICK k \in 1..MaxDepth : k < Len(chain) /\ chain' = UpTo(chain, Len(chain) - k)
  BY DEF Reorg
<1>2. chain \in Seq(Block) /\ k \in Nat /\ Len(chain) - k \in 1..Len(chain)
  BY <1>1, WalletAssumption DEF TypeOK
<1>3. chain' \in Seq(Block) /\ Len(chain') = Len(chain) - k
  BY <1>1, <1>2 DEF UpTo
<1>4. chain' # <<>>
  BY <1>2, <1>3
<1>5. reorgs' \in Nat
  BY DEF TypeOK, Reorg
<1> QED BY <1>3, <1>4, <1>5 DEF TypeOK, Working, Reorg, appVars, sendVars

(* The sync *)

LEMMA StartPassShape == TypeOK /\ Working /\ StartPass => TypeOK' /\ Working'
<1> SUFFICES ASSUME TypeOK, Working, StartPass PROVE TypeOK' /\ Working'
  OBVIOUS
<1> DEFINE tip == Len(chain)
<1>1. PICK hint \in 0..tip : Write(Started(wallet, tip, hint))
  BY DEF StartPass
<1>2. tip \in Nat /\ tip # 0 /\ hint \in Nat /\ wallet \in WalletType
  BY DEF TypeOK, Working
<1>3. Started(wallet, tip, hint) \in WalletType
  BY <1>2, StartedType
<1>4. wallet' \in WalletType /\ confirmed' \subseteq Sends
  BY <1>1, <1>3, WriteType
<1>5. wallet' = Started(wallet, tip, hint)
  BY <1>1 DEF Write
<1>6. pass' = [on |-> TRUE, tip |-> tip, batch |-> NoBatch]
  BY DEF StartPass
<1>7. wallet'.birthday # 0 /\ wallet'.synced = wallet.synced /\ wallet'.linked = wallet.linked
  BY <1>2, <1>5 DEF Started, WalletType, Working
<1>8. TypeOK'
  BY <1>2, <1>4, <1>6 DEF TypeOK, StartPass, chainVars, sendVars, NoBatch
<1>9. Working'
  BY <1>6, <1>7 DEF Working, StartPass, chainVars, sendVars
<1> QED BY <1>8, <1>9

LEMMA RollBackShape == TypeOK /\ Working /\ RollBackIfForked => TypeOK' /\ Working'
<1> SUFFICES ASSUME TypeOK, Working, RollBackIfForked PROVE TypeOK' /\ Working'
  OBVIOUS
<1>1. wallet \in WalletType /\ wallet.synced # NoSync /\ wallet.birthday # 0
  BY DEF TypeOK, Working, RollBackIfForked, Forked
<1>2. PICK h \in Nat, linked \in BOOLEAN : Write(RollBack(wallet, h, linked))
  <2>1. wallet.birthday - 1 \in Nat
    BY <1>1 DEF WalletType
  <2>2. ForkCandidates(wallet) \subseteq Nat
    BY <1>1 DEF WalletType, ForkCandidates
  <2> QED BY <2>1, <2>2 DEF RollBackIfForked
<1>3. RollBack(wallet, h, linked) \in WalletType
  BY <1>1, RollBackType
<1>4. wallet' \in WalletType /\ confirmed' \subseteq Sends
  BY <1>2, <1>3, WriteType
<1>5. wallet'.synced = h /\ wallet'.birthday = wallet.birthday
  BY <1>1, <1>2 DEF Write, RollBack, WalletType
<1>6. pass' = [on |-> TRUE, tip |-> IF pass.on THEN pass.tip ELSE Len(chain), batch |-> NoBatch]
  BY DEF RollBackIfForked
<1>7. (IF pass.on THEN pass.tip ELSE Len(chain)) \in Nat
  BY DEF TypeOK
<1>8. TypeOK'
  BY <1>4, <1>6, <1>7 DEF TypeOK, RollBackIfForked, chainVars, sendVars, NoBatch
<1>9. Working'
  BY <1>1, <1>5, <1>6 DEF Working, RollBackIfForked, chainVars, sendVars
<1> QED BY <1>8, <1>9

LEMMA ScanOfType ==
    ASSUME NEW b \in Block, NEW unspent \in SUBSET Coin, NEW watch \in SUBSET Commitment
    PROVE  ScanOf(b, unspent, watch) \in ScannedBlock
BY DEF ScanOf, ScannedBlock, Mints

LEMMA WatchedType ==
    ASSUME NEW w PROVE WatchedCommitments(w) \in SUBSET Commitment
BY TxAssumption DEF WatchedCommitments, RowOutputs

LEMMA ScanBlocksShape == TypeOK /\ Working /\ ScanBlocks => TypeOK' /\ Working'
<1> SUFFICES ASSUME TypeOK, Working, ScanBlocks PROVE TypeOK' /\ Working'
  OBVIOUS
<1> DEFINE from == Position(wallet) + 1
           watch == WatchedCommitments(wallet)
           first == ScanOf(chain[from], Unspent(wallet), watch)
           second == ScanOf(chain[from + 1], After(Unspent(wallet), first), watch)
           batch(n) == [from |-> from, branch |-> UpTo(chain, from + n - 1),
                        blocks |-> IF n = 1 THEN <<first>> ELSE <<first, second>>]
<1>1. PICK n \in 1..MaxBatch : /\ from + n - 1 <= Len(chain)
                               /\ pass' = [pass EXCEPT !.batch = batch(n)]
  BY DEF ScanBlocks
<1>2. n \in {1, 2}
  BY DEF MaxBatch
<1>3. chain \in Seq(Block) /\ wallet \in WalletType
  BY DEF TypeOK
<1>4. from \in Nat \ {0}
  <2>1. wallet.birthday # 0 /\ pass.on
    BY DEF ScanBlocks, Working
  <2> QED BY <1>3, <2>1 DEF Position, WalletType
<1>5. watch \in SUBSET Commitment /\ Unspent(wallet) \in SUBSET Coin
  BY WatchedType DEF Unspent
<1> HIDE DEF from, watch
<1>6. first \in ScannedBlock
  <2>1. from \in 1..Len(chain)
    BY <1>1, <1>2, <1>3, <1>4
  <2>2. chain[from] \in Block
    BY <1>3, <2>1
  <2> QED BY <1>5, <2>2, ScanOfType
<1>7. n = 2 => second \in ScannedBlock
  <2> SUFFICES ASSUME n = 2 PROVE second \in ScannedBlock
    OBVIOUS
  <2>1. from + 1 \in 1..Len(chain)
    BY <1>1, <1>3, <1>4
  <2>2. chain[from + 1] \in Block
    BY <1>3, <2>1
  <2>3. After(Unspent(wallet), first) \in SUBSET Coin
    BY <1>5, <1>6 DEF After, ScannedBlock
  <2> HIDE DEF first
  <2> QED BY <1>5, <2>2, <2>3, ScanOfType
<1> HIDE DEF first, second
<1>8. batch(n).blocks \in Seq(ScannedBlock) /\ Len(batch(n).blocks) \in 1..MaxBatch
  <2>1. CASE n = 1
    BY <1>6, <2>1 DEF MaxBatch
  <2>2. CASE n = 2
    BY <1>6, <1>7, <2>2 DEF MaxBatch
  <2> QED BY <1>2, <2>1, <2>2
<1>9. UpTo(chain, from + n - 1) \in Seq(Block)
  BY <1>1, <1>2, <1>3, <1>4 DEF UpTo
<1>10. TypeOK'
  <2>1. batch(n) \in [from : Nat, blocks : Seq(ScannedBlock), branch : Seq(Block)]
    BY <1>4, <1>8, <1>9
  <2> HIDE DEF batch
  <2> QED BY <1>1, <2>1 DEF TypeOK, ScanBlocks, chainVars, sendVars
<1>11. Working'
  <2>1. pass'.batch = batch(n) /\ pass'.on = pass.on /\ pass.on
    BY <1>1 DEF TypeOK, ScanBlocks
  <2>2. batch(n).from = from
    OBVIOUS
  <2> HIDE DEF batch
  <2> QED BY <1>4, <1>8, <2>1, <2>2 DEF Working, ScanBlocks, chainVars, sendVars
<1> QED BY <1>10, <1>11

\* What is known of a batch scanned and not yet written.
LEMMA BatchType ==
    ASSUME TypeOK, Working, pass.batch # NoBatch
    PROVE  PersistScan(wallet, pass.batch.from, pass.batch.blocks, pass.batch.branch) \in WalletType
<1>1. /\ wallet \in WalletType /\ pass.batch.from \in Nat \ {0}
      /\ pass.batch.blocks \in Seq(ScannedBlock) /\ pass.batch.branch \in Seq(Block)
  BY DEF TypeOK, Working
<1>2. Len(pass.batch.blocks) \in 1..2
  BY DEF Working, MaxBatch
<1> QED BY <1>1, <1>2, PersistScanType

LEMMA WriteBlockKeeps ==
    ASSUME NEW w \in WalletType, NEW from \in WalletType, NEW h \in Nat, NEW b \in ScannedBlock
    PROVE  WriteBlock(w, from, h, b).birthday = w.birthday
<1> DEFINE got == Receive(w, from, h, b.incoming)
           gone == {c \in b.spent : Known(got, c)}
           settled == Settle(got, Carried(got, b), gone, h)
<1>1. got \in WalletType /\ got.birthday = w.birthday
  <2>1. got \in WalletType
    BY ReceiveType
  <2>2. got.birthday = w.birthday
    BY DEF Receive, WalletType
  <2> QED BY <2>1, <2>2
<1>2. Carried(got, b) \in SUBSET Sends /\ gone \in SUBSET Coin
  BY DEF Carried, ScannedBlock
<1> HIDE DEF got, gone
<1>3. settled \in WalletType /\ settled.birthday = got.birthday
  <2>1. settled \in WalletType
    BY <1>1, <1>2, SettleType
  <2>2. settled.birthday = got.birthday
    BY <1>1 DEF Settle, WalletType
  <2> QED BY <2>1, <2>2
<1> HIDE DEF settled
<1>4. DropStale(settled, b.spent).birthday = settled.birthday
  BY <1>3 DEF DropStale, WalletType
<1> QED BY <1>1, <1>3, <1>4 DEF WriteBlock, got, gone, settled

\* A batch moves the scan position to its last block, and the start stays.
LEMMA PersistScanKeeps ==
    ASSUME NEW w \in WalletType, NEW h \in Nat \ {0}, NEW blocks \in Seq(ScannedBlock),
           Len(blocks) \in 1..2, NEW branch \in Seq(Block), NEW v, v = PersistScan(w, h, blocks, branch)
    PROVE  v.birthday = w.birthday /\ v.synced = h + Len(blocks) - 1
<1> DEFINE u == WriteBlocks(w, h, blocks)
<1>1. u \in WalletType /\ u.birthday = w.birthday
  <2>1. CASE Len(blocks) = 1
    <3>1. 1 \in 1..Len(blocks)
      BY <2>1
    <3>2. blocks[1] \in ScannedBlock
      BY <3>1
    <3>3. u = WriteBlock(w, w, h, blocks[1])
      BY <2>1 DEF WriteBlocks
    <3> HIDE DEF u
    <3>4. u \in WalletType
      BY <3>2, <3>3, WriteBlockType
    <3>5. u.birthday = w.birthday
      BY <3>2, <3>3, WriteBlockKeeps
    <3> QED BY <3>4, <3>5
  <2>2. CASE Len(blocks) = 2
    <3>1. 1 \in 1..Len(blocks) /\ 2 \in 1..Len(blocks)
      BY <2>2
    <3>2. blocks[1] \in ScannedBlock /\ blocks[2] \in ScannedBlock
      BY <3>1
    <3> DEFINE one == WriteBlock(w, w, h, blocks[1])
    <3>3. one \in WalletType
      BY <3>2, WriteBlockType
    <3>4. one.birthday = w.birthday
      BY <3>2, WriteBlockKeeps
    <3>5. u = WriteBlock(one, w, h + 1, blocks[2])
      BY <2>2 DEF WriteBlocks
    <3> HIDE DEF one, u
    <3>6. u \in WalletType
      BY <3>2, <3>3, <3>5, WriteBlockType
    <3>7. u.birthday = one.birthday
      <4>1. h + 1 \in Nat
        OBVIOUS
      <4>2. WriteBlock(one, w, h + 1, blocks[2]).birthday = one.birthday
        BY <3>2, <3>3, <4>1, WriteBlockKeeps
      <4> QED BY <3>5, <4>2
    <3> QED BY <3>4, <3>6, <3>7
  <2> QED BY <2>1, <2>2
<1> HIDE DEF u
<1> QED BY <1>1 DEF PersistScan, WalletType, u

LEMMA PersistShape == TypeOK /\ Working /\ PersistBatch => TypeOK' /\ Working'
<1> SUFFICES ASSUME TypeOK, Working, PersistBatch PROVE TypeOK' /\ Working'
  OBVIOUS
<1> DEFINE from == pass.batch.from
           blocks == pass.batch.blocks
           written == PersistScan(wallet, from, blocks, pass.batch.branch)
<1>1. pass.batch # NoBatch /\ Write(written)
  BY DEF PersistBatch
<1>2. written \in WalletType
  BY <1>1, BatchType
<1>3. wallet' = written /\ wallet' \in WalletType /\ confirmed' \subseteq Sends
  BY <1>1, <1>2, WriteType DEF Write
<1>4. pass' = [pass EXCEPT !.batch = NoBatch]
  BY DEF PersistBatch
<1>5. wallet'.birthday = wallet.birthday /\ wallet'.synced # NoSync
  <2>1. /\ wallet \in WalletType /\ from \in Nat \ {0} /\ Len(blocks) \in 1..2
        /\ blocks \in Seq(ScannedBlock) /\ pass.batch.branch \in Seq(Block)
    BY <1>1 DEF TypeOK, Working, MaxBatch
  <2>2. from + Len(blocks) - 1 # NoSync
    BY <2>1
  <2> HIDE DEF from, blocks
  <2> QED BY <1>3, <2>1, <2>2, PersistScanKeeps
<1>6. TypeOK'
  BY <1>3, <1>4, NoPassType DEF TypeOK, PersistBatch, chainVars, sendVars, NoPass
<1>7. Working'
  <2>1. pass.on /\ pass'.on /\ pass'.batch = NoBatch
    BY <1>1, <1>4 DEF TypeOK, Working
  <2> QED BY <1>5, <2>1 DEF Working, PersistBatch, chainVars, sendVars
<1> QED BY <1>6, <1>7

LEMMA EndPassShape == TypeOK /\ Working /\ EndPass => TypeOK' /\ Working'
<1> SUFFICES ASSUME TypeOK, Working, EndPass PROVE TypeOK' /\ Working'
  OBVIOUS
<1>1. wallet' = ExpireSends(wallet) /\ wallet' \in WalletType /\ confirmed' \subseteq Sends
  BY ExpireSendsType, WriteType DEF TypeOK, EndPass, Write
<1>2. /\ wallet'.birthday = wallet.birthday /\ wallet'.synced = wallet.synced
      /\ wallet'.linked = wallet.linked
  BY <1>1 DEF ExpireSends, Release, WalletType, TypeOK
<1>3. TypeOK'
  BY <1>1, NoPassType DEF TypeOK, EndPass, chainVars, sendVars
<1>4. Working'
  BY <1>2 DEF Working, EndPass, chainVars, sendVars, NoPass
<1> QED BY <1>3, <1>4

LEMMA StopPassShape == TypeOK /\ Working /\ StopPass => TypeOK' /\ Working'
BY NoPassType DEF TypeOK, Working, StopPass, chainVars, sendVars, NoPass

LEMMA RescanShape == TypeOK /\ Working /\ Rescan => TypeOK' /\ Working'
<1> SUFFICES ASSUME TypeOK, Working, Rescan PROVE TypeOK' /\ Working'
  OBVIOUS
<1>1. PICK h \in RescanFrom : Write(ResetForRescan(wallet, h))
  BY DEF Rescan
<1>2. h \in Nat /\ ~pass.on
  BY WalletAssumption DEF Rescan
<1>3. wallet' = ResetForRescan(wallet, h) /\ wallet' \in WalletType /\ confirmed' \subseteq Sends
  BY <1>1, <1>2, ResetForRescanType, WriteType DEF TypeOK, Write
<1>4. wallet'.synced = NoSync /\ ~wallet'.linked
  BY <1>3 DEF ResetForRescan, NewWallet
<1>5. TypeOK'
  BY <1>3 DEF TypeOK, Rescan, RowsLeft, chainVars, appVars, sendVars
<1>6. Working'
  BY <1>2, <1>4 DEF Working, Rescan, chainVars, appVars, sendVars
<1> QED BY <1>5, <1>6

(* A send, the person and the watcher *)

\* An operation that leaves the scan position alone leaves what a pass relies on.
LEMMA WriteWorking ==
    ASSUME TypeOK, Working, NEW w \in WalletType, Write(w), UNCHANGED <<chain, pass>>,
           w.birthday = wallet.birthday, w.synced = wallet.synced, w.linked = wallet.linked,
           poll'.tx # NoTx => poll'.ins # {}
    PROVE  Working' /\ wallet' \in WalletType /\ confirmed' \subseteq Sends
BY WriteType DEF Working, Write

LEMMA PlainSendShape ==
    ASSUME TypeOK, Working, NEW s \in Sends,
           Review(s) \/ Plan(s) \/ Build(s) \/ Cancel(s) \/ Submit(s) \/ Refuse(s)
    PROVE  TypeOK' /\ Working'
<1>1. GivenUpRivals(wallet) \in SUBSET Sends /\ Len(chain) \in Nat
  BY DEF GivenUpRivals, TypeOK
<1>2. phase' \in [Sends -> Phase]
  BY DEF TypeOK, Phase, Move, Review, Plan, Build, Cancel, Submit, Refuse
<1>3. stamp' \in [Sends -> Nat] /\ review' \subseteq Sends /\ live' \subseteq Tx
  <2> USE DEF TypeOK, chainVars
  <2>1. stamp' \in [Sends -> Nat]
    BY <1>1 DEF Review, Plan, Build, Cancel, Submit, Refuse
  <2>2. review' \subseteq Sends
    BY <1>1 DEF Review, Plan, Build, Cancel, Submit, Refuse
  <2>3. live' \subseteq Tx
    BY TxAssumption DEF Review, Plan, Build, Cancel, Submit, Refuse
  <2> QED BY <2>1, <2>2, <2>3
<1>4. UNCHANGED <<chain, reorgs, wallet, pass, poll, removing, confirmed, taken>>
  BY DEF Review, Plan, Build, Cancel, Submit, Refuse, chainVars
<1> QED BY <1>2, <1>3, <1>4 DEF TypeOK, Working

LEMMA RecordShape ==
    ASSUME TypeOK, Working, NEW s \in Sends, Record(s)
    PROVE  TypeOK' /\ Working'
<1>1. wallet' = RecordPending(wallet, s, stamp[s]) /\ wallet' \in WalletType
  BY RecordPendingType DEF TypeOK, Record
<1>2. /\ wallet'.birthday = wallet.birthday /\ wallet'.synced = wallet.synced
      /\ wallet'.linked = wallet.linked
  BY <1>1 DEF RecordPending, WalletType, TypeOK
<1>3. phase' \in [Sends -> Phase]
  BY DEF TypeOK, Phase, Move, Record
<1>4. TypeOK'
  BY <1>1, <1>3 DEF TypeOK, Record, chainVars
<1>5. Working'
  BY <1>2 DEF Working, Record, chainVars
<1> QED BY <1>4, <1>5

LEMMA DiscardShape ==
    ASSUME TypeOK, Working, NEW s \in Sends, Discard(s)
    PROVE  TypeOK' /\ Working'
<1>1. Write(DiscardPending(wallet, s)) /\ DiscardPending(wallet, s) \in WalletType
  BY DiscardPendingType DEF TypeOK, Discard
<1>2. /\ DiscardPending(wallet, s).birthday = wallet.birthday
      /\ DiscardPending(wallet, s).synced = wallet.synced
      /\ DiscardPending(wallet, s).linked = wallet.linked
  BY DEF DiscardPending, DropRow, Release, WalletType, TypeOK
<1>3. phase' \in [Sends -> Phase]
  BY DEF TypeOK, Phase, Move, Discard
<1>4. UNCHANGED <<chain, pass, poll>>
  BY DEF Discard, chainVars
<1>5. poll'.tx # NoTx => poll'.ins # {}
  BY <1>4 DEF Working
<1>6. Working' /\ wallet' \in WalletType /\ confirmed' \subseteq Sends
  BY <1>1, <1>2, <1>4, <1>5, WriteWorking
<1>7. TypeOK'
  BY <1>3, <1>6 DEF TypeOK, Discard, chainVars
<1> QED BY <1>6, <1>7

LEMMA ForgetShape ==
    ASSUME TypeOK, Working, NEW s \in Sends, Forget(s)
    PROVE  TypeOK' /\ Working'
<1>1. Write(ForgetSend(wallet, s)) /\ ForgetSend(wallet, s) \in WalletType
  BY ForgetSendType DEF TypeOK, Forget
<1>2. /\ ForgetSend(wallet, s).birthday = wallet.birthday
      /\ ForgetSend(wallet, s).synced = wallet.synced
      /\ ForgetSend(wallet, s).linked = wallet.linked
  BY DEF ForgetSend, Release, WalletType, TypeOK
<1>3. UNCHANGED <<chain, pass, poll>>
  BY DEF Forget, chainVars, appVars
<1>4. Working' /\ wallet' \in WalletType /\ confirmed' \subseteq Sends
  BY <1>1, <1>2, <1>3, WriteWorking DEF Working
<1>5. TypeOK'
  BY <1>4 DEF TypeOK, Forget, chainVars, appVars, sendVars
<1> QED BY <1>4, <1>5

LEMMA JudgeShape ==
    ASSUME TypeOK, Working, NEW s \in Sends, JudgeRemovable(s)
    PROVE  TypeOK' /\ Working'
BY DEF TypeOK, Working, JudgeRemovable, chainVars, sendVars

LEMMA RemoveShape ==
    ASSUME TypeOK, Working, Remove
    PROVE  TypeOK' /\ Working'
<1>1. removing \in Sends /\ wallet \in WalletType
  BY DEF TypeOK, Remove
<1>2. Write(DropRow(wallet, removing)) /\ DropRow(wallet, removing) \in WalletType
  BY <1>1, DropRowType DEF Remove
<1>3. /\ DropRow(wallet, removing).birthday = wallet.birthday
      /\ DropRow(wallet, removing).synced = wallet.synced
      /\ DropRow(wallet, removing).linked = wallet.linked
  BY <1>1 DEF DropRow, WalletType
<1>4. UNCHANGED <<chain, pass, poll>>
  BY DEF Remove, chainVars
<1>5. Working' /\ wallet' \in WalletType /\ confirmed' \subseteq Sends
  BY <1>2, <1>3, <1>4, WriteWorking DEF Working
<1>6. TypeOK'
  BY <1>5 DEF TypeOK, Remove, RowsLeft, chainVars, sendVars
<1> QED BY <1>5, <1>6

LEMMA PollShape ==
    ASSUME TypeOK, Working, StartPoll \/ EndPoll \/ \E t \in Tx : FindSpend(t)
    PROVE  TypeOK' /\ Working'
<1>1. CASE StartPoll
  <2> DEFINE own == UNION {RowOutputs(s) : s \in {r \in Sends : IsPending(wallet, r)}}
  <2>1. own \in SUBSET Commitment
    BY TxAssumption DEF RowOutputs
  <2> HIDE DEF own
  <2>2. poll' = [NoPoll EXCEPT !.on = TRUE, !.own = own]
    BY <1>1 DEF StartPoll, own
  <2>3. UNCHANGED <<chainVars, wallet, pass, sendVars, removing, confirmed, taken>>
    BY <1>1 DEF StartPoll
  <2> QED BY <2>1, <2>2, <2>3 DEF TypeOK, Working, NoPoll, chainVars, sendVars
<1>2. CASE EndPoll
  BY <1>2, NoPollType DEF EndPoll, TypeOK, Working, NoPoll, chainVars, sendVars
<1>3. ASSUME NEW t \in Tx, FindSpend(t) PROVE TypeOK' /\ Working'
  <2> DEFINE ins == Inputs[t] \cap Unspent(wallet)
  <2>1. ins \in SUBSET Coin /\ ins # {}
    BY <1>3 DEF FindSpend, Unspent
  <2> HIDE DEF ins
  <2>2. poll' = [poll EXCEPT !.tx = t, !.ins = ins]
    BY <1>3 DEF FindSpend, ins
  <2>3. UNCHANGED <<chainVars, wallet, pass, sendVars, removing, confirmed, taken>>
    BY <1>3 DEF FindSpend
  <2> QED BY <2>1, <2>2, <2>3 DEF TypeOK, Working, chainVars, sendVars
<1> QED BY <1>1, <1>2, <1>3

LEMMA RecordOutgoingKeeps ==
    ASSUME NEW w \in WalletType, NEW t, NEW ins, NEW v, v = RecordOutgoing(w, t, ins)
    PROVE  v.birthday = w.birthday /\ v.synced = w.synced /\ v.linked = w.linked
BY DEF RecordOutgoing, SetHold, WalletType

LEMMA RecordSpendShape ==
    ASSUME TypeOK, Working, RecordSpend
    PROVE  TypeOK' /\ Working'
<1> DEFINE v == RecordOutgoing(wallet, poll.tx, poll.ins)
<1>1. /\ poll.tx \in Tx /\ poll.ins \in (SUBSET Coin) \ {{}} /\ wallet \in WalletType
  BY DEF TypeOK, Working, RecordSpend
<1>2. Write(v) /\ v \in WalletType
  BY <1>1, RecordOutgoingType DEF RecordSpend
<1>3. v.birthday = wallet.birthday /\ v.synced = wallet.synced /\ v.linked = wallet.linked
  <2> HIDE DEF v
  <2> QED BY <1>1, RecordOutgoingKeeps DEF v
<1> HIDE DEF v
<1>4. poll' = [poll EXCEPT !.tx = NoTx, !.ins = {}]
  BY DEF RecordSpend
<1>5. UNCHANGED <<chain, pass>>
  BY DEF RecordSpend, chainVars
<1>6. poll'.tx # NoTx => poll'.ins # {}
  BY <1>4 DEF TypeOK
<1>7. Working' /\ wallet' \in WalletType /\ confirmed' \subseteq Sends
  BY <1>2, <1>3, <1>5, <1>6, WriteWorking
<1>8. TypeOK'
  BY <1>4, <1>7 DEF TypeOK, RecordSpend, chainVars, sendVars
<1> QED BY <1>7, <1>8

LEMMA ExpireOutgoingShape ==
    ASSUME TypeOK, Working, NEW c \in Coin, ExpireOutgoing(c)
    PROVE  TypeOK' /\ Working'
<1>1. Write(ExpireRow(wallet, c)) /\ ExpireRow(wallet, c) \in WalletType
  <2>1. wallet.out[c] # NoRow => NodeId[wallet.out[c].tx] \in Holder \cup {NoTx}
    BY DEF TypeOK, WalletType, OutRow, Holder
  <2> QED BY <2>1, ExpireRowType DEF TypeOK, ExpireOutgoing
<1>2. /\ ExpireRow(wallet, c).birthday = wallet.birthday
      /\ ExpireRow(wallet, c).synced = wallet.synced
      /\ ExpireRow(wallet, c).linked = wallet.linked
  BY DEF ExpireRow, SetHold, WalletType, TypeOK
<1>3. UNCHANGED <<chain, pass, poll>>
  BY DEF ExpireOutgoing, chainVars, appVars
<1>4. Working' /\ wallet' \in WalletType /\ confirmed' \subseteq Sends
  BY <1>1, <1>2, <1>3, WriteWorking DEF Working
<1>5. TypeOK'
  BY <1>4 DEF TypeOK, ExpireOutgoing, chainVars, appVars, sendVars
<1> QED BY <1>4, <1>5

LEMMA CrashShape == TypeOK /\ Working /\ Crash => TypeOK' /\ Working'
BY NoPassType, NoPollType DEF TypeOK, Working, Crash, chainVars, NoPass, NoPoll, Phase

LEMMA StepShape == TypeOK /\ Working /\ [Next]_vars => TypeOK' /\ Working'
<1> SUFFICES ASSUME TypeOK, Working, [Next]_vars PROVE TypeOK' /\ Working'
  OBVIOUS
<1>1. CASE Mine \/ Reorg \/ Rescan \/ Crash
  BY <1>1, MineShape, ReorgShape, RescanShape, CrashShape
<1>2. CASE SyncStep
  BY <1>2, StartPassShape, RollBackShape, ScanBlocksShape, PersistShape, EndPassShape, StopPassShape
     DEF SyncStep
<1>3. CASE SendStep
  BY <1>3, PlainSendShape, RecordShape, DiscardShape DEF SendStep
<1>4. CASE GiveUpStep
  BY <1>4, ForgetShape DEF GiveUpStep
<1>5. CASE RemoveStep
  BY <1>5, JudgeShape, RemoveShape DEF RemoveStep
<1>6. CASE WatcherStep
  BY <1>6, PollShape, RecordSpendShape, ExpireOutgoingShape DEF WatcherStep
<1>7. CASE UNCHANGED vars
  BY <1>7 DEF TypeOK, Working, vars, chainVars, appVars, sendVars
<1> QED BY <1>1, <1>2, <1>3, <1>4, <1>5, <1>6, <1>7 DEF Next

\* Every variable keeps its shape in every behaviour, whatever the chain does.
THEOREM TypeCorrect == Spec => []TypeOK
<1>1. Init => TypeOK /\ Working
  BY InitShape
<1>2. (TypeOK /\ Working) /\ [Next]_vars => (TypeOK /\ Working)'
  BY StepShape
<1> QED BY <1>1, <1>2, PTL DEF Spec

(* History rows *)

\* How one operation may change a row: an expired one does not wait again, a
\* confirmed one keeps its mark, and only one that waits unmarked expires.
Moves(old, new) ==
    /\ RowOK(new)
    /\ new.status = "pending" => ~old.expired
    /\ old.status = "none" => new.status = "none"
    /\ Marked(old) => Marked(new) \/ new.status = "none"
    /\ new.expired => old.expired \/ (old.status = "pending" /\ ~old.rolledBack)

\* How a scanned block may change one: it settles it, or leaves it.
Settles(old, new) ==
    /\ RowOK(new)
    /\ new.status = "pending" => old.status = "pending"
    /\ old.status = "none" => new.status = "none"
    /\ Marked(old) => Marked(new)
    /\ new.expired => old.expired

RowsOK(w) == \A s \in Sends : RowOK(w.row[s])

LEMMA StayMoves ==
    ASSUME NEW row \in SendRow, RowOK(row)
    PROVE  Moves(row, row) /\ Settles(row, row)
BY DEF Moves, Settles, RowOK

LEMMA SettlesMoves ==
    ASSUME NEW old \in SendRow, NEW new \in SendRow, RowOK(old), Settles(old, new)
    PROVE  Moves(old, new)
BY DEF Moves, Settles, RowOK

LEMMA SettlesTransitive ==
    ASSUME NEW x \in SendRow, NEW y \in SendRow, NEW z \in SendRow, Settles(x, y), Settles(y, z)
    PROVE  Settles(x, z)
BY DEF Settles

LEMMA SettleSettles ==
    ASSUME NEW w \in WalletType, RowsOK(w), NEW carried \in SUBSET Sends, NEW gone, NEW h \in Nat,
           \A s \in carried : w.row[s].status \in {"pending", "failed"},
           NEW s \in Sends
    PROVE  Settles(w.row[s], Settle(w, carried, gone, h).row[s])
<1> DEFINE new == IF s \in carried THEN Revived(w.row[s], "confirmed", h)
                  ELSE IF s \in LostTo(w, carried, gone)
                  THEN [w.row[s] EXCEPT !.status = "failed", !.height = h]
                  ELSE w.row[s]
<1>1. Settle(w, carried, gone, h).row[s] = new
  BY DEF Settle, WalletType
<1>2. w.row[s] \in SendRow /\ RowOK(w.row[s])
  BY DEF WalletType, RowsOK
<1>3. CASE s \in carried
  <2>1. new = Revived(w.row[s], "confirmed", h)
    BY <1>3
  <2> HIDE DEF new
  <2>2. new.status = "confirmed" /\ ~new.expired
    BY <1>2, <2>1 DEF Revived, SendRow
  <2>3. w.row[s].status # "none"
    BY <1>3
  <2> QED BY <1>1, <2>2, <2>3 DEF Settles, RowOK, Marked
<1>4. CASE s \notin carried /\ s \in LostTo(w, carried, gone)
  <2>1. new = [w.row[s] EXCEPT !.status = "failed", !.height = h]
    BY <1>4
  <2>2. w.row[s].status = "pending"
    BY <1>4 DEF LostTo, IsPending
  <2>3. ~w.row[s].expired
    BY <1>2, <2>2 DEF RowOK
  <2> HIDE DEF new
  <2>4. /\ new.status = "failed"
        /\ new.expired = w.row[s].expired /\ new.rolledBack = w.row[s].rolledBack
    BY <1>2, <2>1 DEF SendRow
  <2> QED BY <1>1, <2>2, <2>3, <2>4 DEF Settles, RowOK, Marked
<1>5. CASE s \notin carried /\ s \notin LostTo(w, carried, gone)
  BY <1>1, <1>2, <1>5, StayMoves
<1> QED BY <1>3, <1>4, <1>5

LEMMA WriteBlockSettles ==
    ASSUME NEW w \in WalletType, RowsOK(w), NEW from \in WalletType, NEW h \in Nat,
           NEW b \in ScannedBlock, NEW s \in Sends
    PROVE  Settles(w.row[s], WriteBlock(w, from, h, b).row[s])
<1> DEFINE got == Receive(w, from, h, b.incoming)
           gone == {c \in b.spent : Known(got, c)}
           carried == Carried(got, b)
           settled == Settle(got, carried, gone, h)
<1>1. got \in WalletType
  BY ReceiveType
<1>2. got.row = w.row
  BY DEF Receive, WalletType
<1>3. carried \in SUBSET Sends /\ gone \in SUBSET Coin
  BY DEF Carried, ScannedBlock
<1>4. \A r \in carried : got.row[r].status \in {"pending", "failed"}
  BY DEF Carried, IsPending, GivenUp
<1> HIDE DEF got, gone, carried
<1>5. Settles(got.row[s], settled.row[s])
  <2>1. RowsOK(got)
    BY <1>2 DEF RowsOK
  <2> QED BY <1>1, <1>3, <1>4, <2>1, SettleSettles
<1>6. settled \in WalletType
  BY <1>1, <1>3, SettleType
<1> HIDE DEF settled
<1>7. DropStale(settled, b.spent).row = settled.row
  BY <1>6 DEF DropStale, WalletType
<1> QED BY <1>2, <1>5, <1>7 DEF WriteBlock, got, gone, carried, settled

LEMMA PersistScanMoves ==
    ASSUME NEW w \in WalletType, RowsOK(w), NEW h \in Nat \ {0}, NEW blocks \in Seq(ScannedBlock),
           Len(blocks) \in 1..2, NEW branch \in Seq(Block), NEW s \in Sends
    PROVE  Moves(w.row[s], PersistScan(w, h, blocks, branch).row[s])
<1> DEFINE u == WriteBlocks(w, h, blocks)
<1>1. u \in WalletType /\ Settles(w.row[s], u.row[s])
  <2>1. CASE Len(blocks) = 1
    <3>1. 1 \in 1..Len(blocks)
      BY <2>1
    <3>2. blocks[1] \in ScannedBlock
      BY <3>1
    <3>3. u = WriteBlock(w, w, h, blocks[1])
      BY <2>1 DEF WriteBlocks
    <3> HIDE DEF u
    <3>4. u \in WalletType
      BY <3>2, <3>3, WriteBlockType
    <3>5. Settles(w.row[s], u.row[s])
      BY <3>2, <3>3, WriteBlockSettles
    <3> QED BY <3>4, <3>5
  <2>2. CASE Len(blocks) = 2
    <3>1. 1 \in 1..Len(blocks) /\ 2 \in 1..Len(blocks)
      BY <2>2
    <3>2. blocks[1] \in ScannedBlock /\ blocks[2] \in ScannedBlock
      BY <3>1
    <3> DEFINE one == WriteBlock(w, w, h, blocks[1])
    <3>3. one \in WalletType
      BY <3>2, WriteBlockType
    <3>4. \A r \in Sends : Settles(w.row[r], one.row[r])
      BY <3>2, WriteBlockSettles
    <3>5. u = WriteBlock(one, w, h + 1, blocks[2])
      BY <2>2 DEF WriteBlocks
    <3> HIDE DEF one, u
    <3>6. RowsOK(one)
      BY <3>4 DEF RowsOK, Settles
    <3>7. u \in WalletType
      BY <3>2, <3>3, <3>5, WriteBlockType
    <3>8. Settles(one.row[s], u.row[s])
      <4>1. h + 1 \in Nat
        OBVIOUS
      <4>2. Settles(one.row[s], WriteBlock(one, w, h + 1, blocks[2]).row[s])
        BY <3>2, <3>3, <3>6, <4>1, WriteBlockSettles
      <4> QED BY <3>5, <4>2
    <3>9. w.row[s] \in SendRow /\ one.row[s] \in SendRow /\ u.row[s] \in SendRow
      BY <3>3, <3>7 DEF WalletType
    <3>10. Settles(w.row[s], u.row[s])
      BY <3>4, <3>8, <3>9, SettlesTransitive
    <3> QED BY <3>7, <3>10
  <2> QED BY <2>1, <2>2
<1> HIDE DEF u
<1>2. PersistScan(w, h, blocks, branch).row = u.row
  BY <1>1 DEF PersistScan, WalletType, u
<1>3. w.row[s] \in SendRow /\ u.row[s] \in SendRow /\ RowOK(w.row[s])
  BY <1>1 DEF WalletType, RowsOK
<1> QED BY <1>1, <1>2, <1>3, SettlesMoves

LEMMA RollBackMoves ==
    ASSUME NEW w \in WalletType, RowsOK(w), NEW h \in Nat, NEW linked, NEW s \in Sends
    PROVE  Moves(w.row[s], RollBack(w, h, linked).row[s])
<1> DEFINE mark == w.row[s].rolledBack \/ w.row[s].status = "confirmed"
           new == [w.row[s] EXCEPT !.status = "pending", !.height = 0, !.rolledBack = mark]
<1>1. w.row[s] \in SendRow /\ RowOK(w.row[s])
  BY DEF WalletType, RowsOK
<1>2. RollBack(w, h, linked).row[s] = IF s \in RowsAbove(w, h) THEN new ELSE w.row[s]
  BY DEF RollBack, WalletType
<1>3. CASE s \in RowsAbove(w, h)
  <2>1. w.row[s].status # "none" /\ w.row[s].height > h
    BY <1>3 DEF RowsAbove
  <2>2. ~w.row[s].expired
    BY <1>1, <2>1 DEF RowOK
  <2>3. /\ new.status = "pending" /\ new.height = 0 /\ new.rolledBack = mark
        /\ new.expired = w.row[s].expired
    BY <1>1 DEF SendRow
  <2> HIDE DEF new
  <2> QED BY <1>2, <1>3, <2>1, <2>2, <2>3 DEF Moves, RowOK, Marked
<1>4. CASE s \notin RowsAbove(w, h)
  BY <1>1, <1>2, <1>4, StayMoves
<1> QED BY <1>3, <1>4

LEMMA NoSendMoves ==
    ASSUME NEW row \in SendRow
    PROVE  Moves(row, NoSend)
BY DEF Moves, RowOK, Marked, NoSend

LEMMA FailedMoves ==
    ASSUME NEW row \in SendRow, NEW how, RowOK(row), row.status = "pending",
           how = "expired" => ~row.rolledBack
    PROVE  Moves(row, Failed(row, how))
<1> DEFINE new == Failed(row, how)
<1>1. /\ new.status = "failed" /\ new.height = row.height /\ new.rolledBack = row.rolledBack
      /\ new.expired = (row.expired \/ how = "expired")
  BY DEF Failed, SendRow
<1>2. ~row.expired /\ row.height = 0
  BY DEF RowOK
<1> HIDE DEF new
<1> QED BY <1>1, <1>2 DEF Moves, RowOK, Marked, new

LEMMA RevivedMoves ==
    ASSUME NEW row \in SendRow, RowOK(row), row.status = "failed", ~row.expired
    PROVE  Moves(row, Revived(row, "pending", 0))
<1> DEFINE new == Revived(row, "pending", 0)
<1>1. /\ new.status = "pending" /\ new.height = 0 /\ ~new.expired
      /\ new.rolledBack = row.rolledBack
  BY DEF Revived, SendRow
<1> HIDE DEF new
<1> QED BY <1>1 DEF Moves, RowOK, Marked, new

LEMMA ResetForRescanMoves ==
    ASSUME NEW w \in WalletType, RowsOK(w), NEW h, NEW s \in Sends
    PROVE  Moves(w.row[s], ResetForRescan(w, h).row[s])
<1>1. ResetForRescan(w, h).row[s] = IF IsPending(w, s) \/ GivenUp(w, s) THEN w.row[s] ELSE NoSend
  BY DEF ResetForRescan, NewWallet
<1>2. w.row[s] \in SendRow /\ RowOK(w.row[s])
  BY DEF WalletType, RowsOK
<1> QED BY <1>1, <1>2, StayMoves, NoSendMoves

LEMMA ExpireSendsMoves ==
    ASSUME NEW w \in WalletType, RowsOK(w), NEW s \in Sends
    PROVE  Moves(w.row[s], ExpireSends(w).row[s])
<1>1. ExpireSends(w).row[s] = IF s \in Overdue(w) THEN Failed(w.row[s], "expired") ELSE w.row[s]
  BY DEF ExpireSends, Release, WalletType
<1>2. w.row[s] \in SendRow /\ RowOK(w.row[s])
  BY DEF WalletType, RowsOK
<1>3. s \in Overdue(w) => w.row[s].status = "pending" /\ ~w.row[s].rolledBack
  BY DEF Overdue, IsPending
<1> QED BY <1>1, <1>2, <1>3, StayMoves, FailedMoves

LEMMA DropRowMoves ==
    ASSUME NEW w \in WalletType, RowsOK(w), NEW s \in Sends, NEW r \in Sends
    PROVE  Moves(w.row[s], DropRow(w, r).row[s]) /\ Moves(w.row[s], DiscardPending(w, r).row[s])
<1>1. w.row[s] \in SendRow /\ RowOK(w.row[s])
  BY DEF WalletType, RowsOK
<1>2. DropRow(w, r).row[s] = IF s = r THEN NoSend ELSE w.row[s]
  BY DEF DropRow, WalletType
<1>3. DiscardPending(w, r).row[s] = IF s = r /\ w.row[r].status # "none" THEN NoSend ELSE w.row[s]
  BY DEF DiscardPending, DropRow, Release, WalletType
<1> QED BY <1>1, <1>2, <1>3, StayMoves, NoSendMoves

LEMMA ForgetSendMoves ==
    ASSUME NEW w \in WalletType, RowsOK(w), NEW s \in Sends, NEW r \in Sends
    PROVE  Moves(w.row[s], ForgetSend(w, r).row[s])
<1>1. w.row[s] \in SendRow /\ RowOK(w.row[s])
  BY DEF WalletType, RowsOK
<1>2. ForgetSend(w, r).row[s] = IF s = r /\ IsPending(w, r) THEN Failed(w.row[s], "givenUp") ELSE w.row[s]
  BY DEF ForgetSend, Release, WalletType
<1> QED BY <1>1, <1>2, StayMoves, FailedMoves DEF IsPending

LEMMA RecordOutgoingMoves ==
    ASSUME NEW w \in WalletType, RowsOK(w), NEW t, NEW ins \in SUBSET Coin, NEW s \in Sends
    PROVE  Moves(w.row[s], RecordOutgoing(w, t, ins).row[s])
<1> DEFINE givenUpOn(c) == {r \in Sends : c \in Inputs[r] /\ MayStillGo(w, r)}
           shared == {c \in ins : givenUpOn(c) # {}}
           sent == FirstOf(givenUpOn(FirstOf(shared)))
<1>1. w.row[s] \in SendRow /\ RowOK(w.row[s])
  BY DEF WalletType, RowsOK
<1>2. \/ RecordOutgoing(w, t, ins).row[s] = w.row[s]
      \/ /\ shared # {} /\ Revivable(w.row[sent]) /\ s = sent
         /\ RecordOutgoing(w, t, ins).row[s] = Revived(w.row[s], "pending", 0)
  <2> HIDE DEF shared, sent
  <2> QED BY DEF RecordOutgoing, SetHold, WalletType, shared, sent
<1>3. shared # {} => w.row[sent].status = "failed"
  <2> SUFFICES ASSUME shared # {} PROVE w.row[sent].status = "failed"
    OBVIOUS
  <2>1. FirstOf(shared) \in shared
    BY FirstOfMember
  <2>2. givenUpOn(FirstOf(shared)) # {}
    BY <2>1
  <2>3. sent \in givenUpOn(FirstOf(shared))
    <3> HIDE DEF shared
    <3> QED BY <2>2, FirstOfMember
  <2> QED BY <2>3 DEF MayStillGo, GivenUp
<1> QED BY <1>1, <1>2, <1>3, StayMoves, RevivedMoves DEF Revivable

LEMMA ExpireRowMoves ==
    ASSUME NEW w \in WalletType, RowsOK(w), NEW c, NEW s \in Sends
    PROVE  Moves(w.row[s], ExpireRow(w, c).row[s])
<1>1. ExpireRow(w, c).row = w.row
  BY DEF ExpireRow, SetHold, WalletType
<1>2. w.row[s] \in SendRow /\ RowOK(w.row[s])
  BY DEF WalletType, RowsOK
<1> QED BY <1>1, <1>2, StayMoves

(* The marks, over every step *)

\* An operation whose rows move so keeps the marks, and no expired send waits again.
LEMMA WriteMarks ==
    ASSUME TypeOK, Marks, NEW w, Write(w), NEW s \in Sends, w.row[s] \in SendRow,
           Moves(wallet.row[s], w.row[s])
    PROVE  /\ RowOK(wallet'.row[s])
           /\ s \in confirmed' => Marked(wallet'.row[s]) /\ ~wallet'.row[s].expired
           /\ wallet.row[s].status = "none" => wallet'.row[s].status = "none"
           /\ wallet.row[s].expired => ~IsPending(wallet', s)
<1> DEFINE old == wallet.row[s]
           new == w.row[s]
<1>1. old \in SendRow /\ (s \in confirmed => Marked(old) /\ ~old.expired)
  BY DEF TypeOK, WalletType, Marks
<1>2. wallet' = w
  BY DEF Write
<1>3. s \in confirmed' <=> (s \in confirmed /\ new.status # "none") \/ new.status = "confirmed"
  BY DEF Write
<1> HIDE DEF old, new
<1>4. Moves(old, new) /\ new \in SendRow
  BY DEF old, new
<1>5. s \in confirmed' => Marked(new) /\ ~new.expired
  <2>1. CASE new.status = "confirmed"
    BY <1>4, <2>1 DEF Moves, RowOK, Marked
  <2>2. CASE s \in confirmed /\ new.status # "none"
    BY <1>1, <1>4, <2>2 DEF Moves, Marked
  <2> QED BY <1>3, <2>1, <2>2
<1>6. RowOK(new) /\ (old.status = "none" => new.status = "none")
      /\ (old.expired => new.status # "pending")
  BY <1>4 DEF Moves
<1> QED BY <1>2, <1>5, <1>6 DEF old, new, IsPending

\* What Next does to the rows: one operation of the ledger, or nothing, or a new send.
LEMMA StepMoves ==
    ASSUME TypeOK, Working, Marks, [Next]_vars
    PROVE  \/ \E w \in WalletType : Write(w) /\ \A s \in Sends : Moves(wallet.row[s], w.row[s])
           \/ UNCHANGED <<wallet, confirmed>>
           \/ \E s \in Sends : Record(s)
<1> DEFINE Goal == \E w \in WalletType : Write(w) /\ \A s \in Sends : Moves(wallet.row[s], w.row[s])
<1>1. wallet \in WalletType /\ RowsOK(wallet)
  BY DEF TypeOK, Marks, RowsOK
<1>2. CASE StartPass
  <2>1. PICK hint \in 0..Len(chain) : Write(Started(wallet, Len(chain), hint))
    BY <1>2 DEF StartPass
  <2> DEFINE w == Started(wallet, Len(chain), hint)
  <2>2. w \in WalletType
    BY <1>1, StartedType DEF TypeOK
  <2>3. w.row = wallet.row
    BY <1>1 DEF Started, WalletType
  <2>4. \A s \in Sends : Moves(wallet.row[s], wallet.row[s])
    BY <1>1, StayMoves DEF WalletType, RowsOK
  <2> HIDE DEF w
  <2>5. Goal
    BY <2>1, <2>2, <2>3, <2>4 DEF w
  <2> QED BY <2>5
<1>3. CASE RollBackIfForked
  <2>1. wallet.synced # NoSync /\ wallet.birthday # 0
    BY <1>3 DEF RollBackIfForked, Forked, Working
  <2>2. wallet.birthday - 1 \in Nat /\ ForkCandidates(wallet) \subseteq Nat
    BY <1>1, <2>1 DEF WalletType, ForkCandidates
  <2>3. PICK h \in Nat, linked \in BOOLEAN : Write(RollBack(wallet, h, linked))
    BY <1>3, <2>2 DEF RollBackIfForked
  <2>4. RollBack(wallet, h, linked) \in WalletType
    BY <1>1, RollBackType
  <2>5. \A s \in Sends : Moves(wallet.row[s], RollBack(wallet, h, linked).row[s])
    BY <1>1, RollBackMoves
  <2> QED BY <2>3, <2>4, <2>5
<1>4. CASE PersistBatch
  <2>1. /\ pass.batch.from \in Nat \ {0} /\ pass.batch.blocks \in Seq(ScannedBlock)
        /\ Len(pass.batch.blocks) \in 1..2 /\ pass.batch.branch \in Seq(Block)
    BY <1>4 DEF TypeOK, Working, PersistBatch, MaxBatch
  <2> DEFINE w == PersistScan(wallet, pass.batch.from, pass.batch.blocks, pass.batch.branch)
  <2>2. w \in WalletType
    BY <1>1, <2>1, PersistScanType
  <2>3. \A s \in Sends : Moves(wallet.row[s], w.row[s])
    BY <1>1, <2>1, PersistScanMoves
  <2>4. Write(w)
    BY <1>4 DEF PersistBatch
  <2> HIDE DEF w
  <2> QED BY <2>2, <2>3, <2>4
<1>5. CASE EndPass
  BY <1>1, <1>5, ExpireSendsType, ExpireSendsMoves DEF EndPass
<1>6. CASE Rescan
  <2>1. PICK h \in RescanFrom : Write(ResetForRescan(wallet, h))
    BY <1>6 DEF Rescan
  <2>2. h \in Nat
    BY WalletAssumption
  <2> QED BY <1>1, <2>1, <2>2, ResetForRescanType, ResetForRescanMoves
<1>7. CASE RecordSpend
  <2>1. poll.tx \in Tx /\ poll.ins \in (SUBSET Coin) \ {{}}
    BY <1>7 DEF TypeOK, Working, RecordSpend
  <2> DEFINE w == RecordOutgoing(wallet, poll.tx, poll.ins)
  <2>2. w \in WalletType
    BY <1>1, <2>1, RecordOutgoingType
  <2>3. \A s \in Sends : Moves(wallet.row[s], w.row[s])
    BY <1>1, <2>1, RecordOutgoingMoves
  <2>4. Write(w)
    BY <1>7 DEF RecordSpend
  <2> HIDE DEF w
  <2> QED BY <2>2, <2>3, <2>4
<1>8. CASE \E c \in Coin : ExpireOutgoing(c)
  <2>1. PICK c \in Coin : ExpireOutgoing(c)
    BY <1>8
  <2>2. ExpireRow(wallet, c) \in WalletType
    <3>1. NodeId[wallet.out[c].tx] \in Holder \cup {NoTx}
      BY <2>1 DEF ExpireOutgoing, TypeOK, WalletType, OutRow, Holder
    <3> QED BY <1>1, <3>1, ExpireRowType
  <2> QED BY <1>1, <2>1, <2>2, ExpireRowMoves DEF ExpireOutgoing
<1>9. CASE \E r \in Sends : Discard(r) \/ Forget(r)
  <2>1. PICK r \in Sends : Discard(r) \/ Forget(r)
    BY <1>9
  <2>2. CASE Discard(r)
    BY <1>1, <2>2, DiscardPendingType, DropRowMoves DEF Discard
  <2>3. CASE Forget(r)
    BY <1>1, <2>3, ForgetSendType, ForgetSendMoves DEF Forget
  <2> QED BY <2>1, <2>2, <2>3
<1>10. CASE Remove
  <2>1. removing \in Sends /\ Write(DropRow(wallet, removing))
    BY <1>10 DEF Remove, TypeOK
  <2> QED BY <1>1, <2>1, DropRowType, DropRowMoves
<1>11. CASE \E r \in Sends : \/ Review(r) \/ Plan(r) \/ Build(r) \/ Cancel(r)
                             \/ Submit(r) \/ Refuse(r) \/ JudgeRemovable(r)
  BY <1>11 DEF Review, Plan, Build, Cancel, Submit, Refuse, JudgeRemovable
<1>12. CASE \/ Mine \/ Reorg \/ Crash \/ ScanBlocks \/ StopPass \/ StartPoll \/ EndPoll
            \/ \E t \in Tx : FindSpend(t)
  BY <1>12 DEF Mine, Reorg, Crash, ScanBlocks, StopPass, StartPoll, EndPoll, FindSpend
<1>13. CASE UNCHANGED vars
  BY <1>13 DEF vars
<1> QED BY <1>2, <1>3, <1>4, <1>5, <1>6, <1>7, <1>8, <1>9, <1>10, <1>11, <1>12, <1>13
        DEF Next, SyncStep, SendStep, GiveUpStep, RemoveStep, WatcherStep

Early == {"idle", "reviewed", "planned", "built"}

\* A send goes back to the start only with its row gone, by discardPending.
LEMMA EarlyStep ==
    ASSUME TypeOK, [Next]_vars, NEW s \in Sends, phase'[s] \in Early
    PROVE  \/ phase[s] \in Early /\ ~Record(s)
           \/ Discard(s)
<1> USE DEF TypeOK, Phase, Early
<1>1. CASE \E r \in Sends : Record(r) \/ Discard(r)
  <2>1. PICK r \in Sends : Record(r) \/ Discard(r)
    BY <1>1
  <2>2. CASE Record(r)
    BY <2>2 DEF Record, Move
  <2>3. CASE Discard(r)
    BY <2>3 DEF Discard, Record, Move
  <2> QED BY <2>1, <2>2, <2>3
<1>2. CASE \E r \in Sends : \/ Review(r) \/ Plan(r) \/ Build(r) \/ Cancel(r)
                            \/ Submit(r) \/ Refuse(r)
  <2>1. PICK r \in Sends : \/ Review(r) \/ Plan(r) \/ Build(r) \/ Cancel(r)
                           \/ Submit(r) \/ Refuse(r)
    BY <1>2
  <2>2. phase[s] \in Early
    BY <2>1 DEF Review, Plan, Build, Cancel, Submit, Refuse, Move
  <2> QED BY <2>2 DEF Record, Move
<1>3. CASE Crash
  BY <1>3 DEF Crash, Record, Move
<1>4. CASE UNCHANGED phase
  BY <1>4 DEF Record, Move
<1>5. CASE Mine \/ Reorg \/ Rescan \/ SyncStep \/ GiveUpStep \/ RemoveStep \/ WatcherStep
  <2>1. UNCHANGED phase
    BY <1>5 DEF Mine, Reorg, Rescan, SyncStep, StartPass, RollBackIfForked, ScanBlocks,
                PersistBatch, EndPass, StopPass, GiveUpStep, Forget, RemoveStep, Remove,
                JudgeRemovable, WatcherStep, StartPoll, RecordSpend, EndPoll, FindSpend,
                ExpireOutgoing, appVars, sendVars
  <2> QED BY <1>4, <2>1
<1> QED BY <1>1, <1>2, <1>3, <1>4, <1>5 DEF Next, SendStep, vars, appVars, sendVars

LEMMA RecordMarks ==
    ASSUME TypeOK, Marks, NEW r \in Sends, Record(r), NEW s \in Sends
    PROVE  /\ RowOK(wallet'.row[s])
           /\ s \in confirmed' => Marked(wallet'.row[s]) /\ ~wallet'.row[s].expired
           /\ s # r => wallet'.row[s] = wallet.row[s]
           /\ wallet.row[s].expired => ~IsPending(wallet', s)
<1>1. /\ wallet \in WalletType /\ wallet' = RecordPending(wallet, r, stamp[r])
      /\ confirmed' = confirmed \ {r} /\ phase[r] = "built"
  BY DEF TypeOK, Record
<1>2. s # r => wallet'.row[s] = wallet.row[s]
  BY <1>1 DEF RecordPending, WalletType
<1>3. wallet'.row[r] = [NoSend EXCEPT !.status = "pending", !.stamp = stamp[r]]
  BY <1>1 DEF RecordPending, WalletType
<1>4. /\ wallet'.row[r].status = "pending" /\ wallet'.row[r].height = 0
      /\ wallet'.row[r].expired = FALSE
  BY <1>3 DEF NoSend
<1>5. wallet.row[r].status = "none" /\ RowOK(wallet.row[r])
  BY <1>1 DEF Marks
<1>6. ~wallet.row[r].expired
  BY <1>5 DEF RowOK
<1>7. CASE s = r
  BY <1>1, <1>4, <1>6, <1>7 DEF RowOK
<1>8. CASE s # r
  BY <1>1, <1>2, <1>8 DEF Marks, RowOK, IsPending
<1> QED BY <1>2, <1>7, <1>8

LEMMA StepMarks ==
    ASSUME TypeOK, Working, Marks, [Next]_vars
    PROVE  Marks' /\ \A s \in Sends : wallet.row[s].expired => ~IsPending(wallet', s)
<1> SUFFICES ASSUME NEW s \in Sends
             PROVE  /\ RowOK(wallet'.row[s])
                    /\ s \in confirmed' => Marked(wallet'.row[s]) /\ ~wallet'.row[s].expired
                    /\ phase'[s] \in Early => wallet'.row[s].status = "none"
                    /\ wallet.row[s].expired => ~IsPending(wallet', s)
  BY DEF Marks, Early
<1>1. phase'[s] \in Early => (phase[s] \in Early /\ ~Record(s)) \/ Discard(s)
  BY EarlyStep
<1>2. phase[s] \in Early => wallet.row[s].status = "none"
  BY DEF Marks, Early
<1>3. Discard(s) => wallet'.row[s].status = "none"
  <2> SUFFICES ASSUME Discard(s) PROVE wallet'.row[s].status = "none"
    OBVIOUS
  <2>1. wallet' = DiscardPending(wallet, s) /\ wallet \in WalletType
    BY DEF Discard, Write, TypeOK
  <2>2. CASE wallet.row[s].status = "none"
    BY <2>1, <2>2 DEF DiscardPending
  <2>3. CASE wallet.row[s].status # "none"
    <3>1. wallet'.row[s] = NoSend
      BY <2>1, <2>3 DEF DiscardPending, DropRow, Release, WalletType
    <3> QED BY <3>1 DEF NoSend
  <2> QED BY <2>2, <2>3
<1>4. CASE \E w \in WalletType : Write(w) /\ \A r \in Sends : Moves(wallet.row[r], w.row[r])
  <2>1. PICK w \in WalletType : Write(w) /\ \A r \in Sends : Moves(wallet.row[r], w.row[r])
    BY <1>4
  <2>2. w.row[s] \in SendRow
    BY DEF WalletType
  <2>3. /\ RowOK(wallet'.row[s])
        /\ s \in confirmed' => Marked(wallet'.row[s]) /\ ~wallet'.row[s].expired
        /\ wallet.row[s].status = "none" => wallet'.row[s].status = "none"
        /\ wallet.row[s].expired => ~IsPending(wallet', s)
    BY <2>1, <2>2, WriteMarks
  <2> QED BY <1>1, <1>2, <1>3, <2>3
<1>5. CASE UNCHANGED <<wallet, confirmed>>
  <2>1. /\ RowOK(wallet.row[s])
        /\ s \in confirmed => Marked(wallet.row[s]) /\ ~wallet.row[s].expired
    BY DEF Marks
  <2>2. wallet.row[s].expired => ~IsPending(wallet, s)
    BY <2>1 DEF RowOK, IsPending
  <2> QED BY <1>1, <1>2, <1>3, <1>5, <2>1, <2>2 DEF Marks
<1>6. CASE \E r \in Sends : Record(r)
  <2>1. PICK r \in Sends : Record(r)
    BY <1>6
  <2>2. /\ RowOK(wallet'.row[s])
        /\ s \in confirmed' => Marked(wallet'.row[s]) /\ ~wallet'.row[s].expired
        /\ s # r => wallet'.row[s] = wallet.row[s]
        /\ wallet.row[s].expired => ~IsPending(wallet', s)
    BY <2>1, RecordMarks
  <2>3. phase'[s] \in Early => wallet'.row[s].status = "none"
    BY <1>1, <1>2, <1>3, <2>1, <2>2
  <2> QED BY <2>2, <2>3
<1> QED BY <1>4, <1>5, <1>6, StepMoves

LEMMA InitMarks == Init => Marks
<1> SUFFICES ASSUME Init PROVE Marks
  OBVIOUS
<1>1. PICK b \in Birthdays : wallet = NewWallet(b)
  BY DEF Init
<1>2. \A s \in Sends : wallet.row[s] = NoSend
  BY <1>1 DEF NewWallet
<1> QED BY <1>2 DEF Init, Marks, RowOK, NoSend

LEMMA InitInv == Init => IInv
BY InitShape, InitMarks DEF IInv

LEMMA StepInv == IInv /\ [Next]_vars => IInv'
BY StepShape, StepMarks DEF IInv

\* A send that went through once is never called expired, whatever reorganisation
\* drops its block and however long it waits afterwards.
THEOREM NeverExpiresOnceConfirmed == Spec => []EverConfirmedNeverExpires
<1>1. IInv => EverConfirmedNeverExpires
  BY DEF IInv, TypeOK, Marks, EverConfirmedNeverExpires
<1> QED BY <1>1, InitInv, StepInv, PTL DEF Spec

\* The mempool, a rollback or a new record never make an expired send wait again.
THEOREM ExpiredWaitsForABlock == Spec => ExpiredOnlyConfirms
<1>1. IInv /\ [Next]_vars => [\A s \in Sends : wallet.row[s].expired => ~IsPending(wallet', s)]_vars
  BY StepMarks DEF IInv
<1> QED BY <1>1, InitInv, StepInv, PTL DEF Spec, ExpiredOnlyConfirms

-----------------------------------------------------------------------------
\* What the node served when the wallet was made is a chain: consensus is its own.
GenesisFollows == \A h \in 1..Len(Genesis) : CanFollow(UpTo(Genesis, h - 1), Genesis[h])

(* The chain *)

\* A coin is made once, and spent once, above the block that made it.
Sound(ch) ==
    /\ \A h, k \in 1..Len(ch) : \A c \in Coin : c \in Mints(ch[h]) /\ c \in Mints(ch[k]) => h = k
    /\ \A h \in 1..Len(ch) : \A c \in Coin :
          c \in Spends(ch[h]) => \E k \in 1..h - 1 : c \in Mints(ch[k])
    /\ \A h, k \in 1..Len(ch) : \A c \in Coin : c \in Spends(ch[h]) /\ c \in Spends(ch[k]) => h = k

LEMMA UpToBlocks ==
    ASSUME NEW ch \in Seq(Block), NEW n \in Nat, n <= Len(ch)
    PROVE  /\ UpTo(ch, n) \in Seq(Block) /\ Len(UpTo(ch, n)) = n
           /\ \A i \in 1..n : UpTo(ch, n)[i] = ch[i]
<1>1. Len(ch) \in Nat /\ \A i \in 1..n : i \in 1..Len(ch)  BY LenProperties
<1>2. \A i \in 1..n : ch[i] \in Block  BY <1>1, LenProperties
<1>3. /\ SubSeq(ch, 1, n) \in Seq(Block) /\ Len(SubSeq(ch, 1, n)) = (IF 1 <= n THEN n - 1 + 1 ELSE 0)
      /\ \A i \in 1..n - 1 + 1 : SubSeq(ch, 1, n)[i] = ch[1 + i - 1]
  BY <1>2, SubSeqProperties
<1>4. (IF 1 <= n THEN n - 1 + 1 ELSE 0) = n /\ n - 1 + 1 = n /\ \A i \in 1..n : 1 + i - 1 = i
  OBVIOUS
<1> QED BY <1>3, <1>4 DEF UpTo

LEMMA SoundBelow ==
    ASSUME NEW ch \in Seq(Block), Sound(ch), NEW n \in Nat, n <= Len(ch)
    PROVE  Sound(UpTo(ch, n))
<1> DEFINE u == UpTo(ch, n)
<1>1. Len(u) = n /\ (\A i \in 1..n : u[i] = ch[i]) /\ Len(ch) \in Nat  BY UpToBlocks, LenProperties
<1> HIDE DEF u
<1>2. \A h, k \in 1..Len(u) : \A c \in Coin : c \in Mints(u[h]) /\ c \in Mints(u[k]) => h = k
  BY <1>1 DEF Sound
<1>3. \A h \in 1..Len(u) : \A c \in Coin : c \in Spends(u[h]) => \E k \in 1..h - 1 : c \in Mints(u[k])
  BY <1>1 DEF Sound
<1>5. \A h, k \in 1..Len(u) : \A c \in Coin : c \in Spends(u[h]) /\ c \in Spends(u[k]) => h = k
  BY <1>1 DEF Sound
<1>4. Sound(u)  BY <1>2, <1>3, <1>5 DEF Sound
<1> QED BY <1>4 DEF u

\* A block that can follow keeps it so.
LEMMA SoundAbove ==
    ASSUME NEW ch \in Seq(Block), Sound(ch), NEW b \in Block, CanFollow(ch, b)
    PROVE  Sound(Append(ch, b))
<1> DEFINE u == Append(ch, b)
           n == Len(ch)
<1>1. n \in Nat /\ Len(u) = n + 1 /\ (\A i \in 1..n : u[i] = ch[i]) /\ u[n + 1] = b
  BY AppendProperties, LenProperties
<1>2. \A c \in Mints(b) : \A h \in 1..n : c \notin Mints(ch[h])  BY DEF CanFollow, IsMinted
<1>3. \A c \in Spends(b) : (\E h \in 1..n : c \in Mints(ch[h])) /\ (\A h \in 1..n : c \notin Spends(ch[h]))
  BY DEF CanFollow, IsMinted, IsSpent
<1> HIDE DEF u, n
<1>4. ASSUME NEW h \in 1..Len(u), NEW k \in 1..Len(u), NEW c \in Coin, c \in Mints(u[h]), c \in Mints(u[k])
      PROVE  h = k
  <2>1. CASE h = n + 1 /\ k = n + 1  BY <2>1
  <2>2. CASE h = n + 1 /\ k \in 1..n  BY <1>1, <1>2, <1>4, <2>2
  <2>3. CASE h \in 1..n /\ k = n + 1  BY <1>1, <1>2, <1>4, <2>3
  <2>4. CASE h \in 1..n /\ k \in 1..n  BY <1>1, <1>4, <2>4 DEF Sound, n
  <2> QED BY <1>1, <2>1, <2>2, <2>3, <2>4
<1>5. ASSUME NEW h \in 1..Len(u), NEW c \in Coin, c \in Spends(u[h])
      PROVE  \E k \in 1..h - 1 : c \in Mints(u[k])
  <2>1. CASE h = n + 1
    <3>1. PICK k \in 1..n : c \in Mints(ch[k])  BY <1>1, <1>3, <1>5, <2>1
    <3>2. k \in 1..h - 1 /\ c \in Mints(u[k])  BY <1>1, <2>1, <3>1
    <3> QED BY <3>2
  <2>2. CASE h \in 1..n
    <3>1. PICK k \in 1..h - 1 : c \in Mints(ch[k])  BY <1>1, <1>5, <2>2 DEF Sound, n
    <3>2. u[k] = ch[k]  BY <1>1, <2>2, <3>1
    <3> QED BY <3>1, <3>2
  <2> QED BY <1>1, <2>1, <2>2
<1>6. ASSUME NEW h \in 1..Len(u), NEW k \in 1..Len(u), NEW c \in Coin, c \in Spends(u[h]), c \in Spends(u[k])
      PROVE  h = k
  <2>1. CASE h = n + 1 /\ k = n + 1  BY <2>1
  <2>2. CASE h = n + 1 /\ k \in 1..n  BY <1>1, <1>3, <1>6, <2>2
  <2>3. CASE h \in 1..n /\ k = n + 1  BY <1>1, <1>3, <1>6, <2>3
  <2>4. CASE h \in 1..n /\ k \in 1..n  BY <1>1, <1>6, <2>4 DEF Sound, n
  <2> QED BY <1>1, <2>1, <2>2, <2>3, <2>4
<1>7. Sound(u)  BY <1>4, <1>5, <1>6 DEF Sound
<1> QED BY <1>7 DEF u

LEMMA SoundGenesis == GenesisFollows => Sound(Genesis)
<1> SUFFICES ASSUME GenesisFollows PROVE Sound(Genesis)
    OBVIOUS
<1>1. Genesis \in Seq(Block) /\ Len(Genesis) \in Nat  BY WalletAssumption, LenProperties
<1>2. ASSUME NEW h \in 1..Len(Genesis)
      PROVE  /\ \A k \in 1..h - 1 : \A c \in Coin : ~(c \in Mints(Genesis[h]) /\ c \in Mints(Genesis[k]))
             /\ \A c \in Spends(Genesis[h]) : \E k \in 1..h - 1 : c \in Mints(Genesis[k])
             /\ \A k \in 1..h - 1 : \A c \in Coin : ~(c \in Spends(Genesis[h]) /\ c \in Spends(Genesis[k]))
  <2> DEFINE u == UpTo(Genesis, h - 1)
  <2>1. h - 1 \in Nat /\ h - 1 <= Len(Genesis)  BY <1>1
  <2>2. Len(u) = h - 1 /\ \A i \in 1..h - 1 : u[i] = Genesis[i]  BY <1>1, <2>1, UpToBlocks
  <2>3. CanFollow(u, Genesis[h])  BY DEF GenesisFollows
  <2> HIDE DEF u
  <2> QED BY <2>2, <2>3 DEF CanFollow, IsMinted, IsSpent
<1>3. \A h, k \in 1..Len(Genesis) : \A c \in Coin : c \in Mints(Genesis[h]) /\ c \in Mints(Genesis[k]) => h = k
  <2> TAKE h, k \in 1..Len(Genesis)
  <2>1. CASE h < k
    <3>1. h \in 1..k - 1  BY <1>1, <2>1
    <3> QED BY <1>2, <3>1
  <2>2. CASE k < h
    <3>1. k \in 1..h - 1  BY <1>1, <2>2
    <3> QED BY <1>2, <3>1
  <2> QED BY <1>1, <2>1, <2>2
<1>4. \A h \in 1..Len(Genesis) : \A c \in Coin : c \in Spends(Genesis[h]) => \E k \in 1..h - 1 : c \in Mints(Genesis[k])
  BY <1>2
<1>5. \A h, k \in 1..Len(Genesis) : \A c \in Coin : c \in Spends(Genesis[h]) /\ c \in Spends(Genesis[k]) => h = k
  <2> TAKE h, k \in 1..Len(Genesis)
  <2>1. CASE h < k
    <3>1. h \in 1..k - 1  BY <1>1, <2>1
    <3> QED BY <1>2, <3>1
  <2>2. CASE k < h
    <3>1. k \in 1..h - 1  BY <1>1, <2>2
    <3> QED BY <1>2, <3>1
  <2> QED BY <1>1, <2>1, <2>2
<1> QED BY <1>3, <1>4, <1>5 DEF Sound

(* Coins and the blocks from lo to hi of a chain *)

CoinsOK(conf, spentAt, br, lo, hi) ==
    \A c \in Coin :
        /\ \A h \in lo..hi : c \in Mints(br[h]) => conf[c] = h
        /\ conf[c] # 0 => conf[c] \in lo..hi /\ c \in Mints(br[conf[c]])
        /\ conf[c] # 0 /\ spentAt[c] = 0 => \A h \in lo..hi : c \notin Spends(br[h])
        /\ spentAt[c] # 0 => conf[c] # 0 /\ spentAt[c] \in lo..hi /\ c \in Spends(br[spentAt[c]])

\* Another chain that agrees as far up as that.
LEMMA CoinsOnBoth ==
    ASSUME NEW conf, NEW spentAt, NEW br, NEW other, NEW lo \in Int, NEW hi \in Int,
           CoinsOK(conf, spentAt, br, lo, hi), \A h \in lo..hi : other[h] = br[h]
    PROVE  CoinsOK(conf, spentAt, other, lo, hi)
BY DEF CoinsOK

\* One block more: its coins are found, and those it spends are spent.
LEMMA CoinsExtend ==
    ASSUME NEW conf \in [Coin -> Nat], NEW spentAt \in [Coin -> Nat], NEW br, Sound(br),
           NEW lo \in Nat \ {0}, NEW at \in Nat, lo <= at, at <= Len(br), Len(br) \in Nat,
           CoinsOK(conf, spentAt, br, lo, at - 1),
           NEW conf2, NEW spentAt2,
           \A c \in Coin : conf2[c] = (IF c \in Mints(br[at]) THEN at ELSE conf[c]),
           \A c \in Coin : spentAt2[c] = (IF c \in Spends(br[at]) /\ conf[c] # 0 /\ spentAt[c] = 0 THEN at ELSE spentAt[c])
    PROVE  CoinsOK(conf2, spentAt2, br, lo, at)
<1> SUFFICES ASSUME NEW c \in Coin
             PROVE  /\ \A h \in lo..at : c \in Mints(br[h]) => conf2[c] = h
                    /\ conf2[c] # 0 => conf2[c] \in lo..at /\ c \in Mints(br[conf2[c]])
                    /\ conf2[c] # 0 /\ spentAt2[c] = 0 => \A h \in lo..at : c \notin Spends(br[h])
                    /\ spentAt2[c] # 0 => conf2[c] # 0 /\ spentAt2[c] \in lo..at /\ c \in Spends(br[spentAt2[c]])
    BY DEF CoinsOK
<1>0. /\ conf[c] \in Nat /\ spentAt[c] \in Nat /\ at # 0
      /\ conf2[c] = (IF c \in Mints(br[at]) THEN at ELSE conf[c])
      /\ spentAt2[c] = (IF c \in Spends(br[at]) /\ conf[c] # 0 /\ spentAt[c] = 0 THEN at ELSE spentAt[c])
  OBVIOUS
<1>1. /\ \A h \in lo..at - 1 : c \in Mints(br[h]) => conf[c] = h
      /\ conf[c] # 0 => conf[c] \in lo..at - 1 /\ c \in Mints(br[conf[c]])
      /\ conf[c] # 0 /\ spentAt[c] = 0 => \A h \in lo..at - 1 : c \notin Spends(br[h])
      /\ spentAt[c] # 0 => conf[c] # 0 /\ spentAt[c] \in lo..at - 1 /\ c \in Spends(br[spentAt[c]])
  BY DEF CoinsOK
<1>2. /\ \A h \in 1..at - 1 : ~(c \in Mints(br[h]) /\ c \in Mints(br[at]))
      /\ \A h \in 1..at : c \in Spends(br[h]) => \E k \in 1..h - 1 : c \in Mints(br[k])
  <2>1. at \in 1..Len(br) /\ (\A h \in 1..at : h \in 1..Len(br)) /\ (\A h \in 1..at - 1 : h \in 1..Len(br) /\ h # at)
    OBVIOUS
  <2>2. \A h \in 1..at - 1 : ~(c \in Mints(br[h]) /\ c \in Mints(br[at]))  BY <2>1 DEF Sound
  <2>3. \A h \in 1..at : c \in Spends(br[h]) => \E k \in 1..h - 1 : c \in Mints(br[k])  BY <2>1 DEF Sound
  <2> QED BY <2>2, <2>3
<1>3. \A h \in lo..at : c \in Mints(br[h]) => conf2[c] = h
  <2> TAKE h \in lo..at
  <2>1. CASE h = at  BY <1>0, <2>1
  <2>2. CASE h \in lo..at - 1  BY <1>0, <1>1, <1>2, <2>2
  <2> QED BY <2>1, <2>2
<1>4. conf2[c] # 0 => conf2[c] \in lo..at /\ c \in Mints(br[conf2[c]])
  BY <1>0, <1>1
<1>5. ASSUME conf2[c] # 0, spentAt2[c] = 0, NEW h \in lo..at, c \in Spends(br[h]) PROVE FALSE
  <2>1. PICK k \in 1..h - 1 : c \in Mints(br[k])  BY <1>2, <1>5
  <2>2. k \in 1..at - 1  BY <2>1
  <2>3. c \notin Mints(br[at])  BY <1>2, <2>1, <2>2
  <2>4. conf[c] # 0 /\ spentAt[c] = 0  BY <1>0, <1>5, <2>3
  <2>5. h # at  BY <1>0, <1>5, <2>4
  <2> QED BY <1>1, <1>5, <2>4, <2>5
<1>6. spentAt2[c] # 0 => conf2[c] # 0 /\ spentAt2[c] \in lo..at /\ c \in Spends(br[spentAt2[c]])
  BY <1>0, <1>1
<1> QED BY <1>3, <1>4, <1>5, <1>6

\* What is above a height undone.
LEMMA CoinsBack ==
    ASSUME NEW conf \in [Coin -> Nat], NEW spentAt \in [Coin -> Nat], NEW br,
           NEW lo \in Nat \ {0}, NEW hi \in Nat, NEW to \in Nat, to <= hi,
           Sound(br), Len(br) \in Nat, hi <= Len(br), CoinsOK(conf, spentAt, br, lo, hi),
           NEW conf2, NEW spentAt2,
           \A c \in Coin : conf2[c] = (IF conf[c] > to THEN 0 ELSE conf[c]),
           \A c \in Coin : spentAt2[c] = (IF conf[c] > to \/ spentAt[c] > to THEN 0 ELSE spentAt[c])
    PROVE  CoinsOK(conf2, spentAt2, br, lo, to)
<1> SUFFICES ASSUME NEW c \in Coin
             PROVE  /\ \A h \in lo..to : c \in Mints(br[h]) => conf2[c] = h
                    /\ conf2[c] # 0 => conf2[c] \in lo..to /\ c \in Mints(br[conf2[c]])
                    /\ conf2[c] # 0 /\ spentAt2[c] = 0 => \A h \in lo..to : c \notin Spends(br[h])
                    /\ spentAt2[c] # 0 => conf2[c] # 0 /\ spentAt2[c] \in lo..to /\ c \in Spends(br[spentAt2[c]])
    BY DEF CoinsOK
<1>0. /\ conf[c] \in Nat /\ spentAt[c] \in Nat
      /\ conf2[c] = (IF conf[c] > to THEN 0 ELSE conf[c])
      /\ spentAt2[c] = (IF conf[c] > to \/ spentAt[c] > to THEN 0 ELSE spentAt[c])
  OBVIOUS
<1>1. /\ \A h \in lo..hi : c \in Mints(br[h]) => conf[c] = h
      /\ conf[c] # 0 => conf[c] \in lo..hi /\ c \in Mints(br[conf[c]])
      /\ conf[c] # 0 /\ spentAt[c] = 0 => \A h \in lo..hi : c \notin Spends(br[h])
      /\ spentAt[c] # 0 => conf[c] # 0 /\ spentAt[c] \in lo..hi /\ c \in Spends(br[spentAt[c]])
  BY DEF CoinsOK
<1>2. \A h, k \in lo..hi : c \in Spends(br[h]) /\ c \in Spends(br[k]) => h = k
  <2>1. \A h \in lo..hi : h \in 1..Len(br)  OBVIOUS
  <2> QED BY <2>1 DEF Sound
<1>3. ASSUME conf2[c] # 0, spentAt2[c] = 0, NEW h \in lo..to, c \in Spends(br[h]) PROVE FALSE
  <2>1. conf[c] # 0 /\ conf[c] <= to /\ h \in lo..hi  BY <1>0, <1>3
  <2>2. CASE spentAt[c] = 0  BY <1>1, <1>3, <2>1, <2>2
  <2>3. CASE spentAt[c] # 0
    <3>1. spentAt[c] > to  BY <1>0, <1>3, <2>1, <2>3
    <3>2. spentAt[c] \in lo..hi /\ c \in Spends(br[spentAt[c]])  BY <1>1, <2>3
    <3>3. spentAt[c] = h  BY <1>2, <1>3, <2>1, <3>2
    <3> QED BY <3>1, <3>3
  <2> QED BY <2>2, <2>3
<1>4. \A h \in lo..to : c \in Mints(br[h]) => conf2[c] = h  BY <1>0, <1>1
<1>5. conf2[c] # 0 => conf2[c] \in lo..to /\ c \in Mints(br[conf2[c]])  BY <1>0, <1>1
<1>6. spentAt2[c] # 0 => conf2[c] # 0 /\ spentAt2[c] \in lo..to /\ c \in Spends(br[spentAt2[c]])  BY <1>0, <1>1
<1> QED BY <1>3, <1>4, <1>5, <1>6

(* What the ledger's operations do to coins *)

\* Everything of a wallet that says where its coins are from.
SameCoins(v, w) ==
    /\ v.conf = w.conf /\ v.spentAt = w.spentAt
    /\ v.synced = w.synced /\ v.linked = w.linked /\ v.birthday = w.birthday
    /\ v.branch = w.branch /\ v.kept = w.kept

LEMMA ReleaseCoins ==
    ASSUME NEW w \in WalletType, NEW S
    PROVE  Release(w, S) \in WalletType /\ SameCoins(Release(w, S), w)
BY ReleaseType DEF Release, WalletType, SameCoins

LEMMA RowCoins ==
    ASSUME NEW w \in WalletType, NEW v, NEW rows, v = [w EXCEPT !.row = rows]
    PROVE  SameCoins(v, w)
BY DEF WalletType, SameCoins

LEMMA SameCoinsTwice ==
    ASSUME NEW u, NEW v, NEW w, SameCoins(u, v), SameCoins(v, w)
    PROVE  SameCoins(u, w)
BY DEF SameCoins

LEMMA ExpireSendsCoins ==
    ASSUME NEW w \in WalletType
    PROVE  SameCoins(ExpireSends(w), w)
<1> DEFINE r == Release(w, Overdue(w))
           rows == [s \in Sends |-> IF s \in Overdue(w) THEN Failed(w.row[s], "expired") ELSE w.row[s]]
<1>1. r \in WalletType /\ SameCoins(r, w)  BY ReleaseCoins
<1> HIDE DEF r
<1>2. SameCoins([r EXCEPT !.row = rows], r)  BY <1>1, RowCoins
<1>3. ExpireSends(w) = [r EXCEPT !.row = rows]  BY DEF ExpireSends, r
<1> QED BY <1>1, <1>2, <1>3, SameCoinsTwice

LEMMA RecordPendingCoins ==
    ASSUME NEW w \in WalletType, NEW s \in Sends, NEW at
    PROVE  SameCoins(RecordPending(w, s, at), w)
BY DEF RecordPending, WalletType, SameCoins

LEMMA DropRowCoins ==
    ASSUME NEW w \in WalletType, NEW s
    PROVE  SameCoins(DropRow(w, s), w)
BY DEF DropRow, WalletType, SameCoins

LEMMA DiscardPendingCoins ==
    ASSUME NEW w \in WalletType, NEW s
    PROVE  SameCoins(DiscardPending(w, s), w)
<1> DEFINE r == Release(w, {s})
<1>1. r \in WalletType /\ SameCoins(r, w)  BY ReleaseCoins
<1>2. SameCoins(w, w)  BY DEF SameCoins
<1>3. DiscardPending(w, s) = w \/ DiscardPending(w, s) = DropRow(r, s)  BY DEF DiscardPending
<1> HIDE DEF r
<1> QED BY <1>1, <1>2, <1>3, DropRowCoins, SameCoinsTwice

LEMMA ForgetSendCoins ==
    ASSUME NEW w \in WalletType, NEW s
    PROVE  SameCoins(ForgetSend(w, s), w)
<1> DEFINE r == Release(w, {s})
           v == [r EXCEPT !.row = [r.row EXCEPT ![s] = Failed(r.row[s], "givenUp")]]
<1>1. r \in WalletType /\ SameCoins(r, w)  BY ReleaseCoins
<1>2. SameCoins(w, w)  BY DEF SameCoins
<1>3. ForgetSend(w, s) = w \/ ForgetSend(w, s) = v  BY DEF ForgetSend
<1> HIDE DEF r
<1>4. SameCoins(v, r)  BY <1>1, RowCoins
<1> HIDE DEF v
<1> QED BY <1>1, <1>2, <1>3, <1>4, SameCoinsTwice

LEMMA RecordOutgoingCoins ==
    ASSUME NEW w \in WalletType, NEW t, NEW ins
    PROVE  SameCoins(RecordOutgoing(w, t, ins), w)
BY DEF RecordOutgoing, SetHold, WalletType, SameCoins

LEMMA ExpireRowCoins ==
    ASSUME NEW w \in WalletType, NEW key
    PROVE  SameCoins(ExpireRow(w, key), w)
BY DEF ExpireRow, SetHold, WalletType, SameCoins

\* A block written: its coins known at its height, those it spends spent at it.
Wrote(v, w, h, b) ==
    /\ \A c \in Coin :
          /\ v.conf[c] = (IF c \in b.incoming THEN h ELSE w.conf[c])
          /\ v.spentAt[c] = (IF c \in b.spent /\ v.conf[c] # 0 THEN h ELSE w.spentAt[c])
    /\ v.kept = w.kept \cup {h} /\ v.birthday = w.birthday

LEMMA WriteBlockCoins ==
    ASSUME NEW w \in WalletType, NEW from \in WalletType, NEW h \in Nat \ {0}, NEW b \in ScannedBlock,
           NEW v, v = WriteBlock(w, from, h, b)
    PROVE  v \in WalletType /\ Wrote(v, w, h, b)
<1> DEFINE got == Receive(w, from, h, b.incoming)
           gone == {c \in b.spent : Known(got, c)}
           settled == Settle(got, Carried(got, b), gone, h)
<1>1. got \in WalletType  BY ReceiveType
<1>2. got.conf = [c \in Coin |-> IF c \in b.incoming THEN h ELSE w.conf[c]] /\ got.spentAt = w.spentAt
      /\ got.kept = w.kept /\ got.birthday = w.birthday
  BY DEF Receive, WalletType
<1>3. Carried(got, b) \in SUBSET Sends /\ gone \in SUBSET Coin  BY DEF Carried, ScannedBlock
<1>4. \A c \in Coin : c \in gone <=> c \in b.spent /\ got.conf[c] # 0  BY DEF Known
<1> HIDE DEF got, gone
<1>5. settled \in WalletType  BY <1>1, <1>3, SettleType
<1>6. settled.spentAt = [c \in Coin |-> IF c \in gone THEN h ELSE got.spentAt[c]] /\ settled.conf = got.conf
      /\ settled.kept = got.kept \cup {h} /\ settled.birthday = got.birthday
  BY <1>1 DEF Settle, WalletType
<1> HIDE DEF settled
<1>7. v = DropStale(settled, b.spent)  BY DEF WriteBlock, settled, got, gone
<1>8. /\ v.conf = settled.conf /\ v.spentAt = settled.spentAt /\ v.kept = settled.kept /\ v.birthday = settled.birthday
  BY <1>5, <1>7 DEF DropStale, WalletType
<1>9. v \in WalletType  BY WriteBlockType
<1>10. \A c \in Coin : v.conf[c] = (IF c \in b.incoming THEN h ELSE w.conf[c])  BY <1>2, <1>6, <1>8
<1>11. \A c \in Coin : v.spentAt[c] = (IF c \in b.spent /\ v.conf[c] # 0 THEN h ELSE w.spentAt[c])
  BY <1>2, <1>4, <1>6, <1>8
<1>12. v.kept = w.kept \cup {h} /\ v.birthday = w.birthday  BY <1>2, <1>6, <1>8
<1> QED BY <1>9, <1>10, <1>11, <1>12 DEF Wrote

(* A wallet in its place on the chain it scanned *)

\* The blocks kept are an unbroken run up to the newest one scanned.
Run(kept, synced) ==
    /\ synced \in kept
    /\ \A k \in kept : k..synced \subseteq kept
    /\ \A k \in kept : k <= synced /\ k > synced - KeepBlocks

\* branch is what was scanned; a wallet with no hash of its newest block has
\* scanned nothing; and coins and kept blocks are those of the scanned part.
InPlace(w) ==
    /\ Sound(w.branch)
    /\ w.synced # NoSync => Len(w.branch) = w.synced /\ w.birthday - 1 <= w.synced
    /\ ~w.linked => w.kept = {} /\ (w.synced = NoSync \/ w.synced = w.birthday - 1)
    /\ w.kept \subseteq w.birthday..w.synced
    /\ w.linked => Run(w.kept, w.synced)
    /\ CoinsOK(w.conf, w.spentAt, w.branch, w.birthday, w.synced)

LEMMA SameInPlace ==
    ASSUME NEW v, NEW w, SameCoins(v, w), InPlace(w)
    PROVE  InPlace(v)
BY DEF SameCoins, InPlace

LEMMA SameUnspent ==
    ASSUME NEW v, NEW w, SameCoins(v, w)
    PROVE  Unspent(v) = Unspent(w) /\ Position(v) = Position(w)
BY DEF SameCoins, Unspent, IsUnspent, Known, Position

LEMMA WalletFields ==
    ASSUME NEW w \in WalletType
    PROVE  /\ w.conf \in [Coin -> Nat] /\ w.spentAt \in [Coin -> Nat]
           /\ (w.synced \in Nat \/ w.synced = NoSync) /\ w.synced \in Int
           /\ w.branch \in Seq(Block) /\ Len(w.branch) \in Nat /\ w.birthday \in Nat
           /\ w.kept \in SUBSET Nat /\ w.linked \in BOOLEAN
<1>1. w.branch \in Seq(Block)  BY DEF WalletType
<1>2. Len(w.branch) \in Nat  BY <1>1, LenProperties
<1>3. w.conf \in [Coin -> Nat] /\ w.spentAt \in [Coin -> Nat] /\ w.birthday \in Nat  BY DEF WalletType
<1>4. w.kept \in SUBSET Nat /\ w.linked \in BOOLEAN  BY DEF WalletType
<1>5. w.synced \in Nat \cup {NoSync}  BY DEF WalletType
<1>7. NoSync \in Int  OBVIOUS
<1>6. (w.synced \in Nat \/ w.synced = NoSync) /\ w.synced \in Int  BY <1>5, <1>7
<1> QED BY <1>1, <1>2, <1>3, <1>4, <1>6

\* One block of a batch written: coins are right one block further, and what
\* is unspent then is what the scan of the next block counts on (After).
LEMMA OneBlock ==
    ASSUME NEW w \in WalletType, NEW from \in WalletType, NEW h \in Nat \ {0}, NEW b \in ScannedBlock,
           NEW br \in Seq(Block), Sound(br), NEW lo \in Nat \ {0}, lo <= h, h <= Len(br),
           CoinsOK(w.conf, w.spentAt, br, lo, h - 1),
           b.incoming = Mints(br[h]), b.spent = Spends(br[h]) \cap Unspent(w),
           NEW v, v = WriteBlock(w, from, h, b)
    PROVE  CoinsOK(v.conf, v.spentAt, br, lo, h) /\ Unspent(v) = After(Unspent(w), b)
<1> DEFINE conf == w.conf
           spentAt == w.spentAt
<1>1. conf \in [Coin -> Nat] /\ spentAt \in [Coin -> Nat] /\ Len(br) \in Nat  BY WalletFields, LenProperties
<1>2. \A c \in Coin : /\ v.conf[c] = (IF c \in b.incoming THEN h ELSE w.conf[c])
                      /\ v.spentAt[c] = (IF c \in b.spent /\ v.conf[c] # 0 THEN h ELSE w.spentAt[c])
  <2>1. Wrote(v, w, h, b)  BY WriteBlockCoins
  <2> QED BY <2>1 DEF Wrote
<1>3. \A c \in Coin : c \in Unspent(w) <=> conf[c] # 0 /\ spentAt[c] = 0  BY DEF Unspent, IsUnspent, Known
<1>4. \A c \in Coin : c \in Unspent(v) <=> v.conf[c] # 0 /\ v.spentAt[c] = 0  BY DEF Unspent, IsUnspent, Known
<1>5. Unspent(v) \subseteq Coin /\ Unspent(w) \subseteq Coin /\ b.incoming \subseteq Coin
  BY DEF Unspent, ScannedBlock
<1>5a. CoinsOK(conf, spentAt, br, lo, h - 1)  OBVIOUS
<1> DEFINE conf2 == v.conf
           spentAt2 == v.spentAt
<1>2a. \A c \in Coin : /\ conf2[c] = (IF c \in b.incoming THEN h ELSE conf[c])
                       /\ spentAt2[c] = (IF c \in b.spent /\ conf2[c] # 0 THEN h ELSE spentAt[c])
  BY <1>2
<1>4a. \A c \in Coin : c \in Unspent(v) <=> conf2[c] # 0 /\ spentAt2[c] = 0  BY <1>4
<1> HIDE DEF conf, spentAt, conf2, spentAt2
<1>6. \A c \in Coin : conf2[c] = (IF c \in Mints(br[h]) THEN h ELSE conf[c])  BY <1>2a
<1>7. \A c \in Coin : spentAt2[c] = (IF c \in Spends(br[h]) /\ conf[c] # 0 /\ spentAt[c] = 0 THEN h ELSE spentAt[c])
  <2> TAKE c \in Coin
  <2>1. c \in b.spent <=> c \in Spends(br[h]) /\ conf[c] # 0 /\ spentAt[c] = 0  BY <1>3
  <2>2. c \in b.spent => conf2[c] # 0  BY <2>1, <1>2a
  <2> QED BY <1>2a, <2>1, <2>2
<1>8. CoinsOK(conf2, spentAt2, br, lo, h)  BY <1>1, <1>5a, <1>6, <1>7, CoinsExtend
<1>9. \A c \in Mints(br[h]) : c \in Coin => conf[c] = 0 /\ spentAt[c] = 0
  <2> SUFFICES ASSUME NEW c \in Coin, c \in Mints(br[h]) PROVE conf[c] = 0 /\ spentAt[c] = 0
      OBVIOUS
  <2>1. /\ conf[c] # 0 => conf[c] \in lo..h - 1 /\ c \in Mints(br[conf[c]])
        /\ spentAt[c] # 0 => conf[c] # 0
    BY <1>5a DEF CoinsOK
  <2>2. conf[c] # 0 => FALSE
    <3> SUFFICES ASSUME conf[c] # 0 PROVE FALSE
        OBVIOUS
    <3> DEFINE k == conf[c]
    <3>1. k \in lo..h - 1 /\ c \in Mints(br[k])  BY <2>1
    <3> HIDE DEF k
    <3>2. k \in 1..Len(br) /\ h \in 1..Len(br) /\ k # h  BY <3>1, <1>1
    <3> QED BY <3>1, <3>2 DEF Sound
  <2> QED BY <2>1, <2>2
<1>10. \A c \in Coin : c \in Unspent(v) <=> c \in (Unspent(w) \ b.spent) \cup b.incoming
  <2> TAKE c \in Coin
  <2>1. CASE c \in b.incoming
    <3>1. conf[c] = 0 /\ spentAt[c] = 0  BY <1>9, <2>1
    <3>2. c \notin b.spent  BY <1>3, <3>1
    <3>3. conf2[c] = h /\ spentAt2[c] = 0  BY <1>2a, <2>1, <3>1, <3>2
    <3> QED BY <1>4a, <2>1, <3>3
  <2>2. CASE c \notin b.incoming /\ c \in b.spent
    <3>1. conf2[c] = conf[c] /\ conf[c] # 0  BY <1>2a, <1>3, <2>2
    <3>2. spentAt2[c] = h  BY <1>2a, <2>2, <3>1
    <3> QED BY <1>4a, <2>2, <3>2
  <2>3. CASE c \notin b.incoming /\ c \notin b.spent  BY <1>2a, <1>3, <1>4a, <2>3
  <2> QED BY <2>1, <2>2, <2>3
<1>11. Unspent(v) = After(Unspent(w), b)  BY <1>5, <1>10 DEF After
<1> QED BY <1>8, <1>11 DEF conf2, spentAt2

(* A batch that was scanned and not yet written *)

\* It starts where the wallet stands, on a chain that holds what the wallet
\* scanned, and says of each block what that block makes and spends.
BatchFits(b, w) ==
    /\ b.from = Position(w) + 1
    /\ Sound(b.branch) /\ Len(b.branch) = b.from + Len(b.blocks) - 1
    /\ \A h \in w.birthday..w.synced : b.branch[h] = w.branch[h]
    /\ b.blocks[1].incoming = Mints(b.branch[b.from])
    /\ b.blocks[1].spent = Spends(b.branch[b.from]) \cap Unspent(w)
    /\ Len(b.blocks) = 2 =>
          /\ b.blocks[2].incoming = Mints(b.branch[b.from + 1])
          /\ b.blocks[2].spent = Spends(b.branch[b.from + 1]) \cap After(Unspent(w), b.blocks[1])

LEMMA SameBatchFits ==
    ASSUME NEW b, NEW v, NEW w, SameCoins(v, w), BatchFits(b, w)
    PROVE  BatchFits(b, v)
<1>1. Unspent(v) = Unspent(w) /\ Position(v) = Position(w)  BY SameUnspent
<1> QED BY <1>1 DEF BatchFits, SameCoins

(* Operations that move a wallet along its chain *)

LEMMA PositionFacts ==
    ASSUME NEW w \in WalletType, w.birthday # 0
    PROVE  Position(w) \in Nat
BY WalletFields DEF Position

LEMMA NewInPlace ==
    ASSUME NEW h \in Nat
    PROVE  InPlace(NewWallet(h))
<1> DEFINE n == NewWallet(h)
<1>1. /\ n.conf = [c \in Coin |-> 0] /\ n.spentAt = [c \in Coin |-> 0] /\ n.kept = {}
      /\ n.synced = NoSync /\ n.linked = FALSE /\ n.branch = <<>> /\ n.birthday = h
  BY DEF NewWallet
<1> HIDE DEF n
<1>2. Sound(n.branch)  BY <1>1 DEF Sound
<1>3. \A k \in n.birthday..n.synced : FALSE  BY <1>1
<1>4. CoinsOK(n.conf, n.spentAt, n.branch, n.birthday, n.synced)  BY <1>1, <1>3 DEF CoinsOK
<1>5. InPlace(n)  BY <1>1, <1>2, <1>4 DEF InPlace
<1> QED BY <1>5 DEF n

LEMMA ResetInPlace ==
    ASSUME NEW w, NEW h \in Nat
    PROVE  InPlace(ResetForRescan(w, h))
<1> DEFINE rows == [s \in Sends |-> IF IsPending(w, s) \/ GivenUp(w, s) THEN w.row[s] ELSE NoSend]
<1>1. ResetForRescan(w, h) = [NewWallet(h) EXCEPT !.row = rows]  BY DEF ResetForRescan
<1> HIDE DEF rows
<1>2. SameCoins(ResetForRescan(w, h), NewWallet(h))  BY <1>1, NewWalletType, RowCoins
<1> QED BY <1>2, NewInPlace, SameInPlace

\* Only a wallet that scanned nothing has its start moved.
LEMMA StartedInPlace ==
    ASSUME NEW w \in WalletType, InPlace(w), w.linked => w.synced # NoSync, NEW tip \in Nat, NEW hint \in Nat
    PROVE  InPlace(Started(w, tip, hint))
<1> DEFINE v == Started(w, tip, hint)
<1>1. CASE ~(w.synced = NoSync /\ (w.birthday = 0 \/ w.birthday > tip))  BY <1>1 DEF Started
<1>2. CASE w.synced = NoSync /\ (w.birthday = 0 \/ w.birthday > tip)
  <2> DEFINE at == IF w.birthday = 0 /\ hint \in 1..tip THEN hint ELSE tip
  <2>1. at \in Nat  OBVIOUS
  <2>2. v = [w EXCEPT !.birthday = at]  BY <1>2 DEF Started
  <2> HIDE DEF at, v
  <2>3. /\ v.conf = w.conf /\ v.spentAt = w.spentAt /\ v.kept = w.kept /\ v.synced = w.synced
        /\ v.linked = w.linked /\ v.branch = w.branch /\ v.birthday = at
    BY <2>2 DEF WalletType
  <2>4. w.synced = NoSync /\ ~w.linked /\ w.kept = {}  BY <1>2 DEF InPlace
  <2>5. (\A k \in w.birthday..w.synced : FALSE) /\ (\A k \in at..w.synced : FALSE)
    BY <2>1, <2>4, WalletFields
  <2>6. CoinsOK(w.conf, w.spentAt, w.branch, w.birthday, w.synced)  BY DEF InPlace
  <2>7. CoinsOK(w.conf, w.spentAt, w.branch, at, w.synced)  BY <2>5, <2>6 DEF CoinsOK
  <2>8. InPlace(v)  BY <2>3, <2>4, <2>7 DEF InPlace
  <2> QED BY <2>8 DEF v
<1> QED BY <1>1, <1>2

\* Back to a height that is scanned, or to just below the first one.
LEMMA RollBackInPlace ==
    ASSUME NEW w \in WalletType, InPlace(w), w.synced # NoSync, w.birthday # 0, NEW h \in Nat, NEW linked \in BOOLEAN,
           \/ linked /\ h \in w.kept /\ h < w.synced
           \/ ~linked /\ h = w.birthday - 1 /\ (\A k \in w.kept : ~(k < w.synced))
    PROVE  InPlace(RollBack(w, h, linked))
<1> DEFINE v == RollBack(w, h, linked)
           lo == w.birthday
           hi == w.synced
           conf == w.conf
           spentAt == w.spentAt
           br == w.branch
           kept == w.kept
           kept2 == KeptUpTo(w, h)
           br2 == UpTo(br, h)
<1>1. /\ conf \in [Coin -> Nat] /\ spentAt \in [Coin -> Nat] /\ lo \in Nat \ {0} /\ hi \in Nat
      /\ br \in Seq(Block) /\ Len(br) \in Nat /\ kept \in SUBSET Nat
  BY WalletFields
<1>2. Sound(br) /\ Len(br) = hi /\ lo - 1 <= hi /\ kept \subseteq lo..hi /\ CoinsOK(conf, spentAt, br, lo, hi)
  BY DEF InPlace
<1>3. h <= hi /\ lo - 1 <= h
  <2>1. CASE h \in w.kept /\ h < w.synced
    <3>1. h \in lo..hi  BY <1>2, <2>1
    <3> QED BY <1>1, <3>1
  <2>2. CASE h = w.birthday - 1  BY <1>1, <1>2, <2>2
  <2> QED BY <2>1, <2>2
<1>4. /\ v.kept = kept2 /\ v.synced = h /\ v.linked = linked /\ v.birthday = lo
      /\ v.branch = IF h <= Len(br) THEN br2 ELSE br
  BY DEF RollBack, WalletType
<1>5. v.branch = br2  BY <1>2, <1>3, <1>4
<1>6. \A c \in Coin : v.conf[c] = (IF conf[c] > h THEN 0 ELSE conf[c])
  BY DEF RollBack, CoinsAbove, WalletType
<1>7. \A c \in Coin : v.spentAt[c] = (IF conf[c] > h \/ spentAt[c] > h THEN 0 ELSE spentAt[c])
  <2> TAKE c \in Coin
  <2>1. v.spentAt[c] = IF c \in CoinsAbove(w, h) \cup SpentAbove(w, h) THEN 0 ELSE w.spentAt[c]
    BY DEF RollBack, WalletType
  <2>2. c \in CoinsAbove(w, h) \cup SpentAbove(w, h) <=> conf[c] > h \/ (conf[c] <= h /\ spentAt[c] > h)
    BY DEF CoinsAbove, SpentAbove
  <2>3. conf[c] \in Nat /\ spentAt[c] \in Nat  BY <1>1
  <2> HIDE DEF conf
  <2>4. conf[c] > h \/ (conf[c] <= h /\ spentAt[c] > h) <=> conf[c] > h \/ spentAt[c] > h  BY <2>3
  <2> QED BY <2>1, <2>2, <2>4
<1>8. kept2 = {k \in kept : k <= h}  BY DEF KeptUpTo
<1>9. ~linked => kept2 = {}
  <2> SUFFICES ASSUME ~linked PROVE kept2 = {}
      OBVIOUS
  <2>1. h = lo - 1 /\ kept \subseteq lo..hi  BY <1>2
  <2> HIDE DEF lo, hi, kept, kept2
  <2>2. \A k \in kept : ~(k <= h)  BY <1>1, <2>1
  <2> QED BY <1>8, <2>2
<1>10. linked => Run(kept2, h)
  <2> SUFFICES ASSUME linked PROVE Run(kept2, h)
      OBVIOUS
  <2>1. h \in kept /\ h < hi  OBVIOUS
  <2>2. w.linked  BY <2>1 DEF InPlace
  <2>3. Run(kept, hi)  BY <2>2 DEF InPlace
  <2> HIDE DEF lo, hi, kept, kept2
  <2>4. h \in kept2  BY <1>8, <2>1
  <2>5. ASSUME NEW k \in kept2 PROVE k..h \subseteq kept2 /\ k <= h /\ k > h - KeepBlocks
    <3>1. k \in kept /\ k <= h /\ k \in Nat  BY <1>1, <1>8
    <3>2. k..hi \subseteq kept /\ k > hi - KeepBlocks  BY <2>3, <3>1 DEF Run
    <3>3. \A i \in k..h : i \in k..hi /\ i <= h  BY <1>1, <2>1, <3>1
    <3>4. k..h \subseteq kept2  BY <1>8, <3>2, <3>3
    <3>5. k > h - KeepBlocks  BY <1>1, <2>1, <3>1, <3>2, LedgerAssumption
    <3> QED BY <3>1, <3>4, <3>5
  <2> QED BY <2>4, <2>5 DEF Run
<1>11. kept2 \subseteq lo..h
  <2> HIDE DEF lo, hi, kept, kept2
  <2> SUFFICES ASSUME NEW k \in kept2 PROVE k \in lo..h
      OBVIOUS
  <2>1. k \in kept /\ k <= h  BY <1>8
  <2>2. k \in lo..hi  BY <1>2, <2>1
  <2> QED BY <1>1, <2>1, <2>2
<1>12. Sound(br2) /\ Len(br2) = h /\ \A i \in 1..h : br2[i] = br[i]
  BY <1>1, <1>2, <1>3, UpToBlocks, SoundBelow
<1> DEFINE conf2 == v.conf
           spentAt2 == v.spentAt
<1> HIDE DEF v, lo, hi, conf, spentAt, br, kept, kept2, br2, conf2, spentAt2
<1>13. /\ \A c \in Coin : conf2[c] = (IF conf[c] > h THEN 0 ELSE conf[c])
       /\ \A c \in Coin : spentAt2[c] = (IF conf[c] > h \/ spentAt[c] > h THEN 0 ELSE spentAt[c])
  BY <1>6, <1>7 DEF conf2, spentAt2
<1>14. CoinsOK(conf2, spentAt2, br, lo, h)
  <2>1. /\ conf \in [Coin -> Nat] /\ spentAt \in [Coin -> Nat] /\ lo \in Nat \ {0} /\ hi \in Nat
        /\ h \in Nat /\ h <= hi /\ Sound(br) /\ Len(br) \in Nat /\ hi <= Len(br)
        /\ CoinsOK(conf, spentAt, br, lo, hi)
    BY <1>1, <1>2, <1>3
  <2> QED BY <2>1, <1>13, CoinsBack, Zenon
<1>15. \A i \in lo..h : br2[i] = br[i]  BY <1>1, <1>12
<1>16. CoinsOK(conf2, spentAt2, br2, lo, h)  BY <1>1, <1>14, <1>15, CoinsOnBoth
<1>17. linked \/ h = lo - 1  BY DEF lo
<1>18. InPlace(v)
  BY <1>3, <1>4, <1>5, <1>9, <1>10, <1>11, <1>12, <1>16, <1>17 DEF InPlace, conf2, spentAt2
<1> QED BY <1>18 DEF v

\* What is known of a batch that fits a wallet: it begins with the block above
\* the wallet's position, below which the coins are those of the batch's chain.
Stands(b, w) ==
    /\ w.birthday \in Nat \ {0} /\ b.from \in Nat \ {0} /\ w.birthday <= b.from
    /\ (w.synced = NoSync /\ b.from = w.birthday) \/ w.synced = b.from - 1
    /\ Sound(b.branch) /\ Len(b.branch) \in Nat /\ b.from <= Len(b.branch)
    /\ Len(b.branch) = b.from + Len(b.blocks) - 1
    /\ CoinsOK(w.conf, w.spentAt, b.branch, w.birthday, b.from - 1)
    /\ Len(b.blocks) = 1 \/ Len(b.blocks) = 2
    /\ b.blocks[1] \in ScannedBlock /\ (Len(b.blocks) = 2 => b.blocks[2] \in ScannedBlock)

LEMMA BatchStands ==
    ASSUME NEW w \in WalletType, InPlace(w), w.birthday # 0, NEW b, BatchFits(b, w),
           b.from \in Nat \ {0}, b.blocks \in Seq(ScannedBlock), Len(b.blocks) \in 1..2,
           b.branch \in Seq(Block), w.linked => w.synced # NoSync
    PROVE  Stands(b, w)
<1> DEFINE h == b.from
           blocks == b.blocks
           br == b.branch
           lo == w.birthday
           n == Len(blocks)
<1>1. lo \in Nat \ {0} /\ lo <= h /\ (w.synced = NoSync \/ w.synced = h - 1) /\ h \in Nat \ {0}
      /\ (w.synced = NoSync => h = lo)
  <2>1. h = Position(w) + 1 /\ (w.synced # NoSync => lo - 1 <= w.synced)  BY DEF BatchFits, InPlace
  <2>2. (w.synced \in Nat \/ w.synced = NoSync) /\ lo \in Nat /\ lo # 0  BY WalletFields
  <2> DEFINE sy == w.synced
  <2>3. Position(w) = IF sy = NoSync THEN lo - 1 ELSE sy  BY DEF Position
  <2> HIDE DEF lo, h, sy
  <2>4. lo \in Nat \ {0} /\ lo <= h /\ (sy = NoSync \/ sy = h - 1) /\ (sy = NoSync => h = lo)
    BY <2>1, <2>2, <2>3 DEF sy
  <2> QED BY <2>4 DEF sy, h
<1>2. Sound(br) /\ Len(br) = h + Len(blocks) - 1 /\ Len(br) \in Nat  BY LenProperties DEF BatchFits
<1>3. CoinsOK(w.conf, w.spentAt, br, lo, h - 1)
  <2>1. CoinsOK(w.conf, w.spentAt, w.branch, lo, w.synced)  BY DEF InPlace
  <2>2. \A k \in lo..w.synced : br[k] = w.branch[k]  BY DEF BatchFits
  <2>3. w.synced \in Int  BY WalletFields
  <2>4. CoinsOK(w.conf, w.spentAt, br, lo, w.synced)
    <3> DEFINE conf == w.conf
               spentAt == w.spentAt
               brw == w.branch
               sy == w.synced
    <3>1. CoinsOK(conf, spentAt, brw, lo, sy) /\ (\A k \in lo..sy : br[k] = brw[k]) /\ sy \in Int /\ lo \in Int
      BY <1>1, <2>1, <2>2, <2>3
    <3> HIDE DEF conf, spentAt, brw, sy, lo, br
    <3>2. CoinsOK(conf, spentAt, br, lo, sy)  BY <3>1, CoinsOnBoth
    <3> QED BY <3>2 DEF conf, spentAt, sy
  <2>5. CASE w.synced = h - 1
    <3> HIDE DEF h
    <3> QED BY <2>4, <2>5
  <2>6. CASE w.synced = NoSync
    <3> HIDE DEF h, lo
    <3>1. (\A k \in lo..w.synced : FALSE) /\ (\A k \in lo..h - 1 : FALSE)  BY <1>1, <2>6
    <3> QED BY <2>4, <3>1 DEF CoinsOK
  <2> QED BY <1>1, <2>5, <2>6
<1>4. n = 1 \/ n = 2
  <2>1. n \in 1..2  OBVIOUS
  <2> HIDE DEF n
  <2> QED BY <2>1
<1>5. blocks[1] \in ScannedBlock
  <2>1. 1 \in 1..n
    <3> HIDE DEF n
    <3> QED BY <1>4
  <2>2. blocks \in Seq(ScannedBlock)  OBVIOUS
  <2> QED BY <2>1, <2>2, LenProperties
<1>6. n = 2 => blocks[2] \in ScannedBlock
  <2> SUFFICES ASSUME n = 2 PROVE blocks[2] \in ScannedBlock
      OBVIOUS
  <2>1. 2 \in 1..n
    <3> HIDE DEF n
    <3> QED OBVIOUS
  <2>2. blocks \in Seq(ScannedBlock)  OBVIOUS
  <2> QED BY <2>1, <2>2, LenProperties
<1>7. h <= Len(br)
  <2>1. Len(br) = h + n - 1  BY <1>2
  <2> HIDE DEF h, n, br
  <2> QED BY <1>1, <1>4, <2>1
<1> QED BY <1>1, <1>2, <1>3, <1>4, <1>5, <1>6, <1>7 DEF Stands

\* The blocks of a batch written, one or two: up to `last` the coins are the
\* chain's, and the heights of the batch are kept.
BlocksWritten(u, w, br, h, last) ==
    /\ u \in WalletType /\ u.birthday = w.birthday
    /\ u.kept = w.kept \cup (h..last)
    /\ CoinsOK(u.conf, u.spentAt, br, w.birthday, last)

LEMMA WriteBlocksCoins ==
    ASSUME NEW w \in WalletType, InPlace(w), w.birthday # 0, NEW b, BatchFits(b, w),
           b.from \in Nat \ {0}, b.blocks \in Seq(ScannedBlock), Len(b.blocks) \in 1..2,
           b.branch \in Seq(Block), w.linked => w.synced # NoSync
    PROVE  BlocksWritten(WriteBlocks(w, b.from, b.blocks), w, b.branch, b.from, b.from + Len(b.blocks) - 1)
<1> DEFINE h == b.from
           blocks == b.blocks
           br == b.branch
           lo == w.birthday
           u == WriteBlocks(w, h, blocks)
           one == WriteBlock(w, w, h, blocks[1])
<1>0. Stands(b, w)  BY BatchStands
<1>1. lo \in Nat \ {0} /\ lo <= h /\ h \in Nat \ {0}  BY <1>0 DEF Stands
<1>2. Sound(br) /\ Len(br) = h + Len(blocks) - 1 /\ Len(br) \in Nat /\ h <= Len(br)  BY <1>0 DEF Stands
<1>3. CoinsOK(w.conf, w.spentAt, br, lo, h - 1)  BY <1>0 DEF Stands
<1>4. blocks[1] \in ScannedBlock  BY <1>0 DEF Stands
<1>5. blocks[1].incoming = Mints(br[h]) /\ blocks[1].spent = Spends(br[h]) \cap Unspent(w)
  BY DEF BatchFits
<1>6. one \in WalletType /\ one.kept = w.kept \cup {h} /\ one.birthday = w.birthday
  <2>1. one \in WalletType /\ Wrote(one, w, h, blocks[1])  BY <1>1, <1>4, WriteBlockCoins
  <2> QED BY <2>1 DEF Wrote
<1>7. CoinsOK(one.conf, one.spentAt, br, lo, h) /\ Unspent(one) = After(Unspent(w), blocks[1])
  <2>1. h <= Len(br)  BY <1>2
  <2> DEFINE first == blocks[1]
  <2>2. first \in ScannedBlock /\ first.incoming = Mints(br[h]) /\ first.spent = Spends(br[h]) \cap Unspent(w)
        /\ one = WriteBlock(w, w, h, first)
    BY <1>4, <1>5
  <2>3. br \in Seq(Block)  OBVIOUS
  <2> HIDE DEF h, blocks, br, lo, one, first
  <2>4. CoinsOK(one.conf, one.spentAt, br, lo, h) /\ Unspent(one) = After(Unspent(w), first)
    <3>1. /\ h \in Nat \ {0} /\ first \in ScannedBlock /\ br \in Seq(Block) /\ Sound(br) /\ lo \in Nat \ {0}
          /\ lo <= h /\ h <= Len(br) /\ CoinsOK(w.conf, w.spentAt, br, lo, h - 1)
          /\ first.incoming = Mints(br[h]) /\ first.spent = Spends(br[h]) \cap Unspent(w)
          /\ one = WriteBlock(w, w, h, first)
      BY <1>1, <1>2, <1>3, <2>1, <2>2, <2>3
    <3> QED BY <3>1, OneBlock
  <2> QED BY <2>4 DEF first
<1>8. CASE Len(blocks) = 1
  <2>1. u = one  BY <1>8 DEF WriteBlocks
  <2>2. h + Len(blocks) - 1 = h /\ h..h = {h}  BY <1>1, <1>8
  <2> HIDE DEF u, one, h, blocks, br, lo
  <2>3. BlocksWritten(u, w, br, h, h + Len(blocks) - 1)  BY <1>6, <1>7, <2>1, <2>2 DEF BlocksWritten, lo
  <2> QED BY <2>3 DEF u, h, br, blocks
<1>9. CASE Len(blocks) = 2
  <2>2. blocks[2] \in ScannedBlock  BY <1>0, <1>9 DEF Stands
  <2>3. u = WriteBlock(one, w, h + 1, blocks[2])  BY <1>9 DEF WriteBlocks
  <2>4. /\ blocks[2].incoming = Mints(br[h + 1])
        /\ blocks[2].spent = Spends(br[h + 1]) \cap Unspent(one)
    BY <1>7, <1>9 DEF BatchFits
  <2>5. h + 1 \in Nat \ {0} /\ h + 1 <= Len(br) /\ lo <= h + 1 /\ h + 1 - 1 = h /\ h + Len(blocks) - 1 = h + 1
        /\ h..h + 1 = {h, h + 1}
    <3> HIDE DEF h, blocks, br, lo
    <3> QED BY <1>1, <1>2, <1>9
  <2>6. u \in WalletType /\ u.kept = one.kept \cup {h + 1} /\ u.birthday = one.birthday
    <3> DEFINE at == h + 1
               second == blocks[2]
    <3>1. at \in Nat \ {0} /\ second \in ScannedBlock /\ u = WriteBlock(one, w, at, second)
      BY <2>2, <2>3, <2>5
    <3> HIDE DEF u, one, at, second
    <3>2. u \in WalletType /\ Wrote(u, one, at, second)  BY <1>6, <3>1, WriteBlockCoins
    <3> QED BY <3>2 DEF Wrote, at
  <2>7. CoinsOK(u.conf, u.spentAt, br, lo, h + 1)
    <3> DEFINE at == h + 1
               second == blocks[2]
    <3>1. /\ at \in Nat \ {0} /\ second \in ScannedBlock /\ u = WriteBlock(one, w, at, second)
          /\ second.incoming = Mints(br[at]) /\ second.spent = Spends(br[at]) \cap Unspent(one)
          /\ at <= Len(br) /\ lo <= at /\ br \in Seq(Block) /\ at - 1 = h
      BY <2>2, <2>3, <2>4, <2>5
    <3> HIDE DEF u, one, at, second, h, br, lo, blocks
    <3>2. CoinsOK(one.conf, one.spentAt, br, lo, at - 1)  BY <1>7, <3>1
    <3>3. CoinsOK(u.conf, u.spentAt, br, lo, at)  BY <1>1, <1>2, <1>6, <3>1, <3>2, OneBlock
    <3> QED BY <3>3 DEF at
  <2>8. u.kept = w.kept \cup (h..h + 1)  BY <1>6, <2>5, <2>6
  <2> HIDE DEF u, one, h, blocks, br, lo
  <2>9. BlocksWritten(u, w, br, h, h + Len(blocks) - 1)
    <3>1. u.birthday = lo  BY <1>6, <2>6 DEF lo
    <3> QED BY <2>5, <2>6, <2>7, <2>8, <3>1 DEF BlocksWritten, lo
  <2> QED BY <2>9 DEF u, h, br, blocks
<1>10. Len(blocks) = 1 \/ Len(blocks) = 2  BY <1>0 DEF Stands
<1> QED BY <1>8, <1>9, <1>10

LEMMA PersistInPlace ==
    ASSUME NEW w \in WalletType, InPlace(w), w.birthday # 0, NEW b, BatchFits(b, w),
           b.from \in Nat \ {0}, b.blocks \in Seq(ScannedBlock), Len(b.blocks) \in 1..2,
           b.branch \in Seq(Block), w.linked => w.synced # NoSync
    PROVE  InPlace(PersistScan(w, b.from, b.blocks, b.branch))
<1> DEFINE h == b.from
           n == Len(b.blocks)
           last == h + n - 1
           lo == w.birthday
           br == b.branch
           u == WriteBlocks(w, h, b.blocks)
           v == PersistScan(w, h, b.blocks, br)
           kept == w.kept
           kept2 == v.kept
<1>1. u \in WalletType /\ u.birthday = lo /\ u.kept = kept \cup (h..last)
      /\ CoinsOK(u.conf, u.spentAt, br, lo, last)
  BY WriteBlocksCoins DEF BlocksWritten
<1>2. /\ v.conf = u.conf /\ v.spentAt = u.spentAt /\ v.birthday = u.birthday
      /\ kept2 = {k \in u.kept : k > last - KeepBlocks}
      /\ v.synced = last /\ v.linked = TRUE /\ v.branch = br
  <2>1. v = [u EXCEPT !.kept = {k \in u.kept : k > last - KeepBlocks}, !.synced = last,
                      !.linked = TRUE, !.branch = br]
    BY DEF PersistScan
  <2> HIDE DEF u, v, last, br
  <2>2. u \in WalletType  BY <1>1
  <2>3. v.conf = u.conf /\ v.spentAt = u.spentAt /\ v.birthday = u.birthday  BY <2>1, <2>2 DEF WalletType
  <2>4. v.kept = {k \in u.kept : k > last - KeepBlocks} /\ v.synced = last /\ v.linked = TRUE /\ v.branch = br
    BY <2>1, <2>2 DEF WalletType
  <2> QED BY <2>3, <2>4
<1>3. h \in Nat \ {0} /\ n \in 1..2 /\ lo \in Nat \ {0} /\ Sound(br) /\ Len(br) = last /\ h = Position(w) + 1
  <2>1. lo \in Nat \ {0} /\ n \in 1..2 /\ h \in Nat \ {0}  BY WalletFields
  <2>2. Sound(br) /\ Len(br) = last /\ h = Position(w) + 1  BY DEF BatchFits
  <2> QED BY <2>1, <2>2
<1>4. lo <= h
  <2>1. w.synced # NoSync => lo - 1 <= w.synced  BY DEF InPlace
  <2>2. (w.synced \in Nat \/ w.synced = NoSync) /\ lo \in Nat  BY WalletFields
  <2> DEFINE sy == w.synced
  <2>3. Position(w) = IF sy = NoSync THEN lo - 1 ELSE sy  BY DEF Position
  <2> HIDE DEF lo, h, sy
  <2> QED BY <1>3, <2>1, <2>2, <2>3 DEF sy
<1>5. kept = {} \/ Run(kept, h - 1)
  <2> SUFFICES ASSUME kept # {} PROVE Run(kept, h - 1)
      OBVIOUS
  <2>1. w.linked /\ w.synced # NoSync  BY DEF InPlace
  <2>2. Run(kept, w.synced)  BY <2>1 DEF InPlace
  <2>3. w.synced = Position(w) /\ w.synced \in Int  BY <2>1, WalletFields DEF Position
  <2> DEFINE sy == w.synced
  <2> HIDE DEF h, sy
  <2>4. sy = h - 1  BY <1>3, <2>3 DEF sy
  <2> QED BY <2>2, <2>4 DEF sy
<1>6. kept \subseteq lo..w.synced /\ kept \in SUBSET Nat  BY WalletFields DEF InPlace
<1> HIDE DEF h, n, last, lo, br, u, v, kept, kept2
<1>7. last \in Nat /\ h <= last  BY <1>3 DEF last
<1>8. last \in kept2
  <2>1. last \in h..last  BY <1>3, <1>7
  <2>2. last > last - KeepBlocks  BY <1>7, LedgerAssumption
  <2> QED BY <1>1, <1>2, <2>1, <2>2
<1>9. ASSUME NEW k \in kept2
      PROVE  k..last \subseteq kept2 /\ k <= last /\ k > last - KeepBlocks /\ lo <= k /\ k \in Nat
  <2>1. (k \in kept \/ k \in h..last) /\ k > last - KeepBlocks  BY <1>1, <1>2
  <2>2. CASE k \in h..last
    <3>1. k \in Nat /\ k <= last /\ lo <= k  BY <1>3, <1>4, <1>7, <2>2
    <3>2. \A i \in k..last : i \in h..last /\ i > last - KeepBlocks
      BY <1>3, <1>7, <2>1, <2>2, LedgerAssumption
    <3> QED BY <1>1, <1>2, <2>1, <3>1, <3>2
  <2>3. CASE k \in kept
    <3>1. Run(kept, h - 1) /\ k \in Nat  BY <1>5, <1>6, <2>3
    <3>2. k..(h - 1) \subseteq kept /\ k <= h - 1  BY <2>3, <3>1 DEF Run
    <3>3. k \in lo..w.synced  BY <1>6, <2>3
    <3>4. lo <= k  BY <1>3, <3>3
    <3>5. ASSUME NEW i \in k..last PROVE i \in kept2
      <4>1. i \in k..(h - 1) \/ i \in h..last  BY <1>3, <1>7, <3>1
      <4>2. i \in u.kept  BY <1>1, <3>2, <4>1
      <4>3. i > last - KeepBlocks  BY <1>7, <2>1, <3>1, LedgerAssumption
      <4> QED BY <1>2, <4>2, <4>3
    <3>6. k <= last  BY <1>3, <1>7, <3>1, <3>2
    <3> QED BY <2>1, <3>1, <3>4, <3>5, <3>6
  <2> QED BY <2>1, <2>2, <2>3
<1>10. Run(kept2, last)  BY <1>8, <1>9 DEF Run
<1>11. kept2 \subseteq lo..last
  <2> SUFFICES ASSUME NEW k \in kept2 PROVE k \in lo..last
      OBVIOUS
  <2>1. k <= last /\ lo <= k /\ k \in Nat  BY <1>9
  <2> QED BY <1>3, <1>7, <2>1
<1>12. lo - 1 <= last  BY <1>3, <1>4, <1>7
<1>13. InPlace(v)  BY <1>1, <1>2, <1>3, <1>10, <1>11, <1>12 DEF InPlace, kept2
<1> QED BY <1>13 DEF v, h, br

(* The steps *)

BatchKept == pass.batch # NoBatch => BatchFits(pass.batch, wallet)

\* Inductive: the node serves a chain, the wallet stands in its place on the
\* one it scanned, and a batch in flight fits both.
CoinsInv == TypeOK /\ Working /\ Sound(chain) /\ InPlace(wallet) /\ BatchKept

LEMMA CoinsInvCoins == CoinsInv => CoinsFollowChain
<1> SUFFICES ASSUME CoinsInv PROVE CoinsFollowChain
    OBVIOUS
<1>1. KeptIsRun  BY DEF CoinsInv, InPlace, Run, KeptIsRun
<1>2. CoinsOK(wallet.conf, wallet.spentAt, wallet.branch, wallet.birthday, wallet.synced)
  BY DEF CoinsInv, InPlace
<1> QED BY <1>1, <1>2, Zenon DEF CoinsFollowChain, CoinsOK, Known, IsUnspent, Scanned

LEMMA CoinsInit == GenesisFollows /\ Init => CoinsInv
<1> SUFFICES ASSUME GenesisFollows, Init PROVE CoinsInv
    OBVIOUS
<1>1. TypeOK /\ Working  BY InitShape
<1>2. Sound(chain)  BY SoundGenesis DEF Init
<1>3. PICK b \in Birthdays : wallet = NewWallet(b)  BY DEF Init
<1>4. InPlace(wallet)  BY <1>3, NewInPlace, WalletAssumption
<1>5. pass.batch = NoBatch  BY DEF Init, NoPass
<1> QED BY <1>1, <1>2, <1>4, <1>5 DEF CoinsInv, BatchKept

\* A step that leaves the chain and the coins, and ends the batch or leaves it.
LEMMA CoinsStay ==
    ASSUME CoinsInv, TypeOK', Working', chain' = chain, SameCoins(wallet', wallet),
           pass'.batch = NoBatch \/ pass'.batch = pass.batch
    PROVE  CoinsInv'
<1>1. InPlace(wallet')  BY SameInPlace DEF CoinsInv
<1>2. pass'.batch # NoBatch => BatchFits(pass'.batch, wallet')
  <2> SUFFICES ASSUME pass'.batch # NoBatch PROVE BatchFits(pass'.batch, wallet')
      OBVIOUS
  <2>1. pass'.batch = pass.batch  OBVIOUS
  <2>2. BatchFits(pass.batch, wallet)  BY <2>1 DEF CoinsInv, BatchKept
  <2> QED BY <2>1, <2>2, SameBatchFits
<1>3. Sound(chain')  BY DEF CoinsInv
<1>4. BatchKept'  BY <1>2 DEF BatchKept
<1> QED BY <1>1, <1>3, <1>4 DEF CoinsInv

\* A step that takes the wallet to another place and leaves no batch in flight.
LEMMA CoinsMove ==
    ASSUME CoinsInv, TypeOK', Working', chain' = chain, InPlace(wallet'), pass'.batch = NoBatch
    PROVE  CoinsInv'
BY DEF CoinsInv, BatchKept

LEMMA SoundMine ==
    ASSUME CoinsInv, TypeOK', Working', Mine
    PROVE  CoinsInv'
<1>1. PICK b \in SUBSET live : CanFollow(chain, b) /\ chain' = Append(chain, b)  BY DEF Mine
<1>2. b \in Block /\ chain \in Seq(Block) /\ Sound(chain)  BY DEF CoinsInv, TypeOK, Block
<1>3. Sound(chain')  BY <1>1, <1>2, SoundAbove
<1>4. wallet' = wallet /\ pass' = pass  BY DEF Mine, appVars
<1> QED BY <1>3, <1>4 DEF CoinsInv, BatchKept

LEMMA SoundReorg ==
    ASSUME CoinsInv, TypeOK', Working', Reorg
    PROVE  CoinsInv'
<1>1. PICK k \in 1..MaxDepth : k < Len(chain) /\ chain' = UpTo(chain, Len(chain) - k)  BY DEF Reorg
<1>2. chain \in Seq(Block) /\ Sound(chain) /\ Len(chain) \in Nat  BY LenProperties DEF CoinsInv, TypeOK
<1>3. Len(chain) - k \in Nat /\ Len(chain) - k <= Len(chain)  BY <1>1, <1>2, WalletAssumption
<1>4. Sound(chain')  BY <1>1, <1>2, <1>3, SoundBelow
<1>5. wallet' = wallet /\ pass' = pass  BY DEF Reorg, appVars
<1> QED BY <1>4, <1>5 DEF CoinsInv, BatchKept

LEMMA StartPassCoins ==
    ASSUME CoinsInv, TypeOK', Working', StartPass
    PROVE  CoinsInv'
<1>1. PICK hint \in 0..Len(chain) : wallet' = Started(wallet, Len(chain), hint)  BY DEF StartPass, Write
<1>2. Len(chain) \in Nat /\ hint \in Nat  BY LenProperties DEF CoinsInv, TypeOK
<1>3. wallet \in WalletType /\ InPlace(wallet) /\ (wallet.linked => wallet.synced # NoSync)
  BY DEF CoinsInv, TypeOK, Working
<1>4. InPlace(wallet')  BY <1>1, <1>2, <1>3, StartedInPlace
<1>5. chain' = chain /\ pass'.batch = NoBatch  BY DEF StartPass, chainVars
<1> QED BY <1>4, <1>5, CoinsMove

LEMMA RollBackCoins ==
    ASSUME CoinsInv, TypeOK', Working', RollBackIfForked
    PROVE  CoinsInv'
<1>1. wallet \in WalletType /\ InPlace(wallet) /\ wallet.synced # NoSync /\ wallet.birthday # 0
  BY DEF CoinsInv, TypeOK, Working, RollBackIfForked, Forked
<1>2. InPlace(wallet')
  <2> DEFINE kept == ForkCandidates(wallet)
  <2>1. CASE \E h \in kept : wallet' = RollBack(wallet, h, TRUE)
    <3>1. PICK h \in kept : wallet' = RollBack(wallet, h, TRUE)  BY <2>1
    <3>2. h \in wallet.kept /\ h < wallet.synced  BY DEF ForkCandidates
    <3>3. h \in Nat  BY <1>1, <3>2, WalletFields
    <3> QED BY <1>1, <3>1, <3>2, <3>3, RollBackInPlace
  <2>2. CASE kept = {} /\ wallet' = RollBack(wallet, wallet.birthday - 1, FALSE)
    <3>1. \A k \in wallet.kept : ~(k < wallet.synced)  BY <2>2 DEF ForkCandidates
    <3> DEFINE h == wallet.birthday - 1
    <3>2. h \in Nat  BY <1>1, WalletFields
    <3>3. wallet' = RollBack(wallet, h, FALSE) /\ h = wallet.birthday - 1  BY <2>2
    <3> HIDE DEF h
    <3> QED BY <1>1, <3>1, <3>2, <3>3, RollBackInPlace
  <2> QED BY <2>1, <2>2 DEF RollBackIfForked, Write
<1>3. chain' = chain /\ pass'.batch = NoBatch  BY DEF RollBackIfForked, chainVars
<1> QED BY <1>2, <1>3, CoinsMove

LEMMA RescanCoins ==
    ASSUME CoinsInv, TypeOK', Working', Rescan
    PROVE  CoinsInv'
<1>1. PICK h \in RescanFrom : wallet' = ResetForRescan(wallet, h)  BY DEF Rescan, Write
<1>2. InPlace(wallet')  BY <1>1, WalletAssumption, ResetInPlace
<1>3. chain' = chain /\ pass' = pass /\ ~pass.on  BY DEF Rescan, chainVars, appVars
<1>4. pass'.batch = NoBatch  BY <1>3 DEF CoinsInv, Working
<1> QED BY <1>2, <1>3, <1>4, CoinsMove

LEMMA PersistCoins ==
    ASSUME CoinsInv, TypeOK', Working', PersistBatch
    PROVE  CoinsInv'
<1> DEFINE b == pass.batch
<1>1. b # NoBatch /\ wallet' = PersistScan(wallet, b.from, b.blocks, b.branch)
  BY DEF PersistBatch, Write
<1>2. /\ wallet \in WalletType /\ InPlace(wallet) /\ BatchFits(b, wallet)
      /\ (wallet.linked => wallet.synced # NoSync)
  BY <1>1 DEF CoinsInv, BatchKept, TypeOK, Working
<1>3. b.from \in Nat \ {0} /\ Len(b.blocks) \in 1..2 /\ wallet.birthday # 0
  BY <1>1 DEF CoinsInv, TypeOK, Working, MaxBatch
<1>4. b.blocks \in Seq(ScannedBlock) /\ b.branch \in Seq(Block)  BY DEF CoinsInv, TypeOK
<1> HIDE DEF b
<1>5. InPlace(wallet')  BY <1>1, <1>2, <1>3, <1>4, PersistInPlace
<1>6. chain' = chain /\ pass'.batch = NoBatch  BY DEF PersistBatch, chainVars, CoinsInv, TypeOK
<1> QED BY <1>5, <1>6, CoinsMove

\* A scan answers for the blocks above the wallet's position, on a chain that
\* the check of the newest block found to hold what the wallet scanned.
LEMMA ScanBlocksCoins ==
    ASSUME CoinsInv, TypeOK', Working', ScanBlocks
    PROVE  CoinsInv'
<1> DEFINE from == Position(wallet) + 1
           watch == WatchedCommitments(wallet)
           unspent == Unspent(wallet)
           first == ScanOf(chain[from], unspent, watch)
           second == ScanOf(chain[from + 1], After(unspent, first), watch)
           blocks(n) == IF n = 1 THEN <<first>> ELSE <<first, second>>
           last(n) == from + n - 1
           b == pass'.batch
           lo == wallet.birthday
           hi == wallet.synced
<1>1. PICK n \in 1..2 : /\ last(n) <= Len(chain)
                        /\ pass' = [pass EXCEPT !.batch =
                             [from |-> from, branch |-> UpTo(chain, last(n)), blocks |-> blocks(n)]]
  BY DEF ScanBlocks, MaxBatch
<1>2. wallet \in WalletType /\ chain \in Seq(Block) /\ Len(chain) \in Nat /\ Sound(chain) /\ InPlace(wallet)
  BY LenProperties DEF CoinsInv, TypeOK
<1>3. lo # 0 /\ Position(wallet) \in Nat
  <2>1. lo # 0  BY DEF CoinsInv, Working, ScanBlocks
  <2> QED BY <1>2, <2>1, PositionFacts
<1>4. from \in Nat \ {0} /\ last(n) \in Nat /\ last(n) <= Len(chain) /\ from <= last(n)
      /\ (n = 2 => from + 1 <= last(n)) /\ (n = 1 \/ n = 2)
  <2> HIDE DEF from
  <2>1. from \in Nat \ {0}  BY <1>3 DEF from
  <2>2. n \in {1, 2}  OBVIOUS
  <2> QED BY <1>1, <2>1, <2>2
<1>5. b.from = from /\ b.branch = UpTo(chain, last(n)) /\ b.blocks = blocks(n)
  <2> DEFINE batch == [from |-> from, branch |-> UpTo(chain, last(n)), blocks |-> blocks(n)]
  <2>1. pass' = [pass EXCEPT !.batch = batch]  BY <1>1
  <2>2. batch.from = from /\ batch.branch = UpTo(chain, last(n)) /\ batch.blocks = blocks(n)  OBVIOUS
  <2> HIDE DEF batch
  <2>3. pass'.batch = batch  BY <2>1 DEF CoinsInv, TypeOK
  <2> QED BY <2>2, <2>3
<1>6. /\ Sound(b.branch) /\ Len(b.branch) = last(n)
      /\ \A i \in 1..last(n) : b.branch[i] = chain[i]
  <2> DEFINE at == last(n)
  <2>1. at \in Nat /\ at <= Len(chain) /\ b.branch = UpTo(chain, at)  BY <1>4, <1>5
  <2> HIDE DEF at, b
  <2>2. Sound(b.branch) /\ Len(b.branch) = at /\ \A i \in 1..at : b.branch[i] = chain[i]
    BY <1>2, <2>1, UpToBlocks, SoundBelow
  <2> QED BY <2>2 DEF at
<1>7. \A h \in lo..hi : b.branch[h] = wallet.branch[h]
  <2>1. CASE ~wallet.linked
    <3>1. hi = NoSync \/ hi = lo - 1  BY <2>1, <1>2 DEF InPlace
    <3>2. lo \in Nat  BY <1>2, WalletFields
    <3> HIDE DEF lo, hi
    <3>3. \A h \in lo..hi : FALSE  BY <3>1, <3>2
    <3> QED BY <3>3
  <2>2. CASE wallet.linked
    <3> DEFINE br == wallet.branch
    <3>1. OnChain(br, chain)  BY <2>2 DEF ScanBlocks, Forked
    <3>2. hi # NoSync  BY <2>2 DEF CoinsInv, Working
    <3>3. Len(br) = hi /\ hi \in Nat /\ lo \in Nat \ {0}  BY <1>2, <1>3, <3>2, WalletFields DEF InPlace
    <3>4. UpTo(chain, hi) = br /\ hi <= Len(chain)  BY <3>1, <3>3 DEF OnChain
    <3>5. \A i \in 1..hi : br[i] = chain[i]
      <4> HIDE DEF br, hi
      <4> QED BY <1>2, <3>3, <3>4, UpToBlocks
    <3>6. hi <= last(n)
      <4>1. from = hi + 1  BY <3>2 DEF Position
      <4> HIDE DEF from, hi
      <4>2. from <= last(n) /\ last(n) \in Nat  BY <1>4
      <4> QED BY <3>3, <4>1, <4>2
    <3> DEFINE at == last(n)
    <3>7. at \in Nat /\ hi <= at /\ \A i \in 1..at : b.branch[i] = chain[i]  BY <1>4, <1>6, <3>6
    <3> HIDE DEF br, hi, lo, at, b
    <3>8. \A h \in lo..hi : h \in 1..hi /\ h \in 1..at  BY <3>3, <3>7
    <3>9. \A h \in lo..hi : b.branch[h] = br[h]  BY <3>5, <3>7, <3>8
    <3> QED BY <3>9 DEF br
  <2> QED BY <2>1, <2>2
<1>8. b.blocks[1] = first /\ (n = 2 => b.blocks[2] = second) /\ Len(b.blocks) = n
  <2> HIDE DEF first, second
  <2>1. CASE n = 1  BY <1>5, <2>1
  <2>2. CASE n = 2  BY <1>5, <2>2
  <2> QED BY <1>4, <2>1, <2>2
<1>9. /\ first.incoming = Mints(chain[from]) /\ first.spent = Spends(chain[from]) \cap unspent
      /\ second.incoming = Mints(chain[from + 1])
      /\ second.spent = Spends(chain[from + 1]) \cap After(unspent, first)
  <2> DEFINE block == chain[from]
             next == chain[from + 1]
             rest == After(unspent, first)
  <2> HIDE DEF block, next, rest, unspent
  <2>1. first.incoming = Mints(block) /\ first.spent = Spends(block) \cap unspent
    BY DEF ScanOf, block
  <2>2. second.incoming = Mints(next) /\ second.spent = Spends(next) \cap rest
    BY DEF ScanOf, next, rest
  <2> QED BY <2>1, <2>2 DEF block, next, rest
<1>10. chain[from] = b.branch[from] /\ (n = 2 => chain[from + 1] = b.branch[from + 1])
  <2> DEFINE at == last(n)
  <2> HIDE DEF from, at, b
  <2>1. from \in 1..at /\ (n = 2 => from + 1 \in 1..at)  BY <1>4 DEF at
  <2> QED BY <1>6, <2>1 DEF at
<1>11. BatchFits(b, wallet)
  <2>1. Len(b.branch) = b.from + Len(b.blocks) - 1  BY <1>5, <1>6, <1>8
  <2>2. Len(b.blocks) = 2 => n = 2  BY <1>8
  <2> HIDE DEF b, first, second
  <2>3. b.blocks[1].incoming = Mints(b.branch[b.from]) /\ b.blocks[1].spent = Spends(b.branch[b.from]) \cap Unspent(wallet)
    BY <1>5, <1>8, <1>9, <1>10
  <2>4. Len(b.blocks) = 2 =>
          /\ b.blocks[2].incoming = Mints(b.branch[b.from + 1])
          /\ b.blocks[2].spent = Spends(b.branch[b.from + 1]) \cap After(Unspent(wallet), b.blocks[1])
    BY <1>5, <1>8, <1>9, <1>10, <2>2
  <2> QED BY <1>5, <1>6, <1>7, <2>1, <2>3, <2>4 DEF BatchFits
<1>12. chain' = chain /\ wallet' = wallet  BY DEF ScanBlocks, chainVars
<1>13. BatchKept'  BY <1>11, <1>12 DEF BatchKept
<1> QED BY <1>2, <1>12, <1>13 DEF CoinsInv

\* What every other part does: the sends, the person, the watcher, a crash.
LEMMA OtherCoins ==
    ASSUME CoinsInv, TypeOK', Working',
           EndPass \/ StopPass \/ SendStep \/ GiveUpStep \/ RemoveStep \/ WatcherStep \/ Crash \/ UNCHANGED vars
    PROVE  CoinsInv'
<1>1. wallet \in WalletType  BY DEF CoinsInv, TypeOK
<1>2. SameCoins(wallet, wallet)  BY DEF SameCoins
<1>3. CASE EndPass
  <2>1. wallet' = ExpireSends(wallet) /\ chain' = chain /\ pass'.batch = NoBatch
    BY <1>3 DEF EndPass, Write, chainVars, NoPass
  <2> QED BY <1>1, <2>1, ExpireSendsCoins, CoinsStay
<1>4. CASE StopPass \/ Crash
  <2>1. wallet' = wallet /\ chain' = chain /\ pass'.batch = NoBatch
    BY <1>4 DEF StopPass, Crash, chainVars, NoPass
  <2> QED BY <1>2, <2>1, CoinsStay
<1>5. CASE SendStep
  <2>1. PICK s \in Sends : \/ Review(s) \/ Plan(s) \/ Build(s) \/ Cancel(s)
                           \/ Record(s) \/ Submit(s) \/ Refuse(s) \/ Discard(s)
    BY <1>5 DEF SendStep
  <2>2. CASE Record(s)
    <3>1. wallet' = RecordPending(wallet, s, stamp[s]) /\ chain' = chain /\ pass' = pass
      BY <2>2 DEF Record, chainVars
    <3> QED BY <1>1, <3>1, RecordPendingCoins, CoinsStay
  <2>3. CASE Discard(s)
    <3>1. wallet' = DiscardPending(wallet, s) /\ chain' = chain /\ pass' = pass
      BY <2>3 DEF Discard, Write, chainVars
    <3> QED BY <1>1, <3>1, DiscardPendingCoins, CoinsStay
  <2>4. CASE Review(s) \/ Plan(s) \/ Build(s) \/ Cancel(s) \/ Submit(s) \/ Refuse(s)
    <3>1. wallet' = wallet /\ chain' = chain /\ pass' = pass
      BY <2>4 DEF Review, Plan, Build, Cancel, Submit, Refuse, chainVars
    <3> QED BY <1>2, <3>1, CoinsStay
  <2> QED BY <2>1, <2>2, <2>3, <2>4
<1>6. CASE GiveUpStep
  <2>1. PICK s \in Sends : wallet' = ForgetSend(wallet, s) /\ chain' = chain /\ pass' = pass
    BY <1>6 DEF GiveUpStep, Forget, Write, chainVars, appVars
  <2> QED BY <1>1, <2>1, ForgetSendCoins, CoinsStay
<1>7. CASE RemoveStep
  <2>1. CASE Remove
    <3>1. wallet' = DropRow(wallet, removing) /\ chain' = chain /\ pass' = pass
      BY <2>1 DEF Remove, Write, chainVars
    <3> QED BY <1>1, <3>1, DropRowCoins, CoinsStay
  <2>2. CASE \E s \in Sends : JudgeRemovable(s)
    <3>1. wallet' = wallet /\ chain' = chain /\ pass' = pass  BY <2>2 DEF JudgeRemovable, chainVars
    <3> QED BY <1>2, <3>1, CoinsStay
  <2> QED BY <1>7, <2>1, <2>2 DEF RemoveStep
<1>8. CASE WatcherStep
  <2>1. CASE RecordSpend
    <3>1. wallet' = RecordOutgoing(wallet, poll.tx, poll.ins) /\ chain' = chain /\ pass' = pass
      BY <2>1 DEF RecordSpend, Write, chainVars
    <3> QED BY <1>1, <3>1, RecordOutgoingCoins, CoinsStay
  <2>2. CASE \E c \in Coin : ExpireOutgoing(c)
    <3>1. PICK c \in Coin : wallet' = ExpireRow(wallet, c) /\ chain' = chain /\ pass' = pass
      BY <2>2 DEF ExpireOutgoing, Write, chainVars, appVars
    <3> QED BY <1>1, <3>1, ExpireRowCoins, CoinsStay
  <2>3. CASE StartPoll \/ EndPoll \/ \E t \in Tx : FindSpend(t)
    <3>1. wallet' = wallet /\ chain' = chain /\ pass' = pass
      BY <2>3 DEF StartPoll, EndPoll, FindSpend, chainVars
    <3> QED BY <1>2, <3>1, CoinsStay
  <2> QED BY <1>8, <2>1, <2>2, <2>3 DEF WatcherStep
<1>9. CASE UNCHANGED vars
  <2>1. wallet' = wallet /\ chain' = chain /\ pass' = pass  BY <1>9 DEF vars, chainVars, appVars
  <2> QED BY <1>2, <2>1, CoinsStay
<1> QED BY <1>3, <1>4, <1>5, <1>6, <1>7, <1>8, <1>9

LEMMA CoinsStep == CoinsInv /\ [Next]_vars => CoinsInv'
<1> SUFFICES ASSUME CoinsInv, [Next]_vars PROVE CoinsInv'
    OBVIOUS
<1>1. TypeOK' /\ Working'  BY StepShape DEF CoinsInv
<1>2. CASE Mine \/ Reorg \/ Rescan  BY <1>1, <1>2, SoundMine, SoundReorg, RescanCoins
<1>3. CASE StartPass \/ RollBackIfForked \/ ScanBlocks \/ PersistBatch
  BY <1>1, <1>3, StartPassCoins, RollBackCoins, ScanBlocksCoins, PersistCoins
<1>4. CASE EndPass \/ StopPass \/ SendStep \/ GiveUpStep \/ RemoveStep \/ WatcherStep \/ Crash \/ UNCHANGED vars
  BY <1>1, <1>4, OtherCoins
<1> QED BY <1>2, <1>3, <1>4 DEF Next, SyncStep

\* The wallet's coins are those of the blocks it scanned, found and spent where
\* that chain has them, and the kept blocks are the run a search for a fork
\* needs: whatever the node's chain does, and whichever pass, rescan, send or
\* poll is under way (persist_scan, roll_back, reset_for_rescan).
THEOREM CoinsAreTheChains ==
    ASSUME GenesisFollows
    PROVE  Spec => []CoinsFollowChain
<1>1. Init => CoinsInv  BY CoinsInit
<1>2. CoinsInv /\ [Next]_vars => CoinsInv'  BY CoinsStep
<1>3. CoinsInv => CoinsFollowChain  BY CoinsInvCoins
<1> QED BY <1>1, <1>2, <1>3, PTL DEF Spec

(***************************************************************************)
(* A send shows as confirmed at a height exactly when the block scanned    *)
(* there carries it, on top of the coins being the chain's.                *)
(***************************************************************************)

\* A send that lists its outputs has one that is no other transaction's.  Two
\* sends built at one height share what they pay to one address in one amount
\* (send.rs); if they share the change as well, the rule of persist_scan may
\* take one for the other.
OwnOutputs ==
    \A s \in Sends \ Legacy : \E o \in Outputs[s] : \A t \in Tx : t # s => o \notin Outputs[t]

\* No send of this device is older than its wallet.
MadeLater == \A s \in Sends : ~InChain(Genesis, s)

(* Rows and the blocks from lo to hi of a chain *)

\* A row a block can still confirm.
Open(row) == row.status = "pending" \/ (row.status = "failed" /\ (row.givenUp \/ row.expired))

\* A row says confirmed at the height of the block that carries the send and
\* only there, and a row that lost says where one of its coins went.
CreditOK(row, conf, spentAt, br, lo, hi) ==
    \A s \in Sends \ Legacy :
        /\ row[s].status = "confirmed" => row[s].height \in lo..hi /\ s \in br[row[s].height]
        /\ \A h \in lo..hi : s \in br[h] /\ row[s].status # "none" /\ (\E c \in Inputs[s] : conf[c] # 0)
              => row[s].status = "confirmed" /\ row[s].height = h
        /\ row[s].status = "failed" /\ ~Open(row[s])
              => \E c \in Inputs[s] : spentAt[c] # 0 /\ spentAt[c] = row[s].height

LEMMA CreditOnBoth ==
    ASSUME NEW row, NEW conf, NEW spentAt, NEW br, NEW other, NEW lo \in Int, NEW hi \in Int,
           CreditOK(row, conf, spentAt, br, lo, hi), \A h \in lo..hi : other[h] = br[h]
    PROVE  CreditOK(row, conf, spentAt, other, lo, hi)
BY DEF CreditOK

\* How a row may change without a block: it stays, or stays open, or it goes.
Still(old, new) == new = old \/ (Open(old) /\ Open(new))
Quiet(old, new) == new.status = "none" \/ Still(old, new)

LEMMA CreditQuiet ==
    ASSUME NEW row, NEW row2, NEW conf, NEW spentAt, NEW br, NEW lo \in Int, NEW hi \in Int,
           CreditOK(row, conf, spentAt, br, lo, hi),
           \A s \in Sends \ Legacy :
              \/ Quiet(row[s], row2[s])
              \/ Open(row2[s]) /\ \A h \in lo..hi : s \notin br[h]
    PROVE  CreditOK(row2, conf, spentAt, br, lo, hi)
<1> SUFFICES ASSUME NEW s \in Sends \ Legacy
             PROVE  /\ row2[s].status = "confirmed" => row2[s].height \in lo..hi /\ s \in br[row2[s].height]
                    /\ \A h \in lo..hi : s \in br[h] /\ row2[s].status # "none" /\ (\E c \in Inputs[s] : conf[c] # 0)
                          => row2[s].status = "confirmed" /\ row2[s].height = h
                    /\ row2[s].status = "failed" /\ ~Open(row2[s])
                          => \E c \in Inputs[s] : spentAt[c] # 0 /\ spentAt[c] = row2[s].height
    BY DEF CreditOK
<1>1. /\ row[s].status = "confirmed" => row[s].height \in lo..hi /\ s \in br[row[s].height]
      /\ \A h \in lo..hi : s \in br[h] /\ row[s].status # "none" /\ (\E c \in Inputs[s] : conf[c] # 0)
            => row[s].status = "confirmed" /\ row[s].height = h
      /\ row[s].status = "failed" /\ ~Open(row[s])
            => \E c \in Inputs[s] : spentAt[c] # 0 /\ spentAt[c] = row[s].height
  BY DEF CreditOK
<1> DEFINE old == row[s]
           new == row2[s]
<1>2. CASE new.status = "none"  BY <1>2
<1>3. CASE new = old  BY <1>1, <1>3
<1>4. CASE Open(old) /\ Open(new)
  <2>1. old.status # "none" /\ old.status # "confirmed" /\ new.status # "confirmed"  BY <1>4 DEF Open
  <2> QED BY <1>1, <1>4, <2>1
<1>5. CASE Open(new) /\ \A h \in lo..hi : s \notin br[h]
  <2>1. new.status # "confirmed"  BY <1>5 DEF Open
  <2> QED BY <1>5, <2>1
<1> QED BY <1>2, <1>3, <1>4, <1>5 DEF Quiet, Still

\* What is above a height undone: rows decided there wait again.
RowsBack(row, row2, to) ==
    \A s \in Sends : IF row[s].status # "none" /\ row[s].height > to
                     THEN row2[s].status = "pending" ELSE row2[s] = row[s]

LEMMA CreditBack ==
    ASSUME NEW row, NEW conf \in [Coin -> Nat], NEW spentAt \in [Coin -> Nat], NEW br,
           NEW lo \in Nat \ {0}, NEW hi \in Nat, NEW to \in Nat, to <= hi, \A s \in Sends : row[s].height \in Nat,
           Sound(br), Len(br) \in Nat, hi <= Len(br), CoinsOK(conf, spentAt, br, lo, hi),
           CreditOK(row, conf, spentAt, br, lo, hi),
           NEW row2, NEW conf2, NEW spentAt2,
           RowsBack(row, row2, to),
           \A c \in Coin : conf2[c] = (IF conf[c] > to THEN 0 ELSE conf[c]),
           \A c \in Coin : spentAt2[c] = (IF conf[c] > to \/ spentAt[c] > to THEN 0 ELSE spentAt[c])
    PROVE  CreditOK(row2, conf2, spentAt2, br, lo, to)
<1> SUFFICES ASSUME NEW s \in Sends \ Legacy
             PROVE  /\ row2[s].status = "confirmed" => row2[s].height \in lo..to /\ s \in br[row2[s].height]
                    /\ \A h \in lo..to : s \in br[h] /\ row2[s].status # "none" /\ (\E c \in Inputs[s] : conf2[c] # 0)
                          => row2[s].status = "confirmed" /\ row2[s].height = h
                    /\ row2[s].status = "failed" /\ ~Open(row2[s])
                          => \E c \in Inputs[s] : spentAt2[c] # 0 /\ spentAt2[c] = row2[s].height
    BY DEF CreditOK
<1> DEFINE old == row[s]
           new == row2[s]
<1>1. /\ old.status = "confirmed" => old.height \in lo..hi /\ s \in br[old.height]
      /\ \A h \in lo..hi : s \in br[h] /\ old.status # "none" /\ (\E c \in Inputs[s] : conf[c] # 0)
            => old.status = "confirmed" /\ old.height = h
      /\ old.status = "failed" /\ ~Open(old)
            => \E c \in Inputs[s] : spentAt[c] # 0 /\ spentAt[c] = old.height
  BY DEF CreditOK
<1>2. old.height \in Nat /\ Inputs[s] \subseteq Coin  BY TxAssumption
<1>3. IF old.status # "none" /\ old.height > to THEN new.status = "pending" ELSE new = old
  BY DEF RowsBack
<1>4. \A c \in Inputs[s] : conf2[c] # 0 => conf[c] # 0  BY <1>2
<1>5. ASSUME NEW h \in lo..to, s \in br[h], new.status # "none", NEW c \in Inputs[s], conf2[c] # 0
      PROVE  new.status = "confirmed" /\ new.height = h
  <2>1. old.status # "none"  BY <1>3, <1>5
  <2>2. conf[c] # 0 /\ h \in lo..hi  BY <1>4, <1>5
  <2>3. old.status = "confirmed" /\ old.height = h  BY <1>1, <1>5, <2>1, <2>2
  <2> QED BY <1>2, <1>3, <1>5, <2>3
<1>6. ASSUME new.status = "failed", ~Open(new)
      PROVE  \E c \in Inputs[s] : spentAt2[c] # 0 /\ spentAt2[c] = new.height
  <2>1. new = old /\ old.height <= to  BY <1>2, <1>3, <1>6
  <2>2. PICK c \in Inputs[s] : spentAt[c] # 0 /\ spentAt[c] = old.height  BY <1>1, <1>6, <2>1
  <2>3. c \in Coin  BY <1>2
  <2> DEFINE at == spentAt[c]
             made == conf[c]
  <2>4. at \in lo..hi /\ c \in Spends(br[at]) /\ made \in lo..hi /\ c \in Mints(br[made])
    BY <2>2, <2>3 DEF CoinsOK
  <2>5. at <= to  BY <2>1, <2>2
  <2>6. made <= to
    <3> HIDE DEF at, made
    <3>1. at \in 1..Len(br) /\ made \in 1..Len(br)  BY <2>4
    <3>2. PICK k \in 1..at - 1 : c \in Mints(br[k])  BY <2>3, <2>4, <3>1 DEF Sound
    <3>3. k \in 1..Len(br)  BY <3>1, <3>2
    <3>4. k = made  BY <2>3, <2>4, <3>1, <3>2, <3>3 DEF Sound
    <3> QED BY <2>5, <3>1, <3>2, <3>4
  <2>7. spentAt[c] \in Nat /\ conf[c] \in Nat  BY <2>3
  <2>8. spentAt2[c] = (IF conf[c] > to \/ spentAt[c] > to THEN 0 ELSE spentAt[c])  BY <2>3
  <2>9. spentAt2[c] = spentAt[c]
    <3>1. ~(made > to) /\ ~(at > to)
      <4> HIDE DEF made, at
      <4>1. made \in Int /\ at \in Int  BY <2>4
      <4> QED BY <2>5, <2>6, <4>1
    <3> QED BY <2>8, <3>1
  <2> QED BY <2>1, <2>2, <2>9
<1>7. ASSUME new.status = "confirmed" PROVE new.height \in lo..to /\ s \in br[new.height]
  <2>1. new = old /\ ~(old.height > to)  BY <1>3, <1>7
  <2>2. old.height \in lo..hi /\ s \in br[old.height]  BY <1>1, <1>7, <2>1
  <2> QED BY <1>2, <2>1, <2>2
<1> QED BY <1>5, <1>6, <1>7

\* The rule by which a written block confirms a send (Carried), for one that
\* lists its outputs.
Confirms(row, ins, outs, spent, conf, seen) ==
    /\ Open(row)
    /\ ins \cap spent # {}
    /\ \A c \in ins : c \in spent \/ conf[c] = 0
    /\ outs \subseteq seen

\* A block confirms a row, or one of its coins is gone in it, or nothing.
BlockRow(old, new, confirms, lost, h) ==
    \/ confirms /\ new.status = "confirmed" /\ new.height = h
    \/ ~confirms /\ new = old
    \/ ~confirms /\ lost /\ old.status = "pending" /\ new.status = "failed" /\ new.height = h

\* What a scan answers about block `at`, as far as coins and rows go.
ScanRight(br, at, conf, spentAt, row, spent, seen) ==
    /\ \A c \in Coin : c \in spent <=> c \in Spends(br[at]) /\ conf[c] # 0 /\ spentAt[c] = 0
    /\ seen \subseteq Carries(br[at])
    /\ \A s \in Sends \ Legacy : s \in br[at] /\ Open(row[s]) => Outputs[s] \subseteq seen

\* What writing it does to them.
WriteRight(br, at, conf, conf2, spentAt, spentAt2, row, row2, spent, seen) ==
    /\ \A c \in Coin : conf2[c] = (IF c \in Mints(br[at]) THEN at ELSE conf[c])
    /\ \A c \in Coin : spentAt2[c] = (IF c \in spent THEN at ELSE spentAt[c])
    /\ \A s \in Sends \ Legacy :
          BlockRow(row[s], row2[s], Confirms(row[s], Inputs[s], Outputs[s], spent, conf2, seen),
                   Inputs[s] \cap spent # {}, at)

\* One block more.
LEMMA CreditExtend ==
    ASSUME OwnOutputs,
           NEW conf \in [Coin -> Nat], NEW spentAt \in [Coin -> Nat], NEW br \in Seq(Block), Sound(br),
           NEW lo \in Nat \ {0}, NEW at \in Nat, lo <= at, at <= Len(br),
           NEW row \in [Sends -> SendRow], CoinsOK(conf, spentAt, br, lo, at - 1), CreditOK(row, conf, spentAt, br, lo, at - 1),
           NEW spent \in SUBSET Coin, NEW seen, ScanRight(br, at, conf, spentAt, row, spent, seen),
           NEW row2, NEW conf2, NEW spentAt2,
           WriteRight(br, at, conf, conf2, spentAt, spentAt2, row, row2, spent, seen)
    PROVE  CreditOK(row2, conf2, spentAt2, br, lo, at)
<1> SUFFICES ASSUME NEW s \in Sends \ Legacy
             PROVE  /\ row2[s].status = "confirmed" => row2[s].height \in lo..at /\ s \in br[row2[s].height]
                    /\ \A h \in lo..at : s \in br[h] /\ row2[s].status # "none" /\ (\E c \in Inputs[s] : conf2[c] # 0)
                          => row2[s].status = "confirmed" /\ row2[s].height = h
                    /\ row2[s].status = "failed" /\ ~Open(row2[s])
                          => \E c \in Inputs[s] : spentAt2[c] # 0 /\ spentAt2[c] = row2[s].height
    BY DEF CreditOK
<1> DEFINE old == row[s]
           new == row2[s]
           ins == Inputs[s]
           outs == Outputs[s]
           confirms == Confirms(old, ins, outs, spent, conf2, seen)
<1>a. /\ \A c \in Coin : c \in spent <=> c \in Spends(br[at]) /\ conf[c] # 0 /\ spentAt[c] = 0
      /\ seen \subseteq Carries(br[at])
      /\ s \in br[at] /\ Open(old) => outs \subseteq seen
  BY DEF ScanRight
<1>b. /\ \A c \in Coin : conf2[c] = (IF c \in Mints(br[at]) THEN at ELSE conf[c])
      /\ \A c \in Coin : spentAt2[c] = (IF c \in spent THEN at ELSE spentAt[c])
      /\ BlockRow(old, new, confirms, ins \cap spent # {}, at)
  BY DEF WriteRight
<1>0. Len(br) \in Nat /\ at # 0 /\ at \in lo..at /\ (\A h \in lo..at - 1 : h \in lo..at /\ h # at)
      /\ (\A h \in lo..at : h = at \/ h \in lo..at - 1)
  BY LenProperties
<1>1. /\ old.status = "confirmed" => old.height \in lo..at - 1 /\ s \in br[old.height]
      /\ \A h \in lo..at - 1 : s \in br[h] /\ old.status # "none" /\ (\E c \in ins : conf[c] # 0)
            => old.status = "confirmed" /\ old.height = h
      /\ old.status = "failed" /\ ~Open(old)
            => \E c \in ins : spentAt[c] # 0 /\ spentAt[c] = old.height
  BY DEF CreditOK
<1>2. s \in Tx /\ ins \in SUBSET Coin /\ outs \in SUBSET Commitment
      /\ \E o \in outs : \A t \in Tx : t # s => o \notin Outputs[t]
  <2>1. s \in Tx  BY TxAssumption
  <2> QED BY <2>1, TxAssumption DEF OwnOutputs
<1>3. BlockRow(old, new, confirms, ins \cap spent # {}, at)
  BY <1>b
<1>4. \A h \in 1..Len(br) : br[h] \in SUBSET Tx
  <2> TAKE h \in 1..Len(br)
  <2>1. br[h] \in Block  BY LenProperties
  <2> QED BY <2>1 DEF Block
<1>5. \A h \in lo..at : h \in 1..Len(br)  BY <1>0
<1>6. \A h \in 1..Len(br) : s \in br[h] => ins \subseteq Spends(br[h])  BY DEF Spends
<1>7. ASSUME NEW h \in lo..at, NEW c \in Coin, c \in Spends(br[h]), conf2[c] # 0
      PROVE  conf[c] # 0
  <2>1. PICK k \in 1..h - 1 : c \in Mints(br[k])  BY <1>5, <1>7 DEF Sound
  <2>2. k \in 1..Len(br) /\ at \in 1..Len(br) /\ k # at  BY <1>0, <2>1
  <2>3. c \notin Mints(br[at])  BY <2>1, <2>2 DEF Sound
  <2> QED BY <1>7, <1>b, <2>3
<1>8. ASSUME NEW c \in Coin, c \in Spends(br[at]), conf2[c] # 0 PROVE c \in spent
  <2>1. conf[c] # 0  BY <1>0, <1>7, <1>8
  <2>2. spentAt[c] = 0
    <3> SUFFICES ASSUME spentAt[c] # 0 PROVE FALSE
        OBVIOUS
    <3> DEFINE k == spentAt[c]
    <3>1. k \in lo..at - 1 /\ c \in Spends(br[k])  BY DEF CoinsOK
    <3> HIDE DEF k
    <3>2. k \in 1..Len(br) /\ at \in 1..Len(br) /\ k # at  BY <1>0, <1>5, <3>1
    <3> QED BY <1>8, <3>1, <3>2 DEF Sound
  <2> QED BY <1>8, <1>a, <2>1, <2>2
\* A send in this block, of which the wallet knows a coin, is confirmed by it.
<1>9. ASSUME s \in br[at], old.status # "none", NEW c \in ins, conf2[c] # 0 PROVE confirms
  <2>1. at \in 1..Len(br) /\ ins \subseteq Spends(br[at])  BY <1>0, <1>5, <1>6, <1>9
  <2>2. c \in Coin /\ c \in spent  BY <1>2, <1>8, <1>9, <2>1
  <2>3. \A d \in ins : d \in spent \/ conf2[d] = 0  BY <1>2, <1>8, <2>1
  <2>4. old.status # "confirmed"
    <3> SUFFICES ASSUME old.status = "confirmed" PROVE FALSE
        OBVIOUS
    <3> DEFINE k == old.height
    <3>1. k \in lo..at - 1 /\ s \in br[k]  BY <1>1
    <3> HIDE DEF k
    <3>2. k \in 1..Len(br) /\ k # at  BY <1>0, <1>5, <3>1
    <3>3. c \in Spends(br[k]) /\ c \in Spends(br[at])  BY <1>6, <1>9, <2>1, <3>1, <3>2
    <3> QED BY <2>1, <2>2, <3>2, <3>3 DEF Sound
  <2>5. old.status = "failed" => Open(old)
    <3> SUFFICES ASSUME old.status = "failed", ~Open(old) PROVE FALSE
        OBVIOUS
    <3>1. PICK d \in ins : spentAt[d] # 0  BY <1>1
    <3>2. d \in Coin  BY <1>2
    <3> DEFINE k == spentAt[d]
    <3>3. k \in lo..at - 1 /\ d \in Spends(br[k])  BY <3>1, <3>2 DEF CoinsOK
    <3> HIDE DEF k
    <3>4. k \in 1..Len(br) /\ k # at  BY <1>0, <1>5, <3>3
    <3> QED BY <2>1, <3>2, <3>3, <3>4 DEF Sound
  <2>6. old.status = "pending" \/ old.status = "failed"
    <3>1. old \in SendRow  OBVIOUS
    <3>2. old.status \in {"none", "pending", "confirmed", "failed"}  BY <3>1 DEF SendRow
    <3> QED BY <1>9, <2>4, <3>2
  <2>7. Open(old)  BY <2>5, <2>6 DEF Open
  <2>8. outs \subseteq seen  BY <1>9, <1>a, <2>7
  <2> QED BY <1>9, <2>2, <2>3, <2>7, <2>8 DEF Confirms
<1>10. new.status = "confirmed" => new.height \in lo..at /\ s \in br[new.height]
  <2> SUFFICES ASSUME new.status = "confirmed" PROVE new.height \in lo..at /\ s \in br[new.height]
      OBVIOUS
  <2>1. CASE confirms /\ new.height = at
    <3>1. outs \subseteq Carries(br[at]) /\ at \in 1..Len(br)  BY <1>0, <1>5, <1>a, <2>1 DEF Confirms
    <3>2. PICK o \in outs : o \in Carries(br[at]) /\ \A t \in Tx : t # s => o \notin Outputs[t]  BY <1>2, <3>1
    <3>3. PICK t \in br[at] : o \in Outputs[t]  BY <3>2 DEF Carries
    <3>4. t = s  BY <1>4, <3>1, <3>2, <3>3
    <3> QED BY <1>0, <2>1, <3>3, <3>4
  <2>2. CASE new = old
    <3>1. old.height \in lo..at - 1 /\ s \in br[old.height]  BY <1>1, <2>2
    <3> QED BY <1>0, <2>2, <3>1
  <2> QED BY <1>3, <2>1, <2>2 DEF BlockRow
<1>11. ASSUME NEW h \in lo..at, s \in br[h], new.status # "none", NEW c \in ins, conf2[c] # 0
       PROVE  new.status = "confirmed" /\ new.height = h
  <2>1. h \in 1..Len(br) /\ ins \subseteq Spends(br[h])  BY <1>5, <1>6, <1>11
  <2>2. c \in Coin /\ conf[c] # 0  BY <1>2, <1>7, <1>11, <2>1
  <2>3. old.status # "none"  BY <1>3, <1>11 DEF BlockRow, Confirms, Open
  <2>4. CASE h = at
    <3>1. confirms  BY <1>9, <1>11, <2>3, <2>4
    <3> QED BY <1>3, <2>4, <3>1 DEF BlockRow
  <2>5. CASE h \in lo..at - 1
    <3>1. old.status = "confirmed" /\ old.height = h  BY <1>1, <1>11, <2>2, <2>3, <2>5
    <3>2. ~confirms  BY <3>1 DEF Confirms, Open
    <3> QED BY <1>3, <3>1, <3>2 DEF BlockRow
  <2> QED BY <1>0, <2>4, <2>5
<1>12. ASSUME new.status = "failed", ~Open(new)
       PROVE  \E c \in ins : spentAt2[c] # 0 /\ spentAt2[c] = new.height
  <2>1. CASE new = old
    <3>1. PICK c \in ins : spentAt[c] # 0 /\ spentAt[c] = old.height  BY <1>1, <1>12, <2>1
    <3>2. c \in Coin /\ c \notin spent  BY <1>2, <1>a, <3>1
    <3> QED BY <1>b, <2>1, <3>1, <3>2
  <2>2. CASE ins \cap spent # {} /\ new.height = at
    <3>1. PICK c \in ins : c \in spent  BY <2>2
    <3>2. spentAt2[c] = at  BY <1>2, <1>b, <3>1
    <3> QED BY <1>0, <2>2, <3>1, <3>2
  <2> QED BY <1>3, <1>12, <2>1, <2>2 DEF BlockRow
<1> QED BY <1>10, <1>11, <1>12

(* What the ledger's operations do to rows *)

\* persist_scan's rule, for a send that lists its outputs.
LEMMA WriteBlockRows ==
    ASSUME OwnOutputs, NEW w \in WalletType, NEW from \in WalletType, NEW h \in Nat \ {0}, NEW b \in ScannedBlock,
           NEW v, v = WriteBlock(w, from, h, b), NEW s \in Sends \ Legacy
    PROVE  BlockRow(w.row[s], v.row[s], Confirms(w.row[s], Inputs[s], Outputs[s], b.spent, v.conf, b.seen),
                    Inputs[s] \cap b.spent # {}, h)
<1> DEFINE got == Receive(w, from, h, b.incoming)
           gone == {c \in b.spent : Known(got, c)}
           carried == Carried(got, b)
           lost == LostTo(got, carried, gone)
           settled == Settle(got, carried, gone, h)
           old == w.row[s]
           new == v.row[s]
<1>1. got \in WalletType  BY ReceiveType
<1>2. got.row = w.row  BY DEF Receive, WalletType
<1>3. carried \in SUBSET Sends /\ gone \in SUBSET Coin  BY DEF Carried, ScannedBlock
<1>4. Inputs[s] \in SUBSET Coin /\ RowOutputs(s) = Outputs[s] /\ Outputs[s] # {} /\ s \in Sends
  BY TxAssumption DEF RowOutputs, OwnOutputs
<1>5. s \in lost => old.status = "pending" /\ s \notin carried /\ Inputs[s] \cap b.spent # {}
  BY <1>2 DEF LostTo, IsPending
<1>6. s \in carried <=> /\ Open(old) /\ Inputs[s] \cap b.spent # {}
                        /\ \A c \in Inputs[s] : c \in b.spent \/ got.conf[c] = 0
                        /\ Outputs[s] \subseteq b.seen
  <2>1. IsPending(got, s) \/ GivenUp(got, s) <=> Open(old)  BY <1>2 DEF IsPending, GivenUp, Open
  <2> HIDE DEF got, old
  <2>2. s \in carried <=> /\ IsPending(got, s) \/ GivenUp(got, s)
                          /\ Inputs[s] \cap b.spent # {}
                          /\ \A c \in Inputs[s] : c \in b.spent \/ ~Known(got, c)
                          /\ RowOutputs(s) \subseteq b.seen
    BY <1>4 DEF Carried
  <2> QED BY <1>4, <2>1, <2>2 DEF Known
<1> HIDE DEF got, gone, carried
<1>7. settled \in WalletType  BY <1>1, <1>3, SettleType
<1>8. /\ settled.row[s] = IF s \in carried THEN Revived(got.row[s], "confirmed", h)
                          ELSE IF s \in lost THEN [got.row[s] EXCEPT !.status = "failed", !.height = h]
                          ELSE got.row[s]
      /\ settled.conf = got.conf
  <2> HIDE DEF lost
  <2> QED BY <1>1, <1>4 DEF Settle, WalletType, lost
<1> HIDE DEF settled, lost
<1>9. v = DropStale(settled, b.spent)  BY DEF WriteBlock, settled, got, gone, carried
<1>10. v.row = settled.row /\ v.conf = settled.conf  BY <1>7, <1>9 DEF DropStale, WalletType
<1>11. old \in SendRow  BY DEF WalletType
<1>12. new = IF s \in carried THEN Revived(old, "confirmed", h)
             ELSE IF s \in lost THEN [old EXCEPT !.status = "failed", !.height = h] ELSE old
  BY <1>2, <1>8, <1>10
<1>13. s \in carried <=> Confirms(old, Inputs[s], Outputs[s], b.spent, v.conf, b.seen)
  <2>1. v.conf = got.conf  BY <1>8, <1>10
  <2> HIDE DEF old
  <2> QED BY <1>6, <2>1 DEF Confirms
<1> DEFINE confirms == Confirms(old, Inputs[s], Outputs[s], b.spent, v.conf, b.seen)
<1> HIDE DEF old, new, confirms
<1>14. s \in carried => new.status = "confirmed" /\ new.height = h  BY <1>11, <1>12 DEF Revived, SendRow
<1>15. s \notin carried /\ s \in lost => new.status = "failed" /\ new.height = h  BY <1>11, <1>12 DEF SendRow
<1>16. BlockRow(old, new, confirms, Inputs[s] \cap b.spent # {}, h)
  <2>1. CASE s \in carried  BY <1>13, <1>14, <2>1 DEF BlockRow, confirms
  <2>2. CASE s \notin carried /\ s \in lost  BY <1>5, <1>13, <1>15, <2>2 DEF BlockRow, confirms
  <2>3. CASE s \notin carried /\ s \notin lost  BY <1>12, <1>13, <2>3 DEF BlockRow, confirms
  <2> QED BY <2>1, <2>2, <2>3
<1> QED BY <1>16 DEF old, new, confirms

\* A block confirms or closes a row: none is opened by it.
LEMMA BlockRowOpen ==
    ASSUME NEW old, NEW new, NEW confirms, NEW lost, NEW h, BlockRow(old, new, confirms, lost, h), Open(new)
    PROVE  Open(old)
BY DEF BlockRow, Open

LEMMA OneBlockCredit ==
    ASSUME OwnOutputs, NEW w \in WalletType, NEW from \in WalletType, NEW h \in Nat \ {0}, NEW b \in ScannedBlock,
           NEW br \in Seq(Block), Sound(br), NEW lo \in Nat \ {0}, lo <= h, h <= Len(br),
           CoinsOK(w.conf, w.spentAt, br, lo, h - 1), CreditOK(w.row, w.conf, w.spentAt, br, lo, h - 1),
           b.incoming = Mints(br[h]), b.spent = Spends(br[h]) \cap Unspent(w), b.seen \subseteq Carries(br[h]),
           \A s \in Sends \ Legacy : s \in br[h] /\ Open(w.row[s]) => Outputs[s] \subseteq b.seen,
           NEW v, v = WriteBlock(w, from, h, b)
    PROVE  /\ CreditOK(v.row, v.conf, v.spentAt, br, lo, h)
           /\ \A s \in Sends \ Legacy : Open(v.row[s]) => Open(w.row[s])
<1> DEFINE conf == w.conf
           spentAt == w.spentAt
           row == w.row
           conf2 == v.conf
           spentAt2 == v.spentAt
           row2 == v.row
           spent == b.spent
           seen == b.seen
<1>1. conf \in [Coin -> Nat] /\ spentAt \in [Coin -> Nat] /\ row \in [Sends -> SendRow]
  BY DEF WalletType
<1>2. Wrote(v, w, h, b)  BY WriteBlockCoins
<1>3. \A s \in Sends \ Legacy :
         BlockRow(row[s], row2[s], Confirms(row[s], Inputs[s], Outputs[s], spent, conf2, seen), Inputs[s] \cap spent # {}, h)
  BY WriteBlockRows
<1>4. spent \in SUBSET Coin /\ seen \subseteq Carries(br[h])  BY DEF ScannedBlock
<1>5. \A c \in Coin : c \in spent <=> c \in Spends(br[h]) /\ conf[c] # 0 /\ spentAt[c] = 0
  BY DEF Unspent, IsUnspent, Known
<1>6. \A c \in Coin : conf2[c] = (IF c \in Mints(br[h]) THEN h ELSE conf[c])  BY <1>2 DEF Wrote
<1>7. \A c \in Coin : spentAt2[c] = (IF c \in spent THEN h ELSE spentAt[c])
  <2> TAKE c \in Coin
  <2>1. spentAt2[c] = (IF c \in spent /\ conf2[c] # 0 THEN h ELSE spentAt[c])  BY <1>2 DEF Wrote
  <2> HIDE DEF spentAt2, conf2, spentAt, conf, spent
  <2>2. c \in spent => conf2[c] # 0  BY <1>5, <1>6
  <2> QED BY <2>1, <2>2
<1>8. \A s \in Sends \ Legacy : s \in br[h] /\ Open(row[s]) => Outputs[s] \subseteq seen
  OBVIOUS
<1>9. CoinsOK(conf, spentAt, br, lo, h - 1) /\ CreditOK(row, conf, spentAt, br, lo, h - 1)
  OBVIOUS
<1> HIDE DEF conf, spentAt, row, conf2, spentAt2, row2, spent, seen
<1>10. CreditOK(row2, conf2, spentAt2, br, lo, h)
  <2>1. h \in Nat /\ lo <= h /\ h <= Len(br) /\ br \in Seq(Block) /\ Sound(br) /\ lo \in Nat \ {0} /\ OwnOutputs
    OBVIOUS
  <2>2. ScanRight(br, h, conf, spentAt, row, spent, seen)  BY <1>4, <1>5, <1>8 DEF ScanRight
  <2>3. WriteRight(br, h, conf, conf2, spentAt, spentAt2, row, row2, spent, seen)  BY <1>3, <1>6, <1>7 DEF WriteRight
  <2> QED BY <1>1, <1>4, <1>9, <2>1, <2>2, <2>3, CreditExtend
<1>11. \A s \in Sends \ Legacy : Open(row2[s]) => Open(row[s])  BY <1>3, BlockRowOpen
<1> QED BY <1>10, <1>11 DEF conf, spentAt, row, conf2, spentAt2, row2

(* A wallet, and a batch in flight *)

InCredit(w) == CreditOK(w.row, w.conf, w.spentAt, w.branch, w.birthday, w.synced)

\* Of what a block carries, a scan saw nothing else, and saw the outputs of
\* every open send in it.
SeenIn(scanned, block, row) ==
    /\ scanned.seen \subseteq Carries(block)
    /\ \A s \in Sends \ Legacy : s \in block /\ Open(row[s]) => Outputs[s] \subseteq scanned.seen

SeenFits(b, row) ==
    /\ SeenIn(b.blocks[1], b.branch[b.from], row)
    /\ Len(b.blocks) = 2 => SeenIn(b.blocks[2], b.branch[b.from + 1], row)

\* The blocks of a batch written: up to the last one rows are the chain's.
LEMMA WriteBlocksCredit ==
    ASSUME OwnOutputs, NEW w \in WalletType, NEW b, Stands(b, w), BatchFits(b, w), SeenFits(b, w.row),
           b.branch \in Seq(Block), CreditOK(w.row, w.conf, w.spentAt, b.branch, w.birthday, b.from - 1),
           NEW u, u = WriteBlocks(w, b.from, b.blocks)
    PROVE  CreditOK(u.row, u.conf, u.spentAt, b.branch, w.birthday, b.from + Len(b.blocks) - 1)
<1> DEFINE h == b.from
           blocks == b.blocks
           br == b.branch
           lo == w.birthday
           first == blocks[1]
           second == blocks[2]
           one == WriteBlock(w, w, h, first)
<1>1. lo \in Nat \ {0} /\ lo <= h /\ h \in Nat \ {0}  BY DEF Stands
<1>2. Sound(br) /\ Len(br) = h + Len(blocks) - 1 /\ Len(br) \in Nat /\ h <= Len(br) /\ br \in Seq(Block)
  BY DEF Stands
<1>3. CoinsOK(w.conf, w.spentAt, br, lo, h - 1)  BY DEF Stands
<1>4. first \in ScannedBlock  BY DEF Stands
<1>5. first.incoming = Mints(br[h]) /\ first.spent = Spends(br[h]) \cap Unspent(w)  BY DEF BatchFits
<1>6. /\ first.seen \subseteq Carries(br[h])
      /\ \A s \in Sends \ Legacy : s \in br[h] /\ Open(w.row[s]) => Outputs[s] \subseteq first.seen
  BY DEF SeenFits, SeenIn
<1>7. CreditOK(w.row, w.conf, w.spentAt, br, lo, h - 1)  OBVIOUS
<1>8. one = WriteBlock(w, w, h, first)  OBVIOUS
<1>9. one \in WalletType
  <2>1. one \in WalletType /\ Wrote(one, w, h, first)  BY <1>1, <1>4, WriteBlockCoins
  <2> QED BY <2>1
<1>10. CoinsOK(one.conf, one.spentAt, br, lo, h) /\ Unspent(one) = After(Unspent(w), first)
  <2> HIDE DEF h, blocks, br, lo, first, one
  <2>1. /\ h \in Nat \ {0} /\ first \in ScannedBlock /\ br \in Seq(Block) /\ Sound(br) /\ lo \in Nat \ {0}
        /\ lo <= h /\ h <= Len(br) /\ CoinsOK(w.conf, w.spentAt, br, lo, h - 1)
        /\ first.incoming = Mints(br[h]) /\ first.spent = Spends(br[h]) \cap Unspent(w)
        /\ one = WriteBlock(w, w, h, first)
    BY <1>1, <1>2, <1>3, <1>4, <1>5, <1>8
  <2> QED BY <2>1, OneBlock
<1>11. /\ CreditOK(one.row, one.conf, one.spentAt, br, lo, h)
       /\ \A s \in Sends \ Legacy : Open(one.row[s]) => Open(w.row[s])
  <2> HIDE DEF h, blocks, br, lo, first, one
  <2> QED BY <1>1, <1>2, <1>3, <1>4, <1>5, <1>6, <1>7, <1>8, OneBlockCredit
<1>12. CASE Len(blocks) = 1
  <2>1. u = one  BY <1>12 DEF WriteBlocks
  <2>2. h + Len(blocks) - 1 = h  BY <1>1, <1>12
  <2> HIDE DEF h, blocks, br, lo, first, one
  <2>3. CreditOK(u.row, u.conf, u.spentAt, br, lo, h + Len(blocks) - 1)  BY <1>11, <2>1, <2>2
  <2> QED BY <2>3 DEF h, blocks, br, lo
<1>13. CASE Len(blocks) = 2
  <2> DEFINE at == h + 1
  <2>1. second \in ScannedBlock  BY <1>13 DEF Stands
  <2>2. u = WriteBlock(one, w, at, second)  BY <1>13 DEF WriteBlocks
  <2>3. second.incoming = Mints(br[at]) /\ second.spent = Spends(br[at]) \cap Unspent(one)
    BY <1>10, <1>13 DEF BatchFits
  <2>4. /\ second.seen \subseteq Carries(br[at])
        /\ \A s \in Sends \ Legacy : s \in br[at] /\ Open(w.row[s]) => Outputs[s] \subseteq second.seen
    BY <1>13 DEF SeenFits, SeenIn
  <2>5. \A s \in Sends \ Legacy : s \in br[at] /\ Open(one.row[s]) => Outputs[s] \subseteq second.seen
    BY <1>11, <2>4
  <2>6. at \in Nat \ {0} /\ lo <= at /\ at <= Len(br) /\ at - 1 = h /\ h + Len(blocks) - 1 = at
    <3> HIDE DEF h, blocks, br, lo
    <3> QED BY <1>1, <1>2, <1>13
  <2> HIDE DEF h, blocks, br, lo, first, one, second, at
  <2>7. CoinsOK(one.conf, one.spentAt, br, lo, at - 1) /\ CreditOK(one.row, one.conf, one.spentAt, br, lo, at - 1)
    BY <1>10, <1>11, <2>6
  <2>8. CreditOK(u.row, u.conf, u.spentAt, br, lo, at)
    BY <1>1, <1>2, <1>9, <2>1, <2>2, <2>3, <2>4, <2>5, <2>6, <2>7, OneBlockCredit
  <2>9. CreditOK(u.row, u.conf, u.spentAt, br, lo, h + Len(blocks) - 1)  BY <2>6, <2>8
  <2> QED BY <2>9 DEF h, blocks, br, lo
<1> QED BY <1>12, <1>13 DEF Stands

LEMMA PersistCredit ==
    ASSUME OwnOutputs, NEW w \in WalletType, InPlace(w), w.birthday # 0, NEW b, BatchFits(b, w),
           b.from \in Nat \ {0}, b.blocks \in Seq(ScannedBlock), Len(b.blocks) \in 1..2,
           b.branch \in Seq(Block), w.linked => w.synced # NoSync,
           InCredit(w), SeenFits(b, w.row)
    PROVE  InCredit(PersistScan(w, b.from, b.blocks, b.branch))
<1> DEFINE h == b.from
           last == h + Len(b.blocks) - 1
           br == b.branch
           lo == w.birthday
           u == WriteBlocks(w, h, b.blocks)
           v == PersistScan(w, h, b.blocks, br)
<1>1. Stands(b, w)  BY BatchStands
<1>2. CreditOK(w.row, w.conf, w.spentAt, br, lo, h - 1)
  <2> DEFINE row == w.row
             conf == w.conf
             spentAt == w.spentAt
             brw == w.branch
             sy == w.synced
  <2>1. CreditOK(row, conf, spentAt, brw, lo, sy) /\ (\A k \in lo..sy : br[k] = brw[k]) /\ sy \in Int /\ lo \in Nat
    BY WalletFields DEF InCredit, BatchFits
  <2>2. (sy = NoSync /\ h = lo) \/ sy = h - 1  BY <1>1 DEF Stands
  <2> HIDE DEF row, conf, spentAt, brw, sy, lo, br, h
  <2>3. CreditOK(row, conf, spentAt, br, lo, sy)  BY <2>1, CreditOnBoth
  <2>4. sy = h - 1 => CreditOK(row, conf, spentAt, br, lo, h - 1)  BY <2>3
  <2>5. sy = NoSync /\ h = lo => CreditOK(row, conf, spentAt, br, lo, h - 1)
    <3> SUFFICES ASSUME sy = NoSync, h = lo PROVE CreditOK(row, conf, spentAt, br, lo, h - 1)
        OBVIOUS
    <3>1. (\A k \in lo..sy : FALSE) /\ (\A k \in lo..h - 1 : FALSE)  BY <2>1
    <3> QED BY <2>3, <3>1 DEF CreditOK
  <2>6. CreditOK(row, conf, spentAt, br, lo, h - 1)  BY <2>2, <2>4, <2>5
  <2> QED BY <2>6 DEF row, conf, spentAt
<1>3. CreditOK(u.row, u.conf, u.spentAt, br, lo, last)  BY <1>1, <1>2, WriteBlocksCredit
<1>4. u \in WalletType /\ u.birthday = lo  BY WriteBlocksCoins DEF BlocksWritten
<1>5. v = [u EXCEPT !.kept = {k \in u.kept : k > last - KeepBlocks}, !.synced = last,
                    !.linked = TRUE, !.branch = br]
  BY DEF PersistScan
<1> HIDE DEF u, v, last, br, lo
<1>6. v.conf = u.conf /\ v.spentAt = u.spentAt /\ v.row = u.row /\ v.birthday = u.birthday
  BY <1>4, <1>5 DEF WalletType
<1>7. v.synced = last /\ v.branch = br  BY <1>4, <1>5 DEF WalletType
<1>8. InCredit(v)  BY <1>3, <1>4, <1>6, <1>7 DEF InCredit
<1> QED BY <1>8 DEF v, br

LEMMA RollBackCredit ==
    ASSUME NEW w \in WalletType, InPlace(w), w.synced # NoSync, w.birthday # 0, NEW h \in Nat, NEW linked \in BOOLEAN,
           h <= w.synced, InCredit(w)
    PROVE  InCredit(RollBack(w, h, linked))
<1> DEFINE v == RollBack(w, h, linked)
           lo == w.birthday
           hi == w.synced
           conf == w.conf
           spentAt == w.spentAt
           row == w.row
           br == w.branch
           br2 == UpTo(br, h)
<1>1. /\ conf \in [Coin -> Nat] /\ spentAt \in [Coin -> Nat] /\ lo \in Nat \ {0} /\ hi \in Nat
      /\ br \in Seq(Block) /\ Len(br) \in Nat
  BY WalletFields
<1>2. Sound(br) /\ Len(br) = hi /\ CoinsOK(conf, spentAt, br, lo, hi) /\ CreditOK(row, conf, spentAt, br, lo, hi)
  BY DEF InPlace, InCredit
<1>3. \A s \in Sends : row[s].height \in Nat  BY DEF WalletType, SendRow
<1>4. /\ v.synced = h /\ v.birthday = lo
      /\ v.branch = IF h <= Len(br) THEN br2 ELSE br
  BY DEF RollBack, WalletType
<1>5. v.branch = br2  BY <1>2, <1>4
<1>6. \A c \in Coin : v.conf[c] = (IF conf[c] > h THEN 0 ELSE conf[c])
  BY DEF RollBack, CoinsAbove, WalletType
<1>7. \A c \in Coin : v.spentAt[c] = (IF conf[c] > h \/ spentAt[c] > h THEN 0 ELSE spentAt[c])
  <2> TAKE c \in Coin
  <2>1. v.spentAt[c] = IF c \in CoinsAbove(w, h) \cup SpentAbove(w, h) THEN 0 ELSE w.spentAt[c]
    BY DEF RollBack, WalletType
  <2>2. c \in CoinsAbove(w, h) \cup SpentAbove(w, h) <=> conf[c] > h \/ (conf[c] <= h /\ spentAt[c] > h)
    BY DEF CoinsAbove, SpentAbove
  <2>3. conf[c] \in Nat /\ spentAt[c] \in Nat  BY <1>1
  <2> HIDE DEF conf
  <2>4. conf[c] > h \/ (conf[c] <= h /\ spentAt[c] > h) <=> conf[c] > h \/ spentAt[c] > h  BY <2>3
  <2> QED BY <2>1, <2>2, <2>4
<1>8. \A s \in Sends : IF row[s].status # "none" /\ row[s].height > h
                       THEN v.row[s].status = "pending" ELSE v.row[s] = row[s]
  <2> TAKE s \in Sends
  <2> DEFINE old == row[s]
             new == [old EXCEPT !.status = "pending", !.height = 0,
                                !.rolledBack = old.rolledBack \/ old.status = "confirmed"]
  <2>1. v.row[s] = IF s \in RowsAbove(w, h) THEN new ELSE old  BY DEF RollBack, WalletType
  <2>2. old \in SendRow  BY DEF WalletType
  <2>3. s \in RowsAbove(w, h) <=> old.status # "none" /\ old.height > h  BY DEF RowsAbove
  <2> HIDE DEF old
  <2>4. new.status = "pending"  BY <2>2 DEF SendRow
  <2> QED BY <2>1, <2>3, <2>4 DEF old
<1>9. Len(br2) = h /\ \A i \in 1..h : br2[i] = br[i]  BY <1>1, <1>2, UpToBlocks
<1> DEFINE conf2 == v.conf
           spentAt2 == v.spentAt
           row2 == v.row
<1>10. /\ \A c \in Coin : conf2[c] = (IF conf[c] > h THEN 0 ELSE conf[c])
       /\ \A c \in Coin : spentAt2[c] = (IF conf[c] > h \/ spentAt[c] > h THEN 0 ELSE spentAt[c])
       /\ RowsBack(row, row2, h)
  BY <1>6, <1>7, <1>8 DEF RowsBack
<1>11. h <= hi  OBVIOUS
<1> HIDE DEF v, lo, hi, conf, spentAt, row, br, br2, conf2, spentAt2, row2
<1>12. CreditOK(row2, conf2, spentAt2, br, lo, h)
  <2>1. hi <= Len(br)  BY <1>1, <1>2
  <2> QED BY <1>1, <1>2, <1>3, <1>10, <1>11, <2>1, CreditBack
<1>13. \A i \in lo..h : br2[i] = br[i]  BY <1>1, <1>9
<1>14. CreditOK(row2, conf2, spentAt2, br2, lo, h)  BY <1>1, <1>12, <1>13, CreditOnBoth
<1>15. InCredit(v)  BY <1>4, <1>5, <1>14 DEF InCredit, conf2, spentAt2, row2
<1> QED BY <1>15 DEF v

(* Rows of the operations that write no block *)

QuietRows(v, w) == \A s \in Sends : Quiet(w.row[s], v.row[s])
StillRows(v, w) == \A s \in Sends : Still(w.row[s], v.row[s])

LEMMA StillQuiet ==
    ASSUME NEW v, NEW w, StillRows(v, w)
    PROVE  QuietRows(v, w)
BY DEF StillRows, QuietRows, Quiet

LEMMA SameRowsStill ==
    ASSUME NEW v, NEW w, v.row = w.row
    PROVE  StillRows(v, w)
BY DEF StillRows, Still

LEMMA ExpireSendsStill ==
    ASSUME NEW w \in WalletType
    PROVE  StillRows(ExpireSends(w), w)
<1> SUFFICES ASSUME NEW s \in Sends PROVE Still(w.row[s], ExpireSends(w).row[s])
    BY DEF StillRows
<1> DEFINE old == w.row[s]
           new == Failed(old, "expired")
<1>1. ExpireSends(w).row[s] = IF s \in Overdue(w) THEN new ELSE old
  BY DEF ExpireSends, Release, WalletType
<1>2. old \in SendRow /\ (s \in Overdue(w) => old.status = "pending")
  BY DEF WalletType, Overdue, IsPending
<1> HIDE DEF old
<1>3. new.status = "failed" /\ new.expired  BY <1>2 DEF Failed, SendRow
<1> HIDE DEF new
<1> QED BY <1>1, <1>2, <1>3 DEF Still, Open, old

LEMMA DropRowQuiet ==
    ASSUME NEW w \in WalletType, NEW r \in Sends
    PROVE  QuietRows(DropRow(w, r), w) /\ QuietRows(DiscardPending(w, r), w)
<1>1. ASSUME NEW s \in Sends
      PROVE  Quiet(w.row[s], DropRow(w, r).row[s]) /\ Quiet(w.row[s], DiscardPending(w, r).row[s])
  <2>1. DropRow(w, r).row[s] = IF s = r THEN NoSend ELSE w.row[s]
    BY DEF DropRow, WalletType
  <2>2. DiscardPending(w, r).row[s] = IF s = r /\ w.row[r].status # "none" THEN NoSend ELSE w.row[s]
    BY DEF DiscardPending, DropRow, Release, WalletType
  <2>3. NoSend.status = "none"  BY DEF NoSend
  <2> QED BY <2>1, <2>2, <2>3 DEF Quiet, Still
<1> QED BY <1>1 DEF QuietRows

LEMMA ForgetSendStill ==
    ASSUME NEW w \in WalletType, NEW r \in Sends
    PROVE  StillRows(ForgetSend(w, r), w)
<1> SUFFICES ASSUME NEW s \in Sends PROVE Still(w.row[s], ForgetSend(w, r).row[s])
    BY DEF StillRows
<1> DEFINE old == w.row[s]
           new == Failed(old, "givenUp")
<1>1. ForgetSend(w, r).row[s] = IF s = r /\ IsPending(w, r) THEN new ELSE old
  BY DEF ForgetSend, Release, WalletType
<1>2. old \in SendRow /\ (s = r /\ IsPending(w, r) => old.status = "pending")
  BY DEF WalletType, IsPending
<1> HIDE DEF old
<1>3. new.status = "failed" /\ new.givenUp  BY <1>2 DEF Failed, SendRow
<1> HIDE DEF new
<1> QED BY <1>1, <1>2, <1>3 DEF Still, Open, old

LEMMA RecordOutgoingStill ==
    ASSUME NEW w \in WalletType, NEW t, NEW ins \in SUBSET Coin
    PROVE  StillRows(RecordOutgoing(w, t, ins), w)
<1> SUFFICES ASSUME NEW s \in Sends PROVE Still(w.row[s], RecordOutgoing(w, t, ins).row[s])
    BY DEF StillRows
<1> DEFINE givenUpOn(c) == {r \in Sends : c \in Inputs[r] /\ MayStillGo(w, r)}
           shared == {c \in ins : givenUpOn(c) # {}}
           sent == FirstOf(givenUpOn(FirstOf(shared)))
           old == w.row[s]
           new == Revived(old, "pending", 0)
<1>1. old \in SendRow  BY DEF WalletType
<1>2. \/ RecordOutgoing(w, t, ins).row[s] = old
      \/ /\ shared # {} /\ s = sent
         /\ RecordOutgoing(w, t, ins).row[s] = new
  <2> HIDE DEF shared, sent
  <2> QED BY DEF RecordOutgoing, SetHold, WalletType, shared, sent
<1>3. shared # {} => GivenUp(w, sent)
  <2> SUFFICES ASSUME shared # {} PROVE GivenUp(w, sent)
    OBVIOUS
  <2>1. FirstOf(shared) \in shared
    BY FirstOfMember
  <2>2. givenUpOn(FirstOf(shared)) # {}
    BY <2>1
  <2>3. sent \in givenUpOn(FirstOf(shared))
    <3> HIDE DEF shared
    <3> QED BY <2>2, FirstOfMember
  <2> QED BY <2>3 DEF MayStillGo
<1>4. shared # {} /\ s = sent => Open(old)
  <2> HIDE DEF shared, sent
  <2> QED BY <1>3 DEF GivenUp, Open
<1>5. Open(new)
  <2> HIDE DEF old
  <2>1. new.status = "pending"  BY <1>1 DEF Revived, SendRow
  <2> QED BY <2>1 DEF Open
<1> HIDE DEF shared, sent, old, new
<1> QED BY <1>2, <1>4, <1>5 DEF Still, old

LEMMA ExpireRowStill ==
    ASSUME NEW w \in WalletType, NEW c
    PROVE  StillRows(ExpireRow(w, c), w)
<1>1. ExpireRow(w, c).row = w.row
  BY DEF ExpireRow, SetHold, WalletType
<1> QED BY <1>1, SameRowsStill

(* No send is on a chain before it was handed to the node *)

Unseen(s) ==
    /\ s \notin live /\ ~InChain(chain, s)
    /\ ~InChain(wallet.branch, s) /\ ~InChain(pass.batch.branch, s)
SentOnly == \A s \in Sends : phase[s] # "done" => Unseen(s)

LEMMA InUpTo ==
    ASSUME NEW ch \in Seq(Block), NEW n \in Nat, n <= Len(ch), NEW s, InChain(UpTo(ch, n), s)
    PROVE  InChain(ch, s)
<1>1. Len(UpTo(ch, n)) = n /\ (\A i \in 1..n : UpTo(ch, n)[i] = ch[i]) /\ Len(ch) \in Nat
  BY UpToBlocks, LenProperties
<1>2. PICK h \in 1..n : s \in UpTo(ch, n)[h]  BY <1>1 DEF InChain
<1>3. h \in 1..Len(ch) /\ s \in ch[h]  BY <1>1, <1>2
<1> QED BY <1>3 DEF InChain

LEMMA InAppend ==
    ASSUME NEW ch \in Seq(Block), NEW b \in Block, NEW s, InChain(Append(ch, b), s)
    PROVE  InChain(ch, s) \/ s \in b
<1> DEFINE u == Append(ch, b)
<1>1. Len(u) = Len(ch) + 1 /\ (\A i \in 1..Len(ch) : u[i] = ch[i]) /\ u[Len(ch) + 1] = b /\ Len(ch) \in Nat
  BY AppendProperties, LenProperties
<1>2. PICK h \in 1..Len(u) : s \in u[h]  BY DEF InChain
<1> HIDE DEF u
<1>3. h \in 1..Len(ch) \/ h = Len(ch) + 1  BY <1>1, <1>2
<1> QED BY <1>1, <1>2, <1>3 DEF InChain

\* A step that brings no send anywhere but from where it was, or by Submit.
NoneAhead ==
    \A s \in Sends :
        /\ phase'[s] # "done" => phase[s] # "done"
        /\ s \in live' => s \in live \/ phase'[s] = "done"
        /\ InChain(chain', s) => InChain(chain, s) \/ s \in live
NothingNew ==
    /\ NoneAhead
    /\ \A s \in Sends :
          /\ InChain(wallet'.branch, s) => InChain(wallet.branch, s) \/ InChain(pass.batch.branch, s)
          /\ InChain(pass'.batch.branch, s) => InChain(pass.batch.branch, s) \/ InChain(chain, s)

LEMMA SentOnlyKept ==
    ASSUME SentOnly, NothingNew
    PROVE  SentOnly'
BY DEF SentOnly, NothingNew, NoneAhead, Unseen

\* Only a send handed to the node joins the live ones, and blocks take live ones.
LEMMA StepNoneAhead ==
    ASSUME TypeOK, [Next]_vars
    PROVE  NoneAhead
<1> DEFINE Same == phase' = phase /\ live' = live /\ chain' = chain
<1>1. phase \in [Sends -> Phase] /\ chain \in Seq(Block) /\ live \subseteq Tx  BY DEF TypeOK
<1>2. CASE Same  BY <1>2 DEF NoneAhead
<1>3. CASE Mine
  <2>1. phase' = phase /\ live' = live  BY <1>3 DEF Mine, appVars
  <2>2. PICK b \in SUBSET live : chain' = Append(chain, b)  BY <1>3 DEF Mine
  <2>3. b \in Block  BY <1>1 DEF Block
  <2>4. \A s \in Sends : InChain(chain', s) => InChain(chain, s) \/ s \in live
    BY <1>1, <2>2, <2>3, InAppend
  <2> QED BY <2>1, <2>4 DEF NoneAhead
<1>4. CASE Reorg
  <2>1. phase' = phase /\ live' = live  BY <1>4 DEF Reorg, appVars
  <2>2. PICK k \in 1..MaxDepth : k < Len(chain) /\ chain' = UpTo(chain, Len(chain) - k)  BY <1>4 DEF Reorg
  <2>3. Len(chain) - k \in Nat /\ Len(chain) - k <= Len(chain)  BY <1>1, <2>2, LenProperties, WalletAssumption
  <2>4. \A s \in Sends : InChain(chain', s) => InChain(chain, s)  BY <1>1, <2>2, <2>3, InUpTo
  <2> QED BY <2>1, <2>4 DEF NoneAhead
<1>5. CASE SyncStep \/ Rescan \/ GiveUpStep \/ RemoveStep \/ WatcherStep \/ UNCHANGED vars
  <2>1. CASE SyncStep
    BY <1>2, <2>1 DEF SyncStep, StartPass, RollBackIfForked, ScanBlocks, PersistBatch, EndPass, StopPass,
       chainVars, sendVars
  <2>2. CASE Rescan \/ GiveUpStep \/ UNCHANGED vars
    BY <1>2, <2>2 DEF Rescan, GiveUpStep, Forget, vars, chainVars, appVars
  <2>3. CASE RemoveStep
    BY <1>2, <2>3 DEF RemoveStep, Remove, JudgeRemovable, chainVars, sendVars
  <2>4. CASE WatcherStep
    BY <1>2, <2>4 DEF WatcherStep, StartPoll, FindSpend, RecordSpend, ExpireOutgoing, EndPoll,
       chainVars, sendVars, appVars
  <2> QED BY <1>5, <2>1, <2>2, <2>3, <2>4
<1>6. CASE SendStep
  <2>1. PICK r \in Sends : \/ Review(r) \/ Plan(r) \/ Build(r) \/ Cancel(r)
                           \/ Record(r) \/ Submit(r) \/ Refuse(r) \/ Discard(r)
    BY <1>6 DEF SendStep
  <2>2. phase[r] # "done" /\ \E to : phase' = [phase EXCEPT ![r] = to]
    BY <2>1 DEF Review, Plan, Build, Cancel, Record, Submit, Refuse, Discard, Move
  <2>3. \A s \in Sends : phase'[s] # "done" => phase[s] # "done"  BY <1>1, <2>2
  <2>4. chain' = chain
    BY <2>1 DEF Review, Plan, Build, Cancel, Record, Submit, Refuse, Discard, chainVars
  <2>5. CASE Submit(r)
    <3>1. phase'[r] = "done" /\ (live' = live \/ live' = live \cup {r})
      BY <1>1, <2>5 DEF Submit, Move
    <3> QED BY <2>3, <2>4, <3>1 DEF NoneAhead
  <2>6. CASE ~Submit(r)
    <3>1. live' = live
      BY <2>1, <2>6 DEF Review, Plan, Build, Cancel, Record, Refuse, Discard, chainVars
    <3> QED BY <2>3, <2>4, <3>1 DEF NoneAhead
  <2> QED BY <2>5, <2>6
<1>7. CASE Crash
  <2>1. live' = live /\ chain' = chain  BY <1>7 DEF Crash, chainVars
  <2>2. \A s \in Sends : phase'[s] # "done" => phase[s] # "done"  BY <1>7 DEF Crash
  <2> QED BY <2>1, <2>2 DEF NoneAhead
<1> QED BY <1>3, <1>4, <1>5, <1>6, <1>7 DEF Next

(* The steps *)

CreditKept == pass.batch # NoBatch => SeenFits(pass.batch, wallet.row)

\* Inductive, beside CoinsInv: rows are the chain's, and a batch in flight saw
\* the outputs of every send that is still open.
CreditInv == CoinsInv /\ SentOnly /\ InCredit(wallet) /\ CreditKept

LEMMA CreditInvCredit == CreditInv => CreditMatchesChain
<1> SUFFICES ASSUME CreditInv PROVE CreditMatchesChain
    OBVIOUS
<1>1. CreditOK(wallet.row, wallet.conf, wallet.spentAt, wallet.branch, wallet.birthday, wallet.synced)
  BY DEF CreditInv, InCredit
<1> QED BY <1>1, Zenon DEF CreditOK, CreditMatchesChain, Known, Scanned

LEMMA CreditInit == GenesisFollows /\ MadeLater /\ Init => CreditInv
<1> SUFFICES ASSUME GenesisFollows, MadeLater, Init PROVE CreditInv
    OBVIOUS
<1>1. CoinsInv  BY CoinsInit
<1>2. PICK h \in Birthdays : wallet = NewWallet(h)  BY DEF Init
<1>3. wallet.branch = <<>> /\ wallet.synced = NoSync /\ wallet.birthday = h /\ h \in Nat
      /\ wallet.row = [s \in Sends |-> NoSend]
  BY <1>2, WalletAssumption DEF NewWallet
<1>4. pass.batch = NoBatch /\ NoBatch.branch = <<>>  BY DEF Init, NoPass, NoBatch
<1>5. \A s \in Sends : ~InChain(wallet.branch, s) /\ ~InChain(pass.batch.branch, s)
  BY <1>3, <1>4 DEF InChain
<1>6. \A s \in Sends : s \notin live /\ ~InChain(chain, s)  BY DEF Init, MadeLater
<1>7. SentOnly  BY <1>5, <1>6 DEF SentOnly, Unseen
<1>8. InCredit(wallet)
  <2>1. \A k \in wallet.birthday..wallet.synced : FALSE  BY <1>3
  <2>2. \A s \in Sends : wallet.row[s].status = "none"  BY <1>3 DEF NoSend
  <2> QED BY <2>1, <2>2 DEF InCredit, CreditOK
<1> QED BY <1>1, <1>4, <1>7, <1>8 DEF CreditInv, CreditKept

\* What was scanned lies on the branch.
LEMMA ScannedOnBranch ==
    ASSUME CreditInv, NEW s \in Sends, ~InChain(wallet.branch, s)
    PROVE  \A h \in wallet.birthday..wallet.synced : s \notin wallet.branch[h]
<1> DEFINE lo == wallet.birthday
           hi == wallet.synced
           br == wallet.branch
<1>1. lo \in Nat /\ (hi \in Nat \/ hi = NoSync)  BY WalletFields DEF CreditInv, CoinsInv, TypeOK
<1>2. hi # NoSync => Len(br) = hi /\ lo # 0  BY DEF CreditInv, CoinsInv, InPlace, Working
<1>3. \A h \in 1..Len(br) : s \notin br[h]  BY DEF InChain
<1> HIDE DEF lo, hi, br
<1>4. \A h \in lo..hi : s \notin br[h]
  <2> TAKE h \in lo..hi
  <2>1. h \in 1..Len(br)  BY <1>1, <1>2
  <2> QED BY <1>3, <2>1
<1> QED BY <1>4 DEF lo, hi, br

LEMMA BatchOnBranch ==
    ASSUME CreditInv, pass.batch # NoBatch, NEW s \in Sends, ~InChain(pass.batch.branch, s)
    PROVE  /\ s \notin pass.batch.branch[pass.batch.from]
           /\ Len(pass.batch.blocks) = 2 => s \notin pass.batch.branch[pass.batch.from + 1]
<1> DEFINE h == pass.batch.from
           n == Len(pass.batch.blocks)
           br == pass.batch.branch
<1>1. h \in Nat \ {0} /\ n \in 1..2 /\ Len(br) = h + n - 1
  BY DEF CreditInv, CoinsInv, TypeOK, Working, MaxBatch, BatchKept, BatchFits
<1>2. \A k \in 1..Len(br) : s \notin br[k]  BY DEF InChain
<1> HIDE DEF h, n, br
<1>3. h \in 1..Len(br) /\ (n = 2 => h + 1 \in 1..Len(br))  BY <1>1
<1> QED BY <1>2, <1>3 DEF h, n, br

\* A step that leaves coins, and each row quiet or waiting for a send that is on
\* no chain, and ends the batch or leaves it.
LEMMA CreditStay ==
    ASSUME CreditInv, CoinsInv', NoneAhead, SameCoins(wallet', wallet),
           \A s \in Sends : \/ Quiet(wallet.row[s], wallet'.row[s])
                            \/ Open(wallet'.row[s]) /\ ~InChain(wallet.branch, s) /\ ~InChain(pass.batch.branch, s),
           pass'.batch = NoBatch \/ pass'.batch = pass.batch
    PROVE  CreditInv'
<1>1. SentOnly'
  <2>1. wallet'.branch = wallet.branch  BY DEF SameCoins
  <2>2. \A s : ~InChain(NoBatch.branch, s)  BY DEF InChain, NoBatch
  <2>3. NothingNew  BY <2>1, <2>2 DEF NothingNew
  <2> QED BY <2>3, SentOnlyKept DEF CreditInv
<1>2. InCredit(wallet')
  <2> DEFINE row == wallet.row
             row2 == wallet'.row
             conf == wallet.conf
             spentAt == wallet.spentAt
             br == wallet.branch
             lo == wallet.birthday
             hi == wallet.synced
  <2>1. CreditOK(row, conf, spentAt, br, lo, hi) /\ lo \in Int /\ hi \in Int
    BY WalletFields DEF CreditInv, InCredit, CoinsInv, TypeOK
  <2>2. \A s \in Sends \ Legacy : \/ Quiet(row[s], row2[s])
                                  \/ Open(row2[s]) /\ \A h \in lo..hi : s \notin br[h]
    BY ScannedOnBranch
  <2> HIDE DEF row, row2, conf, spentAt, br, lo, hi
  <2>3. CreditOK(row2, conf, spentAt, br, lo, hi)  BY <2>1, <2>2, CreditQuiet
  <2> QED BY <2>3 DEF InCredit, SameCoins, row2, conf, spentAt, br, lo, hi
<1>3. ASSUME pass'.batch # NoBatch PROVE SeenFits(pass'.batch, wallet'.row)
  <2> DEFINE b == pass.batch
  <2>1. pass'.batch = b /\ b # NoBatch  BY <1>3
  <2>2. SeenFits(b, wallet.row)  BY <2>1 DEF CreditInv, CreditKept
  <2>3. \A s \in Sends : Open(wallet'.row[s]) =>
            \/ Open(wallet.row[s])
            \/ s \notin b.branch[b.from] /\ (Len(b.blocks) = 2 => s \notin b.branch[b.from + 1])
    <3> TAKE s \in Sends
    <3>1. CASE Quiet(wallet.row[s], wallet'.row[s])  BY <3>1 DEF Quiet, Still, Open
    <3>2. CASE ~InChain(b.branch, s)  BY <2>1, <3>2, BatchOnBranch
    <3> QED BY <3>1, <3>2
  <2> HIDE DEF b
  <2>4. SeenFits(b, wallet'.row)  BY <2>2, <2>3 DEF SeenFits, SeenIn
  <2> QED BY <2>1, <2>4
<1>4. CreditKept'  BY <1>3 DEF CreditKept
<1>5. InCredit(wallet)'  BY <1>2
<1> QED BY <1>1, <1>4, <1>5 DEF CreditInv

\* A step that takes the wallet elsewhere and leaves no batch in flight.
LEMMA CreditMove ==
    ASSUME CreditInv, CoinsInv', NoneAhead, InCredit(wallet'), pass'.batch = NoBatch,
           \A s \in Sends : InChain(wallet'.branch, s) => InChain(wallet.branch, s) \/ InChain(pass.batch.branch, s)
    PROVE  CreditInv'
<1>1. SentOnly'
  <2>1. \A s : ~InChain(NoBatch.branch, s)  BY DEF InChain, NoBatch
  <2>2. NothingNew  BY <2>1 DEF NothingNew
  <2> QED BY <2>2, SentOnlyKept DEF CreditInv
<1>2. CreditKept'  BY DEF CreditKept
<1>3. InCredit(wallet)'  OBVIOUS
<1> QED BY <1>1, <1>2, <1>3 DEF CreditInv

LEMMA OpenRecorded ==
    ASSUME NEW w \in WalletType, NEW r \in Sends, NEW at
    PROVE  \A s \in Sends : IF s = r THEN Open(RecordPending(w, r, at).row[s])
                                    ELSE RecordPending(w, r, at).row[s] = w.row[s]
<1> DEFINE new == [NoSend EXCEPT !.status = "pending", !.stamp = at]
<1>1. RecordPending(w, r, at).row = [w.row EXCEPT ![r] = new]  BY DEF RecordPending, WalletType
<1>2. new.status = "pending"  BY DEF NoSend
<1>3. w.row \in [Sends -> SendRow]  BY DEF WalletType
<1> HIDE DEF new
<1> QED BY <1>1, <1>2, <1>3 DEF Open

\* A send is recorded once built, before the node has heard of it: no block has it.
LEMMA RecordCredit ==
    ASSUME CreditInv, CoinsInv', NoneAhead, NEW r \in Sends, Record(r)
    PROVE  CreditInv'
<1>1. wallet' = RecordPending(wallet, r, stamp[r]) /\ pass' = pass /\ wallet \in WalletType
  BY DEF Record, CreditInv, CoinsInv, TypeOK
<1>2. ~InChain(wallet.branch, r) /\ ~InChain(pass.batch.branch, r)
  BY DEF Record, CreditInv, SentOnly, Unseen
<1>3. SameCoins(wallet', wallet)  BY <1>1, RecordPendingCoins
<1>4. \A s \in Sends : \/ Quiet(wallet.row[s], wallet'.row[s])
                       \/ Open(wallet'.row[s]) /\ ~InChain(wallet.branch, s) /\ ~InChain(pass.batch.branch, s)
  BY <1>1, <1>2, OpenRecorded DEF Quiet, Still
<1> QED BY <1>1, <1>3, <1>4, CreditStay

LEMMA QuietCredit ==
    ASSUME CreditInv, CoinsInv', NoneAhead, SameCoins(wallet', wallet), QuietRows(wallet', wallet),
           pass'.batch = NoBatch \/ pass'.batch = pass.batch
    PROVE  CreditInv'
BY CreditStay DEF QuietRows

LEMMA OtherCredit ==
    ASSUME CreditInv, CoinsInv', NoneAhead,
           \/ Mine \/ Reorg \/ EndPass \/ StopPass \/ SendStep \/ GiveUpStep \/ RemoveStep
           \/ WatcherStep \/ Crash \/ UNCHANGED vars
    PROVE  CreditInv'
<1>1. wallet \in WalletType  BY DEF CreditInv, CoinsInv, TypeOK
<1>2. SameCoins(wallet, wallet) /\ QuietRows(wallet, wallet)  BY SameRowsStill, StillQuiet DEF SameCoins
<1>3. CASE wallet' = wallet /\ (pass'.batch = NoBatch \/ pass' = pass)
  BY <1>2, <1>3, QuietCredit
<1>4. CASE Mine \/ Reorg \/ StopPass \/ Crash \/ UNCHANGED vars
  <2>1. wallet' = wallet /\ (pass'.batch = NoBatch \/ pass' = pass)
    BY <1>4 DEF Mine, Reorg, StopPass, Crash, vars, appVars, NoPass
  <2> QED BY <1>3, <2>1
<1>5. CASE EndPass
  <2>1. wallet' = ExpireSends(wallet) /\ pass'.batch = NoBatch  BY <1>5 DEF EndPass, Write, NoPass
  <2> QED BY <1>1, <2>1, ExpireSendsCoins, ExpireSendsStill, StillQuiet, QuietCredit
<1>6. CASE SendStep
  <2>1. PICK s \in Sends : \/ Review(s) \/ Plan(s) \/ Build(s) \/ Cancel(s)
                           \/ Record(s) \/ Submit(s) \/ Refuse(s) \/ Discard(s)
    BY <1>6 DEF SendStep
  <2>2. CASE Record(s)  BY <2>2, RecordCredit
  <2>3. CASE Discard(s)
    <3>1. wallet' = DiscardPending(wallet, s) /\ pass' = pass  BY <2>3 DEF Discard, Write
    <3> QED BY <1>1, <3>1, DiscardPendingCoins, DropRowQuiet, QuietCredit
  <2>4. CASE Review(s) \/ Plan(s) \/ Build(s) \/ Cancel(s) \/ Submit(s) \/ Refuse(s)
    <3>1. wallet' = wallet /\ pass' = pass
      BY <2>4 DEF Review, Plan, Build, Cancel, Submit, Refuse
    <3> QED BY <1>3, <3>1
  <2> QED BY <2>1, <2>2, <2>3, <2>4
<1>7. CASE GiveUpStep
  <2>1. PICK s \in Sends : wallet' = ForgetSend(wallet, s) /\ pass' = pass
    BY <1>7 DEF GiveUpStep, Forget, Write, appVars
  <2> QED BY <1>1, <2>1, ForgetSendCoins, ForgetSendStill, StillQuiet, QuietCredit
<1>8. CASE RemoveStep
  <2>1. CASE Remove
    <3>1. wallet' = DropRow(wallet, removing) /\ pass' = pass /\ removing \in Sends
      BY <2>1 DEF Remove, Write, CreditInv, CoinsInv, TypeOK
    <3> QED BY <1>1, <3>1, DropRowCoins, DropRowQuiet, QuietCredit
  <2>2. CASE \E s \in Sends : JudgeRemovable(s)
    <3>1. wallet' = wallet /\ pass' = pass  BY <2>2 DEF JudgeRemovable
    <3> QED BY <1>3, <3>1
  <2> QED BY <1>8, <2>1, <2>2 DEF RemoveStep
<1>9. CASE WatcherStep
  <2>1. CASE RecordSpend
    <3>1. wallet' = RecordOutgoing(wallet, poll.tx, poll.ins) /\ pass' = pass /\ poll.ins \in SUBSET Coin
      BY <2>1 DEF RecordSpend, Write, CreditInv, CoinsInv, TypeOK
    <3> QED BY <1>1, <3>1, RecordOutgoingCoins, RecordOutgoingStill, StillQuiet, QuietCredit
  <2>2. CASE \E c \in Coin : ExpireOutgoing(c)
    <3>1. PICK c \in Coin : wallet' = ExpireRow(wallet, c) /\ pass' = pass
      BY <2>2 DEF ExpireOutgoing, Write, appVars
    <3> QED BY <1>1, <3>1, ExpireRowCoins, ExpireRowStill, StillQuiet, QuietCredit
  <2>3. CASE StartPoll \/ EndPoll \/ \E t \in Tx : FindSpend(t)
    <3>1. wallet' = wallet /\ pass' = pass  BY <2>3 DEF StartPoll, EndPoll, FindSpend
    <3> QED BY <1>3, <3>1
  <2> QED BY <1>9, <2>1, <2>2, <2>3 DEF WatcherStep
<1> QED BY <1>4, <1>5, <1>6, <1>7, <1>8, <1>9

LEMMA StartPassCredit ==
    ASSUME CreditInv, CoinsInv', NoneAhead, StartPass
    PROVE  CreditInv'
<1>1. PICK hint \in 0..Len(chain) : wallet' = Started(wallet, Len(chain), hint)  BY DEF StartPass, Write
<1>2. wallet \in WalletType /\ InCredit(wallet)  BY DEF CreditInv, CoinsInv, TypeOK
<1>3. pass'.batch = NoBatch  BY DEF StartPass
<1>4. CASE wallet' = wallet  BY <1>2, <1>3, <1>4, CreditMove
<1>5. CASE wallet' # wallet
  <2>1. wallet.synced = NoSync /\ \E at : wallet' = [wallet EXCEPT !.birthday = at]
    BY <1>1, <1>5 DEF Started
  <2>2. /\ wallet'.row = wallet.row /\ wallet'.conf = wallet.conf /\ wallet'.spentAt = wallet.spentAt
        /\ wallet'.branch = wallet.branch /\ wallet'.synced = NoSync
    BY <1>2, <2>1 DEF WalletType
  <2>3. wallet'.birthday \in Nat /\ wallet.birthday \in Nat  BY <1>2 DEF CoinsInv, TypeOK, WalletType
  <2>4. (\A k \in wallet.birthday..wallet.synced : FALSE) /\ (\A k \in wallet'.birthday..wallet'.synced : FALSE)
    BY <2>1, <2>2, <2>3
  <2>5. InCredit(wallet')  BY <1>2, <2>2, <2>4 DEF InCredit, CreditOK
  <2> QED BY <1>3, <2>2, <2>5, CreditMove
<1> QED BY <1>4, <1>5

LEMMA RescanCredit ==
    ASSUME CreditInv, CoinsInv', NoneAhead, Rescan
    PROVE  CreditInv'
<1>1. PICK h \in RescanFrom : wallet' = ResetForRescan(wallet, h)  BY DEF Rescan, Write
<1>2. h \in Nat  BY WalletAssumption
<1>3. pass'.batch = NoBatch  BY DEF Rescan, appVars, CreditInv, CoinsInv, Working
<1> DEFINE rows == [s \in Sends |-> IF IsPending(wallet, s) \/ GivenUp(wallet, s) THEN wallet.row[s] ELSE NoSend]
<1>4. wallet'.row = rows /\ wallet'.branch = <<>> /\ wallet'.synced = NoSync /\ wallet'.birthday = h
  BY <1>1 DEF ResetForRescan, NewWallet
<1>5. \A s \in Sends : rows[s].status = "none" \/ Open(rows[s])
  <2> TAKE s \in Sends
  <2>1. (rows[s] = wallet.row[s] /\ (IsPending(wallet, s) \/ GivenUp(wallet, s))) \/ rows[s] = NoSend  OBVIOUS
  <2> QED BY <2>1 DEF Open, IsPending, GivenUp, NoSend
<1> HIDE DEF rows
<1>6. \A k \in wallet'.birthday..wallet'.synced : FALSE  BY <1>2, <1>4
<1>7. \A s \in Sends : wallet'.row[s].status # "confirmed" /\ (wallet'.row[s].status = "failed" => Open(wallet'.row[s]))
  BY <1>4, <1>5 DEF Open
<1>8. InCredit(wallet')  BY <1>6, <1>7 DEF InCredit, CreditOK
<1>9. \A s : ~InChain(wallet'.branch, s)  BY <1>4 DEF InChain
<1> QED BY <1>3, <1>8, <1>9, CreditMove

LEMMA PersistBatchCredit ==
    ASSUME OwnOutputs, CreditInv, CoinsInv', NoneAhead, PersistBatch
    PROVE  CreditInv'
<1> DEFINE b == pass.batch
<1>1. b # NoBatch /\ wallet' = PersistScan(wallet, b.from, b.blocks, b.branch)
  BY DEF PersistBatch, Write
<1>2. /\ wallet \in WalletType /\ InPlace(wallet) /\ BatchFits(b, wallet)
      /\ (wallet.linked => wallet.synced # NoSync) /\ InCredit(wallet) /\ SeenFits(b, wallet.row)
  BY <1>1 DEF CreditInv, CreditKept, CoinsInv, BatchKept, TypeOK, Working
<1>3. b.from \in Nat \ {0} /\ Len(b.blocks) \in 1..2 /\ wallet.birthday # 0
  BY <1>1 DEF CreditInv, CoinsInv, TypeOK, Working, MaxBatch
<1>4. b.blocks \in Seq(ScannedBlock) /\ b.branch \in Seq(Block)  BY DEF CreditInv, CoinsInv, TypeOK
<1>5. pass'.batch = NoBatch  BY DEF PersistBatch, CreditInv, CoinsInv, TypeOK
<1>6. wallet'.branch = b.branch
  <2> HIDE DEF b
  <2>1. wallet' \in WalletType  BY DEF CoinsInv, TypeOK
  <2> DEFINE u == WriteBlocks(wallet, b.from, b.blocks)
             last == b.from + Len(b.blocks) - 1
             kept == {k \in u.kept : k > last - KeepBlocks}
  <2>2. wallet' = [u EXCEPT !.kept = kept, !.synced = last, !.linked = TRUE, !.branch = b.branch]
    BY <1>1 DEF PersistScan
  <2>3. u \in WalletType  BY <1>2, <1>3, <1>4, WriteBlocksCoins DEF BlocksWritten
  <2> HIDE DEF u, last, kept
  <2> QED BY <2>2, <2>3 DEF WalletType
<1> HIDE DEF b
<1>7. InCredit(wallet')  BY <1>1, <1>2, <1>3, <1>4, PersistCredit
<1>8. \A s \in Sends : InChain(wallet'.branch, s) => InChain(pass.batch.branch, s)  BY <1>6 DEF b
<1> QED BY <1>5, <1>7, <1>8, CreditMove

LEMMA RollBackIfForkedCredit ==
    ASSUME CreditInv, CoinsInv', NoneAhead, RollBackIfForked
    PROVE  CreditInv'
<1>1. /\ wallet \in WalletType /\ InPlace(wallet) /\ wallet.synced # NoSync /\ wallet.birthday # 0
      /\ InCredit(wallet) /\ wallet.branch \in Seq(Block)
  BY WalletFields DEF CreditInv, CoinsInv, TypeOK, Working, RollBackIfForked, Forked
<1>2. PICK h \in Nat, linked \in BOOLEAN : h <= wallet.synced /\ wallet' = RollBack(wallet, h, linked)
  <2>1. CASE \E h \in ForkCandidates(wallet) : wallet' = RollBack(wallet, h, TRUE)
    <3>1. PICK h \in ForkCandidates(wallet) : wallet' = RollBack(wallet, h, TRUE)  BY <2>1
    <3>2. h \in wallet.kept /\ h < wallet.synced  BY DEF ForkCandidates
    <3>3. h \in Nat /\ wallet.synced \in Int  BY <1>1, <3>2, WalletFields
    <3>4. h <= wallet.synced  BY <3>2, <3>3
    <3> QED BY <3>1, <3>3, <3>4, Zenon
  <2>2. CASE wallet' = RollBack(wallet, wallet.birthday - 1, FALSE)
    <3> DEFINE h == wallet.birthday - 1
    <3>1. h \in Nat /\ h <= wallet.synced  BY <1>1, WalletFields DEF InPlace
    <3>2. wallet' = RollBack(wallet, h, FALSE)  BY <2>2
    <3> HIDE DEF h
    <3> QED BY <3>1, <3>2
  <2> QED BY <2>1, <2>2 DEF RollBackIfForked, Write
<1>3. pass'.batch = NoBatch  BY DEF RollBackIfForked
<1>4. InCredit(wallet')  BY <1>1, <1>2, RollBackCredit
<1>5. \A s \in Sends : InChain(wallet'.branch, s) => InChain(wallet.branch, s)
  <2> DEFINE br == wallet.branch
  <2>1. wallet'.branch = IF h <= Len(br) THEN UpTo(br, h) ELSE br  BY <1>1, <1>2 DEF RollBack, WalletType
  <2> HIDE DEF br
  <2> QED BY <1>1, <1>2, <2>1, InUpTo DEF br
<1> QED BY <1>3, <1>4, <1>5, CreditMove

\* No coin of a send in a block still to be scanned is known to be spent, so an
\* open send of such a block is one the scan looks out for.
LEMMA OpenIsWatched ==
    ASSUME NEW w \in WalletType, InPlace(w), NEW b, Stands(b, w), BatchFits(b, w), b.branch \in Seq(Block),
           NEW at \in Nat, b.from <= at, at <= Len(b.branch),
           NEW s \in Sends \ Legacy, s \in b.branch[at], Open(w.row[s])
    PROVE  Outputs[s] \subseteq WatchedCommitments(w)
<1> DEFINE lo == w.birthday
           hi == w.synced
           br == b.branch
           spentAt == w.spentAt
<1>1. Sound(br) /\ Len(br) \in Nat /\ lo \in Nat \ {0} /\ b.from \in Nat \ {0} /\ lo <= b.from
  BY LenProperties DEF Stands
<1>2. CoinsOK(w.conf, spentAt, br, lo, b.from - 1)  BY DEF Stands
<1>3. ASSUME NEW c \in Inputs[s] PROVE spentAt[c] = 0
  <2>1. c \in Coin  BY TxAssumption
  <2>2. SUFFICES ASSUME spentAt[c] # 0 PROVE FALSE
    OBVIOUS
  <2> DEFINE k == spentAt[c]
             from == b.from
  <2>3. k \in lo..from - 1 /\ c \in Spends(br[k])  BY <1>2, <2>1, <2>2 DEF CoinsOK
  <2>4. c \in Spends(br[at])  BY DEF Spends
  <2> HIDE DEF k, from, br, lo
  <2>5. at \in Nat /\ from <= at /\ at <= Len(br)  BY DEF from, br
  <2>6. from \in Nat \ {0} /\ lo \in Nat \ {0} /\ Len(br) \in Nat  BY <1>1 DEF from
  <2>7. k \in 1..Len(br) /\ at \in 1..Len(br) /\ k # at  BY <2>3, <2>5, <2>6
  <2>8. Sound(br)  BY <1>1
  <2> QED BY <2>1, <2>3, <2>4, <2>7, <2>8 DEF Sound
<1>4. IsPending(w, s) \/ MayStillGo(w, s)
  BY <1>3 DEF Open, IsPending, MayStillGo, GivenUp
<1>5. RowOutputs(s) = Outputs[s]  BY DEF RowOutputs
<1> QED BY <1>4, <1>5 DEF WatchedCommitments

\* What one block of a batch was scanned to.
LEMMA SeenInScan ==
    ASSUME NEW w \in WalletType, InPlace(w), NEW b, Stands(b, w), BatchFits(b, w), b.branch \in Seq(Block),
           NEW at \in Nat, b.from <= at, at <= Len(b.branch), NEW scanned,
           scanned.seen = Carries(b.branch[at]) \cap WatchedCommitments(w)
    PROVE  SeenIn(scanned, b.branch[at], w.row)
<1> DEFINE block == b.branch[at]
<1>1. \A s \in Sends \ Legacy : s \in block /\ Open(w.row[s]) => Outputs[s] \subseteq WatchedCommitments(w)
  BY OpenIsWatched
<1>2. \A s \in Sends : s \in block => Outputs[s] \subseteq Carries(block)  BY DEF Carries
<1> HIDE DEF block
<1>3. scanned.seen = Carries(block) \cap WatchedCommitments(w)  BY DEF block
<1>4. SeenIn(scanned, block, w.row)  BY <1>1, <1>2, <1>3 DEF SeenIn
<1> QED BY <1>4 DEF block

LEMMA ScanBlocksCredit ==
    ASSUME CreditInv, CoinsInv', NoneAhead, ScanBlocks
    PROVE  CreditInv'
<1> DEFINE from == Position(wallet) + 1
           watch == WatchedCommitments(wallet)
           unspent == Unspent(wallet)
           first == ScanOf(chain[from], unspent, watch)
           second == ScanOf(chain[from + 1], After(unspent, first), watch)
           blocks(n) == IF n = 1 THEN <<first>> ELSE <<first, second>>
           last(n) == from + n - 1
           b == pass'.batch
<1>1. PICK n \in 1..2 : /\ last(n) <= Len(chain)
                        /\ pass' = [pass EXCEPT !.batch =
                             [from |-> from, branch |-> UpTo(chain, last(n)), blocks |-> blocks(n)]]
  BY DEF ScanBlocks, MaxBatch
<1>2. wallet \in WalletType /\ chain \in Seq(Block) /\ Len(chain) \in Nat /\ InPlace(wallet) /\ wallet' = wallet
  BY LenProperties DEF CreditInv, CoinsInv, TypeOK, ScanBlocks
<1>3. wallet.birthday # 0 /\ (wallet.linked => wallet.synced # NoSync)
  BY DEF CreditInv, CoinsInv, Working, ScanBlocks
<1>4. from \in Nat \ {0} /\ last(n) \in Nat /\ last(n) <= Len(chain) /\ from <= last(n)
      /\ (n = 2 => from + 1 <= last(n)) /\ (n = 1 \/ n = 2)
  <2>1. Position(wallet) \in Nat  BY <1>2, <1>3, PositionFacts
  <2> HIDE DEF from
  <2>2. from \in Nat \ {0}  BY <2>1 DEF from
  <2> QED BY <1>1, <2>2
<1>5. b.from = from /\ b.branch = UpTo(chain, last(n)) /\ b.blocks = blocks(n)
  <2> DEFINE batch == [from |-> from, branch |-> UpTo(chain, last(n)), blocks |-> blocks(n)]
  <2>1. pass' = [pass EXCEPT !.batch = batch]  BY <1>1
  <2>2. batch.from = from /\ batch.branch = UpTo(chain, last(n)) /\ batch.blocks = blocks(n)  OBVIOUS
  <2> HIDE DEF batch
  <2>3. pass'.batch = batch  BY <2>1 DEF CreditInv, CoinsInv, TypeOK
  <2> QED BY <2>2, <2>3
<1>6. Len(b.branch) = last(n) /\ (\A i \in 1..last(n) : b.branch[i] = chain[i]) /\ b.branch \in Seq(Block)
  <2> DEFINE at == last(n)
  <2>1. at \in Nat /\ at <= Len(chain) /\ b.branch = UpTo(chain, at)  BY <1>4, <1>5
  <2> HIDE DEF at, b
  <2>2. Len(b.branch) = at /\ (\A i \in 1..at : b.branch[i] = chain[i]) /\ b.branch \in Seq(Block)
    BY <1>2, <2>1, UpToBlocks
  <2> QED BY <2>2 DEF at
<1>7. b.blocks[1] = first /\ (n = 2 => b.blocks[2] = second) /\ Len(b.blocks) = n
  <2> HIDE DEF first, second
  <2>1. CASE n = 1  BY <1>5, <2>1
  <2>2. CASE n = 2  BY <1>5, <2>2
  <2> QED BY <1>4, <2>1, <2>2
<1>8. chain[from] = b.branch[from] /\ (n = 2 => chain[from + 1] = b.branch[from + 1])
  <2> DEFINE at == last(n)
  <2> HIDE DEF from, at, b
  <2>1. from \in 1..at /\ (n = 2 => from + 1 \in 1..at)  BY <1>4 DEF at
  <2> QED BY <1>6, <2>1 DEF at
<1>9. first.seen = Carries(chain[from]) \cap watch /\ second.seen = Carries(chain[from + 1]) \cap watch
  <2> DEFINE block == chain[from]
             next == chain[from + 1]
             rest == After(unspent, first)
  <2> HIDE DEF block, next, rest, unspent, watch
  <2>1. first.seen = Carries(block) \cap watch  BY DEF ScanOf, block
  <2>2. second.seen = Carries(next) \cap watch  BY DEF ScanOf, next, rest
  <2> QED BY <2>1, <2>2 DEF block, next, rest
<1>10. b # NoBatch
  <2>1. NoBatch.from = 0  BY DEF NoBatch
  <2> HIDE DEF b, from
  <2> QED BY <1>4, <1>5, <2>1
<1>11. BatchFits(b, wallet)  BY <1>2, <1>10 DEF CoinsInv, BatchKept
<1>12. Stands(b, wallet)
  <2>1. b.from \in Nat \ {0} /\ Len(b.blocks) \in 1..2 /\ b.blocks \in Seq(ScannedBlock)
    <3>1. b.blocks \in Seq(ScannedBlock)  BY DEF CoinsInv, TypeOK
    <3> HIDE DEF b, from
    <3> QED BY <1>4, <1>5, <1>7, <3>1
  <2> HIDE DEF b, from, first, second
  <2> QED BY <1>2, <1>3, <1>6, <1>11, <2>1, BatchStands
<1>13. SeenIn(b.blocks[1], b.branch[b.from], wallet.row)
  <2> HIDE DEF b, from, first, second, watch
  <2>1. b.blocks[1].seen = Carries(b.branch[b.from]) \cap WatchedCommitments(wallet)
    BY <1>5, <1>7, <1>8, <1>9 DEF watch
  <2>2. b.from \in Nat /\ b.from <= b.from /\ b.from <= Len(b.branch)  BY <1>4, <1>5, <1>6
  <2> QED BY <1>2, <1>6, <1>11, <1>12, <2>1, <2>2, SeenInScan
<1>14. Len(b.blocks) = 2 => SeenIn(b.blocks[2], b.branch[b.from + 1], wallet.row)
  <2> SUFFICES ASSUME Len(b.blocks) = 2 PROVE SeenIn(b.blocks[2], b.branch[b.from + 1], wallet.row)
    OBVIOUS
  <2>1. n = 2  BY <1>7
  <2> DEFINE at == b.from + 1
  <2> HIDE DEF b, from, first, second, watch
  <2>2. at \in Nat /\ b.from <= at /\ at <= Len(b.branch)  BY <1>4, <1>5, <1>6, <2>1
  <2>3. b.blocks[2].seen = Carries(b.branch[at]) \cap WatchedCommitments(wallet)
    BY <1>5, <1>7, <1>8, <1>9, <2>1 DEF watch
  <2> HIDE DEF at
  <2>4. SeenIn(b.blocks[2], b.branch[at], wallet.row)
    BY <1>2, <1>6, <1>11, <1>12, <2>2, <2>3, SeenInScan
  <2> QED BY <2>4 DEF at
<1>15. CreditKept'
  <2> QED BY <1>2, <1>13, <1>14 DEF CreditKept, SeenFits
<1>16. SentOnly'
  <2>1. wallet'.branch = wallet.branch  BY <1>2
  <2>2. \A s \in Sends : InChain(b.branch, s) => InChain(chain, s)
    <3> DEFINE at == last(n)
    <3>1. at \in Nat /\ at <= Len(chain) /\ b.branch = UpTo(chain, at)  BY <1>4, <1>5
    <3> HIDE DEF at, b
    <3> QED BY <1>2, <3>1, InUpTo
  <2>3. NothingNew  BY <2>1, <2>2 DEF NothingNew
  <2> QED BY <2>3, SentOnlyKept DEF CreditInv
<1>17. InCredit(wallet)'  BY <1>2 DEF CreditInv
<1> QED BY <1>15, <1>16, <1>17 DEF CreditInv

LEMMA CreditStep == OwnOutputs /\ CreditInv /\ [Next]_vars => CreditInv'
<1> SUFFICES ASSUME OwnOutputs, CreditInv, [Next]_vars PROVE CreditInv'
    OBVIOUS
<1>1. CoinsInv' /\ NoneAhead  BY CoinsStep, StepNoneAhead DEF CreditInv, CoinsInv
<1>2. CASE StartPass \/ RollBackIfForked \/ ScanBlocks \/ PersistBatch \/ Rescan
  BY <1>1, <1>2, StartPassCredit, RollBackIfForkedCredit, ScanBlocksCredit, PersistBatchCredit, RescanCredit
<1>3. CASE \/ Mine \/ Reorg \/ EndPass \/ StopPass \/ SendStep \/ GiveUpStep \/ RemoveStep
           \/ WatcherStep \/ Crash \/ UNCHANGED vars
  BY <1>1, <1>3, OtherCredit
<1> QED BY <1>2, <1>3 DEF Next, SyncStep

\* A send shows as confirmed at a height exactly when the block the wallet
\* scanned there carries it, whatever was given up, expired, rolled back or
\* rescanned before, and never on account of another transaction that spends
\* its coins (the "carried" rule of persist_scan, watched_commitments).
THEOREM ConfirmedIsCarried ==
    ASSUME GenesisFollows, OwnOutputs, MadeLater
    PROVE  Spec => []CreditMatchesChain
<1>1. Init => CreditInv  BY CreditInit
<1>2. CreditInv /\ [Next]_vars => CreditInv'  BY CreditStep
<1>3. CreditInv => CreditMatchesChain  BY CreditInvCredit
<1> QED BY <1>1, <1>2, <1>3, PTL DEF Spec

-----------------------------------------------------------------------------
(* What History says of spent coins *)

\* A send whose row is neither gone nor open was decided by a block that spent
\* one of its coins, and the row has that block's height.
Decided(row, spentAt) ==
    \A s \in Sends : \/ row[s].status = "none" \/ Open(row[s])
                     \/ \E c \in Inputs[s] : spentAt[c] # 0 /\ spentAt[c] = row[s].height

\* A spent coin is accounted for by the row spent:<height>, by a send that was
\* taken out of History, or by the send confirmed there; and spent:<height>
\* names no other coin.
Accounts(row, spentAt, spentBy, elsewhere, gone) ==
    /\ \A c \in Coin : spentAt[c] # 0 =>
          IF spentBy[c] = NoTx THEN <<spentAt[c], c>> \in elsewhere
          ELSE \/ spentBy[c] \in gone
               \/ row[spentBy[c]].status = "confirmed" /\ row[spentBy[c]].height = spentAt[c]
    /\ \A p \in elsewhere : p[1] # 0 /\ spentAt[p[2]] = p[1] /\ spentBy[p[2]] = NoTx

InAccounts(w, gone) ==
    Decided(w.row, w.spentAt) /\ Accounts(w.row, w.spentAt, w.spentBy, w.elsewhere, gone)

\* What a written block does to a row: the send is confirmed in it, loses a
\* coin in it, or is left.
RowWritten(old, new, isCarried, isSpent, h) ==
    \/ isCarried /\ Open(old) /\ isSpent /\ new.status = "confirmed" /\ new.height = h
    \/ ~isCarried /\ new = old
    \/ ~isCarried /\ Open(old) /\ isSpent /\ new.status = "failed" /\ new.height = h

\* And to the coins it spends and the row spent:<height>.
Written(row, row2, at, at2, by, by2, else, else2, h, spent, carried) ==
    /\ \A s \in Sends : RowWritten(row[s], row2[s], s \in carried, Inputs[s] \cap spent # {}, h)
    /\ \A c \in Coin : /\ at2[c] = (IF c \in spent THEN h ELSE at[c])
                       /\ IF c \in spent THEN by2[c] \in carried \cup {NoTx} ELSE by2[c] = by[c]
    /\ LET others == {c \in spent : by2[c] = NoTx}
       IN  else2 = IF others = {} THEN else ELSE {p \in else : p[1] # h} \cup ({h} \X others)

LEMMA CreditedToCarried ==
    ASSUME NEW carried \in SUBSET Sends, NEW c
    PROVE  CreditedTo(carried, c) \in carried \cup {NoTx}
<1> DEFINE spenders == {s \in carried : c \in Inputs[s]}
<1>1. spenders # {} => FirstOf(spenders) \in spenders
  BY FirstOfMember
<1> QED BY <1>1 DEF CreditedTo

LEMMA WriteBlockWritten ==
    ASSUME NEW w \in WalletType, NEW from \in WalletType, NEW h \in Nat \ {0}, NEW b \in ScannedBlock,
           b.spent \subseteq Unspent(w), NEW v, v = WriteBlock(w, from, h, b)
    PROVE  \E carried \in SUBSET Sends :
              Written(w.row, v.row, w.spentAt, v.spentAt, w.spentBy, v.spentBy,
                      w.elsewhere, v.elsewhere, h, b.spent, carried)
<1> DEFINE got == Receive(w, from, h, b.incoming)
           gone == {c \in b.spent : Known(got, c)}
           carried == Carried(got, b)
           lost == LostTo(got, carried, gone)
           settled == Settle(got, carried, gone, h)
           others == {c \in b.spent : CreditedTo(carried, c) = NoTx}
<1>1. got \in WalletType  BY ReceiveType
<1>2. /\ got.row = w.row /\ got.spentAt = w.spentAt /\ got.spentBy = w.spentBy /\ got.elsewhere = w.elsewhere
      /\ \A c \in Coin : got.conf[c] = (IF c \in b.incoming THEN h ELSE w.conf[c])
  BY DEF Receive, WalletType
<1>3. gone = b.spent
  <2>1. \A c \in b.spent : c \in Coin /\ w.conf[c] # 0  BY DEF Unspent, IsUnspent, Known
  <2> HIDE DEF got
  <2>2. \A c \in b.spent : Known(got, c)  BY <1>2, <2>1 DEF Known
  <2> QED BY <2>2
<1>4. carried \in SUBSET Sends /\ b.spent \in SUBSET Coin  BY DEF Carried, ScannedBlock
<1>5. \A s \in carried : Open(w.row[s]) /\ Inputs[s] \cap b.spent # {}
  <2>1. \A s \in carried : (IsPending(got, s) \/ GivenUp(got, s)) /\ Inputs[s] \cap b.spent # {}
    <3> HIDE DEF got
    <3> QED BY DEF Carried
  <2> QED BY <1>2, <2>1 DEF IsPending, GivenUp, Open
<1>6. \A s \in lost : w.row[s].status = "pending" /\ s \notin carried /\ Inputs[s] \cap b.spent # {}
  BY <1>2, <1>3 DEF LostTo, IsPending
<1> HIDE DEF got, gone, carried
<1>7. settled \in WalletType  BY <1>1, <1>3, <1>4, SettleType
<1>8. /\ \A s \in Sends : settled.row[s] = IF s \in carried THEN Revived(w.row[s], "confirmed", h)
                                           ELSE IF s \in lost THEN [w.row[s] EXCEPT !.status = "failed", !.height = h]
                                           ELSE w.row[s]
      /\ \A c \in Coin : settled.spentAt[c] = (IF c \in b.spent THEN h ELSE w.spentAt[c])
      /\ \A c \in Coin : settled.spentBy[c] = (IF c \in b.spent THEN CreditedTo(carried, c) ELSE w.spentBy[c])
  <2> HIDE DEF lost
  <2> QED BY <1>1, <1>2, <1>3 DEF Settle, WalletType, lost
<1>9. settled.elsewhere = IF others = {} THEN w.elsewhere ELSE {p \in w.elsewhere : p[1] # h} \cup ({h} \X others)
  <2> HIDE DEF lost
  <2> QED BY <1>1, <1>2, <1>3 DEF Settle, WalletType
<1> HIDE DEF settled, lost
<1>10. v = DropStale(settled, b.spent)  BY DEF WriteBlock, settled, got, gone, carried
<1>11. v.row = settled.row /\ v.spentAt = settled.spentAt /\ v.spentBy = settled.spentBy /\ v.elsewhere = settled.elsewhere
  BY <1>7, <1>10 DEF DropStale, WalletType
<1>12. \A s \in Sends : RowWritten(w.row[s], v.row[s], s \in carried, Inputs[s] \cap b.spent # {}, h)
  <2> TAKE s \in Sends
  <2> DEFINE old == w.row[s]
             new == v.row[s]
  <2>1. old \in SendRow  BY DEF WalletType
  <2>2. new = IF s \in carried THEN Revived(old, "confirmed", h)
              ELSE IF s \in lost THEN [old EXCEPT !.status = "failed", !.height = h] ELSE old
    BY <1>8, <1>11
  <2>3. /\ s \in carried => Open(old) /\ Inputs[s] \cap b.spent # {}
        /\ s \in lost => Open(old) /\ Inputs[s] \cap b.spent # {}
    BY <1>5, <1>6 DEF Open
  <2> HIDE DEF old, new
  <2>4. s \in carried => new.status = "confirmed" /\ new.height = h  BY <2>1, <2>2 DEF Revived, SendRow
  <2>5. s \notin carried /\ s \in lost => new.status = "failed" /\ new.height = h  BY <2>1, <2>2 DEF SendRow
  <2>6. s \notin carried /\ s \notin lost => new = old  BY <2>2
  <2>7. RowWritten(old, new, s \in carried, Inputs[s] \cap b.spent # {}, h)
    <3>1. CASE s \in carried  BY <2>3, <2>4, <3>1 DEF RowWritten
    <3>2. CASE s \notin carried /\ s \in lost  BY <2>3, <2>5, <3>2 DEF RowWritten
    <3>3. CASE s \notin carried /\ s \notin lost  BY <2>6, <3>3 DEF RowWritten
    <3> QED BY <3>1, <3>2, <3>3
  <2> QED BY <2>7 DEF old, new
<1>13. \A c \in Coin : /\ v.spentAt[c] = (IF c \in b.spent THEN h ELSE w.spentAt[c])
                       /\ IF c \in b.spent THEN v.spentBy[c] \in carried \cup {NoTx} ELSE v.spentBy[c] = w.spentBy[c]
  BY <1>4, <1>8, <1>11, CreditedToCarried
<1>14. {c \in b.spent : v.spentBy[c] = NoTx} = others  BY <1>4, <1>8, <1>11
<1>15. LET rest == {c \in b.spent : v.spentBy[c] = NoTx}
       IN  v.elsewhere = IF rest = {} THEN w.elsewhere ELSE {p \in w.elsewhere : p[1] # h} \cup ({h} \X rest)
  BY <1>9, <1>11, <1>14
<1>16. Written(w.row, v.row, w.spentAt, v.spentAt, w.spentBy, v.spentBy,
               w.elsewhere, v.elsewhere, h, b.spent, carried)
  BY <1>12, <1>13, <1>15 DEF Written
<1> QED BY <1>4, <1>16

\* One block more: what it decides has its height, and no row of its height was
\* there before.
LEMMA AccountsExtend ==
    ASSUME NEW row, NEW row2, NEW at, NEW at2, NEW by, NEW by2, NEW else, NEW else2,
           NEW h \in Nat \ {0}, NEW spent \in SUBSET Coin, NEW carried \in SUBSET Sends, NEW gone,
           Written(row, row2, at, at2, by, by2, else, else2, h, spent, carried),
           \A c \in Coin : at[c] # h, \A c \in spent : at[c] = 0,
           by \in [Coin -> Sends \cup {NoTx}], else \subseteq Nat \X Coin,
           Decided(row, at), Accounts(row, at, by, else, gone)
    PROVE  Decided(row2, at2) /\ Accounts(row2, at2, by2, else2, gone)
<1> DEFINE others == {c \in spent : by2[c] = NoTx}
<1>1. /\ \A c \in Coin : at2[c] = (IF c \in spent THEN h ELSE at[c])
      /\ \A c \in Coin : IF c \in spent THEN by2[c] \in carried \cup {NoTx} ELSE by2[c] = by[c]
      /\ else2 = IF others = {} THEN else ELSE {p \in else : p[1] # h} \cup ({h} \X others)
  BY DEF Written
<1>2. \A s \in Sends : RowWritten(row[s], row2[s], s \in carried, Inputs[s] \cap spent # {}, h)
  BY DEF Written
<1>3. NoTx \notin Sends /\ \A s \in Sends : Inputs[s] \subseteq Coin  BY LedgerAssumption, TxAssumption
<1>4. Decided(row2, at2)
  <2> SUFFICES ASSUME NEW s \in Sends, row2[s].status # "none", ~Open(row2[s])
               PROVE  \E c \in Inputs[s] : at2[c] # 0 /\ at2[c] = row2[s].height
      BY DEF Decided
  <2>1. RowWritten(row[s], row2[s], s \in carried, Inputs[s] \cap spent # {}, h)  BY <1>2
  <2>2. CASE row2[s] = row[s]
    <3>1. PICK c \in Inputs[s] : at[c] # 0 /\ at[c] = row[s].height  BY <2>2 DEF Decided
    <3>2. c \in Coin /\ c \notin spent  BY <1>3, <3>1
    <3>3. at2[c] = at[c]  BY <1>1, <3>2
    <3> QED BY <2>2, <3>1, <3>3
  <2>3. CASE Inputs[s] \cap spent # {} /\ row2[s].height = h
    <3>1. PICK c \in Inputs[s] : c \in spent  BY <2>3
    <3>2. c \in Coin /\ at2[c] = h  BY <1>1, <3>1
    <3> QED BY <2>3, <3>1, <3>2
  <2> QED BY <2>1, <2>2, <2>3 DEF RowWritten
<1>5. ASSUME NEW c \in Coin, at2[c] # 0, by2[c] = NoTx PROVE <<at2[c], c>> \in else2
  <2>1. CASE c \in spent
    <3>1. at2[c] = h /\ c \in others /\ others # {}  BY <1>1, <1>5, <2>1
    <3> QED BY <1>1, <3>1
  <2>2. CASE c \notin spent
    <3>1. at2[c] = at[c] /\ by2[c] = by[c]  BY <1>1, <2>2
    <3>2. <<at[c], c>> \in else /\ at[c] # h  BY <1>5, <3>1 DEF Accounts
    <3> HIDE DEF others
    <3> QED BY <1>1, <3>1, <3>2
  <2> QED BY <2>1, <2>2
<1>6. ASSUME NEW c \in Coin, at2[c] # 0, by2[c] # NoTx
      PROVE  \/ by2[c] \in gone
             \/ row2[by2[c]].status = "confirmed" /\ row2[by2[c]].height = at2[c]
  <2>1. CASE c \in spent
    <3>1. by2[c] \in carried /\ at2[c] = h  BY <1>1, <1>6, <2>1
    <3>2. PICK s \in Sends : s = by2[c] /\ s \in carried  BY <3>1
    <3>3. row2[s].status = "confirmed" /\ row2[s].height = h  BY <1>2, <3>2 DEF RowWritten
    <3> QED BY <3>1, <3>2, <3>3
  <2>2. CASE c \notin spent
    <3>1. at2[c] = at[c] /\ by2[c] = by[c]  BY <1>1, <2>2
    <3>2. at[c] # 0 /\ by[c] # NoTx  BY <1>6, <3>1
    <3>3. IF by[c] = NoTx THEN <<at[c], c>> \in else
          ELSE \/ by[c] \in gone
               \/ row[by[c]].status = "confirmed" /\ row[by[c]].height = at[c]
      BY <3>2 DEF Accounts
    <3>4. \A s \in Sends : row[s].status = "confirmed" => row2[s] = row[s]  BY <1>2 DEF RowWritten, Open
    <3>5. by[c] \in Sends  BY <3>2
    <3> QED BY <3>1, <3>2, <3>3, <3>4, <3>5
  <2> QED BY <2>1, <2>2
<1>7. ASSUME NEW p \in else2 PROVE p[1] # 0 /\ at2[p[2]] = p[1] /\ by2[p[2]] = NoTx
  <2>1. CASE p \in else
    <3>1. p[1] # 0 /\ at[p[2]] = p[1] /\ by[p[2]] = NoTx /\ p[2] \in Coin  BY <2>1 DEF Accounts
    <3>2. p[2] \notin spent  BY <3>1
    <3>3. at2[p[2]] = at[p[2]] /\ by2[p[2]] = by[p[2]]  BY <1>1, <3>1, <3>2
    <3> QED BY <3>1, <3>3
  <2>2. CASE p \in {h} \X others
    <3>1. p[1] = h /\ p[2] \in spent /\ by2[p[2]] = NoTx  BY <2>2
    <3>2. at2[p[2]] = h  BY <1>1, <3>1
    <3> QED BY <3>1, <3>2
  <2> HIDE DEF others
  <2> QED BY <1>1, <1>7, <2>1, <2>2
<1>8. Accounts(row2, at2, by2, else2, gone)  BY <1>5, <1>6, <1>7 DEF Accounts
<1> QED BY <1>4, <1>8

\* No coin below height h is spent at it.
LEMMA SpentBelow ==
    ASSUME NEW conf, NEW spentAt, NEW br, NEW lo \in Nat, NEW h \in Nat \ {0},
           CoinsOK(conf, spentAt, br, lo, h - 1)
    PROVE  \A c \in Coin : spentAt[c] # h
<1> SUFFICES ASSUME NEW c \in Coin, spentAt[c] = h PROVE FALSE
    OBVIOUS
<1>1. h \in lo..h - 1  BY DEF CoinsOK
<1> QED BY <1>1

\* No row is gone.
RowsThere(v, w) == \A s \in Sends : w.row[s].status # "none" => v.row[s].status # "none"

LEMMA OneBlockAccounts ==
    ASSUME NEW w \in WalletType, NEW from \in WalletType, NEW h \in Nat \ {0}, NEW b \in ScannedBlock,
           NEW br, NEW lo \in Nat, CoinsOK(w.conf, w.spentAt, br, lo, h - 1),
           b.spent \subseteq Unspent(w), NEW gone, InAccounts(w, gone),
           NEW v, v = WriteBlock(w, from, h, b)
    PROVE  InAccounts(v, gone) /\ RowsThere(v, w)
<1> DEFINE row == w.row
           row2 == v.row
           at == w.spentAt
           at2 == v.spentAt
           by == w.spentBy
           by2 == v.spentBy
           else == w.elsewhere
           else2 == v.elsewhere
           spent == b.spent
           conf == w.conf
<1>1. PICK carried \in SUBSET Sends : Written(row, row2, at, at2, by, by2, else, else2, h, spent, carried)
  BY WriteBlockWritten
<1>2. CoinsOK(conf, at, br, lo, h - 1)  OBVIOUS
<1>3. by \in [Coin -> Sends \cup {NoTx}] /\ else \subseteq Nat \X Coin  BY DEF WalletType
<1>4. spent \in SUBSET Coin /\ \A c \in spent : at[c] = 0  BY DEF ScannedBlock, Unspent, IsUnspent
<1>5. Decided(row, at) /\ Accounts(row, at, by, else, gone)  BY DEF InAccounts
<1> HIDE DEF row, row2, at, at2, by, by2, else, else2, spent, conf
<1>6. \A c \in Coin : at[c] # h  BY <1>2, SpentBelow
<1>7. Decided(row2, at2) /\ Accounts(row2, at2, by2, else2, gone)
  BY <1>1, <1>3, <1>4, <1>5, <1>6, AccountsExtend
<1>8. \A s \in Sends : row[s].status # "none" => row2[s].status # "none"  BY <1>1 DEF Written, RowWritten
<1> QED BY <1>7, <1>8 DEF InAccounts, RowsThere, row, row2, at2, by2, else2

LEMMA WriteBlocksAccounts ==
    ASSUME NEW w \in WalletType, NEW b, Stands(b, w), BatchFits(b, w), b.branch \in Seq(Block),
           NEW gone, InAccounts(w, gone), NEW u, u = WriteBlocks(w, b.from, b.blocks)
    PROVE  InAccounts(u, gone) /\ RowsThere(u, w)
<1> DEFINE h == b.from
           blocks == b.blocks
           br == b.branch
           lo == w.birthday
           first == blocks[1]
           second == blocks[2]
           one == WriteBlock(w, w, h, first)
<1>1. lo \in Nat \ {0} /\ lo <= h /\ h \in Nat \ {0}  BY DEF Stands
<1>2. Sound(br) /\ h <= Len(br) /\ br \in Seq(Block)  BY DEF Stands
<1>3. CoinsOK(w.conf, w.spentAt, br, lo, h - 1)  BY DEF Stands
<1>4. first \in ScannedBlock  BY DEF Stands
<1>5. first.incoming = Mints(br[h]) /\ first.spent = Spends(br[h]) \cap Unspent(w)  BY DEF BatchFits
<1>6. one = WriteBlock(w, w, h, first)  OBVIOUS
<1>7. one \in WalletType  BY <1>1, <1>4, WriteBlockCoins
<1>8. CoinsOK(one.conf, one.spentAt, br, lo, h) /\ Unspent(one) = After(Unspent(w), first)
  <2> HIDE DEF h, blocks, br, lo, first, one
  <2>1. /\ h \in Nat \ {0} /\ first \in ScannedBlock /\ br \in Seq(Block) /\ Sound(br) /\ lo \in Nat \ {0}
        /\ lo <= h /\ h <= Len(br) /\ CoinsOK(w.conf, w.spentAt, br, lo, h - 1)
        /\ first.incoming = Mints(br[h]) /\ first.spent = Spends(br[h]) \cap Unspent(w)
        /\ one = WriteBlock(w, w, h, first)
    BY <1>1, <1>2, <1>3, <1>4, <1>5, <1>6
  <2> QED BY <2>1, OneBlock
<1>9. InAccounts(one, gone) /\ RowsThere(one, w)
  <2> HIDE DEF h, blocks, br, lo, first, one
  <2>1. lo \in Nat /\ first.spent \subseteq Unspent(w)  BY <1>1, <1>5
  <2> QED BY <1>1, <1>3, <1>4, <1>6, <2>1, OneBlockAccounts
<1>10. CASE Len(blocks) = 1
  <2>1. u = one  BY <1>10 DEF WriteBlocks
  <2> HIDE DEF one
  <2> QED BY <1>9, <2>1
<1>11. CASE Len(blocks) = 2
  <2> DEFINE at == h + 1
  <2>1. second \in ScannedBlock  BY <1>11 DEF Stands
  <2>2. u = WriteBlock(one, w, at, second)  BY <1>11 DEF WriteBlocks
  <2>3. second.spent \subseteq Unspent(one)  BY <1>8, <1>11 DEF BatchFits
  <2> HIDE DEF h, blocks, br, lo, first, one, second
  <2>4. at \in Nat \ {0} /\ at - 1 = h /\ lo \in Nat  BY <1>1
  <2> HIDE DEF at
  <2>5. CoinsOK(one.conf, one.spentAt, br, lo, at - 1)  BY <1>8, <2>4
  <2>6. InAccounts(u, gone) /\ RowsThere(u, one)
    BY <1>7, <1>9, <2>1, <2>2, <2>3, <2>4, <2>5, OneBlockAccounts
  <2>7. RowsThere(u, w)  BY <1>9, <2>6 DEF RowsThere
  <2> QED BY <2>6, <2>7
<1> QED BY <1>10, <1>11 DEF Stands

LEMMA PersistAccounts ==
    ASSUME NEW w \in WalletType, InPlace(w), w.birthday # 0, NEW b, BatchFits(b, w),
           b.from \in Nat \ {0}, b.blocks \in Seq(ScannedBlock), Len(b.blocks) \in 1..2,
           b.branch \in Seq(Block), w.linked => w.synced # NoSync, NEW gone, InAccounts(w, gone)
    PROVE  /\ InAccounts(PersistScan(w, b.from, b.blocks, b.branch), gone)
           /\ RowsThere(PersistScan(w, b.from, b.blocks, b.branch), w)
<1> DEFINE h == b.from
           last == h + Len(b.blocks) - 1
           br == b.branch
           u == WriteBlocks(w, h, b.blocks)
           v == PersistScan(w, h, b.blocks, br)
<1>1. Stands(b, w)  BY BatchStands
<1>2. InAccounts(u, gone) /\ RowsThere(u, w)  BY <1>1, WriteBlocksAccounts
<1>3. u \in WalletType  BY WriteBlocksCoins DEF BlocksWritten
<1>4. v = [u EXCEPT !.kept = {k \in u.kept : k > last - KeepBlocks}, !.synced = last,
                    !.linked = TRUE, !.branch = br]
  BY DEF PersistScan
<1> HIDE DEF u, v, last, br
<1>5. v.row = u.row /\ v.spentAt = u.spentAt /\ v.spentBy = u.spentBy /\ v.elsewhere = u.elsewhere
  BY <1>3, <1>4 DEF WalletType
<1>6. InAccounts(v, gone) /\ RowsThere(v, w)  BY <1>2, <1>5 DEF InAccounts, RowsThere
<1> QED BY <1>6 DEF v, br

(* Going back *)

\* A coin spent below a height was made below it.
LEMMA MadeBeforeSpent ==
    ASSUME NEW conf \in [Coin -> Nat], NEW spentAt \in [Coin -> Nat], NEW br, Sound(br), Len(br) \in Nat,
           NEW lo \in Nat \ {0}, NEW hi \in Nat, hi <= Len(br), CoinsOK(conf, spentAt, br, lo, hi),
           NEW c \in Coin, spentAt[c] # 0
    PROVE  conf[c] < spentAt[c]
<1> DEFINE at == spentAt[c]
           made == conf[c]
<1>1. at \in lo..hi /\ c \in Spends(br[at]) /\ made \in lo..hi /\ c \in Mints(br[made])
  BY DEF CoinsOK
<1> HIDE DEF at, made
<1>2. at \in 1..Len(br) /\ made \in 1..Len(br)  BY <1>1
<1>3. PICK k \in 1..at - 1 : c \in Mints(br[k])  BY <1>1, <1>2 DEF Sound
<1>4. k \in 1..Len(br)  BY <1>2, <1>3
<1>5. k = made  BY <1>1, <1>2, <1>3, <1>4 DEF Sound
<1>6. made < at  BY <1>2, <1>3, <1>5
<1> QED BY <1>6 DEF at, made

\* What is undone above a height, of the coins and of the rows spent:<height>.
Undone(conf, at, at2, by, by2, else, else2, to) ==
    /\ \A c \in Coin : at2[c] = (IF conf[c] > to \/ at[c] > to THEN 0 ELSE at[c])
    /\ \A c \in Coin : by2[c] = (IF conf[c] > to \/ at[c] > to THEN NoTx ELSE by[c])
    /\ \A p : p \in else2 <=> p \in else /\ p[1] <= to

LEMMA AccountsBack ==
    ASSUME NEW conf \in [Coin -> Nat], NEW at \in [Coin -> Nat], NEW row, NEW by, NEW else,
           \A c \in Coin : at[c] # 0 => conf[c] < at[c],
           NEW to \in Nat, \A s \in Sends : row[s].height \in Nat,
           by \in [Coin -> Sends \cup {NoTx}], else \subseteq Nat \X Coin,
           NEW row2, NEW at2, NEW by2, NEW else2, NEW gone,
           RowsBack(row, row2, to),
           Undone(conf, at, at2, by, by2, else, else2, to),
           Decided(row, at), Accounts(row, at, by, else, gone)
    PROVE  Decided(row2, at2) /\ Accounts(row2, at2, by2, else2, gone)
<1>1. NoTx \notin Sends /\ \A s \in Sends : Inputs[s] \subseteq Coin  BY LedgerAssumption, TxAssumption
<1>2. \A s \in Sends : IF row[s].status # "none" /\ row[s].height > to
                       THEN row2[s].status = "pending" ELSE row2[s] = row[s]
  BY DEF RowsBack
<1>u. /\ \A c \in Coin : at2[c] = (IF conf[c] > to \/ at[c] > to THEN 0 ELSE at[c])
      /\ \A c \in Coin : by2[c] = (IF conf[c] > to \/ at[c] > to THEN NoTx ELSE by[c])
      /\ \A p : p \in else2 <=> p \in else /\ p[1] <= to
  BY DEF Undone
<1>3. ASSUME NEW c \in Coin, at[c] # 0, at[c] <= to PROVE at2[c] = at[c] /\ by2[c] = by[c]
  <2> DEFINE x == at[c]
             y == conf[c]
  <2>1. x \in Nat /\ y \in Nat /\ y < x /\ x <= to  BY <1>3
  <2> HIDE DEF x, y
  <2>2. ~(y > to) /\ ~(x > to)  BY <2>1
  <2> QED BY <1>u, <2>2 DEF x, y
<1>4. ASSUME NEW c \in Coin, at2[c] # 0 PROVE at[c] # 0 /\ at[c] <= to /\ at2[c] = at[c] /\ by2[c] = by[c]
  <2>1. ~(conf[c] > to) /\ ~(at[c] > to) /\ at2[c] = at[c] /\ by2[c] = by[c]  BY <1>4, <1>u
  <2>2. at[c] \in Nat  OBVIOUS
  <2> QED BY <1>4, <2>1, <2>2
<1>5. Decided(row2, at2)
  <2> SUFFICES ASSUME NEW s \in Sends, row2[s].status # "none", ~Open(row2[s])
               PROVE  \E c \in Inputs[s] : at2[c] # 0 /\ at2[c] = row2[s].height
      BY DEF Decided
  <2>1. row2[s] = row[s] /\ ~(row[s].height > to)  BY <1>2 DEF Open
  <2>2. PICK c \in Inputs[s] : at[c] # 0 /\ at[c] = row[s].height  BY <2>1 DEF Decided
  <2>3. c \in Coin /\ row[s].height \in Nat  BY <1>1
  <2>4. at[c] <= to  BY <2>1, <2>2, <2>3
  <2> QED BY <1>3, <2>1, <2>2, <2>3, <2>4
<1>6. ASSUME NEW c \in Coin, at2[c] # 0
      PROVE  IF by2[c] = NoTx THEN <<at2[c], c>> \in else2
             ELSE \/ by2[c] \in gone
                  \/ row2[by2[c]].status = "confirmed" /\ row2[by2[c]].height = at2[c]
  <2>1. at[c] # 0 /\ at[c] <= to /\ at2[c] = at[c] /\ by2[c] = by[c]  BY <1>4, <1>6
  <2>2. IF by[c] = NoTx THEN <<at[c], c>> \in else
        ELSE \/ by[c] \in gone
             \/ row[by[c]].status = "confirmed" /\ row[by[c]].height = at[c]
    BY <2>1 DEF Accounts
  <2>3. CASE by[c] = NoTx
    <3>1. <<at[c], c>> \in else /\ <<at[c], c>>[1] <= to  BY <2>1, <2>2, <2>3
    <3> QED BY <1>u, <2>1, <2>3, <3>1
  <2>4. CASE by[c] # NoTx /\ by[c] \in gone  BY <2>1, <2>4
  <2>5. CASE by[c] # NoTx /\ row[by[c]].status = "confirmed" /\ row[by[c]].height = at[c]
    <3>1. PICK s \in Sends : s = by[c]  BY <2>5
    <3>2. row[s].height = at[c] /\ at[c] \in Nat /\ at[c] <= to  BY <2>1, <2>5, <3>1
    <3>3. ~(row[s].height > to)  BY <3>2
    <3>4. row2[s] = row[s]  BY <1>2, <3>3
    <3> QED BY <2>1, <2>5, <3>1, <3>4
  <2> QED BY <2>2, <2>3, <2>4, <2>5
<1>7. ASSUME NEW p \in else2 PROVE p[1] # 0 /\ at2[p[2]] = p[1] /\ by2[p[2]] = NoTx
  <2>1. p \in else /\ p[1] <= to /\ p[2] \in Coin  BY <1>7, <1>u
  <2>2. p[1] # 0 /\ at[p[2]] = p[1] /\ by[p[2]] = NoTx  BY <2>1 DEF Accounts
  <2> QED BY <1>3, <2>1, <2>2
<1>8. Accounts(row2, at2, by2, else2, gone)  BY <1>6, <1>7 DEF Accounts
<1> QED BY <1>5, <1>8

LEMMA RollBackAccounts ==
    ASSUME NEW w \in WalletType, InPlace(w), w.synced # NoSync, w.birthday # 0, NEW h \in Nat, NEW linked \in BOOLEAN,
           NEW gone, InAccounts(w, gone)
    PROVE  InAccounts(RollBack(w, h, linked), gone) /\ RowsThere(RollBack(w, h, linked), w)
<1> DEFINE v == RollBack(w, h, linked)
           conf == w.conf
           row == w.row
           row2 == v.row
           at == w.spentAt
           at2 == v.spentAt
           by == w.spentBy
           by2 == v.spentBy
           else == w.elsewhere
           else2 == v.elsewhere
           br == w.branch
           lo == w.birthday
           hi == w.synced
<1>1. /\ conf \in [Coin -> Nat] /\ at \in [Coin -> Nat] /\ lo \in Nat \ {0} /\ hi \in Nat
      /\ Len(br) \in Nat
  BY WalletFields
<1>2. Sound(br) /\ hi <= Len(br) /\ CoinsOK(conf, at, br, lo, hi)  BY <1>1 DEF InPlace
<1>3. by \in [Coin -> Sends \cup {NoTx}] /\ else \subseteq Nat \X Coin /\ \A s \in Sends : row[s].height \in Nat
  BY DEF WalletType, SendRow
<1>4. \A c \in Coin : c \in CoinsAbove(w, h) \cup SpentAbove(w, h) <=> conf[c] > h \/ at[c] > h
  <2> TAKE c \in Coin
  <2>1. c \in CoinsAbove(w, h) \cup SpentAbove(w, h) <=> conf[c] > h \/ (conf[c] <= h /\ at[c] > h)
    BY DEF CoinsAbove, SpentAbove
  <2>2. conf[c] \in Nat /\ at[c] \in Nat  BY <1>1
  <2> HIDE DEF conf, at
  <2>3. conf[c] > h \/ (conf[c] <= h /\ at[c] > h) <=> conf[c] > h \/ at[c] > h  BY <2>2
  <2> QED BY <2>1, <2>3
<1>5. \A c \in Coin : /\ at2[c] = IF c \in CoinsAbove(w, h) \cup SpentAbove(w, h) THEN 0 ELSE w.spentAt[c]
                      /\ by2[c] = IF c \in CoinsAbove(w, h) \cup SpentAbove(w, h) THEN NoTx ELSE w.spentBy[c]
  BY DEF RollBack, WalletType
<1>6. else2 = {p \in else : p[1] <= h}  BY DEF RollBack, WalletType
<1>7. RowsBack(row, row2, h)
  <2>1. \A s \in Sends : IF row[s].status # "none" /\ row[s].height > h
                         THEN row2[s].status = "pending" ELSE row2[s] = row[s]
    <3> TAKE s \in Sends
    <3> DEFINE old == row[s]
               new == [old EXCEPT !.status = "pending", !.height = 0,
                                  !.rolledBack = old.rolledBack \/ old.status = "confirmed"]
    <3>1. v.row[s] = IF s \in RowsAbove(w, h) THEN new ELSE old  BY DEF RollBack, WalletType
    <3>2. old \in SendRow  BY DEF WalletType
    <3>3. s \in RowsAbove(w, h) <=> old.status # "none" /\ old.height > h  BY DEF RowsAbove
    <3> HIDE DEF old
    <3>4. new.status = "pending"  BY <3>2 DEF SendRow
    <3> QED BY <3>1, <3>3, <3>4 DEF old
  <2> QED BY <2>1 DEF RowsBack
<1>8. Decided(row, at) /\ Accounts(row, at, by, else, gone)  BY DEF InAccounts
<1>9. /\ \A c \in Coin : at2[c] = (IF conf[c] > h \/ at[c] > h THEN 0 ELSE at[c])
      /\ \A c \in Coin : by2[c] = (IF conf[c] > h \/ at[c] > h THEN NoTx ELSE by[c])
  BY <1>4, <1>5
<1> HIDE DEF v, conf, row, row2, at, at2, by, by2, else, else2, br, lo, hi
<1>10. \A c \in Coin : at[c] # 0 => conf[c] < at[c]  BY <1>1, <1>2, MadeBeforeSpent
<1>11. Decided(row2, at2) /\ Accounts(row2, at2, by2, else2, gone)
  <2>1. conf \in [Coin -> Nat] /\ at \in [Coin -> Nat] /\ \A c \in Coin : at[c] # 0 => conf[c] < at[c]
    BY <1>1, <1>10
  <2>2. /\ \A s \in Sends : row[s].height \in Nat
        /\ by \in [Coin -> Sends \cup {NoTx}] /\ else \subseteq Nat \X Coin
    BY <1>3
  <2>3. Undone(conf, at, at2, by, by2, else, else2, h)  BY <1>6, <1>9 DEF Undone
  <2> QED BY <1>7, <1>8, <2>1, <2>2, <2>3, AccountsBack
<1>12. \A s \in Sends : row[s].status # "none" => row2[s].status # "none"  BY <1>7 DEF RowsBack
<1> QED BY <1>11, <1>12 DEF InAccounts, RowsThere, v, row, row2, at2, by2, else2

(* The steps *)

SameAccounts(v, w) == v.spentAt = w.spentAt /\ v.spentBy = w.spentBy /\ v.elsewhere = w.elsewhere

LEMMA OperationsKeepAccounts ==
    ASSUME NEW w \in WalletType
    PROVE  /\ \A tip, hint : SameAccounts(Started(w, tip, hint), w) /\ StillRows(Started(w, tip, hint), w)
           /\ SameAccounts(ExpireSends(w), w)
           /\ \A s \in Sends : \A at : SameAccounts(RecordPending(w, s, at), w)
           /\ \A s : SameAccounts(DropRow(w, s), w) /\ SameAccounts(DiscardPending(w, s), w)
           /\ \A s : SameAccounts(ForgetSend(w, s), w)
           /\ \A t, ins : SameAccounts(RecordOutgoing(w, t, ins), w)
           /\ \A c : SameAccounts(ExpireRow(w, c), w)
<1>1. \A tip, hint : SameAccounts(Started(w, tip, hint), w) /\ StillRows(Started(w, tip, hint), w)
  BY DEF Started, WalletType, SameAccounts, StillRows, Still
<1>2. SameAccounts(ExpireSends(w), w)  BY DEF ExpireSends, Release, WalletType, SameAccounts
<1>3. \A s \in Sends : \A at : SameAccounts(RecordPending(w, s, at), w)  BY DEF RecordPending, WalletType, SameAccounts
<1>4. \A s : SameAccounts(DropRow(w, s), w) /\ SameAccounts(DiscardPending(w, s), w)
  BY DEF DropRow, DiscardPending, Release, WalletType, SameAccounts
<1>5. \A s : SameAccounts(ForgetSend(w, s), w)  BY DEF ForgetSend, Release, WalletType, SameAccounts
<1>6. \A t, ins : SameAccounts(RecordOutgoing(w, t, ins), w)
  BY DEF RecordOutgoing, SetHold, WalletType, SameAccounts
<1>7. \A c : SameAccounts(ExpireRow(w, c), w)  BY DEF ExpireRow, SetHold, WalletType, SameAccounts
<1> QED BY <1>1, <1>2, <1>3, <1>4, <1>5, <1>6, <1>7

\* A send the node may have been asked to take.
Handed == {"recorded", "refused", "done"}

\* How a step that writes no block and takes none back changes a row: it stays,
\* or stays open; it is recorded; or it goes, and the step says so.
RowStep(s) ==
    \/ wallet'.row[s] = wallet.row[s]
    \/ Open(wallet.row[s]) /\ Open(wallet'.row[s])
    \/ phase[s] = "built" /\ Open(wallet'.row[s])
    \/ wallet.row[s].status = "none" /\ wallet'.row[s].status = "none"
    \/ wallet'.row[s].status = "none" /\ s \in taken'
    \/ wallet'.row[s].status = "none" /\ phase[s] = "refused" /\ phase'[s] \notin Handed

\* And what it leaves: accounts, and sends already handed over.
KeepsAccounts ==
    /\ SameAccounts(wallet', wallet) /\ taken \subseteq taken'
    /\ \A s \in Sends : RowStep(s)
    /\ \A s \in Sends : phase'[s] \in Handed => phase[s] \in Handed \/ Open(wallet'.row[s])

LEMMA StillKeeps ==
    ASSUME SameAccounts(wallet', wallet), StillRows(wallet', wallet), taken' = taken,
           \A s \in Sends : phase'[s] \in Handed => phase[s] \in Handed
    PROVE  KeepsAccounts
BY DEF KeepsAccounts, StillRows, Still, RowStep

LEMMA SameKeeps ==
    ASSUME wallet' = wallet, taken' = taken, \A s \in Sends : phase'[s] \in Handed => phase[s] \in Handed
    PROVE  KeepsAccounts
BY StillKeeps, SameRowsStill DEF SameAccounts

LEMMA StepKeeps ==
    ASSUME TypeOK, [Next]_vars
    PROVE  KeepsAccounts \/ PersistBatch \/ RollBackIfForked \/ Rescan
<1> DEFINE PhaseSame == \A s \in Sends : phase'[s] \in Handed => phase[s] \in Handed
<1>1. wallet \in WalletType /\ phase \in [Sends -> Phase]  BY DEF TypeOK
<1>2. CASE Mine \/ Reorg \/ ScanBlocks \/ StopPass \/ StartPoll \/ EndPoll \/ (\E t \in Tx : FindSpend(t))
           \/ (\E s \in Sends : JudgeRemovable(s)) \/ UNCHANGED vars
  BY <1>2, SameKeeps DEF Mine, Reorg, ScanBlocks, StopPass, StartPoll, EndPoll, FindSpend, JudgeRemovable, vars,
     appVars, sendVars
<1>3. CASE Crash
  <2>1. PhaseSame  BY <1>3 DEF Crash, Handed
  <2> QED BY <1>3, <2>1, SameKeeps DEF Crash
<1>4. CASE StartPass
  <2>1. PICK hint \in 0..Len(chain) : wallet' = Started(wallet, Len(chain), hint)  BY <1>4 DEF StartPass, Write
  <2>2. SameAccounts(wallet', wallet) /\ StillRows(wallet', wallet)  BY <1>1, <2>1, OperationsKeepAccounts
  <2>3. phase' = phase /\ taken' = taken  BY <1>4 DEF StartPass, sendVars
  <2> QED BY <2>2, <2>3, StillKeeps
<1>5. CASE EndPass
  <2>1. wallet' = ExpireSends(wallet) /\ phase' = phase /\ taken' = taken  BY <1>5 DEF EndPass, Write, sendVars
  <2>2. SameAccounts(wallet', wallet) /\ StillRows(wallet', wallet)
    BY <1>1, <2>1, OperationsKeepAccounts, ExpireSendsStill
  <2> QED BY <2>1, <2>2, StillKeeps
<1>6. CASE GiveUpStep
  <2>1. PICK s \in Sends : wallet' = ForgetSend(wallet, s) /\ phase' = phase /\ taken' = taken
    BY <1>6 DEF GiveUpStep, Forget, Write, appVars
  <2>2. SameAccounts(wallet', wallet) /\ StillRows(wallet', wallet)
    BY <1>1, <2>1, OperationsKeepAccounts, ForgetSendStill
  <2> QED BY <2>1, <2>2, StillKeeps
<1>7. CASE RecordSpend
  <2>1. /\ wallet' = RecordOutgoing(wallet, poll.tx, poll.ins) /\ phase' = phase /\ taken' = taken
        /\ poll.ins \in SUBSET Coin
    BY <1>7 DEF RecordSpend, Write, sendVars, TypeOK
  <2>2. SameAccounts(wallet', wallet) /\ StillRows(wallet', wallet)
    BY <1>1, <2>1, OperationsKeepAccounts, RecordOutgoingStill
  <2> QED BY <2>1, <2>2, StillKeeps
<1>8. CASE \E c \in Coin : ExpireOutgoing(c)
  <2>1. PICK c \in Coin : wallet' = ExpireRow(wallet, c) /\ phase' = phase /\ taken' = taken
    BY <1>8 DEF ExpireOutgoing, Write, appVars
  <2>2. SameAccounts(wallet', wallet) /\ StillRows(wallet', wallet)
    BY <1>1, <2>1, OperationsKeepAccounts, ExpireRowStill
  <2> QED BY <2>1, <2>2, StillKeeps
<1>9. CASE Remove
  <2>1. /\ wallet' = DropRow(wallet, removing) /\ removing \in Sends /\ phase' = phase
        /\ taken' = taken \cup RowsLeft
    BY <1>9 DEF Remove, Write, sendVars, TypeOK
  <2>2. \A s \in Sends : wallet'.row[s] = IF s = removing THEN NoSend ELSE wallet.row[s]
    BY <1>1, <2>1 DEF DropRow, WalletType
  <2>3. NoSend.status = "none"  BY DEF NoSend
  <2>4. \A s \in Sends : RowStep(s)  BY <2>1, <2>2, <2>3 DEF RowStep, RowsLeft
  <2>5. SameAccounts(wallet', wallet)  BY <1>1, <2>1, OperationsKeepAccounts
  <2> QED BY <2>1, <2>4, <2>5 DEF KeepsAccounts
<1>10. CASE SendStep
  <2>1. PICK s \in Sends : \/ Review(s) \/ Plan(s) \/ Build(s) \/ Cancel(s)
                           \/ Record(s) \/ Submit(s) \/ Refuse(s) \/ Discard(s)
    BY <1>10 DEF SendStep
  <2>2. CASE Review(s) \/ Plan(s) \/ Build(s) \/ Cancel(s)
    <3>1. \E to : phase' = [phase EXCEPT ![s] = to] /\ to \notin Handed
      BY <2>2 DEF Review, Plan, Build, Cancel, Move, Handed
    <3>2. PhaseSame  BY <1>1, <3>1
    <3>3. wallet' = wallet /\ taken' = taken  BY <2>2 DEF Review, Plan, Build, Cancel
    <3> QED BY <3>2, <3>3, SameKeeps
  <2>3. CASE Submit(s) \/ Refuse(s)
    <3>1. phase[s] = "recorded" /\ \E to : phase' = [phase EXCEPT ![s] = to]
      BY <2>3 DEF Submit, Refuse, Move
    <3>2. PhaseSame  BY <1>1, <3>1 DEF Handed
    <3>3. wallet' = wallet /\ taken' = taken  BY <2>3 DEF Submit, Refuse
    <3> QED BY <3>2, <3>3, SameKeeps
  <2>4. CASE Record(s)
    <3>1. /\ wallet' = RecordPending(wallet, s, stamp[s]) /\ taken' = taken
          /\ phase[s] = "built" /\ phase' = [phase EXCEPT ![s] = "recorded"]
      BY <2>4 DEF Record, Move
    <3>2. \A r \in Sends : IF r = s THEN Open(wallet'.row[r]) ELSE wallet'.row[r] = wallet.row[r]
      BY <1>1, <3>1, OpenRecorded
    <3>3. \A r \in Sends : RowStep(r)  BY <3>1, <3>2 DEF RowStep
    <3>4. \A r \in Sends : phase'[r] \in Handed => phase[r] \in Handed \/ Open(wallet'.row[r])
      BY <1>1, <3>1, <3>2
    <3>5. SameAccounts(wallet', wallet)  BY <1>1, <3>1, OperationsKeepAccounts
    <3> QED BY <3>1, <3>3, <3>4, <3>5 DEF KeepsAccounts
  <2>5. CASE Discard(s)
    <3>1. /\ wallet' = DiscardPending(wallet, s) /\ taken' = taken /\ phase[s] = "refused"
          /\ \E to : phase' = [phase EXCEPT ![s] = to] /\ to \notin Handed
      BY <2>5 DEF Discard, Write, Move, Handed
    <3>2. \A r \in Sends : wallet'.row[r] = IF r = s /\ wallet.row[s].status # "none" THEN NoSend ELSE wallet.row[r]
      BY <1>1, <3>1 DEF DiscardPending, DropRow, Release, WalletType
    <3>3. NoSend.status = "none"  BY DEF NoSend
    <3>4. phase'[s] \notin Handed /\ PhaseSame  BY <1>1, <3>1
    <3>5. \A r \in Sends : RowStep(r)  BY <3>1, <3>2, <3>3, <3>4 DEF RowStep
    <3>6. SameAccounts(wallet', wallet)  BY <1>1, <3>1, OperationsKeepAccounts
    <3> QED BY <3>1, <3>4, <3>5, <3>6 DEF KeepsAccounts
  <2> QED BY <2>1, <2>2, <2>3, <2>4, <2>5
<1> QED BY <1>2, <1>3, <1>4, <1>5, <1>6, <1>7, <1>8, <1>9, <1>10
        DEF Next, SyncStep, RemoveStep, WatcherStep

\* Rows that a step may take or open anew are no confirmed ones, and no row a
\* spent coin is accounted for by goes without being taken out.
LEMMA AccountsKept ==
    ASSUME NEW row, NEW row2, NEW at, NEW by, NEW else, NEW gone, NEW gone2, gone \subseteq gone2,
           by \in [Coin -> Sends \cup {NoTx}],
           \A s \in Sends : \/ row2[s] = row[s]
                            \/ /\ row2[s].status = "none" \/ Open(row2[s])
                               /\ row[s].status = "confirmed" => s \in gone2,
           Decided(row, at), Accounts(row, at, by, else, gone)
    PROVE  Decided(row2, at) /\ Accounts(row2, at, by, else, gone2)
<1>1. NoTx \notin Sends  BY LedgerAssumption, TxAssumption
<1>2. Decided(row2, at)
  <2> SUFFICES ASSUME NEW s \in Sends, row2[s].status # "none", ~Open(row2[s])
               PROVE  \E c \in Inputs[s] : at[c] # 0 /\ at[c] = row2[s].height
      BY DEF Decided
  <2>1. row2[s] = row[s]  OBVIOUS
  <2> QED BY <2>1 DEF Decided
<1>3. ASSUME NEW c \in Coin, at[c] # 0
      PROVE  IF by[c] = NoTx THEN <<at[c], c>> \in else
             ELSE \/ by[c] \in gone2
                  \/ row2[by[c]].status = "confirmed" /\ row2[by[c]].height = at[c]
  <2>1. IF by[c] = NoTx THEN <<at[c], c>> \in else
        ELSE \/ by[c] \in gone
             \/ row[by[c]].status = "confirmed" /\ row[by[c]].height = at[c]
    BY <1>3 DEF Accounts
  <2>2. \A s \in Sends : row[s].status = "confirmed" => row2[s] = row[s] \/ s \in gone2
    OBVIOUS
  <2>3. by[c] = NoTx \/ by[c] \in Sends  OBVIOUS
  <2> QED BY <2>1, <2>2, <2>3
<1>4. \A p \in else : p[1] # 0 /\ at[p[2]] = p[1] /\ by[p[2]] = NoTx  BY DEF Accounts
<1>5. Accounts(row2, at, by, else, gone2)  BY <1>3, <1>4 DEF Accounts
<1> QED BY <1>2, <1>5

\* The step, for any account of the sends taken out that the step adds to.
LEMMA StepAccounts ==
    ASSUME CoinsInv, [Next]_vars, NEW gone, NEW gone2, gone \subseteq gone2, taken' \subseteq gone2,
           InAccounts(wallet, gone),
           \A s \in Sends : phase[s] \in {"built", "refused"} /\ wallet.row[s].status = "confirmed" => s \in gone2
    PROVE  InAccounts(wallet', gone2) /\ (KeepsAccounts \/ Rescan \/ RowsThere(wallet', wallet))
<1>1. wallet \in WalletType /\ TypeOK  BY DEF CoinsInv, TypeOK
<1>2. InAccounts(wallet, gone2)
  <2>1. \A p \in gone : p \in gone2  OBVIOUS
  <2> QED BY <2>1 DEF InAccounts, Accounts
<1>3. CASE KeepsAccounts
  <2> DEFINE row == wallet.row
             row2 == wallet'.row
             at == wallet.spentAt
             by == wallet.spentBy
             else == wallet.elsewhere
  <2>1. wallet'.spentAt = at /\ wallet'.spentBy = by /\ wallet'.elsewhere = else
    BY <1>3 DEF KeepsAccounts, SameAccounts
  <2>2. by \in [Coin -> Sends \cup {NoTx}]  BY <1>1 DEF WalletType
  <2>3. Decided(row, at) /\ Accounts(row, at, by, else, gone2)  BY <1>2 DEF InAccounts
  <2>4. \A s \in Sends : RowStep(s)  BY <1>3 DEF KeepsAccounts
  <2>5. \A s \in Sends : \/ row2[s] = row[s]
                         \/ /\ row2[s].status = "none" \/ Open(row2[s])
                            /\ row[s].status = "confirmed" => s \in gone2
    <3> TAKE s \in Sends
    <3>1. RowStep(s)  BY <2>4
    <3> QED BY <3>1 DEF RowStep, Open
  <2> HIDE DEF row, row2, at, by, else
  <2>7. Decided(row2, at) /\ Accounts(row2, at, by, else, gone2)
    BY <2>2, <2>3, <2>5, AccountsKept
  <2> QED BY <1>3, <2>1, <2>7 DEF InAccounts, row2
<1>4. CASE PersistBatch
  <2> DEFINE b == pass.batch
  <2>1. b # NoBatch /\ wallet' = PersistScan(wallet, b.from, b.blocks, b.branch)
    BY <1>4 DEF PersistBatch, Write
  <2>2. /\ InPlace(wallet) /\ BatchFits(b, wallet) /\ (wallet.linked => wallet.synced # NoSync)
    BY <2>1 DEF CoinsInv, BatchKept, Working
  <2>3. b.from \in Nat \ {0} /\ Len(b.blocks) \in 1..2 /\ wallet.birthday # 0
    BY <2>1 DEF CoinsInv, TypeOK, Working, MaxBatch
  <2>4. b.blocks \in Seq(ScannedBlock) /\ b.branch \in Seq(Block)  BY DEF CoinsInv, TypeOK
  <2> HIDE DEF b
  <2> QED BY <1>1, <1>2, <2>1, <2>2, <2>3, <2>4, PersistAccounts
<1>5. CASE RollBackIfForked
  <2>1. /\ InPlace(wallet) /\ wallet.synced # NoSync /\ wallet.birthday # 0
    BY <1>5 DEF CoinsInv, Working, RollBackIfForked, Forked
  <2>2. PICK h \in Nat, linked \in BOOLEAN : wallet' = RollBack(wallet, h, linked)
    <3>1. CASE \E h \in ForkCandidates(wallet) : wallet' = RollBack(wallet, h, TRUE)
      <4>1. PICK h \in ForkCandidates(wallet) : wallet' = RollBack(wallet, h, TRUE)  BY <3>1
      <4>2. h \in Nat  BY <1>1, WalletFields DEF ForkCandidates
      <4> QED BY <4>1, <4>2, Zenon
    <3>2. CASE wallet' = RollBack(wallet, wallet.birthday - 1, FALSE)
      <4> DEFINE h == wallet.birthday - 1
      <4>1. h \in Nat  BY <1>1, <2>1, WalletFields
      <4>2. wallet' = RollBack(wallet, h, FALSE)  BY <3>2
      <4> HIDE DEF h
      <4> QED BY <4>1, <4>2
    <3> QED BY <1>5, <3>1, <3>2 DEF RollBackIfForked, Write
  <2> QED BY <1>1, <1>2, <2>1, <2>2, RollBackAccounts
<1>6. CASE Rescan
  <2>1. PICK h \in RescanFrom : wallet' = ResetForRescan(wallet, h)  BY <1>6 DEF Rescan, Write
  <2>2. \A s \in Sends : wallet'.row[s].status = "none" \/ Open(wallet'.row[s])
    <3> TAKE s \in Sends
    <3>1. wallet'.row[s] = IF IsPending(wallet, s) \/ GivenUp(wallet, s) THEN wallet.row[s] ELSE NoSend
      BY <2>1 DEF ResetForRescan, NewWallet
    <3> QED BY <3>1 DEF Open, IsPending, GivenUp, NoSend
  <2>3. /\ \A c \in Coin : wallet'.spentAt[c] = 0
        /\ wallet'.elsewhere = {}
    BY <2>1 DEF ResetForRescan, NewWallet
  <2> QED BY <1>6, <2>2, <2>3 DEF InAccounts, Decided, Accounts
<1> QED BY <1>1, <1>3, <1>4, <1>5, <1>6, StepKeeps

LEMMA InitAccounts == Init => InAccounts(wallet, {})
<1> SUFFICES ASSUME Init PROVE InAccounts(wallet, {})
    OBVIOUS
<1>1. PICK b \in Birthdays : wallet = NewWallet(b)  BY DEF Init
<1>2. /\ \A c \in Coin : wallet.spentAt[c] = 0
      /\ wallet.elsewhere = {} /\ \A s \in Sends : wallet.row[s].status = "none"
  BY <1>1 DEF NewWallet, NoSend
<1> QED BY <1>2 DEF InAccounts, Decided, Accounts

(* A send that is out there *)

\* A send handed over keeps its row until that is taken out.
RowThere == \A s \in Sends : phase[s] \in Handed /\ s \notin taken => wallet.row[s].status # "none"
LiveDone == \A s \in Sends : s \in live => phase[s] = "done"

\* Inductive, beside CoinsInv: a send in the network has a row, and the row was
\* decided by a coin's going or not at all.
WatchInv == CoinsInv /\ LiveDone /\ RowThere /\ InAccounts(wallet, Sends)

LEMMA WatchInit == GenesisFollows /\ Init => WatchInv
<1> SUFFICES ASSUME GenesisFollows, Init PROVE WatchInv
    OBVIOUS
<1>1. CoinsInv  BY CoinsInit
<1>2. InAccounts(wallet, {})  BY InitAccounts
<1>3. InAccounts(wallet, Sends)  BY <1>2 DEF InAccounts, Accounts
<1>4. LiveDone /\ RowThere  BY DEF Init, LiveDone, RowThere, Handed
<1> QED BY <1>1, <1>3, <1>4 DEF WatchInv

LEMMA WatchStep == WatchInv /\ [Next]_vars => WatchInv'
<1> SUFFICES ASSUME WatchInv, [Next]_vars PROVE WatchInv'
    OBVIOUS
<1>1. CoinsInv /\ TypeOK /\ CoinsInv'  BY CoinsStep DEF WatchInv, CoinsInv
<1>2. NoneAhead  BY <1>1, StepNoneAhead
<1>3. LiveDone'  BY <1>2 DEF NoneAhead, LiveDone, WatchInv
<1>4. taken' \subseteq Sends  BY <1>1 DEF CoinsInv, TypeOK
<1>5. InAccounts(wallet', Sends) /\ (KeepsAccounts \/ Rescan \/ RowsThere(wallet', wallet))
  BY <1>1, <1>4, StepAccounts DEF WatchInv
<1>6. RowThere'
  <2>1. CASE KeepsAccounts
    <3> SUFFICES ASSUME NEW s \in Sends, phase'[s] \in Handed, s \notin taken'
                 PROVE  wallet'.row[s].status # "none"
        BY DEF RowThere
    <3>1. RowStep(s) /\ (phase[s] \in Handed \/ Open(wallet'.row[s])) /\ s \notin taken
      BY <2>1 DEF KeepsAccounts
    <3>2. phase[s] \in Handed => wallet.row[s].status # "none"  BY <3>1 DEF WatchInv, RowThere
    <3>3. phase[s] = "built" => phase[s] \notin Handed  BY DEF Handed
    <3> QED BY <3>1, <3>2, <3>3 DEF RowStep, Open
  <2>2. CASE Rescan
    <3>1. phase' = phase /\ taken' = taken \cup RowsLeft  BY <2>2 DEF Rescan, appVars
    <3> QED BY <3>1 DEF RowThere, RowsLeft, WatchInv
  <2>3. CASE (PersistBatch \/ RollBackIfForked) /\ RowsThere(wallet', wallet)
    <3>1. phase' = phase /\ taken' = taken  BY <2>3 DEF PersistBatch, RollBackIfForked, sendVars
    <3> QED BY <2>3, <3>1 DEF RowThere, RowsThere, WatchInv
  <2> QED BY <1>1, <1>5, <2>1, <2>2, <2>3, StepKeeps
<1>7. InAccounts(wallet, Sends)'  BY <1>5
<1> QED BY <1>1, <1>3, <1>6, <1>7 DEF WatchInv

\* A send the network may hold is one the next scan looks out for, until one of
\* its coins is seen spent or its row is taken out: a crash, a rollback, a
\* rescan, giving up and another send of its coins do not make the wallet
\* forget it (watched_commitments, roll_back, forget_send, record_outgoing).
THEOREM LiveSendsAreWatched ==
    ASSUME GenesisFollows
    PROVE  Spec => []UnsettledIsWatched
<1>1. Init => WatchInv  BY WatchInit
<1>2. WatchInv /\ [Next]_vars => WatchInv'  BY WatchStep
<1>3. WatchInv => UnsettledIsWatched
  <2> SUFFICES ASSUME WatchInv, NEW s \in Sends, s \in live, s \notin taken, \A c \in Inputs[s] : wallet.spentAt[c] = 0
               PROVE  IsPending(wallet, s) \/ MayStillGo(wallet, s)
      BY DEF UnsettledIsWatched
  <2>1. wallet.row[s].status # "none"  BY DEF WatchInv, LiveDone, RowThere, Handed
  <2>2. Open(wallet.row[s])  BY <2>1 DEF WatchInv, InAccounts, Decided
  <2> QED BY <2>2 DEF Open, IsPending, MayStillGo, GivenUp
<1> QED BY <1>1, <1>2, <1>3, PTL DEF Spec

(* History and the coins *)

NoLegacy == Legacy = {}

\* Inductive: rows are the chain's, and every spent coin is accounted for.
HistoryInv == CreditInv /\ InAccounts(wallet, taken)

LEMMA UnseenNotConfirmed ==
    ASSUME NoLegacy, CreditInv, NEW s \in Sends, phase[s] # "done"
    PROVE  wallet.row[s].status # "confirmed"
<1>1. ~InChain(wallet.branch, s)  BY DEF CreditInv, SentOnly, Unseen
<1>2. \A h \in wallet.birthday..wallet.synced : s \notin wallet.branch[h]  BY <1>1, ScannedOnBranch
<1>3. wallet.row[s].status = "confirmed" =>
         wallet.row[s].height \in wallet.birthday..wallet.synced /\ s \in wallet.branch[wallet.row[s].height]
  BY DEF NoLegacy, CreditInv, InCredit, CreditOK
<1> QED BY <1>2, <1>3

LEMMA HistoryStep == NoLegacy /\ OwnOutputs /\ HistoryInv /\ [Next]_vars => HistoryInv'
<1> SUFFICES ASSUME NoLegacy, OwnOutputs, HistoryInv, [Next]_vars PROVE HistoryInv'
    OBVIOUS
<1>1. CreditInv' /\ CoinsInv /\ TypeOK /\ CreditInv  BY CreditStep DEF HistoryInv, CreditInv, CoinsInv
<1>2. taken \subseteq taken'
  <2>1. CASE PersistBatch \/ RollBackIfForked \/ Rescan
    BY <2>1 DEF PersistBatch, RollBackIfForked, Rescan
  <2> QED BY <1>1, <2>1, StepKeeps DEF KeepsAccounts
<1>3. \A s \in Sends : phase[s] \in {"built", "refused"} /\ wallet.row[s].status = "confirmed" => s \in taken'
  BY <1>1, UnseenNotConfirmed
<1>4. InAccounts(wallet', taken')  BY <1>1, <1>2, <1>3, StepAccounts DEF HistoryInv
<1> QED BY <1>1, <1>4 DEF HistoryInv

\* A confirmed send accounts for every coin of its own that the wallet knows.
LEMMA ConfirmedSpends ==
    ASSUME NoLegacy, CreditInv, NEW s \in Sends, wallet.row[s].status = "confirmed",
           NEW c \in Inputs[s], Known(wallet, c)
    PROVE  wallet.spentAt[c] = wallet.row[s].height
<1> DEFINE at == wallet.spentAt[c]
           h == wallet.row[s].height
           br == wallet.branch
           lo == wallet.birthday
           hi == wallet.synced
<1>1. c \in Coin /\ s \in Tx  BY TxAssumption
<1>2. h \in lo..hi /\ s \in br[h]  BY DEF NoLegacy, CreditInv, InCredit, CreditOK
<1>3. c \in Spends(br[h])  BY <1>1, <1>2 DEF Spends
<1>4. /\ at = 0 => \A k \in lo..hi : c \notin Spends(br[k])
      /\ at # 0 => at \in lo..hi /\ c \in Spends(br[at])
  BY <1>1 DEF CreditInv, CoinsInv, InPlace, CoinsOK, Known
<1>5. Sound(br) /\ lo \in Nat /\ (hi \in Nat \/ hi = NoSync) /\ (hi # NoSync => Len(br) = hi /\ lo # 0)
  BY WalletFields DEF CreditInv, CoinsInv, TypeOK, InPlace, Working
<1> HIDE DEF at, h, br, lo, hi
<1>6. at \in lo..hi /\ c \in Spends(br[at])  BY <1>2, <1>3, <1>4
<1>7. h \in 1..Len(br) /\ at \in 1..Len(br)
  <2>1. \A k \in lo..hi : k \in 1..Len(br)
    <3> TAKE k \in lo..hi
    <3>1. CASE hi = NoSync
      <4>1. \A i \in lo..hi : FALSE  BY <1>5, <3>1 DEF NoSync
      <4> QED BY <4>1
    <3>2. CASE hi # NoSync
      <4>1. hi \in Nat /\ lo \in Nat \ {0} /\ Len(br) = hi  BY <1>5, <3>2
      <4> QED BY <4>1
    <3> QED BY <3>1, <3>2
  <2> QED BY <1>2, <1>6, <2>1
<1>8. at = h  BY <1>1, <1>3, <1>5, <1>6, <1>7 DEF Sound
<1> QED BY <1>8 DEF at, h

\* Every spent coin is accounted for once in History, by the send confirmed at
\* that height or by the row spent:<height>, across stopped batches, rollbacks,
\* rescans and sends given up on; and a confirmed send accounts for all of its
\* coins (persist_scan).  Rows of the old form are left out: they are credited
\* by the coins they hold, which another transaction may spend one by one.
THEOREM SpentCoinsAreExplained ==
    ASSUME GenesisFollows, OwnOutputs, MadeLater, NoLegacy
    PROVE  Spec => []HistoryExplainsSpends
<1>1. Init => HistoryInv
  <2> SUFFICES ASSUME Init PROVE HistoryInv
      OBVIOUS
  <2>1. taken = {}  BY DEF Init
  <2> QED BY <2>1, CreditInit, InitAccounts DEF HistoryInv
<1>2. HistoryInv /\ [Next]_vars => HistoryInv'  BY HistoryStep
<1>3. HistoryInv => HistoryExplainsSpends
  <2> SUFFICES ASSUME HistoryInv PROVE HistoryExplainsSpends
      OBVIOUS
  <2>1. Accounts(wallet.row, wallet.spentAt, wallet.spentBy, wallet.elsewhere, taken)
    BY DEF HistoryInv, InAccounts
  <2>2. \A s \in Sends : wallet.row[s].status = "confirmed" =>
           \A c \in Inputs[s] : Known(wallet, c) => wallet.spentAt[c] = wallet.row[s].height
    BY ConfirmedSpends DEF HistoryInv
  <2> QED BY <2>1, <2>2 DEF Accounts, HistoryExplainsSpends
<1> QED BY <1>1, <1>2, <1>3, PTL DEF Spec

================================================================================

------------------------------ MODULE SyncProofs ------------------------------
(***************************************************************************)
(* Proofs about Sync, for every length of chain, every number of           *)
(* reorganisations and troubles, and every size of batch, window and       *)
(* rollback: what the ledger holds is of one chain, and what the engine    *)
(* believes of the node is what ChainView allows.                          *)
(***************************************************************************)
EXTENDS Sync, SequenceTheorems, TLAPS

\* The timer begins no pass while a rescan reads the records it must keep.
NoPassInRescan == Rare = {}

(***************************************************************************)
(* Chains and their beginnings                                             *)
(***************************************************************************)

Chains == Seq(Nat)

LEMMA PrefixIs ==
    ASSUME NEW s \in Chains, NEW t \in Chains
    PROVE  IsPrefix(s, t) <=> Len(s) <= Len(t) /\ \A i \in 1..Len(s) : s[i] = t[i]
<1>1. /\ Len(s) \in Nat /\ Len(t) \in Nat
      /\ \A i \in 1..Len(s) : s[i] \in Nat
      /\ \A i \in 1..Len(t) : t[i] \in Nat
  BY LenProperties DEF Chains
<1> DEFINE a == SubSeq(s, 1, Len(s))
           b == SubSeq(t, 1, Len(s))
<1>2. a \in Chains /\ Len(a) = Len(s) /\ \A i \in 1..Len(s) : a[i] = s[i]
  BY <1>1, SubSeqProperties DEF Chains
<1>3. ASSUME Len(s) <= Len(t)
      PROVE  b \in Chains /\ Len(b) = Len(s) /\ \A i \in 1..Len(s) : b[i] = t[i]
  <2>1. \A i \in 1..Len(s) : t[i] \in Nat
    BY <1>1, <1>3
  <2> QED BY <1>1, <2>1, SubSeqProperties DEF Chains
<1> HIDE DEF a, b
<1>4. IsPrefix(s, t) <=> Len(s) <= Len(t) /\ a = b
  BY DEF IsPrefix, a, b
<1>5. ASSUME Len(s) <= Len(t)
      PROVE  a = b <=> \A i \in 1..Len(s) : s[i] = t[i]
  <2>1. a = b => \A i \in 1..Len(s) : s[i] = t[i]
    BY <1>2, <1>3, <1>5
  <2>2. (\A i \in 1..Len(s) : s[i] = t[i]) => a = b
    BY <1>2, <1>3, <1>5, SeqEqual DEF Chains
  <2> QED BY <2>1, <2>2
<1> QED BY <1>4, <1>5

LEMMA UpToIs ==
    ASSUME NEW t \in Chains, NEW n \in Nat, n <= Len(t)
    PROVE  /\ UpTo(t, n) \in Chains /\ Len(UpTo(t, n)) = n
           /\ \A i \in 1..n : UpTo(t, n)[i] = t[i]
           /\ IsPrefix(UpTo(t, n), t)
<1>1. Len(t) \in Nat /\ \A i \in 1..Len(t) : t[i] \in Nat
  BY LenProperties DEF Chains
<1>2. \A i \in 1..n : t[i] \in Nat
  BY <1>1
<1>3. UpTo(t, n) \in Chains /\ Len(UpTo(t, n)) = n /\ \A i \in 1..n : UpTo(t, n)[i] = t[i]
  BY <1>2, SubSeqProperties DEF UpTo, Chains
<1> QED BY <1>3, PrefixIs

LEMMA PrefixThrough ==
    ASSUME NEW r \in Chains, NEW s \in Chains, NEW t \in Chains, IsPrefix(r, s), IsPrefix(s, t)
    PROVE  IsPrefix(r, t)
<1>1. Len(r) \in Nat /\ Len(s) \in Nat /\ Len(t) \in Nat
  BY LenProperties DEF Chains
<1> QED BY <1>1, PrefixIs

LEMMA NoneType == None \in Chains /\ Len(None) = 0
BY EmptySeq DEF None, Chains

LEMMA Settings == BatchSize \in Nat \ {0} /\ Keep \in Nat \ {0} /\ OnWord \in Nat \ {0} /\ Starts \subseteq Nat
BY SyncAssumption

LEMMA NonePrefix ==
    ASSUME NEW t \in Chains
    PROVE  None \in Chains /\ Len(None) = 0 /\ IsPrefix(None, t)
<1>1. None \in Chains /\ Len(None) = 0
  BY EmptySeq DEF None, Chains
<1>2. Len(t) \in Nat
  BY LenProperties DEF Chains
<1> QED BY <1>1, <1>2, PrefixIs

LEMMA PrefixAppended ==
    ASSUME NEW t \in Chains, NEW x \in Nat
    PROVE  Append(t, x) \in Chains /\ Append(t, x) # None /\ IsPrefix(t, Append(t, x))
<1>1. Len(t) \in Nat
  BY LenProperties DEF Chains
<1> DEFINE a == Append(t, x)
<1>2. /\ a \in Chains /\ a # None /\ Len(a) = Len(t) + 1
      /\ \A i \in 1..Len(t) : a[i] = t[i]
  BY AppendProperties DEF Chains, None
<1> HIDE DEF a
<1>3. IsPrefix(t, a)
  BY <1>1, <1>2, PrefixIs
<1> QED BY <1>2, <1>3 DEF a

LEMMA SomeLength ==
    ASSUME NEW t \in Chains
    PROVE  Len(t) \in Nat /\ (t = None <=> Len(t) = 0)
BY LenProperties, EmptySeq DEF Chains, None

(***************************************************************************)
(* Types                                                                   *)
(***************************************************************************)

Wallets == [begun : BOOLEAN, birthday : Nat, synced : Nat, line : Chains, kept : Nat \ {0},
            content : SUBSET (Nat \X Nat)]
Passes == [at : {"idle", "tip", "canonical", "search", "weigh", "fetch", "scan", "cut"},
           tip : Nat, height : Nat, prev : Chains, unlinked : Nat, good : Nat, stop : BOOLEAN,
           low : Nat, high : Nat, any : BOOLEAN, target : Nat, after : Chains, got : Chains]

SyncType ==
    /\ chain \in Chains /\ chain # None
    /\ served \in SUBSET Chains /\ chain \in served
    /\ wallet \in Wallets /\ pass \in Passes
    /\ batch \in Nat \ {0}
    /\ rescan \in {"none", "stopping", "reading"}
    /\ spent \in [troubles : Nat, reorgs : Nat]

(***************************************************************************)
(* The inductive invariant                                                 *)
(***************************************************************************)

\* The node had, at some moment of this pass, a chain that begins so.
Seen(v) == \E c \in served : IsPrefix(v, c)

\* What the ledger holds is of the line that ends in the last block scanned.
WalletWhole ==
    /\ wallet.begun => wallet.birthday # 0
    /\ ~wallet.begun => wallet.line = None /\ wallet.content = {}
    /\ wallet.begun /\ wallet.line = None => wallet.synced = wallet.birthday - 1 /\ wallet.content = {}
    /\ wallet.line # None =>
         /\ wallet.synced = Len(wallet.line)
         /\ wallet.birthday <= wallet.kept /\ wallet.kept <= Len(wallet.line)
         /\ wallet.content = {<<h, wallet.line[h]>> : h \in wallet.birthday..Len(wallet.line)}

\* A pass holds the position it read, for as long as it runs.
OnWallet ==
    pass.at \in {"canonical", "search", "weigh", "fetch", "scan"} =>
        /\ wallet.birthday # 0 /\ pass.prev = wallet.line
        /\ pass.height = IF wallet.begun THEN wallet.synced + 1 ELSE wallet.birthday

\* The block the search has found is below the last one scanned, kept, and the
\* node had it; a longer chain is weighed from there on.
Searching ==
    /\ pass.at \in {"canonical", "search", "weigh"} => pass.prev # None
    /\ pass.at \in {"search", "weigh"} =>
         /\ pass.low >= wallet.kept /\ pass.high < Len(pass.prev)
         /\ pass.target # 0 => /\ wallet.kept <= pass.target /\ pass.target < Len(pass.prev)
                               /\ Seen(UpTo(pass.prev, pass.target))
    /\ pass.at = "weigh" => pass.target # 0 /\ IsPrefix(UpTo(pass.prev, pass.target), pass.after)

\* What is scanned next follows a block the node had during this pass.
Following ==
    /\ pass.at \in {"fetch", "scan"} => Seen(pass.prev)
    /\ pass.at = "scan" => Seen(pass.got)

ReadingAlone == rescan = "reading" => pass.at = "idle"

SyncInv == SyncType /\ WalletWhole /\ OnWallet /\ Searching /\ Following /\ ReadingAlone

LEMMA FieldTypes ==
    SyncType => /\ wallet.begun \in BOOLEAN /\ wallet.birthday \in Nat /\ wallet.synced \in Nat
                /\ wallet.line \in Chains /\ wallet.kept \in Nat \ {0} /\ wallet.content \in SUBSET (Nat \X Nat)
                /\ pass.tip \in Nat /\ pass.height \in Nat /\ pass.prev \in Chains
                /\ pass.low \in Nat /\ pass.high \in Nat /\ pass.target \in Nat
                /\ pass.after \in Chains /\ pass.got \in Chains /\ pass.good \in Nat /\ pass.unlinked \in Nat
BY DEF SyncType, Wallets, Passes

LEMMA IdleType == Idle \in Passes /\ Idle.at = "idle"
BY NonePrefix, EmptySeq DEF Idle, Passes, None, Chains

LEMMA TroubleType ==
    ASSUME SyncType, NEW kind \in {"troubles", "reorgs"}, NEW max, Trouble(kind, max)
    PROVE  spent' \in [troubles : Nat, reorgs : Nat]
BY DEF SyncType, Trouble

\* A pass that has ended asks nothing more of the ledger.
LEMMA EndsKeep ==
    ASSUME SyncInv, pass' = Idle, UNCHANGED <<chain, served, wallet, batch, rescan>>,
           spent' \in [troubles : Nat, reorgs : Nat]
    PROVE  SyncInv'
<1>1. SyncType'
  BY IdleType DEF SyncInv, SyncType
<1>2. pass'.at = "idle"
  BY IdleType
<1>3. WalletWhole'
  BY DEF SyncInv, WalletWhole
<1> QED BY <1>1, <1>2, <1>3 DEF SyncInv, OnWallet, Searching, Following, ReadingAlone

LEMMA EndingsKeep ==
    ASSUME SyncInv,
           NodeBehind \/ Strange \/ NotHeavier \/ GiveUpSlow \/ NeverLinks \/ Finish \/ GiveWay \/ Fail
    PROVE  SyncInv'
<1>1. spent' \in [troubles : Nat, reorgs : Nat]
  BY TroubleType DEF NodeBehind, Strange, NotHeavier, GiveUpSlow, NeverLinks, Finish, GiveWay, Fail,
                     Quiet, SyncInv, SyncType
<1> QED
  BY <1>1, EndsKeep DEF NodeBehind, Strange, NotHeavier, GiveUpSlow, NeverLinks, Finish, GiveWay, Fail,
                        Ends, Quiet, App, node

\* Nothing a pass or the ledger holds changes.
LEMMA AsideKeeps ==
    ASSUME SyncInv, UNCHANGED <<chain, served, wallet, pass>>, batch' \in Nat \ {0},
           spent' \in [troubles : Nat, reorgs : Nat],
           rescan' \in {"none", "stopping", rescan} \/ (rescan' = "reading" /\ pass.at = "idle")
    PROVE  SyncInv'
<1>1. SyncType'
  BY DEF SyncInv, SyncType
<1>2. WalletWhole' /\ OnWallet' /\ Searching' /\ Following'
  BY DEF SyncInv, WalletWhole, OnWallet, Searching, Following, Seen
<1> QED BY <1>1, <1>2 DEF SyncInv, ReadingAlone

LEMMA HalveKeeps ==
    ASSUME SyncInv, Halve \/ OtherSpeed \/ Unlock \/ Stopped
    PROVE  SyncInv'
<1>1. UNCHANGED <<chain, served, wallet, pass>>
  BY DEF Halve, OtherSpeed, Unlock, Stopped, node, App
<1>2. batch' \in Nat \ {0}
  <2>1. CASE Halve
    <3>1. \A n \in Nat : n > 1 => n \div 2 \in Nat \ {0}
      OBVIOUS
    <3> QED BY <2>1, <3>1 DEF Halve, SyncInv, SyncType
  <2>2. CASE OtherSpeed \/ Unlock \/ Stopped
    BY <2>2 DEF OtherSpeed, Unlock, Stopped, App, SyncInv, SyncType
  <2> QED BY <2>1, <2>2
<1>3. rescan' \in {"none", "stopping", rescan} \/ (rescan' = "reading" /\ pass.at = "idle")
  BY DEF Halve, OtherSpeed, Unlock, Stopped, App, Running
<1>4. spent' \in [troubles : Nat, reorgs : Nat]
  BY TroubleType DEF Halve, OtherSpeed, Unlock, Stopped, SyncInv, SyncType
<1> QED BY <1>1, <1>2, <1>3, <1>4, AsideKeeps

LEMMA StopLeaves ==
    ASSUME SyncInv, StopPass
    PROVE  /\ pass' \in Passes
           /\ pass'.at = "cut" \/ (\A f \in {"at", "height", "prev", "low", "high", "target", "after", "got"} : pass'[f] = pass[f])
           /\ pass.at = "idle" => pass'.at = "idle"
BY DEF StopPass, SyncInv, SyncType, Passes, Running, Asking

LEMMA StopKeeps ==
    ASSUME SyncInv, AskRescan \/ Lock
    PROVE  SyncInv'
<1>1. StopPass /\ UNCHANGED <<chain, served, wallet, batch>>
  BY DEF AskRescan, Lock, node
<1>2. rescan' \in {"none", "stopping", rescan}
  BY DEF AskRescan, Lock
<1>7. spent' \in [troubles : Nat, reorgs : Nat]
  BY TroubleType DEF AskRescan, Lock, SyncInv
<1>3. SyncType' /\ WalletWhole'
  BY <1>1, <1>2, <1>7, StopLeaves DEF SyncInv, SyncType, WalletWhole
<1>4. ReadingAlone'
  BY <1>1, <1>2, StopLeaves DEF SyncInv, ReadingAlone
<1>5. CASE pass'.at = "cut"
  BY <1>3, <1>4, <1>5 DEF SyncInv, OnWallet, Searching, Following
<1>6. CASE /\ pass'.at = pass.at /\ pass'.height = pass.height /\ pass'.prev = pass.prev
           /\ pass'.low = pass.low /\ pass'.high = pass.high /\ pass'.target = pass.target
           /\ pass'.after = pass.after /\ pass'.got = pass.got
  BY <1>1, <1>3, <1>4, <1>6 DEF SyncInv, OnWallet, Searching, Following, Seen
<1> QED BY <1>1, <1>5, <1>6, StopLeaves

\* A chain that grows is one of those the node has had, in place of what it was.
LEMMA MineSees ==
    ASSUME SyncInv, Mine
    PROVE  /\ chain' \in Chains /\ chain' # None /\ served' \in SUBSET Chains /\ chain' \in served'
           /\ \A v \in Chains : Seen(v) => Seen(v)'
<1>1. chain \in Chains /\ chain # None /\ served \in SUBSET Chains
  BY DEF SyncInv, SyncType
<1>2. chain' = Append(chain, Last(chain)) /\ served' = (served \ {chain}) \cup {chain'}
  BY DEF Mine
<1>3. Last(chain) \in Nat
  BY <1>1, SomeLength, LenProperties DEF Last, Chains
<1>4. chain' \in Chains /\ chain' # None /\ IsPrefix(chain, chain')
  BY <1>1, <1>2, <1>3, PrefixAppended
<1>5. ASSUME NEW v \in Chains, Seen(v) PROVE Seen(v)'
  <2>1. PICK c \in served : IsPrefix(v, c)
    BY <1>5 DEF Seen
  <2>2. c = chain => IsPrefix(v, chain')
    BY <1>1, <1>4, <2>1, PrefixThrough
  <2> QED BY <1>2, <2>1, <2>2 DEF Seen
<1> QED BY <1>1, <1>2, <1>4, <1>5

LEMMA ReorgSees ==
    ASSUME SyncInv, Reorg
    PROVE  /\ chain' \in Chains /\ chain' # None /\ served' \in SUBSET Chains /\ chain' \in served'
           /\ pass.at # "idle" => \A v \in Chains : Seen(v) => Seen(v)'
<1>1. chain \in Chains /\ served \in SUBSET Chains
  BY DEF SyncInv, SyncType
<1>2. Len(chain) \in Nat /\ \A i \in 1..Len(chain) : chain[i] \in Nat
  BY <1>1, LenProperties DEF Chains
<1>3. PICK shared \in 1..(Len(chain) - 1), n \in 2..MaxHeight :
         n > shared /\ chain' = [h \in 1..n |-> IF h <= shared THEN chain[h] ELSE spent.reorgs + 1]
  BY DEF Reorg
<1>4. shared \in Nat /\ shared < Len(chain) /\ n \in Nat /\ n > 1
  BY <1>2, <1>3
<1>5. spent.reorgs + 1 \in Nat
  BY DEF SyncInv, SyncType
<1>6. \A h \in 1..n : (IF h <= shared THEN chain[h] ELSE spent.reorgs + 1) \in Nat
  BY <1>2, <1>4, <1>5
<1>7. chain' \in Chains /\ Len(chain') = n
  <2> DEFINE e(h) == IF h <= shared THEN chain[h] ELSE spent.reorgs + 1
  <2>1. \A h \in 1..n : e(h) \in Nat
    BY <1>6
  <2>2. chain' = [h \in 1..n |-> e(h)]
    BY <1>3
  <2> HIDE DEF e
  <2>3. chain' \in [1..n -> Nat]
    BY <2>1, <2>2
  <2>4. chain' \in Seq(Nat) /\ DOMAIN chain' = 1..n
    BY <1>4, <2>3, SeqDef
  <2> QED BY <1>4, <2>4, LenProperties DEF Chains
<1>8. served' = IF Running THEN served \cup {chain'} ELSE {chain'}
  BY DEF Reorg
<1>9. pass.at # "idle" => \A v : Seen(v) => Seen(v)'
  BY <1>8 DEF Seen, Running
<1> QED BY <1>1, <1>4, <1>7, <1>8, <1>9, SomeLength

LEMMA WorldKeeps ==
    ASSUME SyncInv, Mine \/ Reorg
    PROVE  SyncInv'
<1>1. UNCHANGED <<wallet, pass, batch, rescan>> /\ spent' \in [troubles : Nat, reorgs : Nat]
  BY TroubleType DEF Mine, Reorg, App, SyncInv, SyncType
<1>2. /\ chain' \in Chains /\ chain' # None /\ served' \in SUBSET Chains /\ chain' \in served'
      /\ pass.at # "idle" => \A v \in Chains : Seen(v) => Seen(v)'
  BY MineSees, ReorgSees
<1>3. SyncType' /\ WalletWhole' /\ OnWallet' /\ ReadingAlone'
  BY <1>1, <1>2 DEF SyncInv, SyncType, WalletWhole, OnWallet, ReadingAlone
<1>4. pass.prev \in Chains /\ pass.got \in Chains /\ pass.target \in Nat /\ pass.target # 0 /\ pass.target < Len(pass.prev)
      => UpTo(pass.prev, pass.target) \in Chains
  BY UpToIs, SomeLength
<1>5. Searching'
  BY <1>1, <1>2, <1>4, FieldTypes DEF SyncInv, Searching
<1>6. Following'
  BY <1>1, <1>2, FieldTypes DEF SyncInv, Following
<1> QED BY <1>3, <1>5, <1>6 DEF SyncInv

LEMMA BeginKeeps ==
    ASSUME NoPassInRescan, SyncInv, Begin
    PROVE  SyncInv'
<1>1. /\ pass' = [Idle EXCEPT !.at = "tip"] /\ served' = {chain} /\ chain' = chain
      /\ UNCHANGED <<wallet, batch, rescan, spent>> /\ rescan = "none"
  BY DEF Begin, Goes, Quiet, NoPassInRescan
<1>2. pass' \in Passes /\ pass'.at = "tip"
  BY <1>1, IdleType DEF Passes
<1>3. SyncType' /\ WalletWhole'
  BY <1>1, <1>2 DEF SyncInv, SyncType, WalletWhole
<1> QED BY <1>1, <1>2, <1>3 DEF SyncInv, OnWallet, Searching, Following, ReadingAlone

\* The pass reads where the ledger stands, which knows by then where it began.
LEMMA AskTipKeeps ==
    ASSUME SyncInv, AskTip
    PROVE  SyncInv'
<1>1. UNCHANGED <<chain, served, batch, rescan, spent>> /\ pass.at = "tip"
  BY DEF AskTip, At, node
<1>2. PICK w \in Started(Len(chain)) :
        /\ wallet' = w
        /\ pass' = [pass EXCEPT !.at = IF Position(w).prev = None THEN "fetch" ELSE "canonical",
                                !.tip = Len(chain), !.height = Position(w).height, !.prev = Position(w).prev]
  BY DEF AskTip, Goes
<1>3. Len(chain) \in Nat /\ Len(chain) # 0
  BY SomeLength DEF SyncInv, SyncType
<1>4. /\ w \in Wallets /\ w.birthday # 0
      /\ w.begun = wallet.begun /\ w.line = wallet.line /\ w.synced = wallet.synced
      /\ w.kept = wallet.kept /\ w.content = wallet.content
      /\ w.begun => w.birthday = wallet.birthday
  BY <1>3 DEF Started, SyncInv, SyncType, WalletWhole, Wallets
<1>5. /\ Position(w).height \in Nat /\ Position(w).prev = w.line /\ w.line \in Chains
      /\ Position(w).height = IF w.begun THEN w.synced + 1 ELSE w.birthday
  BY <1>4 DEF Position, Wallets
<1>6. pass' \in Passes
  BY <1>2, <1>3, <1>5 DEF SyncInv, SyncType, Passes
<1>7. /\ pass'.at = IF w.line = None THEN "fetch" ELSE "canonical"
      /\ pass'.height = Position(w).height /\ pass'.prev = w.line
  BY <1>2, <1>5 DEF SyncInv, SyncType, Passes
<1>8. SyncType'
  BY <1>1, <1>2, <1>4, <1>6 DEF SyncInv, SyncType
<1>9. WalletWhole'
  BY <1>2, <1>4 DEF SyncInv, WalletWhole
<1>10. OnWallet'
  BY <1>2, <1>4, <1>5, <1>7 DEF OnWallet
<1>11. Searching'
  BY <1>7 DEF Searching
<1>12. Following'
  <2>1. Seen(None)'
    BY <1>1, NonePrefix DEF Seen, SyncInv, SyncType
  <2> QED BY <1>7, <2>1 DEF Following
<1>13. ReadingAlone'
  BY <1>1 DEF SyncInv, ReadingAlone
<1> QED BY <1>8, <1>9, <1>10, <1>11, <1>12, <1>13 DEF SyncInv

\* A pass that has more to ask of the node, and writes nothing.
LEMMA GoesKeeps ==
    ASSUME SyncInv, UNCHANGED <<chain, served, wallet, rescan, spent>>, batch' \in Nat \ {0}, pass' \in Passes,
           pass.at # "idle", pass'.prev = pass.prev, pass'.height = pass.height,
           pass.at \in {"canonical", "search", "weigh", "fetch", "scan"},
           Searching', Following'
    PROVE  SyncInv'
<1>1. SyncType' /\ WalletWhole'
  BY DEF SyncInv, SyncType, WalletWhole
<1>2. OnWallet' /\ ReadingAlone'
  BY DEF SyncInv, OnWallet, ReadingAlone
<1> QED BY <1>1, <1>2 DEF SyncInv

SearchPass(p, any, low, high) ==
    [p EXCEPT !.at = "search", !.any = any, !.target = 0, !.after = None, !.low = low, !.high = high]

LEMMA SearchPassIs ==
    ASSUME NEW p \in Passes, NEW any \in BOOLEAN, NEW low \in Nat, NEW high \in Nat
    PROVE  /\ SearchPass(p, any, low, high) \in Passes
           /\ SearchPass(p, any, low, high).at = "search"
           /\ SearchPass(p, any, low, high).prev = p.prev
           /\ SearchPass(p, any, low, high).height = p.height
           /\ SearchPass(p, any, low, high).low = low
           /\ SearchPass(p, any, low, high).high = high
           /\ SearchPass(p, any, low, high).target = 0
<1>1. None \in Chains
  BY EmptySeq DEF None, Chains
<1>2. SearchPass(p, any, low, high) \in Passes
  BY <1>1 DEF Passes, SearchPass
<1> QED BY <1>1, <1>2 DEF Passes, SearchPass

\* The search begins among the blocks kept, below the last one scanned.
LEMMA SearchFrom ==
    ASSUME SyncInv, NEW p \in Passes, pass.at \in {"canonical", "scan"}, wallet.line # None,
           p.prev = wallet.line, p.height = Len(wallet.line) + 1
    PROVE  /\ Search(p) \in Passes /\ Search(p).at = "search"
           /\ Search(p).prev = p.prev /\ Search(p).height = p.height
           /\ Search(p).low = wallet.kept /\ Search(p).high < Len(p.prev) /\ Search(p).target = 0
<1>1. /\ wallet.kept \in Nat \ {0} /\ wallet.kept <= Len(wallet.line) /\ Len(wallet.line) \in Nat
  BY FieldTypes, SomeLength DEF SyncInv, WalletWhole
<1> DEFINE among == Candidates(p.height - 1)
           high == IF among = {} THEN wallet.kept - 1 ELSE p.height - 2
<1>3. high \in Nat /\ high < Len(p.prev)
  BY <1>1
<1>5. PICK any \in BOOLEAN, low \in Nat, top \in Nat :
         any = (among # {}) /\ low = wallet.kept /\ top = high
  <2>1. (among # {}) \in BOOLEAN
    OBVIOUS
  <2> QED BY <1>1, <1>3, <2>1
<1>4. Search(p) = SearchPass(p, any, low, top)
  BY <1>5 DEF Search, SearchPass
<1> HIDE DEF among, high
<1>6. any \in BOOLEAN /\ low \in Nat /\ top \in Nat
  OBVIOUS
<1> DEFINE q == SearchPass(p, any, low, top)
<1>7. /\ q \in Passes /\ q.at = "search" /\ q.prev = p.prev /\ q.height = p.height
      /\ q.low = low /\ q.high = top /\ q.target = 0
  BY <1>6, SearchPassIs
<1> HIDE DEF q
<1>8. low = wallet.kept /\ top < Len(p.prev)
  BY <1>3, <1>5
<1>9. Search(p) = q
  BY <1>4 DEF q
<1> QED BY <1>7, <1>8, <1>9

LEMMA AskCanonicalKeeps ==
    ASSUME SyncInv, AskCanonical
    PROVE  SyncInv'
<1>1. /\ pass.at = "canonical" /\ UNCHANGED <<chain, served, wallet, rescan, batch, spent>>
  BY DEF AskCanonical, At, Quiet, node
<1>2. /\ wallet.line # None /\ pass.prev = wallet.line /\ pass.height = Len(wallet.line) + 1
      /\ batch' \in Nat \ {0} /\ pass \in Passes
  BY <1>1 DEF SyncInv, SyncType, OnWallet, Searching, WalletWhole
<1>3. CASE Canonical(pass.prev) /\ pass' = [pass EXCEPT !.at = "fetch"]
  <2>1. pass' \in Passes /\ pass'.at = "fetch" /\ pass'.prev = pass.prev /\ pass'.height = pass.height
    BY <1>2, <1>3 DEF Passes
  <2>2. Seen(pass.prev)'
    BY <1>1, <1>3 DEF Canonical, Seen, SyncInv, SyncType
  <2> QED BY <1>1, <1>2, <2>1, <2>2, GoesKeeps DEF Searching, Following
<1>4. CASE pass' = Search(pass)
  <2>1. /\ pass' \in Passes /\ pass'.at = "search" /\ pass'.prev = pass.prev /\ pass'.height = pass.height
        /\ pass'.low = wallet.kept /\ pass'.high < Len(pass.prev) /\ pass'.target = 0
    BY <1>1, <1>2, <1>4, SearchFrom
  <2>2. wallet.kept \in Nat
    BY FieldTypes DEF SyncInv
  <2> QED BY <1>1, <1>2, <2>1, <2>2, GoesKeeps DEF Searching, Following
<1> QED BY <1>3, <1>4 DEF AskCanonical, Goes

LEMMA QuestionKeeps ==
    ASSUME SyncInv, Question
    PROVE  SyncInv'
<1>1. /\ pass.at = "search" /\ UNCHANGED <<chain, served, wallet, rescan, batch, spent>> /\ pass.low <= pass.high
  BY DEF Question, At, Quiet, node
<1>2. /\ pass \in Passes /\ batch' \in Nat \ {0} /\ pass.low >= wallet.kept /\ pass.high < Len(pass.prev)
      /\ wallet.kept \in Nat \ {0} /\ pass.low \in Nat /\ pass.high \in Nat /\ pass.prev \in Chains
      /\ Len(pass.prev) \in Nat
  BY <1>1, FieldTypes, SomeLength DEF SyncInv, SyncType, Searching
<1>3. PICK mid \in Nat : mid = (pass.low + pass.high) \div 2 /\ pass.low <= mid /\ mid <= pass.high
  <2>1. \A a, b \in Nat : a <= b => /\ (a + b) \div 2 \in Nat
                                    /\ a <= (a + b) \div 2 /\ (a + b) \div 2 <= b
    OBVIOUS
  <2> QED BY <1>1, <1>2, <2>1
<1>4. mid # 0 /\ wallet.kept <= mid /\ mid < Len(pass.prev)
  BY <1>2, <1>3
<1>5. CASE Canonical(UpTo(pass.prev, mid)) /\ pass' = [pass EXCEPT !.target = mid, !.low = mid + 1]
  <2>1. /\ pass' \in Passes /\ pass'.at = "search" /\ pass'.prev = pass.prev /\ pass'.height = pass.height
        /\ pass'.low = mid + 1 /\ pass'.high = pass.high /\ pass'.target = mid
    <3>1. PICK low \in Nat : low = mid + 1
      OBVIOUS
    <3>2. pass' = [pass EXCEPT !.target = mid, !.low = low]
      BY <1>5, <3>1
    <3> QED BY <1>1, <1>2, <3>1, <3>2 DEF Passes
  <2>2. Seen(UpTo(pass.prev, mid))'
    BY <1>1, <1>5 DEF Canonical, Seen, SyncInv, SyncType
  <2>3. Searching'
    BY <1>1, <1>2, <1>4, <2>1, <2>2 DEF Searching, SyncInv
  <2> QED BY <1>1, <1>2, <2>1, <2>3, GoesKeeps DEF Following
<1>6. CASE pass' = [pass EXCEPT !.high = mid - 1]
  <2>1. /\ pass' \in Passes /\ pass'.at = "search" /\ pass'.prev = pass.prev /\ pass'.height = pass.height
        /\ pass'.low = pass.low /\ pass'.high = mid - 1 /\ pass'.target = pass.target
    <3>1. PICK high \in Nat : high = mid - 1
      BY <1>4
    <3>2. pass' = [pass EXCEPT !.high = high]
      BY <1>6, <3>1
    <3> QED BY <1>1, <1>2, <3>1, <3>2 DEF Passes
  <2>2. Searching'
    BY <1>1, <1>2, <1>4, <2>1 DEF Searching, SyncInv, Seen
  <2> QED BY <1>1, <1>2, <2>1, <2>2, GoesKeeps DEF Following
<1>7. \/ Canonical(UpTo(pass.prev, mid)) /\ pass' = [pass EXCEPT !.target = mid, !.low = mid + 1]
      \/ pass' = [pass EXCEPT !.high = mid - 1]
  BY <1>3 DEF Question, Goes
<1> QED BY <1>5, <1>6, <1>7

\* What the node answers is the beginning of the chain it has.
LEMMA AnsweredIs ==
    ASSUME SyncType, NEW from, NEW to \in Nat
    PROVE  /\ Answered(from, to) \in Chains /\ IsPrefix(Answered(from, to), chain)
           /\ Seen(Answered(from, to))
<1>1. chain \in Chains /\ chain \in served /\ Len(chain) \in Nat
  BY SomeLength DEF SyncType
<1>2. Least(to, Len(chain)) \in Nat /\ Least(to, Len(chain)) <= Len(chain)
  BY <1>1 DEF Least
<1>3. Answered(from, to) \in Chains /\ IsPrefix(Answered(from, to), chain)
  BY <1>1, <1>2, UpToIs DEF Answered
<1> QED BY <1>1, <1>3 DEF Seen

LEMMA WeighFirstKeeps ==
    ASSUME SyncInv, WeighFirst
    PROVE  SyncInv'
<1>1. /\ pass.at = "search" /\ UNCHANGED <<chain, served, wallet, rescan, batch, spent>>
      /\ pass' = [pass EXCEPT !.at = "weigh", !.after = UpTo(pass.prev, pass.target)] /\ pass.target # 0
  BY DEF WeighFirst, Searched, At, Goes, Quiet, node, NothingShared, TooDeep
<1>2. /\ pass \in Passes /\ batch' \in Nat \ {0} /\ pass.prev \in Chains /\ pass.target \in Nat
      /\ Len(pass.prev) \in Nat
  BY <1>1, FieldTypes, SomeLength DEF SyncInv, SyncType
<1>3. wallet.kept <= pass.target /\ pass.target < Len(pass.prev) /\ Seen(UpTo(pass.prev, pass.target))
  BY <1>1 DEF SyncInv, Searching
<1>4. UpTo(pass.prev, pass.target) \in Chains
  BY <1>2, <1>3, UpToIs
<1>5. IsPrefix(UpTo(pass.prev, pass.target), UpTo(pass.prev, pass.target))
  BY <1>4, SomeLength, PrefixIs
<1>6. /\ pass' \in Passes /\ pass'.at = "weigh" /\ pass'.prev = pass.prev /\ pass'.height = pass.height
      /\ pass'.low = pass.low /\ pass'.high = pass.high /\ pass'.target = pass.target
      /\ pass'.after = UpTo(pass.prev, pass.target)
  BY <1>1, <1>2, <1>4 DEF Passes
<1>7. Searching'
  BY <1>1, <1>3, <1>5, <1>6 DEF SyncInv, Searching, Seen
<1> QED BY <1>1, <1>2, <1>6, <1>7, GoesKeeps DEF Following

LEMMA ShownIs ==
    ASSUME SyncType
    PROVE  Shown \in Chains /\ IsPrefix(Shown, chain)
<1>1. pass.after \in Chains /\ pass.tip \in Nat /\ Len(pass.after) \in Nat
  BY FieldTypes, SomeLength
<1>2. WeighTo \in Nat
  BY <1>1, Settings DEF WeighTo, Least
<1> QED BY <1>2, AnsweredIs DEF Shown

LEMMA WeighKeeps ==
    ASSUME SyncInv, Weigh
    PROVE  SyncInv'
<1>1. /\ pass.at = "weigh" /\ UNCHANGED <<chain, served, wallet, rescan, batch, spent>>
      /\ pass' = [pass EXCEPT !.after = Shown] /\ IsPrefix(pass.after, Shown)
  BY DEF Weigh, Weighing, At, Goes, Quiet, node, Grows, IsStrictPrefix
<1>2. /\ pass \in Passes /\ batch' \in Nat \ {0} /\ pass.prev \in Chains /\ pass.after \in Chains
      /\ pass.target \in Nat /\ Len(pass.prev) \in Nat /\ Shown \in Chains
  BY <1>1, FieldTypes, SomeLength, ShownIs DEF SyncInv, SyncType
<1>3. /\ pass.target # 0 /\ pass.target < Len(pass.prev)
      /\ IsPrefix(UpTo(pass.prev, pass.target), pass.after)
  BY <1>1 DEF SyncInv, Searching
<1>4. UpTo(pass.prev, pass.target) \in Chains
  BY <1>2, <1>3, UpToIs
<1>5. IsPrefix(UpTo(pass.prev, pass.target), Shown)
  BY <1>1, <1>2, <1>3, <1>4, PrefixThrough
<1> HIDE DEF Shown
<1>6. /\ pass' \in Passes /\ pass'.at = "weigh" /\ pass'.prev = pass.prev /\ pass'.height = pass.height
      /\ pass'.low = pass.low /\ pass'.high = pass.high /\ pass'.target = pass.target
      /\ pass'.after = Shown
  BY <1>1, <1>2 DEF Passes
<1>7. Searching'
  BY <1>1, <1>3, <1>5, <1>6 DEF SyncInv, Searching, Seen
<1> QED BY <1>1, <1>2, <1>6, <1>7, GoesKeeps DEF Following

LEMMA FetchKeeps ==
    ASSUME SyncInv, Fetch
    PROVE  SyncInv'
<1>1. /\ pass.at = "fetch" /\ UNCHANGED <<chain, served, wallet, rescan, spent>>
      /\ batch' = Grown(pass)
  BY DEF Fetch, Scanning, At, node
<1>2. PICK good :
        /\ good = IF batch' # batch THEN 0 ELSE IF batch < BatchSize THEN pass.good + 1 ELSE pass.good
        /\ pass' = [pass EXCEPT !.at = "scan", !.got = Answered(pass.height, FetchTo), !.good = good]
  BY DEF Fetch, Goes
<1>3. pass \in Passes /\ batch \in Nat \ {0} /\ pass.height \in Nat /\ pass.tip \in Nat /\ pass.good \in Nat
  BY FieldTypes DEF SyncInv, SyncType
<1>4. FetchTo \in Nat
  <2>1. pass.height + batch - 1 \in Nat
    BY <1>3
  <2> QED BY <1>3, <2>1 DEF FetchTo, Least
<1>5. PICK got \in Chains : got = Answered(pass.height, FetchTo) /\ Seen(got)
  BY <1>4, AnsweredIs DEF SyncInv
<1>6. batch' \in Nat \ {0}
  <2>1. batch * 2 \in Nat \ {0} /\ BatchSize \in Nat \ {0}
    BY <1>3, Settings
  <2> QED BY <1>1, <1>3, <2>1 DEF Grown, Least
<1>7. good \in Nat
  BY <1>2, <1>3
<1>8. pass' = [pass EXCEPT !.at = "scan", !.got = got, !.good = good]
  BY <1>2, <1>5
<1>9. /\ pass' \in Passes /\ pass'.at = "scan" /\ pass'.prev = pass.prev /\ pass'.height = pass.height
      /\ pass'.got = got
  BY <1>3, <1>5, <1>7, <1>8 DEF Passes
<1>10. Following'
  BY <1>1, <1>5, <1>9 DEF SyncInv, Following, Seen
<1> QED BY <1>1, <1>6, <1>9, <1>10, GoesKeeps DEF Searching

LEMMA NotLinkedKeeps ==
    ASSUME SyncInv, NotLinked
    PROVE  SyncInv'
<1>1. /\ pass.at = "scan" /\ UNCHANGED <<chain, served, wallet, rescan, batch, spent>> /\ pass.prev # None
      /\ pass' = Search([pass EXCEPT !.unlinked = @ + 1, !.got = None])
  BY DEF NotLinked, At, Goes, Quiet, node, Links
<1>2. /\ wallet.line # None /\ pass.prev = wallet.line /\ pass.height = Len(wallet.line) + 1
      /\ batch' \in Nat \ {0} /\ pass \in Passes /\ pass.unlinked \in Nat
  BY <1>1, FieldTypes DEF SyncInv, SyncType, OnWallet, WalletWhole
<1>3. PICK u \in Nat, none \in Chains : u = pass.unlinked + 1 /\ none = None
  BY <1>2, NoneType
<1>4. PICK p : p = [pass EXCEPT !.unlinked = u, !.got = none]
  OBVIOUS
<1>5. p \in Passes /\ p.prev = pass.prev /\ p.height = pass.height
  BY <1>2, <1>4 DEF Passes
<1>6. pass' = Search(p)
  BY <1>1, <1>3, <1>4
<1>7. /\ pass' \in Passes /\ pass'.at = "search" /\ pass'.prev = pass.prev /\ pass'.height = pass.height
      /\ pass'.low = wallet.kept /\ pass'.high < Len(pass.prev) /\ pass'.target = 0
  BY <1>1, <1>2, <1>5, <1>6, SearchFrom
<1>8. wallet.kept \in Nat
  BY FieldTypes DEF SyncInv
<1> QED BY <1>1, <1>2, <1>7, <1>8, GoesKeeps DEF Searching, Following

\* The ledger goes back to a block both chains have, or to before its first.
LEMMA BackKeeps ==
    ASSUME SyncInv, pass.at \in {"search", "weigh"}, NEW h, BackTo(h),
           h = IF pass.target # 0 THEN pass.target ELSE wallet.birthday - 1,
           UNCHANGED <<chain, served, batch, rescan, spent>>
    PROVE  /\ SyncInv'
           /\ wallet.begun /\ wallet.line # None /\ wallet'.birthday = wallet.birthday
           /\ wallet'.line = IF pass.target = 0 THEN None ELSE UpTo(wallet.line, h)
<1>1. /\ wallet \in Wallets /\ pass \in Passes /\ wallet.line \in Chains /\ pass.target \in Nat
      /\ wallet.birthday \in Nat /\ wallet.kept \in Nat \ {0} /\ Len(wallet.line) \in Nat
  BY FieldTypes, SomeLength DEF SyncInv, SyncType
<1>2. /\ wallet.begun /\ wallet.line # None /\ pass.prev = wallet.line /\ wallet.birthday # 0
      /\ wallet.birthday <= wallet.kept /\ wallet.kept <= Len(wallet.line)
      /\ wallet.content = {<<k, wallet.line[k]>> : k \in wallet.birthday..Len(wallet.line)}
      /\ pass.target # 0 => /\ wallet.kept <= pass.target /\ pass.target < Len(wallet.line)
                            /\ Seen(UpTo(wallet.line, pass.target))
  BY DEF SyncInv, OnWallet, Searching, WalletWhole
<1>3. h \in Nat /\ h < Len(wallet.line)
  BY <1>1, <1>2
<1>4. PICK line \in Chains : /\ line = IF pass.target = 0 THEN None ELSE UpTo(wallet.line, h)
                             /\ line # None => Len(line) = h /\ \A k \in 1..h : line[k] = wallet.line[k]
                             /\ line = None <=> pass.target = 0
                             /\ Seen(line)
  <2>1. CASE pass.target = 0
    <3>1. Seen(None)
      BY NonePrefix DEF Seen, SyncInv, SyncType
    <3> QED BY <2>1, <3>1, NoneType
  <2>2. CASE pass.target # 0
    <3>1. h = pass.target /\ h # 0
      BY <2>2
    <3>2. /\ UpTo(wallet.line, h) \in Chains /\ Len(UpTo(wallet.line, h)) = h
          /\ \A k \in 1..h : UpTo(wallet.line, h)[k] = wallet.line[k]
      BY <1>1, <1>3, UpToIs
    <3>3. UpTo(wallet.line, h) # None
      BY <3>1, <3>2, NoneType
    <3> QED BY <1>2, <2>2, <3>1, <3>2, <3>3
  <2> QED BY <2>1, <2>2
<1>5. PICK content \in SUBSET (Nat \X Nat) : content = {c \in wallet.content : c[1] <= h}
  BY FieldTypes DEF SyncInv
<1>6. PICK w : w = [wallet EXCEPT !.begun = TRUE, !.synced = h, !.line = line, !.content = content]
  OBVIOUS
<1>7. /\ w \in Wallets /\ w.begun /\ w.synced = h /\ w.line = line /\ w.content = content
      /\ w.birthday = wallet.birthday /\ w.kept = wallet.kept
  BY <1>1, <1>3, <1>4, <1>5, <1>6 DEF Wallets
<1>8. w = RolledBack(h, IF pass.target = 0 THEN None ELSE UpTo(pass.prev, h))
  BY <1>2, <1>4, <1>5, <1>6 DEF RolledBack
<1>9. wallet' = w
  BY <1>8 DEF BackTo
<1>10. Position(w).height = h + 1 /\ Position(w).prev = line
  BY <1>7 DEF Position
<1>11. pass' = [pass EXCEPT !.at = "fetch", !.height = Position(w).height, !.prev = Position(w).prev]
  BY <1>8 DEF BackTo, Goes
<1>12. PICK next \in Nat : next = h + 1
  BY <1>3
<1>13. pass' = [pass EXCEPT !.at = "fetch", !.height = next, !.prev = line]
  BY <1>10, <1>11, <1>12
<1>14. pass' \in Passes /\ pass'.at = "fetch" /\ pass'.height = next /\ pass'.prev = line
  BY <1>1, <1>4, <1>13 DEF Passes
<1>15. SyncType'
  BY <1>7, <1>9, <1>14 DEF SyncInv, SyncType
<1>16. WalletWhole'
  <2>1. CASE line = None
    <3>1. h = wallet.birthday - 1
      BY <1>4, <2>1
    <3>2. content = {}
      BY <1>1, <1>2, <1>5, <3>1
    <3> QED BY <1>2, <1>7, <1>9, <2>1, <3>1, <3>2 DEF WalletWhole
  <2>2. CASE line # None
    <3>1. h = pass.target /\ wallet.kept <= h
      BY <1>2, <1>4, <2>2
    <3>2. content = {<<k, wallet.line[k]>> : k \in wallet.birthday..h}
      BY <1>1, <1>2, <1>3, <1>5
    <3>3. \A k \in wallet.birthday..h : line[k] = wallet.line[k]
      BY <1>1, <1>2, <1>3, <1>4, <2>2
    <3>4. content = {<<k, line[k]>> : k \in wallet.birthday..h}
      BY <3>2, <3>3
    <3> QED BY <1>1, <1>2, <1>4, <1>7, <1>9, <2>2, <3>1, <3>4 DEF WalletWhole
  <2> QED BY <2>1, <2>2
<1>17. OnWallet'
  BY <1>2, <1>7, <1>9, <1>12, <1>14 DEF OnWallet
<1>18. Searching' /\ Following' /\ ReadingAlone'
  BY <1>4, <1>14 DEF Searching, Following, ReadingAlone, SyncInv, Seen
<1> QED BY <1>2, <1>4, <1>7, <1>9, <1>15, <1>16, <1>17, <1>18 DEF SyncInv

LEMMA RollBackIs ==
    ASSUME SyncInv, RollBack
    PROVE  /\ pass.at \in {"search", "weigh"} /\ BackTo(IF pass.target # 0 THEN pass.target ELSE wallet.birthday - 1)
           /\ UNCHANGED <<chain, served, batch, rescan, spent>>
           /\ (pass.height - 1) - (IF pass.target # 0 THEN pass.target ELSE wallet.birthday - 1) <= OnWord
<1>1. pass.target \in Nat /\ (pass.target > 0 <=> pass.target # 0)
  BY FieldTypes DEF SyncInv
<1>2. Back = IF pass.target # 0 THEN pass.target ELSE wallet.birthday - 1
  BY <1>1 DEF Back
<1>3. pass.at = "search" /\ BackTo(Back) /\ UNCHANGED <<chain, served, batch, rescan, spent>> /\ ~(Depth > OnWord)
  BY DEF RollBack, Searched, At, node, TooDeep
<1>4. Depth = (pass.height - 1) - Back
  BY DEF Depth
<1>5. pass.height \in Nat /\ Back \in Int /\ OnWord \in Nat
  BY <1>1, <1>2, FieldTypes, Settings DEF SyncInv
<1> HIDE DEF Back, Depth
<1>6. (pass.height - 1) - Back <= OnWord
  BY <1>3, <1>4, <1>5
<1> QED BY <1>2, <1>3, <1>6

LEMMA RollBackDeepIs ==
    ASSUME SyncInv, RollBackDeep
    PROVE  /\ pass.at = "weigh" /\ pass.target # 0 /\ BackTo(pass.target)
           /\ UNCHANGED <<chain, served, batch, rescan, spent>>
BY DEF RollBackDeep, Weighing, At, node, SyncInv, Searching

LEMMA RollBacksKeep ==
    ASSUME SyncInv, RollBack \/ RollBackDeep
    PROVE  SyncInv'
BY RollBackIs, RollBackDeepIs, BackKeeps

\* Blocks that follow the last one scanned are added to the line.
LEMMA ScanIs ==
    ASSUME SyncInv, Scan
    PROVE  /\ wallet.birthday # 0 /\ wallet.birthday <= pass.height /\ pass.height <= Len(pass.got)
           /\ pass.height = Len(wallet.line) + 1 \/ (wallet.line = None /\ pass.height = wallet.birthday)
           /\ pass.prev = wallet.line /\ IsPrefix(wallet.line, pass.got) /\ Seen(pass.got)
           /\ UNCHANGED <<chain, served, batch, rescan, spent>> /\ pass.at = "scan"
<1>1. pass.at = "scan" /\ ~Empty /\ Links /\ UNCHANGED <<chain, served, batch, rescan, spent>>
  BY DEF Scan, At, node
<1>2. /\ wallet.birthday # 0 /\ pass.prev = wallet.line /\ Seen(pass.got)
      /\ pass.height = IF wallet.begun THEN wallet.synced + 1 ELSE wallet.birthday
  BY <1>1 DEF SyncInv, OnWallet, Following
<1>3. /\ wallet.birthday \in Nat /\ pass.height \in Nat /\ Len(pass.got) \in Nat /\ Len(wallet.line) \in Nat
      /\ pass.got \in Chains /\ wallet.synced \in Nat /\ wallet.kept \in Nat
  BY FieldTypes, SomeLength DEF SyncInv
<1>4. pass.height <= Len(pass.got)
  BY <1>1, <1>3 DEF Empty
<1>5. IsPrefix(wallet.line, pass.got)
  BY <1>1, <1>2, <1>3, NonePrefix DEF Links
<1>6. CASE wallet.line = None
  <2>1. pass.height = wallet.birthday
    BY <1>2, <1>3, <1>6 DEF SyncInv, WalletWhole
  <2> QED BY <1>1, <1>2, <1>3, <1>4, <1>5, <1>6, <2>1
<1>7. CASE wallet.line # None
  <2>1. pass.height = Len(wallet.line) + 1 /\ wallet.birthday <= Len(wallet.line)
    BY <1>2, <1>3, <1>7 DEF SyncInv, WalletWhole
  <2> QED BY <1>1, <1>2, <1>3, <1>4, <1>5, <2>1
<1> QED BY <1>6, <1>7

LEMMA ScanKeeps ==
    ASSUME SyncInv, Scan
    PROVE  SyncInv' /\ wallet'.line = pass.got /\ wallet'.birthday = wallet.birthday
<1>1. /\ wallet.birthday # 0 /\ wallet.birthday <= pass.height /\ pass.height <= Len(pass.got)
      /\ pass.height = Len(wallet.line) + 1 \/ (wallet.line = None /\ pass.height = wallet.birthday)
      /\ pass.prev = wallet.line /\ IsPrefix(wallet.line, pass.got) /\ Seen(pass.got)
      /\ UNCHANGED <<chain, served, batch, rescan, spent>> /\ pass.at = "scan"
  BY ScanIs
<1>2. /\ wallet \in Wallets /\ pass \in Passes /\ pass.got \in Chains /\ pass.height \in Nat
      /\ wallet.birthday \in Nat /\ wallet.kept \in Nat \ {0} /\ wallet.line \in Chains
      /\ Len(pass.got) \in Nat /\ Len(wallet.line) \in Nat /\ Keep \in Nat \ {0}
      /\ \A k \in 1..Len(pass.got) : pass.got[k] \in Nat
  <2>1. /\ wallet \in Wallets /\ pass \in Passes /\ pass.got \in Chains /\ pass.height \in Nat
        /\ wallet.birthday \in Nat /\ wallet.kept \in Nat \ {0} /\ wallet.line \in Chains
    BY FieldTypes DEF SyncInv, SyncType
  <2>2. \A k \in 1..Len(pass.got) : pass.got[k] \in Nat
    BY <2>1, LenProperties DEF Chains
  <2> QED BY <2>1, <2>2, SomeLength, Settings
<1> DEFINE from == pass.height
           top == Len(pass.got)
           first == IF wallet.line = None \/ wallet.kept >= from THEN from ELSE wallet.kept
           kept == Most(first, top + 1 - Keep)
           content == {c \in wallet.content : c[1] \notin from..top} \cup {<<k, pass.got[k]>> : k \in from..top}
<1>3. wallet.line # None => wallet.birthday <= wallet.kept /\ wallet.kept <= Len(wallet.line)
  BY DEF SyncInv, WalletWhole
<1>4. kept \in Nat \ {0} /\ wallet.birthday <= kept /\ kept <= top
  <2>1. first \in Nat \ {0} /\ wallet.birthday <= first /\ first <= top
    BY <1>1, <1>2, <1>3
  <2> HIDE DEF first
  <2> QED BY <1>2, <2>1 DEF Most
<1>5. content = {<<k, pass.got[k]>> : k \in wallet.birthday..top}
  <2>1. CASE wallet.line = None
    <3>1. wallet.content = {} /\ from = wallet.birthday
      BY <1>1, <1>2, <2>1, SomeLength DEF SyncInv, WalletWhole
    <3> QED BY <3>1
  <2>2. CASE wallet.line # None
    <3>1. /\ wallet.content = {<<k, wallet.line[k]>> : k \in wallet.birthday..Len(wallet.line)}
          /\ wallet.birthday <= Len(wallet.line)
      BY <1>2, <1>3, <2>2 DEF SyncInv, WalletWhole
    <3>2. from = Len(wallet.line) + 1
      BY <1>1, <2>2
    <3>3. \A k \in wallet.birthday..Len(wallet.line) : wallet.line[k] = pass.got[k]
      BY <1>1, <1>2, PrefixIs
    <3>4. {c \in wallet.content : c[1] \notin from..top}
             = {<<k, pass.got[k]>> : k \in wallet.birthday..Len(wallet.line)}
      BY <1>2, <3>1, <3>2, <3>3
    <3>5. wallet.birthday..top = (wallet.birthday..Len(wallet.line)) \cup (from..top)
      BY <1>1, <1>2, <3>1, <3>2
    <3> QED BY <3>4, <3>5
  <2> QED BY <2>1, <2>2
<1>6. content \in SUBSET (Nat \X Nat)
  BY <1>1, <1>2, <1>5
<1>7. wallet' = [wallet EXCEPT !.begun = TRUE, !.synced = top, !.line = pass.got, !.kept = kept, !.content = content]
  BY DEF Scan, Persisted
<1>8. PICK whole \in SUBSET (Nat \X Nat), low \in Nat \ {0} : whole = content /\ low = kept
  BY <1>4, <1>6
<1>9. wallet' = [wallet EXCEPT !.begun = TRUE, !.synced = top, !.line = pass.got, !.kept = low, !.content = whole]
  BY <1>7, <1>8
<1> HIDE DEF content, kept
<1>10. /\ wallet' \in Wallets /\ wallet'.begun /\ wallet'.synced = top /\ wallet'.line = pass.got
       /\ wallet'.kept = low /\ wallet'.content = whole /\ wallet'.birthday = wallet.birthday
  BY <1>2, <1>9 DEF Wallets
<1>11. PICK next \in Nat, none \in Chains : next = top + 1 /\ none = None
  BY <1>2, NoneType
<1>12. pass' = [pass EXCEPT !.at = "fetch", !.height = next, !.prev = pass.got, !.got = none]
  BY <1>11 DEF Scan, Goes
<1>13. pass' \in Passes /\ pass'.at = "fetch" /\ pass'.height = next /\ pass'.prev = pass.got
  BY <1>2, <1>11, <1>12 DEF Passes
<1>14. SyncType'
  BY <1>1, <1>10, <1>13 DEF SyncInv, SyncType
<1>15. WalletWhole'
  BY <1>1, <1>2, <1>4, <1>5, <1>8, <1>10, SomeLength DEF WalletWhole
<1>16. OnWallet' /\ Searching'
  BY <1>1, <1>10, <1>11, <1>13 DEF OnWallet, Searching
<1>17. Following' /\ ReadingAlone'
  BY <1>1, <1>13 DEF Following, ReadingAlone, SyncInv, Seen
<1> QED BY <1>10, <1>14, <1>15, <1>16, <1>17 DEF SyncInv

LEMMA ResetKeeps ==
    ASSUME SyncInv, ResetForRescan
    PROVE  SyncInv'
<1>1. PICK h \in Nat : wallet' = Fresh(h)
  BY Settings DEF ResetForRescan
<1>2. /\ rescan = "reading" /\ rescan' = "none" /\ UNCHANGED <<chain, served, pass, batch, spent>>
  BY DEF ResetForRescan, node
<1>3. /\ wallet' \in Wallets /\ ~wallet'.begun /\ wallet'.line = None /\ wallet'.content = {}
  BY <1>1, NoneType DEF Fresh, Wallets
<1>4. SyncType' /\ WalletWhole'
  BY <1>2, <1>3 DEF SyncInv, SyncType, WalletWhole
<1> QED BY <1>2, <1>4 DEF SyncInv, ReadingAlone, OnWallet, Searching, Following

LEMMA InitSync == Init => SyncInv
<1> SUFFICES ASSUME Init PROVE SyncInv
  OBVIOUS
<1>1. PICK n \in 1..2 : chain = [h \in 1..n |-> 0]
  BY DEF Init
<1>2. chain \in Chains /\ chain # None
  <2>1. n \in Nat /\ n # 0 /\ chain \in [1..n -> Nat] /\ DOMAIN chain = 1..n
    BY <1>1
  <2>2. chain \in Seq(Nat) /\ Len(chain) = n
    BY <2>1, SeqDef, LenProperties
  <2> QED BY <2>1, <2>2, NoneType DEF Chains
<1>3. PICK h \in Nat : wallet = Fresh(h)
  BY Settings DEF Init
<1>4. /\ wallet \in Wallets /\ ~wallet.begun /\ wallet.line = None /\ wallet.content = {}
  BY <1>3, NoneType DEF Fresh, Wallets
<1>5. pass \in Passes /\ pass.at = "idle"
  BY IdleType DEF Init
<1>6. SyncType
  BY <1>2, <1>4, <1>5, Settings DEF SyncType, Init
<1>7. WalletWhole
  BY <1>4 DEF WalletWhole
<1> QED BY <1>5, <1>6, <1>7 DEF SyncInv, ReadingAlone, OnWallet, Searching, Following

LEMMA StepSync ==
    ASSUME NoPassInRescan
    PROVE  SyncInv /\ [Next]_vars => SyncInv'
<1> SUFFICES ASSUME SyncInv, [Next]_vars PROVE SyncInv'
  OBVIOUS
<1>1. CASE UNCHANGED vars
  BY <1>1, AsideKeeps DEF vars, SyncInv, SyncType
<1>2. CASE OfPass
  BY <1>2, BeginKeeps, AskTipKeeps, EndingsKeep, AskCanonicalKeeps, QuestionKeeps, RollBacksKeep,
     WeighFirstKeeps, WeighKeeps, FetchKeeps, HalveKeeps, ScanKeeps, NotLinkedKeeps DEF OfPass
<1>3. CASE OfRescan
  BY <1>3, HalveKeeps, ResetKeeps DEF OfRescan
<1>4. CASE OfWorld
  BY <1>4, WorldKeeps, HalveKeeps, EndingsKeep, StopKeeps DEF OfWorld
<1> QED BY <1>1, <1>2, <1>3, <1>4 DEF Next

LEMMA SyncSpec ==
    ASSUME NoPassInRescan
    PROVE  Spec => []SyncInv
<1>1. SyncInv /\ [Next]_vars => SyncInv'
  BY StepSync
<1> QED BY <1>1, InitSync, PTL DEF Spec

(***************************************************************************)
(* Results                                                                 *)
(***************************************************************************)

\* Whatever a pass is cut short by, however often the node leaves a chain, and
\* however many scans start again: the ledger holds every block of one chain
\* from where its scan began to its position, once, and no other.
THEOREM HoldsOneChain ==
    ASSUME NoPassInRescan
    PROVE  Spec => []OneChain
<1>1. SyncInv => OneChain
  <2> SUFFICES ASSUME SyncInv, wallet.begun
               PROVE  /\ wallet.content = {<<h, wallet.line[h]>> : h \in wallet.birthday..Len(wallet.line)}
                      /\ wallet.synced \in {Len(wallet.line), wallet.birthday - 1}
    BY DEF OneChain
  <2>1. CASE wallet.line = None
    <3>1. wallet.birthday \in Nat /\ wallet.birthday # 0 /\ Len(wallet.line) = 0
      BY <2>1, FieldTypes, NoneType DEF SyncInv, WalletWhole
    <3> QED BY <2>1, <3>1 DEF SyncInv, WalletWhole
  <2>2. CASE wallet.line # None
    BY <2>2 DEF SyncInv, WalletWhole
  <2> QED BY <2>1, <2>2
<1> QED BY <1>1, SyncSpec, PTL

\* A pass says "done" only of a wallet that has come to the block the node
\* named as it began, on a chain the node had since.
THEOREM DoneOnAServedChain ==
    ASSUME NoPassInRescan
    PROVE  Spec => DoneIsFresh
<1>1. ASSUME SyncInv, [Next]_vars, said # "done", said' = "done"
      PROVE  wallet.synced >= pass.tip /\ \E c \in served : IsPrefix(wallet.line, c)
  <2>1. Finish
    BY <1>1 DEF Next, OfPass, OfRescan, OfWorld, vars, node, App, Quiet, Ends, Begin, AskTip, NodeBehind,
       AskCanonical, Question, RollBack, Strange, WeighFirst, Weigh, RollBackDeep, NotHeavier, Fetch,
       Halve, GiveUpSlow, Scan, NotLinked, NeverLinks, GiveWay, Stopped, ResetForRescan, Mine, Reorg,
       OtherSpeed, Fail, AskRescan, Lock, Unlock
  <2>2. wallet.synced \in Nat /\ pass.tip \in Nat
    BY <1>1, FieldTypes DEF SyncInv
  <2>3. ~(wallet.synced < pass.tip) /\ pass.at \in {"fetch", "scan"}
    BY <1>1, <2>1 DEF Finish, Ends, Over, At
  <2>4. Seen(wallet.line)
    BY <1>1, <2>3 DEF SyncInv, OnWallet, Following
  <2> QED BY <2>2, <2>3, <2>4 DEF Seen
<1> QED BY <1>1, SyncSpec, PTL DEF DoneIsFresh, Spec

\* What the wallet takes to be the chain grows only along what the node has
\* shown it, and shrinks by few blocks on the node's word, by many for a longer
\* chain the node has shown, and to nothing when the person asks for a rescan.
LEMMA StepBelieves ==
    ASSUME NoPassInRescan, SyncInv, [Next]_vars
    PROVE  [View!Next]_<<wallet.line, wallet.birthday, served, rescan = "reading">>
<1>1. CASE UNCHANGED wallet
  BY <1>1 DEF View!Next, View!Serve
<1>2. CASE AskTip
  <2>1. wallet'.line = wallet.line
    BY <1>2, FieldTypes DEF AskTip, Started, SyncInv, SyncType, Wallets
  <2> QED BY <2>1 DEF View!Next, View!Serve
<1>3. ASSUME NEW h, pass.at \in {"search", "weigh"}, BackTo(h),
             h = IF pass.target # 0 THEN pass.target ELSE wallet.birthday - 1,
             UNCHANGED <<chain, served, batch, rescan, spent>>
      PROVE  /\ wallet.line \in Chains /\ wallet.line # None /\ wallet'.line \in Chains
             /\ pass.prev = wallet.line /\ pass.height = Len(wallet.line) + 1
             /\ wallet'.line = IF pass.target = 0 THEN None ELSE UpTo(wallet.line, h)
             /\ pass.target # 0 => wallet'.line # None /\ Len(wallet'.line) = pass.target
             /\ IsStrictPrefix(wallet'.line, wallet.line)
             /\ Len(wallet.line) \in Nat /\ wallet.birthday \in Nat /\ pass.target \in Nat
  <2>1. /\ SyncInv' /\ wallet.begun /\ wallet.line # None
        /\ wallet'.line = IF pass.target = 0 THEN None ELSE UpTo(wallet.line, h)
    BY <1>3, BackKeeps
  <2>2. /\ wallet.line \in Chains /\ Len(wallet.line) \in Nat /\ wallet.birthday \in Nat /\ pass.target \in Nat
    BY FieldTypes, SomeLength DEF SyncInv
  <2>3. /\ pass.prev = wallet.line /\ pass.height = Len(wallet.line) + 1
        /\ pass.target # 0 => pass.target < Len(wallet.line)
    BY <1>3, <2>1 DEF SyncInv, OnWallet, WalletWhole, Searching
  <2>4. CASE pass.target = 0
    BY <2>1, <2>2, <2>3, <2>4, NonePrefix DEF IsStrictPrefix
  <2>5. CASE pass.target # 0
    <3>1. /\ UpTo(wallet.line, h) \in Chains /\ Len(UpTo(wallet.line, h)) = pass.target
          /\ IsPrefix(UpTo(wallet.line, h), wallet.line)
      BY <1>3, <2>2, <2>3, <2>5, UpToIs
    <3>2. UpTo(wallet.line, h) # None /\ UpTo(wallet.line, h) # wallet.line
      BY <2>3, <2>5, <3>1, NoneType, <2>2
    <3> QED BY <2>1, <2>2, <2>3, <2>5, <3>1, <3>2 DEF IsStrictPrefix
  <2> QED BY <2>4, <2>5
<1> DEFINE back == IF pass.target # 0 THEN pass.target ELSE wallet.birthday - 1
<1>4. CASE RollBack
  <2>1. /\ pass.at \in {"search", "weigh"} /\ BackTo(back) /\ UNCHANGED <<chain, served, batch, rescan, spent>>
        /\ (pass.height - 1) - back <= OnWord
    BY <1>4, RollBackIs
  <2>2. /\ IsStrictPrefix(wallet'.line, wallet.line) /\ pass.height = Len(wallet.line) + 1
        /\ Len(wallet.line) \in Nat /\ wallet.birthday \in Nat /\ pass.target \in Nat
        /\ wallet'.line = IF pass.target = 0 THEN None ELSE UpTo(wallet.line, back)
        /\ pass.target # 0 => wallet'.line # None /\ Len(wallet'.line) = pass.target
    BY <1>3, <2>1
  <2>3. back = IF wallet'.line = None THEN wallet.birthday - 1 ELSE Len(wallet'.line)
    BY <2>2
  <2>4. back \in Int /\ OnWord \in Nat
    BY <2>2, Settings
  <2> HIDE DEF back
  <2>5. Len(wallet.line) <= OnWord + back
    BY <2>1, <2>2, <2>4
  <2>6. View!Few
    BY <2>3, <2>5 DEF View!Few, View!NoView, None
  <2>7. View!Drop
    BY <2>2, <2>6 DEF View!Drop, View!IsStrictPrefix, View!IsPrefix, IsStrictPrefix, IsPrefix
  <2> QED BY <2>7 DEF View!Next
<1>5. CASE RollBackDeep
  <2>1. /\ pass.at = "weigh" /\ pass.target # 0 /\ BackTo(pass.target)
        /\ UNCHANGED <<chain, served, batch, rescan, spent>>
    BY <1>5, RollBackDeepIs
  <2>2. /\ wallet.line \in Chains /\ wallet'.line \in Chains /\ IsStrictPrefix(wallet'.line, wallet.line)
        /\ pass.prev = wallet.line /\ wallet'.line # None /\ Len(wallet.line) \in Nat
        /\ wallet'.line = UpTo(wallet.line, pass.target)
    BY <1>3, <2>1
  <2>3. IsPrefix(pass.after, Shown) /\ Len(Shown) > wallet.synced
    BY <1>5 DEF RollBackDeep, Heavier, Grows, IsStrictPrefix
  <2>4. /\ pass.after \in Chains /\ Shown \in Chains /\ IsPrefix(Shown, chain) /\ chain \in Chains /\ chain \in served
    BY ShownIs, FieldTypes DEF SyncInv, SyncType
  <2>5. IsPrefix(wallet'.line, pass.after)
    BY <2>1, <2>2 DEF SyncInv, Searching
  <2> HIDE DEF Shown
  <2>6. IsPrefix(wallet'.line, chain)
    BY <2>2, <2>3, <2>4, <2>5, PrefixThrough
  <2>7. wallet.synced = Len(wallet.line)
    <3>1. wallet.line # None
      BY <1>3, <2>1
    <3> QED BY <3>1 DEF SyncInv, WalletWhole
  <2>8. Len(Shown) <= Len(chain) /\ Len(Shown) \in Nat /\ Len(chain) \in Nat
    BY <2>4, SomeLength, PrefixIs
  <2>9. Len(chain) > Len(wallet.line)
    BY <2>2, <2>3, <2>7, <2>8
  <2>10. View!Outgrown
    BY <2>2, <2>4, <2>6, <2>9 DEF View!Outgrown, View!NoView, None, View!IsPrefix, IsPrefix
  <2>11. View!Drop
    BY <2>2, <2>10 DEF View!Drop, View!IsStrictPrefix, View!IsPrefix, IsStrictPrefix, IsPrefix
  <2> QED BY <2>11 DEF View!Next
<1>6. CASE Scan
  <2>1. /\ IsPrefix(wallet.line, pass.got) /\ Seen(pass.got) /\ wallet'.line = pass.got
        /\ pass.height <= Len(pass.got)
        /\ pass.height = Len(wallet.line) + 1 \/ (wallet.line = None /\ pass.height = wallet.birthday)
        /\ wallet.birthday # 0
    BY <1>6, ScanIs, ScanKeeps
  <2>2. /\ Len(pass.got) \in Nat /\ Len(wallet.line) \in Nat /\ wallet.birthday \in Nat
        /\ wallet.line = None => Len(wallet.line) = 0
    BY FieldTypes, SomeLength DEF SyncInv
  <2>3. Len(pass.got) > Len(wallet.line)
    BY <2>1, <2>2
  <2>4. pass.got # wallet.line
    BY <2>2, <2>3
  <2>5. View!Grow
    BY <2>1, <2>4 DEF View!Grow, View!Known, Seen, View!IsStrictPrefix, View!IsPrefix, IsPrefix
  <2> QED BY <2>5 DEF View!Next
<1>7. CASE ResetForRescan
  <2>1. wallet'.line = None /\ rescan = "reading"
    BY <1>7 DEF ResetForRescan, Fresh
  <2>2. CASE wallet.line = None
    BY <2>1, <2>2 DEF View!Next, View!Serve
  <2>3. CASE wallet.line # None
    <3>1. IsPrefix(None, wallet.line)
      BY FieldTypes, NonePrefix DEF SyncInv
    <3>2. View!Drop
      BY <2>1, <2>3, <3>1 DEF View!Drop, View!NoView, None, View!IsStrictPrefix, View!IsPrefix, IsPrefix
    <3> QED BY <3>2 DEF View!Next
  <2> QED BY <2>2, <2>3
<1>8. ASSUME wallet' # wallet
      PROVE  AskTip \/ RollBack \/ RollBackDeep \/ Scan \/ ResetForRescan
  BY <1>8 DEF Next, OfPass, OfRescan, OfWorld, vars, App, Quiet, Begin, NodeBehind,
       AskCanonical, Question, Strange, WeighFirst, Weigh, NotHeavier, Fetch,
       Halve, GiveUpSlow, NotLinked, NeverLinks, Finish, GiveWay, Stopped, Mine, Reorg,
       OtherSpeed, Fail, AskRescan, Lock, Unlock
<1> QED BY <1>1, <1>2, <1>4, <1>5, <1>6, <1>7, <1>8

\* The engine believes no more of a node than ChainView allows any engine.
THEOREM BelievesWhatItMay ==
    ASSUME NoPassInRescan
    PROVE  Spec => BelievesNoMore
<1>1. Init => View!Init
  BY DEF Init, Fresh, None, View!Init, View!NoView
<1>2. SyncInv /\ [Next]_vars => [View!Next]_<<wallet.line, wallet.birthday, served, rescan = "reading">>
  BY StepBelieves
<1> QED BY <1>1, <1>2, SyncSpec, PTL DEF Spec, BelievesNoMore, View!Spec
==============================================================================

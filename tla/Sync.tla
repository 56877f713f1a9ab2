--------------------------------- MODULE Sync --------------------------------
(***************************************************************************)
(* The sync engine (wallet/sync.ts), the ledger operations a pass is made  *)
(* of (ledger.rs, chain.rs) and the scheduling around it in AppContext: a  *)
(* pass from one answer of the node to the next, while the chain grows and *)
(* reorganises under it, the node is slow or fails, the wallet locks, and  *)
(* the person rescans.                                                     *)
(*                                                                         *)
(* A chain is a sequence of tags: 0 for the first chain, n for the blocks  *)
(* the n-th reorganisation brought.  A block is its height and tag, so its *)
(* hash stands for the chain up to it.  Every block carries the same work. *)
(***************************************************************************)
EXTENDS Naturals, Sequences, SequencesExt, FiniteSets, TLC

CONSTANTS
    BatchSize,    \* batchSize
    Keep,         \* keepBlocks
    OnWord,       \* MAX_ROLLBACK_ON_WORD
    Rounds,       \* answers that do not link which a pass bears
    Earn,         \* batches that arrive before the next ones are larger
    Speeds,       \* how many blocks the node can send in time
    Starts,       \* heights a scan is asked to start from
    Rare,         \* "sync during rescan": the timer begins a pass while a rescan reads its records
    MaxHeight, MaxReorgs, MaxTroubles  \* bounds; a trouble is a failure, a change of speed, a lock or a rescan

ASSUME SyncAssumption ==
    /\ {BatchSize, Keep, OnWord, Earn} \subseteq Nat \ {0} /\ Rounds \in Nat
    /\ Speeds \subseteq Nat /\ Starts \subseteq Nat
    /\ Rare \subseteq {"sync during rescan"}

VARIABLES
    chain,    \* the node's
    served,   \* the chains it has had since the pass began
    speed,
    wallet,   \* what the ledger holds; see Fresh
    pass,     \* the pass under way
    batch,    \* batchFor
    rescan,   \* "none", "stopping" the pass, "reading" what the reset must keep
    locked,
    said,     \* how the last pass ended
    spent     \* bounds: troubles and reorganisations so far

vars == <<chain, served, speed, wallet, pass, batch, rescan, locked, said, spent>>
node == <<chain, served, speed>>

None == <<>>
UpTo(line, h) == SubSeq(line, 1, h)
Least(a, b) == IF a < b THEN a ELSE b
Most(a, b) == IF a < b THEN b ELSE a

(* The ledger *)

\* begun: a position is written.  line: the chain that ends in syncedHash, None without
\* one.  kept: the lowest block record.  content: each height scanned, with its block.
Fresh(height) == [begun |-> FALSE, birthday |-> height, synced |-> 0, line |-> None, kept |-> 1, content |-> {}]

\* start_pass: a start not known yet is looked up by the wallet's date (startHint)
Refused(tip) == wallet.begun /\ wallet.synced > tip
Started(tip) ==
    IF wallet.begun \/ wallet.birthday \in 1..tip THEN {wallet}
    ELSE {[wallet EXCEPT !.birthday = h] : h \in IF wallet.birthday = 0 THEN 1..tip ELSE {tip}}
Position(w) == [height |-> IF w.begun THEN w.synced + 1 ELSE w.birthday, prev |-> w.line]

\* fork_candidates, as the lowest and the highest height
Candidates(below) == IF wallet.line = None THEN 1..0 ELSE wallet.kept..(below - 1)

RolledBack(h, line) ==
    [wallet EXCEPT !.begun = TRUE, !.synced = h, !.line = line,
                   !.content = {c \in @ : c[1] <= h}]

\* persist_scan of the blocks from..Len(line)
Persisted(from, line) ==
    LET first == IF wallet.line = None \/ wallet.kept >= from THEN from ELSE wallet.kept IN
    [wallet EXCEPT !.begun = TRUE, !.synced = Len(line), !.line = line,
                   !.kept = Most(first, Len(line) + 1 - Keep),
                   !.content = {c \in @ : c[1] \notin from..Len(line)} \cup {<<h, line[h]>> : h \in from..Len(line)}]

(* A pass *)

\* tip: the node's newest block as the pass began.  height: the next to fetch, which must follow
\* prev.  low..high and target: the search for the newest block both have.  below, after: a chain weighed.
Idle == [at |-> "idle", tip |-> 0, height |-> 0, prev |-> None, unlinked |-> 0, good |-> 0, stop |-> FALSE,
         low |-> 0, high |-> 0, any |-> FALSE, target |-> 0, after |-> None, got |-> None]

Running == pass.at # "idle"
Asking == pass.at \in {"tip", "canonical", "weigh"} \/ (pass.at = "search" /\ pass.low <= pass.high) \/ (pass.at = "fetch" /\ pass.height <= pass.tip)
Goes(p) == pass' = p
At(step) == pass.at = step
Ends(phase) == pass' = Idle /\ said' = phase
Quiet == UNCHANGED <<wallet, batch, rescan, locked, spent>>

\* isBlockCanonical, by the chain of this moment
CanonicalByHeight(line) == Len(line) <= Len(chain)
Canonical(line) == IsPrefix(line, chain)

Answered(from, to) == UpTo(chain, Least(to, Len(chain)))
TooSlow(from, to) == to + 1 - from > speed

Init ==
    /\ \E n \in 1..2 : chain = [h \in 1..n |-> 0]
    /\ served = {chain}
    /\ speed \in Speeds
    /\ \E h \in Starts : wallet = Fresh(h)
    /\ pass = Idle /\ batch = BatchSize /\ rescan = "none" /\ locked = FALSE /\ said = "none"
    /\ spent = [troubles |-> 0, reorgs |-> 0]

\* syncNow: the timer, the connection's return, an unlock, the end of a rescan.
Begin ==
    /\ ~Running /\ ~locked
    /\ rescan = "none" \/ (rescan = "reading" /\ "sync during rescan" \in Rare)
    /\ Goes([Idle EXCEPT !.at = "tip"]) /\ said' = "none"
    /\ served' = {chain}
    /\ UNCHANGED <<chain, speed>> /\ Quiet

\* tipHeader, then startPass
AskTip ==
    /\ At("tip") /\ ~locked /\ ~Refused(Len(chain))
    /\ \E w \in Started(Len(chain)) : LET p == Position(w) IN
        /\ wallet' = w
        /\ Goes([pass EXCEPT !.at = IF p.prev = None THEN "fetch" ELSE "canonical",
                             !.tip = Len(chain), !.height = p.height, !.prev = p.prev])
    /\ UNCHANGED <<batch, rescan, locked, spent, said>> /\ UNCHANGED node

NodeBehind ==
    /\ At("tip") /\ ~locked /\ Refused(Len(chain))
    /\ Ends("behind")
    /\ UNCHANGED node /\ Quiet

\* rollBackIfForked: the search among the blocks kept below the last one scanned
Search(p) ==
    LET among == Candidates(p.height - 1) IN
    [p EXCEPT !.at = "search", !.any = among # {}, !.target = 0, !.after = None,
              !.low = wallet.kept, !.high = IF among = {} THEN wallet.kept - 1 ELSE p.height - 2]

AskCanonical ==
    /\ At("canonical")
    /\ IF Canonical(pass.prev) THEN Goes([pass EXCEPT !.at = "fetch"])
                               ELSE ~locked /\ Goes(Search(pass))
    /\ UNCHANGED said /\ UNCHANGED node /\ Quiet

Question ==
    /\ At("search") /\ pass.low <= pass.high
    /\ LET mid == (pass.low + pass.high) \div 2 IN
        Goes(IF Canonical(UpTo(pass.prev, mid)) THEN [pass EXCEPT !.target = mid, !.low = mid + 1]
                                                ELSE [pass EXCEPT !.high = mid - 1])
    /\ UNCHANGED said /\ UNCHANGED node /\ Quiet

\* Where the search ends: the height to go back to, and how many blocks that drops
Back == IF pass.target > 0 THEN pass.target ELSE wallet.birthday - 1
Depth == (pass.height - 1) - Back
Searched == At("search") /\ pass.low > pass.high
NothingShared == pass.target = 0 /\ (pass.any \/ Depth > OnWord)
TooDeep == Depth > OnWord

\* The rollback, and the position read again after it
BackTo(h) ==
    LET w == RolledBack(h, IF pass.target = 0 THEN None ELSE UpTo(pass.prev, h))
        p == Position(w) IN
    /\ wallet' = w
    /\ Goes([pass EXCEPT !.at = "fetch", !.height = p.height, !.prev = p.prev])

RollBack ==
    /\ Searched /\ ~locked /\ ~NothingShared /\ ~TooDeep
    /\ BackTo(Back)
    /\ UNCHANGED <<batch, rescan, locked, spent, said>> /\ UNCHANGED node

Strange ==
    /\ Searched /\ ~locked /\ NothingShared
    /\ Ends("strange")
    /\ UNCHANGED node /\ Quiet

WeighFirst ==
    /\ Searched /\ ~locked /\ ~NothingShared /\ TooDeep
    /\ Goes([pass EXCEPT !.at = "weigh", !.after = UpTo(pass.prev, pass.target)])
    /\ UNCHANGED said /\ UNCHANGED node /\ Quiet

\* showsHeavierChain, a batch of it
WeighTo == Least(Len(pass.after) + BatchSize, pass.tip)
Shown == Answered(Len(pass.after) + 1, WeighTo)
Grows == IsStrictPrefix(pass.after, Shown)
HeavierOrEqual == Grows /\ Len(Shown) >= wallet.synced
Heavier == Grows /\ Len(Shown) > wallet.synced
WeighSlow == TooSlow(Len(pass.after) + 1, WeighTo)
Weighing == At("weigh") /\ ~pass.stop /\ Len(pass.after) < pass.tip

Weigh ==
    /\ Weighing /\ ~locked /\ ~WeighSlow /\ Grows /\ ~Heavier
    /\ Goes([pass EXCEPT !.after = Shown])
    /\ UNCHANGED said /\ UNCHANGED node /\ Quiet

RollBackDeep ==
    /\ Weighing /\ ~locked /\ ~WeighSlow /\ Heavier
    /\ BackTo(pass.target)
    /\ UNCHANGED <<batch, rescan, locked, spent, said>> /\ UNCHANGED node

NotHeavier ==
    /\ At("weigh") /\ ~locked
    /\ Weighing => ~WeighSlow /\ ~Grows
    /\ Ends("not heavier")
    /\ UNCHANGED node /\ Quiet

\* getBlocksRaw of the next batch
FetchTo == Least(pass.height + batch - 1, pass.tip)
Scanning == At("fetch") /\ ~pass.stop /\ pass.height <= pass.tip

Grown(p) ==
    IF batch < BatchSize /\ p.good + 1 >= Earn THEN Least(BatchSize, batch * 2) ELSE batch

Fetch ==
    /\ Scanning /\ ~TooSlow(pass.height, FetchTo)
    /\ batch' = Grown(pass)
    /\ Goes([pass EXCEPT !.at = "scan", !.got = Answered(pass.height, FetchTo),
                         !.good = IF batch' # batch THEN 0 ELSE IF batch < BatchSize THEN @ + 1 ELSE @])
    /\ UNCHANGED <<wallet, rescan, locked, spent, said>> /\ UNCHANGED node

HalveToTwo ==
    /\ Scanning /\ TooSlow(pass.height, FetchTo) /\ batch > 1
    /\ batch' = Most(2, batch \div 2)
    /\ UNCHANGED <<wallet, pass, rescan, locked, spent, said>> /\ UNCHANGED node

Halve ==
    /\ Scanning /\ TooSlow(pass.height, FetchTo) /\ batch > 1
    /\ batch' = batch \div 2
    /\ UNCHANGED <<wallet, pass, rescan, locked, spent, said>> /\ UNCHANGED node

TooSlowToSync ==
    \/ Scanning /\ TooSlow(pass.height, FetchTo) /\ batch = 1
    \/ Weighing /\ WeighSlow
GiveUpSlow ==
    /\ TooSlowToSync
    /\ Ends("slow")
    /\ UNCHANGED node /\ Quiet

\* scanBlocks: the answer is held against prevHash
Links == pass.prev = None \/ IsPrefix(pass.prev, pass.got)
Empty == Len(pass.got) < pass.height

Scan ==
    /\ At("scan") /\ ~locked /\ ~Empty /\ Links
    /\ wallet' = Persisted(pass.height, pass.got)
    /\ Goes([pass EXCEPT !.at = "fetch", !.height = Len(pass.got) + 1, !.prev = pass.got, !.got = None])
    /\ UNCHANGED <<batch, rescan, locked, spent, said>> /\ UNCHANGED node

NotLinked ==
    /\ At("scan") /\ ~locked /\ ~Empty /\ ~Links /\ pass.unlinked < Rounds
    /\ Goes(Search([pass EXCEPT !.unlinked = @ + 1, !.got = None]))
    /\ UNCHANGED said /\ UNCHANGED node /\ Quiet

NeverLinks ==
    /\ At("scan") /\ ~locked /\ ~Empty /\ ~Links /\ pass.unlinked >= Rounds
    /\ Ends("never links")
    /\ UNCHANGED node /\ Quiet

\* Past the loop: the position is read again
Over == ~pass.stop /\ ((At("fetch") /\ pass.height > pass.tip) \/ (At("scan") /\ Empty))
Finish ==
    /\ Over /\ ~locked
    /\ Ends(IF wallet.synced < pass.tip THEN "short" ELSE "done")
    /\ UNCHANGED node /\ Quiet

\* A stop cuts the request in flight, and ends the loop before the next batch; work of the
\* ledger's goes on.  A lock rejects that too.  Either way nothing more is written.
GiveWay ==
    /\ Running
    /\ At("cut") \/ (At("fetch") /\ pass.stop) \/ (At("scan") /\ pass.stop /\ Empty) \/ locked
    /\ Ends("stopped")
    /\ UNCHANGED node /\ Quiet

(* The node *)

Trouble(kind, max) == spent[kind] < max /\ spent' = [spent EXCEPT ![kind] = @ + 1]
App == UNCHANGED <<wallet, batch, rescan, locked>>

Mine ==
    /\ Len(chain) < MaxHeight
    /\ chain' = Append(chain, Last(chain))
    /\ served' = (served \ {chain}) \cup {chain'}
    /\ UNCHANGED <<speed, pass, said, spent>> /\ App

\* Any number of the newest blocks give way to others, more or fewer.
Reorg ==
    /\ Trouble("reorgs", MaxReorgs)
    /\ \E shared \in 1..(Len(chain) - 1), n \in 2..MaxHeight :
        /\ n > shared
        /\ chain' = [h \in 1..n |-> IF h <= shared THEN chain[h] ELSE spent.reorgs + 1]
    /\ served' = IF Running THEN served \cup {chain'} ELSE {chain'}
    /\ UNCHANGED <<speed, pass, said>> /\ App

OtherSpeed ==
    /\ Trouble("troubles", MaxTroubles)
    /\ speed' \in Speeds \ {speed}
    /\ UNCHANGED <<chain, served, pass, said>> /\ App

\* A request fails: the network, or the node's own error
Fail ==
    /\ Asking /\ Trouble("troubles", MaxTroubles)
    /\ Ends("failed")
    /\ UNCHANGED node /\ App

(* The person and the lock *)

StopPass ==
    pass' = IF Asking THEN [pass EXCEPT !.at = "cut"] ELSE IF Running THEN [pass EXCEPT !.stop = TRUE] ELSE pass

\* stopSync, before the records are read
AskRescan ==
    /\ rescan = "none" /\ ~locked /\ Trouble("troubles", MaxTroubles)
    /\ StopPass /\ rescan' = "stopping"
    /\ UNCHANGED <<wallet, batch, locked, said>> /\ UNCHANGED node

StoppedAtOnce ==
    /\ rescan = "stopping"
    /\ rescan' = IF locked THEN "none" ELSE "reading"
    /\ UNCHANGED <<wallet, pass, batch, locked, spent, said>> /\ UNCHANGED node

Stopped ==
    /\ rescan = "stopping" /\ ~Running
    /\ rescan' = IF locked THEN "none" ELSE "reading"
    /\ UNCHANGED <<wallet, pass, batch, locked, spent, said>> /\ UNCHANGED node

ResetForRescan ==
    /\ rescan = "reading"
    /\ \E h \in Starts \ {0} : wallet' = Fresh(h)
    /\ rescan' = "none"
    /\ UNCHANGED <<pass, batch, locked, spent, said>> /\ UNCHANGED node

\* A rescan whose records are locked away is not done.
Lock ==
    /\ ~locked /\ Trouble("troubles", MaxTroubles)
    /\ locked' = TRUE /\ StopPass
    /\ rescan' = IF rescan = "reading" THEN "none" ELSE rescan
    /\ UNCHANGED <<wallet, batch, said>> /\ UNCHANGED node

Unlock ==
    /\ locked /\ ~Running
    /\ locked' = FALSE
    /\ UNCHANGED <<wallet, pass, batch, rescan, spent, said>> /\ UNCHANGED node

OfPass ==
    \/ Begin \/ AskTip \/ NodeBehind \/ AskCanonical \/ Question
    \/ RollBack \/ Strange \/ WeighFirst \/ Weigh \/ RollBackDeep \/ NotHeavier
    \/ Fetch \/ Halve \/ GiveUpSlow \/ Scan \/ NotLinked \/ NeverLinks \/ Finish \/ GiveWay
OfRescan == Stopped \/ ResetForRescan
OfWorld == Mine \/ Reorg \/ OtherSpeed \/ Fail \/ AskRescan \/ Lock \/ Unlock

Next == OfPass \/ OfRescan \/ OfWorld

\* The timer comes round, and a pass and a rescan go on to their ends.
Spec == Init /\ [][Next]_vars /\ WF_vars(OfPass) /\ WF_vars(OfRescan)

(* Properties *)

(* The coins, spends and history of a wallet are those of one chain, every  *)
(* block of it from the start to the position once and none of a chain it   *)
(* left: however passes are cut short, chains change under them and scans   *)
(* start again, no height is skipped and none left behind (pass, rollBack,  *)
(* persist_scan, resetForRescan).                                           *)
OneChain ==
    wallet.begun => wallet.content = {<<h, wallet.line[h]>> : h \in wallet.birthday..Len(wallet.line)}
                    /\ wallet.synced \in {Len(wallet.line), wallet.birthday - 1}

(* "Done" is said only of a wallet that scanned up to the block the node    *)
(* named, on a chain the node had at some moment of this very pass: never   *)
(* of blocks it had left before (pass, rollBackIfForked).                   *)
DoneIsFresh ==
    [][said # "done" /\ said' = "done" =>
        /\ wallet.synced >= pass.tip
        /\ \E c \in served : IsPrefix(wallet.line, c)]_vars

(* The engine never believes more of a node than ChainView allows.          *)
View == INSTANCE ChainView WITH view <- wallet.line, first <- wallet.birthday, wanted <- rescan = "reading"
BelievesNoMore == View!Spec

\* What the code leaves to the person, or to the node: see refusals in pass and rollBackIfForked.
Shared == {h \in Candidates(wallet.synced) : Canonical(UpTo(wallet.line, h))}
Forked == wallet.begun /\ ~Canonical(wallet.line)
LeftToOthers ==
    \/ locked \/ speed = 0
    \/ wallet.begun /\ wallet.synced > Len(chain)
    \/ Forked /\ Shared = {} /\ (Candidates(wallet.synced) # {} \/ wallet.synced - (wallet.birthday - 1) > OnWord)
    \/ Forked /\ \A h \in Shared : wallet.synced - h > OnWord /\ (Len(chain) <= wallet.synced \/ speed < BatchSize)

(* A wallet left to itself reaches the node's newest block, by however many *)
(* passes: after reorganisations, failures, locks and rescans, and with a   *)
(* node that can send only a block at a time (batchFor, unlinked).          *)
Current == wallet.line = chain \/ (wallet.begun /\ wallet.line = None /\ wallet.synced = Len(chain))
CatchesUp == <>[](Current \/ LeftToOthers)
==============================================================================

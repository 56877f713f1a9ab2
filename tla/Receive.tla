------------------------------- MODULE Receive -------------------------------
(***************************************************************************)
(* Handing addresses out (screens/Receive.tsx, addressLabels.ts), and the  *)
(* scan that looks for what is paid to them (account.rs, scan.rs).  The    *)
(* screen works from its own copy of the wallet's private notes; what it   *)
(* asks of the worker is answered in order, and late when a scan runs.     *)
(***************************************************************************)
EXTENDS Naturals, SequencesExt, TLC

CONSTANTS
    Kinds,     \* address types; the first ones used are FirstKind's
    FirstKind,
    Lookahead, \* KEY_LOOKAHEAD
    Uncommon,  \* see UncommonThings
    MaxBlocks, \* bound: payments in the chain
    MaxOpens,  \* bound: times the screen opens
    MaxResets, \* bound: rescans
    MaxOut,    \* bound: addresses handed out
    MaxNames,  \* bound: names given or removed
    MaxCalls   \* bound: calls waiting when the person acts

\* "acts early": the person acts, or opens the screen again, while notes are still being read or
\* kept.  "request while deriving": a request is handed on before the address chosen is there.
UncommonThings == {"acts early", "request while deriving"}
ASSUME ReceiveAssumption ==
    /\ FirstKind \in Kinds /\ Uncommon \subseteq UncommonThings
    /\ {Lookahead, MaxBlocks, MaxOpens, MaxResets, MaxOut, MaxNames, MaxCalls} \subseteq Nat

VARIABLES
    chain,    \* block by block, the address paid
    scan,     \* blocks scanned, the key counters, and the blocks with a payment found
    notes,    \* on disk: addresses given out, addresses named
    calls,    \* of the worker, waiting
    open,     \* the screen is
    given, labels, \* the screen's copies
    kind, index,
    address, code, \* derived for the screen; in the request's code
    tab,
    out, again, strays, \* addresses out of hand; offered though they were; handed on for another
    opens, resets, names \* bounds

page == <<open, given, labels, kind, index, address, code, tab>>
history == <<out, again, strays>>
bounds == <<opens, resets, names>>
receiveVars == <<chain, scan, notes, calls, page, history, bounds>>

NoAddress == <<"none", 0>>
Fresh == [k \in Kinds |-> IF k = FirstKind THEN 1 ELSE 0]
NoIndex == [k \in Kinds |-> 0]
Scanned == [blocks |-> 0, used |-> Fresh, found |-> {}]
Shown == <<kind, index[kind]>>

ReceiveInit ==
    /\ chain = <<>> /\ scan = Scanned
    /\ notes = [given |-> {}, labels |-> {}] /\ calls = <<>>
    /\ open = FALSE /\ given = {} /\ labels = {}
    /\ kind = FirstKind /\ index = NoIndex /\ address = NoAddress /\ code = NoAddress /\ tab = "address"
    /\ out = {} /\ again = {} /\ strays = {}
    /\ opens = 0 /\ resets = 0 /\ names = 0

(* Calls of the worker *)

\* An answer is the screen's own until the screen is left, or no longer shows what it is for:
\* the worker still gives it, and it sets nothing.
Reads == << [op |-> "labels", mine |-> TRUE], [op |-> "given", mine |-> TRUE] >>
Derive(k, i) == [op |-> "address", of |-> <<k, i>>, mine |-> TRUE]
DerivingToo(cs, k, i) == Append(cs, Derive(k, i))

Ignored(cs, ops) == [n \in DOMAIN cs |-> IF cs[n].op \in ops THEN [cs[n] EXCEPT !.mine = FALSE] ELSE cs[n]]
Deriving(cs, k, i) == Append(Ignored(cs, {"address"}), Derive(k, i))

Settled == \A n \in DOMAIN calls : calls[n].op = "address" \/ (calls[n].op \in {"labels", "given"} /\ ~calls[n].mine)
Acts ==
    /\ open /\ Len(calls) < MaxCalls
    /\ Settled \/ "acts early" \in Uncommon

\* markGiven: the note is read, and written with the address added.
GiveOut(cs, a) == IF a \in given THEN cs ELSE Append(cs, [op |-> "read to give", of |-> a, mine |-> TRUE])

(* What the screen is asked *)

Open ==
    /\ ~open /\ opens < MaxOpens /\ (Settled \/ "acts early" \in Uncommon)
    /\ open' = TRUE /\ opens' = opens + 1
    /\ given' = {} /\ labels' = {} /\ kind' = FirstKind /\ index' = NoIndex
    /\ address' = NoAddress /\ code' = NoAddress /\ tab' = "address"
    /\ calls' = Deriving(calls \o Reads, FirstKind, 0)
    /\ UNCHANGED <<chain, scan, notes, history, resets, names>>

Leave ==
    /\ open /\ open' = FALSE
    /\ given' = {} /\ labels' = {} /\ kind' = FirstKind /\ index' = NoIndex
    /\ address' = NoAddress /\ code' = NoAddress /\ tab' = "address"
    /\ calls' = Ignored(calls, {calls[n].op : n \in DOMAIN calls})
    /\ UNCHANGED <<chain, scan, notes, history, bounds>>

Payments == {chain[b] : b \in scan.found}
Used(k) == scan.used[k]
PastFurthest(k) == Used(k) + Lookahead + 1

Furthest(k) == Used(k) + Lookahead
Taken == given \cup labels \cup Payments
InPicker(k) == {0, index[k]} \cup {a[2] : a \in {t \in Taken : t[1] = k}}
Latest(S) == CHOOSE i \in S : \A j \in S : j <= i
NextUnpaid(k) == Latest({Used(k), Latest({0, index[k]} \cup {a[2] : a \in {t \in labels \cup Payments : t[1] = k}}) + 1})

NextNew(k) == Latest({Used(k), Latest(InPicker(k)) + 1})

\* "New address": given out as it is shown.
NextUnused ==
    /\ Acts /\ Cardinality(out) < MaxOut
    /\ LET i == NextNew(kind) IN
        /\ i <= Furthest(kind)
        /\ index' = [index EXCEPT ![kind] = i]
        /\ given' = given \cup {<<kind, i>>}
        /\ calls' = Deriving(GiveOut(calls, <<kind, i>>), kind, i)
        /\ out' = out \cup {<<kind, i>>} /\ again' = again \cup ({<<kind, i>>} \cap out)
    /\ address' = NoAddress
    /\ UNCHANGED <<chain, scan, notes, open, labels, kind, code, tab, strays, bounds>>

\* However it was chosen, an address past the furthest gives way to the furthest.
Within(k, i) == IF i > Furthest(k) THEN Furthest(k) ELSE i

ShowIndex ==
    /\ Acts
    /\ \E i \in InPicker(kind) \ {index[kind]} :
        index' = [index EXCEPT ![kind] = Within(kind, i)] /\ calls' = Deriving(calls, kind, Within(kind, i))
    /\ address' = NoAddress
    /\ UNCHANGED <<chain, scan, notes, open, given, labels, kind, code, tab, history, bounds>>

ChooseKind ==
    /\ Acts
    /\ \E k \in Kinds \ {kind} :
        /\ kind' = k /\ index' = [index EXCEPT ![k] = Within(k, @)]
        /\ calls' = Deriving(calls, k, Within(k, index[k]))
    /\ address' = NoAddress
    /\ UNCHANGED <<chain, scan, notes, open, given, labels, code, tab, history, bounds>>

\* Copy, Share, the box copied by hand, and the code shown large.
HandsOn(text) ==
    /\ Cardinality(out \cup {text}) <= MaxOut
    /\ given' = given \cup {Shown}
    /\ calls' = GiveOut(calls, Shown)
    /\ strays' = strays \cup ({text} \ {Shown})
    /\ out' = out \cup {text}
    /\ UNCHANGED <<chain, scan, notes, open, labels, kind, index, address, code, tab, again, bounds>>
HandAddress == Acts /\ tab = "address" /\ address # NoAddress /\ HandsOn(address)
HandRequest ==
    /\ Acts /\ tab = "request"
    /\ address = NoAddress => "request while deriving" \in Uncommon
    /\ HandsOn(address) \/ (code # NoAddress /\ HandsOn(code))

\* The request's code is drawn from the address, and stays while there is none.
ChooseTab ==
    /\ Acts
    /\ tab' = (IF tab = "address" THEN "request" ELSE "address")
    /\ code' = IF tab' = "request" /\ address # NoAddress THEN address ELSE code
    /\ UNCHANGED <<chain, scan, notes, calls, open, given, labels, kind, index, address, history, bounds>>

NameAddress ==
    /\ Acts /\ names < MaxNames /\ names' = names + 1
    /\ \E i \in InPicker(kind), named \in BOOLEAN :
        /\ IF named THEN i > 0 ELSE <<kind, i>> \in labels
        /\ calls' = Append(calls, [op |-> "read to name", of |-> <<kind, i>>, named |-> named, mine |-> TRUE])
    /\ UNCHANGED <<chain, scan, notes, page, history, opens, resets>>

(* The worker answers *)

With(set, c) == IF c.named THEN set \cup {c.of} ELSE set \ {c.of}
Sets(c, g, l) == IF c.mine THEN given' = g /\ labels' = l ELSE UNCHANGED <<given, labels>>
Answer ==
    /\ calls # <<>>
    /\ LET c == Head(calls)  rest == Tail(calls) IN
        \/ c.op = "labels" /\ calls' = rest /\ Sets(c, given, notes.labels) /\ UNCHANGED notes
        \/ c.op = "given" /\ calls' = rest /\ Sets(c, notes.given, labels) /\ UNCHANGED notes
        \/ /\ c.op = "read to give" /\ c.of \in notes.given
           /\ calls' = rest /\ Sets(c, notes.given, labels) /\ UNCHANGED notes
        \/ /\ c.op = "read to give" /\ c.of \notin notes.given
           /\ calls' = Append(rest, [op |-> "give", set |-> notes.given \cup {c.of}, mine |-> c.mine])
           /\ UNCHANGED <<notes, given, labels>>
        \/ c.op = "give" /\ calls' = rest /\ Sets(c, c.set, labels) /\ notes' = [notes EXCEPT !.given = c.set]
        \/ /\ c.op = "read to name"
           /\ calls' = Append(rest, [op |-> "name", set |-> With(notes.labels, c), mine |-> c.mine])
           /\ UNCHANGED <<notes, given, labels>>
        \/ c.op = "name" /\ calls' = rest /\ Sets(c, given, c.set) /\ notes' = [notes EXCEPT !.labels = c.set]
    /\ UNCHANGED <<chain, scan, open, kind, index, address, code, tab, history, bounds>>

\* The request's code is drawn anew with it.
AddressDerived ==
    /\ calls # <<>> /\ Head(calls).op = "address" /\ calls' = Tail(calls)
    /\ \/ Head(calls).mine /\ address' = Head(calls).of /\ code' = (IF tab = "request" THEN address' ELSE code)
       \/ UNCHANGED <<address, code>>
    /\ UNCHANGED <<chain, scan, notes, open, given, labels, kind, index, tab, history, bounds>>

(* The chain and its scan *)

Pay ==
    /\ Len(chain) < MaxBlocks
    /\ \E a \in out : chain' = Append(chain, a)
    /\ UNCHANGED <<scan, notes, calls, page, history, bounds>>

\* Counters that moved are a new account record: the screen reads its notes and its address again,
\* and an address past the furthest gives way to the furthest.
Refreshed(used) ==
    IF open /\ used # scan.used
    THEN LET last == used[kind] + Lookahead  i == IF index[kind] > last THEN last ELSE index[kind] IN
         /\ index' = [index EXCEPT ![kind] = i]
         /\ address' = NoAddress /\ calls' = Deriving(calls \o Reads, kind, i)
    ELSE UNCHANGED <<index, address, calls>>

InWindow(a) == a[2] <= scan.used[a[1]] + Lookahead
ScanBlock ==
    /\ scan.blocks < Len(chain)
    /\ LET a == chain[scan.blocks + 1]
           used == [scan.used EXCEPT ![a[1]] = Latest({@, a[2] + 1})] IN
        IF InWindow(a)
        THEN /\ scan' = [blocks |-> scan.blocks + 1, used |-> used, found |-> scan.found \cup {scan.blocks + 1}]
             /\ Refreshed(used)
        ELSE scan' = [scan EXCEPT !.blocks = @ + 1] /\ UNCHANGED <<index, address, calls>>
    /\ UNCHANGED <<chain, notes, open, given, labels, kind, code, tab, history, bounds>>

\* A rescan forgets what scanning found, the counters too.
Reset ==
    /\ scan.blocks > 0 /\ resets < MaxResets
    /\ resets' = resets + 1
    /\ scan' = Scanned /\ Refreshed(Fresh)
    /\ UNCHANGED <<chain, notes, open, given, labels, kind, code, tab, history, opens, names>>

ReceiveNext ==
    \/ Open \/ Leave \/ NextUnused \/ ShowIndex \/ ChooseKind \/ HandAddress \/ HandRequest \/ ChooseTab \/ NameAddress
    \/ Answer \/ AddressDerived
    \/ Pay \/ ScanBlock \/ Reset

ReceiveSpec == ReceiveInit /\ [][ReceiveNext]_receiveVars

(* Properties *)

(* New address never offers an address someone may already have, named or   *)
(* not, paid or not, in this visit or a later one, during a rescan too      *)
(* (Receive.nextUnused, addressLabels.markGiven).                           *)
NeverOfferedAgain == again = {}

(* Once the chain is scanned, every payment to an address handed out has    *)
(* been found, after a rescan from nothing too: no address is handed out    *)
(* that the scan would not have looked for by the time it is paid           *)
(* (Receive.furthest, keys_up_to, mark_used).                               *)
EveryPaymentFound == scan.blocks = Len(chain) => scan.found = 1..Len(chain)

(* What is copied, shared or shown large is the address chosen, of the type *)
(* chosen, whichever was chosen before and is still on its way.             *)
HandsOnChosen == strays = {}
==============================================================================

------------------------------- MODULE Session --------------------------------
(***************************************************************************)
(* Opening and locking wallets: app/accounts.ts, the part of AppContext    *)
(* that says which wallet is on screen, and what the wallet worker and its *)
(* EngineHost hold of an open wallet, in the browser.                      *)
(*                                                                         *)
(* A call of accounts.ts is a list of awaits (Awaits), and a step of this  *)
(* module runs a call from one await to the next.  Between two of them     *)
(* anything may happen: another call, a lock, the page hidden.  A lock     *)
(* ends the worker, and every request the worker had is rejected.          *)
(***************************************************************************)
EXTENDS Naturals, Sequences, FiniteSets, TLC

CONSTANTS
    Wallet, NoWallet,
    Rare,      \* which uncommon things happen; see RareThings
    MaxLocks,  \* bound: locks
    MaxSalts   \* bound: envelopes made

\* "slow keep": a lock comes while an unlock writes the phrase's wrapping.
\* "put fails": the database refuses a new record.  "two openings": one begins
\* while one that a lock overtook still runs.
RareThings == {"slow keep", "put fails", "two openings"}

ASSUME SessionAssumption ==
    NoWallet \notin Wallet /\ Rare \subseteq RareThings /\ MaxLocks \in Nat /\ MaxSalts \in Nat

VARIABLES
    keys,      \* the worker: the wallet whose account and content key it has
    logs,      \* the worker: the wallets whose log is open
    unlocked,  \* unlockedId
    epoch,
    pending,   \* lockPending
    deferred,  \* lockDeferred: a send runs
    holding,   \* idleHolds: a long scan runs
    moved,     \* EngineParts: wallets whose parts the engine holds
    unopened,  \* EngineParts: wallets whose log would not open
    bad,       \* wallets whose log really does not open
    hidden,    \* the page is
    shown,     \* the account on screen
    next,      \* a change of the account on screen that is on its way
    calls,     \* the calls under way, by slot
    records,   \* the accounts in the database
    salts,     \* envelopes made so far
    told       \* per wallet, the password the person was told is the one

worker == <<keys, logs>>
lockState == <<unlocked, epoch, pending, holding, moved, unopened>>
disk == <<bad, records, salts, told>>
vars == <<worker, lockState, deferred, hidden, shown, next, calls, disk>>

(* Calls *)

Awaits ==
    [unlock     |-> <<"read", "open", "store", "reopen", "drop", "keep">>,
     reset      |-> <<"read", "seal", "patch", "open", "store", "reopen", "drop">>,
     create     |-> <<"seal", "open", "put", "store", "reopen", "drop">>,
     import     |-> <<"seal", "open", "put", "store", "reopen", "drop", "commit">>,
     aside      |-> <<"setAside", "store", "reopen", "drop">>,
     change     |-> <<"read", "seal", "patch">>,
     strengthen |-> <<"read", "seal", "patch">>]

\* A person does one thing at a time; strengthen is begun by the app.
Openings == {"person"} \cup (IF "two openings" \in Rare THEN {"again"} ELSE {})
Slot == Openings \cup {"strengthen"}
NoRecord == [salt |-> 0, password |-> 0, weak |-> FALSE, wrapped |-> FALSE]
NoCall == [kind |-> "none", w |-> NoWallet, epoch |-> 0, await |-> 0, salt |-> 0, read |-> NoRecord, dead |-> FALSE, made |-> FALSE]
Call(kind, w) == [NoCall EXCEPT !.kind = kind, !.w = w, !.epoch = epoch, !.await = 1]
Makes(c) == c.kind \in {"create", "import"}
At(c) == IF c.kind = "none" THEN "none" ELSE Awaits[c.kind][c.await]
InWorker == {"seal", "open", "store", "reopen", "commit", "setAside"}
Done(s) == calls' = [calls EXCEPT ![s] = NoCall]
GoesOn(s, c) == calls' = [calls EXCEPT ![s] = [c EXCEPT !.await = @ + 1]]
Skips(s, c, await) == calls' = [calls EXCEPT ![s] = [c EXCEPT !.await = CHOOSE i \in DOMAIN Awaits[c.kind] : Awaits[c.kind][i] = await]]

Record(wrapped) == [salt |-> 1, password |-> 0, weak |-> TRUE, wrapped |-> wrapped]
There(w) == records[w] # NoRecord

(* EngineParts: what the app knows of the logs, until a lock. *)
Where(w) == w \in moved
Opened(w) == moved' = moved \cup {w}
Unopenable(w) == unopened' = unopened \cup {w}
Recovered(w) == unopened' = unopened \ {w}
ForgetAll == moved' = {} /\ unopened' = {}

Settled == [to |-> NoWallet, gone |-> NoWallet, due |-> FALSE]

Init ==
    /\ keys = NoWallet /\ logs = {} /\ unlocked = NoWallet /\ epoch = 0
    /\ pending = FALSE /\ deferred = FALSE /\ holding = FALSE
    /\ moved = {} /\ unopened = {}
    /\ \E w \in Wallet, wrapped \in BOOLEAN : \E damaged \in SUBSET {w} :
        /\ shown = w /\ bad = damaged
        /\ records = [v \in Wallet |-> IF v = w THEN Record(wrapped) ELSE NoRecord]
    /\ hidden \in BOOLEAN /\ next = Settled
    /\ calls = [s \in Slot |-> NoCall]
    /\ salts = 1 /\ told = [w \in Wallet |-> 0]

(* The worker *)

\* Account replaced and keep: every open log goes with the old key.
Keep(w) == keys' = w /\ logs' = {}

\* terminate: the worker goes, and whatever it was asked is rejected.
Rejected(c) == IF At(c) \in InWorker THEN [c EXCEPT !.dead = TRUE] ELSE c
Forget(s) ==
    /\ keys' = NoWallet /\ logs' = {}
    /\ calls' = [t \in Slot |-> IF t = s THEN NoCall ELSE Rejected(calls[t])]

(* The lock *)

Lock ==
    /\ epoch < MaxLocks /\ epoch' = epoch + 1
    /\ "slow keep" \in Rare \/ \A s \in Slot : At(calls[s]) # "keep"
    /\ unlocked' = NoWallet /\ pending' = FALSE /\ holding' = FALSE
    /\ ForgetAll
    /\ keys' = NoWallet /\ logs' = {}
    /\ calls' = [s \in Slot |-> Rejected(calls[s])]

RequestLock ==
    \/ ~deferred /\ Lock
    \/ deferred /\ pending' = TRUE
       /\ UNCHANGED <<worker, calls, unlocked, epoch, holding, moved, unopened>>

Elsewhere == UNCHANGED <<hidden, shown, next, disk>>
Open == unlocked # NoWallet /\ unlocked = shown
NothingAsked == ~next.due /\ \A s \in Openings : calls[s] = NoCall \/ calls[s].epoch # epoch

\* "Lock wallet", which no send leaves enabled; the shortcut; the idle lock.
LockWallet == Open /\ ~deferred /\ Lock /\ UNCHANGED deferred /\ Elsewhere
LockWhenFree == Open /\ RequestLock /\ UNCHANGED deferred /\ Elsewhere
LockIfIdle == unlocked # NoWallet /\ ~holding /\ RequestLock /\ UNCHANGED deferred /\ Elsewhere

\* touch: whatever the person does, and what else calls it.
Touched == pending' = (pending /\ unlocked = NoWallet)
Touch == ~hidden /\ Touched /\ UNCHANGED <<worker, calls, unlocked, epoch, holding, moved, unopened, deferred>> /\ Elsewhere

\* holdIdleLock: a long scan begins; it ends, and the last hold let go is a
\* touch.  Bound: the scan begins while a send runs.
HoldIdleLock ==
    /\ Open /\ (holding \/ deferred) /\ holding' = ~holding
    /\ IF holding THEN Touched ELSE UNCHANGED pending
    /\ UNCHANGED <<worker, calls, unlocked, epoch, moved, unopened, deferred>> /\ Elsewhere

\* setLockDeferred, as a send begins and as it ends.  Setup has the whole
\* screen, and Send is not reached while it runs.
BeginSend == ~hidden /\ Open /\ NothingAsked /\ ~deferred /\ deferred' = TRUE /\ UNCHANGED <<worker, lockState, calls>> /\ Elsewhere
EndSend ==
    /\ deferred /\ deferred' = FALSE /\ Elsewhere
    /\ \/ pending /\ Lock
       \/ ~pending /\ UNCHANGED <<worker, lockState, calls>>

\* visibilitychange, with the grace at its default, none.
Hide == ~hidden /\ hidden' = TRUE /\ RequestLock /\ UNCHANGED <<deferred, shown, next, disk>>
Show ==
    /\ hidden /\ hidden' = FALSE
    /\ \/ unlocked # NoWallet /\ RequestLock
       \/ UNCHANGED <<worker, lockState, calls>>
    /\ UNCHANGED <<deferred, shown, next, disk>>

(* The wallet on screen *)

\* switchAccount, switchNetwork, removeAccount: the lock first, and only
\* after more awaits the account on screen.
Change(to, gone) ==
    /\ ~deferred /\ Lock /\ next' = [to |-> to, gone |-> gone, due |-> TRUE]
    /\ UNCHANGED <<deferred, hidden, shown, disk>>
SwitchAccount == ~hidden /\ \E w \in Wallet : There(w) /\ w # shown /\ Change(w, NoWallet)
SwitchNetwork == ~hidden /\ Change(NoWallet, NoWallet)
RemoveAccount ==
    /\ ~hidden /\ Open /\ There(shown)
    /\ \E to \in Wallet \cup {NoWallet} :
        /\ IF to = NoWallet THEN \A w \in Wallet \ {shown} : ~There(w) ELSE There(to) /\ to # shown
        /\ Change(to, shown)
SetAccount ==
    /\ next.due /\ shown' = next.to /\ next' = Settled
    /\ records' = [w \in Wallet |-> IF w = next.gone THEN NoRecord ELSE records[w]]
    /\ told' = [w \in Wallet |-> IF w = next.gone THEN 0 ELSE told[w]]
    /\ bad' = bad \ {next.gone}
    /\ UNCHANGED <<worker, lockState, deferred, hidden, calls, salts>>

(* Beginning a call *)

Begin(s, c) == calls[s] = NoCall /\ calls' = [calls EXCEPT ![s] = c] /\ UNCHANGED <<worker, lockState, deferred, disk>> /\ UNCHANGED <<hidden, shown, next>>
\* The lock screen: a password, or a passkey, which a page asks for by itself
\* as it loads, hidden or not; or the phrase, for a forgotten password.
OnLockScreen(s) == s \in Openings /\ shown # NoWallet /\ There(shown) /\ ~Open /\ NothingAsked
BeginUnlock == \E s \in Slot : OnLockScreen(s) /\ (hidden => unlocked = NoWallet) /\ Begin(s, Call("unlock", shown))
BeginReset ==
    \E s \in Slot : /\ OnLockScreen(s) /\ ~hidden /\ salts < MaxSalts /\ records[shown].wrapped
                   /\ Begin(s, Call("reset", shown))

\* Setup: with no wallet on screen, or beside the one that is open.
BeginSetup ==
    \E s \in Openings, w \in Wallet, kind \in {"create", "import"} :
        /\ ~hidden /\ ~deferred /\ ~There(w) /\ (shown = NoWallet \/ Open)
        /\ NothingAsked /\ salts < MaxSalts /\ Begin(s, Call(kind, w))

BeginChange == \E s \in Openings : ~hidden /\ Open /\ NothingAsked /\ salts < MaxSalts /\ Begin(s, Call("change", shown))
BeginAside == \E s \in Openings : ~hidden /\ Open /\ NothingAsked /\ shown \in unopened /\ Begin(s, Call("aside", shown))

(* What a call does from one await to the next *)

\* Mutants: the locks are not counted; a hidden page is not looked at.
OvertakenNever(c) == c.epoch > epoch
HiddenNever == hidden /\ deferred /\ hidden # deferred

Overtaken(c) == c.epoch # epoch
HiddenPage == hidden /\ ~deferred

Running(s, await) == At(calls[s]) = await
Still == UNCHANGED <<deferred, hidden, shown>>

\* The record is there, or the call throws.
Read(s) ==
    /\ Running(s, "read") /\ Still /\ UNCHANGED <<worker, lockState, next, disk>>
    /\ LET c == calls[s] IN
       IF There(c.w) /\ (c.kind = "strengthen" => records[c.w].weak) THEN GoesOn(s, [c EXCEPT !.read = records[c.w]]) ELSE Done(s)

\* A password hash, in the worker: the envelope the call will write.
Seal(s) ==
    /\ Running(s, "seal") /\ Still /\ UNCHANGED <<worker, lockState, next, bad, records, told>>
    /\ LET c == calls[s] IN
       \/ c.dead /\ Done(s) /\ UNCHANGED salts
       \/ ~c.dead /\ salts < MaxSalts /\ salts' = salts + 1 /\ GoesOn(s, [c EXCEPT !.salt = salts + 1])

\* Mutant: whatever is there is replaced.
AnyEnvelope(c) == records[c.w].salt >= c.read.salt

\* Only the envelope that was read may be replaced.
SameEnvelope(c) == records[c.w].salt = c.read.salt

Patch(s) ==
    /\ Running(s, "patch") /\ Still /\ UNCHANGED <<worker, lockState, next, bad, salts>>
    /\ LET c == calls[s]
           password == IF c.kind = "strengthen" THEN c.read.password ELSE c.salt
       IN IF There(c.w) /\ SameEnvelope(c)
          THEN /\ records' = [records EXCEPT ![c.w] = [@ EXCEPT !.salt = c.salt, !.password = password, !.weak = FALSE]]
               /\ told' = IF c.kind = "strengthen" THEN told ELSE [told EXCEPT ![c.w] = password]
               /\ IF c.kind = "reset" THEN GoesOn(s, [c EXCEPT !.salt = 0]) ELSE Done(s)
          ELSE Done(s) /\ UNCHANGED <<records, told>>

\* load: the keys into the core, unless a lock came or nobody looks.
Load(s) ==
    /\ Running(s, "open") /\ Still /\ UNCHANGED <<lockState, next, disk>>
    /\ LET c == calls[s] IN
       \/ (c.dead \/ Overtaken(c) \/ ~Makes(c)) /\ Done(s) /\ UNCHANGED worker  \* rejected, or the password is wrong
       \/ ~c.dead /\ HiddenPage /\ Forget(s)
       \/ ~c.dead /\ ~Overtaken(c) /\ ~HiddenPage /\ Keep(c.w)
          /\ GoesOn(s, [c EXCEPT !.read = NoRecord, !.made = c.kind = "unlock" /\ ~c.read.wrapped])

\* What create and import do when anything below fails: the core forgets, and
\* an import that was not cancelled deletes the wallet it made.
Fails(s, c, why) ==
    /\ UNCHANGED <<unlocked, pending, next, bad, salts>>
    /\ IF Makes(c) THEN Forget(s) ELSE Done(s) /\ UNCHANGED worker
    /\ IF c.kind = "import" /\ why = "error" /\ There(c.w)
       THEN records' = [records EXCEPT ![c.w] = NoRecord] /\ told' = [told EXCEPT ![c.w] = 0]
       ELSE UNCHANGED <<records, told>>

\* setUnlocked, and the strengthen that nobody waits for.
SetUnlocked(s, c) ==
    /\ unlocked' = c.w /\ pending' = FALSE
    /\ calls' = [calls EXCEPT ![s] = NoCall,
                              !["strengthen"] = IF c.kind \in {"unlock", "import"} /\ @ = NoCall THEN Call("strengthen", c.w) ELSE @]
    /\ next' = IF Makes(c) THEN [to |-> c.w, gone |-> NoWallet, due |-> TRUE] ELSE next
    /\ UNCHANGED worker

\* openStore is done, or the file's contents are in the log: a lock since the
\* call began cancels it, and an unlock may have a wrapping to keep first.
Finishes(s, c) ==
    \/ Overtaken(c) /\ Fails(s, c, "cancelled")
    \/ ~Overtaken(c) /\ c.made /\ Skips(s, c, "keep") /\ UNCHANGED <<worker, unlocked, pending, next, disk>>
    \/ ~Overtaken(c) /\ ~c.made /\ SetUnlocked(s, c) /\ UNCHANGED disk
StoreDone(s, c) ==
    \/ c.kind = "aside" /\ Done(s) /\ UNCHANGED <<worker, unlocked, pending, next, disk>>
    \/ c.kind = "import" /\ Skips(s, c, "commit") /\ UNCHANGED <<worker, unlocked, pending, next, disk>>
    \/ c.kind \notin {"aside", "import"} /\ Finishes(s, c)

\* The new account's record is written.
Put(s) ==
    /\ Running(s, "put") /\ Still /\ UNCHANGED <<epoch, holding, moved, unopened>>
    /\ LET c == calls[s] IN
       \/ /\ records' = [records EXCEPT ![c.w] = [salt |-> c.salt, password |-> c.salt, weak |-> c.kind = "import", wrapped |-> TRUE]]
          /\ told' = [told EXCEPT ![c.w] = c.salt]
          /\ GoesOn(s, [c EXCEPT !.salt = 0]) /\ UNCHANGED <<worker, unlocked, pending, next, bad, salts>>
       \/ "put fails" \in Rare /\ Fails(s, c, "error")

\* The first storeOpen.  A failure is noted, whatever it was; the wallet is
\* opened all the same.  A log that is new opens under whatever key is there.
Store(s) ==
    /\ Running(s, "store") /\ Still /\ UNCHANGED <<epoch, holding, moved>>
    /\ LET c == calls[s] IN
       \/ ~c.dead /\ keys = c.w /\ c.w \notin bad /\ logs' = logs \cup {c.w} /\ GoesOn(s, c)
          /\ UNCHANGED <<keys, unlocked, pending, unopened, next, disk>>
       \/ ~c.dead /\ keys \notin {c.w, NoWallet} /\ Makes(c) /\ logs' = logs \cup {c.w} /\ bad' = bad \cup {c.w} /\ GoesOn(s, c)
          /\ UNCHANGED <<keys, unlocked, pending, unopened, next, records, salts, told>>
       \/ (c.dead \/ c.w \in bad \/ keys = NoWallet \/ (keys # c.w /\ ~Makes(c)))
          /\ Unopenable(c.w) /\ StoreDone(s, c)

\* The second one, whose failure is thrown, and what opened notes.
Reopen(s) ==
    /\ Running(s, "reopen") /\ Still /\ UNCHANGED <<epoch, holding, unopened>>
    /\ LET c == calls[s] IN
       IF c.dead \/ c.w \notin logs THEN Fails(s, c, "error") /\ UNCHANGED moved
       ELSE Opened(c.w) /\ GoesOn(s, c) /\ UNCHANGED <<worker, unlocked, pending, next, disk>>

\* dropOldCopies, in the database.
DropOldCopies(s) ==
    /\ Running(s, "drop") /\ Still /\ UNCHANGED <<epoch, holding, moved, unopened>>
    /\ StoreDone(s, calls[s])

\* What the backup file held goes into the log; where throws for a log that
\* did not open, unless the file held nothing.
Commit(s) ==
    /\ Running(s, "commit") /\ Still /\ UNCHANGED <<epoch, holding, moved, unopened>>
    /\ LET c == calls[s] IN
       \/ (c.dead \/ ~Where(c.w)) /\ Fails(s, c, "error")
       \/ ~c.dead /\ Finishes(s, c)

\* keepSeedUnlock.  No look at the lock after it.
KeepSeedUnlock(s) ==
    /\ Running(s, "keep") /\ Still /\ UNCHANGED <<epoch, holding, moved, unopened, bad, salts, told>>
    /\ LET c == calls[s] IN
       /\ records' = IF There(c.w) THEN [records EXCEPT ![c.w].wrapped = TRUE] ELSE records
       /\ SetUnlocked(s, c)

\* setAsideStore: the log that will not open is kept under another name.
SetAside(s) ==
    /\ Running(s, "setAside") /\ Still /\ UNCHANGED <<worker, epoch, unlocked, pending, holding, moved, next, records, salts, told>>
    /\ LET c == calls[s] IN
       IF c.dead THEN Done(s) /\ UNCHANGED <<bad, unopened>>
       ELSE bad' = bad \ {c.w} /\ Recovered(c.w) /\ GoesOn(s, c)

Next ==
    \/ LockWallet \/ LockWhenFree \/ LockIfIdle \/ Touch \/ HoldIdleLock \/ BeginSend \/ EndSend
    \/ Hide \/ Show \/ SwitchAccount \/ SwitchNetwork \/ RemoveAccount \/ SetAccount
    \/ BeginUnlock \/ BeginReset \/ BeginSetup \/ BeginChange \/ BeginAside
    \/ \E s \in Slot : \/ Read(s) \/ Seal(s) \/ Patch(s) \/ Load(s) \/ Put(s) \/ Store(s) \/ Reopen(s)
                       \/ DropOldCopies(s) \/ Commit(s) \/ KeepSeedUnlock(s) \/ SetAside(s)

Spec == Init /\ [][Next]_vars

\* Wallets are alike.
Alike == Permutations(Wallet)

(* Properties *)

Loading(s) == At(calls[s]) \in {"put", "store", "reopen", "drop", "commit", "keep"}
Quiet == \A s \in Openings : ~Loading(s)

\* The keys loaded are those of the unlocked wallet, whatever locks, switches
\* and failures came while wallets were being opened; with nothing unlocked no
\* key is left behind; and no log is open but that wallet's.
KeysFollowUnlocking ==
    /\ Quiet /\ Open => keys = unlocked
    /\ Quiet /\ unlocked = NoWallet => keys = NoWallet
    /\ logs \subseteq {keys}

\* The password the person was last told is the one is the one, whatever
\* else wrapped the content key meanwhile.
PasswordToldHolds == \A w \in Wallet : There(w) => records[w].password = told[w]

\* No wallet becomes unlocked on a page that nobody looks at.
HiddenStaysLocked == [][hidden /\ ~deferred => unlocked' \in {unlocked, NoWallet}]_vars

\* Contradicted: a wallet said not to open does not open.
NoticeTrue == unlocked \in unopened => unlocked \in bad

\* Contradicted: a lock that a send put off, the page being hidden, comes when
\* the send is over.
PutOffComes == [][deferred /\ ~deferred' /\ hidden => unlocked' = NoWallet]_vars

\* Contradicted: an import that a lock overtakes keeps the wallet it made.
ImportKept ==
    [][\A s \in Openings : LET c == calls[s] IN
        c.kind = "import" /\ There(c.w) /\ Overtaken(c) /\ calls'[s] = NoCall => records'[c.w] # NoRecord]_vars

TypeOK ==
    /\ keys \in Wallet \cup {NoWallet} /\ logs \subseteq Wallet /\ unlocked \in Wallet \cup {NoWallet}
    /\ epoch \in 0..MaxLocks /\ {pending, deferred, holding, hidden} \subseteq BOOLEAN
    /\ moved \subseteq Wallet /\ unopened \subseteq Wallet /\ bad \subseteq Wallet
    /\ shown \in Wallet \cup {NoWallet} /\ next.to \in Wallet \cup {NoWallet} /\ next.gone \in Wallet \cup {NoWallet}
    /\ DOMAIN calls = Slot /\ salts \in 1..(MaxSalts + 4)
    /\ \A w \in Wallet : records[w].salt \in 0..salts /\ told[w] \in 0..salts
===============================================================================

------------------------------ MODULE SealedLog ------------------------------
(***************************************************************************)
(* A wallet's sealed log: crates/vault-core/src/store.rs (Log), the order  *)
(* of things around it (EngineHost in a browser, WalletStore natively),    *)
(* and the two stores underneath: IndexedDB rows (logStore.ts) and files   *)
(* (FilePersist in wallet_store.rs).                                       *)
(*                                                                         *)
(* A log is numbered entries: batches of changes, and snapshots of the     *)
(* whole state as of a number.  A state is a function from the numbers of  *)
(* the batches it includes to those batches: 1..seq until a damaged log    *)
(* was set aside, and with gaps afterwards.  What the changes say does not *)
(* matter: Model::check refuses no change to a wallet.  Batches stand for  *)
(* what a person made, which set_aside_state keeps; what scanning found is *)
(* found again by the sync.                                                *)
(*                                                                         *)
(* In a browser every window has a worker with a host of its own, and only *)
(* one of them is meant to be at work; natively there is one, under a      *)
(* mutex.  A lock ends the worker, so a lock is a crash.                   *)
(***************************************************************************)
EXTENDS Integers, FiniteSets, Sequences

CONSTANTS
    Host,          \* hosts that may have the wallet open
    Stores,        \* which of "files" (FilePersist) and "rows" (LogStore) are tried
    Fragile,       \* those of them whose entries can go bad
    CompactEvery,  \* COMPACT_EVERY
    MaxBatches,    \* bound: batches ever written
    MaxDamage,     \* bound: entries that go bad
    MaxSeq         \* bound: a setting aside numbered this high is not interrupted

ASSUME SealedLogAssumption ==
    /\ Stores \subseteq {"files", "rows"} /\ Fragile \subseteq Stores
    /\ CompactEvery \in Nat \ {0}
    /\ MaxBatches \in Nat /\ MaxDamage \in Nat /\ MaxSeq \in Nat

VARIABLES
    store,    \* the store underneath, the same for ever
    batches,  \* batch entries on the disk, by number
    snaps,    \* snapshot entries on the disk, by number; at most one in files
    mem,      \* per host: the log in memory
    step,     \* per host: where the operation it runs has come to
    made,     \* batches ever written
    acked,    \* history: batches whose operation was answered
    aside,    \* batches in the logs copied aside, entries that went bad included
    hurt,     \* history: batches that were in an entry when it went bad
    damage    \* how many entries have gone bad

vars == <<store, batches, snaps, mem, step, made, acked, aside, hurt, damage>>
diskVars == <<batches, snaps>>

Batch == 1..MaxBatches
NoState == <<>>
Closed == [open |-> FALSE, state |-> NoState, seq |-> 0, since |-> 0]
Idle == [at |-> "idle", seq |-> 0, batch |-> 0, state |-> NoState]

\* An entry on the disk.  A bad one has a readable number under a seal that
\* does not open; a torn one has not even a readable number.
Entry(x) == [is |-> "good", of |-> x]

Newest(S) == CHOOSE n \in S : \A m \in S : m <= n
NewestOr0(S) == IF S = {} THEN 0 ELSE Newest(S)
Without(f, S) == [n \in DOMAIN f \ S |-> f[n]]
With(f, n, x) == [k \in DOMAIN f \cup {n} |-> IF k = n THEN x ELSE f[k]]
Values(f) == {f[n] : n \in DOMAIN f}

(* Reading the log *)

Readable(f) == {n \in DOMAIN f : f[n].is = "good"}
Numbered(f) == {n \in DOMAIN f : f[n].is # "torn"}
\* The batches in these batch entries and these snapshots.
Held(bs, ss) == {batches[n].of : n \in bs} \cup UNION {Values(snaps[n].of) : n \in ss}

\* A state with the batches above `from` that can be read applied to it.
Replay(base, from) ==
    LET later == {n \in Readable(batches) : n > from}
    IN  [n \in DOMAIN base \cup later |-> IF n \in later THEN batches[n].of ELSE base[n]]

\* Log::open.  Every entry must be readable; the newest snapshot and the
\* batches after it must open, and follow one another without a gap.
LastSnap == NewestOr0(DOMAIN snaps)
Later == {n \in DOMAIN batches : n > LastSnap}
Opens ==
    /\ Numbered(batches) = DOMAIN batches /\ Numbered(snaps) = DOMAIN snaps
    /\ DOMAIN snaps # {} => LastSnap \in Readable(snaps)
    /\ Later \subseteq Readable(batches)
    /\ \A n \in Later : n = LastSnap + 1 \/ n - 1 \in Later
OpenSeq == NewestOr0(Later \cup {LastSnap})
OpenState == Replay(IF DOMAIN snaps = {} THEN NoState ELSE snaps[LastSnap].of, LastSnap)

\* Log::salvage: the newest snapshot that opens, then every later batch that does.
SalvagedFrom == NewestOr0(Readable(snaps))
Salvaged == Replay(IF Readable(snaps) = {} THEN NoState ELSE snaps[SalvagedFrom].of, SalvagedFrom)
HighestNumber == NewestOr0(Numbered(batches) \cup Numbered(snaps))

Init ==
    /\ store \in Stores
    /\ batches = NoState /\ snaps = NoState
    /\ mem = [h \in Host |-> Closed]
    /\ step = [h \in Host |-> Idle]
    /\ made = 0 /\ acked = {} /\ aside = {} /\ hurt = {} /\ damage = 0

At(h, where) == step[h].at = where
Goto(h, s) == step' = [step EXCEPT ![h] = s]
Kept == <<store, acked, aside, hurt, damage>>

(* Opening and writing *)

OpenLog(h) ==
    /\ At(h, "idle") /\ ~mem[h].open
    /\ Opens
    /\ mem' = [mem EXCEPT ![h] = [open |-> TRUE, state |-> OpenState, seq |-> OpenSeq,
                                  since |-> Cardinality(DOMAIN batches) + Cardinality(DOMAIN snaps)]]
    /\ UNCHANGED <<diskVars, step, made, Kept>>

\* An operation decides its changes against the log in memory.
Prepare(h) ==
    /\ At(h, "idle") /\ mem[h].open
    /\ made < MaxBatches
    /\ made' = made + 1
    /\ Goto(h, [Idle EXCEPT !.at = "append", !.seq = mem[h].seq + 1, !.batch = made'])
    /\ UNCHANGED <<diskVars, mem, Kept>>

\* A number that is taken is refused.
Taken(seq) == seq \in DOMAIN batches
AppendEntry(h) ==
    /\ At(h, "append")
    /\ ~Taken(step[h].seq)
    /\ batches' = With(batches, step[h].seq, Entry(step[h].batch))
    /\ Goto(h, [step[h] EXCEPT !.at = "confirm"])
    /\ UNCHANGED <<snaps, mem, made, Kept>>

\* Mutant: a batch takes effect although it was not written.
AbandonApplied(h) ==
    /\ At(h, "append")
    /\ mem' = [mem EXCEPT ![h] = [@ EXCEPT !.state = With(@, step[h].seq, step[h].batch), !.seq = step[h].seq]]
    /\ Goto(h, Idle)
    /\ UNCHANGED <<diskVars, made, Kept>>

\* Refused, or the disk is full: the batch is abandoned.
Abandon(h) ==
    /\ At(h, "append")
    /\ Goto(h, Idle)
    /\ UNCHANGED <<diskVars, mem, made, Kept>>

\* Whether a host that has written this many batches folds its log.
DueAfter(since) == since >= CompactEvery

\* The operation is answered once its batch has taken effect and the log, if
\* it is due, has been folded or has failed to be.
Confirm(h) ==
    /\ At(h, "confirm")
    /\ LET log == [mem[h] EXCEPT !.state = With(@, step[h].seq, step[h].batch),
                                 !.seq = step[h].seq, !.since = @ + 1]
       IN  /\ mem' = [mem EXCEPT ![h] = log]
           /\ IF DueAfter(log.since)
              THEN Goto(h, [step[h] EXCEPT !.at = "compact", !.state = log.state]) /\ UNCHANGED acked
              ELSE Goto(h, Idle) /\ acked' = acked \cup {step[h].batch}
    /\ UNCHANGED <<store, diskVars, made, aside, hurt, damage>>

(* Folding a log into a snapshot, or into a fresh log when it is damaged *)

MayStop(h) == mem[h].open \/ step[h].seq < MaxSeq
Folding(h) == step[h].at \in {"compact", "drop"}
AnswerFold(h) == acked' = IF mem[h].open THEN acked \cup {step[h].batch} ELSE acked
Done(h) == IF mem[h].open THEN [mem[h] EXCEPT !.since = 0]
           ELSE [open |-> TRUE, state |-> step[h].state, seq |-> step[h].seq, since |-> 0]
Finish(h) ==
    /\ mem' = [mem EXCEPT ![h] = Done(h)]
    /\ AnswerFold(h)
    /\ Goto(h, Idle)

Covered(seq) == {n \in DOMAIN batches : n <= seq}

\* Mutant: the number alone decides what goes, the new snapshot included.
CompactRowsByNumber(h) ==
    /\ store = "rows" /\ At(h, "compact")
    /\ snaps' = Without(snaps, {n \in DOMAIN snaps : n <= step[h].seq})
    /\ batches' = Without(batches, Covered(step[h].seq))
    /\ Finish(h)
    /\ UNCHANGED <<store, made, aside, hurt, damage>>

\* IndexedDB: the snapshot and the deletions are one transaction.
CompactRows(h) ==
    /\ store = "rows" /\ At(h, "compact")
    /\ snaps' = With(Without(snaps, {n \in DOMAIN snaps : n < step[h].seq}), step[h].seq, Entry(step[h].state))
    /\ batches' = Without(batches, Covered(step[h].seq))
    /\ Finish(h)
    /\ UNCHANGED <<store, made, aside, hurt, damage>>

\* Files: the snapshot replaces the one there was, then batches go one by one.
NameSnapshot(h) ==
    /\ store = "files" /\ At(h, "compact")
    /\ snaps' = With(NoState, step[h].seq, Entry(step[h].state))
    /\ Goto(h, [step[h] EXCEPT !.at = "drop"])
    /\ UNCHANGED <<batches, mem, made, Kept>>

RemoveBatch(h) ==
    /\ At(h, "drop")
    /\ \E n \in Covered(step[h].seq) : batches' = Without(batches, {n})
    /\ UNCHANGED <<snaps, mem, step, made, Kept>>

EndCompact(h) ==
    /\ At(h, "drop")
    /\ Covered(step[h].seq) = {}
    /\ Finish(h)
    /\ UNCHANGED <<store, diskVars, made, aside, hurt, damage>>

\* Best effort: it is tried again after the next write.
CompactFails(h) ==
    /\ Folding(h) /\ MayStop(h)
    /\ AnswerFold(h)
    /\ Goto(h, Idle)
    /\ UNCHANGED <<store, diskVars, mem, made, aside, hurt, damage>>

\* Mutant: only what can be read is copied.
CopiedReadable == Held(Readable(batches), Readable(snaps))

\* What is copied aside: every entry, as it is.
CopiedAside == Held(DOMAIN batches, DOMAIN snaps)

\* A log that does not open is copied aside whole, and a fresh one is begun
\* from what can be read of it, numbered one past the highest number read.
SetAside(h) ==
    /\ At(h, "idle") /\ ~mem[h].open
    /\ ~Opens
    /\ aside' = aside \cup CopiedAside
    /\ Goto(h, [Idle EXCEPT !.at = "compact", !.seq = HighestNumber + 1, !.state = Salvaged])
    /\ UNCHANGED <<store, diskVars, mem, made, acked, hurt, damage>>

(* What can happen at any time *)

\* Closed, killed, or locked, which ends the worker: memory is gone.
Crash(h) ==
    /\ mem[h].open \/ Folding(h)
    /\ MayStop(h)
    /\ mem' = [mem EXCEPT ![h] = Closed]
    /\ Goto(h, Idle)
    /\ UNCHANGED <<diskVars, made, Kept>>

\* An entry goes bad while no host is at work; one that goes bad under an open
\* log is noticed, if at all, by the next opening.
Damage ==
    /\ damage < MaxDamage /\ store \in Fragile
    /\ \A h \in Host : mem[h] = Closed /\ step[h] = Idle
    /\ \E how \in {"torn", "bad"} :
        \/ \E n \in Readable(batches) :
            /\ batches' = [batches EXCEPT ![n].is = how] /\ UNCHANGED snaps
            /\ hurt' = hurt \cup {batches[n].of}
        \/ \E n \in Readable(snaps) :
            /\ snaps' = [snaps EXCEPT ![n].is = how] /\ UNCHANGED batches
            /\ hurt' = hurt \cup Values(snaps[n].of)
    /\ damage' = damage + 1
    /\ UNCHANGED <<store, mem, step, made, acked, aside>>

HostStep(h) ==
    \/ OpenLog(h) \/ Prepare(h) \/ AppendEntry(h) \/ Abandon(h) \/ Confirm(h)
    \/ CompactRows(h) \/ NameSnapshot(h) \/ RemoveBatch(h) \/ EndCompact(h) \/ CompactFails(h)
    \/ SetAside(h) \/ Crash(h)

Next == Damage \/ \E h \in Host : HostStep(h)
Spec == Init /\ [][Next]_vars

(***************************************************************************)
(* Properties                                                              *)
(***************************************************************************)

\* Every answered change is in what can be read of the log, unless its own
\* entry went bad: no crash, failed compaction or setting aside loses one.  And
\* nothing of a damaged log is deleted: bad or not, the entry each is in is in
\* the log or in a copy set aside (compact, salvage, set_aside, copy).
AckedSurvive ==
    /\ acked \ hurt \subseteq Values(Salvaged)
    /\ acked \subseteq aside \cup Held(DOMAIN batches, DOMAIN snaps)

\* A log no entry of which went bad opens, after a crash between any two steps
\* of writing or folding it; and whenever no operation runs, an open one is in
\* memory what an opening would read, to the number, and knows of every batch
\* to be folded (prepare, write, confirm, since_snapshot).
MemoryIsDisk ==
    /\ damage = 0 => Opens
    /\ \A h \in Host : mem[h].open /\ At(h, "idle") =>
          /\ Opens /\ mem[h].state = OpenState /\ mem[h].seq = OpenSeq
          /\ Cardinality(DOMAIN batches) <= mem[h].since

\* One host: the log keeps what DurableStore promises, until an entry goes bad.
OneOpen == \E h \in Host : mem[h].open
OneView == IF OneOpen THEN mem[CHOOSE h \in Host : mem[h].open].state ELSE NoState
DS == INSTANCE DurableStore WITH durable <- OpenState, open <- OneOpen, view <- OneView
ImplementsDurable == DS!DSInit /\ [][damage' = 0 => DS!DSNext]_DS!dsVars
===============================================================================

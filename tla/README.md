# Neptune Vault in TLA+

Neptune Vault is a wallet for the Neptune blockchain that runs on the person's
own device, in a browser or a desktop shell. It scans blocks from a node for
its coins, builds and proves transactions, and keeps everything it knows in a
sealed log. This directory holds TLA+ models of it, TLC configurations that
check them, and theorems about them that TLAPS proves.

## The system

| Component | Source (`web/src`, `crates`) | State | Operations | Modelled in |
|---|---|---|---|---|
| Ledger | `vault-core/src/ledger.rs` | none of its own: reads a wallet, answers changes | `persist_scan`, `roll_back`, `record_pending`, ... | `Ledger` |
| Wallet state | `vault-core/src/store.rs` | coins, history rows, kept blocks, sync position, scan settings | `WalletState::apply` | `Ledger` (the record) |
| Scanner | `vault-core/src/scan.rs`, `chain.rs`, `account.rs` | none | `scan_blocks`, `scan_mempool_kernel`, `check`, `keys_up_to` | `Ledger`, `NodeChain`, `Receive` |
| Sync engine | `wallet/sync.ts`, `AppContext.syncNow` | one running pass, the batch size | start, fork search, rollback, batches, stop | `Sync`; against everything else that writes: `Wallet` |
| Fast restore | `wallet/sync.ts` `restoreFast` | heights scanned, kept as progress | rounds, second looks, handover | `Restore` |
| Sending | `app/send.ts`, `AppContext.startSend` | how far the send has come, the notes about it | plan, build, record, submit, retry, give up, remove, refresh | `Wallet` (coins), `SendFlow` (what is said) |
| Send form, contacts | `screens/Send.tsx`, `contacts.ts`, `Contacts.tsx` | form, draft, review, approvals | fill, request, review, confirm | `SendForm` |
| Mempool watcher | `wallet/mempool.ts` | ids seen, last sightings | `poll` | `Wallet` |
| Sealed log | `store.rs` (`Log`), `engineHost.ts`, `logStore.ts`, `wallet_store.rs` | entries on disk, sequence number | prepare, append, confirm, abandon, compact, open, salvage | `SealedLog` |
| Opening and locking | `app/accounts.ts`, `AppContext.tsx`, the wallet worker | epoch, unlocked wallet, pending lock, keys, open logs | create, import, unlock, reset, lock, switch | `Session` |
| Passwords and files | `storage/envelope.ts`, `accounts.ts`, `Settings.tsx` | the envelope, passkey and phrase wrappings, backup files | change, reset, passkey, export, restore | `Keys` |
| Making a wallet | `screens/Onboarding.tsx`, `StartBlockPicker.tsx` | the wizard's step and choices | create, confirm, restore, choose a start | `Setup` |
| Receiving | `screens/Receive.tsx`, `addressLabels.ts` | address shown, given out, named | new address, copy, share, name | `Receive` |
| QR scanner | `components/QrScanner.tsx`, `qrClient.ts`, `qrWorker.ts` | attempts, camera, readers | open, switch, torch, zoom, read, close | `Scanner` |
| Window ownership | `app/windowOwner.ts`, `main.tsx`, `OpenElsewhere.tsx` | a Web Lock, the line for it, messages | ask, refuse, hand over, take | `WindowOwner` |
| Bridges, migration, arithmetic, prover, other screens, desktop shell, consensus code | see `PROJECT.json` | | | not modelled |

How they interact. The page (sync, send, watcher, the person) asks the engine
for one operation at a time; `EngineHost.inTurn` queues them per wallet, so an
operation is atomic. Between two operations the page awaits the node, the
worker, the prover or the person, and everything it read before may be out of
date. That is where this program is hard: several actors, each a sequence of
reads and writes with awaits between them, over one record; a chain underneath
that reorganises; transactions that stay in the network after the wallet let go
of them; a lock that may come at any await; other windows; and a page that can
be closed between any two steps.

What makes each component correct:

* **Ledger**: coins are those of the scanned chain; every spent coin is
  accounted for once; a send is credited only with a block that carries it;
  holds begin and end with the row they are for.
* **Sync, restore**: rollbacks undo exactly what lies above the fork; a node's
  word alone drops few blocks; the wallet catches up; a restore that looks at
  few blocks finds what a scan of all would.
* **Sending**: a waiting send's coins are not offered twice; a transaction the
  network may hold is never lost sight of; nobody is told that nothing left
  when it did, nor left without a word.
* **Sealed log**: what was acknowledged survives a crash at any point; memory
  and disk agree; order is kept.
* **Lock, passwords, windows**: no keys after a lock; every way in opens the
  same wallet; what was set last stays; one window works.
* **Screens**: what is sent, handed out, restored or scanned from is what the
  person saw and chose, however late the answers come.

## Modules

`NodeChain`: the chain of the node. A block is the set of transactions it
carries. A block's hash commits to all blocks below it, so "same hash at
height h" is "same first h entries". Consensus is third-party code: only the
rules the wallet leans on are stated (`CanFollow`, `Confirmable`, `InTime`).

`Ledger`: every operation of `ledger.rs` on coins, holds and rows, as a function
from a wallet (a record) to the next wallet. Own rows are `row[s]`, one per send
(`sent:<txid>`); the watcher's rows are `out[c]` (`outgoing:<first input>`);
`elsewhere` is the rows `spent:<height>`. `branch` stands for `synced_hash`.

`Wallet`: one wallet and everything that writes to it. `chain`, `reorgs` and
`live` are the node's (`live` is what some mempool holds); `pass` is the
running pass and the batch it has scanned and not yet written; `phase`, `stamp`
and `review` are the send in hand; `poll` is the watcher's poll with its
snapshot; `removing` is a row judged removable. `confirmed` is a history
variable. `MCWallet` gives its instance.

`Sync`: the sync engine alone, from one answer of the node to the next. A chain
is a sequence of tags, one for each reorganisation that brought blocks, so the
chain may change in the middle of the halving search, of weighing another
chain, or of a batch. `ChainView` is its abstract specification: what a wallet
may believe of the chain, whatever the engine does to get there.

`Restore`: the fast restore. A history of where the chain pays and spends the
wallet's coins is chosen in the initial state, all of them of a given size.

`SealedLog`: one wallet's log: `batches` and `snaps` are the entries on the
disk by number, `mem` the log each host has in memory, `step` where the
operation it runs has come to. `store` is what is underneath: `FilePersist`,
whose compaction is a snapshot and then one removal after another, or
`LogStore`, where it is one transaction. `DurableStore` is what it promises:
batches kept one after another, and nothing shown that is not kept.

`Session`: a call of `accounts.ts` is a list of awaits (`Awaits`); a step runs a
call from one await to the next. A lock ends the worker and rejects what it was
asked. `Keys`: encryption is a box with a key and what it is bound to; opening
one with another key, or beside other text, fails.

`SendFlow`: a send as the person lives it, from the form to the note a later
unlock shows. `SendForm`, `Setup`, `Receive`: screens whose questions are
answered late. `Scanner`: each run of the effect that opens the camera is a
numbered attempt. `WindowOwner`: windows with a task queue each, the lock and
the line for it.

The theorems about a component are in a module that extends it: `WalletProofs`
(with `Ledger` and `NodeChain` below it), `SyncProofs`, `SendFlowProofs` and
`SendFormProofs` are about one; `LogProofs` is about `SealedLog` and `Scanner`,
`SessionProofs` about `Session` and `Setup`, `KeysProofs` about `Keys` and
`Receive`, `WindowProofs` about `WindowOwner` and `Restore`. The two parts of
such a module share nothing but the lemmas of the library, which is why
`Scanner`, `Setup`, `Receive` and `Restore` name what every module has after
themselves (`ScannerSpec`) and two of them say `Uncommon` where others say
`Rare`.

Some definitions have a twin with a mistake in it (`HeldByNobody` beside
`HeldBy`): those show that the properties notice, and nothing uses them.

### Code and actions

A step that reads and a step that writes are two actions wherever the code
awaits between them.

| Code | Actions |
|---|---|
| `SyncEngine.pass`, in `Wallet` | `StartPass`, `RollBackIfForked`, `ScanBlocks`, `PersistBatch`, `EndPass`, `StopPass`, `Rescan` |
| `SendService.send`, giving up, `remove` | `Review`, `Plan`, `Build`, `Cancel`, `Record`, `Submit`, `Refuse`, `Discard`, `Forget`, `JudgeRemovable`, `Remove` |
| `MempoolWatcher.poll` | `StartPoll`, `FindSpend`, `RecordSpend`, `ExpireOutgoing`, `EndPoll` |
| `syncNow`, `pass`, in `Sync` | `Begin`, `AskTip`, `NodeBehind`, `Fetch`, `Scan`, `NotLinked`, `NeverLinks`, `Halve`, `HalveToTwo`, `GiveUpSlow`, `Finish`, `GiveWay` |
| `rollBackIfForked`, `showsHeavierChain` | `AskCanonical`, `Question`, `RollBack`, `Strange`, `WeighFirst`, `Weigh`, `RollBackDeep`, `NotHeavier` |
| `rescan`, `resetForRescan`, the lock | `AskRescan`, `StoppedAtOnce`, `Stopped`, `ResetForRescan`, `Lock`, `Unlock` |
| `restoreFast` and the pass around it | `Begin`, `NoIndex`, `Ask`, `GiveUp`, `ScanBlock`, `Noted`, `Finish`, `Forget`, `Ordinary` |
| `EngineHost.open`, `write`, compactions, `set_aside` | `OpenLog`, `Prepare`, `AppendEntry`, `Confirm`, `Abandon`, `CompactRows`, `NameSnapshot`, `RemoveBatch`, `EndCompact`, `CompactFails`, `SetAside` |
| `unlock`, `createAccount`, `importFile`, `resetPassword`, ... | `Begin...` and then `Read`, `Seal`, `Patch`, `Load`, `Put`, `Store`, `Reopen`, `DropOldCopies`, `Commit`, `KeepSeedUnlock`, `SetAside` of `Session` |
| locks, `visibilitychange`, switching | `LockWallet`, `LockWhenFree`, `LockIfIdle`, `Hide`, `Show`, `BeginSend`, `EndSend`, `SwitchAccount`, `SwitchNetwork`, `RemoveAccount`, `SetAccount` |
| passwords, passkeys, backup files | a `Begin...` and a `Finish...` each in `Keys`, with `Strengthen`, `ImportFile` and `Alter` |
| `startSend`, `refresh`, the notes | `StartSend`, `Build`, `Prove`, `OnRecorded`, `NodeTakes`, `AnswerLost`, `Accepted`, `Refused`, `Finally`; `BeginRefresh`, `RefreshLast`, `RefreshStarted`, `RefreshShow` |
| `hold`, `takeOver`, `receive` | `Load`, `Open`, `Hear`, `UseHere`, `Receive`, `LetGo`, `Answer`, `Silence`, `Leave` |
| node, network, browser, disk, person (external) | `Mine`, `Reorg`, `Fail`, `Damage`, `Freeze`, `Thaw`, `Crash`, `Close`, ... |

### Abstractions

* `Wallet`: a block's time is its height; `SEND_LIFETIME_MS` is `SendLife`
  blocks and consensus rule 2.f is `MaxAge` blocks, `MaxAge <= SendLife` as in
  the code's constants. A batch is one or two blocks. Amounts, fees and wording
  are left out; the watcher's incoming rows are left out. The search for a fork
  is one step there (`Sync` takes it apart). A refused send was seen by nobody,
  so its name is used again for the one rebuilt from the same inputs.
* `Sync`: every block carries the same work, so a heavier chain is a longer
  one. Coins are not followed; what a height left behind is the block it came
  from (`content`).
* `Restore`: no reorganisation during a restore; the ordinary pass goes block by
  block, and a plain rescan is `Sync`'s.
* `SealedLog`: of an entry's contents only which batches it holds is kept. It is
  good, `bad` (its seal does not open) or `torn` (not even its number reads). A
  write is durable when it returns: a rename that a power loss undoes is left
  out, and so is the refusal of newer formats.
* `Session`: the idle timer may fire at any moment; the grace after hiding is at
  its default, none. `Keys`: a key is the pair of a password and a
  salt; every record of the run has its phrase's wrapping.
* `SendFlow`: what the form holds is one payment; its fields are `SendForm`'s.
  How a send ended is written note by note (`run.pending`); the wallet's log
  takes writes and reads in the order they are asked for, so what comes later
  waits until they are written (`Written`).
* `SendForm`: sends are confirmed with a password; Max, error texts and how an
  amount is spelled are left out. `Receive`: a payment is its address.
* `Scanner`: two cameras, and text read late from an image is not followed into
  the form.

## What is checked

Every run passes; deadlock is checked where the system never stops (`Wallet`,
`Log`, `Sync`), elsewhere a bound on what the person does ends it.

| Run | Bounds | States | Shows |
|---|---|---|---|
| `Wallet` | two sends, a foreign spend, height 3, one reorganisation; two scenes | 597 k | the sync, the watcher, sends, giving up, expiry, rescans and crashes keep what each of them keeps |
| `Log` | files or rows, 5 batches, folded every 2, one bad entry in files | 1.5 M | a crash or failure at any step loses nothing that was answered, and the log always opens; it implements `DurableStore` |
| `Windows` | 2 windows, 3 loads and 2 asks each | 41 k | who works holds the lock; asking comes to an end |
| `Session` | 2 wallets, 2 locks, 3 envelopes | 228 k | keys and logs are the unlocked wallet's; passwords told stay; a hidden page opens nothing |
| `Keys` | 2 passwords, 3 operations, 4 random draws, one altered file | 1.5 M | the ways in agree, what was acknowledged stays, what a restore answers is so |
| `Sync` | height 4, 2 reorganisations, one trouble of each kind | 372 k | the wallet is of one chain; done is fresh; it implements `ChainView`; it catches up |
| `Restore` | 3 coins, height 3, 2 breaks, 1 rescan; all histories of that size | 355 k | nothing missed that a full scan finds; it ends |
| `SendFlow` | 2 sends of 2 attempts, the app closed once | 3.3 M | what the app says of a send is true, and it says something |
| `SendForm` | 2 addresses, 2 amounts, 3 edits, 2 reviews, 2 visits; reviews left while a password is checked, links at any time | 2.0 M | what goes is what was reviewed; a confirmation counts elsewhere only if its review was left early |
| `Setup` | 4 blocks, 2 months, one wallet, one reload | 3.7 M | a wallet is of its words and scanned from where the screen said |
| `Receive` | 2 address types, 3 payments, 2 visits, 1 rescan | 4.6 M | addresses are offered once and all found |
| `Scanner` | 2 cameras, 2 attempts | 7.0 M | nothing keeps running; buttons and texts are the current camera's |

The two scenes of `MCWallet`: `whole` (one send, a foreign spend of its coin,
all actors, rescans and removals, wallets made at 0, 1 or beyond the tip) and
`rivals` (two sends of one coin, the second after the first was given up on; the
mempool is not looked at). `CoinsHeld` is about the first, for the reasons below.
`taken`, a history variable, has the sends whose row a rescan or the person took
out of History: `HistoryExplainsSpends` and `UnsettledIsWatched` say nothing of
these.

Bounds. In `Wallet` a coin can be made, spent, dropped by a reorganisation and
spent otherwise within three blocks; `KeepBlocks` 2 makes the trimming of kept
blocks reachable, and two sends and a stranger are what the ledger's rules tell
apart. In `Sync`, `Keep` 3 and `OnWord` 1 make each refusal of
`rollBackIfForked` reachable, `Speeds` {1, 2} both halves of the halving. In the
log, `MaxBatches` 5 lets two compactions and a write after each happen. Two
passwords, two windows, two attempts of a send, two cameras and two wallets are
each the least with which one operation can overtake another. `SendForm`
leaves out a password entered again while it is checked ("enters twice"), for
size only: the theorems hold with it, and a run with it passes (6.9 M states).

Fairness. `WindowOwner` has strong fairness of what a window does itself: the
browser keeps a frozen window's tasks and runs them when it runs at all. Nobody
has to thaw, close, ask or end a send. `Sync` has weak fairness of the steps of
a pass and of a rescan: the timer comes round (`SYNC_INTERVAL_MS`) and a request
ends in an answer or a failure. `Restore` has the same of its pass. `CatchesUp`
excepts what the code leaves to others: a node that shows no common block or no
heavier chain, one that is behind, or one that is too slow for two blocks.

## What does not hold

Where a property fails for an order of events, the order is a constant (`Rare`,
`Uncommon`, `Prompt`) or a scene, switched off in the run and named here, so that it can be
switched on: TLC then shows the behaviour. Each is a disagreement of the code
with what it says of itself or with what the property asks.

| Switch | Property | What happens |
|---|---|---|
| `Wallet`, scene `rivals` | `HeldWhilePending` | b is planned on a coin of a, which a block has taken; a rollback makes a wait again and hold the coin; `record_pending` of b takes the hold over; giving up on b frees it though a waits (`ARCHITECTURE.md:177`) |
| `Wallet`, sends of two coins | `HeldWhilePending` | a send's first coin is spent by another transaction, its second is met in the mempool in a third; a rollback makes the send wait again while the second coin is still held by the watcher's row; that row expires and the coin is free though the send waits (`ledger.rs:351`, `ledger.rs:819`) |
| `Wallet`, `Legacy` and sends of two coins | `HistoryExplainsSpends` | a pending row of the old form is credited when one coin it holds is spent, also by another device, while its other coins stay unspent (`ledger.rs:462`) |
| `Wallet` | `NoOrphanHold` | the watcher holds two coins for a foreign spend, a block spends one of them otherwise; the row goes and the other coin stays held by an id no row has (`ledger.rs:817`) |
| `Wallet`, shared outputs | `CreditMatchesChain` | the rule for "carried" looks at the block, not at the transaction: another spend of the coins and another payment of the outputs pass for the send (`ledger.rs:450`) |
| `Wallet` | `RowsLeaveOnlyWhenDead` | a rollback between judging a row and dropping it: the row of a waiting send goes (`send.ts:565`) |
| `Wallet` | `UnsettledIsWatched` of the sends in `taken` | a rescan drops the row of a send that failed because its coin went elsewhere, though that block is gone and the send may be mined |
| `Log`, two hosts | `AckedSurvive` | one window folds the log, the other appends under a number folded away and is answered (`logStore.ts:66`) |
| `Log`, `Fragile` with `"rows"` | `MemoryIsDisk` | a torn snapshot has no number to count, so the fresh log is numbered below it and does not open |
| `Log`, `MaxDamage` 2 | `MemoryIsDisk` | the two highest batches are torn: the salvage numbers its snapshot below them, and they lie above it as good numbers to read |
| `Windows`, `Prompt` off | `WhoWorksHolds` | a request reaches a window whose services are still opening: it hands over, with nothing to lock yet, and then opens them (`main.tsx:25`); or "Use here" is pressed while the other window's request is on its way, and each hands over to the other (`windowOwner.ts:90`) |
| `Windows`, three windows | `WhoWorksHolds` | two wait; the owner hands over to the first, which gets the second's request between the lock and the answer "granted", lets go, and then takes that answer for its own: two work |
| `Session`: "slow keep", "put fails", "two openings" | `KeysFollowUnlocking` | a lock while an unlock writes the phrase's wrapping: unlocked, and no keys; a new wallet's record is refused, or a wallet is opened while one that a lock overtook still fails: its clean-up takes the keys of the wallet unlocked |
| `Session` | `NoticeTrue`, `PutOffComes`, `ImportKept` | any failure to open is noted as the log's; a touch forgets a lock put off; an import whose worker the lock ended is deleted (`accounts.ts:1100`) |
| `Keys`, `told[w].unsaid` | `AckedStays`, third part | the note that the password changed is dropped by a lock, or by the unlock that ends a reset, or cannot be written (`accounts.ts:435`): the old backup file is not spoken of (`Settings.tsx:664`) until the next is saved |
| `Keys`: "read first" | `AckedStays` | an export sealed with an envelope read before the password changed |
| `Sync`: "sync during rescan" | `OneChain` | the timer's pass writes what it scanned before the reset (`AppContext.tsx:682`) |
| `Restore`: "busy block" | `NoPaymentMissed` | needs `NumCoins` 4, `MaxHeight` 4, no stray: a block scanned for one payment before the key of another one in it was watched is asked for again only if something is spent there (`sync.ts:361`) |
| `Restore`: "rescan over progress" | `NoPaymentMissed` | a rescan empties the wallet and keeps the progress, which passes over blocks whose coins are gone (`store.rs:357`) |
| `SendFlow`: "overlap" | `NothingLeft` | a refresh that read the rows before a send was recorded says that it stopped |
| `SendFlow`: "quick unlock", "asks unseen", "dismiss", "both fail" | `NoSilentEnd` | a note is lost between two writes, never written, or written over |
| `SendFlow`: "cut short" | `NoSilentEnd` | a send that was recorded has no note that it runs any more; when it is refused, its own last note is taken back and the failure noted as two writes (`AppContext.tsx:540`), and an app closed between them has neither; nor has one closed, or locked, after the note went back and before the review asks for consent. The comment at `AppContext.tsx:431` says that the next unlock finds such a send (1 send of 1 attempt shows it) |
| `SendFlow` | `NoteHasRow` | after a refused second attempt the note of the first stays when the person cancels |
| `Setup`: "edits while checking", "opens twice", "clears while looking", "folded" | `ScansFromThere` | the start is set by an answer to an earlier question, or by options not open |
| `Setup`: "fails after put" | `MadeOfItsWords` | "it belongs to no wallet" of a phrase whose wallet's record is written |
| `Receive`: "acts early" | `NeverOfferedAgain` | New address before the notes are read |
| `Receive`: "request while deriving" | `HandsOnChosen` | the request's text is shared while its address is still derived |
| `SendForm`: "changes mind", "link while sending" | `ConsentOnItsReview` | the review is left while the password is checked: its send begins all the same, and the approval and the consent it asks for stand on the next review, against the comments at `Send.tsx:726` and `746`. `ConfirmedOnItsReview` holds: nothing else comes from another review |
| `SendForm`: "long message", "refilled request" | `NameOfItsRequest` | a request's message outlives the request |
| `SendForm`: "saves twice" | | two changes to contacts overlap: two may have one name (no property asks it) |
| `Scanner`, a failed attempt | a camera is let go of | whatever rejects once the camera runs, `play()` too, leaves it on under the notice (`QrScanner.tsx:404`); `NothingLeftRunning` says that it is under the notice only |
| `Scanner`: "slow options", "zoom refused", "overlapping presses" | `ButtonsTellTheCamera` | the button says what was asked for: the options of a camera let go of are answered after the next one's; the zoom is refused; Torch or Zoom is pressed while the last change of the options is on its way, which the first ones of all, asked for with the buttons already there, are too (`QrScanner.tsx:385-393`) |
| `Scanner` | `NoProblemOverTheCamera` | an attempt that was given up shows its error over the next one's preview (`QrScanner.tsx:404`) |

The definitions marked "Contradicted" in the modules are the rows with no
switch; no run checks them.

## What is proved

Every theorem is of the specification the runs check, for every value of its
constants that meets the module's assumption: any number of wallets, entries,
blocks, payments, windows' loads. A theorem that needs more says so in a named
hypothesis, and each hypothesis excludes what the table above shows breaks it.

| Module | Theorem | Property | Given |
|---|---|---|---|
| `WalletProofs` | `TypeCorrect` | `TypeOK` | |
| | `NeverExpiresOnceConfirmed` | `EverConfirmedNeverExpires` | |
| | `ExpiredWaitsForABlock` | `ExpiredOnlyConfirms` | |
| | `CoinsAreTheChains` | `CoinsFollowChain` | `GenesisFollows` |
| | `ConfirmedIsCarried` | `CreditMatchesChain` | `GenesisFollows`, `OwnOutputs`, `MadeLater` |
| | `LiveSendsAreWatched` | `UnsettledIsWatched` | `GenesisFollows` |
| | `SpentCoinsAreExplained` | `HistoryExplainsSpends` | `GenesisFollows`, `OwnOutputs`, `MadeLater`, `NoLegacy` |
| `LogProofs` | `AnsweredSurvive` | `AckedSurvive` | `OneHost` |
| | `MemoryFollowsDisk` | `MemoryIsDisk` | `OneHost`, `Mild` |
| | `SoundLogOpens` | a log nothing was done to opens | `OneHost` |
| | `LogIsDurable` | `ImplementsDurable` (refinement) | `OneHost` |
| | `HandsOneText` | `OnlyTheCurrentHands` | |
| | `LeavesNothingRunning` | `NothingLeftRunning` | |
| | `ButtonsSayWhatIsSo` | `ButtonsTellTheCamera` | `NoOddOptions` |
| `SyncProofs` | `HoldsOneChain` | `OneChain` | `NoPassInRescan` |
| | `DoneOnAServedChain` | `DoneIsFresh` | `NoPassInRescan` |
| | `BelievesWhatItMay` | `BelievesNoMore` (refinement of `ChainView`) | `NoPassInRescan` |
| `SessionProofs` | `PasswordIsTheOneTold` | `PasswordToldHolds` | |
| | `NoneUnlocksHidden` | `HiddenStaysLocked` | `NoLockWhileKeeping` |
| | `KeysAreTheUnlockedWallets` | `KeysFollowUnlocking` | `NothingRare` |
| | `MakesOfItsWords` | `MadeOfItsWords` | `NothingAfterPut` |
| | `ScansFromWhereSaid` | `ScansFromThere` | `OneAtATime` |
| `KeysProofs` | `EveryWayIn` | `WaysInAgree` | |
| | `RestoreSaysWhatIsSo` | `AnswersTrue` | |
| | `WhatWasToldStays` | `AckedStays` | `NothingUncommon` |
| | `HandsWhatWasChosen` | `HandsOnChosen` | `AddressThere` |
| | `PaymentsAreFoundHere` | `EveryPaymentFound` | `AddressThere` |
| | `OffersNoAddressAgain` | `NeverOfferedAgain` | `NothingEarly` |
| `SendFlowProofs` | `PaidIsNotOffered` | `PaidNotOffered` | |
| | `GoesOutOnce` | no payment goes out twice | |
| | `SaysNothingWent` | `NothingLeft` | `ReadsAtRest` |
| | `EndsWithAWord` | `NoSilentEnd` | `NothingRare` |
| `SendFormProofs` | `ReviewShowsWhatWasTyped` | `PaysWhatWasTyped` | |
| | `NamesGoWithTheirPayment` | `NameOfItsRequest` | `RequestsKept` |
| | `SendsFromItsReview` | `ConfirmedOnItsReview` | |
| `WindowProofs` | `OneWindowWorks` | `WhoWorksHolds` | `TwoWindows`, `Prompt` |
| | `SpendsAreSeen` | `NoSpendMissed` | `NoLeftovers` |
| | `PaymentsAreFound` | `NoPaymentMissed` | `Rare = {}` |

The hypotheses. `GenesisFollows`: what the node served first is a chain by the
consensus rules, which are not this code's. `OwnOutputs`: every send
has an output no other transaction has; what breaks it is the row "shared
outputs". `MadeLater`: a send made on this device is
not in the genesis chain. `NoLegacy`: History has no rows of the old form.
`OneHost`: one window writes a log; two are the row
"two hosts". `Mild`: one entry goes bad at most, and no torn rows. The others
say which of the uncommon orders of events (`Rare`) are left out:
`NoPassInRescan`, `NothingRare` and `NothingUncommon` all of them (in
`KeysProofs` "read first"), `NoLockWhileKeeping` "slow keep",
`ReadsAtRest` "overlap" only, `RequestsKept` the two of `NameOfItsRequest`,
`NoOddOptions` all of `Scanner`'s, `NothingAfterPut` "fails after put",
`OneAtATime` the other four of `Setup`, `AddressThere` "request while deriving",
`NothingEarly` both of `Receive`'s, `NoLeftovers` "rescan over progress". Where the column is empty
the theorem holds in all those orders too, which is more than the runs show.
`MCWallet`'s instance meets the three of `Wallet`.

The arguments. None of the properties is inductive; what was added to each was
checked by TLC before it was proved.

* `Wallet`, marks. `ExpireSends` could mark a row the history variable knows,
  unless a confirmed send is always still confirmed or marked `rolledBack`, and
  `RollBack` could bring an expired row back to waiting with its mark, unless an
  expired row has no height. `IInv` is `TypeOK`, `Marks` (both, for every row)
  and `Working` (what the operations need to be given).
* `Wallet`, coins. `CoinsInv` relates four things: the chain (`Sound`: blocks
  follow each other by the consensus rules), the wallet (`InPlace`: its coins,
  what each was spent in and its kept blocks are those of `wallet.branch`), the
  batch in flight (`BatchKept`: its spends and coins are those of the blocks it
  scanned, in whatever chain those were) and the fork a rollback goes to. A
  rollback is exact because kept blocks reach below the fork; `KeepBlocks` must
  be at least 1. For each ledger operation there is a lemma of what it answers.
* `Wallet`, credit. A batch that was scanned before a send was recorded did not
  look for its outputs; that it nevertheless credits what its blocks carry is so
  because a send is on no chain before it was handed to the node (`SentOnly`),
  and is handed over only when it was recorded. `CreditInv` adds that, and that
  a failed row which lost names a block where one of its coins went.
* `Wallet`, History. `UnsettledIsWatched` needs to know when a failed send may be
  forgotten: `WatchInv` says that a send the network may hold has its row or is in
  `taken` (`LiveDone`, `RowThere`) and that a row which lost names a block of the
  wallet's chain where one of its coins went. `HistoryInv` rests on `CreditInv`
  and on one account per coin (`InAccounts`): the book the ledger keeps of who
  spent a coin changes only with the row that says so. Both needed the ledger's
  operations taken one by one again, for what they do to rows (`StillRows`,
  `QuietRows`, `StepKeeps`).
* `SealedLog`. `SurviveInv` says of each step of each operation which entries
  the disk must still hold: a batch acknowledged is in an entry above the newest
  snapshot that opens, or in that snapshot. `WholeInv` says of a host between
  two steps how far its memory is ahead of the disk. The refinement maps a step
  to the append where it becomes durable, and all others to stutters.
* `Sync`. `SyncInv` says of each place the pass can wait at what it has learnt
  and of which chain; a chain it looks at may be gone, but it was one chain
  once, so what is written is a prefix of one.
* `Session`. `PasswordInv`: a record read before another write is never put back
  (salts tell which is newer). `SessionInv` says, for every await of every call,
  what the worker holds while the call waits there, also after a lock ended it.
* `Keys`. `WaysInv` says of every record, every operation that has read one and
  every file what its boxes hold; files put together of parts are quantified
  over. `AckedInv` orders envelopes by their salts, and says that no file saved
  with an older password is as new as the note of the change to come (`Holds`).
* `SendFlow`. `PayInv` says how far the send in hand has come and what the form
  may hold there. `SaidInv` adds that whatever is said not to have gone is not
  the newest send while it runs, and, since a refresh reads the notes before the
  rows settle again, that the note of a send that was cut off is about the
  newest one. `EndInv` follows the name of the newest send from note to note: a
  sealed note names it until it is told (`Witness`), but for the moment after its
  own note was taken back and before the next is written or the review asks
  (`GivenWay`), when no lock and no end of the app may come. While its end is
  being written (`Pending`) the note that is still to be written leaves one that
  names it; each read of a refresh carries the name on (`Carries`), the review
  that will ask is there (`AskSeen`), and no note about coins gone elsewhere, also
  none on its way, is left to take its place (`Elsewhere`).
* `SendForm`. `ReviewInv`: every approval, consent, waiting password and running
  send is `Given` on a review that is still open or was left early; one action
  opens a review and only where none is, so no other can be mistaken for it.
* `WindowOwner`. `WindowInv` counts messages: of the two windows' requests one
  is always answered first, so nobody holds the lock by an answer that was meant
  for an earlier request. Proving it showed that the model let a window ask
  while the other's request was on its way though `Prompt` says it may not.
* `Restore`. `SpendInv`: of every height noted, in the progress kept as in the
  pass, the wallet has the spends of the coins known when it was looked at. When
  a round asks for nothing more, the coins known now were known at each height
  that matters. `PaymentInv` is the same of payments, with the keys then watched,
  and compares the wallet with a scan of all blocks (`FullScan`) height by height
  (`Covers`): what it found and the next key are never behind.
* `Receive`. `HandsInv`: an answer of the worker that still counts is for the
  address chosen. `FoundInv`: an address anyone knows is one the scan looks for
  once it has seen the payments so far, because the screen offers none further
  than the counters reach. `AgainInv`: one write of the notes is on its way at a
  time, and ends with all that was noted when it began.
* `Setup`. `WordsInv` and `MarkInv` follow the phrase from the step that makes it
  to the record; a phrase made here is never one typed. `StartInv` says what the
  choices on the screen make of the start, and that an answer that still counts
  is the one they ask for. `SearchFinds` is by induction over the length of the
  interval: the first block of the month lies in it.
* `Scanner`. `NothingLeftRunning` is inductive as it stands: a camera is given to
  the video element of an attempt that runs, or let go of. `OptionsAlone`: one
  attempt at a time waits for the first options of its camera. `ButtonsInv`: what was asked of the
  camera, what it does and what the buttons say go together.

Only model-checked. Liveness (`CatchesUp`, `AskingEnds`, the end of a restore)
rests on fairness, which the prover cannot use. `CoinsHeld` holds of the instance
in scene `whole` and is no theorem: with two sends of one coin, or with a send of
two coins, `HeldWhilePending` is false (the table above).

## Not modelled

Derivation of keys and amounts, encryption itself, proving, migration and the
vendored consensus code are pure computation; the bridges marshal calls; the
desktop shell and the screens not named above are I/O and rendering. Of the
modelled components, `PROJECT.json` names what each leaves out.

## Plan

1. `HeldWhilePending` as a theorem for sends of one coin that have no rival, the
   hypotheses the two rows above leave; `GoesOutOnce` from what `Wallet` says of
   rows rather than from `SendFlow`'s own.
2. The watcher's incoming rows, its patience and `mark_mempool_checked`, in a
   module beside `Wallet`.
3. Two windows over one log: `WindowOwner` composed with `SealedLog`, with the
   moment between losing the lock and locking the wallet.
4. A fast restore on a chain that reorganises under it, `Restore` over `Sync`'s
   chain.

------------------------------ MODULE SendFlow ------------------------------
(***************************************************************************)
(* A send as the person lives it: the form it is filled in on             *)
(* (screens/Send.tsx), the job that runs it (AppContext.startSend and      *)
(* SendService.send), the notes about it in the wallet's sealed log, and   *)
(* the refresh that reads those notes back at the next unlock.             *)
(*                                                                         *)
(* What the wallet's coins do is in Wallet.tla.  Here the question is      *)
(* what the app SAYS: a send is many awaits long, the lock, Cancel, the    *)
(* end of the app and other screens can come at any of them, the node's    *)
(* answer may be lost, and a note is written only while the wallet is      *)
(* unlocked.                                                               *)
(*                                                                         *)
(* A send is a number, its attempts are its transactions: the transaction  *)
(* of attempt k of send s is <<s, k>>.  A payment is what the form holds,  *)
(* recipient and amount.                                                   *)
(***************************************************************************)
EXTENDS Naturals, Sequences, SequencesExt

CONSTANTS
    Payment,            \* what the form may hold
    MaxSends,           \* bound: how often Send is pressed
    MAX_SEND_ATTEMPTS,  \* how often a send is proved
    MaxCloses,          \* bound: how often the app is closed
    Rare                \* orders of events that need odd timing; see below

(* "overlap"      Send is pressed, or a waiting row settles, between two    *)
(*                reads of one refresh (ms)                                 *)
(* "quick unlock" an unlock, a second of key derivation, finishes between   *)
(*                two writes of notes that follow each other at once        *)
(* "asks unseen"  the network asks for the coins to be published when the   *)
(*                review that would ask the person is gone                  *)
(* "dismiss"      a note about an earlier send is put away while the one    *)
(*                after it is being handed over                             *)
(* "both fail"    the coins of an earlier send go elsewhere while a later     *)
(*                one runs                                                  *)
(* "cut short"    the app is closed, or locks, when a send's own note has   *)
(*                given way to the one before it and the note or review     *)
(*                that says how it ended is not there yet                   *)
ASSUME SendFlowAssumption ==
    /\ MaxSends \in Nat \ {0} /\ MAX_SEND_ATTEMPTS \in Nat \ {0} /\ MaxCloses \in Nat
    /\ Rare \subseteq {"overlap", "quick unlock", "asks unseen", "dismiss", "both fail", "cut short"}
    /\ 0 \notin Payment

VARIABLES
    at,        \* the await the running send is at; "idle" when none runs
    run,       \* its local variables
    log,       \* the sealed notes: sendInProgress, lastSend, lastSendFailure
    rows,      \* the history row of each transaction
    heard,     \* the transactions the node has taken
    shown,     \* the page's memory: the job, the notes on screen
    unsaved,   \* unsavedFailure: a note that could not be written
    lock,      \* locked, a lock that waits for the send, the page visible
    refresh,   \* the refresh in hand, and what it has read
    send,      \* the Send screen: open, its form, the kept draft, what was recorded
    told,      \* the sends whose end the person has seen (history variable)
    paid,      \* the payment of each send pressed (history variable)
    closes     \* how often the app was closed

\* run.pending are the writes of notes that are under way, run.note what the
\* one of the last send will say.
vars == <<at, run, log, rows, heard, shown, unsaved, lock, refresh, send, told, paid, closes>>

Sends == 1 .. MaxSends
Tx == Sends \X (1 .. MAX_SEND_ATTEMPTS)
None == [tx |-> <<0, 0>>, state |-> "none"]
NoRun == [send |-> 0, attempt |-> 0, abort |-> FALSE, recorded |-> FALSE, earlier |-> None, here |-> FALSE,
          ending |-> "none", pending |-> {}, note |-> None]
NoJob == [send |-> 0, ending |-> "none"]
NoRefresh == [at |-> "off", failure |-> 0, sent |-> None]
Sealed == [started : 0 .. MaxSends, last : [tx : Tx \union {<<0, 0>>}, state : {"none", "submitted", "unconfirmed"}], failure : 0 .. MaxSends]

Sending == at # "idle"
tx == <<run.send, run.attempt>>

Init ==
    /\ at = "idle" /\ run = NoRun
    /\ log = [started |-> 0, last |-> None, failure |-> 0]
    /\ rows = [t \in Tx |-> "none"] /\ heard = {}
    /\ shown = [job |-> NoJob, last |-> None, failure |-> 0]
    /\ unsaved = 0
    /\ lock = [locked |-> FALSE, waiting |-> FALSE, visible |-> TRUE]
    /\ refresh = NoRefresh
    /\ send = [open |-> FALSE, form |-> 0, draft |-> 0, recorded |-> 0]
    /\ told = {}
    /\ paid = <<>> /\ closes = 0

(* A note is written only while the wallet is unlocked; elsewhere the       *)
(* write is refused and the refusal ignored.                                *)
Noted(field, value) == IF lock.locked THEN log ELSE [log EXCEPT ![field] = value]

\* The writes and reads of the sealed log are done in the order they are asked for.
Written == run.pending = {}

\* The send is over, and the review has not yet heard that the network wants the coins published.
Asking == at = "ended" /\ run.ending = "asks"

\* Nothing sealed names the send that has ended, and no page has shown it.
GivenWay ==
    /\ at = "ended" /\ run.recorded /\ ~lock.locked
    /\ \/ run.ending = "failed" /\ run.pending = {"failure"} /\ ~lock.visible
       \/ run.ending = "asks" /\ Written

-----------------------------------------------------------------------------
(* The Send screen. *)

Here == send.open /\ lock.visible

\* The mistake of keeping what is on the form, whatever was sent.
KeepAnyDraft(form) == form
\* A form that pays what the last recorded send paid is no draft.
KeepSendDraft(form) == IF form = send.recorded THEN 0 ELSE form

\* The screen goes: its form is kept as the draft, unless its send runs.
Unmounted ==
    IF ~send.open THEN send
    ELSE [send EXCEPT !.open = FALSE, !.form = 0,
                      !.draft = IF shown.job.ending = "running" THEN 0 ELSE KeepSendDraft(send.form)]

Visit ==
    /\ ~lock.locked /\ lock.visible /\ ~send.open
    /\ send' = [send EXCEPT !.open = TRUE, !.form = send.draft]
    /\ UNCHANGED <<at, run, log, rows, heard, shown, unsaved, lock, refresh, paid, closes>>

\* A finished job's notice belongs to this visit of the screen.
Leave ==
    /\ Here /\ (shown.job.ending = "sent" => Written)
    /\ Asking => "asks unseen" \in Rare
    /\ send' = Unmounted
    /\ run' = [run EXCEPT !.here = FALSE]
    /\ LET done == shown.job.ending \notin {"none", "running"}
           sent == shown.job.ending = "sent" IN
       /\ shown' = [shown EXCEPT !.job = IF done THEN NoJob ELSE @, !.last = IF sent THEN None ELSE @]
       /\ log' = IF sent THEN Noted("last", None) ELSE log
    /\ UNCHANGED <<at, rows, heard, unsaved, lock, refresh, paid, closes>>

\* A payment is typed once; the same payment typed again is a new one.
Type(p) ==
    /\ Here /\ ~Sending /\ shown.job.ending # "sent" /\ send.form = 0 /\ p \notin Range(paid)
    /\ send' = [send EXCEPT !.form = p]
    /\ UNCHANGED <<at, run, log, rows, heard, shown, unsaved, lock, refresh, paid, closes>>

\* "Fill in the form again", offered on a send that failed.
Refill ==
    /\ Here /\ ~Sending /\ shown.job.ending = "failed"
    /\ send' = [send EXCEPT !.form = paid[shown.job.send]]
    /\ shown' = [shown EXCEPT !.job = NoJob, !.failure = 0]
    /\ log' = Noted("failure", 0)
    /\ UNCHANGED <<at, run, rows, heard, unsaved, lock, refresh, paid, closes>>

\* Done, or the notice's close button.
DismissResult ==
    /\ Here /\ Written /\ shown.job.ending \in {"sent", "unconfirmed", "failed", "stopped"}
    /\ LET about == shown.job.ending IN
       /\ shown' = [job |-> NoJob,
                    last |-> IF about \in {"sent", "unconfirmed"} THEN None ELSE shown.last,
                    failure |-> IF about = "failed" THEN 0 ELSE shown.failure]
       /\ log' = CASE about \in {"sent", "unconfirmed"} -> Noted("last", None)
                   [] about = "failed" -> Noted("failure", 0)
                   [] OTHER -> log
    /\ UNCHANGED <<at, run, rows, heard, unsaved, lock, refresh, send, paid, closes>>

\* The note's own close button on Home.
DismissNote ==
    /\ ~lock.locked /\ lock.visible /\ ~send.open /\ Written
    /\ ~run.recorded \/ "dismiss" \in Rare
    /\ LET job == IF shown.job.ending = "running" THEN shown.job ELSE NoJob IN
       \/ /\ shown.failure # 0
          /\ shown' = [shown EXCEPT !.failure = 0, !.job = job] /\ log' = Noted("failure", 0)
       \/ /\ shown.last # None
          /\ shown' = [shown EXCEPT !.last = None, !.job = job] /\ log' = Noted("last", None)
    /\ UNCHANGED <<at, run, rows, heard, unsaved, lock, refresh, send, paid, closes>>

-----------------------------------------------------------------------------
(* The send. *)

\* Review and its checks done, and the password or passkey given.
Confirmed == ~Sending /\ Here /\ send.form # 0 /\ ~lock.locked /\ shown.job.ending # "sent"

\* The note that a send is running is written before anything else.
StartSend ==
    /\ Confirmed
    /\ Len(paid) < MaxSends
    /\ refresh.at = "off" \/ "overlap" \in Rare
    /\ paid' = Append(paid, send.form)
    /\ run' = [NoRun EXCEPT !.send = Len(paid) + 1, !.attempt = 1, !.here = TRUE, !.earlier = shown.last]
    /\ shown' = [shown EXCEPT !.job = [send |-> Len(paid) + 1, ending |-> "running"]]
    /\ at' = "building"
    /\ log' = Noted("started", Len(paid) + 1)
    /\ UNCHANGED <<rows, heard, unsaved, lock, refresh, send, closes>>

Goes(step) ==
    /\ at' = step
    /\ UNCHANGED <<log, rows, heard, shown, unsaved, lock, refresh, send, paid, closes>>

\* However it ends, the page says so at once; the notes in `writes` are on their way.
Ends(ending, writes, last, failure) ==
    /\ at' = "ended"
    /\ shown' = [job |-> [shown.job EXCEPT !.ending = ending],
                 last |-> IF "last" \in writes THEN last ELSE shown.last,
                 failure |-> IF "failure" \in writes THEN failure ELSE shown.failure]
    /\ run' = [run EXCEPT !.ending = ending, !.pending = writes, !.note = last]
    /\ UNCHANGED <<log, heard, unsaved, lock, refresh, paid, closes>>

\* Each note is a write of its own, and may find the wallet locked.  A failure
\* comes after the note it takes the place of, any other end before its own.
WriteLast ==
    /\ at = "ended" /\ "last" \in run.pending
    /\ run.ending \in {"sent", "unconfirmed"} => "failure" \notin run.pending
    /\ log' = Noted("last", run.note)
    /\ run' = [run EXCEPT !.pending = @ \ {"last"}, !.note = None]
    /\ UNCHANGED <<at, rows, heard, shown, unsaved, lock, refresh, send, paid, closes>>

WriteFailure ==
    /\ at = "ended" /\ "failure" \in run.pending
    /\ run.ending = "failed" => "last" \notin run.pending
    /\ LET fails == run.ending = "failed" IN
       /\ log' = Noted("failure", IF fails THEN run.send ELSE 0)
       /\ unsaved' = IF fails /\ lock.locked THEN run.send ELSE unsaved
    /\ run' = [run EXCEPT !.pending = @ \ {"failure"}]
    /\ UNCHANGED <<at, rows, heard, shown, lock, refresh, send, paid, closes>>

\* Its own note, written when it was recorded, gives way to the one before it.
Earlier == IF run.recorded THEN {"last"} ELSE {}

Stopped == Ends("stopped", {}, None, 0) /\ UNCHANGED <<rows, send>>
Failed == Ends("failed", Earlier \union {"failure"}, run.earlier, run.send) /\ UNCHANGED send
Unconfirmed == Ends("unconfirmed", {"last", "failure"}, [tx |-> tx, state |-> "unconfirmed"], 0) /\ UNCHANGED rows /\ send' = [send EXCEPT !.draft = 0]
Seen == lock.visible /\ ~lock.locked /\ ~lock.waiting
Sent == Ends("sent", {"last", "failure"}, IF Seen THEN None ELSE [tx |-> tx, state |-> "submitted"], 0) /\ UNCHANGED rows /\ send' = [send EXCEPT !.draft = 0]

\* The network wants the coins published first: the review asks, if it is
\* still there; the send itself is over and leaves no note.
ReviewThere == run.here /\ lock.visible /\ ~lock.waiting
AskLustration ==
    /\ ReviewThere \/ "asks unseen" \in Rare
    /\ Ends("asks", Earlier, run.earlier, 0) /\ UNCHANGED <<rows, send>>

\* A new attempt, while there are any left.
Again ==
    /\ run.attempt < MAX_SEND_ATTEMPTS
    /\ run' = [run EXCEPT !.attempt = @ + 1]

\* The coins are chosen, at the first attempt; their proofs asked for; the
\* transaction built on the tip, with the keys.
Build ==
    /\ at = "building"
    /\ \/ run.abort /\ Stopped
       \/ ~run.abort /\ Failed /\ UNCHANGED rows
       \/ ~run.abort /\ ~lock.locked /\ (AskLustration \/ (Again /\ Goes("building")) \/ (Goes("proving") /\ UNCHANGED run))

\* The last moment Cancel means anything.
LastCheck == ~run.abort

\* The proof is made, and waits for a connection if it must; then the send is
\* written down, and only after that does the node hear of it.
Prove ==
    /\ at = "proving"
    /\ \/ run.abort /\ Stopped
       \/ ~run.abort /\ Failed /\ UNCHANGED rows
       \/ /\ LastCheck /\ ~lock.locked
          /\ at' = "noting"
          /\ rows' = [rows EXCEPT ![tx] = "pending"]
          /\ UNCHANGED <<run, log, heard, shown, unsaved, lock, refresh, send, paid, closes>>

\* The mistake of leaving the note for the end.
NoteNothing == log
NoteLast == Noted("last", [tx |-> tx, state |-> "unconfirmed"])

OnRecorded ==
    /\ at = "noting" /\ at' = "clearing"
    /\ run' = [run EXCEPT !.recorded = TRUE]
    /\ send' = [send EXCEPT !.recorded = paid[run.send], !.draft = 0]
    /\ log' = NoteLast
    /\ UNCHANGED <<rows, heard, shown, unsaved, lock, refresh, paid, closes>>

StartedCleared ==
    /\ at = "clearing" /\ at' = "submitting"
    /\ log' = Noted("started", 0)
    /\ UNCHANGED <<run, rows, heard, shown, unsaved, lock, refresh, send, paid, closes>>

NodeTakes ==
    /\ at = "submitting" /\ tx \notin heard
    /\ heard' = heard \union {tx}
    /\ UNCHANGED <<at, run, log, rows, shown, unsaved, lock, refresh, send, paid, closes>>

\* No answer, a gateway's error, or something that is not the node's.
AnswerLost == at = "submitting" /\ Unconfirmed
Accepted == at = "submitting" /\ tx \in heard /\ Sent
\* The mistake of taking any error for one.
AnyErrorIsRefusal == TRUE
\* Only the node's own word is a refusal.
IsRefusal == tx \notin heard
Refused ==
    /\ at = "submitting" /\ IsRefusal
    /\ Goes("discarding") /\ UNCHANGED run

Discard ==
    /\ at = "discarding"
    /\ \/ lock.locked /\ Failed /\ UNCHANGED rows
       \/ /\ ~lock.locked /\ rows' = [rows EXCEPT ![tx] = "none"]
          /\ \/ Failed
             \/ /\ Again /\ at' = "building"
                /\ UNCHANGED <<log, heard, shown, unsaved, lock, refresh, send, paid, closes>>

\* What the Send screen does once startSend is over, if it is still the same one.
FormAfter(ending) ==
    IF run.here /\ ending \in {"sent", "unconfirmed"} THEN [send EXCEPT !.form = 0] ELSE send

\* The review takes the job away that asks; a lock that waited comes when the
\* send is over.
JobAfter == IF run.ending = "asks" /\ run.here THEN NoJob ELSE shown.job

LockedNow(s) ==
    /\ lock' = [lock EXCEPT !.locked = TRUE, !.waiting = FALSE]
    /\ send' = s
    /\ shown' = [job |-> JobAfter, last |-> None, failure |-> 0]
    /\ refresh' = NoRefresh

Finally ==
    /\ at = "ended" /\ at' = "idle" /\ Written
    /\ log' = Noted("started", 0)
    /\ LET after == FormAfter(run.ending) IN
       IF lock.waiting
       THEN LockedNow([after EXCEPT !.open = FALSE, !.form = 0, !.draft = KeepSendDraft(after.form)])
       ELSE send' = after /\ shown' = [shown EXCEPT !.job = JobAfter] /\ UNCHANGED <<lock, refresh>>
    /\ run' = NoRun
    /\ UNCHANGED <<rows, heard, unsaved, paid, closes>>

\* The button asks; the send answers.
CancelSend ==
    /\ Here /\ at = "proving" /\ ~run.abort
    /\ run' = [run EXCEPT !.abort = TRUE]
    /\ UNCHANGED <<at, log, rows, heard, shown, unsaved, lock, refresh, send, paid, closes>>

SendSteps == Build \/ Prove \/ OnRecorded
    \/ StartedCleared \/ AnswerLost \/ Accepted \/ Refused \/ Discard
    \/ WriteLast \/ WriteFailure \/ Finally

-----------------------------------------------------------------------------
(* The lock, and the page. *)

\* By hand, or one the send does not put off.
Lock ==
    /\ ~lock.locked /\ (GivenWay => "cut short" \in Rare) /\ (Asking => "asks unseen" \in Rare)
    /\ LET keep == IF Sending THEN shown.last ELSE None IN
       shown' = [shown EXCEPT !.failure = 0, !.last = keep]
    /\ lock' = [lock EXCEPT !.locked = TRUE, !.waiting = FALSE]
    /\ send' = Unmounted
    /\ run' = [run EXCEPT !.here = FALSE]
    /\ refresh' = NoRefresh
    /\ UNCHANGED <<at, log, rows, heard, unsaved, paid, closes>>

\* The page is hidden, and its lock waits for the send.
Hide ==
    /\ lock.visible /\ Sending /\ (Asking => "asks unseen" \in Rare)
    /\ lock' = [lock EXCEPT !.visible = FALSE, !.waiting = ~lock.locked]
    /\ UNCHANGED <<at, run, log, rows, heard, shown, unsaved, refresh, send, paid, closes>>

Show ==
    /\ ~lock.visible
    /\ \E w \in {FALSE, lock.waiting} : lock' = [lock EXCEPT !.visible = TRUE, !.waiting = w]
    /\ UNCHANGED <<at, run, log, rows, heard, shown, unsaved, refresh, send, paid, closes>>

\* The notes and the rows are read at once when a wallet unlocks, and again
\* after every sync; a note that could not be written is written now.
ReadNotes ==
    /\ Written
    /\ refresh' = [at |-> "last", failure |-> IF unsaved # 0 THEN unsaved ELSE log.failure, sent |-> None]
    /\ log' = IF unsaved # 0 THEN [log EXCEPT !.failure = unsaved] ELSE log
    /\ unsaved' = 0
    /\ UNCHANGED <<at, run, heard, shown, send, paid, closes>>

Unlock ==
    /\ lock.locked /\ lock.visible
    /\ at \notin {"noting", "clearing", "ended"} \/ "quick unlock" \in Rare
    /\ lock' = [lock EXCEPT !.locked = FALSE]
    /\ UNCHANGED rows
    /\ ReadNotes

BeginRefresh ==
    /\ ~lock.locked /\ refresh.at = "off"
    /\ UNCHANGED <<lock, rows>>
    /\ ReadNotes

\* While a send runs, the note is that send's own.
RefreshLast ==
    /\ refresh.at = "last"
    /\ refresh' = [refresh EXCEPT !.sent = IF Sending THEN shown.last ELSE log.last, !.at = IF Sending THEN "show" ELSE "started"]
    /\ UNCHANGED <<at, run, log, rows, heard, shown, unsaved, lock, send, paid, closes>>

\* A send the app was closed during: the note it left says so, and the rows
\* say how far it got.
RowOf(started) == {t \in Tx : t[1] >= started /\ rows[t] = "pending"}

RefreshStarted ==
    /\ refresh.at = "started"
    /\ LET started == log.started
           gone == started # 0 /\ RowOf(started) # {} /\ refresh.sent.tx \notin RowOf(started)
           never == started # 0 /\ RowOf(started) = {} /\ refresh.failure < started
           sent == IF gone THEN [tx |-> CHOOSE t \in RowOf(started) : TRUE, state |-> "unconfirmed"] ELSE refresh.sent
           failure == IF never THEN started ELSE refresh.failure IN
       /\ refresh' = [at |-> "show", sent |-> sent, failure |-> failure]
       /\ log' = [started |-> 0, last |-> IF gone THEN sent ELSE log.last, failure |-> IF never THEN failure ELSE log.failure]
    /\ UNCHANGED <<at, run, rows, heard, shown, unsaved, lock, send, paid, closes>>

\* Once its row settles the note has done its work; a send whose coins went
\* elsewhere becomes a note about a send that did not go through.
RefreshShow ==
    /\ refresh.at = "show"
    /\ LET s == refresh.sent
           row == IF s = None THEN "none" ELSE rows[s.tx]
           settled == ~Sending /\ row \notin {"none", "pending"}
           fails == settled /\ row = "conflicted"
           failure == IF fails THEN s.tx[1] ELSE refresh.failure
           gone == shown.job.ending = "sent" /\ \E t \in Tx : t[1] = shown.job.send /\ rows[t] = "over" IN
       \E seen \in {FALSE, ~Sending /\ row = "pending" /\ s.state = "unconfirmed" /\ s.tx \in heard} :
          LET last == IF settled THEN None ELSE IF seen THEN [s EXCEPT !.state = "submitted"] ELSE s IN
          /\ shown' = [job |-> IF gone THEN NoJob ELSE shown.job, last |-> last, failure |-> failure]
          /\ log' = [log EXCEPT !.last = IF settled \/ seen THEN last ELSE @, !.failure = IF fails THEN failure ELSE @]
    /\ refresh' = NoRefresh
    /\ UNCHANGED <<at, run, rows, heard, unsaved, lock, send, paid, closes>>

\* The sync or the person settles a waiting row, and the page reads it: it is
\* over (confirmed, expired or given up), or its coins went elsewhere.
Settle(t) ==
    /\ ~lock.locked /\ rows[t] = "pending" /\ (t # tx \/ ~Sending)
    /\ refresh.at = "off" \/ "overlap" \in Rare
    /\ \E outcome \in {"over"} \union (IF ~Sending \/ "both fail" \in Rare THEN {"conflicted"} ELSE {}) :
          rows' = [rows EXCEPT ![t] = outcome]
    /\ UNCHANGED lock
    /\ ReadNotes

\* The app, or its tab, is gone; what is left is the sealed log and the node.
Close ==
    /\ closes < MaxCloses /\ closes' = closes + 1 /\ (GivenWay => "cut short" \in Rare)
    /\ at' = "idle" /\ run' = NoRun /\ unsaved' = 0 /\ refresh' = NoRefresh
    /\ shown' = [job |-> NoJob, last |-> None, failure |-> 0]
    /\ lock' = [locked |-> TRUE, waiting |-> FALSE, visible |-> TRUE]
    /\ send' = [send EXCEPT !.open = FALSE, !.form = 0, !.draft = 0, !.recorded = 0]
    /\ UNCHANGED <<log, rows, heard, paid>>

\* The end of a send was seen: its job or its note on an unlocked, visible
\* page, the review that asks about publishing its coins, or Stop pressed.
OnScreen ==
    (IF ~lock'.locked /\ lock'.visible
     THEN {shown'.failure, shown'.last.tx[1]} \union (IF shown'.job.ending \in {"sent", "unconfirmed", "failed"} THEN {shown'.job.send} ELSE {})
     ELSE {}) \union (IF shown'.job.ending = "stopped" THEN {shown'.job.send} ELSE {})
Asked == IF at # "idle" /\ at' = "idle" /\ shown'.job = NoJob /\ closes' = closes THEN {run.send} ELSE {}
Watch == told' = told \union ((OnScreen \union Asked) \ {0})

Page == Lock \/ Hide \/ Show \/ Unlock \/ BeginRefresh \/ Close \/ (\E t \in Tx : Settle(t))
RefreshSteps == RefreshLast \/ RefreshStarted \/ RefreshShow

Screens == Visit \/ Leave \/ (\E p \in Payment : Type(p)) \/ Refill \/ DismissResult \/ DismissNote
Next == (Screens \/ StartSend \/ CancelSend \/ SendSteps \/ NodeTakes \/ Page \/ RefreshSteps) /\ Watch

TypeOK ==
    /\ at \in {"idle", "building", "proving", "noting", "clearing", "submitting", "discarding", "ended"}
    /\ log \in Sealed /\ rows \in [Tx -> {"none", "pending", "over", "conflicted"}]
    /\ heard \subseteq Tx /\ told \subseteq Sends /\ unsaved \in 0 .. MaxSends

-----------------------------------------------------------------------------
(* What the app says. *)

\* "Nothing left this wallet", "Stopped before sending": what the app says
\* did not go out.
SaidNotSent ==
    {log.failure, shown.failure, unsaved}
        \union (IF shown.job.ending \in {"stopped", "failed"} THEN {shown.job.send} ELSE {})

(* A person told that nothing was sent pays again.  So the app never says   *)
(* it of a send whose transaction the node has taken, unless its coins are  *)
(* known to have gone elsewhere: not on the job's notice, not in the note a *)
(* later unlock reads, and whatever lock, Cancel or end of the app came     *)
(* between (failed() and onRecorded in AppContext.startSend; isRefusal).    *)
NothingLeft == \A t \in heard : t[1] \in SaidNotSent => rows[t] = "conflicted"

Latest == Len(paid)

(* The latest send does not end without a word: until the person has seen   *)
(* how it ended, a sealed note, a note still to be written, the job's own   *)
(* notice or a settled row says so, also when the wallet locked or the app  *)
(* was closed in the middle of it (sendInProgress, lastSend and             *)
(* lastSendFailure in accounts.ts, the notes' reading in refresh).          *)
NoSilentEnd ==
    \/ Latest = 0 \/ Sending \/ Latest \in told
    \/ Latest \in {log.started, log.last.tx[1], log.failure, unsaved}
    \/ shown.job.send = Latest /\ shown.job.ending # "asks"
    \/ \E t \in Tx : t[1] = Latest /\ rows[t] \notin {"none", "pending"}

Offered == IF Sending THEN {} ELSE {send.form, send.draft} \ {0}

(* A payment the node has taken is not put back on the form, neither as the *)
(* draft a lock or a change of screen keeps nor by the form itself: one     *)
(* press would pay it twice (app/sendDraft.ts sendRecorded, the form's      *)
(* reset after a send).                                                     *)
PaidNotOffered == \A t \in heard : rows[t] # "conflicted" => paid[t[1]] \notin Offered

(* "It may have gone out; wait until History shows it" is said of a         *)
(* transaction History has: the note an earlier attempt wrote does not      *)
(* outlive the row its refusal dropped (AppContext.tsx on earlierNote).     *)
NoteHasRow == ~Sending /\ log.last.state = "unconfirmed" => rows[log.last.tx] # "none"

-----------------------------------------------------------------------------
Spec == Init /\ [][Next]_vars

\* The form's payments are interchangeable.
Alike == Permutations(Payment)
=============================================================================

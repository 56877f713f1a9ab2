---------------------------- MODULE SendFlowProofs ----------------------------
(***************************************************************************)
(* Proofs about SendFlow, for any payments and any number of sends,        *)
(* attempts and closings of the app.                                       *)
(***************************************************************************)
EXTENDS SendFlow, SequenceTheorems, TLAPS

\* A refresh that overlaps the start of a send breaks NothingLeft: see the README.
ReadsAtRest == "overlap" \notin Rare

\* What else breaks NoSilentEnd: see the README.
NothingRare == Rare = {}

(* Types *)

Counts == 0 .. MaxSends
Endings == {"sent", "unconfirmed", "failed", "stopped", "asks"}
Notes == {None} \cup [tx : Tx, state : {"submitted", "unconfirmed"}]
OnForm == Payment \cup {0}

Runs == [send : Counts, attempt : 0 .. MAX_SEND_ATTEMPTS, abort : BOOLEAN, recorded : BOOLEAN,
         earlier : Notes, here : BOOLEAN, ending : Endings \cup {"none"}, pending : SUBSET {"last", "failure"}, note : Notes]
Logs == [started : Counts, last : Notes, failure : Counts]
Jobs == [send : Counts, ending : Endings \cup {"none", "running"}]
Pages == [job : Jobs, last : Notes, failure : Counts]
Locks == [locked : BOOLEAN, waiting : BOOLEAN, visible : BOOLEAN]
Refreshes == [at : {"off", "last", "started", "show"}, failure : Counts, sent : Notes]
Forms == [open : BOOLEAN, form : OnForm, draft : OnForm, recorded : OnForm]

CoreType ==
    /\ at \in {"idle", "building", "proving", "noting", "clearing", "submitting", "discarding", "ended"}
    /\ run \in Runs /\ log \in Logs /\ shown \in Pages /\ lock \in Locks /\ refresh \in Refreshes /\ send \in Forms
    /\ rows \in [Tx -> {"none", "pending", "over", "conflicted"}] /\ heard \subseteq Tx
    /\ unsaved \in Counts /\ paid \in Seq(Payment) /\ Len(paid) <= MaxSends

FlowType == CoreType /\ told \subseteq Sends

(* How far the send in hand has come *)

Running ==
    /\ ~Sending => run.send = 0 /\ run.attempt = 0 /\ ~run.recorded /\ ~run.here
    /\ Sending => run.send = Len(paid) /\ Len(paid) >= 1 /\ run.attempt >= 1
    /\ at \notin {"idle", "ended"} => shown.job.send = Len(paid) /\ shown.job.ending = "running"
    /\ at \in {"idle", "ended"} => shown.job.ending # "running"
    /\ at = "ended" => run.ending # "none"
    /\ shown.job = NoJob \/ (shown.job.send = Len(paid) /\ Len(paid) >= 1)

RowsTell ==
    /\ \A t \in Tx : rows[t] # "none" => t[1] <= Len(paid)
    /\ \A t \in heard : rows[t] # "none"
    /\ Sending => \A t \in Tx : t[1] = run.send /\ rows[t] # "none"
                      => t = tx /\ at \notin {"building", "proving"} /\ rows[t] = "pending"
    /\ at \in {"noting", "clearing", "submitting", "discarding"} => rows[tx] = "pending"
    /\ at \in {"noting", "clearing", "discarding"} => tx \notin heard
    /\ at = "ended" /\ run.ending \in {"failed", "stopped", "asks"} => tx \notin heard

\* A transaction that stands is one the node has taken, and whose coins are not known to be gone.
Stands(t) == t \in heard /\ rows[t] # "conflicted"

JobTrue == shown.job.ending \in {"failed", "stopped"} => \A t \in heard : t[1] # shown.job.send

(* A payment goes out once: after a send of it that stands there is no other. *)
PaidOnce == \A t \in Tx : Stands(t) => \A s \in 1 .. Len(paid) : s > t[1] => paid[s] # paid[t[1]]

NotBack == \A t \in Tx : Stands(t) /\ (Sending => t # tx) => paid[t[1]] \notin {send.form, send.draft}

OwnForm ==
    /\ at \in {"clearing", "submitting", "discarding"} => run.recorded
    /\ at = "ended" /\ run.ending \in {"sent", "unconfirmed"} => run.recorded
    /\ Sending => send.form \in {0, paid[run.send]} /\ (~run.here => send.draft \in {0, paid[run.send]})
    /\ run.here => send.open
    /\ run.recorded => send.recorded = paid[run.send] /\ send.draft = 0
    /\ Sending /\ ~run.here /\ (at # "ended" \/ run.recorded) => send.form = 0 /\ send.draft = 0

PayInv == FlowType /\ Running /\ RowsTell /\ JobTrue /\ PaidOnce /\ NotBack /\ OwnForm

(* What is said of the sends that did not go out *)

OneRow == \A t, u \in Tx : rows[t] # "none" /\ rows[u] # "none" /\ t[1] = u[1] => t = u

\* Of send s it may be said that it did not go out: a is where the send in hand is, n the newest send.
MaySay(s, a, h, r, n) ==
    /\ s \in Counts /\ s <= n /\ (a \notin {"idle", "ended"} => s # n)
    /\ \A t \in Tx : t \in h /\ t[1] = s => r[t] = "conflicted"

SaidTrue ==
    /\ MaySay(log.failure, at, heard, rows, Len(paid)) /\ MaySay(shown.failure, at, heard, rows, Len(paid))
    /\ MaySay(unsaved, at, heard, rows, Len(paid)) /\ MaySay(refresh.failure, at, heard, rows, Len(paid))

\* The note that a send is running is about the newest send, and read before its row settles.
StartedTells ==
    /\ log.started \in {0, Len(paid)}
    /\ refresh.at = "started" => ~Sending
    /\ log.started # 0 /\ ~Sending /\ ~lock.locked => refresh.at \in {"last", "started"}
    /\ log.started # 0 => \A t \in Tx : t[1] = Len(paid) => rows[t] \in {"none", "pending"}

SaidInv == PayInv /\ OneRow /\ SaidTrue /\ StartedTells

(* What is said of the newest send *)

Newest == Len(paid)

\* The person has seen its end, or its row tells it.
Known == Newest = 0 \/ Newest \in told \/ \E t \in Tx : t[1] = Newest /\ rows[t] \notin {"none", "pending"}

\* A note about a transaction whose coins went elsewhere.
Bad(n, r) == n # None /\ r[n.tx] = "conflicted"

ToldHolds ==
    /\ ~lock.locked /\ lock.visible =>
         /\ shown.failure # 0 => shown.failure \in told
         /\ shown.last.tx[1] # 0 => shown.last.tx[1] \in told
         /\ shown.job.ending \in {"sent", "unconfirmed", "failed"} => shown.job.send \in told
    /\ shown.job.ending = "stopped" => shown.job.send \in told

LockHolds ==
    /\ ~lock.visible /\ ~lock.locked => lock.waiting
    /\ lock.waiting => Sending
    /\ lock.locked => refresh.at = "off" /\ ~lock.waiting /\ ~send.open

UnsavedHolds == unsaved \in {0, Newest} /\ (unsaved # 0 => lock.locked)

\* While its end is not known a sealed note names the send, but for the moment GivenWay tells.
Witness ==
    /\ Known \/ GivenWay \/ Newest \in {log.started, log.last.tx[1], log.failure}
    /\ at \notin {"idle", "ended"} => log.started = Newest \/ (run.recorded /\ log.last.tx[1] = Newest)
    /\ at = "clearing" => lock.locked \/ log.last.tx[1] = Newest
    /\ at = "ended" /\ Written /\ run.ending # "asks" =>
          Newest \in told \/ log.last.tx[1] = Newest \/ log.failure = Newest \/ (lock.locked /\ log.started = Newest)
    /\ at = "ended" => Newest \in told \/ (shown.job.send = Newest /\ shown.job.ending = run.ending)

\* A note still to be written leaves the one it takes the place of until then.
Pending == at = "ended" =>
    /\ "last" \in run.pending => run.recorded /\ (log.started = Newest \/ log.last.tx[1] = Newest)
    /\ "last" \in run.pending /\ run.ending = "failed" => "failure" \in run.pending
    /\ run.pending # {} /\ run.ending \in {"sent", "unconfirmed"} => "last" \in run.pending /\ (Newest \in told \/ run.note.tx[1] = Newest)
    /\ run.pending # {} => run.ending # "stopped"
    /\ run.ending = "asks" => "failure" \notin run.pending /\ (run.recorded \/ log.started = Newest)

\* The review that will ask is there.
AskSeen == Asking => run.here /\ lock.visible /\ ~lock.waiting /\ ~lock.locked

\* A refresh carries that name from read to read until it is on the page.
Carries ==
    ~Sending =>
        /\ ~lock.locked /\ refresh.at = "off" => Known
        /\ refresh.at = "last" => Known \/ Newest \in {log.started, refresh.failure, log.last.tx[1]}
        /\ refresh.at = "started" => Known \/ Newest \in {log.started, refresh.failure, refresh.sent.tx[1]}
        /\ refresh.at = "show" => Known \/ Newest \in {refresh.failure, refresh.sent.tx[1]}
        /\ refresh.at # "off" /\ refresh.failure = Newest => Known \/ log.failure = Newest
        /\ refresh.at \in {"started", "show"} /\ refresh.sent.tx[1] = Newest => Known \/ log.last.tx[1] = Newest

\* No note stays whose coins went elsewhere: it would take the place of the newest send's.
Elsewhere ==
    /\ Sending => ~Bad(log.last, rows) /\ ~Bad(shown.last, rows) /\ ~Bad(run.earlier, rows) /\ ~Bad(run.note, rows) /\ (refresh.at = "show" => ~Bad(refresh.sent, rows))
    /\ ~Sending /\ Bad(log.last, rows) => Known
    /\ ~Sending /\ refresh.at \in {"started", "show"} /\ Bad(refresh.sent, rows) => Known
    /\ ~Sending /\ refresh.at \in {"started", "show"} /\ Bad(log.last, rows) => refresh.sent = log.last
    /\ ~Sending /\ ~lock.locked /\ refresh.at = "off" => ~Bad(log.last, rows) /\ ~Bad(shown.last, rows)

Shows ==
    /\ shown.job.ending = "asks" => Asking
    /\ ~Sending /\ (shown.failure # 0 \/ shown.last # None) =>
           Known \/ (shown.job.send = Newest /\ shown.job.ending \in {"sent", "unconfirmed", "failed"})

EndCore == LockHolds /\ UnsavedHolds /\ Witness /\ Pending /\ AskSeen /\ Carries /\ Elsewhere /\ Shows
EndInv == SaidInv /\ ToldHolds /\ EndCore

-----------------------------------------------------------------------------
(* Types *)

LEMMA Numbers ==
    /\ MaxSends \in Nat /\ MaxSends >= 1 /\ MAX_SEND_ATTEMPTS \in Nat /\ MAX_SEND_ATTEMPTS >= 1 /\ 0 \notin Payment
    /\ Sends = 1 .. MaxSends /\ Sends \subseteq Counts /\ 0 \in Counts /\ \A i \in Counts : i \in Nat /\ i <= MaxSends
  <1>1. MaxSends \in Nat \ {0} /\ MAX_SEND_ATTEMPTS \in Nat \ {0} /\ 0 \notin Payment  BY SendFlowAssumption, Zenon
  <1>2. /\ MaxSends \in Nat /\ MaxSends >= 1 /\ MAX_SEND_ATTEMPTS \in Nat /\ MAX_SEND_ATTEMPTS >= 1
    BY <1>1
  <1> QED BY <1>1, <1>2 DEF Sends, Counts

LEMMA Transactions ==
    /\ \A t \in Tx : t[1] \in Sends /\ t[2] \in 1 .. MAX_SEND_ATTEMPTS /\ t = <<t[1], t[2]>>
    /\ \A s \in Sends, k \in 1 .. MAX_SEND_ATTEMPTS : <<s, k>> \in Tx /\ <<s, k>>[1] = s
  BY DEF Tx

LEMMA NoteIs ==
    /\ None \in Notes /\ None.tx = <<0, 0>> /\ None.tx[1] = 0 /\ None.state = "none"
    /\ \A n \in Notes : n # None => n.tx \in Tx /\ n.tx[1] \in Sends
    /\ \A t \in Tx : \A s \in {"submitted", "unconfirmed"} : [tx |-> t, state |-> s] \in Notes
    /\ \A t \in Tx : \A s \in {"submitted", "unconfirmed"} : [tx |-> t, state |-> s].tx = t /\ [tx |-> t, state |-> s] # None
  <1>1. \A t \in Tx : t[1] \in Sends  BY Transactions
  <1>2. None.tx = <<0, 0>> /\ None.state = "none" /\ <<0, 0>>[1] = 0  BY DEF None
  <1>3. \A n \in Notes : n # None => n.tx \in Tx  BY DEF Notes
  <1>4. \A t \in Tx : \A s \in {"submitted", "unconfirmed"} : [tx |-> t, state |-> s] # None  BY <1>2
  <1> QED BY <1>1, <1>2, <1>3, <1>4 DEF Notes

LEMMA InHand == CoreType /\ Running /\ Sending => tx \in Tx /\ tx[1] = run.send /\ run.send \in Sends /\ run.send = Len(paid) /\ paid[run.send] \in Payment
  <1> SUFFICES ASSUME CoreType, Running, Sending PROVE tx \in Tx /\ tx[1] = run.send /\ run.send \in Sends /\ run.send = Len(paid) /\ paid[run.send] \in Payment
    OBVIOUS
  <1>1. run.send = Len(paid) /\ Len(paid) >= 1 /\ run.attempt >= 1  BY DEF Running
  <1>2. run.attempt \in 1 .. MAX_SEND_ATTEMPTS  BY <1>1, Numbers DEF CoreType, Runs
  <1>3. run.send \in Sends /\ run.send \in 1 .. Len(paid)  BY <1>1, Numbers, LenProperties DEF CoreType
  <1>4. paid[run.send] \in Payment  BY <1>3, ElementOfSeq DEF CoreType
  <1> QED BY <1>1, <1>2, <1>3, <1>4, Transactions DEF tx

LEMMA TypeInit == Init => FlowType
  <1> SUFFICES ASSUME Init PROVE FlowType  OBVIOUS
  <1> USE NoteIs, Numbers
  <1>1. NoRun \in Runs /\ NoJob \in Jobs /\ NoRefresh \in Refreshes  BY DEF NoRun, NoJob, NoRefresh, Runs, Jobs, Refreshes
  <1>2. log \in Logs /\ shown \in Pages /\ lock \in Locks /\ send \in Forms  BY <1>1 DEF Init, Logs, Pages, Locks, Forms, OnForm
  <1>3. paid \in Seq(Payment) /\ Len(paid) = 0  BY DEF Init
  <1> QED BY <1>1, <1>2, <1>3 DEF Init, FlowType, CoreType

\* What stays where only the screens, the notes and the page move.
SendKept == UNCHANGED <<at, rows, heard, paid>>
RunKept == run'.send = run.send /\ run'.attempt = run.attempt /\ run'.recorded = run.recorded /\ run'.earlier = run.earlier /\ run'.ending = run.ending
           /\ run'.pending = run.pending /\ run'.note = run.note
JobKept == shown'.job = shown.job \/ (shown'.job = NoJob /\ at \in {"idle", "ended"})

LEMMA NotedIs ==
    ASSUME CoreType, NEW v
    PROVE  /\ v \in Counts => Noted("started", v) \in Logs /\ Noted("failure", v) \in Logs
           /\ v \in Notes => Noted("last", v) \in Logs
           /\ Noted("started", v).started = (IF lock.locked THEN log.started ELSE v)
           /\ Noted("started", v).last = log.last /\ Noted("started", v).failure = log.failure
           /\ Noted("failure", v).failure = (IF lock.locked THEN log.failure ELSE v)
           /\ Noted("failure", v).last = log.last /\ Noted("failure", v).started = log.started
           /\ Noted("last", v).last = (IF lock.locked THEN log.last ELSE v)
           /\ Noted("last", v).started = log.started /\ Noted("last", v).failure = log.failure
  BY DEF CoreType, Logs, Noted

LEMMA VisitIs ==
    ASSUME CoreType, Visit
    PROVE  /\ CoreType' /\ UNCHANGED <<at, run, log, rows, heard, shown, unsaved, lock, refresh, paid>>
           /\ send'.form = send.draft /\ send'.draft = send.draft /\ send'.recorded = send.recorded
           /\ ~lock.locked /\ lock.visible
  BY DEF CoreType, Visit, Forms

LEMMA UnmountedIs ==
    ASSUME CoreType
    PROVE  /\ Unmounted \in Forms /\ Unmounted.recorded = send.recorded
           /\ Unmounted.form \in {0, send.form} /\ Unmounted.draft \in {0, send.form, send.draft}
           /\ ~send.open => Unmounted = send
           /\ send.open => /\ Unmounted.form = 0 /\ Unmounted.draft \in {0, send.form}
                           /\ (shown.job.ending = "running" \/ send.form = send.recorded => Unmounted.draft = 0)
  BY DEF CoreType, Forms, OnForm, Unmounted, KeepSendDraft

LEMMA LeaveIs ==
    ASSUME CoreType, Leave
    PROVE  /\ CoreType' /\ SendKept /\ RunKept /\ UNCHANGED <<unsaved, lock, refresh>>
           /\ send'.form = 0 /\ send'.recorded = send.recorded
           /\ send'.draft \in {0, send.form} /\ (shown.job.ending = "running" \/ send.form = send.recorded => send'.draft = 0)
           /\ ~run'.here
           /\ shown'.failure = shown.failure
           /\ shown'.job = (IF shown.job.ending \in {"none", "running"} THEN shown.job ELSE NoJob)
           /\ shown.job.ending = "sent" => shown'.last = None
           /\ log'.last = (IF shown.job.ending = "sent" /\ ~lock.locked THEN None ELSE log.last)
           /\ shown.job.ending # "sent" => shown'.last = shown.last /\ log' = log
           /\ log'.started = log.started /\ log'.failure = log.failure
           /\ send.open /\ lock.visible
           /\ shown.job.ending = "sent" => Written
           /\ Asking => "asks unseen" \in Rare
  <1> USE Numbers, NoteIs
  <1> DEFINE done == shown.job.ending \notin {"none", "running"}
             over == shown.job.ending = "sent"
  <1>1. send.open /\ lock.visible /\ send' = Unmounted  BY DEF Leave, Here
  <1>2. send' \in Forms /\ send'.form = 0 /\ send'.recorded = send.recorded /\ send'.draft \in {0, send.form}
        /\ (shown.job.ending = "running" \/ send.form = send.recorded => send'.draft = 0)
    BY <1>1, UnmountedIs
  <1>3. run' \in Runs /\ RunKept /\ ~run'.here  BY DEF Leave, CoreType, Runs, RunKept
  <1>4. NoJob \in Jobs  BY DEF NoJob, Jobs
  <1>5. shown' = [shown EXCEPT !.job = IF done THEN NoJob ELSE @, !.last = IF over THEN None ELSE @]  BY DEF Leave
  <1>6. shown' \in Pages /\ shown'.job = (IF done THEN NoJob ELSE shown.job) /\ shown'.last = (IF over THEN None ELSE shown.last)
        /\ shown'.failure = shown.failure
    BY <1>4, <1>5 DEF CoreType, Pages
  <1>7. log' = IF over THEN Noted("last", None) ELSE log  BY DEF Leave
  <1>8. log' \in Logs /\ log'.started = log.started /\ log'.failure = log.failure /\ log'.last = (IF over /\ ~lock.locked THEN None ELSE log.last)
    BY <1>7, NotedIs DEF CoreType
  <1>9. UNCHANGED <<at, rows, heard, unsaved, lock, refresh, paid>> /\ (shown.job.ending = "sent" => Written) /\ (Asking => "asks unseen" \in Rare)
    BY DEF Leave
  <1>10. CoreType'  BY <1>2, <1>3, <1>6, <1>8, <1>9 DEF CoreType
  <1>11. shown' = shown => shown'.last = shown.last  OBVIOUS
  <1>12. shown.job.ending # "sent" => shown'.last = shown.last /\ log' = log  BY <1>6, <1>7
  <1> QED BY <1>1, <1>2, <1>3, <1>6, <1>7, <1>8, <1>9, <1>10, <1>12 DEF SendKept

LEMMA TypeIs ==
    ASSUME CoreType, NEW p \in Payment, Type(p)
    PROVE  /\ CoreType' /\ UNCHANGED <<at, run, log, rows, heard, shown, unsaved, lock, refresh, paid>>
           /\ send'.form = p /\ send'.draft = send.draft /\ send'.recorded = send.recorded
           /\ ~Sending /\ \A i \in 1 .. Len(paid) : paid[i] # p
  <1>1. send' \in Forms /\ send'.form = p /\ send'.draft = send.draft /\ send'.recorded = send.recorded
    BY DEF CoreType, Type, Forms, OnForm
  <1>2. \A i \in 1 .. Len(paid) : paid[i] # p  BY DEF Type, Range, CoreType
  <1> QED BY <1>1, <1>2 DEF Type, CoreType

LEMMA RefillIs ==
    ASSUME CoreType, Running, Refill
    PROVE  /\ CoreType' /\ SendKept /\ UNCHANGED <<run, unsaved, lock, refresh>>
           /\ send'.form = paid[Len(paid)] /\ send'.draft = send.draft /\ send'.recorded = send.recorded
           /\ shown'.job = NoJob /\ shown'.failure = 0 /\ shown'.last = shown.last
           /\ log'.last = log.last /\ log'.started = log.started /\ log'.failure \in {0, log.failure}
           /\ ~Sending /\ shown.job.ending = "failed" /\ shown.job.send = Len(paid) /\ lock.visible /\ send.open
  <1> USE Numbers
  <1>0. NoJob \in Jobs /\ NoJob.ending = "none"  BY DEF NoJob, Jobs
  <1>1. ~Sending /\ shown.job.ending = "failed" /\ lock.visible /\ send.open /\ UNCHANGED <<at, rows, heard, paid, run, unsaved, lock, refresh>>
        /\ send' = [send EXCEPT !.form = paid[shown.job.send]]
        /\ shown' = [shown EXCEPT !.job = NoJob, !.failure = 0] /\ log' = Noted("failure", 0)
    BY DEF Refill, Here
  <1>2. shown.job.send = Len(paid) /\ shown.job.send \in Counts /\ Len(paid) >= 1  BY <1>1, <1>0 DEF Running, CoreType, Pages, Jobs
  <1>3. shown' \in Pages /\ shown'.job = NoJob /\ shown'.failure = 0 /\ shown'.last = shown.last  BY <1>0, <1>1 DEF CoreType, Pages
  <1>4. log' \in Logs /\ log'.last = log.last /\ log'.started = log.started /\ log'.failure \in {0, log.failure}
    BY <1>1, NotedIs
  <1> DEFINE again == paid[Len(paid)]
  <1>5. Len(paid) \in 1 .. Len(paid)  BY <1>2, LenProperties DEF CoreType
  <1>6. again \in Payment  BY <1>5, ElementOfSeq DEF CoreType
  <1>7. send' \in Forms /\ send'.form = again /\ send'.draft = send.draft /\ send'.recorded = send.recorded
    <2> HIDE DEF again
    <2>1. send' = [send EXCEPT !.form = again]  BY <1>1, <1>2 DEF again
    <2> QED BY <2>1, <1>6 DEF CoreType, Forms, OnForm
  <1> QED BY <1>1, <1>2, <1>3, <1>4, <1>7 DEF CoreType, SendKept

LEMMA DismissResultIs ==
    ASSUME CoreType, DismissResult
    PROVE  /\ CoreType' /\ SendKept /\ UNCHANGED <<run, unsaved, lock, refresh, send>>
           /\ shown'.job = NoJob /\ shown'.last \in {None, shown.last} /\ shown'.failure \in {0, shown.failure}
           /\ log'.last \in {None, log.last} /\ log'.started = log.started /\ log'.failure \in {0, log.failure}
           /\ Written /\ shown.job.ending \in {"sent", "unconfirmed", "failed", "stopped"} /\ (shown.job.ending \notin {"sent", "unconfirmed", "failed"} => log' = log)
           /\ lock.visible /\ send.open
  <1> USE NoteIs, Numbers
  <1>0. NoJob \in Jobs  BY DEF NoJob, Jobs
  <1> DEFINE about == shown.job.ending
             l == IF about \in {"sent", "unconfirmed"} THEN None ELSE shown.last
             f == IF about = "failed" THEN 0 ELSE shown.failure
  <1>1. shown' = [job |-> NoJob, last |-> l, failure |-> f]  BY DEF DismissResult
  <1>2. l \in Notes /\ f \in Counts /\ l \in {None, shown.last} /\ f \in {0, shown.failure}  BY DEF CoreType, Pages
  <1>3. shown' \in Pages /\ shown'.job = NoJob /\ shown'.last = l /\ shown'.failure = f
    <2> HIDE DEF l, f
    <2> QED BY <1>0, <1>1, <1>2 DEF Pages
  <1>4. /\ about \in {"sent", "unconfirmed"} => log' = Noted("last", None)
        /\ about = "failed" => log' = Noted("failure", 0)
        /\ about \notin {"sent", "unconfirmed", "failed"} => log' = log
    BY DEF DismissResult
  <1>5. log' \in Logs /\ log'.last \in {None, log.last} /\ log'.started = log.started /\ log'.failure \in {0, log.failure}
    <2>1. CASE about \in {"sent", "unconfirmed"}  BY <2>1, <1>4, NotedIs
    <2>2. CASE about = "failed"  BY <2>2, <1>4, NotedIs
    <2>3. CASE about \notin {"sent", "unconfirmed", "failed"}  BY <2>3, <1>4 DEF CoreType
    <2> QED BY <2>1, <2>2, <2>3
  <1>6. lock.visible /\ send.open /\ Written /\ about \in {"sent", "unconfirmed", "failed", "stopped"}
        /\ UNCHANGED <<at, run, rows, heard, unsaved, lock, refresh, send, paid>>
    BY DEF DismissResult, Here
  <1> QED BY <1>2, <1>3, <1>4, <1>5, <1>6 DEF CoreType, SendKept

LEMMA DismissNoteIs ==
    ASSUME CoreType, Running, DismissNote
    PROVE  /\ CoreType' /\ SendKept /\ JobKept /\ UNCHANGED <<run, unsaved, lock, refresh, send>>
           /\ shown'.last \in {None, shown.last} /\ shown'.failure \in {0, shown.failure}
           /\ log'.last \in {None, log.last} /\ log'.started = log.started /\ log'.failure \in {0, log.failure}
           /\ ~run.recorded \/ "dismiss" \in Rare
           /\ Written /\ ~lock.locked /\ lock.visible /\ (shown.failure # 0 \/ shown.last # None)
  <1> USE NoteIs, Numbers
  <1>0. NoJob \in Jobs  BY DEF NoJob, Jobs
  <1> DEFINE job == IF shown.job.ending = "running" THEN shown.job ELSE NoJob
  <1>1. Written /\ ~lock.locked /\ lock.visible /\ (~run.recorded \/ "dismiss" \in Rare) /\ UNCHANGED <<at, run, rows, heard, unsaved, lock, refresh, send, paid>>
    BY DEF DismissNote
  <1>2. \/ /\ shown.failure # 0 /\ shown' = [shown EXCEPT !.failure = 0, !.job = job] /\ log' = Noted("failure", 0)
        \/ /\ shown.last # None /\ shown' = [shown EXCEPT !.last = None, !.job = job] /\ log' = Noted("last", None)
    BY DEF DismissNote
  <1>3. job \in Jobs /\ (job = shown.job \/ (job = NoJob /\ at \in {"idle", "ended"}))
    BY <1>0 DEF CoreType, Pages, Running
  <1>4. /\ shown' \in Pages /\ shown'.last \in {None, shown.last} /\ shown'.failure \in {0, shown.failure} /\ shown'.job = job
        /\ log' \in Logs /\ log'.last \in {None, log.last} /\ log'.started = log.started /\ log'.failure \in {0, log.failure}
        /\ (shown.failure # 0 \/ shown.last # None)
    <2> HIDE DEF job
    <2>1. CASE /\ shown.failure # 0 /\ shown' = [shown EXCEPT !.failure = 0, !.job = job] /\ log' = Noted("failure", 0)
      BY <2>1, <1>3, NotedIs DEF CoreType, Pages
    <2>2. CASE /\ shown.last # None /\ shown' = [shown EXCEPT !.last = None, !.job = job] /\ log' = Noted("last", None)
      BY <2>2, <1>3, NotedIs DEF CoreType, Pages
    <2> QED BY <2>1, <2>2, <1>2
  <1> QED BY <1>1, <1>3, <1>4 DEF CoreType, SendKept, JobKept

LEMMA StartSendIs ==
    ASSUME CoreType, StartSend
    PROVE  /\ CoreType' /\ UNCHANGED <<rows, heard, unsaved, lock, refresh, send>>
           /\ ~Sending /\ at' = "building" /\ ~lock.locked /\ lock.visible /\ send.open /\ send.form \in Payment
           /\ refresh.at = "off" \/ "overlap" \in Rare
           /\ Len(paid') = Len(paid) + 1 /\ paid'[Len(paid) + 1] = send.form /\ \A i \in 1 .. Len(paid) : paid'[i] = paid[i]
           /\ run'.send = Len(paid) + 1 /\ run'.attempt = 1 /\ ~run'.recorded /\ run'.here /\ run'.earlier = shown.last /\ run'.note = None
           /\ shown'.job.send = Len(paid) + 1 /\ shown'.job.ending = "running" /\ shown'.last = shown.last /\ shown'.failure = shown.failure
           /\ log'.started = Len(paid) + 1 /\ log'.last = log.last /\ log'.failure = log.failure
  <1> USE Numbers, NoteIs
  <1> DEFINE n == Len(paid) + 1
  <1>1. ~Sending /\ ~lock.locked /\ lock.visible /\ send.open /\ send.form # 0 /\ Len(paid) < MaxSends /\ (refresh.at = "off" \/ "overlap" \in Rare)
    BY DEF StartSend, Confirmed, Here
  <1>2. send.form \in Payment  BY <1>1 DEF CoreType, Forms, OnForm
  <1>3. Len(paid) \in Nat  BY LenProperties DEF CoreType
  <1>4. n \in Counts /\ n \in Nat  BY <1>1, <1>3 DEF Counts
  <1>5. paid' = Append(paid, send.form)  BY DEF StartSend
  <1>6. /\ paid' \in Seq(Payment) /\ Len(paid') = n /\ paid'[n] = send.form /\ \A i \in 1 .. Len(paid) : paid'[i] = paid[i]
    BY <1>2, <1>5, AppendProperties DEF CoreType
  <1>7. Len(paid') <= MaxSends  BY <1>1, <1>3, <1>6
  <1> HIDE DEF n
  <1>8. NoRun \in Runs /\ ~NoRun.recorded /\ NoRun.note = None  BY DEF NoRun, Runs
  <1>9. run' = [NoRun EXCEPT !.send = n, !.attempt = 1, !.here = TRUE, !.earlier = shown.last]  BY DEF StartSend, n
  <1>10. shown.last \in Notes  BY DEF CoreType, Pages
  <1>11. run' \in Runs /\ run'.send = n /\ run'.attempt = 1 /\ ~run'.recorded /\ run'.here /\ run'.earlier = shown.last /\ run'.note = None
    <2>1. 1 \in 0 .. MAX_SEND_ATTEMPTS  OBVIOUS
    <2> QED BY <1>4, <1>8, <1>9, <1>10, <2>1 DEF Runs
  <1>12. shown' = [shown EXCEPT !.job = [send |-> n, ending |-> "running"]]  BY DEF StartSend, n
  <1> DEFINE job == [send |-> n, ending |-> "running"]
  <1>13. job \in Jobs /\ job.send = n /\ job.ending = "running"  BY <1>4 DEF Jobs
  <1>14. shown' \in Pages /\ shown'.job = job /\ shown'.last = shown.last /\ shown'.failure = shown.failure
    <2> HIDE DEF job
    <2>1. shown' = [shown EXCEPT !.job = job]  BY <1>12 DEF job
    <2> QED BY <2>1, <1>13 DEF CoreType, Pages
  <1>15. log' = Noted("started", n)  BY DEF StartSend, n
  <1>16. log' \in Logs /\ log'.started = n /\ log'.last = log.last /\ log'.failure = log.failure
    BY <1>1, <1>4, <1>15, NotedIs
  <1>17. at' = "building" /\ UNCHANGED <<rows, heard, unsaved, lock, refresh, send>>  BY DEF StartSend
  <1>18. CoreType'  BY <1>6, <1>7, <1>11, <1>14, <1>16, <1>17 DEF CoreType
  <1>19. n = Len(paid) + 1  BY DEF n
  <1> QED BY <1>1, <1>2, <1>6, <1>11, <1>13, <1>14, <1>16, <1>17, <1>18, <1>19

LEMMA CancelSendIs ==
    ASSUME CoreType, CancelSend
    PROVE  CoreType' /\ SendKept /\ RunKept /\ run'.here = run.here /\ UNCHANGED <<log, shown, unsaved, lock, refresh, send>>
  <1>1. run' \in Runs /\ RunKept /\ run'.here = run.here  BY DEF CancelSend, CoreType, Runs, RunKept
  <1> QED BY <1>1 DEF CancelSend, CoreType, SendKept

(* The end of a send *)

EndKept == UNCHANGED <<log, heard, unsaved, lock, refresh, paid>> /\ at' = "ended" /\ shown'.job.send = shown.job.send /\ run'.send = run.send
           /\ run'.attempt = run.attempt /\ run'.recorded = run.recorded /\ run'.earlier = run.earlier /\ run'.here = run.here

LEMMA EndsIs ==
    ASSUME CoreType, NEW ending \in Endings, NEW writes \in SUBSET {"last", "failure"}, NEW last \in Notes, NEW failure \in Counts,
           Ends(ending, writes, last, failure)
    PROVE  /\ EndKept /\ run' \in Runs /\ shown' \in Pages
           /\ shown'.job.ending = ending /\ run'.ending = ending /\ run'.pending = writes /\ run'.note = last
           /\ shown'.last = (IF "last" \in writes THEN last ELSE shown.last)
           /\ shown'.failure = (IF "failure" \in writes THEN failure ELSE shown.failure)
  <1> DEFINE l == IF "last" \in writes THEN last ELSE shown.last
             f == IF "failure" \in writes THEN failure ELSE shown.failure
             job == [shown.job EXCEPT !.ending = ending]
  <1>1. l \in Notes /\ f \in Counts /\ shown.job \in Jobs  BY DEF CoreType, Pages
  <1>2. job \in Jobs /\ job.send = shown.job.send /\ job.ending = ending  BY <1>1 DEF Jobs
  <1>3. shown' = [job |-> job, last |-> l, failure |-> f]  BY DEF Ends
  <1>4. shown' \in Pages /\ shown'.job = job /\ shown'.last = l /\ shown'.failure = f
    <2> HIDE DEF job, l, f
    <2> QED BY <1>1, <1>2, <1>3 DEF Pages
  <1>5. run' = [run EXCEPT !.ending = ending, !.pending = writes, !.note = last]  BY DEF Ends
  <1>6. /\ run' \in Runs /\ run'.ending = ending /\ run'.pending = writes /\ run'.note = last
        /\ run'.send = run.send /\ run'.attempt = run.attempt /\ run'.recorded = run.recorded
        /\ run'.earlier = run.earlier /\ run'.here = run.here
    BY <1>5 DEF CoreType, Runs
  <1>7. UNCHANGED <<log, heard, unsaved, lock, refresh, paid>> /\ at' = "ended"  BY DEF Ends
  <1> QED BY <1>2, <1>4, <1>6, <1>7 DEF EndKept

LEMMA EarlierIs == CoreType => Earlier \in SUBSET {"last", "failure"} /\ ("last" \in Earlier <=> run.recorded) /\ "failure" \notin Earlier
                               /\ run.earlier \in Notes /\ run.send \in Counts
  BY DEF Earlier, CoreType, Runs

LEMMA StoppedIs ==
    ASSUME CoreType, Stopped
    PROVE  /\ CoreType' /\ EndKept /\ UNCHANGED <<rows, send>>
           /\ shown'.job.ending = "stopped" /\ run'.ending = "stopped" /\ run'.pending = {} /\ run'.note = None
           /\ shown'.last = shown.last /\ shown'.failure = shown.failure
  <1>1. Ends("stopped", {}, None, 0) /\ UNCHANGED <<rows, send>>  BY DEF Stopped
  <1>2. /\ EndKept /\ run' \in Runs /\ shown' \in Pages
        /\ shown'.job.ending = "stopped" /\ run'.ending = "stopped" /\ run'.pending = {} /\ run'.note = None
        /\ shown'.last = shown.last /\ shown'.failure = shown.failure
    BY <1>1, EndsIs, NoteIs, Numbers DEF Endings
  <1> QED BY <1>1, <1>2 DEF CoreType, EndKept

LEMMA FailedIs ==
    ASSUME CoreType, Failed, rows' \in [Tx -> {"none", "pending", "over", "conflicted"}]
    PROVE  /\ CoreType' /\ EndKept /\ UNCHANGED send
           /\ shown'.job.ending = "failed" /\ run'.ending = "failed" /\ run'.note = run.earlier
           /\ run'.pending = (IF run.recorded THEN {"last", "failure"} ELSE {"failure"})
           /\ shown'.last = (IF run.recorded THEN run.earlier ELSE shown.last) /\ shown'.failure = run.send
  <1> DEFINE w == Earlier \cup {"failure"}
  <1>1. Ends("failed", w, run.earlier, run.send) /\ UNCHANGED send  BY DEF Failed
  <1>2. run.earlier \in Notes /\ run.send \in Counts /\ w \in SUBSET {"last", "failure"}  BY EarlierIs
  <1>3. ("last" \in w <=> run.recorded) /\ "failure" \in w  BY EarlierIs
  <1>4. w = (IF run.recorded THEN {"last", "failure"} ELSE {"failure"})  BY DEF Earlier
  <1> HIDE DEF w
  <1>5. /\ EndKept /\ run' \in Runs /\ shown' \in Pages
        /\ shown'.job.ending = "failed" /\ run'.ending = "failed" /\ run'.pending = w /\ run'.note = run.earlier
        /\ shown'.last = (IF "last" \in w THEN run.earlier ELSE shown.last)
        /\ shown'.failure = (IF "failure" \in w THEN run.send ELSE shown.failure)
    <2>1. "failed" \in Endings  BY DEF Endings
    <2> QED BY <1>1, <1>2, <2>1, EndsIs
  <1> QED BY <1>1, <1>3, <1>4, <1>5 DEF CoreType, EndKept

LEMMA GoesOutIs ==
    ASSUME CoreType, Running, Sending, Unconfirmed \/ Sent
    PROVE  /\ CoreType' /\ EndKept /\ UNCHANGED rows
           /\ send'.form = send.form /\ send'.recorded = send.recorded /\ send'.draft = 0 /\ send'.open = send.open
           /\ shown'.job.ending \in {"sent", "unconfirmed"} /\ run'.ending = shown'.job.ending /\ run'.pending = {"last", "failure"}
           /\ shown'.failure = 0
           /\ \/ Seen /\ shown'.last = None
              \/ shown'.last \in Notes /\ shown'.last.tx = tx
           /\ run'.note = shown'.last
  <1> USE NoteIs, Numbers
  <1>1. tx \in Tx  BY InHand
  <1> DEFINE unsure == [tx |-> tx, state |-> "unconfirmed"]
             sure == [tx |-> tx, state |-> "submitted"]
             note == IF Seen THEN None ELSE sure
  <1>2. unsure \in Notes /\ unsure.tx = tx /\ sure \in Notes /\ sure.tx = tx /\ note \in Notes /\ (Seen \/ note.tx = tx) /\ (Seen => note = None)
    BY <1>1
  <1>3. CASE Unconfirmed
    <2>1. Ends("unconfirmed", {"last", "failure"}, unsure, 0) /\ rows' = rows /\ send' = [send EXCEPT !.draft = 0]
      BY <1>3 DEF Unconfirmed
    <2> HIDE DEF unsure
    <2>2. /\ EndKept /\ run' \in Runs /\ shown' \in Pages
          /\ shown'.job.ending = "unconfirmed" /\ run'.ending = "unconfirmed" /\ shown'.last = unsure /\ shown'.failure = 0
          /\ run'.pending = {"last", "failure"} /\ run'.note = unsure
      BY <2>1, <1>2, EndsIs DEF Endings
    <2>3. send' \in Forms /\ send'.form = send.form /\ send'.recorded = send.recorded /\ send'.draft = 0 /\ send'.open = send.open
      BY <2>1 DEF CoreType, Forms, OnForm
    <2> QED BY <2>1, <2>2, <2>3, <1>2 DEF CoreType, EndKept
  <1>4. CASE Sent
    <2>1. Ends("sent", {"last", "failure"}, note, 0) /\ rows' = rows /\ send' = [send EXCEPT !.draft = 0]
      BY <1>4 DEF Sent
    <2>4. "sent" \in Endings /\ {"last", "failure"} \in SUBSET {"last", "failure"} /\ note \in Notes /\ 0 \in Counts  BY <1>2 DEF Endings
    <2> HIDE DEF note
    <2>2. /\ EndKept /\ run' \in Runs /\ shown' \in Pages
          /\ shown'.job.ending = "sent" /\ run'.ending = "sent" /\ shown'.last = note /\ shown'.failure = 0
          /\ run'.pending = {"last", "failure"} /\ run'.note = note
      BY <2>1, <2>4, EndsIs
    <2>3. send' \in Forms /\ send'.form = send.form /\ send'.recorded = send.recorded /\ send'.draft = 0 /\ send'.open = send.open
      BY <2>1 DEF CoreType, Forms, OnForm
    <2> QED BY <2>1, <2>2, <2>3, <1>2 DEF CoreType, EndKept
  <1> QED BY <1>3, <1>4

LEMMA AskLustrationIs ==
    ASSUME CoreType, AskLustration
    PROVE  /\ CoreType' /\ EndKept /\ UNCHANGED <<rows, send>> /\ (ReviewThere \/ "asks unseen" \in Rare)
           /\ shown'.job.ending = "asks" /\ run'.ending = "asks" /\ run'.note = run.earlier
           /\ run'.pending = (IF run.recorded THEN {"last"} ELSE {})
           /\ shown'.last = (IF run.recorded THEN run.earlier ELSE shown.last) /\ shown'.failure = shown.failure
  <1>1. Ends("asks", Earlier, run.earlier, 0) /\ UNCHANGED <<rows, send>> /\ (ReviewThere \/ "asks unseen" \in Rare)
    BY DEF AskLustration
  <1>2. Earlier = (IF run.recorded THEN {"last"} ELSE {})  BY DEF Earlier
  <1>3. /\ EndKept /\ run' \in Runs /\ shown' \in Pages
        /\ shown'.job.ending = "asks" /\ run'.ending = "asks" /\ run'.pending = Earlier /\ run'.note = run.earlier
        /\ shown'.last = (IF "last" \in Earlier THEN run.earlier ELSE shown.last)
        /\ shown'.failure = (IF "failure" \in Earlier THEN 0 ELSE shown.failure)
    <2>1. "asks" \in Endings /\ 0 \in Counts  BY Numbers DEF Endings
    <2> QED BY <1>1, <2>1, EarlierIs, EndsIs
  <1> QED BY <1>1, <1>2, <1>3, EarlierIs DEF CoreType, EndKept

\* A note is written, or finds the wallet locked.
Writes(field) ==
    /\ at = "ended" /\ UNCHANGED <<at, rows, heard, shown, lock, refresh, send, paid>>
    /\ field \in run.pending /\ run'.pending = run.pending \ {field} /\ log'.started = log.started
    /\ run'.send = run.send /\ run'.attempt = run.attempt /\ run'.recorded = run.recorded /\ run'.earlier = run.earlier
    /\ run'.here = run.here /\ run'.ending = run.ending

LEMMA WriteLastIs ==
    ASSUME CoreType, WriteLast
    PROVE  /\ CoreType' /\ Writes("last") /\ run'.note = None /\ unsaved' = unsaved
           /\ run.ending \in {"sent", "unconfirmed"} => "failure" \notin run.pending
           /\ log'.last = (IF lock.locked THEN log.last ELSE run.note) /\ log'.failure = log.failure
  <1> USE NoteIs
  <1> DEFINE left == run.pending \ {"last"}
  <1>1. left \in SUBSET {"last", "failure"} /\ run.note \in Notes /\ run' = [run EXCEPT !.pending = left, !.note = None]
    BY DEF CoreType, Runs, WriteLast
  <1>2. /\ run' \in Runs /\ run'.pending = left /\ run'.note = None
        /\ run'.send = run.send /\ run'.attempt = run.attempt /\ run'.recorded = run.recorded /\ run'.earlier = run.earlier
        /\ run'.here = run.here /\ run'.ending = run.ending
    <2> HIDE DEF left
    <2> QED BY <1>1 DEF CoreType, Runs
  <1>3. log' \in Logs /\ log'.last = (IF lock.locked THEN log.last ELSE run.note) /\ log'.started = log.started /\ log'.failure = log.failure
    BY <1>1, NotedIs DEF WriteLast
  <1> QED BY <1>2, <1>3 DEF WriteLast, CoreType, Writes

LEMMA WriteFailureIs ==
    ASSUME CoreType, WriteFailure
    PROVE  /\ CoreType' /\ Writes("failure") /\ run'.note = run.note
           /\ run.ending = "failed" => "last" \notin run.pending
           /\ log'.failure = (IF lock.locked THEN log.failure ELSE IF run.ending = "failed" THEN run.send ELSE 0) /\ log'.last = log.last
           /\ unsaved' = (IF run.ending = "failed" /\ lock.locked THEN run.send ELSE unsaved)
  <1> USE Numbers
  <1> DEFINE left == run.pending \ {"failure"}
             said == IF run.ending = "failed" THEN run.send ELSE 0
  <1>1. left \in SUBSET {"last", "failure"} /\ said \in Counts /\ run.send \in Counts /\ run' = [run EXCEPT !.pending = left]
    BY DEF CoreType, Runs, WriteFailure
  <1>2. /\ run' \in Runs /\ run'.pending = left /\ run'.note = run.note
        /\ run'.send = run.send /\ run'.attempt = run.attempt /\ run'.recorded = run.recorded /\ run'.earlier = run.earlier
        /\ run'.here = run.here /\ run'.ending = run.ending
    <2> HIDE DEF left
    <2> QED BY <1>1 DEF CoreType, Runs
  <1>3. log' = Noted("failure", said) /\ unsaved' = (IF run.ending = "failed" /\ lock.locked THEN run.send ELSE unsaved)
    BY DEF WriteFailure
  <1>4. log' \in Logs /\ log'.failure = (IF lock.locked THEN log.failure ELSE said) /\ log'.started = log.started /\ log'.last = log.last
    <2> HIDE DEF said
    <2> QED BY <1>1, <1>3, NotedIs
  <1>5. unsaved' \in Counts  BY <1>1, <1>3 DEF CoreType
  <1> QED BY <1>2, <1>3, <1>4, <1>5 DEF WriteFailure, CoreType, Writes

(* From one await to the next *)

LEMMA AgainIs ==
    ASSUME CoreType, Again
    PROVE  /\ run' \in Runs /\ run'.attempt = run.attempt + 1 /\ run'.attempt \in 1 .. MAX_SEND_ATTEMPTS /\ run'.send = run.send
           /\ run'.recorded = run.recorded /\ run'.here = run.here /\ run'.earlier = run.earlier /\ run'.ending = run.ending
           /\ run'.note = run.note
  <1> USE Numbers
  <1>1. run.attempt \in 0 .. MAX_SEND_ATTEMPTS /\ run.attempt < MAX_SEND_ATTEMPTS /\ run' = [run EXCEPT !.attempt = @ + 1]
    BY DEF CoreType, Runs, Again
  <1>2. run.attempt + 1 \in 1 .. MAX_SEND_ATTEMPTS /\ run.attempt + 1 \in 0 .. MAX_SEND_ATTEMPTS  BY <1>1
  <1> DEFINE k == run.attempt + 1
  <1>3. run' = [run EXCEPT !.attempt = k]  BY <1>1
  <1> HIDE DEF k
  <1>4. k \in 0 .. MAX_SEND_ATTEMPTS  BY <1>2 DEF k
  <1>5. run' \in Runs /\ run'.attempt = k /\ run'.send = run.send
        /\ run'.recorded = run.recorded /\ run'.here = run.here /\ run'.earlier = run.earlier /\ run'.ending = run.ending
        /\ run'.note = run.note
    BY <1>3, <1>4 DEF CoreType, Runs
  <1> QED BY <1>2, <1>5 DEF k

LEMMA OnRecordedIs ==
    ASSUME CoreType, Running, OnRecorded
    PROVE  /\ CoreType' /\ UNCHANGED <<rows, heard, shown, unsaved, lock, refresh, paid>>
           /\ at = "noting" /\ at' = "clearing"
           /\ run'.send = run.send /\ run'.attempt = run.attempt /\ run'.recorded /\ run'.here = run.here /\ run'.earlier = run.earlier
           /\ run'.note = run.note
           /\ send'.form = send.form /\ send'.draft = 0 /\ send'.recorded = paid[run.send]
           /\ log'.started = log.started /\ log'.failure = log.failure
           /\ lock.locked => log'.last = log.last
           /\ ~lock.locked => log'.last \in Notes /\ log'.last.tx = tx /\ log'.last # None
  <1> USE NoteIs, Numbers
  <1>1. at = "noting" /\ at' = "clearing" /\ UNCHANGED <<rows, heard, shown, unsaved, lock, refresh, paid>>  BY DEF OnRecorded
  <1>2. tx \in Tx /\ paid[run.send] \in Payment  BY <1>1, InHand DEF Sending
  <1>3. /\ run' \in Runs /\ run'.send = run.send /\ run'.attempt = run.attempt /\ run'.recorded /\ run'.here = run.here /\ run'.earlier = run.earlier
        /\ run'.note = run.note
    BY DEF OnRecorded, CoreType, Runs
  <1> DEFINE p == paid[run.send]
             note == [tx |-> tx, state |-> "unconfirmed"]
  <1>4. send' = [send EXCEPT !.recorded = p, !.draft = 0]  BY DEF OnRecorded
  <1>5. send' \in Forms /\ send'.form = send.form /\ send'.draft = 0 /\ send'.recorded = p
    <2> HIDE DEF p
    <2>1. p \in Payment  BY <1>2 DEF p
    <2> QED BY <1>4, <2>1 DEF CoreType, Forms, OnForm
  <1>6. note \in Notes /\ note.tx = tx /\ note # None  BY <1>2
  <1>7. log' = Noted("last", note)  BY DEF OnRecorded, NoteLast
  <1>8. log' \in Logs /\ log'.started = log.started /\ log'.failure = log.failure /\ log'.last = (IF lock.locked THEN log.last ELSE note)
    <2> HIDE DEF note
    <2> QED BY <1>6, <1>7, NotedIs
  <1>9. CoreType'  BY <1>1, <1>3, <1>5, <1>8 DEF CoreType
  <1> QED BY <1>1, <1>3, <1>5, <1>6, <1>8, <1>9

LEMMA StartedClearedIs ==
    ASSUME CoreType, StartedCleared
    PROVE  /\ CoreType' /\ UNCHANGED <<run, rows, heard, shown, unsaved, lock, refresh, send, paid>>
           /\ at = "clearing" /\ at' = "submitting"
           /\ log'.started = (IF lock.locked THEN log.started ELSE 0) /\ log'.last = log.last /\ log'.failure = log.failure
  <1>1. log' \in Logs /\ log'.started = (IF lock.locked THEN log.started ELSE 0) /\ log'.last = log.last /\ log'.failure = log.failure
    BY NotedIs, Numbers DEF StartedCleared
  <1> QED BY <1>1 DEF StartedCleared, CoreType

LEMMA FinallyIs ==
    ASSUME CoreType, Finally
    PROVE  /\ CoreType' /\ UNCHANGED <<rows, heard, unsaved, paid>>
           /\ at = "ended" /\ at' = "idle" /\ run' = NoRun /\ Written /\ shown'.job = JobAfter
           /\ log'.started = (IF lock.locked THEN log.started ELSE 0) /\ log'.last = log.last /\ log'.failure = log.failure
           /\ send'.recorded = send.recorded
           /\ ~lock.waiting => /\ shown'.last = shown.last /\ shown'.failure = shown.failure /\ UNCHANGED <<lock, refresh>>
                               /\ send'.draft = send.draft /\ send'.open = send.open
           /\ lock.waiting => /\ lock'.locked /\ ~lock'.waiting /\ lock'.visible = lock.visible /\ ~send'.open
                              /\ shown'.failure = 0 /\ shown'.last = None /\ refresh'.at = "off" /\ refresh'.failure = 0
                              /\ send'.form = 0 /\ send'.draft \in {0, send.form}
                              /\ run.here /\ run.ending \in {"sent", "unconfirmed"} => send'.draft = 0
           /\ send'.form \in {0, send.form}
           /\ run.here /\ run.ending \in {"sent", "unconfirmed"} => send'.form = 0
  <1> USE NoteIs, Numbers
  <1>0. NoRun \in Runs /\ NoRefresh \in Refreshes /\ NoRefresh.at = "off" /\ NoRefresh.failure = 0  BY DEF NoRun, NoRefresh, Runs, Refreshes
  <1>6. JobAfter \in Jobs  BY DEF JobAfter, NoJob, CoreType, Pages, Jobs
  <1> DEFINE after == FormAfter(run.ending)
  <1>1. after \in Forms /\ after.recorded = send.recorded /\ after.draft = send.draft /\ after.open = send.open /\ after.form \in {0, send.form}
        /\ (run.here /\ run.ending \in {"sent", "unconfirmed"} => after.form = 0)
    BY DEF FormAfter, CoreType, Forms, OnForm
  <1>2. log' \in Logs /\ log'.started = (IF lock.locked THEN log.started ELSE 0) /\ log'.last = log.last /\ log'.failure = log.failure
    BY NotedIs DEF Finally
  <1>3. /\ at = "ended" /\ at' = "idle" /\ run' = NoRun /\ Written /\ UNCHANGED <<rows, heard, unsaved, paid>>
        /\ lock.waiting => LockedNow([after EXCEPT !.open = FALSE, !.form = 0, !.draft = KeepSendDraft(after.form)])
        /\ ~lock.waiting => send' = after /\ shown' = [shown EXCEPT !.job = JobAfter] /\ UNCHANGED <<lock, refresh>>
    BY DEF Finally
  <1> HIDE DEF after
  <1>4. CASE lock.waiting
    <2> DEFINE d == KeepSendDraft(after.form)
    <2>1. d \in {0, after.form} /\ d \in OnForm  BY <1>1 DEF KeepSendDraft, Forms, OnForm
    <2>2. send' = [after EXCEPT !.open = FALSE, !.form = 0, !.draft = d]  BY <1>3, <1>4 DEF LockedNow
    <2>3. send' \in Forms /\ ~send'.open /\ send'.form = 0 /\ send'.draft = d /\ send'.recorded = after.recorded
      <3> HIDE DEF d
      <3> QED BY <2>1, <2>2, <1>1 DEF Forms, OnForm
    <2>4. lock' \in Locks /\ lock'.locked /\ ~lock'.waiting /\ lock'.visible = lock.visible /\ refresh' = NoRefresh
      BY <1>3, <1>4 DEF LockedNow, CoreType, Locks
    <2>5. shown' \in Pages /\ shown'.job = JobAfter /\ shown'.failure = 0 /\ shown'.last = None
      BY <1>3, <1>4, <1>6 DEF LockedNow, Pages
    <2>6. CoreType'  BY <1>0, <1>2, <1>3, <2>3, <2>4, <2>5 DEF CoreType
    <2> QED BY <1>0, <1>1, <1>2, <1>3, <1>4, <2>1, <2>3, <2>4, <2>5, <2>6
  <1>5. CASE ~lock.waiting
    <2>1. shown' \in Pages /\ shown'.job = JobAfter /\ shown'.last = shown.last /\ shown'.failure = shown.failure
      BY <1>3, <1>5, <1>6 DEF CoreType, Pages
    <2>2. CoreType'  BY <1>0, <1>1, <1>2, <1>3, <1>5, <2>1 DEF CoreType
    <2> QED BY <1>1, <1>2, <1>3, <1>5, <2>1, <2>2
  <1> QED BY <1>4, <1>5

(* The page, the lock and the notes read again *)

LEMMA LockIs ==
    ASSUME CoreType, Lock
    PROVE  /\ CoreType' /\ SendKept /\ RunKept /\ UNCHANGED <<log, unsaved>> /\ ~run'.here
           /\ (GivenWay => "cut short" \in Rare) /\ (Asking => "asks unseen" \in Rare)
           /\ ~lock.locked /\ lock'.locked /\ ~lock'.waiting /\ lock'.visible = lock.visible
           /\ shown'.job = shown.job /\ shown'.failure = 0 /\ shown'.last = (IF Sending THEN shown.last ELSE None)
           /\ refresh'.at = "off" /\ refresh'.failure = 0
           /\ ~send'.open /\ send'.recorded = send.recorded
           /\ ~send.open => send'.form = send.form /\ send'.draft = send.draft
           /\ send.open => /\ send'.form = 0 /\ send'.draft \in {0, send.form}
                           /\ (shown.job.ending = "running" \/ send.form = send.recorded => send'.draft = 0)
  <1> USE NoteIs, Numbers
  <1>1. NoRefresh \in Refreshes /\ NoRefresh.at = "off" /\ NoRefresh.failure = 0  BY DEF NoRefresh, Refreshes
  <1>2. send' = Unmounted /\ refresh' = NoRefresh /\ ~lock.locked /\ UNCHANGED <<at, log, rows, heard, unsaved, paid>>
        /\ (GivenWay => "cut short" \in Rare) /\ (Asking => "asks unseen" \in Rare)
    BY DEF Lock
  <1>3. ~send.open => ~Unmounted.open  BY UnmountedIs
  <1>4. send.open => ~Unmounted.open  BY DEF Unmounted, CoreType, Forms
  <1>5. send' \in Forms /\ ~send'.open /\ send'.recorded = send.recorded
        /\ (~send.open => send' = send)
        /\ (send.open => /\ send'.form = 0 /\ send'.draft \in {0, send.form}
                         /\ (shown.job.ending = "running" \/ send.form = send.recorded => send'.draft = 0))
    BY <1>2, <1>3, <1>4, UnmountedIs DEF CoreType, Forms
  <1>6. run' \in Runs /\ RunKept /\ ~run'.here  BY DEF Lock, CoreType, Runs, RunKept
  <1>7. lock' \in Locks /\ lock'.locked /\ ~lock'.waiting /\ lock'.visible = lock.visible  BY DEF Lock, CoreType, Locks
  <1> DEFINE keep == IF Sending THEN shown.last ELSE None
  <1>8. keep \in Notes  BY DEF CoreType, Pages
  <1>9. shown' = [shown EXCEPT !.failure = 0, !.last = keep]  BY DEF Lock
  <1>10. shown' \in Pages /\ shown'.job = shown.job /\ shown'.failure = 0 /\ shown'.last = keep
    <2> HIDE DEF keep
    <2> QED BY <1>8, <1>9 DEF CoreType, Pages
  <1> QED BY <1>1, <1>2, <1>5, <1>6, <1>7, <1>10 DEF CoreType, SendKept

LEMMA HideIs ==
    ASSUME CoreType, Hide
    PROVE  /\ CoreType' /\ UNCHANGED <<at, run, log, rows, heard, shown, unsaved, refresh, send, paid>>
           /\ Sending /\ (Asking => "asks unseen" \in Rare) /\ ~lock'.visible /\ lock'.locked = lock.locked /\ lock'.waiting = ~lock.locked
  <1>1. lock' \in Locks /\ ~lock'.visible /\ lock'.locked = lock.locked /\ lock'.waiting = ~lock.locked
    BY DEF Hide, CoreType, Locks
  <1> QED BY <1>1 DEF Hide, CoreType

LEMMA ShowIs ==
    ASSUME CoreType, Show
    PROVE  /\ CoreType' /\ UNCHANGED <<at, run, log, rows, heard, shown, unsaved, refresh, send, paid>>
           /\ lock'.visible /\ lock'.locked = lock.locked /\ (lock'.waiting => lock.waiting)
  <1>1. PICK w \in {FALSE, lock.waiting} : lock' = [lock EXCEPT !.visible = TRUE, !.waiting = w]  BY DEF Show
  <1>2. lock' \in Locks /\ lock'.visible /\ lock'.locked = lock.locked /\ (lock'.waiting => lock.waiting)
    BY <1>1 DEF CoreType, Locks
  <1> QED BY <1>2 DEF Show, CoreType

LEMMA ReadNotesIs ==
    ASSUME CoreType, ReadNotes
    PROVE  /\ UNCHANGED <<at, run, heard, shown, send, paid>> /\ refresh' \in Refreshes /\ log' \in Logs /\ unsaved' \in Counts
           /\ Written /\ refresh'.at = "last" /\ refresh'.failure = log'.failure /\ unsaved' = 0
           /\ log'.failure = (IF unsaved # 0 THEN unsaved ELSE log.failure)
           /\ log'.started = log.started /\ log'.last = log.last
  <1> USE NoteIs, Numbers
  <1>1. /\ log' \in Logs /\ log'.failure = (IF unsaved # 0 THEN unsaved ELSE log.failure)
        /\ log'.started = log.started /\ log'.last = log.last
    BY DEF ReadNotes, CoreType, Logs
  <1> DEFINE f == IF unsaved # 0 THEN unsaved ELSE log.failure
  <1>2. f \in Counts  BY DEF CoreType, Logs
  <1>3. refresh' = [at |-> "last", failure |-> f, sent |-> None]  BY DEF ReadNotes
  <1>4. refresh' \in Refreshes /\ refresh'.at = "last" /\ refresh'.failure = f
    <2> HIDE DEF f
    <2> QED BY <1>2, <1>3 DEF Refreshes
  <1> QED BY <1>1, <1>4 DEF ReadNotes

LEMMA UnlockIs ==
    ASSUME CoreType, Unlock
    PROVE  /\ CoreType' /\ SendKept /\ UNCHANGED <<run, shown, send>>
           /\ lock.locked /\ lock.visible /\ ~lock'.locked /\ lock'.visible /\ lock'.waiting = lock.waiting
           /\ at \notin {"noting", "clearing", "ended"} \/ "quick unlock" \in Rare
           /\ Written /\ refresh'.at = "last" /\ refresh'.failure = log'.failure /\ unsaved' = 0
           /\ log'.failure = (IF unsaved # 0 THEN unsaved ELSE log.failure)
           /\ log'.started = log.started /\ log'.last = log.last
  <1>1. /\ lock.locked /\ lock.visible /\ lock' \in Locks /\ ~lock'.locked /\ lock'.visible /\ lock'.waiting = lock.waiting
        /\ (at \notin {"noting", "clearing", "ended"} \/ "quick unlock" \in Rare) /\ ReadNotes /\ rows' = rows
    BY DEF Unlock, CoreType, Locks
  <1> QED BY <1>1, ReadNotesIs DEF CoreType, SendKept

LEMMA BeginRefreshIs ==
    ASSUME CoreType, BeginRefresh
    PROVE  /\ CoreType' /\ SendKept /\ UNCHANGED <<run, shown, send, lock>>
           /\ ~lock.locked /\ refresh.at = "off"
           /\ Written /\ refresh'.at = "last" /\ refresh'.failure = log'.failure /\ unsaved' = 0
           /\ log'.failure = (IF unsaved # 0 THEN unsaved ELSE log.failure)
           /\ log'.started = log.started /\ log'.last = log.last
  <1>1. ~lock.locked /\ refresh.at = "off" /\ UNCHANGED <<lock, rows>> /\ ReadNotes  BY DEF BeginRefresh
  <1> QED BY <1>1, ReadNotesIs DEF CoreType, SendKept

LEMMA SettleIs ==
    ASSUME CoreType, NEW t \in Tx, Settle(t)
    PROVE  /\ CoreType' /\ UNCHANGED <<at, run, heard, shown, send, lock, paid>>
           /\ ~lock.locked /\ rows[t] = "pending" /\ (Sending => t # tx) /\ (refresh.at = "off" \/ "overlap" \in Rare)
           /\ rows'[t] \in {"over", "conflicted"} /\ (rows'[t] = "conflicted" /\ Sending => "both fail" \in Rare)
           /\ \A u \in Tx : u # t => rows'[u] = rows[u]
           /\ Written /\ refresh'.at = "last" /\ refresh'.failure = log'.failure /\ unsaved' = 0
           /\ log'.failure = (IF unsaved # 0 THEN unsaved ELSE log.failure)
           /\ log'.started = log.started /\ log'.last = log.last
  <1>1. /\ ~lock.locked /\ rows[t] = "pending" /\ (Sending => t # tx) /\ (refresh.at = "off" \/ "overlap" \in Rare)
        /\ lock' = lock /\ ReadNotes
    BY DEF Settle
  <1>2. PICK outcome \in {"over"} \union (IF ~Sending \/ "both fail" \in Rare THEN {"conflicted"} ELSE {}) : rows' = [rows EXCEPT ![t] = outcome]
    BY DEF Settle
  <1>3. outcome \in {"over", "conflicted"} /\ (outcome = "conflicted" /\ Sending => "both fail" \in Rare)  OBVIOUS
  <1>4. /\ rows' \in [Tx -> {"none", "pending", "over", "conflicted"}] /\ rows'[t] = outcome /\ \A u \in Tx : u # t => rows'[u] = rows[u]
    BY <1>2, <1>3 DEF CoreType
  <1> QED BY <1>1, <1>3, <1>4, ReadNotesIs DEF CoreType

LEMMA CloseIs ==
    ASSUME CoreType, Close
    PROVE  /\ CoreType' /\ UNCHANGED <<log, rows, heard, paid>>
           /\ (GivenWay => "cut short" \in Rare)
           /\ at' = "idle" /\ run' = NoRun /\ unsaved' = 0 /\ refresh'.at = "off" /\ refresh'.failure = 0
           /\ shown'.job = NoJob /\ shown'.last = None /\ shown'.failure = 0
           /\ lock'.locked /\ ~lock'.waiting /\ lock'.visible
           /\ ~send'.open /\ send'.form = 0 /\ send'.draft = 0
  <1> USE NoteIs, Numbers
  <1>1. NoRun \in Runs /\ NoJob \in Jobs /\ NoRefresh \in Refreshes /\ NoRefresh.at = "off" /\ NoRefresh.failure = 0
    BY DEF NoRun, NoJob, NoRefresh, Runs, Jobs, Refreshes
  <1>2. send' \in Forms /\ ~send'.open /\ send'.form = 0 /\ send'.draft = 0  BY DEF Close, CoreType, Forms, OnForm
  <1>3. shown' \in Pages /\ shown'.job = NoJob /\ shown'.last = None /\ shown'.failure = 0  BY <1>1 DEF Close, Pages
  <1>4. lock' \in Locks /\ lock'.locked /\ ~lock'.waiting /\ lock'.visible  BY DEF Close, Locks
  <1> QED BY <1>1, <1>2, <1>3, <1>4 DEF Close, CoreType

LEMMA RefreshLastIs ==
    ASSUME CoreType, RefreshLast
    PROVE  /\ CoreType' /\ SendKept /\ UNCHANGED <<run, log, shown, unsaved, lock, send>>
           /\ refresh.at = "last" /\ refresh'.at = (IF Sending THEN "show" ELSE "started") /\ refresh'.failure = refresh.failure
           /\ refresh'.sent = (IF Sending THEN shown.last ELSE log.last)
  <1> DEFINE n == IF Sending THEN shown.last ELSE log.last
             a == IF Sending THEN "show" ELSE "started"
  <1>1. n \in Notes /\ a \in {"show", "started"}  BY DEF CoreType, Pages, Logs
  <1>2. refresh' = [refresh EXCEPT !.sent = n, !.at = a]  BY DEF RefreshLast
  <1>3. refresh' \in Refreshes /\ refresh'.at = a /\ refresh'.sent = n /\ refresh'.failure = refresh.failure
    <2> HIDE DEF n, a
    <2> QED BY <1>1, <1>2 DEF CoreType, Refreshes
  <1> QED BY <1>3 DEF RefreshLast, CoreType, SendKept

PendingFrom(s) == \E t \in Tx : t[1] >= s /\ rows[t] = "pending"

RowFrom(t, s) == t \in Tx /\ t[1] >= s /\ rows[t] = "pending"

LEMMA RefreshStartedIs ==
    ASSUME CoreType, RefreshStarted
    PROVE  /\ CoreType' /\ SendKept /\ UNCHANGED <<run, shown, unsaved, lock, send>>
           /\ refresh.at = "started" /\ refresh'.at = "show" /\ log'.started = 0
           /\ \/ refresh'.sent = refresh.sent /\ log'.last = log.last
              \/ /\ log.started # 0 /\ refresh'.sent # None /\ log'.last = refresh'.sent
                 /\ refresh'.sent.tx \in Tx /\ refresh'.sent.tx[1] >= log.started /\ rows[refresh'.sent.tx] = "pending"
           /\ \/ refresh'.failure = refresh.failure /\ log'.failure = log.failure
              \/ log.started # 0 /\ refresh'.failure = log.started /\ log'.failure = log.started /\ ~PendingFrom(log.started)
           /\ \/ log.started = 0
              \/ log'.last = refresh'.sent /\ RowFrom(refresh'.sent.tx, log.started)
              \/ refresh'.sent = refresh.sent /\ RowFrom(refresh.sent.tx, log.started)
              \/ refresh'.failure = log.started /\ log'.failure = log.started
              \/ refresh'.failure = refresh.failure /\ refresh.failure >= log.started
  <1> USE NoteIs, Numbers
  <1> DEFINE started == log.started
             gone == started # 0 /\ RowOf(started) # {} /\ refresh.sent.tx \notin RowOf(started)
             never == started # 0 /\ RowOf(started) = {} /\ refresh.failure < started
             one == CHOOSE t \in RowOf(started) : TRUE
             sent == IF gone THEN [tx |-> one, state |-> "unconfirmed"] ELSE refresh.sent
             failure == IF never THEN started ELSE refresh.failure
             last == IF gone THEN sent ELSE log.last
             said == IF never THEN failure ELSE log.failure
  <1>1. /\ refresh.at = "started" /\ UNCHANGED <<at, run, rows, heard, shown, unsaved, lock, send, paid>>
        /\ refresh' = [at |-> "show", sent |-> sent, failure |-> failure]
        /\ log' = [started |-> 0, last |-> last, failure |-> said]
    BY DEF RefreshStarted
  <1>2. \A t : t \in RowOf(started) <=> t \in Tx /\ t[1] >= started /\ rows[t] = "pending"  BY DEF RowOf
  <1>3. gone => one \in Tx /\ one[1] >= started /\ rows[one] = "pending"  BY <1>2
  <1>4. started \in Counts /\ refresh.failure \in Counts /\ log.failure \in Counts /\ log.last \in Notes /\ refresh.sent \in Notes
    BY DEF CoreType, Logs, Refreshes
  <1>5. gone => sent \in Notes /\ sent # None /\ sent.tx = one
    <2>1. [tx |-> one, state |-> "unconfirmed"].tx = one  OBVIOUS
    <2> HIDE DEF one
    <2> QED BY <1>3, <2>1
  <1>6. ~gone => sent = refresh.sent /\ last = log.last  OBVIOUS
  <1>7. gone => last = sent  OBVIOUS
  <1>8. never => failure = started /\ said = started /\ ~PendingFrom(started)  BY <1>2 DEF PendingFrom
  <1>9. ~never => failure = refresh.failure /\ said = log.failure  OBVIOUS
  <1>10. sent \in Notes /\ last \in Notes /\ failure \in Counts /\ said \in Counts  BY <1>4, <1>5, <1>6, <1>7, <1>8, <1>9
  <1>11. started # 0 /\ ~gone /\ ~never => RowFrom(refresh.sent.tx, started) \/ refresh.failure >= started
    <2>1. started \in Nat /\ refresh.failure \in Nat  BY <1>4
    <2>2. started # 0 /\ ~gone /\ ~never => refresh.sent.tx \in RowOf(started) \/ (RowOf(started) = {} /\ ~(refresh.failure < started))
      OBVIOUS
    <2> HIDE DEF gone, never
    <2> QED BY <2>1, <2>2, <1>2 DEF RowFrom
  <1> HIDE DEF sent, last, failure, said
  <1>12. refresh' \in Refreshes /\ refresh'.at = "show" /\ refresh'.sent = sent /\ refresh'.failure = failure
    BY <1>1, <1>10 DEF Refreshes
  <1>13. log' \in Logs /\ log'.started = 0 /\ log'.last = last /\ log'.failure = said
    BY <1>1, <1>10 DEF Logs
  <1>14. CoreType' /\ SendKept  BY <1>1, <1>12, <1>13 DEF CoreType, SendKept
  <1>15. gone => started # 0  OBVIOUS
  <1>16. never => started # 0  OBVIOUS
  <1>17. gone => RowFrom(one, started)  BY <1>3 DEF RowFrom
  <1> HIDE DEF gone, never, one
  <1> QED BY <1>1, <1>3, <1>5, <1>6, <1>7, <1>8, <1>9, <1>11, <1>12, <1>13, <1>14, <1>15, <1>16, <1>17

Settled(n) == ~Sending /\ n # None /\ rows[n.tx] \notin {"none", "pending"}
Lost(n) == Settled(n) /\ rows[n.tx] = "conflicted"

LEMMA RefreshShowIs ==
    ASSUME CoreType, RefreshShow
    PROVE  /\ CoreType' /\ SendKept /\ UNCHANGED <<run, unsaved, lock, send>>
           /\ refresh.at = "show" /\ refresh'.at = "off" /\ refresh'.failure = 0
           /\ \/ shown'.job = shown.job
              \/ shown'.job = NoJob /\ shown.job.ending = "sent" /\ \E t \in Tx : t[1] = shown.job.send /\ rows[t] = "over"
           /\ log'.started = log.started
           /\ Settled(refresh.sent) => shown'.last = None /\ log'.last = None
           /\ ~Settled(refresh.sent) =>
                  \/ shown'.last = refresh.sent /\ log'.last = log.last
                  \/ ~Sending /\ refresh.sent # None /\ shown'.last # None /\ shown'.last.tx = refresh.sent.tx /\ log'.last = shown'.last
           /\ Lost(refresh.sent) => shown'.failure = refresh.sent.tx[1] /\ log'.failure = refresh.sent.tx[1]
           /\ ~Lost(refresh.sent) => shown'.failure = refresh.failure /\ log'.failure = log.failure
  <1> USE NoteIs, Numbers
  <1> DEFINE s == refresh.sent
             row == IF s = None THEN "none" ELSE rows[s.tx]
             settled == ~Sending /\ row \notin {"none", "pending"}
             fails == settled /\ row = "conflicted"
             failure == IF fails THEN s.tx[1] ELSE refresh.failure
             gone == shown.job.ending = "sent" /\ \E t \in Tx : t[1] = shown.job.send /\ rows[t] = "over"
             here == ~Sending /\ row = "pending" /\ s.state = "unconfirmed" /\ s.tx \in heard
             Reads(seen) == IF settled THEN None ELSE IF seen THEN [s EXCEPT !.state = "submitted"] ELSE s
             job == IF gone THEN NoJob ELSE shown.job
  <1>1. /\ refresh.at = "show" /\ refresh' = NoRefresh /\ UNCHANGED <<at, run, rows, heard, unsaved, lock, send, paid>>
        /\ \E seen \in {FALSE, here} :
              /\ shown' = [job |-> job, last |-> Reads(seen), failure |-> failure]
              /\ log' = [log EXCEPT !.last = IF settled \/ seen THEN Reads(seen) ELSE @, !.failure = IF fails THEN failure ELSE @]
    BY DEF RefreshShow
  <1>2. PICK seen \in {FALSE, here} :
              /\ shown' = [job |-> job, last |-> Reads(seen), failure |-> failure]
              /\ log' = [log EXCEPT !.last = IF settled \/ seen THEN Reads(seen) ELSE @, !.failure = IF fails THEN failure ELSE @]
    BY <1>1
  <1> DEFINE l == Reads(seen)
             kept == IF settled \/ seen THEN l ELSE log.last
             said == IF fails THEN failure ELSE log.failure
  <1>3. s \in Notes /\ refresh.failure \in Counts /\ log.last \in Notes /\ log.failure \in Counts /\ shown.job \in Jobs
    BY DEF CoreType, Refreshes, Logs, Pages
  <1>4. (settled <=> Settled(s)) /\ (fails <=> Lost(s))  BY DEF Settled, Lost
  <1>5. seen => ~settled /\ ~Sending /\ s # None  BY <1>2
  <1>6. settled => l = None  OBVIOUS
  <1>7. ~settled /\ ~seen => l = s  OBVIOUS
  <1>8. seen => l \in Notes /\ l.tx = s.tx /\ l # None
    <2> SUFFICES ASSUME seen PROVE l \in Notes /\ l.tx = s.tx /\ l # None  OBVIOUS
    <2>1. l = [s EXCEPT !.state = "submitted"]  BY <1>5
    <2>2. s.tx \in Tx /\ s \in [tx : Tx, state : {"submitted", "unconfirmed"}]  BY <1>3, <1>5 DEF Notes
    <2>3. l = [tx |-> s.tx, state |-> "submitted"]  BY <2>1, <2>2
    <2> QED BY <2>2, <2>3
  <1>9. l \in Notes /\ kept \in Notes  BY <1>3, <1>6, <1>7, <1>8
  <1>10. failure \in Counts /\ said \in Counts /\ (fails => failure = s.tx[1]) /\ (~fails => failure = refresh.failure)
         /\ (fails => said = s.tx[1]) /\ (~fails => said = log.failure)
    BY <1>3, <1>4 DEF Lost, Settled
  <1>11. NoJob \in Jobs /\ NoRefresh \in Refreshes /\ NoRefresh.at = "off" /\ NoRefresh.failure = 0  BY DEF NoJob, NoRefresh, Jobs, Refreshes
  <1>12. job \in Jobs /\ (job = shown.job \/ (job = NoJob /\ gone))  BY <1>3, <1>11
  <1>13. settled \/ seen => kept = l  OBVIOUS
  <1>14. ~settled /\ ~seen => kept = log.last  OBVIOUS
  <1>15. log' = [log EXCEPT !.last = kept, !.failure = said]  BY <1>2 DEF CoreType, Logs
  <1>16. shown' = [job |-> job, last |-> l, failure |-> failure]  BY <1>2
  <1> HIDE DEF l, kept, said, failure, job
  <1>17. shown' \in Pages /\ shown'.job = job /\ shown'.last = l /\ shown'.failure = failure  BY <1>9, <1>10, <1>12, <1>16 DEF Pages
  <1>18. log' \in Logs /\ log'.last = kept /\ log'.failure = said /\ log'.started = log.started  BY <1>9, <1>10, <1>15 DEF CoreType, Logs
  <1>19. CoreType' /\ SendKept  BY <1>1, <1>11, <1>17, <1>18 DEF CoreType, SendKept
  <1>20. seen \in BOOLEAN  OBVIOUS
  <1> HIDE DEF settled, fails, gone, row, here, Reads
  <1>21. /\ settled => shown'.last = None /\ log'.last = None
         /\ ~settled => \/ shown'.last = s /\ log'.last = log.last
                        \/ ~Sending /\ s # None /\ shown'.last # None /\ shown'.last.tx = s.tx /\ log'.last = shown'.last
    BY <1>5, <1>6, <1>7, <1>8, <1>13, <1>14, <1>17, <1>18, <1>20
  <1>22. /\ fails => shown'.failure = s.tx[1] /\ log'.failure = s.tx[1]
         /\ ~fails => shown'.failure = refresh.failure /\ log'.failure = log.failure
    BY <1>10, <1>17, <1>18
  <1>23. shown'.job = shown.job \/ (shown'.job = NoJob /\ shown.job.ending = "sent" /\ \E t \in Tx : t[1] = shown.job.send /\ rows[t] = "over")
    BY <1>12, <1>17 DEF gone
  <1> QED BY <1>1, <1>4, <1>11, <1>18, <1>19, <1>21, <1>22, <1>23

-----------------------------------------------------------------------------
(* A payment the node has taken is not put back *)

LEMMA Entries == \A i \in 1 .. Len(paid) : CoreType => paid[i] \in Payment /\ paid[i] # 0
  BY Numbers, ElementOfSeq DEF CoreType

LEMMA StandsEarlier == ASSUME CoreType, RowsTell, NEW t \in Tx, t \in heard PROVE t[1] \in 1 .. Len(paid) /\ paid[t[1]] \in Payment /\ paid[t[1]] # 0
  <1>1. t[1] \in Sends /\ t[1] <= Len(paid) /\ Len(paid) \in Nat  BY Transactions, LenProperties DEF RowsTell, CoreType
  <1>2. t[1] \in 1 .. Len(paid)  BY <1>1, Numbers
  <1> QED BY <1>2, Entries

LEMMA FormFrom ==
    ASSUME PayInv, SendKept, RunKept, send'.form \in {0, send.form, send.draft}, send'.draft \in {0, send.form, send.draft}
    PROVE  NotBack'
  <1> SUFFICES ASSUME NEW t \in Tx, Stands(t)', Sending' => t # tx' PROVE paid'[t[1]] \notin {send'.form, send'.draft}
    BY DEF NotBack
  <1>1. Stands(t) /\ (Sending => t # tx) /\ paid' = paid  BY DEF Stands, SendKept, RunKept, Sending, tx
  <1>2. paid[t[1]] # 0  BY <1>1, StandsEarlier DEF PayInv, FlowType, Stands
  <1>3. paid[t[1]] \notin {send.form, send.draft}  BY <1>1 DEF PayInv, NotBack
  <1> QED BY <1>1, <1>2, <1>3

LEMMA Quiet ==
    ASSUME PayInv, CoreType', SendKept, RunKept, JobKept, run'.here => run.here, NotBack', OwnForm'
    PROVE  Running' /\ RowsTell' /\ JobTrue' /\ PaidOnce'
  <1>0. Running /\ RowsTell /\ JobTrue /\ PaidOnce  BY DEF PayInv
  <1>1. Running'
    <2>1. NoJob.ending = "none"  BY DEF NoJob
    <2>2. at' = at /\ paid' = paid /\ (shown'.job = shown.job \/ (shown'.job = NoJob /\ at \in {"idle", "ended"}))
      BY DEF SendKept, JobKept
    <2> QED BY <1>0, <2>1, <2>2 DEF Running, RunKept, Sending
  <1>2. RowsTell'  BY <1>0 DEF RowsTell, SendKept, RunKept, Sending, tx
  <1>3. JobTrue'  BY <1>0 DEF JobTrue, JobKept, NoJob, SendKept
  <1>4. PaidOnce'  BY <1>0 DEF PaidOnce, Stands, SendKept
  <1> QED BY <1>1, <1>2, <1>3, <1>4

\* The screens, the notes and the page.
LEMMA QuietSteps ==
    ASSUME PayInv, NEW p,
           \/ Visit \/ Leave \/ (p \in Payment /\ Type(p)) \/ Refill \/ DismissResult \/ DismissNote \/ CancelSend
           \/ Lock \/ Hide \/ Show \/ Unlock \/ BeginRefresh \/ RefreshLast \/ RefreshStarted \/ RefreshShow
    PROVE  CoreType' /\ Running' /\ RowsTell' /\ JobTrue' /\ PaidOnce' /\ NotBack' /\ OwnForm'
  <1>0. CoreType /\ Running /\ RowsTell /\ JobTrue /\ PaidOnce /\ NotBack /\ OwnForm  BY DEF PayInv, FlowType
  <1>1. ASSUME SendKept, UNCHANGED <<run, send>> PROVE NotBack' /\ OwnForm'
    <2>1. RunKept  BY <1>1 DEF RunKept
    <2>2. NotBack'  BY <1>1, <2>1, FormFrom
    <2>3. OwnForm'  BY <1>0, <1>1 DEF OwnForm, SendKept, Sending
    <2> QED BY <2>2, <2>3
  <1>2. CASE Visit
    <2>1. SendKept /\ RunKept /\ JobKept /\ CoreType' /\ run' = run  BY <1>0, <1>2, VisitIs DEF SendKept, RunKept, JobKept
    <2>2. send'.form = send.draft /\ send'.draft = send.draft /\ send'.recorded = send.recorded /\ ~send.open /\ send'.open
      BY <1>0, <1>2, VisitIs DEF Visit, CoreType, Forms
    <2>3. NotBack'  BY <2>1, <2>2, FormFrom
    <2>4. OwnForm'  BY <1>0, <2>1, <2>2 DEF OwnForm, SendKept, Sending
    <2> QED BY <2>1, <2>3, <2>4, Quiet
  <1>3. CASE Leave
    <2>1. SendKept /\ RunKept /\ JobKept /\ CoreType' /\ ~run'.here  BY <1>0, <1>3, LeaveIs DEF JobKept, Running, CoreType
    <2>2. send'.form = 0 /\ send'.draft \in {0, send.form} /\ send'.recorded = send.recorded
          /\ (shown.job.ending = "running" \/ send.form = send.recorded => send'.draft = 0)
      BY <1>0, <1>3, LeaveIs
    <2>3. NotBack'  BY <2>1, <2>2, FormFrom
    <2>4. OwnForm'  BY <1>0, <2>1, <2>2 DEF OwnForm, SendKept, RunKept, Sending, Running
    <2> QED BY <2>1, <2>3, <2>4, Quiet
  <1>4. CASE p \in Payment /\ Type(p)
    <2>1. SendKept /\ RunKept /\ JobKept /\ CoreType' /\ run' = run /\ ~Sending  BY <1>0, <1>4, TypeIs DEF SendKept, RunKept, JobKept
    <2>2. send'.form = p /\ send'.draft = send.draft /\ send'.recorded = send.recorded /\ \A i \in 1 .. Len(paid) : paid[i] # p
      BY <1>0, <1>4, TypeIs
    <2>3. NotBack'
      <3> SUFFICES ASSUME NEW t \in Tx, Stands(t)', Sending' => t # tx' PROVE paid'[t[1]] \notin {send'.form, send'.draft}
        BY DEF NotBack
      <3>1. Stands(t) /\ (Sending => t # tx) /\ paid' = paid  BY <2>1 DEF Stands, SendKept, RunKept, Sending, tx
      <3>2. t[1] \in 1 .. Len(paid)  BY <1>0, <3>1, StandsEarlier DEF Stands
      <3>3. paid[t[1]] \notin {send.form, send.draft}  BY <1>0, <3>1 DEF NotBack
      <3> QED BY <2>2, <3>1, <3>2, <3>3
    <2>4. OwnForm'  BY <1>0, <2>1, <2>2 DEF OwnForm, SendKept, Sending, Running
    <2> QED BY <2>1, <2>3, <2>4, Quiet
  <1>5. CASE Refill
    <2>1. SendKept /\ RunKept /\ JobKept /\ CoreType' /\ run' = run /\ ~Sending  BY <1>0, <1>5, RefillIs DEF RunKept, JobKept, Sending
    <2>2. /\ send'.form = paid[Len(paid)] /\ send'.draft = send.draft /\ send'.recorded = send.recorded
          /\ shown.job.ending = "failed" /\ shown.job.send = Len(paid)
      BY <1>0, <1>5, RefillIs
    <2>3. NotBack'
      <3> SUFFICES ASSUME NEW t \in Tx, Stands(t)', Sending' => t # tx' PROVE paid'[t[1]] \notin {send'.form, send'.draft}
        BY DEF NotBack
      <3>1. Stands(t) /\ (Sending => t # tx) /\ paid' = paid  BY <2>1 DEF Stands, SendKept, RunKept, Sending, tx
      <3>2. t[1] \in 1 .. Len(paid) /\ t \in heard  BY <1>0, <3>1, StandsEarlier DEF Stands
      <3>3. paid[t[1]] \notin {send.form, send.draft}  BY <1>0, <3>1 DEF NotBack
      <3>4. t[1] # Len(paid)  BY <1>0, <2>2, <3>2 DEF JobTrue
      <3>5. Len(paid) \in 1 .. Len(paid) /\ Len(paid) > t[1]  BY <3>2, <3>4, LenProperties, <1>0 DEF CoreType
      <3>6. paid[Len(paid)] # paid[t[1]]  BY <1>0, <3>1, <3>5 DEF PaidOnce
      <3> QED BY <2>2, <3>1, <3>3, <3>6
    <2>4. OwnForm'  BY <1>0, <2>1, <2>2 DEF OwnForm, SendKept, Sending, Running
    <2> QED BY <2>1, <2>3, <2>4, Quiet
  <1>6. CASE Lock
    <2>1. SendKept /\ RunKept /\ JobKept /\ CoreType' /\ ~run'.here  BY <1>0, <1>6, LockIs DEF JobKept
    <2>2. /\ send'.recorded = send.recorded /\ (~send.open => send'.form = send.form /\ send'.draft = send.draft)
          /\ send.open => /\ send'.form = 0 /\ send'.draft \in {0, send.form}
                          /\ (shown.job.ending = "running" \/ send.form = send.recorded => send'.draft = 0)
      BY <1>0, <1>6, LockIs
    <2>3. NotBack'  BY <2>1, <2>2, FormFrom
    <2>4. OwnForm'
      <3>1. CASE send.open  BY <1>0, <2>1, <2>2, <3>1 DEF OwnForm, SendKept, RunKept, Sending, Running
      <3>2. CASE ~send.open
        <4>1. ~run.here  BY <1>0, <3>2 DEF OwnForm
        <4> QED BY <1>0, <2>1, <2>2, <3>2, <4>1 DEF OwnForm, SendKept, RunKept, Sending
      <3> QED BY <3>1, <3>2
    <2> QED BY <2>1, <2>3, <2>4, Quiet
  <1>7. CASE CancelSend
    <2>1. SendKept /\ RunKept /\ JobKept /\ CoreType' /\ run'.here = run.here /\ send' = send  BY <1>0, <1>7, CancelSendIs DEF JobKept
    <2>2. NotBack'  BY <2>1, FormFrom
    <2>3. OwnForm'  BY <1>0, <2>1 DEF OwnForm, SendKept, RunKept, Sending
    <2> QED BY <2>1, <2>2, <2>3, Quiet
  <1>8. CASE DismissResult \/ DismissNote \/ Hide \/ Show \/ Unlock \/ BeginRefresh \/ RefreshLast \/ RefreshStarted \/ RefreshShow
    <2>1. SendKept /\ JobKept /\ CoreType' /\ UNCHANGED <<run, send>>
      <3>1. CASE DismissResult
        <4>1. shown.job.ending # "running"  BY <3>1 DEF DismissResult
        <4>2. at \in {"idle", "ended"}  BY <1>0, <4>1 DEF Running
        <4> QED BY <1>0, <3>1, <4>2, DismissResultIs DEF JobKept
      <3>2. CASE DismissNote  BY <1>0, <3>2, DismissNoteIs
      <3>3. CASE Hide  BY <1>0, <3>3, HideIs DEF JobKept, SendKept
      <3>4. CASE Show  BY <1>0, <3>4, ShowIs DEF JobKept, SendKept
      <3>5. CASE Unlock  BY <1>0, <3>5, UnlockIs DEF JobKept
      <3>6. CASE BeginRefresh  BY <1>0, <3>6, BeginRefreshIs DEF JobKept
      <3>7. CASE RefreshLast  BY <1>0, <3>7, RefreshLastIs DEF JobKept
      <3>8. CASE RefreshStarted  BY <1>0, <3>8, RefreshStartedIs DEF JobKept
      <3>9. CASE RefreshShow
        <4>1. shown.job.ending = "sent" => at \in {"idle", "ended"}  BY <1>0 DEF Running
        <4> QED BY <1>0, <3>9, <4>1, RefreshShowIs DEF JobKept
      <3> QED BY <1>8, <3>1, <3>2, <3>3, <3>4, <3>5, <3>6, <3>7, <3>8, <3>9
    <2>2. RunKept /\ run'.here = run.here  BY <2>1 DEF RunKept
    <2> QED BY <1>1, <2>1, <2>2, Quiet
  <1> QED BY <1>2, <1>3, <1>4, <1>5, <1>6, <1>7, <1>8

LEMMA PayStart ==
    ASSUME PayInv, StartSend
    PROVE  CoreType' /\ Running' /\ RowsTell' /\ JobTrue' /\ PaidOnce' /\ NotBack' /\ OwnForm'
  <1>0. CoreType /\ Running /\ RowsTell /\ JobTrue /\ PaidOnce /\ NotBack /\ OwnForm  BY DEF PayInv, FlowType
  <1> DEFINE n == Len(paid) + 1
  <1>1. Len(paid) \in Nat /\ n > Len(paid) /\ n \in Nat  BY <1>0, LenProperties DEF CoreType
  <1>2. /\ CoreType' /\ UNCHANGED <<rows, heard, send>> /\ ~Sending /\ at' = "building" /\ send.open /\ send.form \in Payment
        /\ Len(paid') = n /\ paid'[n] = send.form /\ \A i \in 1 .. Len(paid) : paid'[i] = paid[i]
        /\ run'.send = n /\ run'.attempt = 1 /\ ~run'.recorded /\ run'.here
        /\ shown'.job.send = n /\ shown'.job.ending = "running"
    BY <1>0, StartSendIs
  <1> HIDE DEF n
  <1>3. Sending'  BY <1>2 DEF Sending
  <1>4. Running'  BY <1>1, <1>2, <1>3 DEF Running, n
  <1>5. \A t \in Tx : rows[t] # "none" => t[1] <= Len(paid) /\ t[1] \in Nat /\ t[1] # n /\ t[1] <= n
    BY <1>0, <1>1, Transactions, Numbers DEF RowsTell
  <1>6. RowsTell'  BY <1>0, <1>2, <1>5 DEF RowsTell
  <1>7. JobTrue'  BY <1>2 DEF JobTrue
  <1>8. ASSUME NEW t \in Tx, Stands(t)' PROVE Stands(t) /\ t[1] \in 1 .. Len(paid) /\ paid'[t[1]] = paid[t[1]] /\ paid[t[1]] # send.form /\ paid[t[1]] # send.draft
    <2>1. Stands(t)  BY <1>2, <1>8 DEF Stands
    <2>2. t[1] \in 1 .. Len(paid)  BY <1>0, <2>1, StandsEarlier DEF Stands
    <2>3. paid[t[1]] \notin {send.form, send.draft}  BY <1>0, <1>2, <2>1 DEF NotBack
    <2> QED BY <1>2, <2>1, <2>2, <2>3
  <1>9. PaidOnce'
    <2> SUFFICES ASSUME NEW t \in Tx, Stands(t)', NEW s \in 1 .. Len(paid'), s > t[1] PROVE paid'[s] # paid'[t[1]]
      BY DEF PaidOnce
    <2>1. s \in 1 .. Len(paid) \/ s = n  BY <1>1, <1>2 DEF n
    <2>2. CASE s = n  BY <1>2, <1>8, <2>2
    <2>3. CASE s \in 1 .. Len(paid)
      <3>1. paid[s] # paid[t[1]]  BY <1>0, <1>8, <2>3 DEF PaidOnce
      <3> QED BY <1>2, <1>8, <2>3, <3>1
    <2> QED BY <2>1, <2>2, <2>3
  <1>10. NotBack'  BY <1>2, <1>8 DEF NotBack
  <1>11. OwnForm'  BY <1>2 DEF OwnForm
  <1> QED BY <1>2, <1>4, <1>6, <1>7, <1>9, <1>10, <1>11

\* From one await of the send to the next, with nothing else told.
Onward(from, to) ==
    /\ at = from /\ at' = to /\ UNCHANGED <<heard, paid>> /\ shown'.job = shown.job
    /\ run'.send = run.send /\ run'.here = run.here /\ (run.recorded => run'.recorded) /\ run'.attempt >= run.attempt

LEMMA PayOnward ==
    ASSUME PayInv, CoreType', NEW from, NEW to, Onward(from, to),
           from \in {"building", "proving", "noting", "clearing", "submitting", "discarding"},
           \/ to \in {"building", "proving"} /\ UNCHANGED <<rows, send>> /\ from = "building" /\ run'.recorded = run.recorded
           \/ /\ to = "building" /\ from = "discarding" /\ rows'[tx] = "none" /\ (\A t \in Tx : t # tx => rows'[t] = rows[t])
              /\ send' = send /\ run'.recorded = run.recorded
           \/ /\ to = "noting" /\ from = "proving" /\ rows'[tx] = "pending" /\ (\A t \in Tx : t # tx => rows'[t] = rows[t])
              /\ send' = send /\ run'.recorded = run.recorded /\ run'.attempt = run.attempt
           \/ /\ to = "clearing" /\ from = "noting" /\ rows' = rows /\ run'.recorded /\ run'.attempt = run.attempt
              /\ send'.form = send.form /\ send'.draft = 0 /\ send'.recorded = paid[run.send] /\ send'.open = send.open
           \/ to = "submitting" /\ from = "clearing" /\ UNCHANGED <<rows, send>> /\ run'.recorded = run.recorded /\ run'.attempt = run.attempt
           \/ /\ to = "discarding" /\ from = "submitting" /\ UNCHANGED <<rows, send>> /\ run'.recorded = run.recorded
              /\ run'.attempt = run.attempt /\ tx \notin heard
    PROVE  Running' /\ RowsTell' /\ JobTrue' /\ PaidOnce' /\ NotBack' /\ OwnForm'
  <1>0. CoreType /\ Running /\ RowsTell /\ JobTrue /\ PaidOnce /\ NotBack /\ OwnForm  BY DEF PayInv, FlowType
  <1>1. Sending /\ Sending' /\ to \notin {"idle", "ended"} /\ from \notin {"idle", "ended"}  BY DEF Sending, Onward
  <1>2. Running'  BY <1>0, <1>1 DEF Running, Onward, Runs, CoreType
  <1>3. tx \in Tx /\ tx[1] = run.send /\ run.send = Len(paid)  BY <1>0, <1>1, InHand
  <1>4. tx' = tx \/ to = "building" \/ to = "proving"  BY DEF tx, Onward
  <1>5. \A t \in heard : t # tx => rows'[t] = rows[t] /\ t \in Tx  BY <1>0 DEF CoreType
  <1>6. tx \in heard => rows'[tx] = rows[tx] /\ to \notin {"noting", "clearing", "discarding", "building", "proving"}
    <2>1. from \in {"building", "proving", "noting", "clearing", "discarding"} => tx \notin heard
      BY <1>0, <1>1, <1>3 DEF RowsTell, Onward
    <2>2. to = "submitting" => rows' = rows  OBVIOUS
    <2> QED BY <2>1, <2>2
  <1>7. \A t \in Tx : Stands(t)' <=> Stands(t)  BY <1>5, <1>6 DEF Stands, Onward
  <1>8. JobTrue' /\ PaidOnce'  BY <1>0, <1>7 DEF JobTrue, PaidOnce, Onward
  <1>9. RowsTell'
    <2>1. \A t \in Tx : t[1] = run.send /\ rows[t] # "none" => t = tx /\ from \notin {"building", "proving"} /\ rows[t] = "pending"
      BY <1>0, <1>1 DEF RowsTell, Onward
    <2>2. \A t \in Tx : t # tx => rows'[t] = rows[t]  OBVIOUS
    <2>3. \/ to \in {"building", "proving"} /\ rows'[tx] = "none"
          \/ to \in {"noting", "clearing", "submitting", "discarding"} /\ rows'[tx] = "pending" /\ tx' = tx
      <3>1. from = "building" => rows[tx] = "none"  BY <1>3, <2>1
      <3>2. from \in {"noting", "clearing", "submitting"} => rows[tx] = "pending"  BY <1>0 DEF RowsTell, Onward
      <3>3. to \in {"noting", "clearing", "submitting", "discarding"} => tx' = tx  BY <1>4
      <3> QED BY <3>1, <3>2, <3>3
    <2>4. \A t \in Tx : rows'[t] # "none" => rows[t] # "none" \/ t = tx  BY <2>2
    <2>5. \A t \in Tx : rows'[t] # "none" => t[1] <= Len(paid)
      <3>1. tx[1] <= Len(paid)  BY <1>3, <1>0, LenProperties DEF CoreType
      <3> QED BY <1>0, <2>4, <3>1 DEF RowsTell
    <2>6. \A t \in heard : rows'[t] # "none"  BY <1>0, <1>5, <1>6 DEF RowsTell
    <2>7. \A t \in Tx : t[1] = run.send /\ rows'[t] # "none" => t = tx' /\ to \notin {"building", "proving"} /\ rows'[t] = "pending"
      <3> SUFFICES ASSUME NEW t \in Tx, t[1] = run.send, rows'[t] # "none"
                   PROVE  t = tx' /\ to \notin {"building", "proving"} /\ rows'[t] = "pending"
        OBVIOUS
      <3>1. t = tx  BY <2>1, <2>2
      <3> QED BY <2>3, <3>1
    <2>8. to \in {"noting", "clearing", "submitting", "discarding"} => rows'[tx'] = "pending"  BY <2>3
    <2>9. to \in {"noting", "clearing", "discarding"} => tx' \notin heard  BY <1>6, <2>3
    <2> QED BY <1>1, <2>5, <2>6, <2>7, <2>8, <2>9 DEF RowsTell, Onward
  <1>10. NotBack'
    <2> SUFFICES ASSUME NEW t \in Tx, Stands(t)', t # tx' PROVE paid'[t[1]] \notin {send'.form, send'.draft}
      BY <1>1 DEF NotBack
    <2>1. Stands(t) /\ t # tx
      <3>1. Stands(t)  BY <1>7
      <3>2. t = tx => tx' = tx  BY <1>4, <1>6, <3>1 DEF Stands
      <3> QED BY <3>1, <3>2
    <2>2. paid[t[1]] \notin {send.form, send.draft} /\ paid[t[1]] # 0  BY <1>0, <2>1, StandsEarlier DEF NotBack, Stands
    <2>3. send'.form = send.form /\ send'.draft \in {0, send.draft}  OBVIOUS
    <2> QED BY <2>2, <2>3 DEF Onward
  <1>11. OwnForm'  BY <1>0, <1>1, <1>3 DEF OwnForm, Onward
  <1> QED BY <1>2, <1>8, <1>9, <1>10, <1>11

LEMMA PayHeard ==
    ASSUME PayInv, NodeTakes
    PROVE  CoreType' /\ Running' /\ RowsTell' /\ JobTrue' /\ PaidOnce' /\ NotBack' /\ OwnForm'
  <1>0. CoreType /\ Running /\ RowsTell /\ JobTrue /\ PaidOnce /\ NotBack /\ OwnForm  BY DEF PayInv, FlowType
  <1>1. at = "submitting" /\ heard' = heard \union {tx} /\ UNCHANGED <<at, run, log, rows, shown, unsaved, lock, refresh, send, paid>>
    BY DEF NodeTakes
  <1>2. Sending /\ Sending' /\ tx' = tx  BY <1>1 DEF Sending, tx
  <1>3. tx \in Tx /\ tx[1] = Len(paid) /\ run.send = Len(paid)  BY <1>0, <1>2, InHand
  <1>4. CoreType' /\ Running' /\ OwnForm'  BY <1>0, <1>1, <1>2, <1>3 DEF CoreType, Running, OwnForm
  <1>5. RowsTell'  BY <1>0, <1>1, <1>2 DEF RowsTell
  <1>6. shown.job.ending = "running"  BY <1>0, <1>1 DEF Running
  <1>7. JobTrue'  BY <1>1, <1>6 DEF JobTrue
  <1>8. \A t \in Tx : Stands(t)' => Stands(t) \/ t = tx  BY <1>1 DEF Stands
  <1>9. Len(paid) \in Nat  BY <1>0, LenProperties DEF CoreType
  <1>10. PaidOnce'
    <2> SUFFICES ASSUME NEW t \in Tx, Stands(t)', NEW s \in 1 .. Len(paid), s > t[1] PROVE paid[s] # paid[t[1]]
      BY <1>1 DEF PaidOnce
    <2>1. t # tx  BY <1>3, <1>9
    <2> QED BY <1>0, <1>8, <2>1 DEF PaidOnce
  <1>11. NotBack'
    <2> SUFFICES ASSUME NEW t \in Tx, Stands(t)', t # tx PROVE paid[t[1]] \notin {send.form, send.draft}
      BY <1>1, <1>2 DEF NotBack
    <2> QED BY <1>0, <1>8 DEF NotBack
  <1> QED BY <1>4, <1>5, <1>7, <1>10, <1>11

LEMMA PaySettle ==
    ASSUME PayInv, NEW u \in Tx, Settle(u)
    PROVE  CoreType' /\ Running' /\ RowsTell' /\ JobTrue' /\ PaidOnce' /\ NotBack' /\ OwnForm'
  <1>0. CoreType /\ Running /\ RowsTell /\ JobTrue /\ PaidOnce /\ NotBack /\ OwnForm  BY DEF PayInv, FlowType
  <1>1. /\ CoreType' /\ UNCHANGED <<at, run, heard, shown, send, paid>>
        /\ rows[u] = "pending" /\ (Sending => u # tx) /\ rows'[u] \in {"over", "conflicted"} /\ \A v \in Tx : v # u => rows'[v] = rows[v]
    BY <1>0, SettleIs
  <1>2. (Sending' <=> Sending) /\ tx' = tx  BY <1>1 DEF Sending, tx
  <1>3. \A t \in Tx : (rows'[t] # "none" <=> rows[t] # "none") /\ (Stands(t)' => Stands(t))  BY <1>1 DEF Stands
  <1>4. Sending => u[1] # run.send  BY <1>0, <1>1 DEF RowsTell
  <1>5. Running' /\ OwnForm' /\ JobTrue'  BY <1>0, <1>1, <1>2 DEF Running, OwnForm, JobTrue
  <1>6. RowsTell'
    <2>1. Sending => tx \in Tx  BY <1>0, InHand
    <2>2. at \in {"noting", "clearing", "submitting", "discarding"} => Sending  BY DEF Sending
    <2>3. heard \subseteq Tx  BY <1>0 DEF CoreType
    <2>4. Sending => \A t \in Tx : t[1] = run.send => rows'[t] = rows[t]  BY <1>1, <1>4
    <2> QED BY <1>0, <1>1, <1>2, <1>3, <2>1, <2>2, <2>3, <2>4 DEF RowsTell
  <1>7. PaidOnce' /\ NotBack'  BY <1>0, <1>1, <1>2, <1>3 DEF PaidOnce, NotBack
  <1> QED BY <1>1, <1>5, <1>6, <1>7

LEMMA PayEnds ==
    ASSUME PayInv, CoreType', EndKept, at \in {"building", "proving", "submitting", "discarding"},
           run'.ending = shown'.job.ending, shown'.job.ending \in Endings,
           shown'.job.ending \in {"failed", "stopped", "asks"} => tx \notin heard,
           shown'.job.ending \in {"sent", "unconfirmed"} => at = "submitting",
           rows' = rows \/ (at = "discarding" /\ rows'[tx] = "none" /\ \A t \in Tx : t # tx => rows'[t] = rows[t]),
           send'.form = send.form, send'.recorded = send.recorded, send'.draft \in {0, send.draft}, send'.open = send.open
    PROVE  Running' /\ RowsTell' /\ JobTrue' /\ PaidOnce' /\ NotBack' /\ OwnForm'
  <1>0. CoreType /\ Running /\ RowsTell /\ JobTrue /\ PaidOnce /\ NotBack /\ OwnForm  BY DEF PayInv, FlowType
  <1>1. /\ at' = "ended" /\ UNCHANGED <<heard, paid>> /\ shown'.job.send = shown.job.send /\ run'.send = run.send
        /\ run'.attempt = run.attempt /\ run'.recorded = run.recorded /\ run'.here = run.here
    BY DEF EndKept
  <1>2. Sending /\ Sending' /\ tx' = tx  BY <1>1 DEF Sending, tx
  <1>3. tx \in Tx /\ tx[1] = Len(paid) /\ run.send = Len(paid)  BY <1>0, <1>2, InHand
  <1>4. Running'  BY <1>0, <1>1, <1>2 DEF Running, Endings
  <1>5. OwnForm'  BY <1>0, <1>1, <1>2 DEF OwnForm, Endings
  <1>6. \A t \in Tx : t # tx => rows'[t] = rows[t]  OBVIOUS
  <1>7. tx \in heard => rows' = rows  BY <1>0 DEF RowsTell
  <1>8. \A t \in Tx : Stands(t)' <=> Stands(t)  BY <1>1, <1>6, <1>7 DEF Stands
  <1>9. PaidOnce'  BY <1>0, <1>1, <1>8 DEF PaidOnce
  <1>10. NotBack'
    <2> SUFFICES ASSUME NEW t \in Tx, Stands(t)', t # tx PROVE paid[t[1]] \notin {send'.form, send'.draft}
      BY <1>1, <1>2 DEF NotBack
    <2>1. paid[t[1]] # 0  BY <1>0, <1>8, StandsEarlier DEF Stands
    <2>2. paid[t[1]] \notin {send.form, send.draft}  BY <1>0, <1>8 DEF NotBack
    <2> QED BY <2>1, <2>2
  <1>11. JobTrue'
    <2> SUFFICES ASSUME shown'.job.ending \in {"failed", "stopped"}, NEW t \in heard PROVE t[1] # shown'.job.send
      BY <1>1 DEF JobTrue
    <2>1. shown'.job.send = Len(paid)  BY <1>0, <1>1 DEF Running
    <2>2. t \in Tx /\ rows[t] # "none" /\ t # tx  BY <1>0 DEF CoreType, RowsTell
    <2> QED BY <1>0, <1>2, <1>3, <2>1, <2>2 DEF RowsTell
  <1>12. RowsTell'
    <2>1. \A t \in Tx : rows'[t] # "none" => rows[t] # "none" /\ rows'[t] = rows[t]  BY <1>6
    <2>2. \A t \in heard : rows'[t] # "none"
      <3> SUFFICES ASSUME NEW t \in heard PROVE rows'[t] # "none"  OBVIOUS
      <3>1. rows[t] # "none" /\ t \in Tx  BY <1>0 DEF RowsTell, CoreType
      <3> QED BY <1>6, <1>7, <3>1
    <2>3. Sending => \A t \in Tx : t[1] = run.send /\ rows'[t] # "none" => t = tx /\ rows'[t] = "pending"  BY <1>0, <2>1 DEF RowsTell
    <2>4. \A t \in Tx : rows'[t] # "none" => t[1] <= Len(paid)  BY <1>0, <2>1 DEF RowsTell
    <2>5. at' = "ended" /\ run'.ending \in {"failed", "stopped", "asks"} => tx' \notin heard'  BY <1>1, <1>2
    <2> QED BY <1>1, <1>2, <2>2, <2>3, <2>4, <2>5 DEF RowsTell
  <1> QED BY <1>4, <1>5, <1>9, <1>10, <1>11, <1>12

\* The send is over, or the app is closed.
LEMMA PayOver ==
    ASSUME PayInv, CoreType', UNCHANGED <<rows, heard, paid>>, at' = "idle", run' = NoRun,
           Sending /\ tx \in heard => send'.form = 0 /\ send'.draft = 0,
           send'.form \in {0, send.form}, send'.draft \in {0, send.form, send.draft},
           \/ at = "ended" /\ shown'.job = shown.job
           \/ shown'.job = NoJob
    PROVE  Running' /\ RowsTell' /\ JobTrue' /\ PaidOnce' /\ NotBack' /\ OwnForm'
  <1>0. CoreType /\ Running /\ RowsTell /\ JobTrue /\ PaidOnce /\ NotBack /\ OwnForm  BY DEF PayInv, FlowType
  <1>1. ~Sending' /\ run'.send = 0 /\ run'.attempt = 0 /\ ~run'.recorded /\ ~run'.here  BY DEF Sending, NoRun
  <1>2. NoJob.ending = "none"  BY DEF NoJob
  <1>3. Running' /\ JobTrue'
    <2>1. CASE at = "ended" /\ shown'.job = shown.job  BY <1>0, <1>1, <2>1 DEF Running, JobTrue
    <2>2. CASE shown'.job = NoJob  BY <1>0, <1>1, <1>2, <2>2 DEF Running, JobTrue
    <2> QED BY <2>1, <2>2
  <1>4. RowsTell' /\ OwnForm'  BY <1>0, <1>1 DEF RowsTell, OwnForm
  <1>5. PaidOnce'  BY <1>0 DEF PaidOnce, Stands
  <1>6. NotBack'
    <2> SUFFICES ASSUME NEW t \in Tx, Stands(t) PROVE paid[t[1]] \notin {send'.form, send'.draft}
      BY DEF NotBack, Stands
    <2>1. paid[t[1]] # 0  BY <1>0, StandsEarlier DEF Stands
    <2>2. CASE Sending /\ t = tx  BY <2>1, <2>2 DEF Stands
    <2>3. CASE ~(Sending /\ t = tx)
      <3>1. paid[t[1]] \notin {send.form, send.draft}  BY <1>0, <2>3 DEF NotBack
      <3> QED BY <2>1, <3>1
    <2> QED BY <2>2, <2>3
  <1> QED BY <1>3, <1>4, <1>5, <1>6

LEMMA PaySendSteps ==
    ASSUME PayInv, SendSteps \/ Close
    PROVE  CoreType' /\ Running' /\ RowsTell' /\ JobTrue' /\ PaidOnce' /\ NotBack' /\ OwnForm'
  <1>0. CoreType /\ Running /\ RowsTell /\ JobTrue /\ PaidOnce /\ NotBack /\ OwnForm  BY DEF PayInv, FlowType
  <1>a. rows \in [Tx -> {"none", "pending", "over", "conflicted"}]  BY <1>0 DEF CoreType
  <1>b. Sending => tx \in Tx /\ tx[1] = run.send  BY <1>0, InHand
  <1>c. at \in {"building", "proving", "discarding"} => tx \notin heard
    BY <1>0, <1>b DEF RowsTell, Sending
  <1>1. CASE Build
    <2>1. at = "building"  BY <1>1 DEF Build
    <2>2. CASE Stopped
      <3>1. CoreType' /\ EndKept /\ UNCHANGED <<rows, send>> /\ shown'.job.ending = "stopped" /\ run'.ending = "stopped"  BY <1>0, <2>2, StoppedIs
      <3> QED BY <1>c, <2>1, <3>1, PayEnds DEF Endings
    <2>3. CASE Failed /\ rows' = rows
      <3>1. CoreType' /\ EndKept /\ UNCHANGED <<rows, send>> /\ shown'.job.ending = "failed" /\ run'.ending = "failed"  BY <1>0, <1>a, <2>3, FailedIs
      <3> QED BY <1>c, <2>1, <3>1, PayEnds DEF Endings
    <2>4. CASE AskLustration
      <3>1. CoreType' /\ EndKept /\ UNCHANGED <<rows, send>> /\ shown'.job.ending = "asks" /\ run'.ending = "asks"  BY <1>0, <2>4, AskLustrationIs
      <3> QED BY <1>c, <2>1, <3>1, PayEnds DEF Endings
    <2>5. CASE Again /\ Goes("building")
      <3>1. CoreType' /\ Onward("building", "building") /\ UNCHANGED <<rows, send>> /\ run'.recorded = run.recorded
        BY <1>0, <2>1, <2>5, AgainIs DEF Goes, CoreType, Onward, Runs
      <3> QED BY <3>1, PayOnward
    <2>6. CASE Goes("proving") /\ UNCHANGED run
      <3>1. CoreType' /\ Onward("building", "proving") /\ UNCHANGED <<rows, send>> /\ run'.recorded = run.recorded
        BY <1>0, <2>1, <2>6 DEF Goes, CoreType, Onward, Runs
      <3> QED BY <3>1, PayOnward
    <2> QED BY <1>1, <2>2, <2>3, <2>4, <2>5, <2>6 DEF Build
  <1>2. CASE Prove
    <2>1. at = "proving"  BY <1>2 DEF Prove
    <2>2. CASE Stopped
      <3>1. CoreType' /\ EndKept /\ UNCHANGED <<rows, send>> /\ shown'.job.ending = "stopped" /\ run'.ending = "stopped"  BY <1>0, <2>2, StoppedIs
      <3> QED BY <1>c, <2>1, <3>1, PayEnds DEF Endings
    <2>3. CASE Failed /\ rows' = rows
      <3>1. CoreType' /\ EndKept /\ UNCHANGED <<rows, send>> /\ shown'.job.ending = "failed" /\ run'.ending = "failed"  BY <1>0, <1>a, <2>3, FailedIs
      <3> QED BY <1>c, <2>1, <3>1, PayEnds DEF Endings
    <2>4. CASE /\ at' = "noting" /\ rows' = [rows EXCEPT ![tx] = "pending"]
               /\ UNCHANGED <<run, log, heard, shown, unsaved, lock, refresh, send, paid>>
      <3>1. rows' \in [Tx -> {"none", "pending", "over", "conflicted"}] /\ rows'[tx] = "pending" /\ \A t \in Tx : t # tx => rows'[t] = rows[t]
        BY <1>a, <1>b, <2>1, <2>4 DEF Sending
      <3>2. CoreType'  BY <1>0, <2>4, <3>1 DEF CoreType
      <3>3. Onward("proving", "noting") /\ run'.recorded = run.recorded /\ run'.attempt = run.attempt /\ send' = send
        BY <1>0, <2>1, <2>4 DEF Onward, CoreType, Runs
      <3> QED BY <3>1, <3>2, <3>3, PayOnward
    <2> QED BY <1>2, <2>2, <2>3, <2>4 DEF Prove
  <1>3. CASE OnRecorded
    <2>1. /\ CoreType' /\ UNCHANGED <<rows, heard, shown, paid>> /\ at = "noting" /\ at' = "clearing"
          /\ run'.send = run.send /\ run'.attempt = run.attempt /\ run'.recorded /\ run'.here = run.here
          /\ send'.form = send.form /\ send'.draft = 0 /\ send'.recorded = paid[run.send]
      BY <1>0, <1>3, OnRecordedIs
    <2>2. send'.open = send.open  BY <1>0, <1>3 DEF OnRecorded, CoreType, Forms
    <2>3. Onward("noting", "clearing")  BY <1>0, <2>1 DEF Onward, CoreType, Runs
    <2> QED BY <2>1, <2>2, <2>3, PayOnward
  <1>4. CASE StartedCleared
    <2>1. CoreType' /\ UNCHANGED <<run, rows, heard, shown, send, paid>> /\ at = "clearing" /\ at' = "submitting"
      BY <1>0, <1>4, StartedClearedIs
    <2>2. Onward("clearing", "submitting") /\ run'.recorded = run.recorded /\ run'.attempt = run.attempt
      BY <1>0, <2>1 DEF Onward, CoreType, Runs
    <2> QED BY <2>1, <2>2, PayOnward
  <1>5. CASE AnswerLost \/ Accepted
    <2>1. at = "submitting" /\ (Unconfirmed \/ Sent)  BY <1>5 DEF AnswerLost, Accepted
    <2>2. Sending  BY <2>1 DEF Sending
    <2>3. /\ CoreType' /\ EndKept /\ rows' = rows /\ send'.form = send.form /\ send'.recorded = send.recorded /\ send'.draft = 0 /\ send'.open = send.open
          /\ shown'.job.ending \in {"sent", "unconfirmed"} /\ run'.ending = shown'.job.ending
      BY <1>0, <2>1, <2>2, GoesOutIs
    <2> QED BY <2>1, <2>3, PayEnds DEF Endings
  <1>6. CASE Refused
    <2>1. at = "submitting" /\ tx \notin heard /\ Goes("discarding") /\ UNCHANGED run  BY <1>6 DEF Refused, IsRefusal
    <2>2. CoreType' /\ Onward("submitting", "discarding") /\ UNCHANGED <<rows, send>> /\ run'.recorded = run.recorded /\ run'.attempt = run.attempt
      BY <1>0, <2>1 DEF Goes, CoreType, Onward, Runs
    <2> QED BY <2>1, <2>2, PayOnward
  <1>7. CASE Discard
    <2>1. at = "discarding" /\ tx \notin heard  BY <1>7, <1>c DEF Discard
    <2>2. CASE Failed /\ rows' = rows
      <3>1. CoreType' /\ EndKept /\ UNCHANGED <<rows, send>> /\ shown'.job.ending = "failed" /\ run'.ending = "failed"  BY <1>0, <1>a, <2>2, FailedIs
      <3> QED BY <2>1, <3>1, PayEnds DEF Endings
    <2>3. CASE rows' = [rows EXCEPT ![tx] = "none"] /\ Failed
      <3>1. rows' \in [Tx -> {"none", "pending", "over", "conflicted"}] /\ rows'[tx] = "none" /\ \A t \in Tx : t # tx => rows'[t] = rows[t]
        BY <1>a, <1>b, <2>1, <2>3 DEF Sending
      <3>2. CoreType' /\ EndKept /\ UNCHANGED send /\ shown'.job.ending = "failed" /\ run'.ending = "failed"  BY <1>0, <2>3, <3>1, FailedIs
      <3> QED BY <2>1, <3>1, <3>2, PayEnds DEF Endings
    <2>4. CASE rows' = [rows EXCEPT ![tx] = "none"] /\ Again /\ at' = "building" /\ UNCHANGED <<log, heard, shown, unsaved, lock, refresh, send, paid>>
      <3>1. rows' \in [Tx -> {"none", "pending", "over", "conflicted"}] /\ rows'[tx] = "none" /\ \A t \in Tx : t # tx => rows'[t] = rows[t]
        BY <1>a, <1>b, <2>1, <2>4 DEF Sending
      <3>2. CoreType' /\ Onward("discarding", "building") /\ run'.recorded = run.recorded /\ send' = send
        BY <1>0, <2>1, <2>4, <3>1, AgainIs DEF CoreType, Onward, Runs
      <3> QED BY <3>1, <3>2, PayOnward
    <2> QED BY <1>7, <2>2, <2>3, <2>4 DEF Discard
  <1>8. CASE Finally
    <2>1. /\ CoreType' /\ UNCHANGED <<rows, heard, paid>> /\ at = "ended" /\ at' = "idle" /\ run' = NoRun /\ shown'.job \in {NoJob, shown.job}
          /\ ~lock.waiting => send'.draft = send.draft
          /\ lock.waiting => send'.form = 0 /\ send'.draft \in {0, send.form}
                             /\ (run.here /\ run.ending \in {"sent", "unconfirmed"} => send'.draft = 0)
          /\ send'.form \in {0, send.form}
          /\ run.here /\ run.ending \in {"sent", "unconfirmed"} => send'.form = 0
      BY <1>0, <1>8, FinallyIs DEF JobAfter
    <2>2. tx \in heard => run.ending \in {"sent", "unconfirmed"}
      BY <1>0, <2>1 DEF RowsTell, Running, CoreType, Runs, Endings
    <2>3. Sending /\ tx \in heard => send'.form = 0 /\ send'.draft = 0
      <3> SUFFICES ASSUME Sending, tx \in heard PROVE send'.form = 0 /\ send'.draft = 0  OBVIOUS
      <3>1. run.recorded /\ run.ending \in {"sent", "unconfirmed"}  BY <1>0, <2>1, <2>2 DEF OwnForm
      <3>2. send.draft = 0 /\ (~run.here => send.form = 0)  BY <1>0, <3>1 DEF OwnForm
      <3> QED BY <2>1, <3>1, <3>2
    <2>4. send'.draft \in {0, send.form, send.draft}  BY <2>1
    <2> QED BY <2>1, <2>3, <2>4, PayOver
  <1>9. CASE Close
    <2>1. /\ CoreType' /\ UNCHANGED <<rows, heard, paid>> /\ at' = "idle" /\ run' = NoRun /\ shown'.job = NoJob /\ send'.form = 0 /\ send'.draft = 0
      BY <1>0, <1>9, CloseIs
    <2> QED BY <2>1, PayOver
  <1>10. CASE WriteLast \/ WriteFailure
    <2>1. PICK field \in {"last", "failure"} : CoreType' /\ Writes(field)  BY <1>0, <1>10, WriteLastIs, WriteFailureIs
    <2>2. /\ UNCHANGED <<at, rows, heard, shown, send, paid>>
          /\ run'.send = run.send /\ run'.attempt = run.attempt /\ run'.recorded = run.recorded /\ run'.here = run.here /\ run'.ending = run.ending
      BY <2>1 DEF Writes
    <2>3. tx' = tx /\ (Sending' <=> Sending)  BY <2>2 DEF tx, Sending
    <2>4. Running' /\ JobTrue' /\ PaidOnce' /\ OwnForm'  BY <1>0, <2>2, <2>3 DEF Running, JobTrue, PaidOnce, Stands, OwnForm
    <2>5. RowsTell' /\ NotBack'  BY <1>0, <2>2, <2>3 DEF RowsTell, NotBack, Stands
    <2> QED BY <2>1, <2>4, <2>5
  <1> QED BY <1>1, <1>2, <1>3, <1>4, <1>5, <1>6, <1>7, <1>8, <1>9, <1>10 DEF SendSteps

LEMMA WatchIs ==
    ASSUME FlowType, CoreType', Watch
    PROVE  /\ told' \subseteq Sends /\ told \subseteq told'
           /\ ~lock'.locked /\ lock'.visible =>
                /\ shown'.failure # 0 => shown'.failure \in told'
                /\ shown'.last.tx[1] # 0 => shown'.last.tx[1] \in told'
                /\ shown'.job.ending \in {"sent", "unconfirmed", "failed"} /\ shown'.job.send # 0 => shown'.job.send \in told'
           /\ shown'.job.ending = "stopped" /\ shown'.job.send # 0 => shown'.job.send \in told'
           /\ at # "idle" /\ at' = "idle" /\ shown'.job = NoJob /\ closes' = closes /\ run.send # 0 => run.send \in told'
  <1> USE Numbers, NoteIs
  <1>1. told' = told \union ((OnScreen \union Asked) \ {0})  BY DEF Watch
  <1>2. shown' \in Pages /\ run.send \in Counts  BY DEF FlowType, CoreType, Runs
  <1>3. shown'.failure \in Counts /\ shown'.job.send \in Counts /\ shown'.last \in Notes  BY <1>2 DEF Pages, Jobs
  <1>4. shown'.last.tx[1] \in Counts  BY <1>3
  <1>5. Asked \subseteq Counts  BY <1>2 DEF Asked
  <1>6. OnScreen \subseteq Counts  BY <1>3, <1>4 DEF OnScreen
  <1>7. \A i \in Counts : i # 0 => i \in Sends  BY DEF Counts, Sends
  <1>8. told' \subseteq Sends /\ told \subseteq told'  BY <1>1, <1>5, <1>6, <1>7 DEF FlowType
  <1>9. ~lock'.locked /\ lock'.visible =>
          /\ shown'.failure \in OnScreen /\ shown'.last.tx[1] \in OnScreen
          /\ shown'.job.ending \in {"sent", "unconfirmed", "failed"} => shown'.job.send \in OnScreen
    BY DEF OnScreen
  <1>10. shown'.job.ending = "stopped" => shown'.job.send \in OnScreen  BY DEF OnScreen
  <1>11. at # "idle" /\ at' = "idle" /\ shown'.job = NoJob /\ closes' = closes => run.send \in Asked  BY DEF Asked
  <1> HIDE DEF OnScreen, Asked
  <1> QED BY <1>1, <1>8, <1>9, <1>10, <1>11

\* The steps there are.
Steps ==
    \/ \E p \in {0} \cup Payment : \/ Visit \/ Leave \/ (p \in Payment /\ Type(p)) \/ Refill \/ DismissResult \/ DismissNote \/ CancelSend
                                   \/ Lock \/ Hide \/ Show \/ Unlock \/ BeginRefresh \/ RefreshLast \/ RefreshStarted \/ RefreshShow
    \/ StartSend \/ NodeTakes \/ (\E t \in Tx : Settle(t)) \/ SendSteps \/ Close

LEMMA NextIs == Next => Steps /\ Watch
  BY Zenon DEF Next, Steps, Screens, Page, RefreshSteps

LEMMA PayInit == Init => PayInv
  <1> SUFFICES ASSUME Init PROVE PayInv  OBVIOUS
  <1>1. FlowType  BY TypeInit
  <1>2. /\ at = "idle" /\ run.send = 0 /\ run.attempt = 0 /\ ~run.recorded /\ ~run.here /\ shown.job = NoJob /\ heard = {}
        /\ \A t \in Tx : rows[t] = "none"
    BY DEF Init, NoRun
  <1>3. NoJob.ending = "none"  BY DEF NoJob
  <1>4. Running  BY <1>2, <1>3 DEF Running, Sending
  <1>5. RowsTell /\ JobTrue /\ PaidOnce /\ NotBack /\ OwnForm  BY <1>2, <1>3 DEF RowsTell, JobTrue, PaidOnce, NotBack, OwnForm, Stands, Sending
  <1> QED BY <1>1, <1>4, <1>5 DEF PayInv

LEMMA PayStep == PayInv /\ [Next]_vars => PayInv'
  <1> SUFFICES ASSUME PayInv, [Next]_vars PROVE PayInv'  OBVIOUS
  <1>1. CASE Next
    <2>1. Steps /\ Watch  BY <1>1, NextIs
    <2>2. CoreType' /\ Running' /\ RowsTell' /\ JobTrue' /\ PaidOnce' /\ NotBack' /\ OwnForm'
      BY <2>1, QuietSteps, PayStart, PayHeard, PaySettle, PaySendSteps DEF Steps
    <2>3. told' \subseteq Sends  BY <2>1, <2>2, WatchIs DEF PayInv
    <2> QED BY <2>2, <2>3 DEF PayInv, FlowType
  <1>2. CASE UNCHANGED vars
    <2>1. /\ at' = at /\ run' = run /\ log' = log /\ rows' = rows /\ heard' = heard /\ shown' = shown /\ unsaved' = unsaved
          /\ lock' = lock /\ refresh' = refresh /\ send' = send /\ told' = told /\ paid' = paid
      BY <1>2 DEF vars
    <2>2. FlowType'  BY <2>1 DEF PayInv, FlowType, CoreType
    <2>3. Running' /\ RowsTell' /\ JobTrue'  BY <2>1 DEF PayInv, Running, RowsTell, JobTrue, Sending, tx
    <2>4. PaidOnce' /\ NotBack' /\ OwnForm'  BY <2>1 DEF PayInv, PaidOnce, NotBack, OwnForm, Stands, Sending, tx
    <2> QED BY <2>2, <2>3, <2>4 DEF PayInv
  <1> QED BY <1>1, <1>2

LEMMA PayAlways == Spec => []PayInv
  <1> QED BY PayInit, PayStep, PTL DEF Spec

(* A payment the node has taken is not put back on the form, by whatever    *)
(* lock, change of screen, Cancel, end of the app or lost answer, also in   *)
(* the orders of events the run leaves out: one press would pay it twice    *)
(* (app/sendDraft.ts sendRecorded, the form's reset after a send).          *)
THEOREM PaidIsNotOffered == Spec => []PaidNotOffered
  <1>1. PayInv => PaidNotOffered
    <2> SUFFICES ASSUME PayInv, NEW t \in heard, rows[t] # "conflicted" PROVE paid[t[1]] \notin Offered
      BY DEF PaidNotOffered
    <2>1. t \in Tx /\ Stands(t)  BY DEF PayInv, FlowType, CoreType, Stands
    <2>2. ~Sending => paid[t[1]] \notin {send.form, send.draft}  BY <2>1 DEF PayInv, NotBack
    <2> QED BY <2>2 DEF Offered
  <1> QED BY <1>1, PayAlways, PTL

(* No payment goes out twice: once the node has taken a send of it, no      *)
(* later send pays it again, unless the coins of the first are known to     *)
(* have gone elsewhere (a payment typed again is another one).              *)
THEOREM GoesOutOnce == Spec => []PaidOnce
  <1>1. PayInv => PaidOnce  BY DEF PayInv
  <1> QED BY <1>1, PayAlways, PTL

-----------------------------------------------------------------------------
(* What is said not to have gone out did not *)

RowsMove ==
    \/ rows' = rows
    \/ /\ at = "proving" /\ at' = "noting" /\ paid' = paid /\ heard' = heard /\ UNCHANGED <<log, refresh, lock>>
       /\ rows'[tx] = "pending" /\ \A t \in Tx : t # tx => rows'[t] = rows[t]
    \/ /\ at = "discarding" /\ at' \in {"building", "ended"} /\ paid' = paid /\ heard' = heard /\ log'.started = log.started /\ UNCHANGED <<refresh, lock>>
       /\ rows'[tx] = "none" /\ \A t \in Tx : t # tx => rows'[t] = rows[t]
    \/ \E t \in Tx : Settle(t)

AtMoves ==
    \/ at' = at /\ paid' = paid
    \/ at = "idle" /\ Len(paid') = Len(paid) + 1 /\ heard' = heard /\ rows' = rows
    \/ at # "idle" /\ paid' = paid /\ heard' = heard /\ (at = "ended" => at' = "idle")

HeardMoves == heard' = heard \/ (at = "submitting" /\ at' = at /\ heard' = heard \cup {tx} /\ rows' = rows)

Moves == RowsMove /\ AtMoves /\ HeardMoves

LEMMA MovesIs == ASSUME PayInv, Steps PROVE Moves
  <1>0. CoreType /\ Running  BY DEF PayInv, FlowType
  <1>r. rows \in [Tx -> {"none", "pending", "over", "conflicted"}] /\ (Sending => tx \in Tx)  BY <1>0, InHand DEF CoreType
  <1>e. ASSUME Stopped \/ Failed \/ Unconfirmed \/ Sent PROVE at' = "ended" /\ UNCHANGED <<heard, paid, lock, refresh>>
    BY <1>e DEF Stopped, Failed, Unconfirmed, Sent, Ends
  <1>1. ASSUME NEW p, \/ Visit \/ Leave \/ (p \in Payment /\ Type(p)) \/ Refill \/ DismissResult \/ DismissNote \/ CancelSend
                      \/ Lock \/ Hide \/ Show \/ Unlock \/ BeginRefresh \/ RefreshLast \/ RefreshStarted \/ RefreshShow
        PROVE  Moves
    <2>1. UNCHANGED <<at, rows, heard, paid>>
      BY <1>1 DEF Visit, Leave, Type, Refill, DismissResult, DismissNote, CancelSend, Lock, Hide, Show, Unlock, BeginRefresh, ReadNotes, RefreshLast, RefreshStarted, RefreshShow
    <2> QED BY <2>1 DEF Moves, RowsMove, AtMoves, HeardMoves
  <1>2. CASE StartSend
    <2>1. UNCHANGED <<rows, heard>> /\ at = "idle" /\ Len(paid') = Len(paid) + 1  BY <1>0, <1>2, StartSendIs DEF Sending
    <2> QED BY <2>1 DEF Moves, RowsMove, AtMoves, HeardMoves
  <1>3. CASE NodeTakes  BY <1>3 DEF NodeTakes, Moves, RowsMove, AtMoves, HeardMoves
  <1>4. ASSUME NEW t \in Tx, Settle(t) PROVE Moves
    <2>1. UNCHANGED <<at, heard, paid>>  BY <1>4 DEF Settle, ReadNotes
    <2> QED BY <1>4, <2>1 DEF Moves, RowsMove, AtMoves, HeardMoves
  <1>5. CASE Build
    <2>1. at = "building"  BY <1>5 DEF Build
    <2>2. rows' = rows /\ UNCHANGED <<heard, paid>>
      BY <1>5 DEF Build, Stopped, Failed, Ends, AskLustration, Goes
    <2> QED BY <2>1, <2>2 DEF Moves, RowsMove, AtMoves, HeardMoves
  <1>6. CASE Prove
    <2>1. at = "proving"  BY <1>6 DEF Prove
    <2>2. UNCHANGED <<heard, paid>>  BY <1>6 DEF Prove, Stopped, Failed, Ends
    <2>3. RowsMove
      <3>1. rows' = rows \/ (at' = "noting" /\ rows' = [rows EXCEPT ![tx] = "pending"] /\ UNCHANGED <<log, refresh, lock>>)
        BY <1>6 DEF Prove, Stopped
      <3> QED BY <1>r, <2>1, <2>2, <3>1 DEF RowsMove, Sending
    <2> QED BY <2>1, <2>2, <2>3 DEF Moves, AtMoves, HeardMoves
  <1>7. CASE OnRecorded \/ StartedCleared \/ AnswerLost \/ Accepted \/ Refused \/ Finally
    <2>1. at # "idle" /\ (at = "ended" => at' = "idle")  BY <1>7 DEF OnRecorded, StartedCleared, AnswerLost, Accepted, Refused, Finally
    <2>2. UNCHANGED <<rows, heard, paid>>
      BY <1>7 DEF OnRecorded, StartedCleared, AnswerLost, Accepted, Refused, Finally, Unconfirmed, Sent, Ends, Goes
    <2> QED BY <2>1, <2>2 DEF Moves, RowsMove, AtMoves, HeardMoves
  <1>8. CASE Discard
    <2>1. at = "discarding"  BY <1>8 DEF Discard
    <2>2. UNCHANGED <<heard, paid, lock, refresh>> /\ at' \in {"building", "ended"}  BY <1>8 DEF Discard, Failed, Ends
    <2>3. log'.started = log.started
      <3>1. Failed \/ log' = log  BY <1>8 DEF Discard
      <3>2. rows' \in [Tx -> {"none", "pending", "over", "conflicted"}]  BY <1>8, <1>r DEF Discard
      <3> QED BY <1>0, <3>1, <3>2, FailedIs DEF EndKept
    <2>4. rows' = rows \/ rows' = [rows EXCEPT ![tx] = "none"]  BY <1>8 DEF Discard
    <2>5. RowsMove  BY <1>r, <2>1, <2>2, <2>3, <2>4 DEF RowsMove, Sending
    <2> QED BY <2>1, <2>2, <2>5 DEF Moves, AtMoves, HeardMoves
  <1>9. CASE Close
    <2>1. UNCHANGED <<rows, heard, paid>> /\ at' = "idle"  BY <1>9 DEF Close
    <2>2. at' = at \/ at # "idle"  BY <2>1
    <2> QED BY <2>1, <2>2 DEF Moves, RowsMove, AtMoves, HeardMoves
  <1>10. CASE WriteLast \/ WriteFailure
    <2>1. UNCHANGED <<at, rows, heard, paid>>  BY <1>10 DEF WriteLast, WriteFailure
    <2> QED BY <2>1 DEF Moves, RowsMove, AtMoves, HeardMoves
  <1> QED BY <1>1, <1>2, <1>3, <1>4, <1>5, <1>6, <1>7, <1>8, <1>9, <1>10 DEF Steps, SendSteps

LEMMA SayZero == ASSUME NEW a, NEW h, NEW r, NEW n \in Nat, a \notin {"idle", "ended"} => n >= 1 PROVE MaySay(0, a, h, r, n)
  <1>1. \A t \in Tx : t[1] # 0  BY Transactions, Numbers
  <1> QED BY <1>1, Numbers DEF MaySay

LEMMA SayKept ==
    ASSUME PayInv, Moves, NEW s, MaySay(s, at, heard, rows, Len(paid))
    PROVE  MaySay(s, at', heard', rows', Len(paid'))
  <1>0. CoreType /\ Running /\ RowsTell  BY DEF PayInv, FlowType
  <1>1. s \in Counts /\ s \in Nat /\ s <= Len(paid) /\ Len(paid) \in Nat  BY <1>0, LenProperties, Numbers DEF MaySay, CoreType
  <1>2. s <= Len(paid') /\ (at' \notin {"idle", "ended"} => s # Len(paid'))
    <2>1. CASE at' = at /\ paid' = paid  BY <1>1, <2>1 DEF MaySay
    <2>2. CASE at = "idle" /\ Len(paid') = Len(paid) + 1  BY <1>1, <2>2
    <2>3. CASE at # "idle" /\ paid' = paid /\ (at = "ended" => at' = "idle")  BY <1>1, <2>3 DEF MaySay
    <2> QED BY <2>1, <2>2, <2>3 DEF Moves, AtMoves
  <1>3. ASSUME NEW t \in Tx, t \in heard', t[1] = s PROVE rows'[t] = "conflicted"
    <2>1. t \in heard
      <3>1. CASE at = "submitting" /\ heard' = heard \cup {tx}
        <4>1. tx[1] = Len(paid)  BY <1>0, <3>1, InHand DEF Sending
        <4>2. s # Len(paid)  BY <3>1 DEF MaySay
        <4> QED BY <1>3, <3>1, <4>1, <4>2
      <3> QED BY <1>3, <3>1 DEF Moves, HeardMoves
    <2>2. rows[t] = "conflicted"  BY <1>3, <2>1 DEF MaySay
    <2>3. CASE rows' = rows  BY <2>2, <2>3
    <2>4. CASE /\ at \in {"proving", "discarding"} /\ \A u \in Tx : u # tx => rows'[u] = rows[u]
      <3>1. Sending /\ t # tx  BY <1>0, <2>2, <2>4, InHand DEF RowsTell, Sending
      <3> QED BY <2>2, <2>4, <3>1
    <2>5. CASE \E u \in Tx : Settle(u)
      <3>1. PICK u \in Tx : Settle(u)  BY <2>5
      <3>2. rows[u] = "pending" /\ \A v \in Tx : v # u => rows'[v] = rows[v]  BY <1>0, <3>1, SettleIs
      <3> QED BY <2>2, <3>2
    <2> QED BY <2>3, <2>4, <2>5 DEF Moves, RowsMove
  <1> QED BY <1>1, <1>2, <1>3 DEF MaySay

LEMMA RowKept == ASSUME PayInv, Moves, OneRow PROVE OneRow'
  <1>0. CoreType /\ Running /\ RowsTell  BY DEF PayInv, FlowType
  <1>1. CASE rows' = rows  BY <1>1 DEF OneRow
  <1>2. CASE at \in {"proving", "discarding"} /\ \A u \in Tx : u # tx => rows'[u] = rows[u]
    <2>1. Sending /\ tx \in Tx /\ tx[1] = run.send  BY <1>0, <1>2, InHand DEF Sending
    <2>2. \A t \in Tx : t[1] = run.send /\ rows[t] # "none" => t = tx  BY <1>0, <2>1 DEF RowsTell
    <2> QED BY <1>2, <2>1, <2>2 DEF OneRow
  <1>3. CASE \E u \in Tx : Settle(u)
    <2>1. PICK u \in Tx : Settle(u)  BY <1>3
    <2>2. rows[u] = "pending" /\ \A v \in Tx : v # u => rows'[v] = rows[v]  BY <1>0, <2>1, SettleIs
    <2> QED BY <2>2 DEF OneRow
  <1> QED BY <1>1, <1>2, <1>3 DEF Moves, RowsMove

\* What the notes say after a step is what they said before, or what may be said now.
Says(v) == v = 0 \/ v \in {log.failure, shown.failure, unsaved, refresh.failure} \/ MaySay(v, at', heard', rows', Len(paid'))

LEMMA SaidFrom ==
    ASSUME SaidInv, PayInv', Moves, Says(log'.failure), Says(shown'.failure), Says(unsaved'), Says(refresh'.failure)
    PROVE  SaidTrue'
  <1>1. Len(paid') \in Nat /\ (at' \notin {"idle", "ended"} => Len(paid') >= 1)
    BY LenProperties DEF PayInv, FlowType, CoreType, Running, Sending
  <1>2. MaySay(0, at', heard', rows', Len(paid'))  BY <1>1, SayZero
  <1>3. \A v \in {log.failure, shown.failure, unsaved, refresh.failure} : MaySay(v, at', heard', rows', Len(paid'))
    BY SayKept DEF SaidInv, SaidTrue
  <1> QED BY <1>2, <1>3 DEF Says, SaidTrue

LEMMA NowNotSent ==
    ASSUME PayInv, Moves, PayInv', at' = "ended", run'.ending = "failed", paid' = paid
    PROVE  MaySay(run'.send, at', heard', rows', Len(paid'))
  <1>1. Sending' /\ tx' \notin heard' /\ run'.send = Len(paid') /\ run'.send \in Counts /\ heard' \subseteq Tx
    BY DEF PayInv, FlowType, CoreType, Runs, RowsTell, Running, Sending
  <1>2. \A t \in Tx : t \in heard' /\ t[1] = run'.send => t = tx'  BY <1>1 DEF PayInv, RowsTell
  <1>3. run'.send \in Nat  BY <1>1, Numbers
  <1> QED BY <1>1, <1>2, <1>3 DEF MaySay

NotesFrom == Says(log'.failure) /\ Says(shown'.failure) /\ Says(unsaved') /\ Says(refresh'.failure)

LEMMA ReadsSay ==
    ASSUME CoreType, ReadNotes, shown' = shown
    PROVE  NotesFrom
  <1>1. log'.failure \in {unsaved, log.failure} /\ refresh'.failure = log'.failure /\ unsaved' = 0  BY ReadNotesIs
  <1> QED BY <1>1 DEF NotesFrom, Says

LEMMA FailedSays ==
    ASSUME SaidInv, PayInv', Moves, Failed, rows' \in [Tx -> {"none", "pending", "over", "conflicted"}]
    PROVE  NotesFrom
  <1>0. CoreType  BY DEF SaidInv, PayInv, FlowType
  <1>1. /\ run'.ending = "failed" /\ at' = "ended" /\ paid' = paid /\ refresh' = refresh /\ run'.send = run.send
        /\ shown'.failure = run.send /\ UNCHANGED <<log, unsaved>>
    BY <1>0, FailedIs DEF EndKept
  <1>2. MaySay(run'.send, at', heard', rows', Len(paid'))  BY <1>1, NowNotSent DEF SaidInv
  <1> QED BY <1>1, <1>2 DEF NotesFrom, Says

LEMMA StepSays ==
    ASSUME SaidInv, PayInv', Moves, Steps
    PROVE  NotesFrom
  <1>0. CoreType /\ Running /\ RowsTell  BY DEF SaidInv, PayInv, FlowType
  <1>r. rows \in [Tx -> {"none", "pending", "over", "conflicted"}]  BY <1>0 DEF CoreType
  <1>s. UNCHANGED <<log, shown, unsaved, refresh>> => NotesFrom  BY DEF NotesFrom, Says
  <1>1. CASE Visit \/ CancelSend \/ Hide \/ Show \/ NodeTakes \/ Refused
    BY <1>s, <1>1 DEF Visit, CancelSend, Hide, Show, NodeTakes, Refused, Goes
  <1>2. ASSUME NEW p \in Payment, Type(p) PROVE NotesFrom  BY <1>s, <1>2 DEF Type
  <1>3. CASE Leave
    <2>1. log'.failure = log.failure /\ shown'.failure = shown.failure /\ UNCHANGED <<unsaved, refresh>>  BY <1>0, <1>3, LeaveIs
    <2> QED BY <2>1 DEF NotesFrom, Says
  <1>4. CASE Refill
    <2>1. log'.failure \in {0, log.failure} /\ shown'.failure = 0 /\ UNCHANGED <<unsaved, refresh>>  BY <1>0, <1>4, RefillIs
    <2> QED BY <2>1 DEF NotesFrom, Says
  <1>5. CASE DismissResult
    <2>1. log'.failure \in {0, log.failure} /\ shown'.failure \in {0, shown.failure} /\ UNCHANGED <<unsaved, refresh>>  BY <1>0, <1>5, DismissResultIs
    <2> QED BY <2>1 DEF NotesFrom, Says
  <1>6. CASE DismissNote
    <2>1. log'.failure \in {0, log.failure} /\ shown'.failure \in {0, shown.failure} /\ UNCHANGED <<unsaved, refresh>>  BY <1>0, <1>6, DismissNoteIs
    <2> QED BY <2>1 DEF NotesFrom, Says
  <1>7. CASE Lock
    <2>1. log' = log /\ shown'.failure = 0 /\ unsaved' = unsaved /\ refresh'.failure = 0  BY <1>0, <1>7, LockIs
    <2> QED BY <2>1 DEF NotesFrom, Says
  <1>8. CASE Unlock
    <2>1. ReadNotes  BY <1>8 DEF Unlock
    <2> QED BY <1>0, <2>1, ReadsSay DEF ReadNotes
  <1>9. CASE BeginRefresh
    <2>1. ReadNotes  BY <1>9 DEF BeginRefresh
    <2> QED BY <1>0, <2>1, ReadsSay DEF ReadNotes
  <1>10. ASSUME NEW t \in Tx, Settle(t) PROVE NotesFrom
    <2>1. ReadNotes  BY <1>10 DEF Settle
    <2> QED BY <1>0, <2>1, ReadsSay DEF ReadNotes
  <1>11. CASE RefreshLast
    <2>1. UNCHANGED <<log, shown, unsaved>> /\ refresh'.failure = refresh.failure  BY <1>0, <1>11, RefreshLastIs
    <2> QED BY <2>1 DEF NotesFrom, Says
  <1>12. CASE RefreshStarted
    <2>1. /\ UNCHANGED <<at, rows, heard, paid, shown, unsaved>> /\ refresh.at = "started"
          /\ \/ refresh'.failure = refresh.failure /\ log'.failure = log.failure
             \/ log.started # 0 /\ refresh'.failure = log.started /\ log'.failure = log.started /\ ~PendingFrom(log.started)
      BY <1>0, <1>12, RefreshStartedIs DEF SendKept
    <2>2. CASE refresh'.failure = refresh.failure /\ log'.failure = log.failure  BY <2>1, <2>2 DEF NotesFrom, Says
    <2>3. CASE log.started # 0 /\ refresh'.failure = log.started /\ log'.failure = log.started /\ ~PendingFrom(log.started)
      <3>1. log.started = Len(paid) /\ at = "idle" /\ \A t \in Tx : t[1] = Len(paid) => rows[t] \in {"none", "pending"}
        BY <2>1, <2>3 DEF SaidInv, StartedTells, Sending
      <3>2. \A t \in Tx : t[1] = log.started => rows[t] # "pending"
        <4>1. Len(paid) \in Nat  BY <1>0, LenProperties DEF CoreType
        <4> QED BY <2>3, <3>1, <4>1 DEF PendingFrom
      <3>3. \A t \in Tx : t \in heard => rows[t] # "none"  BY <1>0 DEF RowsTell
      <3>4. log.started \in Counts /\ log.started <= Len(paid)  BY <1>0, <3>1, LenProperties DEF CoreType, Logs
      <3>5. MaySay(log.started, at, heard, rows, Len(paid))  BY <3>1, <3>2, <3>3, <3>4 DEF MaySay
      <3>6. MaySay(log.started, at', heard', rows', Len(paid'))  BY <2>1, <3>5
      <3> QED BY <2>1, <2>3, <3>6 DEF NotesFrom, Says
    <2> QED BY <2>1, <2>2, <2>3
  <1>13. CASE RefreshShow
    <2>1. /\ UNCHANGED <<at, rows, heard, paid, unsaved>> /\ refresh'.failure = 0
          /\ Lost(refresh.sent) => shown'.failure = refresh.sent.tx[1] /\ log'.failure = refresh.sent.tx[1]
          /\ ~Lost(refresh.sent) => shown'.failure = refresh.failure /\ log'.failure = log.failure
      BY <1>0, <1>13, RefreshShowIs DEF SendKept
    <2>2. CASE ~Lost(refresh.sent)  BY <2>1, <2>2 DEF NotesFrom, Says
    <2>3. CASE Lost(refresh.sent)
      <3> DEFINE u == refresh.sent.tx
      <3>1. at = "idle" /\ u \in Tx /\ rows[u] = "conflicted" /\ u[1] \in Counts
        <4>1. refresh.sent \in Notes /\ refresh.sent # None  BY <1>0, <2>3 DEF CoreType, Refreshes, Lost, Settled
        <4> QED BY <2>3, <4>1, NoteIs, Numbers DEF Lost, Settled, Sending
      <3>2. \A t \in Tx : t \in heard => rows[t] # "none"  BY <1>0 DEF RowsTell
      <3>3. u[1] <= Len(paid)  BY <1>0, <3>1 DEF RowsTell
      <3> HIDE DEF u
      <3>4. \A t \in Tx : t \in heard /\ t[1] = u[1] => t = u  BY <3>1, <3>2 DEF SaidInv, OneRow
      <3>5. MaySay(u[1], at, heard, rows, Len(paid))  BY <3>1, <3>3, <3>4 DEF MaySay
      <3>6. MaySay(u[1], at', heard', rows', Len(paid'))  BY <2>1, <3>5
      <3>7. shown'.failure = u[1] /\ log'.failure = u[1]  BY <2>1, <2>3 DEF u
      <3> QED BY <2>1, <3>6, <3>7 DEF NotesFrom, Says
    <2> QED BY <2>2, <2>3
  <1>14. CASE StartSend
    <2>1. UNCHANGED <<unsaved, refresh>> /\ log'.failure = log.failure /\ shown'.failure = shown.failure  BY <1>0, <1>14, StartSendIs
    <2> QED BY <2>1 DEF NotesFrom, Says
  <1>15. CASE OnRecorded
    <2>1. UNCHANGED <<shown, unsaved, refresh>> /\ log'.failure = log.failure  BY <1>0, <1>15, OnRecordedIs
    <2> QED BY <2>1 DEF NotesFrom, Says
  <1>16. CASE StartedCleared
    <2>1. UNCHANGED <<shown, unsaved, refresh>> /\ log'.failure = log.failure  BY <1>0, <1>16, StartedClearedIs
    <2> QED BY <2>1 DEF NotesFrom, Says
  <1>17. CASE Stopped
    <2>1. UNCHANGED <<log, unsaved, refresh>> /\ shown'.failure = shown.failure  BY <1>0, <1>17, StoppedIs DEF EndKept
    <2> QED BY <2>1 DEF NotesFrom, Says
  <1>18. CASE AnswerLost \/ Accepted
    <2>1. Sending /\ (Unconfirmed \/ Sent)  BY <1>18 DEF AnswerLost, Accepted, Sending
    <2>2. UNCHANGED <<log, unsaved, refresh>> /\ shown'.failure = 0  BY <1>0, <2>1, GoesOutIs DEF EndKept
    <2> QED BY <2>2 DEF NotesFrom, Says
  <1>19. ASSUME Failed, rows' \in [Tx -> {"none", "pending", "over", "conflicted"}] PROVE NotesFrom
    BY <1>19, FailedSays
  <1>20. CASE AskLustration
    <2>1. UNCHANGED <<log, unsaved, refresh>> /\ shown'.failure = shown.failure  BY <1>0, <1>20, AskLustrationIs DEF EndKept
    <2> QED BY <2>1 DEF NotesFrom, Says
  <1>21. CASE Build
    <2>1. Stopped \/ (Failed /\ rows' = rows) \/ AskLustration \/ Goes("building") \/ Goes("proving")  BY <1>21 DEF Build
    <2>2. Goes("building") \/ Goes("proving") => NotesFrom  BY <1>s DEF Goes
    <2> QED BY <1>r, <1>17, <1>19, <1>20, <2>1, <2>2
  <1>22. CASE Prove
    <2>1. Stopped \/ (Failed /\ rows' = rows) \/ UNCHANGED <<log, shown, unsaved, refresh>>  BY <1>22 DEF Prove
    <2> QED BY <1>r, <1>s, <1>17, <1>19, <2>1
  <1>23. CASE Discard
    <2>1. rows' \in [Tx -> {"none", "pending", "over", "conflicted"}]  BY <1>23, <1>r DEF Discard
    <2>2. Failed \/ UNCHANGED <<log, shown, unsaved, refresh>>  BY <1>23 DEF Discard
    <2> QED BY <1>s, <1>19, <2>1, <2>2
  <1>24. CASE Finally
    <2>1. unsaved' = unsaved /\ log'.failure = log.failure /\ shown'.failure \in {0, shown.failure} /\ refresh'.failure \in {0, refresh.failure}
      BY <1>0, <1>24, FinallyIs
    <2> QED BY <2>1 DEF NotesFrom, Says
  <1>25. CASE Close
    <2>1. unsaved' = 0 /\ log' = log /\ shown'.failure = 0 /\ refresh'.failure = 0  BY <1>0, <1>25, CloseIs
    <2> QED BY <2>1 DEF NotesFrom, Says
  <1>26. CASE WriteLast
    <2>1. UNCHANGED <<shown, unsaved, refresh>> /\ log'.failure = log.failure  BY <1>0, <1>26, WriteLastIs DEF Writes
    <2> QED BY <2>1 DEF NotesFrom, Says
  <1>27. CASE WriteFailure
    <2>1. /\ UNCHANGED <<shown, refresh, at, paid>> /\ at = "ended" /\ run'.send = run.send /\ run'.ending = run.ending
          /\ log'.failure \in {log.failure, 0, run.send} /\ unsaved' \in {unsaved, run.send}
          /\ run.ending # "failed" => log'.failure \in {log.failure, 0} /\ unsaved' = unsaved
      BY <1>0, <1>27, WriteFailureIs DEF Writes
    <2>2. run.ending = "failed" => MaySay(run.send, at', heard', rows', Len(paid'))  BY <2>1, NowNotSent DEF SaidInv
    <2> QED BY <2>1, <2>2 DEF NotesFrom, Says
  <1> QED BY <1>1, <1>2, <1>3, <1>4, <1>5, <1>6, <1>7, <1>8, <1>9, <1>10, <1>11, <1>12, <1>13, <1>14, <1>15, <1>16,
             <1>18, <1>21, <1>22, <1>23, <1>24, <1>25, <1>26, <1>27 DEF Steps, SendSteps

LEMMA StartedStep ==
    ASSUME SaidInv, PayInv', Moves, Steps, ReadsAtRest
    PROVE  StartedTells'
  <1>0. CoreType /\ Running /\ RowsTell  BY DEF SaidInv, PayInv, FlowType
  <1>s. /\ log.started \in {0, Len(paid)} /\ (refresh.at = "started" => ~Sending)
        /\ log.started # 0 /\ ~Sending /\ ~lock.locked => refresh.at \in {"last", "started"}
        /\ log.started # 0 => \A t \in Tx : t[1] = Len(paid) => rows[t] \in {"none", "pending"}
    BY DEF SaidInv, StartedTells
  <1>a. ASSUME UNCHANGED <<at, rows, paid>>, log'.started = log.started, lock'.locked = lock.locked, refresh'.at = refresh.at PROVE StartedTells'
    BY <1>a, <1>s DEF StartedTells, Sending
  <1>b. ASSUME UNCHANGED <<at, rows, paid>>, log'.started = log.started, refresh'.at = "last" PROVE StartedTells'
    BY <1>b, <1>s DEF StartedTells, Sending
  <1>c. ASSUME Sending, at' # "idle", paid' = paid, log'.started \in {0, log.started}, refresh' = refresh PROVE StartedTells'
    <2>1. Sending'  BY <1>c DEF Sending
    <2>2. log'.started # 0 => \A t \in Tx : t[1] = Len(paid) => rows'[t] \in {"none", "pending"}
      <3> SUFFICES ASSUME log'.started # 0, NEW t \in Tx, t[1] = Len(paid) PROVE rows'[t] \in {"none", "pending"}
        OBVIOUS
      <3>1. rows[t] \in {"none", "pending"}  BY <1>c, <1>s
      <3>2. CASE \E u \in Tx : Settle(u)
        <4>1. PICK u \in Tx : Settle(u)  BY <3>2
        <4>2. u # tx /\ rows[u] = "pending" /\ \A v \in Tx : v # u => rows'[v] = rows[v]  BY <1>0, <1>c, <4>1, SettleIs
        <4>3. run.send = Len(paid)  BY <1>0, <1>c DEF Running
        <4>4. t # u  BY <1>0, <1>c, <4>2, <4>3 DEF RowsTell
        <4> QED BY <3>1, <4>2, <4>4
      <3>3. CASE rows' = rows  BY <3>1, <3>3
      <3>4. CASE rows'[tx] \in {"none", "pending"} /\ \A v \in Tx : v # tx => rows'[v] = rows[v]  BY <3>1, <3>4
      <3> QED BY <3>2, <3>3, <3>4 DEF Moves, RowsMove
    <2> QED BY <1>c, <1>s, <2>1, <2>2 DEF StartedTells
  <1>1. CASE Visit \/ CancelSend \/ Hide \/ Show \/ NodeTakes
    <2>1. UNCHANGED <<at, rows, paid, log, refresh>>  BY <1>1 DEF Visit, CancelSend, Hide, Show, NodeTakes
    <2>2. lock'.locked = lock.locked
      <3>1. CASE Hide  BY <1>0, <3>1, HideIs
      <3>2. CASE Show  BY <1>0, <3>2, ShowIs
      <3> QED BY <1>1, <3>1, <3>2 DEF Visit, CancelSend, NodeTakes
    <2> QED BY <1>a, <2>1, <2>2
  <1>2. ASSUME NEW p \in Payment, Type(p) PROVE StartedTells'  BY <1>a, <1>2 DEF Type
  <1>3. CASE Leave  BY <1>0, <1>a, <1>3, LeaveIs DEF SendKept
  <1>4. CASE Refill  BY <1>0, <1>a, <1>4, RefillIs DEF SendKept
  <1>5. CASE DismissResult  BY <1>0, <1>a, <1>5, DismissResultIs DEF SendKept
  <1>6. CASE DismissNote  BY <1>0, <1>a, <1>6, DismissNoteIs DEF SendKept
  <1>7. CASE Lock
    <2>1. UNCHANGED <<at, rows, paid, log>> /\ lock'.locked /\ refresh'.at = "off"  BY <1>0, <1>7, LockIs DEF SendKept
    <2> QED BY <1>s, <2>1 DEF StartedTells, Sending
  <1>8. CASE Unlock  BY <1>0, <1>b, <1>8, UnlockIs DEF SendKept
  <1>9. CASE BeginRefresh  BY <1>0, <1>b, <1>9, BeginRefreshIs DEF SendKept
  <1>10. ASSUME NEW u \in Tx, Settle(u) PROVE StartedTells'
    <2>1. /\ UNCHANGED <<at, run, paid>> /\ log'.started = log.started /\ ~lock.locked /\ refresh.at = "off" /\ refresh'.at = "last"
          /\ rows[u] = "pending" /\ (Sending => u # tx) /\ \A v \in Tx : v # u => rows'[v] = rows[v]
      BY <1>0, <1>10, SettleIs DEF ReadsAtRest
    <2>2. ~Sending => log.started = 0  BY <1>s, <2>1
    <2>3. Sending => u[1] # Len(paid)  BY <1>0, <2>1 DEF RowsTell, Running
    <2>4. log.started # 0 => \A t \in Tx : t[1] = Len(paid) => rows'[t] \in {"none", "pending"}  BY <1>s, <2>1, <2>2, <2>3
    <2> QED BY <1>s, <2>1, <2>4 DEF StartedTells, Sending
  <1>11. CASE RefreshLast
    <2>1. UNCHANGED <<at, rows, paid, log, lock>> /\ refresh'.at = (IF Sending THEN "show" ELSE "started")  BY <1>0, <1>11, RefreshLastIs DEF SendKept
    <2> QED BY <1>s, <2>1 DEF StartedTells, Sending
  <1>12. CASE RefreshStarted
    <2>1. UNCHANGED <<at, rows, paid>> /\ refresh'.at = "show" /\ log'.started = 0  BY <1>0, <1>12, RefreshStartedIs DEF SendKept
    <2> QED BY <2>1 DEF StartedTells
  <1>13. CASE RefreshShow
    <2>1. UNCHANGED <<at, rows, paid, lock>> /\ refresh.at = "show" /\ refresh'.at = "off" /\ log'.started = log.started  BY <1>0, <1>13, RefreshShowIs DEF SendKept
    <2> QED BY <1>s, <2>1 DEF StartedTells, Sending
  <1>14. CASE StartSend
    <2>1. /\ ~Sending /\ at' = "building" /\ rows' = rows /\ refresh' = refresh /\ refresh.at = "off"
          /\ Len(paid') = Len(paid) + 1 /\ log'.started = Len(paid')
      BY <1>0, <1>14, StartSendIs DEF ReadsAtRest
    <2>2. Len(paid) \in Nat  BY <1>0, LenProperties DEF CoreType
    <2>3. \A t \in Tx : t[1] = Len(paid') => rows[t] = "none"
      <3> SUFFICES ASSUME NEW t \in Tx, t[1] = Len(paid'), rows[t] # "none" PROVE FALSE  OBVIOUS
      <3>1. t[1] <= Len(paid)  BY <1>0 DEF RowsTell
      <3> QED BY <2>1, <2>2, <3>1
    <2> QED BY <2>1, <2>3 DEF StartedTells, Sending
  <1>15. ASSUME Sending, Stopped \/ (Failed /\ rows' \in [Tx -> {"none", "pending", "over", "conflicted"}]) \/ AnswerLost \/ Accepted
         PROVE  StartedTells'
    <2>1. EndKept  BY <1>0, <1>15, StoppedIs, FailedIs, GoesOutIs DEF AnswerLost, Accepted
    <2> QED BY <1>c, <1>15, <2>1 DEF EndKept
  <1>16. ASSUME Sending, at' # "idle", UNCHANGED <<log, refresh, paid>> PROVE StartedTells'  BY <1>c, <1>16
  <1>17. CASE AskLustration /\ Sending
    <2>1. EndKept  BY <1>0, <1>17, AskLustrationIs
    <2> QED BY <1>c, <1>17, <2>1 DEF EndKept
  <1>18. CASE Build
    <2>1. Sending  BY <1>18 DEF Build, Sending
    <2>2. Stopped \/ (Failed /\ rows' = rows) \/ AskLustration \/ Goes("building") \/ Goes("proving")  BY <1>18 DEF Build
    <2>3. Goes("building") \/ Goes("proving") => at' # "idle" /\ UNCHANGED <<log, refresh, paid>>  BY DEF Goes
    <2> QED BY <1>0, <1>15, <1>16, <1>17, <2>1, <2>2, <2>3 DEF CoreType
  <1>19. CASE Prove
    <2>1. Sending  BY <1>19 DEF Prove, Sending
    <2>2. Stopped \/ (Failed /\ rows' = rows) \/ (at' # "idle" /\ UNCHANGED <<log, refresh, paid>>)  BY <1>19 DEF Prove
    <2> QED BY <1>0, <1>15, <1>16, <2>1, <2>2 DEF CoreType
  <1>20. CASE OnRecorded
    <2>1. Sending /\ at' # "idle" /\ paid' = paid /\ refresh' = refresh /\ log'.started = log.started  BY <1>0, <1>20, OnRecordedIs DEF Sending
    <2> QED BY <1>c, <2>1
  <1>21. CASE StartedCleared
    <2>1. Sending /\ at' # "idle" /\ paid' = paid /\ refresh' = refresh /\ log'.started \in {0, log.started}
      BY <1>0, <1>21, StartedClearedIs DEF Sending
    <2> QED BY <1>c, <2>1
  <1>22. CASE AnswerLost \/ Accepted \/ Refused
    <2>1. Sending  BY <1>22 DEF AnswerLost, Accepted, Refused, Sending
    <2>2. Refused => at' # "idle" /\ UNCHANGED <<log, refresh, paid>>  BY DEF Refused, Goes
    <2> QED BY <1>15, <1>16, <1>22, <2>1, <2>2
  <1>23. CASE Discard
    <2>1. Sending  BY <1>23 DEF Discard, Sending
    <2>2. rows' \in [Tx -> {"none", "pending", "over", "conflicted"}]
      BY <1>0, <1>23 DEF CoreType, Discard
    <2>3. Failed \/ (at' # "idle" /\ UNCHANGED <<log, refresh, paid>>)  BY <1>23 DEF Discard
    <2> QED BY <1>15, <1>16, <2>1, <2>2, <2>3
  <1>24. CASE Finally
    <2>1. /\ at = "ended" /\ at' = "idle" /\ UNCHANGED <<rows, paid>> /\ log'.started = (IF lock.locked THEN log.started ELSE 0)
          /\ ~lock.waiting => UNCHANGED <<lock, refresh>>
          /\ lock.waiting => lock'.locked /\ refresh'.at = "off"
      BY <1>0, <1>24, FinallyIs
    <2>2. refresh'.at # "started"  BY <1>s, <2>1 DEF Sending
    <2>3. lock.locked => lock'.locked  BY <2>1
    <2> QED BY <1>s, <2>1, <2>2, <2>3 DEF StartedTells
  <1>25. CASE Close
    <2>1. log' = log /\ UNCHANGED <<rows, paid>> /\ lock'.locked /\ refresh'.at = "off"  BY <1>0, <1>25, CloseIs
    <2> QED BY <1>s, <2>1 DEF StartedTells
  <1>26. CASE WriteLast \/ WriteFailure
    <2>1. PICK field \in {"last", "failure"} : Writes(field)  BY <1>0, <1>26, WriteLastIs, WriteFailureIs
    <2>2. Sending /\ at' # "idle" /\ paid' = paid /\ log'.started = log.started /\ refresh' = refresh  BY <2>1 DEF Writes, Sending
    <2> QED BY <1>c, <2>2
  <1> QED BY <1>1, <1>2, <1>3, <1>4, <1>5, <1>6, <1>7, <1>8, <1>9, <1>10, <1>11, <1>12, <1>13, <1>14, <1>18, <1>19, <1>20, <1>21,
             <1>22, <1>23, <1>24, <1>25, <1>26 DEF Steps, SendSteps

LEMMA SaidStep == ASSUME ReadsAtRest, SaidInv, [Next]_vars PROVE SaidInv'
  <1>1. PayInv'  BY PayStep DEF SaidInv
  <1>2. CASE Next
    <2>1. Steps  BY <1>2, NextIs
    <2>2. Moves  BY <2>1, MovesIs DEF SaidInv
    <2>3. OneRow'  BY <2>2, RowKept DEF SaidInv
    <2>4. SaidTrue'  BY <1>1, <2>1, <2>2, StepSays, SaidFrom DEF NotesFrom
    <2>5. StartedTells'  BY <1>1, <2>1, <2>2, StartedStep
    <2> QED BY <1>1, <2>3, <2>4, <2>5 DEF SaidInv
  <1>3. CASE UNCHANGED vars
    <2>1. /\ at' = at /\ log' = log /\ rows' = rows /\ heard' = heard /\ shown' = shown /\ unsaved' = unsaved
          /\ lock' = lock /\ refresh' = refresh /\ paid' = paid
      BY <1>3 DEF vars
    <2>2. OneRow' /\ StartedTells'  BY <2>1 DEF SaidInv, OneRow, StartedTells, Sending
    <2>3. SaidTrue'  BY <2>1 DEF SaidInv, SaidTrue
    <2> QED BY <1>1, <2>2, <2>3 DEF SaidInv
  <1> QED BY <1>2, <1>3

LEMMA SaidInit == Init => SaidInv
  <1> SUFFICES ASSUME Init PROVE SaidInv  OBVIOUS
  <1>1. PayInv  BY PayInit
  <1>2. /\ at = "idle" /\ log.started = 0 /\ log.failure = 0 /\ shown.failure = 0 /\ unsaved = 0 /\ refresh.at = "off" /\ refresh.failure = 0
        /\ \A t \in Tx : rows[t] = "none"
    BY DEF Init, NoRefresh
  <1>3. MaySay(0, at, heard, rows, Len(paid))
    <2>1. Len(paid) \in Nat  BY <1>1, LenProperties DEF PayInv, FlowType, CoreType
    <2> QED BY <1>2, <2>1, SayZero
  <1>4. SaidTrue /\ OneRow /\ StartedTells  BY <1>2, <1>3 DEF SaidTrue, OneRow, StartedTells
  <1> QED BY <1>1, <1>4 DEF SaidInv

(* The app never says of a send that nothing of it went out while its        *)
(* transaction is with the node and its coins are not known to have gone    *)
(* elsewhere: not on the job's notice, not in a note that was written, is   *)
(* still to be written or was read back, whatever lock, Cancel, end of the  *)
(* app or lost answer came between (failed() and onRecorded in              *)
(* AppContext.startSend, isRefusal), as long as no send starts and no row   *)
(* settles between two reads of one refresh.                                *)
THEOREM SaysNothingWent == ReadsAtRest /\ Spec => []NothingLeft
  <1>1. ASSUME SaidInv PROVE NothingLeft
    <2> SUFFICES ASSUME NEW t \in heard, t[1] \in SaidNotSent PROVE rows[t] = "conflicted"  BY DEF NothingLeft
    <2>1. t \in Tx  BY <1>1 DEF SaidInv, PayInv, FlowType, CoreType
    <2>2. CASE t[1] \in {log.failure, shown.failure, unsaved}  BY <1>1, <2>1, <2>2 DEF SaidInv, SaidTrue, MaySay
    <2>3. CASE shown.job.ending \in {"stopped", "failed"} /\ t[1] = shown.job.send
      BY <1>1, <2>3 DEF SaidInv, PayInv, JobTrue
    <2> QED BY <2>2, <2>3 DEF SaidNotSent
  <1> SUFFICES ASSUME ReadsAtRest PROVE Spec => []NothingLeft  OBVIOUS
  <1>2. SaidInv /\ [Next]_vars => SaidInv'  BY SaidStep
  <1> QED BY <1>1, <1>2, SaidInit, PTL DEF Spec

-----------------------------------------------------------------------------
(* No send ends without a word *)

LEMMA KnownKept ==
    ASSUME PayInv, Moves, paid' = paid, told \subseteq told', Known
    PROVE  Known'
  <1>0. CoreType /\ Running /\ RowsTell  BY DEF PayInv, FlowType
  <1>1. CASE Newest = 0 \/ Newest \in told  BY <1>1 DEF Known, Newest
  <1>2. CASE \E t \in Tx : t[1] = Newest /\ rows[t] \notin {"none", "pending"}
    <2>1. PICK t \in Tx : t[1] = Newest /\ rows[t] \notin {"none", "pending"}  BY <1>2
    <2>2. ~Sending  BY <1>0, <2>1 DEF RowsTell, Running, Newest
    <2>3. rows'[t] = rows[t]
      <3>1. CASE \E u \in Tx : Settle(u)
        <4>1. PICK u \in Tx : Settle(u)  BY <3>1
        <4>2. rows[u] = "pending" /\ \A v \in Tx : v # u => rows'[v] = rows[v]  BY <1>0, <4>1, SettleIs
        <4> QED BY <2>1, <4>2
      <3>2. rows' = rows \/ \E u \in Tx : Settle(u)  BY <2>2 DEF Moves, RowsMove, Sending
      <3> QED BY <3>1, <3>2
    <2> QED BY <2>1, <2>3 DEF Known, Newest
  <1> QED BY <1>1, <1>2 DEF Known

LEMMA KnownSending == ASSUME PayInv, Known, Sending PROVE Newest \in told
  <1>1. \A t \in Tx : t[1] = Newest => rows[t] \in {"none", "pending"}
    BY DEF PayInv, Running, RowsTell, Newest
  <1>2. Newest # 0
    <2>1. Len(paid) >= 1  BY DEF PayInv, Running
    <2> QED BY <2>1 DEF Newest
  <1> QED BY <1>1, <1>2 DEF Known

\* What an open page shows of the job, the person has seen.
LEMMA JobSeen ==
    ASSUME PayInv, ToldHolds, (~lock.locked /\ lock.visible) \/ shown.job.ending = "stopped", shown.job.ending \in Endings \ {"asks"}
    PROVE  Newest \in told /\ Known
  <1>1. shown.job # NoJob  BY DEF NoJob, Endings
  <1>2. shown.job.send = Len(paid)  BY <1>1 DEF PayInv, Running
  <1> QED BY <1>2 DEF ToldHolds, Endings, Newest, Known

LEMMA NoneGood == \A r : ~Bad(None, r)  BY DEF Bad

LEMMA QuietEnd ==
    ASSUME SaidInv, EndCore, Moves, LockHolds', ToldHolds', told \subseteq told',
           UNCHANGED <<at, rows, paid, unsaved, refresh>>, RunKept, lock'.locked = lock.locked,
           log'.started = log.started, log'.last \in {None, log.last}, shown'.last \in {None, shown.last},
           shown'.job.ending = "asks" => shown'.job = shown.job,
           Asking => lock' = lock /\ run'.here = run.here,
           \/ log' = log /\ shown'.last = shown.last /\ shown'.failure = shown.failure /\ shown'.job = shown.job
           \/ at \in {"idle", "ended"} /\ Known /\ (at = "ended" => log' = log \/ Written)
           \/ at \notin {"idle", "ended"} /\ ~run.recorded /\ shown'.job = shown.job
    PROVE  EndCore'
  <1>0. PayInv /\ LockHolds /\ UnsavedHolds /\ Witness /\ Pending /\ AskSeen /\ Carries /\ Elsewhere /\ Shows  BY DEF SaidInv, EndCore
  <1>1. Known => Known'  BY <1>0, KnownKept
  <1>2. Newest' = Newest /\ (Sending' <=> Sending) /\ (Asking' <=> Asking) /\ (Written' <=> Written)
    BY DEF Newest, Sending, Asking, Written, RunKept
  <1>3. /\ Bad(log'.last, rows') => log'.last = log.last /\ Bad(log.last, rows)
        /\ Bad(shown'.last, rows') => shown'.last = shown.last /\ Bad(shown.last, rows)
        /\ \A n : Bad(n, rows') <=> Bad(n, rows)
    BY NoneGood
  <1>4. UnsavedHolds' /\ AskSeen'  BY <1>0, <1>2 DEF UnsavedHolds, AskSeen
  <1>5. CASE log' = log /\ shown'.last = shown.last /\ shown'.failure = shown.failure /\ shown'.job = shown.job
    <2>1. Pending'  BY <1>0, <1>2, <1>5 DEF Pending, RunKept
    <2>2. GivenWay => GivenWay' \/ Known'
      <3> SUFFICES ASSUME GivenWay, ~GivenWay' PROVE Known'  OBVIOUS
      <3>1. at = "ended" /\ run.ending = "failed" /\ ~lock'.locked /\ lock'.visible  BY <1>2 DEF GivenWay, RunKept
      <3>2. Newest \in told \/ (shown.job.send = Newest /\ shown.job.ending = run.ending)  BY <1>0, <3>1 DEF Witness
      <3>3. Newest \in told'  BY <1>5, <3>1, <3>2 DEF ToldHolds
      <3> QED BY <1>2, <3>3 DEF Known
    <2>3. Witness'  BY <1>0, <1>1, <1>2, <1>5, <2>2 DEF Witness, RunKept
    <2>4. Carries'  BY <1>0, <1>1, <1>2, <1>5 DEF Carries
    <2>5. Elsewhere'  BY <1>0, <1>1, <1>2, <1>3, <1>5 DEF Elsewhere, RunKept
    <2>6. Shows'  BY <1>0, <1>1, <1>2, <1>5 DEF Shows
    <2> QED BY <1>4, <2>1, <2>3, <2>4, <2>5, <2>6 DEF EndCore
  <1>6. CASE at \in {"idle", "ended"} /\ Known /\ (at = "ended" => log' = log \/ Written)
    <2>0. Known' /\ (at = "ended" => Newest \in told')  BY <1>0, <1>1, <1>6, KnownSending DEF Sending
    <2>1. Witness'  BY <1>2, <1>6, <2>0 DEF Witness
    <2>2. Pending'
      <3>1. CASE at = "ended" /\ log' = log  BY <1>0, <1>2, <3>1 DEF Pending, RunKept
      <3>2. CASE at = "ended" /\ Written  BY <1>0, <1>2, <3>2 DEF Pending, RunKept, Written
      <3>3. CASE at = "idle"  BY <3>3 DEF Pending
      <3> QED BY <1>6, <3>1, <3>2, <3>3
    <2>3. Carries'  BY <2>0 DEF Carries
    <2>4. Elsewhere'  BY <1>0, <1>2, <1>3, <2>0 DEF Elsewhere, RunKept
    <2>5. Shows'  BY <1>0, <1>2, <2>0 DEF Shows
    <2> QED BY <1>4, <2>1, <2>2, <2>3, <2>4, <2>5 DEF EndCore
  <1>7. CASE at \notin {"idle", "ended"} /\ ~run.recorded /\ shown'.job = shown.job
    <2>0. Sending /\ Sending' /\ at # "clearing" /\ log.started = Newest  BY <1>0, <1>2, <1>7 DEF Sending, PayInv, OwnForm, Witness
    <2>1. Witness' /\ Pending'  BY <1>2, <1>7, <2>0 DEF Witness, Pending
    <2>2. Carries'  BY <2>0 DEF Carries
    <2>3. Elsewhere'  BY <1>0, <1>2, <1>3, <2>0 DEF Elsewhere, RunKept
    <2>4. Shows'  BY <1>0, <1>2, <2>0, <1>7 DEF Shows
    <2> QED BY <1>4, <2>1, <2>2, <2>3, <2>4 DEF EndCore
  <1> QED BY <1>5, <1>6, <1>7

LEMMA LockHoldsKept ==
    ASSUME LockHolds, at' = at, lock' = lock, refresh' = refresh, lock.locked => send'.open = send.open
    PROVE  LockHolds'
  BY DEF LockHolds, Sending

LEMMA ScreensEnd ==
    ASSUME NothingRare, SaidInv, ToldHolds, EndCore, Moves, ToldHolds', told \subseteq told', NEW p,
           Visit \/ Leave \/ (p \in Payment /\ Type(p)) \/ Refill \/ DismissResult \/ DismissNote \/ CancelSend \/ Hide \/ Show
    PROVE  EndCore'
  <1>0. CoreType /\ Running /\ PayInv /\ LockHolds /\ UnsavedHolds /\ Witness /\ AskSeen /\ Carries /\ Elsewhere /\ Shows
    BY DEF SaidInv, PayInv, FlowType, EndCore
  <1>s. (shown.job.ending = "asks" => Asking) /\ NoJob.ending = "none"  BY <1>0 DEF Shows, NoJob
  <1>o. send.open => ~lock.locked  BY <1>0 DEF LockHolds
  <1>e. shown.job.ending \in Endings => at \in {"idle", "ended"}  BY <1>0 DEF Running, Endings
  <1>1. CASE Visit
    <2>1. UNCHANGED <<at, run, log, rows, shown, unsaved, lock, refresh, paid>> /\ ~lock.locked  BY <1>0, <1>1, VisitIs
    <2>2. LockHolds'  BY <1>0, <2>1, LockHoldsKept
    <2> QED BY <1>s, <2>1, <2>2, QuietEnd DEF RunKept
  <1>2. CASE p \in Payment /\ Type(p)
    <2>1. UNCHANGED <<at, run, log, rows, shown, unsaved, lock, refresh, paid>> /\ ~lock.locked
      <3>1. send.open  BY <1>2 DEF Type, Here
      <3> QED BY <1>0, <1>2, <1>o, <3>1, TypeIs
    <2>2. LockHolds'  BY <1>0, <2>1, LockHoldsKept
    <2> QED BY <1>s, <2>1, <2>2, QuietEnd DEF RunKept
  <1>3. CASE CancelSend
    <2>1. SendKept /\ RunKept /\ run'.here = run.here /\ UNCHANGED <<log, shown, unsaved, lock, refresh, send>>  BY <1>0, <1>3, CancelSendIs
    <2>2. LockHolds'  BY <1>0, <2>1, LockHoldsKept DEF SendKept
    <2> QED BY <1>s, <2>1, <2>2, QuietEnd DEF SendKept
  <1>4. CASE Hide
    <2>1. /\ UNCHANGED <<at, run, log, rows, shown, unsaved, refresh, send, paid>>
          /\ Sending /\ ~Asking /\ lock'.locked = lock.locked /\ lock'.waiting = ~lock.locked
      BY <1>0, <1>4, HideIs DEF NothingRare
    <2>2. LockHolds'  BY <1>0, <2>1 DEF LockHolds, Sending
    <2> QED BY <1>s, <2>1, <2>2, QuietEnd DEF RunKept
  <1>5. CASE Show
    <2>1. /\ UNCHANGED <<at, run, log, rows, shown, unsaved, refresh, send, paid>>
          /\ lock'.visible /\ lock'.locked = lock.locked /\ (lock'.waiting => lock.waiting)
      BY <1>0, <1>5, ShowIs
    <2>2. LockHolds'  BY <1>0, <2>1 DEF LockHolds, Sending
    <2>3. ~Asking  BY <1>0, <1>5 DEF Show, AskSeen
    <2> QED BY <1>s, <2>1, <2>2, <2>3, QuietEnd DEF RunKept
  <1>6. CASE Leave
    <2>1. /\ SendKept /\ RunKept /\ UNCHANGED <<unsaved, lock, refresh>> /\ send.open /\ lock.visible
          /\ shown'.failure = shown.failure /\ log'.started = log.started
          /\ shown'.job = (IF shown.job.ending \in {"none", "running"} THEN shown.job ELSE NoJob)
          /\ shown.job.ending = "sent" => shown'.last = None
          /\ shown.job.ending # "sent" => shown'.last = shown.last /\ log' = log
          /\ log'.last = (IF shown.job.ending = "sent" /\ ~lock.locked THEN None ELSE log.last)
          /\ shown.job.ending = "sent" => Written
          /\ ~Asking
      BY <1>0, <1>6, LeaveIs DEF NothingRare
    <2>2. ~lock.locked /\ lock.visible  BY <1>o, <2>1
    <2>3. LockHolds'  BY <1>0, <2>1, <2>2, LockHoldsKept DEF SendKept
    <2>4. shown.job.ending \notin {"none", "running"} => at \in {"idle", "ended"} /\ Known
      <3>1. shown.job.ending \in Endings \cup {"none", "running"} /\ shown.job.ending # "asks"  BY <1>0, <1>s, <2>1 DEF CoreType, Pages, Jobs
      <3>2. shown.job.ending \in Endings \ {"asks"} => Known  BY <1>0, <2>2, JobSeen
      <3> QED BY <1>e, <3>1, <3>2
    <2>5. shown'.job.ending # "asks" /\ (log' = log \/ Written)  BY <1>s, <2>1
    <2>6. CASE shown.job.ending \in {"none", "running"}
      <3>1. shown'.job = shown.job /\ shown'.last = shown.last /\ log' = log /\ log'.last = log.last  BY <2>1, <2>6
      <3> QED BY <2>1, <2>2, <2>3, <2>5, <3>1, QuietEnd DEF SendKept
    <2>7. CASE shown.job.ending \notin {"none", "running"}
      <3>1. log'.last \in {None, log.last} /\ shown'.last \in {None, shown.last}  BY <2>1
      <3> QED BY <2>1, <2>2, <2>3, <2>4, <2>5, <2>7, <3>1, QuietEnd DEF SendKept
    <2> QED BY <2>6, <2>7
  <1>7. CASE Refill
    <2>1. /\ SendKept /\ UNCHANGED <<run, unsaved, lock, refresh>> /\ ~Sending /\ shown.job.ending = "failed" /\ lock.visible /\ send.open
          /\ shown'.job = NoJob /\ shown'.last = shown.last /\ log'.last = log.last /\ log'.started = log.started
      BY <1>0, <1>7, RefillIs
    <2>2. ~lock.locked /\ lock.visible  BY <1>o, <2>1
    <2>3. LockHolds'  BY <1>0, <2>1, <2>2, LockHoldsKept DEF SendKept
    <2>4. at = "idle" /\ Known  BY <1>0, <2>1, <2>2, JobSeen DEF Sending, Endings
    <2> QED BY <1>s, <2>1, <2>3, <2>4, QuietEnd DEF SendKept, RunKept
  <1>8. CASE DismissResult
    <2>1. /\ SendKept /\ UNCHANGED <<run, unsaved, lock, refresh, send>> /\ Written /\ shown.job.ending \in Endings \ {"asks"} /\ lock.visible /\ send.open
          /\ shown'.job = NoJob /\ shown'.last \in {None, shown.last} /\ log'.last \in {None, log.last} /\ log'.started = log.started
      BY <1>0, <1>8, DismissResultIs DEF Endings
    <2>2. ~lock.locked /\ lock.visible  BY <1>o, <2>1
    <2>3. LockHolds'  BY <1>0, <2>1, <2>2, LockHoldsKept DEF SendKept
    <2>4. at \in {"idle", "ended"} /\ Known  BY <1>0, <1>e, <1>s, <2>1, <2>2, JobSeen
    <2> QED BY <1>s, <2>1, <2>3, <2>4, QuietEnd DEF SendKept, RunKept
  <1>9. CASE DismissNote
    <2>1. /\ SendKept /\ JobKept /\ UNCHANGED <<run, unsaved, lock, refresh, send>> /\ ~lock.locked /\ lock.visible
          /\ shown'.last \in {None, shown.last} /\ log'.last \in {None, log.last} /\ log'.started = log.started
          /\ (shown.failure # 0 \/ shown.last # None) /\ (~run.recorded \/ "dismiss" \in Rare) /\ Written
      BY <1>0, <1>9, DismissNoteIs
    <2>2. ~run.recorded /\ ~Asking
      <3>1. ~send.open  BY <1>9 DEF DismissNote
      <3> QED BY <1>0, <2>1, <3>1 DEF NothingRare, AskSeen, PayInv, OwnForm
    <2>3. LockHolds'  BY <1>0, <2>1, LockHoldsKept DEF SendKept
    <2>4. CASE at = "idle"
      <3>1. Known  BY <1>0, <2>1, <2>4, JobSeen DEF Shows, Sending, Endings
      <3> QED BY <1>s, <2>1, <2>2, <2>3, <2>4, <3>1, QuietEnd DEF SendKept, RunKept, JobKept
    <2>5. CASE at = "ended"
      <3>1. run.ending \in Endings \ {"asks"}  BY <1>0, <2>2, <2>5 DEF CoreType, Runs, Running, Asking
      <3>2. Known  BY <1>0, <2>1, <2>5, <3>1, JobSeen DEF Witness, Known
      <3> QED BY <1>s, <2>1, <2>2, <2>3, <2>5, <3>2, QuietEnd DEF SendKept, RunKept, JobKept
    <2>6. CASE at \notin {"idle", "ended"}
      <3>1. shown'.job = shown.job  BY <2>1, <2>6 DEF JobKept
      <3> QED BY <1>s, <2>1, <2>2, <2>3, <2>6, <3>1, QuietEnd DEF SendKept, RunKept
    <2> QED BY <2>4, <2>5, <2>6
  <1> QED BY <1>1, <1>2, <1>3, <1>4, <1>5, <1>6, <1>7, <1>8, <1>9

LEMMA StartEnd ==
    ASSUME NothingRare, SaidInv, EndCore, StartSend
    PROVE  EndCore'
  <1>0. CoreType /\ LockHolds /\ UnsavedHolds /\ Elsewhere /\ Shows  BY DEF SaidInv, PayInv, FlowType, EndCore
  <1>1. /\ UNCHANGED <<rows, unsaved, lock, refresh>> /\ ~Sending /\ at' = "building" /\ ~lock.locked /\ refresh.at = "off"
        /\ Len(paid') = Len(paid) + 1 /\ run'.earlier = shown.last /\ run'.note = None /\ shown'.job.ending = "running" /\ shown'.last = shown.last
        /\ log'.started = Len(paid) + 1 /\ log'.last = log.last
    BY <1>0, StartSendIs DEF NothingRare
  <1>2. Sending' /\ Newest' = Newest + 1 /\ log'.started = Newest'  BY <1>1 DEF Sending, Newest
  <1>3. LockHolds'  BY <1>0, <1>1, <1>2 DEF LockHolds
  <1>4. UnsavedHolds'  BY <1>0, <1>1 DEF UnsavedHolds
  <1>5. Witness' /\ Pending' /\ AskSeen' /\ Carries'  BY <1>1, <1>2 DEF Witness, Pending, AskSeen, Asking, Carries
  <1>6. ~Bad(log.last, rows) /\ ~Bad(shown.last, rows)  BY <1>0, <1>1 DEF Elsewhere
  <1>7. ~Bad(log'.last, rows') /\ ~Bad(shown'.last, rows') /\ ~Bad(run'.earlier, rows') /\ ~Bad(run'.note, rows')
    BY <1>1, <1>6, NoneGood
  <1>8. Elsewhere' /\ Shows'  BY <1>1, <1>2, <1>7 DEF Elsewhere, Shows
  <1> QED BY <1>3, <1>4, <1>5, <1>8 DEF EndCore

LEMMA LockEnd ==
    ASSUME NothingRare, SaidInv, EndCore, Moves, told \subseteq told', Lock
    PROVE  EndCore'
  <1>0. CoreType /\ PayInv /\ LockHolds /\ UnsavedHolds /\ Witness /\ Pending /\ Elsewhere /\ Shows  BY DEF SaidInv, PayInv, FlowType, EndCore
  <1>1. /\ SendKept /\ RunKept /\ UNCHANGED <<log, unsaved>> /\ lock'.locked /\ ~lock'.waiting /\ ~send'.open
        /\ shown'.job = shown.job /\ shown'.failure = 0 /\ shown'.last = (IF Sending THEN shown.last ELSE None) /\ refresh'.at = "off"
        /\ ~GivenWay /\ ~Asking
    BY <1>0, LockIs DEF NothingRare
  <1>2. (Sending' <=> Sending) /\ Newest' = Newest /\ (Known => Known') /\ ~Asking' /\ (Written' <=> Written)
    <2>1. at' = at /\ paid' = paid  BY <1>1 DEF SendKept
    <2> QED BY <1>0, <1>1, <2>1, KnownKept DEF Sending, Newest, Asking, Written, RunKept
  <1>3. LockHolds' /\ UnsavedHolds'  BY <1>0, <1>1, <1>2 DEF LockHolds, UnsavedHolds
  <1>4. Witness'  BY <1>0, <1>1, <1>2 DEF Witness, SendKept, RunKept
  <1>5. Pending' /\ AskSeen' /\ Carries'  BY <1>0, <1>1, <1>2 DEF Pending, AskSeen, Carries, SendKept, RunKept
  <1>6. rows' = rows  BY <1>1 DEF SendKept
  <1>7. Elsewhere'  BY <1>0, <1>1, <1>2, <1>6 DEF Elsewhere, RunKept
  <1>8. Shows'  BY <1>0, <1>1, <1>2 DEF Shows
  <1> QED BY <1>3, <1>4, <1>5, <1>7, <1>8 DEF EndCore

LEMMA ReadsEnd ==
    ASSUME SaidInv, EndCore, Moves, told \subseteq told', LockHolds',
           UNCHANGED <<at, run, shown, send, paid>>, ~lock'.locked, unsaved' = 0,
           refresh'.at = "last", refresh'.failure = log'.failure,
           log'.failure = (IF unsaved # 0 THEN unsaved ELSE log.failure), log'.started = log.started, log'.last = log.last,
           Written, at = "clearing" => ~lock.locked, at = "ended" => lock' = lock /\ ~lock.locked,
           rows' = rows \/ ((Known \/ Sending) /\ \A t \in Tx : rows'[t] = "conflicted" /\ rows[t] # "conflicted" => ~Sending)
    PROVE  EndCore'
  <1>0. CoreType /\ PayInv /\ UnsavedHolds /\ Witness /\ Pending /\ AskSeen /\ Elsewhere /\ Shows  BY DEF SaidInv, PayInv, FlowType, EndCore
  <1>1. (Sending' <=> Sending) /\ Newest' = Newest /\ (Known => Known')  BY <1>0, KnownKept DEF Sending, Newest
  <1>2. UnsavedHolds'  BY DEF UnsavedHolds
  <1>3. log'.failure = log.failure \/ log'.failure = Newest  BY <1>0 DEF UnsavedHolds
  <1>a. (Asking' <=> Asking) /\ (Written' <=> Written) /\ (GivenWay => GivenWay')  BY DEF Asking, Written, GivenWay
  <1>4. Witness'  BY <1>0, <1>1, <1>3, <1>a DEF Witness
  <1>b. Pending' /\ AskSeen'  BY <1>0, <1>1, <1>a DEF Pending, AskSeen, Asking, Written
  <1>5. Carries'
    <2>1. ~GivenWay \/ Sending  BY DEF GivenWay, Sending
    <2> QED BY <1>0, <1>1, <1>3, <2>1 DEF Carries, Witness
  <1>6. \A n \in Notes : Bad(n, rows') => Bad(n, rows) \/ (~Sending /\ Known)  BY NoteIs DEF Bad
  <1>7. log.last \in Notes /\ shown.last \in Notes /\ run.earlier \in Notes /\ run.note \in Notes  BY <1>0 DEF CoreType, Logs, Pages, Runs
  <1>8. Elsewhere'  BY <1>0, <1>1, <1>6, <1>7 DEF Elsewhere
  <1>9. Shows'  BY <1>0, <1>1, <1>a DEF Shows
  <1> QED BY <1>2, <1>4, <1>b, <1>5, <1>8, <1>9 DEF EndCore

LEMMA PageReadsEnd ==
    ASSUME NothingRare, SaidInv, EndCore, Moves, told \subseteq told', Unlock \/ BeginRefresh \/ \E t \in Tx : Settle(t)
    PROVE  EndCore'
  <1>0. CoreType /\ LockHolds /\ UnsavedHolds /\ Carries  BY DEF SaidInv, PayInv, FlowType, EndCore
  <1>1. CASE Unlock
    <2>1. /\ SendKept /\ UNCHANGED <<run, shown, send>> /\ lock.locked /\ ~lock'.locked /\ lock'.visible /\ lock'.waiting = lock.waiting
          /\ at \notin {"clearing", "ended"} /\ Written /\ refresh'.at = "last" /\ refresh'.failure = log'.failure /\ unsaved' = 0
          /\ log'.failure = (IF unsaved # 0 THEN unsaved ELSE log.failure) /\ log'.started = log.started /\ log'.last = log.last
      BY <1>0, <1>1, UnlockIs DEF NothingRare
    <2>2. LockHolds'  BY <1>0, <2>1 DEF LockHolds
    <2> QED BY <2>1, <2>2, ReadsEnd DEF SendKept
  <1>2. CASE BeginRefresh
    <2>1. /\ SendKept /\ UNCHANGED <<run, shown, send, lock>> /\ ~lock.locked /\ Written
          /\ refresh'.at = "last" /\ refresh'.failure = log'.failure /\ unsaved' = 0
          /\ log'.failure = (IF unsaved # 0 THEN unsaved ELSE log.failure) /\ log'.started = log.started /\ log'.last = log.last
      BY <1>0, <1>2, BeginRefreshIs
    <2>2. LockHolds'  BY <1>0, <2>1 DEF LockHolds, SendKept, Sending
    <2> QED BY <2>1, <2>2, ReadsEnd DEF SendKept
  <1>3. ASSUME NEW t \in Tx, Settle(t) PROVE EndCore'
    <2>1. /\ UNCHANGED <<at, run, shown, send, lock, paid>> /\ ~lock.locked /\ Written /\ refresh.at = "off" /\ rows'[t] \in {"over", "conflicted"}
          /\ (rows'[t] = "conflicted" => ~Sending) /\ \A u \in Tx : u # t => rows'[u] = rows[u]
          /\ refresh'.at = "last" /\ refresh'.failure = log'.failure /\ unsaved' = 0
          /\ log'.failure = (IF unsaved # 0 THEN unsaved ELSE log.failure) /\ log'.started = log.started /\ log'.last = log.last
      BY <1>0, <1>3, SettleIs DEF NothingRare
    <2>2. LockHolds'  BY <1>0, <2>1 DEF LockHolds, Sending
    <2>3. Known \/ Sending  BY <1>0, <2>1 DEF Carries
    <2>4. \A u \in Tx : rows'[u] = "conflicted" /\ rows[u] # "conflicted" => ~Sending  BY <2>1
    <2> QED BY <2>1, <2>2, <2>3, <2>4, ReadsEnd
  <1> QED BY <1>1, <1>2, <1>3

LEMMA RefreshLastEnd ==
    ASSUME SaidInv, EndCore, Moves, told \subseteq told', RefreshLast
    PROVE  EndCore'
  <1>0. CoreType /\ PayInv /\ LockHolds /\ UnsavedHolds /\ Witness /\ Pending /\ AskSeen /\ Carries /\ Elsewhere /\ Shows  BY DEF SaidInv, PayInv, FlowType, EndCore
  <1>1. /\ SendKept /\ UNCHANGED <<run, log, shown, unsaved, lock, send>>
        /\ refresh.at = "last" /\ refresh'.at = (IF Sending THEN "show" ELSE "started") /\ refresh'.failure = refresh.failure
        /\ refresh'.sent = (IF Sending THEN shown.last ELSE log.last)
    BY <1>0, RefreshLastIs
  <1>2. at' = at /\ paid' = paid /\ rows' = rows  BY <1>1 DEF SendKept
  <1>3. (Sending' <=> Sending) /\ Newest' = Newest /\ (Known => Known')  BY <1>0, <1>2, KnownKept DEF Sending, Newest
  <1>a. (Asking' <=> Asking) /\ (Written' <=> Written) /\ (GivenWay' <=> GivenWay)  BY <1>1, <1>2 DEF Asking, Written, GivenWay
  <1>4. LockHolds' /\ UnsavedHolds' /\ Shows'  BY <1>0, <1>1, <1>3, <1>a DEF LockHolds, UnsavedHolds, Shows
  <1>5. Witness'  BY <1>0, <1>1, <1>2, <1>3, <1>a DEF Witness
  <1>b. Pending' /\ AskSeen'  BY <1>0, <1>1, <1>2, <1>3, <1>a DEF Pending, AskSeen
  <1>6. Carries'  BY <1>0, <1>1, <1>3 DEF Carries
  <1>7. Elsewhere'  BY <1>0, <1>1, <1>2, <1>3 DEF Elsewhere
  <1> QED BY <1>4, <1>5, <1>b, <1>6, <1>7 DEF EndCore

LEMMA RefreshStartedEnd ==
    ASSUME SaidInv, EndCore, Moves, told \subseteq told', RefreshStarted
    PROVE  EndCore'
  <1>0. CoreType /\ PayInv /\ StartedTells /\ SaidTrue /\ RowsTell /\ LockHolds /\ UnsavedHolds /\ Witness /\ Carries /\ Elsewhere /\ Shows
    BY DEF SaidInv, PayInv, FlowType, EndCore
  <1>1. /\ SendKept /\ UNCHANGED <<run, shown, unsaved, lock, send>> /\ refresh.at = "started" /\ refresh'.at = "show" /\ log'.started = 0
        /\ \/ refresh'.sent = refresh.sent /\ log'.last = log.last
           \/ log.started # 0 /\ refresh'.sent # None /\ log'.last = refresh'.sent /\ RowFrom(refresh'.sent.tx, log.started)
        /\ \/ refresh'.failure = refresh.failure /\ log'.failure = log.failure
           \/ log.started # 0 /\ refresh'.failure = log.started /\ log'.failure = log.started
        /\ \/ log.started = 0
           \/ log'.last = refresh'.sent /\ RowFrom(refresh'.sent.tx, log.started)
           \/ refresh'.sent = refresh.sent /\ RowFrom(refresh.sent.tx, log.started)
           \/ refresh'.failure = log.started /\ log'.failure = log.started
           \/ refresh'.failure = refresh.failure /\ refresh.failure >= log.started
    BY <1>0, RefreshStartedIs DEF RowFrom
  <1>2. at' = at /\ paid' = paid /\ rows' = rows  BY <1>1 DEF SendKept
  <1>3. (Sending' <=> Sending) /\ Newest' = Newest /\ (Known => Known') /\ ~Sending
    BY <1>0, <1>1, <1>2, KnownKept DEF Sending, Newest, StartedTells
  <1>4. Newest \in Nat /\ log.started \in {0, Newest} /\ refresh.failure <= Newest /\ refresh.failure \in Nat /\ (Newest = 0 => Known)
    BY <1>0, Numbers, LenProperties DEF Newest, StartedTells, SaidTrue, MaySay, Known, CoreType
  <1>5. \A t : RowFrom(t, log.started) /\ log.started # 0 => t[1] = Newest /\ rows[t] = "pending"
    <2> SUFFICES ASSUME NEW t, RowFrom(t, log.started), log.started # 0 PROVE t[1] = Newest /\ rows[t] = "pending"  OBVIOUS
    <2>1. t \in Tx /\ t[1] >= log.started /\ rows[t] = "pending"  BY DEF RowFrom
    <2>2. t[1] <= Newest /\ t[1] \in Nat  BY <1>0, <2>1, Transactions, Numbers DEF RowsTell, Newest
    <2> QED BY <1>4, <2>1, <2>2
  <1>6. refresh.failure >= log.started /\ log.started # 0 => refresh.failure = Newest  BY <1>4
  <1>7. Known \/ Newest \in {refresh'.failure, refresh'.sent.tx[1]}
    <2>1. CASE Newest = log.started /\ log.started # 0  BY <1>1, <1>5, <1>6, <2>1
    <2>2. CASE Newest = refresh.failure  BY <1>1, <1>4, <2>2
    <2>3. CASE Newest = refresh.sent.tx[1]  BY <1>1, <1>5, <2>3
    <2>4. CASE Known  BY <2>4
    <2> QED BY <1>0, <1>1, <1>3, <1>4, <2>1, <2>2, <2>3, <2>4 DEF Carries
  <1>8. refresh'.failure = Newest => Known \/ log'.failure = Newest  BY <1>0, <1>1, <1>3, <1>4 DEF Carries
  <1>9. refresh'.sent.tx[1] = Newest => Known \/ log'.last.tx[1] = Newest  BY <1>0, <1>1, <1>3, <1>4 DEF Carries
  <1>10. LockHolds' /\ UnsavedHolds' /\ Shows'  BY <1>0, <1>1, <1>2, <1>3 DEF LockHolds, UnsavedHolds, Shows, Asking
  <1>11. Witness'  BY <1>2, <1>3, <1>7, <1>8, <1>9 DEF Witness, Sending
  <1>a. Pending' /\ AskSeen'  BY <1>2, <1>3 DEF Pending, AskSeen, Asking, Sending
  <1>12. Carries'  BY <1>1, <1>3, <1>7, <1>8, <1>9 DEF Carries
  <1>13. /\ Bad(refresh'.sent, rows) => refresh'.sent = refresh.sent /\ log'.last = log.last
         /\ Bad(log'.last, rows) => refresh'.sent = refresh.sent /\ log'.last = log.last
    BY <1>1, <1>5 DEF Bad
  <1>14. Elsewhere'  BY <1>0, <1>1, <1>2, <1>3, <1>13 DEF Elsewhere
  <1> QED BY <1>10, <1>11, <1>a, <1>12, <1>14 DEF EndCore

LEMMA RefreshShowEnd ==
    ASSUME SaidInv, EndCore, Moves, told \subseteq told', ToldHolds', RefreshShow
    PROVE  EndCore'
  <1>0. CoreType /\ PayInv /\ RowsTell /\ Running /\ LockHolds /\ UnsavedHolds /\ Witness /\ Pending /\ AskSeen /\ Carries /\ Elsewhere /\ Shows
    BY DEF SaidInv, PayInv, FlowType, EndCore
  <1>1. /\ SendKept /\ UNCHANGED <<run, unsaved, lock, send>> /\ refresh.at = "show" /\ refresh'.at = "off" /\ log'.started = log.started
        /\ \/ shown'.job = shown.job
           \/ shown'.job = NoJob /\ \E t \in Tx : t[1] = shown.job.send /\ rows[t] = "over"
        /\ Settled(refresh.sent) => shown'.last = None /\ log'.last = None
        /\ ~Settled(refresh.sent) =>
               \/ shown'.last = refresh.sent /\ log'.last = log.last
               \/ ~Sending /\ refresh.sent # None /\ shown'.last # None /\ shown'.last.tx = refresh.sent.tx /\ log'.last = shown'.last
        /\ Lost(refresh.sent) => shown'.failure = refresh.sent.tx[1] /\ log'.failure = refresh.sent.tx[1]
        /\ ~Lost(refresh.sent) => shown'.failure = refresh.failure /\ log'.failure = log.failure
    BY <1>0, RefreshShowIs
  <1>2. at' = at /\ paid' = paid /\ rows' = rows  BY <1>1 DEF SendKept
  <1>3. (Sending' <=> Sending) /\ Newest' = Newest /\ (Known => Known')  BY <1>0, <1>2, KnownKept DEF Sending, Newest
  <1>4. LockHolds' /\ UnsavedHolds'  BY <1>0, <1>1, <1>3 DEF LockHolds, UnsavedHolds
  <1>a. (Asking' <=> Asking) /\ (Written' <=> Written) /\ (GivenWay' <=> GivenWay)  BY <1>1, <1>2 DEF Asking, Written, GivenWay
  <1>b. AskSeen'  BY <1>0, <1>1, <1>a DEF AskSeen
  <1>s. NoJob.ending = "none" /\ refresh.sent \in Notes  BY <1>0 DEF NoJob, CoreType, Refreshes
  <1>5. CASE Sending
    <2>1. ~Settled(refresh.sent) /\ ~Lost(refresh.sent)  BY <1>5 DEF Settled, Lost
    <2>2. shown'.last = refresh.sent /\ log'.last = log.last /\ log'.failure = log.failure  BY <1>1, <1>5, <2>1
    <2>3. at \notin {"idle", "ended"} => shown'.job = shown.job
      <3>1. at \notin {"idle", "ended"} => shown.job.send = run.send  BY <1>0, <1>5 DEF Running
      <3> QED BY <1>0, <1>1, <1>5, <3>1 DEF RowsTell
    <2>4. at = "ended" => Newest \in told \/ (shown'.job.send = Newest /\ shown'.job.ending = run.ending)
      <3>1. run.send = Newest  BY <1>0, <1>5 DEF Running, Newest
      <3>2. at = "ended" => Newest \in told \/ (shown.job.send = Newest /\ shown.job.ending = run.ending)  BY <1>0 DEF Witness
      <3>3. \A t \in Tx : t[1] = Newest => rows[t] # "over"  BY <1>0, <1>5, <3>1 DEF RowsTell
      <3> QED BY <1>1, <3>2, <3>3
    <2>5. Witness'  BY <1>0, <1>1, <1>2, <1>3, <1>a, <2>2, <2>4 DEF Witness
    <2>9. Pending'  BY <1>0, <1>1, <1>2, <1>3, <2>2 DEF Pending
    <2>6. Carries'  BY <1>3, <1>5 DEF Carries
    <2>7. Elsewhere'  BY <1>0, <1>1, <1>2, <1>3, <1>5, <2>2 DEF Elsewhere
    <2>8. Shows'  BY <1>0, <1>1, <1>3, <1>5, <1>a, <1>s DEF Shows
    <2> QED BY <1>4, <1>b, <2>9, <2>5, <2>6, <2>7, <2>8 DEF EndCore
  <1>6. CASE ~Sending
    <2>1. ~lock'.locked /\ lock'.visible  BY <1>0, <1>1, <1>6 DEF LockHolds
    <2>2. Newest # 0 /\ (shown'.failure = Newest \/ shown'.last.tx[1] = Newest) => Known'
      BY <1>3, <2>1 DEF ToldHolds, Known
    <2>3. Known'
      <3>1. CASE Newest = 0 \/ Known  BY <1>3, <3>1 DEF Known
      <3>2. CASE Newest # 0 /\ Newest = refresh.sent.tx[1]
        <4>1. refresh.sent # None /\ refresh.sent.tx \in Tx  BY <1>s, <3>2, NoteIs
        <4>2. CASE Settled(refresh.sent)
          <5>1. rows[refresh.sent.tx] \notin {"none", "pending"}  BY <4>2 DEF Settled
          <5> QED BY <1>3, <3>2, <4>1, <5>1 DEF Known
        <4>3. CASE ~Settled(refresh.sent)  BY <1>1, <2>2, <3>2, <4>3
        <4> QED BY <4>2, <4>3
      <3>3. CASE Newest # 0 /\ Newest = refresh.failure
        <4>1. CASE Lost(refresh.sent)
          <5>1. Bad(refresh.sent, rows)  BY <4>1 DEF Lost, Settled, Bad
          <5> QED BY <1>0, <1>1, <1>3, <1>6, <5>1 DEF Elsewhere
        <4>2. CASE ~Lost(refresh.sent)  BY <1>1, <2>2, <3>3, <4>2
        <4> QED BY <4>1, <4>2
      <3> QED BY <1>0, <1>1, <1>6, <3>1, <3>2, <3>3 DEF Carries
    <2>4. Witness'  BY <1>2, <1>6, <2>3 DEF Witness, Sending
    <2>5. Pending' /\ Carries' /\ Shows'  BY <1>0, <1>1, <1>2, <1>6, <1>a, <1>s, <2>3 DEF Pending, Carries, Shows, Sending
    <2>6. ~Bad(log'.last, rows) /\ ~Bad(shown'.last, rows)
      <3>1. CASE Settled(refresh.sent)  BY <1>1, <3>1, NoneGood
      <3>2. CASE ~Settled(refresh.sent)
        <4>1. ~Bad(refresh.sent, rows)  BY <1>6, <3>2 DEF Settled, Bad
        <4>2. ~Bad(log.last, rows)  BY <1>0, <1>1, <1>6, <4>1 DEF Elsewhere
        <4>3. shown'.last # None /\ shown'.last.tx = refresh.sent.tx /\ refresh.sent # None => ~Bad(shown'.last, rows)
          BY <4>1 DEF Bad
        <4> QED BY <1>1, <3>2, <4>1, <4>2, <4>3
      <3> QED BY <3>1, <3>2
    <2>7. Elsewhere'  BY <1>1, <1>2, <1>3, <1>6, <2>6 DEF Elsewhere
    <2> QED BY <1>4, <1>b, <2>4, <2>5, <2>7 DEF EndCore
  <1> QED BY <1>5, <1>6

\* A step of the send, between its start and its end.
LEMMA OnwardEnd ==
    ASSUME SaidInv, EndCore, PayInv', Moves, told \subseteq told', at \notin {"idle", "ended"}, at' \notin {"idle", "ended"},
           UNCHANGED <<paid, shown, unsaved, lock, refresh>>, send'.open = send.open, run'.earlier = run.earlier, run'.note = run.note,
           run.recorded => run'.recorded,
           log'.started = log.started \/ (log'.started = 0 /\ at = "clearing" /\ ~lock.locked), log'.failure = log.failure,
           log'.last = log.last \/ (log'.last \in Notes /\ log'.last.tx = tx /\ rows' = rows /\ at = "noting"),
           at' = "clearing" => lock.locked \/ log'.last.tx[1] = Newest,
           \A t \in Tx : rows'[t] = "conflicted" => rows[t] = "conflicted"
    PROVE  EndCore'
  <1>0. CoreType /\ Running /\ PayInv /\ RowsTell /\ LockHolds /\ UnsavedHolds /\ Witness /\ Elsewhere /\ Shows
    BY DEF SaidInv, PayInv, FlowType, EndCore
  <1>1. Sending /\ Sending' /\ Newest' = Newest  BY DEF Sending, Newest
  <1>2. tx \in Tx /\ tx[1] = Newest  BY <1>0, <1>1, InHand DEF Newest
  <1>3. LockHolds' /\ UnsavedHolds' /\ Shows'  BY <1>0, <1>1 DEF LockHolds, UnsavedHolds, Shows, Asking
  <1>4. log'.started = Newest \/ (run'.recorded /\ log'.last.tx[1] = Newest)
    <2>1. CASE log'.started = 0 /\ at = "clearing" /\ ~lock.locked  BY <1>0, <2>1 DEF PayInv, OwnForm, Witness
    <2>2. CASE log'.started = log.started  BY <1>0, <1>2, <2>2 DEF Witness
    <2> QED BY <2>1, <2>2
  <1>5. Witness'  BY <1>0, <1>1, <1>4 DEF Witness
  <1>6. Pending' /\ AskSeen' /\ Carries'  BY <1>1 DEF Pending, AskSeen, Asking, Carries
  <1>7. \A n \in Notes : Bad(n, rows') => Bad(n, rows)  BY NoteIs DEF Bad
  <1>8. log.last \in Notes /\ shown.last \in Notes /\ run.earlier \in Notes /\ run.note \in Notes /\ refresh.sent \in Notes  BY <1>0 DEF CoreType, Logs, Pages, Runs, Refreshes
  <1>9. log'.last.tx = tx /\ rows' = rows /\ at = "noting" => ~Bad(log'.last, rows')
    <2>1. at = "noting" => rows[tx] = "pending"  BY <1>0 DEF RowsTell
    <2> QED BY <2>1 DEF Bad
  <1>10. Elsewhere'  BY <1>0, <1>1, <1>7, <1>8, <1>9 DEF Elsewhere
  <1> QED BY <1>3, <1>5, <1>6, <1>10 DEF EndCore

\* A step that ends the send.
LEMMA EndedEnd ==
    ASSUME SaidInv, EndCore, PayInv', Moves, told \subseteq told', ToldHolds', at \notin {"idle", "ended"}, EndKept, send'.open = send.open,
           shown'.job.ending = run'.ending, run'.ending \in Endings,
           shown'.last \in {None, shown.last, run.earlier} \/ (shown'.last.tx = tx /\ rows'[tx] = "pending"),
           run'.note \in {None, run.earlier} \/ (run'.note.tx = tx /\ rows'[tx] = "pending"),
           \A t \in Tx : rows'[t] = "conflicted" => rows[t] = "conflicted",
           "last" \in run'.pending => run.recorded,
           \/ run'.ending = "stopped" /\ run'.pending = {}
           \/ run'.ending = "failed" /\ "failure" \in run'.pending
           \/ run'.ending = "asks" /\ "failure" \notin run'.pending /\ ReviewThere /\ ~lock.locked
           \/ run'.ending \in {"sent", "unconfirmed"} /\ "last" \in run'.pending /\ (run'.note.tx = tx \/ Seen)
    PROVE  EndCore'
  <1>0. CoreType /\ Running /\ PayInv /\ RowsTell /\ LockHolds /\ UnsavedHolds /\ Witness /\ Elsewhere /\ Shows
    BY DEF SaidInv, PayInv, FlowType, EndCore
  <1>1. /\ at' = "ended" /\ paid' = paid /\ lock' = lock /\ refresh' = refresh /\ run'.recorded = run.recorded /\ run'.earlier = run.earlier
        /\ run'.here = run.here /\ log' = log /\ unsaved' = unsaved /\ shown'.job.send = shown.job.send
    BY DEF EndKept
  <1>2. Sending /\ Sending' /\ Newest' = Newest  BY <1>1 DEF Sending, Newest
  <1>3. tx \in Tx /\ tx[1] = Newest /\ shown.job.send = Newest  BY <1>0, <1>2, InHand DEF Newest, Running
  <1>4. LockHolds' /\ UnsavedHolds' /\ Shows'  BY <1>0, <1>1, <1>2 DEF LockHolds, UnsavedHolds, Shows, Asking
  <1>5. log.started = Newest \/ (run.recorded /\ log.last.tx[1] = Newest)  BY <1>0 DEF Witness
  <1>6. run'.ending \in {"sent", "unconfirmed"} => Newest \in told' \/ run'.note.tx[1] = Newest
    <2>1. CASE Seen /\ run'.ending \in {"sent", "unconfirmed"}  BY <1>1, <1>3, <2>1 DEF Seen, ToldHolds
    <2> QED BY <1>3, <2>1
  <1>7. Pending'  BY <1>1, <1>2, <1>5, <1>6 DEF Pending
  <1>8. AskSeen'  BY <1>1 DEF AskSeen, Asking, ReviewThere
  <1>9. Witness'
    <2>1. run'.ending = "stopped" => Newest \in told'  BY <1>1, <1>3 DEF ToldHolds
    <2>2. Written' => run'.ending \in {"stopped", "asks"}  BY DEF Written
    <2> QED BY <1>1, <1>2, <1>3, <1>5, <2>1, <2>2 DEF Witness
  <1>10. Carries'  BY <1>2 DEF Carries
  <1>11. \A n \in Notes : Bad(n, rows') => Bad(n, rows)  BY NoteIs DEF Bad
  <1>12. log.last \in Notes /\ shown.last \in Notes /\ run.earlier \in Notes /\ refresh.sent \in Notes  BY <1>0 DEF CoreType, Logs, Pages, Runs, Refreshes
  <1>13. \A n : n.tx = tx /\ rows'[tx] = "pending" => ~Bad(n, rows')  BY DEF Bad
  <1>14. ~Bad(log.last, rows') /\ ~Bad(shown.last, rows') /\ ~Bad(run.earlier, rows') /\ (refresh.at = "show" => ~Bad(refresh.sent, rows'))
    BY <1>0, <1>2, <1>11, <1>12 DEF Elsewhere
  <1>15. ~Bad(run'.note, rows') /\ ~Bad(shown'.last, rows')  BY <1>13, <1>14, NoneGood
  <1>16. Elsewhere'  BY <1>1, <1>2, <1>14, <1>15 DEF Elsewhere
  <1> QED BY <1>4, <1>7, <1>8, <1>9, <1>10, <1>16 DEF EndCore

\* The last note gives way, or is the send's own.
LEMMA WriteLastEnd ==
    ASSUME SaidInv, EndCore, PayInv', Moves, told \subseteq told', ToldHolds', WriteLast
    PROVE  EndCore'
  <1>0. CoreType /\ Running /\ PayInv /\ LockHolds /\ UnsavedHolds /\ Witness /\ Pending /\ AskSeen /\ Elsewhere /\ Shows
    BY DEF SaidInv, PayInv, FlowType, EndCore
  <1>1. /\ at = "ended" /\ UNCHANGED <<at, rows, shown, lock, refresh, send, paid, unsaved>>
        /\ "last" \in run.pending /\ run'.pending = run.pending \ {"last"} /\ log'.started = log.started /\ log'.failure = log.failure
        /\ run'.send = run.send /\ run'.recorded = run.recorded /\ run'.earlier = run.earlier
        /\ run'.here = run.here /\ run'.ending = run.ending /\ run'.note = None
        /\ run.ending \in {"sent", "unconfirmed"} => "failure" \notin run.pending
        /\ log'.last = (IF lock.locked THEN log.last ELSE run.note)
    BY <1>0, WriteLastIs DEF Writes
  <1>2. Sending /\ Sending' /\ Newest' = Newest /\ (Known => Known')  BY <1>0, <1>1, KnownKept DEF Sending, Newest
  <1>3. run.ending \in {"sent", "unconfirmed", "failed", "asks"} /\ run.pending \subseteq {"last", "failure"}
    BY <1>0, <1>1 DEF CoreType, Runs, Running, Endings, Pending
  <1>4. run.recorded /\ (log.started = Newest \/ log.last.tx[1] = Newest)  BY <1>0, <1>1 DEF Pending
  <1>5. LockHolds' /\ UnsavedHolds' /\ Carries'  BY <1>0, <1>1, <1>2 DEF LockHolds, UnsavedHolds, Carries
  <1>6. Shows' /\ AskSeen'  BY <1>0, <1>1, <1>2 DEF Shows, AskSeen, Asking
  <1>7. Pending'  BY <1>0, <1>1, <1>2, <1>3 DEF Pending
  <1>8. run.ending \in {"sent", "unconfirmed"} => Newest \in told \/ run.note.tx[1] = Newest  BY <1>0, <1>1 DEF Pending
  <1>9. run.ending = "failed" => run'.pending = {"failure"}  BY <1>0, <1>1, <1>3 DEF Pending
  <1>10. run.ending = "asks" => run'.pending = {} /\ ~lock.locked
    <2>1. run.ending = "asks" => ~lock.locked  BY <1>0, <1>1 DEF AskSeen, Asking
    <2> QED BY <1>0, <1>1, <1>3, <2>1 DEF Pending
  <1>11. Known' \/ GivenWay' \/ Newest \in {log'.started, log'.last.tx[1], log'.failure}
    <2>1. CASE lock.locked  BY <1>1, <1>4, <2>1
    <2>2. CASE ~lock.locked /\ run.ending \in {"sent", "unconfirmed"}  BY <1>1, <1>2, <1>8, <2>2 DEF Known
    <2>3. CASE ~lock.locked /\ run.ending = "failed"
      <3>1. CASE lock.visible
        <4>1. Newest \in told'  BY <1>0, <1>1, <2>3, <3>1 DEF Witness, ToldHolds
        <4> QED BY <1>2, <4>1 DEF Known
      <3>2. CASE ~lock.visible  BY <1>1, <1>4, <1>9, <2>3, <3>2 DEF GivenWay
      <3> QED BY <3>1, <3>2
    <2>4. CASE ~lock.locked /\ run.ending = "asks"  BY <1>1, <1>4, <1>10, <2>4 DEF GivenWay, Written
    <2> QED BY <1>3, <2>1, <2>2, <2>3, <2>4
  <1>12. Witness'
    <2>1. Written' /\ run'.ending # "asks" => run.ending \in {"sent", "unconfirmed"}  BY <1>1, <1>3, <1>9 DEF Written
    <2>2. run.ending \in {"sent", "unconfirmed"} => Newest \in told' \/ log'.last.tx[1] = Newest \/ (lock.locked /\ log'.started = Newest)
      BY <1>1, <1>4, <1>8
    <2> QED BY <1>0, <1>1, <1>2, <1>11, <2>1, <2>2 DEF Witness
  <1>13. ~Bad(log'.last, rows') /\ ~Bad(run'.note, rows')  BY <1>0, <1>1, <1>2, NoneGood DEF Elsewhere
  <1>14. Elsewhere'  BY <1>0, <1>1, <1>2, <1>13 DEF Elsewhere
  <1> QED BY <1>5, <1>6, <1>7, <1>12, <1>14 DEF EndCore

\* The failure is noted, or an older one put away before the send's own note.
LEMMA WriteFailureEnd ==
    ASSUME SaidInv, EndCore, PayInv', Moves, told \subseteq told', WriteFailure
    PROVE  EndCore'
  <1>0. CoreType /\ Running /\ PayInv /\ LockHolds /\ UnsavedHolds /\ Witness /\ Pending /\ AskSeen /\ Elsewhere /\ Shows
    BY DEF SaidInv, PayInv, FlowType, EndCore
  <1>1. /\ at = "ended" /\ UNCHANGED <<at, rows, shown, lock, refresh, send, paid>>
        /\ "failure" \in run.pending /\ run'.pending = run.pending \ {"failure"} /\ log'.started = log.started /\ log'.last = log.last
        /\ run'.send = run.send /\ run'.recorded = run.recorded /\ run'.earlier = run.earlier
        /\ run'.here = run.here /\ run'.ending = run.ending /\ run'.note = run.note
        /\ run.ending = "failed" => "last" \notin run.pending
        /\ log'.failure = (IF lock.locked THEN log.failure ELSE IF run.ending = "failed" THEN run.send ELSE 0)
        /\ unsaved' = (IF run.ending = "failed" /\ lock.locked THEN run.send ELSE unsaved)
    BY <1>0, WriteFailureIs DEF Writes
  <1>2. Sending /\ Sending' /\ Newest' = Newest /\ run.send = Newest /\ (Known => Known')
    <2>1. Sending /\ Sending'  BY <1>1 DEF Sending
    <2> QED BY <1>0, <1>1, <2>1, KnownKept DEF Newest, Running
  <1>3. run.ending \in {"sent", "unconfirmed", "failed"} /\ run.pending \subseteq {"last", "failure"}
    BY <1>0, <1>1 DEF CoreType, Runs, Running, Endings, Pending
  <1>4. LockHolds' /\ Carries'  BY <1>0, <1>1, <1>2 DEF LockHolds, Carries
  <1>5. UnsavedHolds'  BY <1>0, <1>1, <1>2 DEF UnsavedHolds
  <1>6. Shows' /\ AskSeen'  BY <1>0, <1>1, <1>2 DEF Shows, AskSeen, Asking
  <1>7. Pending'  BY <1>0, <1>1, <1>2, <1>3 DEF Pending
  <1>8. run.ending \in {"sent", "unconfirmed"} => "last" \in run'.pending /\ (log.started = Newest \/ log.last.tx[1] = Newest)
    BY <1>0, <1>1 DEF Pending
  <1>9. run.ending = "failed" /\ lock.locked => Newest \in told \/ Newest \in {log.started, log.last.tx[1], log.failure}
    <2>1. lock.locked => ~GivenWay  BY DEF GivenWay
    <2> QED BY <1>0, <1>2, <2>1, KnownSending DEF Witness
  <1>10. Witness'
    <2>1. CASE run.ending \in {"sent", "unconfirmed"}  BY <1>0, <1>1, <1>2, <1>8, <2>1 DEF Witness, Written
    <2>2. CASE run.ending = "failed"  BY <1>0, <1>1, <1>2, <1>9, <2>2 DEF Witness, Known
    <2> QED BY <1>3, <2>1, <2>2
  <1>11. Elsewhere'  BY <1>0, <1>1, <1>2 DEF Elsewhere
  <1> QED BY <1>4, <1>5, <1>6, <1>7, <1>10, <1>11 DEF EndCore

LEMMA OverEnd ==
    ASSUME SaidInv, ToldHolds, EndCore, PayInv', Moves, told \subseteq told', ToldHolds', Finally, shown'.job = NoJob => Newest \in told'
    PROVE  EndCore'
  <1>0. CoreType /\ Running /\ PayInv /\ RowsTell /\ StartedTells /\ LockHolds /\ UnsavedHolds /\ Witness /\ AskSeen /\ Elsewhere /\ Shows
    BY DEF SaidInv, PayInv, FlowType, EndCore
  <1>1. /\ UNCHANGED <<rows, unsaved, paid>> /\ at = "ended" /\ at' = "idle" /\ Written /\ shown'.job = JobAfter
        /\ log'.started = (IF lock.locked THEN log.started ELSE 0) /\ log'.last = log.last /\ log'.failure = log.failure
        /\ ~lock.waiting => UNCHANGED <<lock, refresh>> /\ shown'.last = shown.last /\ shown'.failure = shown.failure /\ send'.open = send.open
        /\ lock.waiting => lock'.locked /\ ~lock'.waiting /\ ~send'.open /\ shown'.failure = 0 /\ shown'.last = None /\ refresh'.at = "off"
    BY <1>0, FinallyIs
  <1>2. Sending /\ ~Sending' /\ Newest' = Newest /\ (Known => Known')  BY <1>0, <1>1, KnownKept DEF Sending, Newest
  <1>3. lock.waiting \in BOOLEAN /\ lock.locked \in BOOLEAN  BY <1>0 DEF CoreType, Locks
  <1>4. LockHolds'  BY <1>0, <1>1, <1>2, <1>3 DEF LockHolds
  <1>5. UnsavedHolds'  BY <1>0, <1>1, <1>2, <1>3 DEF UnsavedHolds, LockHolds
  <1>6. Pending' /\ AskSeen'  BY <1>1 DEF Pending, AskSeen, Asking
  <1>7. run.ending = "asks" => Known' /\ shown'.job = NoJob
    <2> SUFFICES ASSUME run.ending = "asks" PROVE Known' /\ shown'.job = NoJob  OBVIOUS
    <2>1. run.here  BY <1>0, <1>1 DEF AskSeen, Asking
    <2>2. shown'.job = NoJob  BY <1>1, <2>1 DEF JobAfter
    <2> QED BY <1>2, <2>2 DEF Known
  <1>8. run.ending # "asks" => shown'.job = shown.job  BY <1>1 DEF JobAfter
  <1>9. run.ending # "asks" => Newest \in told \/ (shown.job.send = Newest /\ shown.job.ending \in Endings \ {"asks"})
    <2>1. run.ending \in Endings  BY <1>0, <1>1 DEF CoreType, Runs, Running
    <2> QED BY <1>0, <1>1, <2>1 DEF Witness
  <1>10. Witness'
    <2>1. Known' \/ Newest' \in {log'.started, log'.last.tx[1], log'.failure}
      BY <1>0, <1>1, <1>2, <1>7 DEF Witness, Known
    <2> QED BY <1>1, <2>1 DEF Witness
  <1>11. ~lock'.locked => Known'
    <2> SUFFICES ASSUME ~lock'.locked, run.ending # "asks" PROVE Known'  BY <1>7
    <2>1. ~lock.waiting /\ ~lock.locked /\ lock.visible  BY <1>0, <1>1, <1>3 DEF LockHolds
    <2> QED BY <1>0, <1>2, <1>9, <2>1, JobSeen DEF Known
  <1>12. Carries'  BY <1>4, <1>11 DEF Carries, LockHolds
  <1>13. Elsewhere'
    <2>1. ~Bad(log'.last, rows')  BY <1>0, <1>1, <1>2 DEF Elsewhere
    <2>2. ~Bad(shown'.last, rows')  BY <1>0, <1>1, <1>2, <1>3, NoneGood DEF Elsewhere
    <2>3. refresh'.at \in {"started", "show"} => ~Bad(refresh'.sent, rows')
      BY <1>0, <1>1, <1>2, <1>3 DEF Elsewhere, StartedTells
    <2> QED BY <1>2, <2>1, <2>2, <2>3 DEF Elsewhere
  <1>14. Shows'
    <2>1. CASE run.ending = "asks"
      <3>1. NoJob.ending = "none"  BY DEF NoJob
      <3> QED BY <1>7, <2>1, <3>1 DEF Shows
    <2>2. CASE run.ending # "asks"
      <3>1. shown'.job.ending # "asks"  BY <1>0, <1>8, <2>2 DEF Shows, Asking
      <3>2. shown.job.ending = "stopped" => Known'  BY <1>0, <1>2, JobSeen DEF Endings
      <3>3. Known' \/ (shown'.job.send = Newest' /\ shown'.job.ending \in {"sent", "unconfirmed", "failed"})
        BY <1>2, <1>8, <1>9, <2>2, <3>2 DEF Known, Endings
      <3> QED BY <3>1, <3>3 DEF Shows
    <2> QED BY <2>1, <2>2
  <1> QED BY <1>4, <1>5, <1>6, <1>10, <1>12, <1>13, <1>14 DEF EndCore

LEMMA CloseEnd ==
    ASSUME NothingRare, SaidInv, EndCore, Moves, told \subseteq told', Close
    PROVE  EndCore'
  <1>0. CoreType /\ PayInv /\ Witness /\ Elsewhere  BY DEF SaidInv, PayInv, FlowType, EndCore
  <1>1. /\ UNCHANGED <<log, rows, paid>> /\ ~GivenWay /\ at' = "idle" /\ unsaved' = 0 /\ refresh'.at = "off"
        /\ shown'.job = NoJob /\ shown'.last = None /\ shown'.failure = 0
        /\ lock'.locked /\ ~lock'.waiting /\ lock'.visible /\ ~send'.open
    BY <1>0, CloseIs DEF NothingRare
  <1>2. ~Sending' /\ Newest' = Newest /\ (Known => Known')  BY <1>0, <1>1, KnownKept DEF Sending, Newest
  <1>3. LockHolds' /\ UnsavedHolds' /\ Pending' /\ AskSeen' /\ Carries'  BY <1>1 DEF LockHolds, UnsavedHolds, Pending, AskSeen, Asking, Carries
  <1>4. Witness'  BY <1>0, <1>1, <1>2 DEF Witness
  <1>5. Elsewhere'  BY <1>0, <1>1, <1>2 DEF Elsewhere
  <1>6. NoJob.ending = "none"  BY DEF NoJob
  <1>7. Shows'  BY <1>1, <1>6 DEF Shows
  <1> QED BY <1>3, <1>4, <1>5, <1>7 DEF EndCore

LEMMA EndingsEnd ==
    ASSUME NothingRare, SaidInv, EndCore, PayInv', Moves, told \subseteq told', ToldHolds', at \notin {"idle", "ended"},
           \/ Stopped
           \/ Failed /\ (rows' = rows \/ (at = "discarding" /\ rows' = [rows EXCEPT ![tx] = "none"]))
           \/ AskLustration /\ ~lock.locked
           \/ at = "submitting" /\ (Unconfirmed \/ Sent)
    PROVE  EndCore'
  <1>0. CoreType /\ Running /\ RowsTell /\ OwnForm  BY DEF SaidInv, PayInv, FlowType
  <1>1. Sending /\ tx \in Tx  BY <1>0, InHand DEF Sending
  <1>2. rows \in [Tx -> {"none", "pending", "over", "conflicted"}]  BY <1>0 DEF CoreType
  <1>3. CASE Stopped
    <2>1. /\ EndKept /\ UNCHANGED <<rows, send>> /\ shown'.job.ending = "stopped" /\ run'.ending = "stopped"
          /\ run'.pending = {} /\ run'.note = None /\ shown'.last = shown.last
      BY <1>0, <1>3, StoppedIs
    <2> QED BY <2>1, EndedEnd DEF Endings
  <1>4. CASE Failed /\ (rows' = rows \/ (at = "discarding" /\ rows' = [rows EXCEPT ![tx] = "none"]))
    <2>1. rows' \in [Tx -> {"none", "pending", "over", "conflicted"}] /\ \A t \in Tx : rows'[t] = "conflicted" => rows[t] = "conflicted"
      BY <1>1, <1>2, <1>4
    <2>2. /\ EndKept /\ UNCHANGED send /\ shown'.job.ending = "failed" /\ run'.ending = "failed" /\ run'.note = run.earlier
          /\ run'.pending = (IF run.recorded THEN {"last", "failure"} ELSE {"failure"})
          /\ shown'.last = (IF run.recorded THEN run.earlier ELSE shown.last)
      BY <1>0, <1>4, <2>1, FailedIs
    <2>3. shown'.last \in {shown.last, run.earlier} /\ "failure" \in run'.pending /\ ("last" \in run'.pending => run.recorded)
      BY <2>2
    <2> QED BY <2>1, <2>2, <2>3, EndedEnd DEF Endings
  <1>5. CASE AskLustration /\ ~lock.locked
    <2>1. /\ EndKept /\ UNCHANGED <<rows, send>> /\ ReviewThere /\ shown'.job.ending = "asks" /\ run'.ending = "asks" /\ run'.note = run.earlier
          /\ run'.pending = (IF run.recorded THEN {"last"} ELSE {})
          /\ shown'.last = (IF run.recorded THEN run.earlier ELSE shown.last)
      BY <1>0, <1>5, AskLustrationIs DEF NothingRare
    <2>2. shown'.last \in {shown.last, run.earlier} /\ "failure" \notin run'.pending /\ ("last" \in run'.pending => run.recorded)
      BY <2>1
    <2> QED BY <1>5, <2>1, <2>2, EndedEnd DEF Endings
  <1>6. CASE at = "submitting" /\ (Unconfirmed \/ Sent)
    <2>1. /\ EndKept /\ UNCHANGED rows /\ send'.open = send.open
          /\ shown'.job.ending \in {"sent", "unconfirmed"} /\ run'.ending = shown'.job.ending /\ run'.pending = {"last", "failure"}
          /\ (Seen /\ shown'.last = None) \/ (shown'.last \in Notes /\ shown'.last.tx = tx)
          /\ run'.note = shown'.last
      BY <1>0, <1>1, <1>6, GoesOutIs
    <2>2. rows'[tx] = "pending" /\ run.recorded  BY <1>0, <1>6, <2>1 DEF RowsTell, OwnForm
    <2> QED BY <2>1, <2>2, EndedEnd DEF Endings
  <1> QED BY <1>3, <1>4, <1>5, <1>6

LEMMA SendStepsEnd ==
    ASSUME NothingRare, SaidInv, ToldHolds, EndCore, PayInv', Moves, told \subseteq told', ToldHolds', SendSteps \/ NodeTakes,
           at # "idle" /\ at' = "idle" /\ shown'.job = NoJob /\ closes' = closes => Newest \in told'
    PROVE  EndCore'
  <1>0. CoreType /\ Running /\ PayInv /\ RowsTell /\ EndCore /\ Witness  BY DEF SaidInv, PayInv, FlowType, EndCore
  <1>1. ASSUME at \notin {"idle", "ended"}, at' \notin {"idle", "ended", "clearing"}, UNCHANGED <<log, shown, unsaved, lock, refresh, send, paid>>,
               run' = run \/ Again, \A t \in Tx : rows'[t] = "conflicted" => rows[t] = "conflicted"
        PROVE  EndCore'
    <2>1. run'.earlier = run.earlier /\ run'.note = run.note /\ (run.recorded => run'.recorded)  BY <1>0, <1>1, AgainIs
    <2> QED BY <1>1, <2>1, OnwardEnd
  <1>2. CASE Build
    <2>1. at = "building"  BY <1>2 DEF Build
    <2>2. CASE Stopped \/ (Failed /\ rows' = rows)  BY <1>0, <2>1, <2>2, EndingsEnd
    <2>3. CASE AskLustration /\ ~lock.locked  BY <1>0, <2>1, <2>3, EndingsEnd
    <2>4. CASE (Again /\ Goes("building")) \/ (Goes("proving") /\ UNCHANGED run)  BY <1>1, <2>1, <2>4 DEF Goes
    <2> QED BY <1>2, <2>2, <2>3, <2>4 DEF Build
  <1>3. CASE Prove
    <2>1. at = "proving"  BY <1>3 DEF Prove
    <2>2. CASE Stopped \/ (Failed /\ rows' = rows)  BY <1>0, <2>1, <2>2, EndingsEnd
    <2>3. CASE at' = "noting" /\ rows' = [rows EXCEPT ![tx] = "pending"] /\ UNCHANGED <<run, log, shown, unsaved, lock, refresh, send, paid>>
      <3>1. \A t \in Tx : rows'[t] = "conflicted" => rows[t] = "conflicted"  BY <1>0, <2>3 DEF CoreType
      <3> QED BY <1>1, <2>1, <2>3, <3>1
    <2> QED BY <1>3, <2>2, <2>3 DEF Prove
  <1>4. CASE OnRecorded
    <2>1. /\ UNCHANGED <<rows, shown, unsaved, lock, refresh, paid>> /\ at = "noting" /\ at' = "clearing"
          /\ run'.recorded /\ run'.earlier = run.earlier /\ run'.note = run.note /\ log'.started = log.started /\ log'.failure = log.failure
          /\ lock.locked => log'.last = log.last
          /\ ~lock.locked => log'.last \in Notes /\ log'.last.tx = tx
      BY <1>0, <1>4, OnRecordedIs
    <2>2. send'.open = send.open
      <3>1. send' = [send EXCEPT !.recorded = paid[run.send], !.draft = 0]  BY <1>4 DEF OnRecorded
      <3> QED BY <1>0, <3>1 DEF CoreType, Forms
    <2>3. tx[1] = Newest  BY <1>0, <2>1, InHand DEF Sending, Newest
    <2>4. lock.locked \/ log'.last.tx[1] = Newest  BY <2>1, <2>3
    <2> QED BY <2>1, <2>2, <2>4, OnwardEnd
  <1>5. CASE StartedCleared
    <2>1. /\ UNCHANGED <<run, rows, shown, unsaved, lock, refresh, send, paid>> /\ at = "clearing" /\ at' = "submitting"
          /\ log'.started = (IF lock.locked THEN log.started ELSE 0) /\ log'.last = log.last /\ log'.failure = log.failure
      BY <1>0, <1>5, StartedClearedIs
    <2>2. log'.started = log.started \/ (log'.started = 0 /\ at = "clearing" /\ ~lock.locked)  BY <2>1
    <2> QED BY <2>1, <2>2, OnwardEnd
  <1>6. CASE AnswerLost \/ Accepted  BY <1>0, <1>6, EndingsEnd DEF AnswerLost, Accepted
  <1>7. CASE Refused  BY <1>1, <1>7 DEF Refused, Goes
  <1>8. CASE NodeTakes  BY <1>1, <1>8 DEF NodeTakes
  <1>9. CASE Discard
    <2>1. at = "discarding"  BY <1>9 DEF Discard
    <2>2. CASE Failed /\ (rows' = rows \/ rows' = [rows EXCEPT ![tx] = "none"])  BY <1>0, <2>1, <2>2, EndingsEnd
    <2>3. CASE Again /\ at' = "building" /\ rows' = [rows EXCEPT ![tx] = "none"] /\ UNCHANGED <<log, shown, unsaved, lock, refresh, send, paid>>
      <3>1. \A t \in Tx : rows'[t] = "conflicted" => rows[t] = "conflicted"  BY <1>0, <2>3 DEF CoreType
      <3> QED BY <1>1, <2>1, <2>3, <3>1
    <2> QED BY <1>9, <2>2, <2>3 DEF Discard
  <1>10. CASE Finally
    <2>1. at # "idle" /\ at' = "idle" /\ closes' = closes  BY <1>10 DEF Finally
    <2> QED BY <1>10, <2>1, OverEnd
  <1>11. CASE WriteLast \/ WriteFailure  BY <1>11, WriteLastEnd, WriteFailureEnd
  <1> QED BY <1>2, <1>3, <1>4, <1>5, <1>6, <1>7, <1>8, <1>9, <1>10, <1>11 DEF SendSteps

LEMMA EndStep == ASSUME NothingRare, EndInv, [Next]_vars PROVE EndInv'
  <1>0. ReadsAtRest /\ SaidInv /\ ToldHolds /\ EndCore  BY DEF NothingRare, ReadsAtRest, EndInv
  <1>1. SaidInv'  BY <1>0, SaidStep
  <1>2. PayInv' /\ CoreType'  BY <1>1 DEF SaidInv, PayInv, FlowType
  <1>3. CASE Next
    <2>1. Steps /\ Watch  BY <1>3, NextIs
    <2>2. Moves  BY <1>0, <2>1, MovesIs DEF SaidInv
    <2>3. /\ told \subseteq told'
          /\ ~lock'.locked /\ lock'.visible =>
               /\ shown'.failure # 0 => shown'.failure \in told'
               /\ shown'.last.tx[1] # 0 => shown'.last.tx[1] \in told'
               /\ shown'.job.ending \in {"sent", "unconfirmed", "failed"} /\ shown'.job.send # 0 => shown'.job.send \in told'
          /\ shown'.job.ending = "stopped" /\ shown'.job.send # 0 => shown'.job.send \in told'
          /\ at # "idle" /\ at' = "idle" /\ shown'.job = NoJob /\ closes' = closes /\ run.send # 0 => run.send \in told'
      BY <1>0, <1>2, <2>1, WatchIs DEF SaidInv, PayInv
    <2>4. ToldHolds'
      <3>1. shown'.job.ending \in Endings => shown'.job.send # 0
        <4>1. NoJob.ending = "none"  BY DEF NoJob
        <4>2. shown'.job = NoJob \/ (shown'.job.send = Len(paid') /\ Len(paid') >= 1)  BY <1>2 DEF PayInv, Running
        <4> QED BY <4>1, <4>2 DEF Endings
      <3> QED BY <2>3, <3>1 DEF ToldHolds, Endings
    <2>5. at # "idle" /\ at' = "idle" /\ shown'.job = NoJob /\ closes' = closes => Newest \in told'
      <3>1. at # "idle" => run.send = Newest /\ run.send # 0  BY <1>0 DEF SaidInv, PayInv, Running, Sending, Newest
      <3> QED BY <2>3, <3>1
    <2>6. EndCore'
      BY <1>0, <1>2, <2>1, <2>2, <2>3, <2>4, <2>5, ScreensEnd, StartEnd, LockEnd, PageReadsEnd, RefreshLastEnd, RefreshStartedEnd, RefreshShowEnd,
         SendStepsEnd, CloseEnd DEF Steps
    <2> QED BY <1>1, <2>4, <2>6 DEF EndInv
  <1>4. CASE UNCHANGED vars
    <2>1. /\ at' = at /\ run' = run /\ log' = log /\ rows' = rows /\ shown' = shown /\ unsaved' = unsaved
          /\ lock' = lock /\ refresh' = refresh /\ send' = send /\ told' = told /\ paid' = paid
      BY <1>4 DEF vars
    <2>2. (Known' <=> Known) /\ Newest' = Newest /\ (Sending' <=> Sending)  BY <2>1 DEF Known, Newest, Sending
    <2>a. (GivenWay' <=> GivenWay) /\ (Written' <=> Written) /\ (Asking' <=> Asking)  BY <2>1 DEF GivenWay, Written, Asking
    <2>3. ToldHolds' /\ LockHolds' /\ UnsavedHolds' /\ Shows'  BY <1>0, <2>1, <2>2, <2>a DEF ToldHolds, LockHolds, UnsavedHolds, Shows, EndCore
    <2>4. Witness' /\ Pending' /\ AskSeen' /\ Carries'  BY <1>0, <2>1, <2>2, <2>a DEF Witness, Pending, AskSeen, Carries, EndCore
    <2>5. Elsewhere'  BY <1>0, <2>1, <2>2 DEF Elsewhere, EndCore
    <2> QED BY <1>1, <2>3, <2>4, <2>5 DEF EndInv, EndCore
  <1> QED BY <1>3, <1>4

LEMMA EndInit == Init => EndInv
  <1> SUFFICES ASSUME Init PROVE EndInv  OBVIOUS
  <1>1. SaidInv  BY SaidInit
  <1>2. /\ at = "idle" /\ log.last = None /\ shown.job.ending = "none" /\ shown.last = None /\ shown.failure = 0 /\ unsaved = 0
        /\ ~lock.locked /\ ~lock.waiting /\ lock.visible /\ refresh.at = "off" /\ Newest = 0
    BY DEF Init, NoJob, NoRefresh, Newest
  <1>3. ~Sending /\ Known  BY <1>2 DEF Sending, Known
  <1>4. ToldHolds /\ LockHolds /\ UnsavedHolds  BY <1>2, NoteIs DEF ToldHolds, LockHolds, UnsavedHolds
  <1>5. Witness /\ Pending /\ AskSeen /\ Carries /\ Elsewhere /\ Shows
    BY <1>2, <1>3, NoneGood DEF Witness, Pending, AskSeen, Asking, Carries, Elsewhere, Shows
  <1> QED BY <1>1, <1>4, <1>5 DEF EndInv, EndCore

(* The newest send does not end without a word, whatever lock, change of     *)
(* screen, Cancel or end of the app came while it ran: until the person has *)
(* seen how it ended, a sealed note names it, or its row tells its end, and *)
(* the refresh after the next unlock brings that to the page                *)
(* (sendInProgress, lastSend and lastSendFailure in accounts.ts, the notes' *)
(* reading in refresh); in none of the uncommon orders of events.           *)
THEOREM EndsWithAWord == NothingRare /\ Spec => []NoSilentEnd
  <1>1. ASSUME EndInv PROVE NoSilentEnd
    <2>1. Known \/ Sending \/ Newest \in {log.started, log.last.tx[1], log.failure}
      BY <1>1 DEF EndInv, EndCore, Witness, GivenWay, Sending
    <2> QED BY <2>1 DEF NoSilentEnd, Known, Latest, Newest
  <1> SUFFICES ASSUME NothingRare PROVE Spec => []NoSilentEnd  OBVIOUS
  <1>2. EndInv /\ [Next]_vars => EndInv'  BY EndStep
  <1> QED BY <1>1, <1>2, EndInit, PTL DEF Spec
===============================================================================
